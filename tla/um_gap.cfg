CONSTANTS
  Window = 3
  SnSpace = 6
  MaxTxBufferSize = 4
  SduSizes <- MCSduSizes
  MaxGrant = 2
  MaxSdus = 2
  MaxAhead = 3
  MaxGap = 6
SPECIFICATION UmSpec
INVARIANTS
  OutsideIsReassembled
PROPERTIES
  TimerMovesOnlyWhenPassed
\* A behaviour ends when its MaxSdus SDUs have been dealt with.
CHECK_DEADLOCK FALSE
