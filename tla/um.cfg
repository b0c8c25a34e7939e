CONSTANTS
  Window = 2
  SnSpace = 4
  MaxTxBufferSize = 4
  SduSizes <- MCSduSizes
  MaxGrant = 2
  MaxSdus = 4
  MaxAhead = 2
  MaxGap = 2
SPECIFICATION UmFairSpec
INVARIANTS
  SdusGoUpWhole
  NoReassemblyError
  OnlyMissedSdusAreDropped
  BufferedIsGuarded
PROPERTIES
  OnlyStingyGrantForgets
  ImplementsOrderedDelivery
  BufferedIsReassembled
  QueuedIsSent
\* A behaviour ends when its MaxSdus SDUs have been dealt with.
CHECK_DEADLOCK FALSE
