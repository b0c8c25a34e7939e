CONSTANTS
  SnSpace = 4
  Window = 2
  StatusOvertakes = FALSE
  MaxSdus = 6
  MaxUnderWay = 2
  MaxStatus = 2
  MaxNacks = 2
SPECIFICATION AmFairSpec
INVARIANTS
  NothingIsSkipped
  ForgottenIsReceived
PROPERTIES
  EverySduArrives
\* A behaviour ends when its MaxSdus SDUs have been acknowledged.
CHECK_DEADLOCK FALSE
