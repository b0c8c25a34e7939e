CONSTANTS
  SnSpace = 6
  Window = 3
  StatusOvertakes = TRUE
  MaxSdus = 3
  MaxUnderWay = 3
  MaxStatus = 2
  MaxNacks = 2
SPECIFICATION AmSpec
INVARIANT
  NackedIsKept
\* A behaviour ends when its MaxSdus SDUs have been acknowledged.
CHECK_DEADLOCK FALSE
