CONSTANTS
  Window = 2
  SnSpace = 4
  Decision = 1
  DataBearer = TRUE
  Uplink = FALSE
  EraseMayStop = FALSE
  MaxSdus = 8
  MaxOutstanding = 2
  U16 <- MCU16
  U32 <- MCU32
SPECIFICATION Spec
PROPERTIES
  WrapIncrementsRxHfn
\* A behaviour ends when its MaxSdus SDUs have been dealt with.
CHECK_DEADLOCK FALSE
