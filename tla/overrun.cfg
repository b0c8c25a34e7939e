CONSTANTS
  Window = 2
  SnSpace = 4
  Decision = 2
  DataBearer = TRUE
  Uplink = FALSE
  EraseMayStop = FALSE
  MaxSdus = 13
  MaxOutstanding = 4
  U16 <- MCU16
  U32 <- MCU32
SPECIFICATION Spec
INVARIANTS
  StoredIsGuarded
  NoCountUnderflow
PROPERTIES
  RestartOnlyWhenSubmitted
\* A behaviour ends when its MaxSdus SDUs have been dealt with.
CHECK_DEADLOCK FALSE
