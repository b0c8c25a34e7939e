CONSTANTS
  Window = 3
  SnSpace = 6
  Decision = 1
  DataBearer = TRUE
  Uplink = FALSE
  EraseMayStop = TRUE
  MaxSdus = 11
  MaxOutstanding = 3
  U16 <- MCU16
  U32 <- MCU32
SPECIFICATION FairSpec
INVARIANTS
  TypeOK
  InStep
  InOrderDelivery
  OnlyLateSdusAreDropped
PROPERTIES
  ImplementsOrderedDelivery
  StoredGoesUp
  ExpiryReleasesGuarded
  GapsOnlyByTimer
\* A behaviour ends when its MaxSdus SDUs have been dealt with.
CHECK_DEADLOCK FALSE
