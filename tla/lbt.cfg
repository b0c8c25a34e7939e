CONSTANTS
  Slot = 3
  Defer = 4
  CwMin = 1
  CwMax = 5
  HarqDelay = 6
  HarqExpiry = 9
  BusyDurations <- MCBusyDurations
  RequestGap = 4
SPECIFICATION LbtFairSpec
INVARIANTS
  RequestIsPending
  AssertionsHold
  LbtInStep
PROPERTIES
  GrantOnlyAfterDefer
  BackoffIsServed
  CwMovesOncePerTxop
  RequestIsGranted
