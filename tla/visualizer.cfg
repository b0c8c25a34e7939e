CONSTANTS
  Sources <- MCSources
  Periods <- MCPeriods
  MaxTime = 3
  MaxMessages = 2
SPECIFICATION FairSpec
CHECK_DEADLOCK FALSE
INVARIANTS
  PauseMessagesShownOnce
  StopsSoon
PROPERTIES
  PauseStopsTimers
  QuitEnds
