CONSTANTS
  Last = 9
  FileSize <- MCFileSize
  TxCapacity = 4
  MaxBuffered = 3
  Aborts = FALSE
SPECIFICATION DashFairSpec
INVARIANTS
  WholeFileReceived
  UnsentIsCalledBack
  SegmentsInOrder
PROPERTIES
  EverySegmentPlayed
\* A behaviour ends when all segments have been played.
CHECK_DEADLOCK FALSE
