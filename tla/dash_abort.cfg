CONSTANTS
  Last = 2
  FileSize <- MCFileSize
  TxCapacity = 3
  MaxBuffered = 2
  Aborts = TRUE
SPECIFICATION DashSpec
INVARIANTS
  WholeFileReceived
\* A behaviour ends when all segments have been played.
CHECK_DEADLOCK FALSE
