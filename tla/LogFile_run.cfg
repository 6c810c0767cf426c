SPECIFICATION SpecF
CONSTANTS
  BufferSize = 3
  DropAbove = 3
  MaxLines = 7
  RollSize = 2
  RollSeconds = 2
  CheckEveryN = 2
  FlushInterval = 0
  MaxClock = 3
INVARIANTS BuffersRecycled FilesInOrder RolledInTime
PROPERTY LineLeaves
\* the logger may be stopped
CHECK_DEADLOCK FALSE
