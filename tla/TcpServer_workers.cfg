SPECIFICATION FairSpec
CONSTANTS
  Conn = {c1, c2, c3}
  Base = base
  w1 = w1
  w2 = w2
  Workers <- TwoWorkers
  MaxConnections = 2
  KeepAlive = FALSE
INVARIANTS NoAssertFails DestroyedClean CountExact
PROPERTIES DelayedCloseWorks DownIsReleased
CHECK_DEADLOCK FALSE
