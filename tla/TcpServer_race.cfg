SPECIFICATION Spec
CONSTANTS
  Conn = {c1}
  Base = base
  w1 = w1
  w2 = w2
  Workers <- OneWorker
  MaxConnections = 1
  KeepAlive = TRUE
INVARIANT DestroyedClean
CHECK_DEADLOCK FALSE
