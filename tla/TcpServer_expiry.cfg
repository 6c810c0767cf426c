SPECIFICATION Spec
CONSTANTS
  Conn = {c1, c2}
  Base = base
  w1 = w1
  w2 = w2
  Workers <- OneWorker
  MaxConnections = 1
  KeepAlive = TRUE
INVARIANTS RawThisAlive FinAfterOutput
CHECK_DEADLOCK FALSE
