SPECIFICATION Spec
CONSTANTS
  Conn = {c1, c2, c3}
  MaxWorkers = 2
  ExpireSeconds = 1
  MaxJump = 1
INVARIANT AllWatched
PROPERTY FrontReaped
