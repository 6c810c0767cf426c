SPECIFICATION ThreadSpec
CONSTANTS
  Thread = {t1, t2, t3}
  Owner = t1
  Functor = {f1, f2, f3}
  IoChannel = {c1}
INVARIANT NoLostWakeup
PROPERTIES QueuedRuns FifoExecutor Lifecycle
\* the destructor of the owner ends the worker
CHECK_DEADLOCK FALSE
