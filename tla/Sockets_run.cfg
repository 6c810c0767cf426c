SPECIFICATION Spec
CONSTANTS
  MaxFd = 4
  Worlds <- MCWorlds
  MaxBacklog = 1
INVARIANTS NoAssertFails InterestExact
PROPERTIES ConnectResolves StopSticks BacklogDrains
\* the peers and the client may have nothing more to do, or the process has ended
CHECK_DEADLOCK FALSE
