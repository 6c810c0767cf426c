SPECIFICATION Spec
CONSTANTS
  StaticLocations <- MCStatic
  ProxyLocations <- MCProxy
  Found <- MCFound
  Streams <- MCStreams
  Replies <- MCReplies
  MaxProxies = 2
INVARIANTS NoAssertFails AnsweredRight EntryPending
PROPERTY RequestAnswered
\* the client has nothing more to send, or the loop spins
CHECK_DEADLOCK FALSE
