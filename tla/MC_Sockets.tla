---------------------------- MODULE MC_Sockets ------------------------------
(* Instance of Sockets for TLC: both pollers, clients that reconnect and   *)
(* clients that do not, with no, one and unlimited retries; a table in     *)
(* which connector and acceptor fill the last entries; and other threads   *)
(* that take descriptors.                                                  *)
EXTENDS Sockets

World(kind, retry, maxRetry, fds, others, sends) ==
  [kind |-> kind, retry |-> retry, maxRetry |-> maxRetry, fds |-> fds,
   others |-> others, sends |-> sends]

MCWorlds == {
  World("epoll", FALSE,  1, 4, FALSE, FALSE),
  World("poll",  FALSE,  0, 4, FALSE, TRUE),
  World("epoll", TRUE,  -1, 4, FALSE, FALSE),
  World("poll",  TRUE,   1, 4, FALSE, FALSE),
  World("epoll", FALSE,  0, 3, TRUE,  FALSE)}
=============================================================================
