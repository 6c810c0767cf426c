---------------------------- MODULE MC_TcpServer ----------------------------
(* TcpServer with one or two I/O loops.                               *)
EXTENDS TcpServer

CONSTANTS w1, w2

OneWorker == <<w1>>
TwoWorkers == <<w1, w2>>

=============================================================================
