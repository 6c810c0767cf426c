---------------------------- MODULE FunctorQueue ----------------------------
(***************************************************************************)
(* What EventLoop::queueInLoop and EventLoop::runInLoop promise to a       *)
(* caller in any thread: the callbacks handed to one loop run in the loop  *)
(* thread, each exactly once, in the order in which they were handed over. *)
(* How the loop is woken, and that it drains its queue in batches, is not  *)
(* visible here.                                                           *)
(***************************************************************************)
EXTENDS Sequences

CONSTANT Functor    \* the callbacks

VARIABLES waiting,  \* handed over and not yet run, oldest first
          executed  \* run so far, in order

Init == waiting = <<>> /\ executed = <<>>

Queue(f) ==
  /\ waiting' = Append(waiting, f)
  /\ UNCHANGED executed

Run ==
  /\ waiting # <<>>
  /\ executed' = Append(executed, Head(waiting))
  /\ waiting' = Tail(waiting)

\* A running callback may hand over another one.
RunAndQueue(f) ==
  /\ waiting # <<>>
  /\ executed' = Append(executed, Head(waiting))
  /\ waiting' = Append(Tail(waiting), f)

Next == Run \/ \E f \in Functor : Queue(f) \/ RunAndQueue(f)

Spec == Init /\ [][Next]_<<waiting, executed>>
=============================================================================
