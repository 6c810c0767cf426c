-------------------------- MODULE EventLoop_proofs --------------------------
(***************************************************************************)
(* Proofs about EventLoop for any set of threads, functors and channels.   *)
(*                                                                         *)
(* NothingLost and the two wakeup invariants are inductive only together   *)
(* with what the control point of the loop says about the other variables  *)
(* (Control): the flag read by queueInLoop is set exactly while a batch    *)
(* runs, and the batch is empty at any other point.  The wakeup invariant  *)
(* has to cover the batch as well (Awake): a functor queued by a running   *)
(* functor is seen by poll only two steps later.                           *)
(***************************************************************************)
EXTENDS EventLoop, SequenceTheorems, TLAPS

Control ==
  /\ callingPendingFunctors <=> pc = "functors"
  /\ functors # <<>> => pc = "functors"

Awake ==
  pc \in {"before", "test", "poll", "functors"} /\ pendingFunctors # <<>>
    => wakeupFd \/ waking # {}

IInv == TypeOK /\ NothingLost /\ Control /\ Awake /\ NoLostQuit

-----------------------------------------------------------------------------
(* Moving the head of the batch to the end of what was run, and pushing at *)
(* the other end, keep the concatenation of the three queues.              *)

\* Running the head of the batch keeps executed \o functors.
LEMMA MoveHead ==
  ASSUME NEW S, NEW a \in Seq(S), NEW b \in Seq(S), b # <<>>
  PROVE  Append(a, Head(b)) \o Tail(b) = a \o b
<1>1. /\ Head(b) \in S
      /\ Tail(b) \in Seq(S)
      /\ Len(b) \in Nat \ {0}
      /\ Len(Tail(b)) = Len(b) - 1
      /\ \A i \in 1 .. Len(Tail(b)) : Tail(b)[i] = b[i+1]
  BY HeadTailProperties, EmptySeq
<1>2. Append(a, Head(b)) \in Seq(S) /\ Len(Append(a, Head(b))) = Len(a) + 1
  BY <1>1, AppendProperties
<1> DEFINE l == Append(a, Head(b)) \o Tail(b)
           r == a \o b
<1>3. l \in Seq(S) /\ r \in Seq(S) /\ Len(l) = Len(r) /\ Len(a) \in Nat
  BY <1>1, <1>2, ConcatProperties, LenProperties
<1>4. ASSUME NEW i \in 1 .. Len(l) PROVE l[i] = r[i]
  BY <1>1, <1>2, <1>3
<1> QED
  BY <1>3, <1>4, SeqEqual, SMTT(30)

\* A push at the end of pendingFunctors_ is a push at the end of the whole.
LEMMA PushEnd ==
  ASSUME NEW S, NEW a \in Seq(S), NEW b \in Seq(S), NEW e \in S
  PROVE  a \o Append(b, e) = Append(a \o b, e)
<1>1. a \o b \in Seq(S) /\ <<e>> \in Seq(S)
  BY ConcatProperties
<1> QED
  BY <1>1, AppendIsConcat, ConcatAssociative, SMTT(30)

-----------------------------------------------------------------------------
(* What any callback that runs in the loop thread does to the loop.        *)

\* A callback in the loop thread pushes one functor at most, and is typed.
LEMMA CallbackPushes ==
  ASSUME TypeOK, CallbackBody
  PROVE  /\ quit' \in BOOLEAN /\ wakeupFd' \in BOOLEAN
         /\ pendingFunctors' \in Seq(Functor) /\ queued' \in Seq(Functor)
         /\ \/ UNCHANGED <<pendingFunctors, queued, wakeupFd>>
            \/ \E f \in Functor : /\ pendingFunctors' = Append(pendingFunctors, f)
                                  /\ queued' = Append(queued, f)
                                  /\ wakeupFd' = (wakeupFd \/ callingPendingFunctors)
<1>1. CASE UNCHANGED <<quit, pendingFunctors, wakeupFd, queued>>
  BY <1>1 DEF TypeOK
<1>2. CASE quit' = TRUE /\ UNCHANGED <<pendingFunctors, wakeupFd, queued>>
  BY <1>2 DEF TypeOK
<1>3. ASSUME NEW f \in Functor, QueueHere(f)
      PROVE  /\ quit' \in BOOLEAN /\ wakeupFd' \in BOOLEAN
             /\ pendingFunctors' = Append(pendingFunctors, f)
             /\ queued' = Append(queued, f)
             /\ wakeupFd' = (wakeupFd \/ callingPendingFunctors)
  BY <1>3, Zenon DEF TypeOK, QueueHere, PushBack
<1>4. ASSUME NEW f \in Functor
      PROVE  /\ Append(pendingFunctors, f) \in Seq(Functor)
             /\ Append(queued, f) \in Seq(Functor)
  BY AppendProperties DEF TypeOK
<1> QED
  BY <1>1, <1>2, <1>3, <1>4, Zenon DEF CallbackBody

\* Every step keeps the types.
LEMMA TypeStep == TypeOK /\ [Next]_vars => TypeOK'
<1> SUFFICES ASSUME TypeOK, [Next]_vars PROVE TypeOK'
  OBVIOUS
<1> USE DEF loopVars
<1>1. CASE EnterLoop
  BY <1>1, Zenon DEF TypeOK, EnterLoop
<1>2. CASE TestQuit
  BY <1>2 DEF TypeOK, TestQuit
<1>3. CASE PollReturn
  BY <1>3 DEF TypeOK, PollReturn
<1>4. CASE HandleWakeup
  BY <1>4, Zenon DEF TypeOK, HandleWakeup
<1>5. ASSUME NEW c \in IoChannel, HandleIo(c) PROVE TypeOK'
  <2>1. CallbackBody
    BY <1>5 DEF HandleIo
  <2>2. /\ quit' \in BOOLEAN /\ wakeupFd' \in BOOLEAN
        /\ pendingFunctors' \in Seq(Functor) /\ queued' \in Seq(Functor)
    BY <2>1, CallbackPushes
  <2> QED
    BY <1>5, <2>2 DEF TypeOK, HandleIo
<1>6. CASE SwapFunctors
  BY <1>6 DEF TypeOK, SwapFunctors
<1>7. CASE RunFunctor
  <2>1. CallbackBody
    BY <1>7 DEF RunFunctor
  <2>2. /\ quit' \in BOOLEAN /\ wakeupFd' \in BOOLEAN
        /\ pendingFunctors' \in Seq(Functor) /\ queued' \in Seq(Functor)
    BY <2>1, CallbackPushes
  <2>3. executed' \in Seq(Functor) /\ functors' \in Seq(Functor)
    BY <1>7, HeadTailProperties, AppendProperties DEF TypeOK, RunFunctor
  <2> QED
    BY <1>7, <2>2, <2>3 DEF TypeOK, RunFunctor
<1>8. CASE EndFunctors
  BY <1>8, Zenon DEF TypeOK, EndFunctors
<1>9. CASE PollTimeout
  BY <1>9 DEF TypeOK, PollTimeout
<1>10. ASSUME NEW t \in Thread, ThreadStep(t) PROVE TypeOK'
  <2>1. ASSUME NEW f \in Functor, QueueInLoop(t, f) PROVE TypeOK'
    BY <2>1, AppendProperties DEF TypeOK, QueueInLoop, PushBack
  <2>2. CASE Quit(t)
    BY <2>2 DEF TypeOK, Quit
  <2>3. CASE Wakeup(t)
    BY <2>3 DEF TypeOK, Wakeup
  <2> QED
    BY <1>10, <2>1, <2>2, <2>3 DEF ThreadStep
<1>11. CASE UNCHANGED vars
  BY <1>11 DEF TypeOK, vars
<1> QED
  BY <1>1, <1>2, <1>3, <1>4, <1>5, <1>6, <1>7, <1>8, <1>9, <1>10, <1>11
     DEF Next, LoopStep

-----------------------------------------------------------------------------
\* Every step of queueInLoop and doPendingFunctors keeps NothingLost.
LEMMA NothingLostStep ==
  ASSUME IInv, [Next]_vars
  PROVE  NothingLost'
<1> USE DEF loopVars
<1>1. /\ executed \in Seq(Functor) /\ functors \in Seq(Functor)
      /\ pendingFunctors \in Seq(Functor) /\ queued \in Seq(Functor)
      /\ queued = executed \o functors \o pendingFunctors
  BY DEF IInv, TypeOK, NothingLost
<1>2. executed \o functors \in Seq(Functor)
  BY <1>1, ConcatProperties
\* Every push appends the same functor to queued and to pendingFunctors.
<1>3. ASSUME NEW f \in Functor
      PROVE  Append(queued, f)
               = executed \o functors \o Append(pendingFunctors, f)
  <2> DEFINE r == executed \o functors
  <2>1. r \in Seq(Functor) /\ queued = r \o pendingFunctors
    BY <1>1, <1>2
  <2> HIDE DEF r
  <2>2. r \o Append(pendingFunctors, f) = Append(r \o pendingFunctors, f)
    BY <1>1, <2>1, PushEnd
  <2>3. Append(queued, f) = r \o Append(pendingFunctors, f)
    BY <2>1, <2>2
  <2> QED
    BY <2>3 DEF r
<1>4. ASSUME NEW c \in IoChannel, HandleIo(c) PROVE NothingLost'
  <2>1. /\ CallbackBody /\ TypeOK
        /\ UNCHANGED <<executed, functors>>
    BY <1>4 DEF HandleIo, IInv
  <2> QED
    BY <1>1, <1>3, <2>1, CallbackPushes, Zenon DEF NothingLost
<1>5. CASE SwapFunctors
  BY <1>1, <1>2, <1>5, ConcatEmptySeq, ConcatProperties, Zenon
     DEF SwapFunctors, IInv, Control, NothingLost
<1>6. CASE RunFunctor
  <2>1. /\ CallbackBody /\ TypeOK /\ functors # <<>>
        /\ executed' = Append(executed, Head(functors))
        /\ functors' = Tail(functors)
    BY <1>6 DEF RunFunctor, IInv
  <2>2. executed' \o functors' = executed \o functors
    BY <1>1, <2>1, MoveHead
  <2> QED
    BY <1>1, <1>3, <2>1, <2>2, CallbackPushes, Zenon DEF NothingLost
<1>7. ASSUME NEW t \in Thread, NEW f \in Functor, QueueInLoop(t, f)
      PROVE  NothingLost'
  BY <1>1, <1>3, <1>7, Zenon DEF QueueInLoop, PushBack, NothingLost
<1>8. ASSUME UNCHANGED <<executed, functors, pendingFunctors, queued>>
      PROVE  NothingLost'
  BY <1>1, <1>8 DEF NothingLost
<1> QED
  BY <1>4, <1>5, <1>6, <1>7, <1>8
     DEF Next, LoopStep, ThreadStep, vars, EnterLoop, TestQuit, PollReturn,
         HandleWakeup, EndFunctors, PollTimeout, Quit, Wakeup

\* Every step of loop() keeps the flag and the batch in line with pc.
LEMMA ControlStep ==
  ASSUME IInv, [Next]_vars
  PROVE  Control'
BY DEF IInv, TypeOK, Control, loopVars, Next, LoopStep, ThreadStep, vars,
       EnterLoop, TestQuit, PollReturn, HandleWakeup, HandleIo, SwapFunctors,
       RunFunctor, EndFunctors, PollTimeout, QueueInLoop, Quit, Wakeup

\* Every step keeps a queued functor from being slept on.
LEMMA AwakeStep ==
  ASSUME IInv, [Next]_vars
  PROVE  Awake' /\ NoLostQuit'
<1> USE DEF loopVars
<1>0. TypeOK /\ Control /\ Awake /\ NoLostQuit
  BY DEF IInv
<1>1. CASE EnterLoop
  BY <1>0, <1>1 DEF EnterLoop, Awake, NoLostQuit
<1>2. CASE TestQuit
  BY <1>0, <1>2 DEF TestQuit, Awake, NoLostQuit
<1>3. CASE PollReturn \/ PollTimeout
  BY <1>0, <1>3 DEF PollReturn, PollTimeout, Awake, NoLostQuit
<1>4. CASE HandleWakeup
  BY <1>0, <1>4 DEF HandleWakeup, Awake, NoLostQuit
<1>5. ASSUME NEW c \in IoChannel, HandleIo(c) PROVE Awake' /\ NoLostQuit'
  BY <1>0, <1>5 DEF HandleIo, Awake, NoLostQuit
<1>6. CASE SwapFunctors
  BY <1>0, <1>6 DEF SwapFunctors, Awake, NoLostQuit
\* A functor queued by a running functor finds callingPendingFunctors_ set.
<1>7. CASE RunFunctor
  <2>1. CallbackBody /\ callingPendingFunctors /\ pc' = "functors"
        /\ waking' = waking /\ pc = "functors"
    BY <1>0, <1>7 DEF RunFunctor, Control
  <2>2. CASE UNCHANGED <<pendingFunctors, wakeupFd>>
    BY <1>0, <2>1, <2>2 DEF Awake, NoLostQuit
  <2>3. CASE wakeupFd' = (wakeupFd \/ callingPendingFunctors)
    BY <2>1, <2>3, Zenon DEF Awake, NoLostQuit
  <2> QED
    BY <1>0, <2>1, <2>2, <2>3, CallbackPushes
<1>8. CASE EndFunctors
  BY <1>0, <1>8 DEF EndFunctors, Awake, NoLostQuit
<1>9. ASSUME NEW t \in Thread, ThreadStep(t) PROVE Awake' /\ NoLostQuit'
  BY <1>0, <1>9 DEF ThreadStep, QueueInLoop, Quit, Wakeup, Awake, NoLostQuit
<1>10. CASE UNCHANGED vars
  BY <1>0, <1>10 DEF vars, Awake, NoLostQuit
<1> QED
  BY <1>1, <1>2, <1>3, <1>4, <1>5, <1>6, <1>7, <1>8, <1>9, <1>10
     DEF Next, LoopStep

-----------------------------------------------------------------------------
\* The constructor's state satisfies the invariant.
LEMMA InitIInv == Init => IInv
<1> SUFFICES ASSUME Init PROVE IInv
  OBVIOUS
<1>1. <<>> \in Seq(Functor) /\ <<>> \o <<>> \o <<>> = <<>>
  BY ConcatEmptySeq, EmptySeq
<1> QED
  BY <1>1, Zenon DEF Init, IInv, TypeOK, NothingLost, Control, Awake, NoLostQuit

\* Every step of the loop or of a thread keeps the invariant.
LEMMA InvariantStep == IInv /\ [Next]_vars => IInv'
<1> SUFFICES ASSUME IInv, [Next]_vars PROVE IInv'
  OBVIOUS
<1>1. TypeOK'
  BY TypeStep DEF IInv
<1> QED
  BY <1>1, NothingLostStep, ControlStep, AwakeStep DEF IInv

\* The inductive invariant holds throughout.
LEMMA Invariant == Spec => []IInv
BY InitIInv, InvariantStep, PTL DEF Spec

\* The variables of EventLoop keep their types.
THEOREM TypeCorrect == Spec => []TypeOK
<1>1. IInv => TypeOK
  BY DEF IInv
<1> QED
  BY <1>1, Invariant, PTL

\* However many threads call queueInLoop and whatever functors queue in turn,
\* the functors run are a prefix of the functors queued, and the rest is still
\* in the running batch or in pendingFunctors_.
THEOREM FunctorsNotLost == Spec => []NothingLost
<1>1. IInv => NothingLost
  BY DEF IInv
<1> QED
  BY <1>1, Invariant, PTL

\* The loop never blocks in poll on a non-empty queue without a wakeup written
\* or about to be written.
THEOREM WakeupNotLost == Spec => []NoLostWakeup
<1>1. IInv => NoLostWakeup
  BY DEF IInv, Awake, NoLostWakeup
<1> QED
  BY <1>1, Invariant, PTL

\* The loop never blocks in poll after quit() without a wakeup written or
\* about to be written.
THEOREM QuitNotLost == Spec => []NoLostQuit
<1>1. IInv => NoLostQuit
  BY DEF IInv
<1> QED
  BY <1>1, Invariant, PTL

-----------------------------------------------------------------------------
(* Refinement: each step of the loop is a step of the FIFO executor on     *)
(* functors \o pendingFunctors, or leaves it alone.                        *)

\* queueInLoop is Queue of the FIFO executor.
LEMMA PushRefines ==
  ASSUME TypeOK, NEW f \in Functor,
         pendingFunctors' = Append(pendingFunctors, f),
         UNCHANGED <<functors, executed>>
  PROVE  FQ!Next
<1>1. functors \o Append(pendingFunctors, f)
        = Append(functors \o pendingFunctors, f)
  BY PushEnd DEF TypeOK
<1> QED
  BY <1>1 DEF FQ!Next, FQ!Queue

\* Running a functor of the batch is Run or RunAndQueue of the executor.
LEMMA RunRefines ==
  ASSUME TypeOK, RunFunctor
  PROVE  FQ!Next
<1>1. /\ functors \in Seq(Functor) /\ functors # <<>>
      /\ pendingFunctors \in Seq(Functor)
      /\ executed' = Append(executed, Head(functors))
      /\ functors' = Tail(functors)
      /\ CallbackBody
  BY DEF TypeOK, RunFunctor
<1>2. /\ functors \o pendingFunctors # <<>>
      /\ Head(functors \o pendingFunctors) = Head(functors)
      /\ Tail(functors \o pendingFunctors) = Tail(functors) \o pendingFunctors
      /\ Tail(functors) \in Seq(Functor)
  BY <1>1, HeadTailProperties
<1>3. CASE UNCHANGED pendingFunctors
  BY <1>1, <1>2, <1>3 DEF FQ!Next, FQ!Run
<1>4. ASSUME NEW f \in Functor,
             pendingFunctors' = Append(pendingFunctors, f)
      PROVE  FQ!Next
  <2>1. functors' \o pendingFunctors'
          = Append(Tail(functors) \o pendingFunctors, f)
    BY <1>1, <1>2, <1>4, PushEnd, SMTT(30)
  <2> QED
    BY <1>1, <1>2, <2>1, Zenon DEF FQ!Next, FQ!RunAndQueue
<1> QED
  BY <1>1, <1>3, <1>4, CallbackPushes

\* EventLoop implements FunctorQueue: to its callers a loop is a FIFO executor.
THEOREM Refinement == Spec => FifoExecutor
<1>1. Init => FQ!Init
  BY ConcatEmptySeq, EmptySeq DEF Init, FQ!Init
<1>2. IInv /\ [Next]_vars => [FQ!Next]_<<functors \o pendingFunctors, executed>>
  <2> SUFFICES ASSUME IInv, [Next]_vars
               PROVE  [FQ!Next]_<<functors \o pendingFunctors, executed>>
    BY SMTT(30)
  <2> USE DEF loopVars
  <2>0. TypeOK
    BY DEF IInv
  <2>1. ASSUME NEW c \in IoChannel, HandleIo(c)
        PROVE  FQ!Next \/ UNCHANGED <<functors, pendingFunctors, executed>>
    <3>1. CallbackBody /\ UNCHANGED <<functors, executed>>
      BY <2>1 DEF HandleIo
    <3> QED
      BY <2>0, <3>1, CallbackPushes, PushRefines
  <2>2. CASE SwapFunctors
    <3>1. functors = <<>>
      BY <2>2 DEF SwapFunctors, IInv, Control
    <3>2. functors' \o pendingFunctors' = functors \o pendingFunctors
      BY <2>0, <2>2, <3>1, ConcatEmptySeq DEF SwapFunctors, TypeOK
    <3> QED
      BY <2>2, <3>2 DEF SwapFunctors
  <2>3. CASE RunFunctor
    BY <2>0, <2>3, RunRefines
  <2>4. ASSUME NEW t \in Thread, NEW f \in Functor, QueueInLoop(t, f)
        PROVE  FQ!Next
    BY <2>0, <2>4, PushRefines DEF QueueInLoop, PushBack
  <2>5. CASE UNCHANGED <<executed, functors, pendingFunctors>>
    BY <2>5
  <2> QED
    BY <2>1, <2>2, <2>3, <2>4, <2>5, SMTT(30)
       DEF Next, LoopStep, ThreadStep, vars, EnterLoop, TestQuit, PollReturn,
           HandleWakeup, EndFunctors, PollTimeout, Quit, Wakeup
<1> QED
  BY <1>1, <1>2, Invariant, PTL DEF Spec, FifoExecutor, FQ!Spec
=============================================================================
