------------------------------ MODULE EventLoop ------------------------------
(***************************************************************************)
(* The reactor of net/EventLoop.cc: one loop thread that polls, dispatches *)
(* the active channels and drains the functors queued for it, and any      *)
(* number of other threads that queue functors or ask the loop to quit.    *)
(*                                                                         *)
(* The wakeup eventfd is not a semaphore: a read takes the whole count, so *)
(* only zero / non-zero is told apart (wakeupFd).  The pollers are level   *)
(* triggered, so a readable eventfd is reported by every poll until it is  *)
(* read.  A functor or a channel callback is opaque but for what it may do *)
(* to the loop: queue a functor, quit, or neither.  runInLoop called in    *)
(* the loop thread is a plain call and leaves no trace here; from another  *)
(* thread it is queueInLoop.                                               *)
(***************************************************************************)
EXTENDS Naturals, Sequences

CONSTANTS Thread,   \* the threads other than the loop thread
          Functor,  \* the callbacks; each is queued at most once (a bound)
          IoChannel \* the channels other than the wakeup channel

VARIABLES pc,                     \* where the loop thread is
          quit,                   \* quit_
          callingPendingFunctors, \* callingPendingFunctors_
          active,                 \* activeChannels_ still to be handled
          pendingFunctors,        \* pendingFunctors_, guarded by mutex_
          functors,               \* the local batch of doPendingFunctors
          wakeupFd,               \* the eventfd's count is not zero
          waking,                 \* threads between push_back / quit_ = true
                                  \* and the write of wakeup()
          queued, executed        \* history: functors in the order queued
                                  \* and in the order run

loopVars == <<pc, callingPendingFunctors, active, functors>>
vars == <<pc, quit, callingPendingFunctors, active, pendingFunctors, functors,
          wakeupFd, waking, queued, executed>>

WakeupChannel == "wakeupChannel"

Init ==
  /\ pc = "before"
  /\ quit = FALSE
  /\ callingPendingFunctors = FALSE
  /\ active = {}
  /\ pendingFunctors = <<>>
  /\ functors = <<>>
  /\ wakeupFd = FALSE
  /\ waking = {}
  /\ queued = <<>>
  /\ executed = <<>>

-----------------------------------------------------------------------------
(* Calls on the loop.                                                      *)

Fresh(f) == \A i \in 1..Len(queued) : queued[i] # f

\* The critical section of queueInLoop.
PushBack(f) ==
  /\ Fresh(f)
  /\ pendingFunctors' = Append(pendingFunctors, f)
  /\ queued' = Append(queued, f)

\* queueInLoop (or runInLoop) called by another thread: !isInLoopThread(),
\* so wakeup() follows, as a step of its own outside the mutex.
QueueInLoop(t, f) ==
  /\ t \notin waking
  /\ PushBack(f)
  /\ waking' = waking \cup {t}
  /\ UNCHANGED <<loopVars, quit, wakeupFd, executed>>

\* quit() called by another thread.
Quit(t) ==
  /\ t \notin waking
  /\ quit' = TRUE
  /\ waking' = waking \cup {t}
  /\ UNCHANGED <<loopVars, pendingFunctors, wakeupFd, queued, executed>>

\* The write that ends queueInLoop and quit in another thread.
Wakeup(t) ==
  /\ t \in waking
  /\ waking' = waking \ {t}
  /\ wakeupFd' = TRUE
  /\ UNCHANGED <<loopVars, quit, pendingFunctors, queued, executed>>

\* Mutant: queueInLoop wakes the loop up for other threads only.
QueueHereAsleep(f) ==
  /\ PushBack(f)
  /\ UNCHANGED <<wakeupFd, quit>>

\* queueInLoop called in the loop thread: wakes only while functors run.
QueueHere(f) ==
  /\ PushBack(f)
  /\ wakeupFd' = (wakeupFd \/ callingPendingFunctors)
  /\ UNCHANGED quit

\* What a callback that runs in the loop thread does to the loop.
CallbackBody ==
  \/ UNCHANGED <<quit, pendingFunctors, wakeupFd, queued>>
  \/ \E f \in Functor : QueueHere(f)
  \/ quit' = TRUE /\ UNCHANGED <<pendingFunctors, wakeupFd, queued>>

-----------------------------------------------------------------------------
(* EventLoop::loop                                                         *)

EnterLoop ==
  /\ pc = "before"
  /\ pc' = "test"
  /\ quit' = FALSE
  /\ UNCHANGED <<callingPendingFunctors, active, pendingFunctors, functors,
                 wakeupFd, waking, queued, executed>>

TestQuit ==
  /\ pc = "test"
  /\ pc' = IF quit THEN "done" ELSE "poll"
  /\ UNCHANGED <<quit, callingPendingFunctors, active, pendingFunctors,
                 functors, wakeupFd, waking, queued, executed>>

\* poll returns the channels that are ready: the wakeup channel exactly when
\* its eventfd is readable, and any I/O channels.
PollReturn ==
  /\ pc = "poll"
  /\ \E io \in SUBSET IoChannel :
       active' = IF wakeupFd THEN io \cup {WakeupChannel} ELSE io
  /\ active' # {}
  /\ pc' = "dispatch"
  /\ UNCHANGED <<quit, callingPendingFunctors, pendingFunctors, functors,
                 wakeupFd, waking, queued, executed>>

\* ... or nothing, after kPollTimeMs.
PollTimeout ==
  /\ pc = "poll"
  /\ ~wakeupFd
  /\ pc' = "dispatch"
  /\ UNCHANGED <<quit, callingPendingFunctors, active, pendingFunctors,
                 functors, wakeupFd, waking, queued, executed>>

\* handleEvent of the wakeup channel: EventLoop::handleRead.
HandleWakeup ==
  /\ pc = "dispatch"
  /\ WakeupChannel \in active
  /\ active' = active \ {WakeupChannel}
  /\ wakeupFd' = FALSE
  /\ UNCHANGED <<pc, quit, callingPendingFunctors, pendingFunctors, functors,
                 waking, queued, executed>>

\* handleEvent of any other channel.
HandleIo(c) ==
  /\ pc = "dispatch"
  /\ c \in active
  /\ active' = active \ {c}
  /\ CallbackBody
  /\ UNCHANGED <<pc, callingPendingFunctors, functors, waking, executed>>

\* doPendingFunctors up to the end of its critical section.
SwapFunctors ==
  /\ pc = "dispatch"
  /\ active = {}
  /\ pc' = "functors"
  /\ callingPendingFunctors' = TRUE
  /\ functors' = pendingFunctors
  /\ pendingFunctors' = <<>>
  /\ UNCHANGED <<quit, active, wakeupFd, waking, queued, executed>>

\* Mutant: the batch is run from its back.
RunLastFunctor ==
  /\ pc = "functors"
  /\ functors # <<>>
  /\ executed' = Append(executed, functors[Len(functors)])
  /\ functors' = SubSeq(functors, 1, Len(functors) - 1)
  /\ CallbackBody
  /\ UNCHANGED <<pc, callingPendingFunctors, active, waking>>

\* One functor of the batch.
RunFunctor ==
  /\ pc = "functors"
  /\ functors # <<>>
  /\ executed' = Append(executed, Head(functors))
  /\ functors' = Tail(functors)
  /\ CallbackBody
  /\ UNCHANGED <<pc, callingPendingFunctors, active, waking>>

EndFunctors ==
  /\ pc = "functors"
  /\ functors = <<>>
  /\ callingPendingFunctors' = FALSE
  /\ pc' = "test"
  /\ UNCHANGED <<quit, active, pendingFunctors, functors, wakeupFd, waking,
                 queued, executed>>

-----------------------------------------------------------------------------
\* The steps the loop thread takes by itself once it runs.
LoopStep ==
  \/ TestQuit
  \/ PollReturn
  \/ HandleWakeup
  \/ \E c \in IoChannel : HandleIo(c)
  \/ SwapFunctors
  \/ RunFunctor
  \/ EndFunctors

ThreadStep(t) ==
  \/ \E f \in Functor : QueueInLoop(t, f)
  \/ Quit(t)
  \/ Wakeup(t)

Next ==
  \/ EnterLoop
  \/ LoopStep
  \/ PollTimeout
  \/ \E t \in Thread : ThreadStep(t)

Spec == Init /\ [][Next]_vars

-----------------------------------------------------------------------------
\* Every variable keeps to its type.
TypeOK ==
  /\ pc \in {"before", "test", "poll", "dispatch", "functors", "done"}
  /\ quit \in BOOLEAN
  /\ callingPendingFunctors \in BOOLEAN
  /\ active \subseteq IoChannel \cup {WakeupChannel}
  /\ pendingFunctors \in Seq(Functor)
  /\ functors \in Seq(Functor)
  /\ wakeupFd \in BOOLEAN
  /\ waking \subseteq Thread
  /\ queued \in Seq(Functor)
  /\ executed \in Seq(Functor)

\* No functor is lost, duplicated or reordered between queueInLoop and the
\* call in doPendingFunctors, whatever threads push while a batch runs.
NothingLost == queued = executed \o functors \o pendingFunctors

\* queueInLoop's wakeup rule (!isInLoopThread() || callingPendingFunctors_)
\* suffices: the loop never sleeps in poll on a functor that is queued unless
\* the eventfd is readable or the queuing thread is about to write it.
NoLostWakeup ==
  pc \in {"test", "poll"} /\ pendingFunctors # <<>> => wakeupFd \/ waking # {}

\* The same for quit(): the loop never sleeps in poll with quit_ set.
NoLostQuit == pc = "poll" /\ quit => wakeupFd \/ waking # {}

\* A functor that was queued runs, without the help of the poll timeout,
\* unless the loop stops first.
QueuedRuns ==
  \A f \in Functor :
    (\E i \in 1..Len(queued) : queued[i] = f)
      ~> (pc = "done" \/ \E i \in 1..Len(executed) : executed[i] = f)

-----------------------------------------------------------------------------
FQ == INSTANCE FunctorQueue WITH waiting <- functors \o pendingFunctors

\* The loop implements the FIFO executor: seen from queueInLoop, its batches
\* and wakeups are invisible.
FifoExecutor == FQ!Spec
=============================================================================
