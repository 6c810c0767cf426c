--------------------------- MODULE EventLoopThread ---------------------------
(***************************************************************************)
(* net/EventLoopThread.cc around the loop of module EventLoop: an owner    *)
(* thread starts a worker, waits until the worker has published its loop,  *)
(* and on destruction quits the loop and joins the worker.  Thread::start  *)
(* with its CountDownLatch is included.  The other threads queue functors  *)
(* on the loop once startLoop has returned it (EventLoopThreadPool).       *)
(***************************************************************************)
EXTENDS EventLoop

CONSTANT Owner  \* the thread that owns the EventLoopThread

ASSUME OwnerIsThread == Owner \in Thread

VARIABLES owner,    \* where the owner is
          worker,   \* where the worker thread is
          latch,    \* Thread::latch_.count_
          loopPtr   \* loop_ # NULL

threadVars == <<owner, worker, latch, loopPtr>>
allVars == <<vars, threadVars>>

ThreadInit ==
  /\ Init
  /\ owner = "new"
  /\ worker = "none"
  /\ latch = 1
  /\ loopPtr = FALSE

\* Thread::start: pthread_create, then latch_.wait().
StartThread ==
  /\ owner = "new"
  /\ owner' = "latch"
  /\ worker' = "created"
  /\ UNCHANGED <<vars, latch, loopPtr>>

\* ThreadData::runInThread: tid_ is set, then the latch is counted down.
CountDown ==
  /\ worker = "created"
  /\ worker' = "constructing"
  /\ latch' = latch - 1
  /\ UNCHANGED <<vars, owner, loopPtr>>

LatchReturns ==
  /\ owner = "latch"
  /\ latch = 0
  /\ owner' = "checking"
  /\ UNCHANGED <<vars, worker, latch, loopPtr>>

\* startLoop, one turn of its loop: return loop_, or wait and release mutex_.
CheckLoop ==
  /\ owner = "checking"
  /\ owner' = IF loopPtr THEN "running" ELSE "waiting"
  /\ UNCHANGED <<vars, worker, latch, loopPtr>>

\* threadFunc's first critical section; the owner, if it waits, is notified.
Publish ==
  /\ worker = "constructing"
  /\ worker' = "loop"
  /\ loopPtr' = TRUE
  /\ owner' = IF owner = "waiting" THEN "checking" ELSE owner
  /\ UNCHANGED <<vars, latch>>

\* loop.loop() in the worker.  A channel can only be registered on the loop
\* by those who got it from startLoop.
WorkerLoops ==
  /\ worker = "loop"
  /\ EnterLoop \/ LoopStep \/ PollTimeout
  /\ owner \in {"latch", "checking", "waiting"} => active' \subseteq {WakeupChannel}
  /\ UNCHANGED threadVars

\* threadFunc's last critical section and the return that destroys the loop.
ClearLoop ==
  /\ worker = "loop"
  /\ pc = "done"
  /\ worker' = "exited"
  /\ loopPtr' = FALSE
  /\ UNCHANGED <<vars, owner, latch>>

\* ~EventLoopThread: loop_ is read without the mutex; without a loop there is
\* neither quit nor join.
DestroyWithLoop ==
  /\ owner = "running"
  /\ loopPtr
  /\ Quit(Owner)
  /\ owner' = "quitting"
  /\ UNCHANGED <<worker, latch, loopPtr>>

DestroyWithoutLoop ==
  /\ owner = "running"
  /\ ~loopPtr
  /\ owner' = "gone"
  /\ UNCHANGED <<vars, worker, latch, loopPtr>>

\* Mutant: quit() returns without the wakeup.
QuitReturnsAsleep ==
  /\ owner = "quitting"
  /\ owner' = "joining"
  /\ waking' = waking \ {Owner}
  /\ UNCHANGED <<loopVars, quit, pendingFunctors, wakeupFd, queued, executed,
                 worker, latch, loopPtr>>

QuitReturns ==
  /\ owner = "quitting"
  /\ Wakeup(Owner)
  /\ owner' = "joining"
  /\ UNCHANGED <<worker, latch, loopPtr>>

Join ==
  /\ owner = "joining"
  /\ worker = "exited"
  /\ owner' = "gone"
  /\ UNCHANGED <<vars, worker, latch, loopPtr>>

\* Another thread, holding the pointer startLoop returned.
OtherThread(t) ==
  /\ t # Owner
  /\ \/ owner = "running" /\ \E f \in Functor : QueueInLoop(t, f)
     \/ Wakeup(t)
  /\ UNCHANGED threadVars

OwnerStep == LatchReturns \/ CheckLoop \/ QuitReturns \/ Join
WorkerStep == CountDown \/ Publish \/ ClearLoop

ThreadNext ==
  \/ StartThread
  \/ OwnerStep
  \/ WorkerStep
  \/ WorkerLoops
  \/ DestroyWithLoop
  \/ DestroyWithoutLoop
  \/ \E t \in Thread : OtherThread(t)

\* Both threads are scheduled; a blocked poll returns when the eventfd is
\* readable, and owes nothing to a timeout or to other channels; a thread that
\* entered queueInLoop completes the call.
ThreadSpec ==
  /\ ThreadInit
  /\ [][ThreadNext]_allVars
  /\ WF_allVars(OwnerStep)
  /\ WF_allVars(WorkerStep)
  /\ WF_allVars(WorkerLoops /\ (pc = "poll" => wakeupFd))
  /\ \A t \in Thread \ {Owner} : WF_allVars(Wakeup(t) /\ UNCHANGED threadVars)

-----------------------------------------------------------------------------
\* startLoop returns: neither the latch nor the notification of cond_ is lost.
\* A quit() that reaches a loop already in loop() lets the destructor return.
\* (One that comes before the first line of loop() is overwritten there.)
Lifecycle ==
  /\ owner = "latch" ~> owner = "running"
  /\ (owner = "joining" /\ quit /\ pc # "before") ~> owner = "gone"
=============================================================================
