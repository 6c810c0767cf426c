----------------------------- MODULE AsyncLogging -----------------------------
(***************************************************************************)
(* base/AsyncLogging.cc: the double-buffered logger.  Any thread appends   *)
(* lines to the front buffers under mutex_; the logging thread swaps them  *)
(* out under the same mutex_ and writes them to the file without it.       *)
(*                                                                         *)
(* Lines have length 1 and are named by the order in which they were       *)
(* appended, so the history of appends is a counter.  A spare buffer is    *)
(* empty, so only its presence is state.  The timed wait on cond_ may end  *)
(* at any time (notification, time-out or spurious).  The thread writes    *)
(* one buffer a step; appenders run between them.                          *)
(***************************************************************************)
EXTENDS Naturals, Sequences, Functions

CONSTANTS BufferSize,  \* kLargeBuffer, in lines
          DropAbove,   \* the 25 of threadFunc
          MaxLines     \* bound on the number of appends

ASSUME LoggingConstants ==
  /\ BufferSize \in Nat /\ BufferSize > 1
  /\ DropAbove \in Nat /\ DropAbove >= 2
  /\ MaxLines \in Nat

VARIABLES running,        \* running_
          pc,             \* where the logging thread is
          currentBuffer,  \* the lines in currentBuffer_
          nextBuffer,     \* nextBuffer_ is not null
          buffers,        \* buffers_, full buffers
          newBuffer1,     \* newBuffer1 is not null
          newBuffer2,     \* newBuffer2 is not null
          buffersToWrite, \* buffersToWrite
          written,        \* how many of them were written
          file,           \* what was written to the LogFile
          appended,       \* history: lines appended so far
          dropped         \* history: lines thrown away

vars == <<running, pc, currentBuffer, nextBuffer, buffers, newBuffer1,
          newBuffer2, buffersToWrite, written, file, appended, dropped>>

\* Lines are numbered from 1; the notice of threadFunc is not a line.
DropNotice == 0
Line == 1..MaxLines

Init ==
  /\ running = FALSE
  /\ pc = "new"
  /\ currentBuffer = <<>>
  /\ nextBuffer = TRUE
  /\ buffers = <<>>
  /\ newBuffer1 = TRUE
  /\ newBuffer2 = TRUE
  /\ buffersToWrite = <<>>
  /\ written = 0
  /\ file = <<>>
  /\ appended = 0
  /\ dropped = {}

\* start(), up to the latch; FileLogger calls it before anyone may append.
Start ==
  /\ pc = "new"
  /\ running' = TRUE
  /\ pc' = "test"
  /\ UNCHANGED <<currentBuffer, nextBuffer, buffers, newBuffer1, newBuffer2,
                 buffersToWrite, written, file, appended, dropped>>

\* avail() > len
Fits(buffer) == BufferSize - Len(buffer) > 1

\* append(), one critical section.
AppendLine ==
  /\ pc \notin {"new", "done"}
  /\ appended < MaxLines
  /\ appended' = appended + 1
  /\ IF Fits(currentBuffer)
       THEN /\ currentBuffer' = Append(currentBuffer, appended + 1)
            /\ UNCHANGED <<buffers, nextBuffer>>
       ELSE /\ buffers' = Append(buffers, currentBuffer)
            /\ currentBuffer' = <<appended + 1>>
            /\ nextBuffer' = FALSE
  /\ UNCHANGED <<running, pc, newBuffer1, newBuffer2, buffersToWrite, written, file,
                 dropped>>

\* stop(), before it joins the thread.
Stop ==
  /\ pc # "new"
  /\ running
  /\ running' = FALSE
  /\ UNCHANGED <<pc, currentBuffer, nextBuffer, buffers, newBuffer1,
                 newBuffer2, buffersToWrite, written, file, appended, dropped>>

-----------------------------------------------------------------------------
(* threadFunc                                                              *)

TestRunning ==
  /\ pc = "test"
  /\ pc' = IF running THEN "lock" ELSE "done"
  /\ UNCHANGED <<running, currentBuffer, nextBuffer, buffers, newBuffer1,
                 newBuffer2, buffersToWrite, written, file, appended, dropped>>

\* Nothing is full yet: wait, and let go of mutex_.
WaitOnCond ==
  /\ pc = "lock"
  /\ buffers = <<>>
  /\ pc' = "wait"
  /\ UNCHANGED <<running, currentBuffer, nextBuffer, buffers, newBuffer1,
                 newBuffer2, buffersToWrite, written, file, appended, dropped>>

\* Mutant: newBuffer2 is given away even if nextBuffer_ is still there.
SwapBuffersBoth ==
  /\ pc = "wait" \/ (pc = "lock" /\ buffers # <<>>)
  /\ pc' = "write"
  /\ buffersToWrite' = Append(buffers, currentBuffer)
  /\ buffers' = <<>>
  /\ currentBuffer' = <<>>
  /\ newBuffer1' = FALSE
  /\ nextBuffer' = TRUE
  /\ newBuffer2' = FALSE
  /\ UNCHANGED <<running, written, file, appended, dropped>>

\* Mutant: the wait has no time-out.
SwapBuffersNotified ==
  /\ pc \in {"lock", "wait"} /\ buffers # <<>>
  /\ pc' = "write"
  /\ buffersToWrite' = Append(buffers, currentBuffer)
  /\ buffers' = <<>>
  /\ currentBuffer' = <<>>
  /\ newBuffer1' = FALSE
  /\ nextBuffer' = TRUE
  /\ newBuffer2' = IF nextBuffer THEN newBuffer2 ELSE FALSE
  /\ UNCHANGED <<running, written, file, appended, dropped>>

\* The rest of the critical section, with mutex_ held (again).
SwapBuffers ==
  /\ pc = "wait" \/ (pc = "lock" /\ buffers # <<>>)
  /\ pc' = "write"
  /\ buffersToWrite' = Append(buffers, currentBuffer)
  /\ buffers' = <<>>
  /\ currentBuffer' = <<>>
  /\ newBuffer1' = FALSE
  /\ nextBuffer' = TRUE
  /\ newBuffer2' = IF nextBuffer THEN newBuffer2 ELSE FALSE
  /\ UNCHANGED <<running, written, file, appended, dropped>>

\* Too long a backlog is cut to its first two buffers, and a notice written.
TooLong == Len(buffersToWrite) > DropAbove

CutBacklog ==
  /\ pc = "write"
  /\ pc' = "append"
  /\ buffersToWrite' = IF TooLong THEN SubSeq(buffersToWrite, 1, 2) ELSE buffersToWrite
  /\ file' = IF TooLong THEN Append(file, DropNotice) ELSE file
  /\ dropped' = IF TooLong
                THEN dropped \cup UNION {Range(buffersToWrite[k]) : k \in 3..Len(buffersToWrite)}
                ELSE dropped
  /\ UNCHANGED <<running, currentBuffer, nextBuffer, buffers, newBuffer1, newBuffer2,
                 written, appended>>

AppendBuffer ==
  /\ pc = "append" /\ written < Len(buffersToWrite)
  /\ file' = file \o buffersToWrite[written + 1]
  /\ written' = written + 1
  /\ UNCHANGED <<running, pc, currentBuffer, nextBuffer, buffers, newBuffer1, newBuffer2,
                 buffersToWrite, appended, dropped>>

\* How many written buffers are kept to be used again.
Recycled == IF Len(buffersToWrite) > 2 THEN 2 ELSE Len(buffersToWrite)

\* Take newBuffer1 and newBuffer2 back from the written buffers.
Recycle ==
  /\ pc = "append" /\ written = Len(buffersToWrite)
  /\ pc' = "test"
  /\ newBuffer1' = (newBuffer1 \/ Recycled >= 1)
  /\ newBuffer2' = (newBuffer2 \/ Recycled >= (IF newBuffer1 THEN 1 ELSE 2))
  /\ buffersToWrite' = <<>>
  /\ written' = 0
  /\ UNCHANGED <<running, currentBuffer, nextBuffer, buffers, file, appended, dropped>>

LogThread ==
  TestRunning \/ WaitOnCond \/ SwapBuffers \/ CutBacklog \/ AppendBuffer \/ Recycle

Next == Start \/ AppendLine \/ Stop \/ LogThread

\* The thread is scheduled, and waitForSeconds ends.
Spec == Init /\ [][Next]_vars /\ WF_vars(LogThread)

-----------------------------------------------------------------------------
\* Every variable keeps to its type, and append() never fills a buffer up.
TypeOK ==
  /\ running \in BOOLEAN
  /\ pc \in {"new", "test", "lock", "wait", "write", "append", "done"}
  /\ currentBuffer \in Seq(Line) /\ Len(currentBuffer) < BufferSize
  /\ nextBuffer \in BOOLEAN
  /\ buffers \in Seq(Seq(Line))
  /\ newBuffer1 \in BOOLEAN
  /\ newBuffer2 \in BOOLEAN
  /\ buffersToWrite \in Seq(Seq(Line))
  /\ written \in 0..Len(buffersToWrite)
  /\ appended \in Nat

\* The assertions of threadFunc: whenever it comes round, both of its spare
\* buffers are back, and there were enough written buffers to make them of.
BuffersRecycled ==
  /\ pc \in {"test", "lock", "wait", "done"} =>
       newBuffer1 /\ newBuffer2 /\ buffersToWrite = <<>>
  /\ pc \in {"write", "append"} => buffersToWrite # <<>>

\* While the logger runs, a line that was appended gets to the file or is
\* dropped, though no later line pushes it out.
LineLeaves ==
  \A i \in Line : (appended >= i) ~> (i \in Range(file) \/ i \in dropped \/ ~running)
=============================================================================
