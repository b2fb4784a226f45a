------------------------------- MODULE TraceSink -------------------------------
(***************************************************************************)
(* Engine::Trace::TraceSink: producers append lines to a bounded queue,    *)
(* one role thread (RoleThread.cpp) writes them to a file, woken through   *)
(* its Waiter by the Push that found the queue empty, by FlushNow and by   *)
(* the stop; FlushNow waits on progressChanged; Close joins the writer.    *)
(*                                                                         *)
(* A line is its number in the order of acceptance.  Between two actions   *)
(* every mutex of the sink is free: an action is one critical section, or  *)
(* one step outside of them.                                               *)
(***************************************************************************)
EXTENDS Naturals, Sequences, Waiter

CONSTANTS
  Producers, Flushers,  \* threads that Push, and that FlushNow
  Capacity,             \* TraceSinkOptions.capacity
  MaxPushes,            \* bound: calls of Push
  MaxFlushes            \* bound: calls of FlushNow

ASSUME ThreadsAssumption ==
  /\ Threads = Producers \cup Flushers \cup {"closer"}
  /\ Producers \cap Flushers = {} /\ "closer" \notin Producers \cup Flushers
ASSUME BoundsAssumption == Capacity \in Nat \ {0} /\ MaxPushes \in Nat /\ MaxFlushes \in Nat

VARIABLES
  \* Under queueMutex.
  queue, accepted, closed, droppedFull, droppedClosed,
  \* Under progressMutex.
  written, flushedThrough, writerDone,
  \* RoleContext::State.stop; the file's failure and its lines.
  stop, failed, file,
  \* The writer thread and its locals.
  writer, stopping, batch, through, done,
  \* The flushers: where, their target and what they returned.
  flusher, target, answer,
  closer,               \* where Close is
  pushes, flushes

queueVars == <<queue, accepted, closed, droppedFull, droppedClosed>>
progressVars == <<written, flushedThrough, writerDone>>
writerVars == <<writer, stopping, batch, through, done>>
flushVars == <<flusher, target, answer, flushes>>
vars == <<waiterVars, queueVars, progressVars, stop, failed, file, writerVars, flushVars, closer, pushes>>

Lines == 1..MaxPushes

\* Types, the bound of the queue, and the latch's places.
TypeOK ==
  /\ WaiterTypeOK
  /\ queue \in Seq(Lines) /\ Len(queue) <= Capacity
  /\ {accepted, droppedFull, droppedClosed, written, flushedThrough, through, pushes} \subseteq 0..MaxPushes
  /\ {closed, writerDone, stop, failed, stopping} \subseteq BOOLEAN
  /\ file \in Seq(Lines) /\ batch \in Seq(Lines) /\ done \in 0..Len(batch)
  /\ writer \in {"top", "take", "write", "wait", "last", "joined"}
  /\ flusher \in [Flushers -> {"out", "notify", "check", "asleep"}]
  /\ target \in [Flushers -> 0..MaxPushes] /\ answer \in [Flushers -> BOOLEAN]
  /\ closer \in {"open", "stop", "join", "closed"}
  /\ flushes \in 0..MaxFlushes

Init ==
  /\ WaiterInit
  /\ queue = <<>> /\ accepted = 0 /\ closed = FALSE /\ droppedFull = 0 /\ droppedClosed = 0
  /\ written = 0 /\ flushedThrough = 0 /\ writerDone = FALSE
  /\ stop = FALSE /\ failed = FALSE /\ file = <<>>
  /\ writer = "top" /\ stopping = FALSE /\ batch = <<>> /\ through = 0 /\ done = 0
  /\ flusher = [f \in Flushers |-> "out"]
  /\ target = [f \in Flushers |-> 0]
  /\ answer = [f \in Flushers |-> FALSE]
  /\ closer = "open"
  /\ pushes = 0 /\ flushes = 0

-----------------------------------------------------------------------------
(* Producers.                                                              *)

PushDropped(p) ==
  /\ p \in Producers /\ signal[p] = "none" /\ pushes < MaxPushes
  /\ pushes' = pushes + 1
  /\ \/ closed /\ droppedClosed' = droppedClosed + 1 /\ UNCHANGED droppedFull
     \/ ~closed /\ Len(queue) >= Capacity /\ droppedFull' = droppedFull + 1 /\ UNCHANGED droppedClosed
  /\ UNCHANGED <<waiterVars, queue, accepted, closed, progressVars, stop, failed, file, writerVars, flushVars, closer>>

PushAccepted(p) ==
  /\ p \in Producers /\ signal[p] = "none" /\ pushes < MaxPushes
  /\ ~closed /\ Len(queue) < Capacity
  /\ pushes' = pushes + 1
  /\ accepted' = accepted + 1
  /\ queue' = Append(queue, accepted')
  /\ signal' = Notifying(IF queue = <<>> THEN {p} ELSE {})
  /\ UNCHANGED <<notified, owner, closed, droppedFull, droppedClosed, progressVars, stop, failed, file,
                 writerVars, flushVars, closer>>

-----------------------------------------------------------------------------
(* The writer's loop.                                                      *)

\* Before the first batch, and when context.Wait() has returned.
ReadStop ==
  /\ \/ writer = "top"
     \/ writer = "wait" /\ owner = "out"
  /\ stopping' = stop
  /\ writer' = "take"
  /\ UNCHANGED <<waiterVars, queueVars, progressVars, stop, failed, file, batch, through, done, flushVars, closer, pushes>>

\* The queue becomes the batch.
TakeQueue ==
  /\ writer = "take"
  /\ batch' = queue /\ through' = accepted /\ done' = 0
  /\ queue' = <<>>
  /\ writer' = "write"
  /\ UNCHANGED <<waiterVars, accepted, closed, droppedFull, droppedClosed, progressVars, stop, failed, file,
                 stopping, flushVars, closer, pushes>>

\* WritePending: some of the lines in one write (all of them, or each when flushEachLine);
\* after a failure nothing more reaches the file.
WriteLines ==
  /\ writer = "write" /\ done < Len(batch)
  /\ \E n \in (done + 1)..Len(batch) :
       /\ done' = n
       /\ \/ ~failed /\ file' = file \o SubSeq(batch, done + 1, n) /\ UNCHANGED failed
          \/ failed' = TRUE /\ UNCHANGED file
  /\ UNCHANGED <<waiterVars, queueVars, progressVars, stop, writer, stopping, batch, through, flushVars, closer, pushes>>

\* progressChanged.notify_all.
WakeFlushers == flusher' = [f \in Flushers |-> IF flusher[f] = "asleep" THEN "check" ELSE flusher[f]]

\* Mutant of Progress: flushedThrough is what has been accepted by now.
ProgressMutant ==
  /\ writer = "write" /\ done = Len(batch)
  /\ written' = written + Len(batch)
  /\ flushedThrough' = accepted
  /\ WakeFlushers
  /\ batch' = <<>> /\ done' = 0
  /\ IF stopping THEN writer' = "last" /\ UNCHANGED owner ELSE writer' = "wait" /\ Enter
  /\ UNCHANGED <<notified, signal, queueVars, writerDone, stop, failed, file, stopping, through,
                 target, answer, flushes, closer, pushes>>

\* Mutant of Progress: the stop is read at the end of the round, after the take.
ProgressReadsStop ==
  /\ writer = "write" /\ done = Len(batch)
  /\ written' = written + Len(batch)
  /\ flushedThrough' = through
  /\ WakeFlushers
  /\ batch' = <<>> /\ done' = 0
  /\ IF stop THEN writer' = "last" /\ UNCHANGED owner ELSE writer' = "wait" /\ Enter
  /\ UNCHANGED <<notified, signal, queueVars, writerDone, stop, failed, file, stopping, through,
                 target, answer, flushes, closer, pushes>>

\* The batch is written: the progress, the notify_all, and the wait unless stopping.
Progress ==
  /\ writer = "write" /\ done = Len(batch)
  /\ written' = written + Len(batch)
  /\ flushedThrough' = through
  /\ WakeFlushers
  /\ batch' = <<>> /\ done' = 0
  /\ IF stopping THEN writer' = "last" /\ UNCHANGED owner ELSE writer' = "wait" /\ Enter
  /\ UNCHANGED <<notified, signal, queueVars, writerDone, stop, failed, file, stopping, through,
                 target, answer, flushes, closer, pushes>>

LastWords ==
  /\ writer = "last"
  /\ writerDone' = TRUE
  /\ writer' = "joined"
  /\ WakeFlushers
  /\ UNCHANGED <<waiterVars, queueVars, written, flushedThrough, stop, failed, file, stopping, batch, through,
                 done, target, answer, flushes, closer, pushes>>

-----------------------------------------------------------------------------
(* FlushNow.                                                               *)

Answer(f, value) ==
  /\ flusher' = [flusher EXCEPT ![f] = "out"]
  /\ answer' = [answer EXCEPT ![f] = value]

\* The queue stays locked by others, or the sink is closed: nothing is promised.
FlushRefused(f) ==
  /\ flusher[f] = "out" /\ flushes < MaxFlushes
  /\ flushes' = flushes + 1
  /\ Answer(f, FALSE)
  /\ UNCHANGED <<waiterVars, queueVars, progressVars, stop, failed, file, writerVars, target, closer, pushes>>

FlushNow(f) ==
  /\ flusher[f] = "out" /\ flushes < MaxFlushes /\ ~closed
  /\ flushes' = flushes + 1
  /\ target' = [target EXCEPT ![f] = accepted]
  /\ flusher' = [flusher EXCEPT ![f] = "notify"]
  /\ signal' = Notifying({f})
  /\ UNCHANGED <<notified, owner, queueVars, progressVars, stop, failed, file, writerVars, answer, closer, pushes>>

\* wait_until's predicate, under progressMutex: return, or sleep until a notify_all.
FlushChecks(f) ==
  /\ \/ flusher[f] = "notify" /\ signal[f] = "none"
     \/ flusher[f] = "check"
  /\ IF flushedThrough >= target[f] \/ writerDone
     THEN Answer(f, flushedThrough >= target[f] /\ ~failed)
     ELSE flusher' = [flusher EXCEPT ![f] = "asleep"] /\ UNCHANGED answer
  /\ UNCHANGED <<waiterVars, queueVars, progressVars, stop, failed, file, writerVars, target, flushes, closer, pushes>>

FlushTimeout(f) ==
  /\ flusher[f] = "asleep"
  /\ Answer(f, flushedThrough >= target[f] /\ ~failed)
  /\ UNCHANGED <<waiterVars, queueVars, progressVars, stop, failed, file, writerVars, target, flushes, closer, pushes>>

-----------------------------------------------------------------------------
(* Close.                                                                  *)

MarkClosed ==
  /\ closer = "open"
  /\ closed' = TRUE
  /\ closer' = "stop"
  /\ UNCHANGED <<waiterVars, queue, accepted, droppedFull, droppedClosed, progressVars, stop, failed, file,
                 writerVars, flushVars, pushes>>

RequestStop ==
  /\ closer = "stop"
  /\ stop' = TRUE
  /\ signal' = Notifying({"closer"})
  /\ closer' = "join"
  /\ UNCHANGED <<notified, owner, queueVars, progressVars, failed, file, writerVars, flushVars, pushes>>

\* Join, the counts, the end line and the file's close, which may fail.
Join ==
  /\ closer = "join" /\ signal["closer"] = "none" /\ writer = "joined"
  /\ closer' = "closed"
  /\ failed' \in {failed, TRUE}
  /\ UNCHANGED <<waiterVars, queueVars, progressVars, stop, file, writerVars, flushVars, pushes>>

-----------------------------------------------------------------------------

Unwaited == UNCHANGED <<queueVars, progressVars, stop, failed, file, writerVars, flushVars, closer, pushes>>
WriterStep ==
  \/ ReadStop \/ TakeQueue \/ WriteLines \/ Progress \/ LastWords
  \/ WaitStep /\ Unwaited
NotifierStep(t) == NotifyStep(t) /\ Unwaited

Next ==
  \/ \E p \in Producers : PushDropped(p) \/ PushAccepted(p)
  \/ WriterStep
  \/ \E t \in Threads : NotifierStep(t)
  \/ \E f \in Flushers : FlushRefused(f) \/ FlushNow(f) \/ FlushChecks(f) \/ FlushTimeout(f)
  \/ MarkClosed \/ RequestStop \/ Join

Spec == Init /\ [][Next]_vars

\* Every thread that is inside a call runs; nobody is assumed to call, no write to end
\* well, no timeout to fire.
FairSpec ==
  /\ Spec
  /\ WF_vars(WriterStep)
  /\ \A t \in Threads : WF_vars(NotifierStep(t))
  /\ \A f \in Flushers : WF_vars(FlushChecks(f))
  /\ WF_vars(RequestStop) /\ WF_vars(Join)

-----------------------------------------------------------------------------
(* What the sink promises (TraceSink.hpp).                                 *)

\* A FlushNow that answers true has every line accepted before it in the file, although
\* producers keep pushing while the writer works (TraceSink.hpp:89).
FlushHonest == \A f \in Flushers : answer[f] /\ flusher[f] = "out" => target[f] <= Len(file)

\* The file holds the accepted lines in order, without a gap, and after Close all of
\* them unless a write failed; every Push is counted once (TraceSink.hpp:50).
ClosedComplete ==
  /\ \A i \in DOMAIN file : file[i] = i
  /\ closer = "closed" =>
       /\ pushes = written + droppedFull + droppedClosed
       /\ failed \/ Len(file) = accepted

\* Without a timer or a timeout, again and again: every accepted line has reached the
\* writer, no FlushNow waits and a Close has joined.  No notification is lost between the
\* latch and the sleep, and none that Push leaves to an earlier one is missing.
NothingLeftWaiting ==
  []<>( /\ flushedThrough = accepted
        /\ \A f \in Flushers : flusher[f] = "out"
        /\ closed => closer = "closed")

=============================================================================
