----------------------------- MODULE RuntimeLink -----------------------------
(***************************************************************************)
(* The Gateway's connection to the Match, runtime_link.go: one FIFO of     *)
(* controls and client data, the writer that empties it a pass at a time,  *)
(* and the end of the link, which several goroutines may start at once:    *)
(*                                                                         *)
(*   writer   run's first goroutine   pass by pass, a diagnostic apart     *)
(*   reader   run's second goroutine  fails the link when a read fails     *)
(*   servers  the UDP reader, HTTP handlers, the expiry timer and the      *)
(*            goroutines of invariantFailed: queue, or fail the runtime    *)
(*   closer   Server.Close, when Serve's context or HTTP ends              *)
(*                                                                         *)
(* A thread's `pc' names the call it is in.  runtimeLink.fail runs close   *)
(* and Server.runtimeFailed inside the Once `linkOnce'; runtimeFailed and  *)
(* Close both end in Server.flushFinal, the Once `finalOnce', whose first  *)
(* caller waits until the writer has exited and then writes the last       *)
(* ingress window.  A Once makes every later caller wait for the first.    *)
(*                                                                         *)
(* A stream is a dataKey, one player's input windows or action batches;    *)
(* `counts' is what all windows up to now have taken from l.ingress and    *)
(* what it still holds.  What a message contains is left out.              *)
(***************************************************************************)
EXTENDS Naturals, Sequences, FiniteSets

CONSTANTS
  Streams,            \* the keys of queuedData
  Servers,            \* goroutines that queue messages or fail the runtime
  MaxQueuedControls,  \* controls the queue holds (64 in the code)
  MaxQueuedData,      \* messages of one stream the queue holds (64)
  MaxHanded,          \* bound: messages handed to the link
  MaxHeartbeats       \* bound: ticks of the diagnostic timer

ASSUME LimitsAssumption == MaxQueuedControls \in Nat \ {0} /\ MaxQueuedData \in Nat \ {0}
ASSUME NamesAssumption ==
  /\ "control" \notin Streams
  /\ Servers \cap {"writer", "reader", "closer", "free", "done"} = {}
ASSUME BoundsAssumption == MaxHanded \in Nat /\ MaxHeartbeats \in Nat

VARIABLES
  \* runtimeLink, under l.mu.
  queue,            \* [stream, n] in arrival order; n numbers what was handed
  closed,           \* closed and the channel `done', set in one section
  counts,           \* per stream, what became of its messages
  diagnostic,       \* the diagnostic slot is full
  exited,           \* the channel writerExited is closed
  \* Its channels of one element.
  wake, diagnosticWake,
  \* The threads.
  pc,
  pass,             \* the writer's writes[i:], the first one under way or next
  writerError,      \* the error `write' returns
  linkOnce,         \* l.once: "free", the thread inside, or "done"
  finalOnce,        \* Server.finalOnce, likewise
  available,        \* Server.available
  ctxDone,          \* Serve's context has ended
  \* The outside.
  sent,             \* what the connection took, in order
  window,           \* {} until the final window is written, then its cumulative counts
  handed,           \* messages handed so far
  heartbeats

linkVars == <<queue, closed, counts, diagnostic, exited, wake, diagnosticWake>>
onceVars == <<linkOnce, finalOnce, available, ctxDone, window>>
boundVars == <<handed, heartbeats>>
vars == <<linkVars, pc, pass, writerError, onceVars, sent, boundVars>>

Threads == Servers \cup {"writer", "reader", "closer"}
Buckets == {"handed", "overflow", "written", "cleared", "abandoned"}
Message == [stream : Streams \cup {"control"}, n : 1..MaxHanded]
Counts == [Streams -> [Buckets -> Nat]]

Held(messages, stream) == Cardinality({i \in DOMAIN messages : messages[i].stream = stream})

\* countLocked: every data message of `messages' goes to the bucket.
Count(messages, bucket) ==
  [s \in Streams |-> [counts[s] EXCEPT ![bucket] = @ + Held(messages, s)]]

\* The link's variables keep their types, and the queue its bounds: the controls of
\* maxQueuedControls, and maxQueuedInputs or maxQueuedActions messages of each stream.
TypeOK ==
  /\ queue \in Seq(Message) /\ pass \in Seq(Message) /\ sent \in Seq(Message)
  /\ Held(queue, "control") <= MaxQueuedControls
  /\ \A s \in Streams : Held(queue, s) <= MaxQueuedData
  /\ counts \in Counts
  /\ window \subseteq Counts
  /\ {closed, diagnostic, exited, wake, diagnosticWake, available, ctxDone} \subseteq BOOLEAN
  /\ pc \in [Threads -> {"running", "pass", "writing", "reporting", "abandon", "once", "failed",
                         "close", "graceful", "finals", "flush", "window", "done"}]
  /\ writerError \in {"none", "closing", "failed"}
  /\ linkOnce \in Threads \cup {"free", "done"}
  /\ finalOnce \in Threads \cup {"free", "done"}
  /\ handed \in 0..MaxHanded /\ heartbeats \in 0..MaxHeartbeats

Init ==
  /\ queue = <<>> /\ pass = <<>> /\ sent = <<>>
  /\ counts = [s \in Streams |-> [b \in Buckets |-> 0]]
  /\ closed = FALSE /\ diagnostic = FALSE /\ exited = FALSE
  /\ wake = FALSE /\ diagnosticWake = FALSE
  /\ pc = [t \in Threads |-> "running"]
  /\ writerError = "none"
  /\ linkOnce = "free" /\ finalOnce = "free"
  /\ available = TRUE /\ ctxDone = FALSE
  /\ window = {}
  /\ handed = 0 /\ heartbeats = 0

-----------------------------------------------------------------------------
(* Queueing: server threads, under s.mu and l.mu.                          *)

GoTo(t, place) == pc' = [pc EXCEPT ![t] = place]

\* The first message of the stream is dropped and counted when it is at its bound.
WithoutOldest(stream) ==
  LET oldest == CHOOSE i \in DOMAIN queue :
        /\ queue[i].stream = stream
        /\ \A j \in 1..(i - 1) : queue[j].stream # stream
  IN  SubSeq(queue, 1, oldest - 1) \o SubSeq(queue, oldest + 1, Len(queue))

\* Mutant of QueueData: at the bound the new message is refused without a count.
QueueDataMutant(t, stream) ==
  /\ pc[t] = "running" /\ available /\ handed < MaxHanded /\ ~closed
  /\ handed' = handed + 1
  /\ queue' = IF Held(queue, stream) < MaxQueuedData
              THEN Append(queue, [stream |-> stream, n |-> handed']) ELSE queue
  /\ counts' = [counts EXCEPT ![stream].handed = @ + 1]
  /\ wake' = TRUE
  /\ UNCHANGED <<closed, diagnostic, exited, diagnosticWake, pc, pass, writerError, onceVars, sent, heartbeats>>

QueueData(t, stream) ==
  /\ pc[t] = "running" /\ available /\ handed < MaxHanded /\ ~closed
  /\ LET overflow == Held(queue, stream) >= MaxQueuedData
     IN  /\ queue' = Append(IF overflow THEN WithoutOldest(stream) ELSE queue,
                            [stream |-> stream, n |-> handed + 1])
         /\ counts' = [counts EXCEPT ![stream].handed = @ + 1,
                                     ![stream].overflow = @ + (IF overflow THEN 1 ELSE 0)]
  /\ handed' = handed + 1
  /\ wake' = TRUE
  /\ UNCHANGED <<closed, diagnostic, exited, diagnosticWake, pc, pass, writerError, onceVars, sent, heartbeats>>

QueueControl(t) ==
  /\ pc[t] = "running" /\ available /\ handed < MaxHanded
  /\ ~closed /\ Held(queue, "control") < MaxQueuedControls
  /\ handed' = handed + 1
  /\ queue' = Append(queue, [stream |-> "control", n |-> handed'])
  /\ wake' = TRUE
  /\ UNCHANGED <<closed, counts, diagnostic, exited, diagnosticWake, pc, pass, writerError, onceVars, sent, heartbeats>>

\* The link refuses (closed, or too many controls), or the server finds the runtime
\* broken by itself: a result nobody asked for, an invariant that failed.
Refused(t) ==
  /\ t \in Servers /\ pc[t] = "running" /\ available
  /\ GoTo(t, "failed")
  /\ UNCHANGED <<linkVars, pass, writerError, onceVars, sent, boundVars>>

Heartbeat ==
  /\ ~closed /\ heartbeats < MaxHeartbeats
  /\ heartbeats' = heartbeats + 1
  /\ diagnostic' = TRUE
  /\ diagnosticWake' = TRUE
  /\ UNCHANGED <<queue, closed, counts, exited, wake, pc, pass, writerError, onceVars, sent, handed>>

-----------------------------------------------------------------------------
(* The writer.                                                             *)

\* `stopped', and the return or the call of `fail' after it.
Stopped(place) ==
  /\ exited' = TRUE
  /\ GoTo("writer", place)

WriterReturns ==
  /\ pc["writer"] = "running" /\ (closed \/ ctxDone)
  /\ Stopped("done")
  /\ UNCHANGED <<queue, closed, counts, diagnostic, wake, diagnosticWake, pass, writerError, onceVars, sent, boundVars>>

\* Mutant of Take: the controls go first, as a queue of their own would.
TakeMutant ==
  /\ pass' = SelectSeq(queue, LAMBDA m : m.stream = "control")
              \o SelectSeq(queue, LAMBDA m : m.stream # "control")
  /\ queue' = <<>>
  /\ GoTo("writer", "pass")
  /\ UNCHANGED <<closed, counts, diagnostic, exited, diagnosticWake, writerError, onceVars, sent, boundVars>>

\* `take': the whole queue becomes one pass.
Take ==
  /\ pass' = queue
  /\ queue' = <<>>
  /\ GoTo("writer", "pass")
  /\ UNCHANGED <<closed, counts, diagnostic, exited, diagnosticWake, writerError, onceVars, sent, boundVars>>

WriterWoken == pc["writer"] = "running" /\ wake /\ wake' = FALSE /\ Take
WriterTimer == pc["writer"] = "running" /\ queue # <<>> /\ UNCHANGED wake /\ Take

\* `write' looks at `done' before each message; it stops between two when closing.
NextWrite ==
  /\ pc["writer"] = "pass"
  /\ IF pass = <<>> THEN GoTo("writer", "running") /\ UNCHANGED writerError
     ELSE IF closed THEN GoTo("writer", "abandon") /\ writerError' = "closing"
     ELSE GoTo("writer", "writing") /\ UNCHANGED writerError
  /\ UNCHANGED <<linkVars, pass, onceVars, sent, boundVars>>

Written ==
  /\ pc["writer"] = "writing"
  /\ sent' = Append(sent, Head(pass))
  /\ counts' = Count(<<Head(pass)>>, "written")
  /\ pass' = Tail(pass)
  /\ GoTo("writer", "pass")
  /\ UNCHANGED <<queue, closed, diagnostic, exited, wake, diagnosticWake, writerError, onceVars, boundVars>>

WriteFails ==
  /\ pc["writer"] = "writing"
  /\ writerError' = "failed"
  /\ GoTo("writer", "abandon")
  /\ UNCHANGED <<linkVars, pass, onceVars, sent, boundVars>>

\* Mutant of Abandon: writerExited is closed only by the deferred call, after fail.
AbandonMutant ==
  /\ pc["writer"] = "abandon"
  /\ counts' = Count(pass, "abandoned")
  /\ pass' = <<>>
  /\ GoTo("writer", IF writerError = "closing" THEN "done" ELSE "once")
  /\ exited' = (writerError = "closing")
  /\ UNCHANGED <<queue, closed, diagnostic, wake, diagnosticWake, writerError, onceVars, sent, boundVars>>

\* The message that failed and the rest of the pass are counted, then the writer stops.
Abandon ==
  /\ pc["writer"] = "abandon"
  /\ counts' = Count(pass, "abandoned")
  /\ pass' = <<>>
  /\ Stopped(IF writerError = "closing" THEN "done" ELSE "once")
  /\ UNCHANGED <<queue, closed, diagnostic, wake, diagnosticWake, writerError, onceVars, sent, boundVars>>

\* The diagnostic slot and the drop reports: woken apart, no pass is taken.  That a report
\* asked for too soon wakes the writer once more a second later is left out: it moves no
\* message and changes no count.
WriteDiagnostic ==
  /\ pc["writer"] = "running" /\ diagnosticWake
  /\ diagnosticWake' = FALSE
  /\ diagnostic' = FALSE
  /\ IF closed THEN Stopped("done")
     ELSE GoTo("writer", IF diagnostic THEN "reporting" ELSE "running") /\ UNCHANGED exited
  /\ UNCHANGED <<queue, closed, counts, wake, pass, writerError, onceVars, sent, boundVars>>

\* The envelope under way is written: the last one, or closing, or it fails.
Reported ==
  /\ pc["writer"] = "reporting"
  /\ \/ GoTo("writer", "running") /\ UNCHANGED exited
     \/ closed /\ Stopped("done")
     \/ Stopped("once")
  /\ UNCHANGED <<queue, closed, counts, diagnostic, wake, diagnosticWake, pass, writerError, onceVars, sent, boundVars>>

-----------------------------------------------------------------------------
(* The end of the link.                                                    *)

\* shutdown's section under l.mu: what is queued is cleared and counted, once.
Shutdown ==
  IF closed THEN UNCHANGED <<queue, closed, counts, diagnostic, wake>>
  ELSE /\ closed' = TRUE
       /\ diagnostic' = FALSE
       /\ counts' = Count(queue, "cleared")
       /\ queue' = <<>>
       /\ wake' = TRUE

Return(t) ==
  /\ GoTo(t, "done")
  /\ linkOnce' = IF linkOnce = t THEN "done" ELSE linkOnce
  /\ exited' = (exited \/ t = "writer")

\* A read fails or times out; after the end of the context it is not reported.
ReadFails ==
  /\ pc["reader"] = "running"
  /\ GoTo("reader", IF ctxDone THEN "done" ELSE "once")
  /\ UNCHANGED <<linkVars, pass, writerError, onceVars, sent, boundVars>>

\* `fail': the first caller closes the link and reports, a later one waits for it.
Fail(t) ==
  /\ pc[t] = "once"
  /\ \/ /\ linkOnce = "free"
        /\ linkOnce' = t
        /\ Shutdown
        /\ GoTo(t, "failed")
        /\ UNCHANGED exited
     \/ /\ linkOnce = "done"
        /\ Return(t)
        /\ UNCHANGED <<queue, closed, counts, diagnostic, wake>>
  /\ UNCHANGED <<diagnosticWake, pass, writerError, finalOnce, available, ctxDone, window, sent, boundVars>>

RuntimeFailed(t) ==
  /\ pc[t] = "failed"
  /\ available' = FALSE
  /\ IF available THEN GoTo(t, "close") /\ UNCHANGED <<linkOnce, exited>> ELSE Return(t)
  /\ UNCHANGED <<queue, closed, counts, diagnostic, wake, diagnosticWake, pass, writerError,
                 finalOnce, ctxDone, window, sent, boundVars>>

CloseLink(t) ==
  /\ pc[t] = "close"
  /\ Shutdown
  /\ GoTo(t, "flush")
  /\ UNCHANGED <<exited, diagnosticWake, pass, writerError, onceVars, sent, boundVars>>

Flush(t) ==
  /\ pc[t] = "flush"
  /\ \/ finalOnce = "free" /\ finalOnce' = t /\ GoTo(t, "window") /\ UNCHANGED <<linkOnce, exited>>
     \/ finalOnce = "done" /\ Return(t) /\ UNCHANGED finalOnce
  /\ UNCHANGED <<queue, closed, counts, diagnostic, wake, diagnosticWake, pass, writerError,
                 available, ctxDone, window, sent, boundVars>>

\* Mutant of FinalWindow: the window does not wait for the writer.
FinalWindowMutant(t) ==
  /\ pc[t] = "window"
  /\ window' = {counts}
  /\ finalOnce' = "done"
  /\ Return(t)
  /\ UNCHANGED <<queue, closed, counts, diagnostic, wake, diagnosticWake, pass, writerError,
                 available, ctxDone, sent, boundVars>>

\* writeFinalIngress: after waitWriter.
FinalWindow(t) ==
  /\ pc[t] = "window" /\ exited
  /\ window' = {counts}
  /\ finalOnce' = "done"
  /\ Return(t)
  /\ UNCHANGED <<queue, closed, counts, diagnostic, wake, diagnosticWake, pass, writerError,
                 available, ctxDone, sent, boundVars>>

\* Serve's context ends: the caller's at any time, its own after Close has returned.
ContextEnds ==
  /\ ~ctxDone
  /\ ctxDone' = TRUE
  /\ UNCHANGED <<pc, linkVars, pass, writerError, linkOnce, finalOnce, available, window, sent, boundVars>>

\* Server.Close: the context has ended, or HTTP has.
Close ==
  /\ pc["closer"] = "running"
  /\ Shutdown
  /\ GoTo("closer", IF closed THEN "flush" ELSE "graceful")
  /\ UNCHANGED <<exited, diagnosticWake, pass, writerError, onceVars, sent, boundVars>>

\* Mutant of WaitWriter: past the time limit they are written all the same.
WaitWriterMutant ==
  /\ pc["closer"] = "graceful"
  /\ GoTo("closer", "finals")
  /\ UNCHANGED <<linkVars, pass, writerError, onceVars, sent, boundVars>>

\* waitWriterFor: the final drop reports are written only after the writer exited;
\* past the time limit they are not.
WaitWriter ==
  /\ pc["closer"] = "graceful"
  /\ GoTo("closer", IF exited THEN "finals" ELSE "flush")
  /\ UNCHANGED <<linkVars, pass, writerError, onceVars, sent, boundVars>>

Finals ==
  /\ pc["closer"] = "finals"
  /\ GoTo("closer", "flush")
  /\ UNCHANGED <<linkVars, pass, writerError, onceVars, sent, boundVars>>

Writing == NextWrite \/ Written \/ WriteFails \/ Abandon \/ Reported
Ending(t) == Fail(t) \/ RuntimeFailed(t) \/ CloseLink(t) \/ Flush(t) \/ FinalWindow(t)

Next ==
  \/ \E t \in Servers : QueueControl(t) \/ Refused(t) \/ \E s \in Streams : QueueData(t, s)
  \/ Heartbeat
  \/ WriterReturns \/ WriterWoken \/ WriterTimer \/ WriteDiagnostic \/ Writing
  \/ ReadFails
  \/ \E t \in Threads : Ending(t)
  \/ ContextEnds \/ Close \/ WaitWriter \/ Finals

Spec == Init /\ [][Next]_vars

\* Goroutines run: the writer's select takes a ready case, a write ends within its
\* deadline of 3 s, and an ending goes on.  Nothing is assumed of the timer, which
\* only bounds an idle wait, nor of readers, servers and closers starting to fail.
FairSpec ==
  /\ Spec
  /\ WF_vars(WriterReturns) /\ WF_vars(WriterWoken) /\ WF_vars(WriteDiagnostic)
  /\ WF_vars(Writing)
  /\ \A t \in Threads : WF_vars(Ending(t))
  /\ WF_vars(WaitWriter) /\ WF_vars(Finals)

-----------------------------------------------------------------------------
(* What the link promises.                                                 *)

Total(c, s) == c[s].overflow + c[s].written + c[s].cleared + c[s].abandoned

\* Every data message handed to the link is written, dropped for its bound, cleared by
\* the close, abandoned by the writer, or still held: once each.  The last window, written
\* while other threads may still be failing, has them all (I0 of runtime_link.go:304).
Accounted ==
  /\ \A s \in Streams :
       counts[s].handed = Total(counts, s) + Held(queue, s) + Held(pass, s)
  /\ \A final \in window :
       final = counts /\ \A s \in Streams : final[s].handed = Total(final, s)

\* What reaches the Match is in the order it was handed over, through the queue, the pass
\* and the drops for overflow: so a Leave never overtakes its player's data
\* (runtime_link.go:69).
SentInOrder ==
  /\ \A i, j \in DOMAIN sent : i < j => sent[i].n < sent[j].n
  /\ \A held \in {queue, pass} : \A i \in DOMAIN held, j \in DOMAIN sent :
       sent[j].n < held[i].n

\* The final drop reports have the connection to themselves and miss no drop: nothing is
\* written or counted beside them or after them (runtime_link.go:765, "one writer at a time").
FinalsAlone ==
  pc["closer"] = "finals" => pc["writer"] \notin {"writing", "reporting", "abandon"} /\ pass = <<>>

\* However the link is closed, and although several threads do it and wait for each other,
\* the writer exits and the last window is written (the comments at runtime_link.go:530 and
\* server.go:1091).
ShutdownEnds == closed ~> (exited /\ window # {} /\ linkOnce \in {"free", "done"})

=============================================================================
