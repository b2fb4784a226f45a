---------------------------- MODULE TraceSinkProofs ----------------------------
(***************************************************************************)
(* What the sink promises (TraceSink), for every number of producers,      *)
(* flushers, lines and any capacity.  The inductive invariant is TypeOK    *)
(* with two parts: the numbers of the lines in the file, the batch and the *)
(* queue follow each other, and a writer that is stopping has left nothing *)
(* behind it.                                                              *)
(***************************************************************************)
EXTENDS TraceSink, TLAPS, SequenceTheorems

\* Lines are numbered in the order of acceptance: first those of the file, then the batch,
\* then the queue.  A failure only takes lines from the end of the file.
Numbered ==
  /\ accepted = through + Len(queue) /\ through = written + Len(batch) /\ flushedThrough = written
  /\ pushes = accepted + droppedFull + droppedClosed
  /\ \A i \in 1..Len(queue) : queue[i] = through + i
  /\ \A i \in 1..Len(batch) : batch[i] = written + i
  /\ \A i \in 1..Len(file) : file[i] = i
  /\ Len(file) <= written + done
  /\ ~failed => Len(file) = written + done
  /\ writer # "write" => batch = <<>> /\ done = 0

\* A stop is requested by a Close, after which no line is accepted; and the batch that follows
\* the stop takes all there is.
Stopping ==
  /\ closer # "open" => closed
  /\ stop => closed
  /\ stopping => stop
  /\ writer \in {"last", "joined"} => stopping
  /\ stopping /\ writer # "take" /\ writer # "wait" => queue = <<>>
  /\ closer = "closed" => writer = "joined"

IInv == TypeOK /\ Numbered /\ Stopping /\ FlushHonest

-----------------------------------------------------------------------------
(* The steps that move lines.                                              *)

\* The counters are naturals, the lines sequences.
LEMMA Numbers ==
  ASSUME TypeOK
  PROVE  /\ MaxPushes \in Nat /\ Capacity \in Nat
         /\ accepted \in Nat /\ droppedFull \in Nat /\ droppedClosed \in Nat /\ written \in Nat
         /\ flushedThrough \in Nat /\ through \in Nat /\ pushes \in Nat /\ done \in Nat
         /\ queue \in Seq(Lines) /\ Len(queue) \in Nat /\ batch \in Seq(Lines) /\ Len(batch) \in Nat
         /\ file \in Seq(Lines) /\ Len(file) \in Nat
         /\ \A f \in Flushers : target[f] \in Nat
<1>1. MaxPushes \in Nat /\ Capacity \in Nat
  BY BoundsAssumption
<1>2. queue \in Seq(Lines) /\ batch \in Seq(Lines) /\ file \in Seq(Lines)
  BY DEF TypeOK
<1>3. Len(queue) \in Nat /\ Len(batch) \in Nat /\ Len(file) \in Nat
  BY <1>2, LenProperties
<1>4. \A n \in {accepted, droppedFull, droppedClosed, written, flushedThrough, through, pushes} : n \in Nat
  BY <1>1 DEF TypeOK
<1>5. done \in Nat /\ \A f \in Flushers : target[f] \in Nat
  BY <1>1, <1>3 DEF TypeOK
<1> QED
  BY <1>1, <1>2, <1>3, <1>4, <1>5

LEMMA PushAcceptedKeeps ==
  ASSUME IInv, NEW p, PushAccepted(p)
  PROVE  IInv'
<1> USE DEF IInv
<1>1. /\ p \in Producers /\ pushes < MaxPushes /\ ~closed /\ Len(queue) < Capacity
      /\ pushes' = pushes + 1 /\ accepted' = accepted + 1 /\ queue' = Append(queue, accepted')
      /\ UNCHANGED <<notified, owner, closed, droppedFull, droppedClosed, progressVars, stop, failed, file,
                     writerVars, flushVars, closer>>
      /\ signal' = Notifying(IF queue = <<>> THEN {p} ELSE {})
  BY DEF PushAccepted
<1>2. /\ MaxPushes \in Nat /\ Capacity \in Nat /\ accepted \in Nat /\ pushes \in Nat /\ accepted <= pushes
      /\ through \in Nat /\ written \in Nat
      /\ droppedFull \in Nat /\ droppedClosed \in Nat
      /\ queue \in Seq(Lines) /\ Len(queue) \in Nat
  <2>1. TypeOK /\ pushes = accepted + droppedFull + droppedClosed
    BY DEF Numbered
  <2> HIDE DEF IInv
  <2>2. /\ MaxPushes \in Nat /\ Capacity \in Nat /\ accepted \in Nat /\ pushes \in Nat
        /\ through \in Nat /\ written \in Nat /\ droppedFull \in Nat /\ droppedClosed \in Nat
        /\ queue \in Seq(Lines) /\ Len(queue) \in Nat
    BY <2>1, Numbers
  <2>3. accepted <= pushes
    BY <2>1, <2>2
  <2> QED
    BY <2>2, <2>3
<1>3. accepted' \in Lines
  BY <1>1, <1>2 DEF Lines
<1>4. /\ queue' \in Seq(Lines) /\ Len(queue') = Len(queue) + 1
      /\ \A i \in 1..Len(queue) : queue'[i] = queue[i]
      /\ queue'[Len(queue) + 1] = accepted'
  BY <1>1, <1>2, <1>3, AppendProperties
<1>5. TypeOK'
  <2>1. WaiterTypeOK'
    BY <1>1 DEF TypeOK, WaiterTypeOK, Notifying
  <2>2. accepted' \in 0..MaxPushes /\ pushes' \in 0..MaxPushes
    <3>1. pushes' = accepted' + droppedFull + droppedClosed
      BY <1>1, <1>2 DEF Numbered
    <3> QED
      BY <1>1, <1>2, <3>1
  <2>3. {accepted, droppedFull, droppedClosed, written, flushedThrough, through, pushes}' \subseteq 0..MaxPushes
    BY <1>1, <2>2 DEF TypeOK, progressVars, writerVars
  <2>4. queue' \in Seq(Lines) /\ Len(queue') <= Capacity
    BY <1>1, <1>2, <1>4, BoundsAssumption
  <2>5. {closed, writerDone, stop, failed, stopping}' \subseteq BOOLEAN
    BY <1>1 DEF TypeOK, progressVars, writerVars
  <2>6. /\ UNCHANGED <<file, batch, done, writer, flushVars, closer>>
    BY <1>1 DEF writerVars
  <2> QED
    BY <2>1, <2>3, <2>4, <2>5, <2>6 DEF TypeOK, flushVars
<1>6. Numbered'
  <2>1. /\ accepted = through + Len(queue) /\ pushes = accepted + droppedFull + droppedClosed
        /\ \A i \in 1..Len(queue) : queue[i] = through + i
    BY DEF Numbered
  <2>2. pushes' = accepted' + droppedFull + droppedClosed /\ accepted' = through + Len(queue')
    BY <1>1, <1>2, <1>4, <2>1
  <2>3. ASSUME NEW i \in 1..Len(queue')
        PROVE  queue'[i] = through + i
    <3>1. CASE i \in 1..Len(queue)
      BY <1>4, <2>1, <3>1
    <3>2. CASE i = Len(queue) + 1
      BY <1>2, <1>4, <2>2, <3>2
    <3> QED
      BY <1>2, <1>4, <3>1, <3>2
  <2> QED
    BY <1>1, <2>2, <2>3 DEF Numbered, progressVars, writerVars
<1>7. Stopping'
  BY <1>1 DEF Stopping, writerVars
<1>8. FlushHonest'
  BY <1>1 DEF FlushHonest, flushVars
<1> QED
  BY <1>5, <1>6, <1>7, <1>8

LEMMA TakeQueueKeeps ==
  ASSUME IInv, TakeQueue
  PROVE  IInv'
<1> USE DEF IInv
<1>1. /\ writer = "take" /\ batch' = queue /\ through' = accepted /\ done' = 0 /\ queue' = <<>> /\ writer' = "write"
      /\ UNCHANGED <<waiterVars, accepted, closed, droppedFull, droppedClosed, progressVars, stop, failed, file,
                     stopping, flushVars, closer, pushes>>
  BY DEF TakeQueue
<1>2. /\ Capacity \in Nat /\ MaxPushes \in Nat /\ queue \in Seq(Lines) /\ Len(queue) \in Nat /\ accepted \in Nat
      /\ accepted \in 0..MaxPushes /\ written \in Nat /\ through \in Nat /\ batch = <<>> /\ Len(batch) = 0 /\ done = 0
  BY <1>1, BoundsAssumption, LenProperties, EmptySeq DEF TypeOK, Numbered
<1>3. /\ queue' \in Seq(Lines) /\ Len(queue') = 0
  BY <1>1, EmptySeq
<1>4. TypeOK'
  <2>1. WaiterTypeOK'
    BY <1>1 DEF TypeOK, WaiterTypeOK, waiterVars
  <2> QED
    BY <1>1, <1>2, <1>3, <2>1 DEF TypeOK, progressVars, flushVars
<1>5. Numbered'
  <2>1. through = written /\ accepted = written + Len(queue)
    BY <1>2 DEF Numbered
  <2> QED
    BY <1>1, <1>2, <1>3, <2>1 DEF Numbered, progressVars
<1>6. Stopping'
  BY <1>1 DEF Stopping
<1>7. FlushHonest'
  BY <1>1 DEF FlushHonest, flushVars
<1> QED
  BY <1>4, <1>5, <1>6, <1>7

LEMMA WriteLinesKeeps ==
  ASSUME IInv, WriteLines
  PROVE  IInv'
<1> USE DEF IInv
<1>1. /\ writer = "write" /\ done < Len(batch)
      /\ UNCHANGED <<waiterVars, queueVars, progressVars, stop, writer, stopping, batch, through, flushVars, closer, pushes>>
  BY DEF WriteLines
<1>2. PICK n \in (done + 1)..Len(batch) :
        /\ done' = n
        /\ \/ ~failed /\ file' = file \o SubSeq(batch, done + 1, n) /\ UNCHANGED failed
           \/ failed' = TRUE /\ UNCHANGED file
  BY DEF WriteLines
<1>3. /\ batch \in Seq(Lines) /\ Len(batch) \in Nat /\ done \in Nat /\ n \in 1..Len(batch) /\ n \in Nat /\ done < n
      /\ file \in Seq(Lines) /\ Len(file) \in Nat /\ written \in Nat /\ done + 1 \in 1..(Len(batch) + 1)
      /\ failed \in BOOLEAN
  BY <1>1, LenProperties, BoundsAssumption DEF TypeOK
<1>4. /\ file' \in Seq(Lines) /\ Len(file') \in Nat /\ Len(file) <= Len(file') /\ failed' \in BOOLEAN
      /\ \A i \in 1..Len(file') : file'[i] = i
      /\ Len(file') <= written + n /\ (~failed' => Len(file') = written + n)
  <2>1. CASE ~failed /\ file' = file \o SubSeq(batch, done + 1, n) /\ failed' = failed
    <3> DEFINE more == SubSeq(batch, done + 1, n)
    <3>1. /\ more \in Seq(Lines) /\ Len(more) = n - done
          /\ \A i \in 1..(n - done) : more[i] = batch[done + i]
      <4>1. /\ SubSeq(batch, done + 1, n) \in Seq(Lines)
            /\ Len(SubSeq(batch, done + 1, n)) = IF done + 1 <= n THEN n - (done + 1) + 1 ELSE 0
            /\ \A i \in 1..(n - (done + 1) + 1) : SubSeq(batch, done + 1, n)[i] = batch[done + 1 + i - 1]
        BY <1>3, SubSeqProperties
      <4>2. n - (done + 1) + 1 = n - done /\ \A i \in 1..(n - done) : done + 1 + i - 1 = done + i
        BY <1>3
      <4> QED
        BY <1>3, <4>1, <4>2
    <3> HIDE DEF more
    <3>2. /\ file' \in Seq(Lines) /\ Len(file') = Len(file) + Len(more)
          /\ \A i \in 1..(Len(file) + Len(more)) :
               file'[i] = IF i <= Len(file) THEN file[i] ELSE more[i - Len(file)]
      BY <1>3, <2>1, <3>1, ConcatProperties DEF more
    <3>3. Len(file) = written + done
      BY <2>1 DEF Numbered
    <3>4. ASSUME NEW i \in 1..Len(file')
          PROVE  file'[i] = i
      <4>1. CASE i <= Len(file)
        <5>1. i \in 1..Len(file) /\ i \in 1..(Len(file) + Len(more))
          BY <1>3, <3>2, <4>1
        <5>2. file'[i] = file[i]
          BY <3>2, <4>1, <5>1
        <5>3. file[i] = i
          BY <5>1 DEF Numbered
        <5> QED
          BY <5>2, <5>3
      <4>2. CASE ~(i <= Len(file))
        <5>1. i - Len(file) \in 1..(n - done) /\ done + (i - Len(file)) \in 1..Len(batch)
          BY <1>3, <3>1, <3>2, <4>2
        <5>2. file'[i] = batch[done + (i - Len(file))]
          BY <3>1, <3>2, <4>2, <5>1
        <5>3. batch[done + (i - Len(file))] = written + (done + (i - Len(file)))
          BY <5>1 DEF Numbered
        <5> QED
          <6> DEFINE k == Len(file)
          <6>1. k \in Nat /\ i \in Nat /\ k = written + done
            BY <1>3, <3>1, <3>2, <3>3
          <6> HIDE DEF k
          <6>2. written + (done + (i - k)) = i
            BY <1>3, <6>1
          <6> QED
            BY <5>2, <5>3, <6>2 DEF k
      <4> QED
        BY <4>1, <4>2
    <3>5. Len(file') = written + n /\ Len(file) <= Len(file')
      <4>1. \A w, d, m \in Nat : d < m => (w + d) + (m - d) = w + m /\ w + d <= w + m
        OBVIOUS
      <4>2. Len(file') = (written + done) + (n - done) /\ Len(file) = written + done
        BY <3>1, <3>2, <3>3
      <4>3. written \in Nat /\ done \in Nat /\ n \in Nat /\ done < n
        BY <1>3
      <4> HIDE DEF IInv
      <4> QED
        BY <4>1, <4>2, <4>3
    <3> QED
      BY <1>3, <2>1, <3>2, <3>4, <3>5
  <2>2. CASE failed' = TRUE /\ file' = file
    <3>1. Len(file) <= written + done /\ (\A i \in 1..Len(file) : file[i] = i)
      BY DEF Numbered
    <3>2. Len(file) <= written + n
      <4> HIDE DEF IInv
      <4> QED
        BY <1>3, <3>1
    <3>3. ~failed' => Len(file') = written + n
      BY <2>2
    <3> QED
      BY <1>3, <2>2, <3>1, <3>2, <3>3
  <2> QED
    BY <1>2, <2>1, <2>2
<1>5. TypeOK'
  <2>1. WaiterTypeOK'
    BY <1>1 DEF TypeOK, WaiterTypeOK, waiterVars
  <2>2. done' \in 0..Len(batch')
    BY <1>1, <1>2, <1>3
  <2> QED
    BY <1>1, <1>4, <2>1, <2>2 DEF TypeOK, queueVars, progressVars, flushVars
<1>6. Numbered'
  BY <1>1, <1>2, <1>4 DEF Numbered, queueVars, progressVars
<1>7. Stopping'
  BY <1>1 DEF Stopping, queueVars
<1>8. FlushHonest'
  <2>1. \A f \in Flushers : target[f] \in Nat
    BY BoundsAssumption DEF TypeOK
  <2> QED
    BY <1>1, <1>3, <1>4, <2>1 DEF FlushHonest, flushVars
<1> QED
  BY <1>5, <1>6, <1>7, <1>8

-----------------------------------------------------------------------------
(* The other steps.                                                        *)

\* A step of the waiter alone.
LEMMA WaiterKeeps ==
  ASSUME IInv, Unwaited, WaitStep \/ \E t \in Threads : NotifyStep(t)
  PROVE  IInv'
<1> USE DEF IInv
<1>1. UNCHANGED <<queueVars, progressVars, stop, failed, file, writerVars, flushVars, closer, pushes>>
  BY DEF Unwaited
<1>2. WaiterTypeOK'
  <2>1. WaiterTypeOK
    BY DEF TypeOK
  <2>2. CASE WaitStep
    BY <2>1, <2>2 DEF WaitStep, Exchange, LockAndLoad, Sleep, WaiterTypeOK
  <2>3. ASSUME NEW t \in Threads, NotifyStep(t)
        PROVE  WaiterTypeOK'
    BY <2>1, <2>3 DEF NotifyStep, Store, LockUnlock, NotifyOne, WaiterTypeOK
  <2> QED
    BY <2>2, <2>3
<1>3. TypeOK'
  BY <1>1, <1>2 DEF TypeOK, queueVars, progressVars, writerVars, flushVars
<1>4. Numbered'
  BY <1>1 DEF Numbered, queueVars, progressVars, writerVars
<1>5. Stopping'
  BY <1>1 DEF Stopping, queueVars, writerVars
<1>6. FlushHonest'
  BY <1>1 DEF FlushHonest, flushVars
<1> QED
  BY <1>3, <1>4, <1>5, <1>6

\* The writer outside of its lines: it looks at the stop, tells its progress, ends.
LEMMA WriterKeeps ==
  ASSUME IInv, ReadStop \/ Progress \/ LastWords
  PROVE  IInv'
<1> USE DEF IInv
<1>0. /\ MaxPushes \in Nat /\ accepted \in Nat /\ written \in Nat /\ through \in Nat /\ Len(batch) \in Nat
      /\ done \in Nat /\ Len(file) \in Nat /\ Len(queue) \in Nat /\ through \in 0..MaxPushes
  <2>1. TypeOK
    OBVIOUS
  <2> HIDE DEF IInv
  <2>2. through \in 0..MaxPushes
    BY <2>1 DEF TypeOK
  <2> QED
    BY <2>1, <2>2, Numbers
<1>1. CASE ReadStop
  <2>1. /\ writer \in {"top", "wait"} /\ writer' = "take" /\ stopping' = stop
        /\ UNCHANGED <<waiterVars, queueVars, progressVars, stop, failed, file, batch, through, done, flushVars, closer, pushes>>
    BY <1>1 DEF ReadStop
  <2>2. TypeOK'
    BY <2>1 DEF TypeOK, WaiterTypeOK, waiterVars, queueVars, progressVars, flushVars
  <2>3. Numbered'
    BY <2>1 DEF Numbered, queueVars, progressVars
  <2>4. Stopping' /\ FlushHonest'
    BY <2>1 DEF Stopping, FlushHonest, queueVars, flushVars
  <2> QED
    BY <2>2, <2>3, <2>4
<1>2. CASE Progress
  <2>1. /\ writer = "write" /\ done = Len(batch) /\ written' = written + Len(batch) /\ flushedThrough' = through
        /\ flusher' = [f \in Flushers |-> IF flusher[f] = "asleep" THEN "check" ELSE flusher[f]]
        /\ batch' = <<>> /\ done' = 0
        /\ writer' = IF stopping THEN "last" ELSE "wait"
        /\ UNCHANGED <<notified, signal, queueVars, writerDone, stop, failed, file, stopping, through,
                       target, answer, flushes, closer, pushes>>
    BY <1>2 DEF Progress, WakeFlushers
  <2>2. through = written + Len(batch)
    BY DEF Numbered
  <2>3. Len(batch') = 0 /\ batch' \in Seq(Lines)
    BY <2>1, EmptySeq
  <2>4. WaiterTypeOK'
    BY <1>2, <2>1 DEF Progress, Enter, TypeOK, WaiterTypeOK
  <2>5. TypeOK'
    <3>1. flusher' \in [Flushers -> {"out", "notify", "check", "asleep"}]
      BY <2>1 DEF TypeOK
    <3>2. written' \in 0..MaxPushes /\ flushedThrough' \in 0..MaxPushes /\ done' \in 0..Len(batch')
      BY <1>0, <2>1, <2>2, <2>3
    <3> QED
      BY <2>1, <2>3, <2>4, <3>1, <3>2 DEF TypeOK, queueVars
  <2>6. Numbered'
    <3>1. done' = 0 /\ written' + done' = written + done
      BY <1>0, <2>1
    <3> QED
      BY <1>0, <2>1, <2>2, <2>3, <3>1 DEF Numbered, queueVars
  <2>7. Stopping'
    BY <2>1 DEF Stopping, queueVars
  <2>8. FlushHonest'
    BY <2>1 DEF FlushHonest
  <2> QED
    BY <2>5, <2>6, <2>7, <2>8
<1>3. CASE LastWords
  <2>1. /\ writer = "last" /\ writerDone' = TRUE /\ writer' = "joined"
        /\ flusher' = [f \in Flushers |-> IF flusher[f] = "asleep" THEN "check" ELSE flusher[f]]
        /\ UNCHANGED <<waiterVars, queueVars, written, flushedThrough, stop, failed, file, stopping, batch, through,
                       done, target, answer, flushes, closer, pushes>>
    BY <1>3 DEF LastWords, WakeFlushers
  <2>2. TypeOK'
    BY <2>1 DEF TypeOK, WaiterTypeOK, waiterVars, queueVars
  <2>3. Numbered'
    BY <2>1 DEF Numbered, queueVars
  <2>4. Stopping' /\ FlushHonest'
    BY <2>1 DEF Stopping, FlushHonest, queueVars
  <2> QED
    BY <2>2, <2>3, <2>4
<1> QED
  BY <1>1, <1>2, <1>3

\* A flush: it is only told that its lines are in the file when they are.
LEMMA FlusherKeeps ==
  ASSUME IInv, NEW f \in Flushers, FlushRefused(f) \/ FlushNow(f) \/ FlushChecks(f) \/ FlushTimeout(f)
  PROVE  IInv'
<1> USE DEF IInv
<1>0. /\ written \in Nat /\ done \in Nat /\ Len(file) \in Nat /\ target[f] \in Nat /\ MaxFlushes \in Nat
      /\ flushedThrough = written /\ (~failed => Len(file) = written + done) /\ failed \in BOOLEAN
  <2>1. TypeOK /\ flushedThrough = written /\ (~failed => Len(file) = written + done) /\ failed \in BOOLEAN
    BY DEF Numbered, TypeOK
  <2> HIDE DEF IInv
  <2> QED
    BY <2>1, Numbers, BoundsAssumption
<1>1. UNCHANGED <<notified, owner, queueVars, progressVars, stop, failed, file, writerVars, closer, pushes>>
  BY DEF FlushRefused, FlushNow, FlushChecks, FlushTimeout, waiterVars
<1>2. Numbered'
  BY <1>1 DEF Numbered, queueVars, progressVars, writerVars
<1>3. Stopping'
  BY <1>1 DEF Stopping, queueVars, writerVars
<1>4. TypeOK'
  <2>1. WaiterTypeOK'
    BY <1>1 DEF TypeOK, WaiterTypeOK, FlushRefused, FlushNow, FlushChecks, FlushTimeout, waiterVars, Notifying
  <2>2. /\ flusher' \in [Flushers -> {"out", "notify", "check", "asleep"}]
        /\ target' \in [Flushers -> 0..MaxPushes] /\ answer' \in [Flushers -> BOOLEAN]
        /\ flushes' \in 0..MaxFlushes
    <3>1. accepted \in 0..MaxPushes /\ (flushedThrough >= target[f] /\ ~failed) \in BOOLEAN
      BY DEF TypeOK
    <3>2. CASE FlushRefused(f)
      <4>1. /\ flusher' = [flusher EXCEPT ![f] = "out"] /\ answer' = [answer EXCEPT ![f] = FALSE]
            /\ UNCHANGED target /\ flushes < MaxFlushes /\ flushes' = flushes + 1
        BY <3>2 DEF FlushRefused, Answer
      <4>2. /\ flushes \in 0..MaxFlushes /\ flusher \in [Flushers -> {"out", "notify", "check", "asleep"}]
            /\ target \in [Flushers -> 0..MaxPushes] /\ answer \in [Flushers -> BOOLEAN]
        BY DEF TypeOK
      <4> HIDE DEF IInv
      <4>3. flushes' \in 0..MaxFlushes
        BY <1>0, <4>1, <4>2
      <4> QED
        BY <4>1, <4>2, <4>3
    <3>3. CASE FlushNow(f)
      BY <1>0, <3>1, <3>3 DEF FlushNow, TypeOK
    <3>4. CASE FlushChecks(f)
      BY <3>1, <3>4 DEF FlushChecks, Answer, TypeOK
    <3>5. CASE FlushTimeout(f)
      BY <3>1, <3>5 DEF FlushTimeout, Answer, TypeOK
    <3> QED
      BY <3>2, <3>3, <3>4, <3>5
  <2> QED
    BY <1>1, <2>1, <2>2 DEF TypeOK, queueVars, progressVars, writerVars
<1>5. FlushHonest'
  <2>1. /\ file' = file
        /\ \A g \in Flushers \ {f} : flusher'[g] = flusher[g] /\ target'[g] = target[g] /\ answer'[g] = answer[g]
    BY <1>1 DEF FlushRefused, FlushNow, FlushChecks, FlushTimeout, Answer, TypeOK
  <2>2. answer'[f] /\ flusher'[f] = "out" => target'[f] <= Len(file)
    <3>1. CASE FlushRefused(f)
      BY <3>1 DEF FlushRefused, Answer, TypeOK
    <3>2. CASE FlushNow(f)
      BY <3>2 DEF FlushNow, TypeOK
    <3>3. ASSUME Answer(f, flushedThrough >= target[f] /\ ~failed), target' = target
          PROVE  answer'[f] => target'[f] <= Len(file)
      <4>1. answer'[f] = (flushedThrough >= target[f] /\ ~failed)
        BY <3>3 DEF Answer, TypeOK
      <4>2. answer'[f] => flushedThrough >= target[f] /\ ~failed
        BY <4>1, Zenon
      <4>3. target'[f] = target[f]
        BY <3>3
      <4> HIDE DEF IInv
      <4> QED
        BY <1>0, <4>2, <4>3
    <3>4. CASE FlushChecks(f)
      BY <3>3, <3>4 DEF FlushChecks, TypeOK
    <3>5. CASE FlushTimeout(f)
      BY <3>3, <3>5 DEF FlushTimeout
    <3> QED
      BY <3>1, <3>2, <3>4, <3>5
  <2> QED
    BY <2>1, <2>2 DEF FlushHonest
<1> QED
  BY <1>2, <1>3, <1>4, <1>5

\* A push that is dropped, and Close.
LEMMA OutsideKeeps ==
  ASSUME IInv, (\E p \in Producers : PushDropped(p)) \/ MarkClosed \/ RequestStop \/ Join
  PROVE  IInv'
<1> USE DEF IInv
<1>1. CASE \E p \in Producers : PushDropped(p)
  <2>1. /\ pushes < MaxPushes /\ pushes' = pushes + 1
        /\ \/ droppedClosed' = droppedClosed + 1 /\ droppedFull' = droppedFull
           \/ droppedFull' = droppedFull + 1 /\ droppedClosed' = droppedClosed
        /\ UNCHANGED <<waiterVars, queue, accepted, closed, progressVars, stop, failed, file, writerVars, flushVars, closer>>
    BY <1>1 DEF PushDropped
  <2>2. /\ MaxPushes \in Nat /\ accepted \in Nat /\ pushes \in Nat /\ droppedFull \in Nat /\ droppedClosed \in Nat
        /\ pushes = accepted + droppedFull + droppedClosed
    <3>1. TypeOK /\ pushes = accepted + droppedFull + droppedClosed
      BY DEF Numbered
    <3> HIDE DEF IInv
    <3> QED
      BY <3>1, Numbers
  <2>3. /\ pushes' \in 0..MaxPushes /\ droppedFull' \in 0..MaxPushes /\ droppedClosed' \in 0..MaxPushes
        /\ pushes' = accepted + droppedFull' + droppedClosed'
    BY <2>1, <2>2
  <2>4. TypeOK'
    <3>1. WaiterTypeOK'
      BY <2>1 DEF TypeOK, WaiterTypeOK, waiterVars
    <3>2. {accepted, droppedFull, droppedClosed, written, flushedThrough, through, pushes}' \subseteq 0..MaxPushes
      BY <2>1, <2>3 DEF TypeOK, progressVars, writerVars
    <3>3. UNCHANGED <<queue, closed, writerDone, stop, failed, stopping, file, batch, done, writer, flushVars, closer>>
      BY <2>1 DEF progressVars, writerVars
    <3> QED
      BY <3>1, <3>2, <3>3 DEF TypeOK, flushVars
  <2>5. Numbered'
    BY <2>1, <2>3 DEF Numbered, progressVars, writerVars
  <2>6. Stopping' /\ FlushHonest'
    BY <2>1 DEF Stopping, FlushHonest, writerVars, flushVars
  <2> QED
    BY <2>4, <2>5, <2>6
<1>2. CASE MarkClosed
  <2>1. /\ closer = "open" /\ closed' = TRUE /\ closer' = "stop"
        /\ UNCHANGED <<waiterVars, queue, accepted, droppedFull, droppedClosed, progressVars, stop, failed, file,
                       writerVars, flushVars, pushes>>
    BY <1>2 DEF MarkClosed
  <2>2. TypeOK'
    BY <2>1 DEF TypeOK, WaiterTypeOK, waiterVars, progressVars, writerVars, flushVars
  <2>3. Numbered'
    BY <2>1 DEF Numbered, progressVars, writerVars
  <2>4. Stopping' /\ FlushHonest'
    BY <2>1 DEF Stopping, FlushHonest, writerVars, flushVars
  <2> QED
    BY <2>2, <2>3, <2>4
<1>3. CASE RequestStop
  <2>1. /\ closer = "stop" /\ stop' = TRUE /\ closer' = "join" /\ signal' = Notifying({"closer"})
        /\ UNCHANGED <<notified, owner, queueVars, progressVars, failed, file, writerVars, flushVars, pushes>>
    BY <1>3 DEF RequestStop
  <2>2. WaiterTypeOK'
    BY <2>1 DEF TypeOK, WaiterTypeOK, Notifying
  <2>3. TypeOK'
    BY <2>1, <2>2 DEF TypeOK, queueVars, progressVars, writerVars, flushVars
  <2>4. Numbered'
    BY <2>1 DEF Numbered, queueVars, progressVars, writerVars
  <2>5. Stopping' /\ FlushHonest'
    BY <2>1 DEF Stopping, FlushHonest, queueVars, writerVars, flushVars
  <2> QED
    BY <2>3, <2>4, <2>5
<1>4. CASE Join
  <2>1. /\ closer = "join" /\ writer = "joined" /\ closer' = "closed" /\ failed' \in {failed, TRUE}
        /\ UNCHANGED <<waiterVars, queueVars, progressVars, stop, file, writerVars, flushVars, pushes>>
    BY <1>4 DEF Join
  <2>2. TypeOK'
    BY <2>1 DEF TypeOK, WaiterTypeOK, waiterVars, queueVars, progressVars, writerVars, flushVars
  <2>3. Numbered'
    BY <2>1 DEF Numbered, queueVars, progressVars, writerVars
  <2>4. Stopping' /\ FlushHonest'
    BY <2>1 DEF Stopping, FlushHonest, queueVars, writerVars, flushVars
  <2> QED
    BY <2>2, <2>3, <2>4
<1> QED
  BY <1>1, <1>2, <1>3, <1>4

-----------------------------------------------------------------------------
(* The invariant, and what follows.                                        *)

\* An open sink without lines.
LEMMA InitIInv == Init => IInv
<1> SUFFICES ASSUME Init PROVE IInv
  OBVIOUS
<1>1. MaxPushes \in Nat /\ MaxFlushes \in Nat /\ Capacity \in Nat /\ 0 \in 0..MaxPushes /\ 0 \in 0..MaxFlushes
  BY BoundsAssumption
<1>2. queue \in Seq(Lines) /\ Len(queue) = 0 /\ file \in Seq(Lines) /\ Len(file) = 0 /\ batch \in Seq(Lines) /\ Len(batch) = 0
  BY EmptySeq DEF Init
<1>3. TypeOK
  <2>1. WaiterTypeOK
    BY DEF Init, WaiterInit, WaiterTypeOK
  <2>2. done \in 0..Len(batch) /\ Len(queue) <= Capacity
    BY <1>1, <1>2 DEF Init
  <2>3. {accepted, droppedFull, droppedClosed, written, flushedThrough, through, pushes} \subseteq 0..MaxPushes
    BY <1>1 DEF Init
  <2>4. /\ flusher \in [Flushers -> {"out", "notify", "check", "asleep"}]
        /\ target \in [Flushers -> 0..MaxPushes] /\ answer \in [Flushers -> BOOLEAN]
    BY <1>1 DEF Init
  <2>5. /\ {closed, writerDone, stop, failed, stopping} \subseteq BOOLEAN /\ flushes \in 0..MaxFlushes
        /\ writer = "top" /\ closer = "open"
    BY <1>1 DEF Init
  <2> QED
    BY <1>2, <2>1, <2>2, <2>3, <2>4, <2>5 DEF TypeOK
<1>4. Numbered
  BY <1>1, <1>2 DEF Init, Numbered
<1>5. Stopping /\ FlushHonest
  BY DEF Init, Stopping, FlushHonest
<1> QED
  BY <1>3, <1>4, <1>5 DEF IInv

\* Every step keeps it.
LEMMA StepIInv == IInv /\ [Next]_vars => IInv'
<1> SUFFICES ASSUME IInv, [Next]_vars PROVE IInv'
  OBVIOUS
<1>1. ASSUME NEW p \in Producers, PushDropped(p) \/ PushAccepted(p)
      PROVE  IInv'
  BY <1>1, OutsideKeeps, PushAcceptedKeeps
<1>2. CASE WriterStep
  BY <1>2, WriterKeeps, TakeQueueKeeps, WriteLinesKeeps, WaiterKeeps DEF WriterStep
<1>3. ASSUME NEW t \in Threads, NotifierStep(t)
      PROVE  IInv'
  BY <1>3, WaiterKeeps DEF NotifierStep
<1>4. ASSUME NEW f \in Flushers, FlushRefused(f) \/ FlushNow(f) \/ FlushChecks(f) \/ FlushTimeout(f)
      PROVE  IInv'
  BY <1>4, FlusherKeeps
<1>5. CASE MarkClosed \/ RequestStop \/ Join
  BY <1>5, OutsideKeeps
<1>6. CASE UNCHANGED vars
  <2> SUFFICES ASSUME TypeOK, Numbered, Stopping, FlushHonest
               PROVE  TypeOK' /\ Numbered' /\ Stopping' /\ FlushHonest'
    BY DEF IInv
  <2>1. UNCHANGED <<waiterVars, queueVars, progressVars, writerVars, flushVars, stop, failed, file, closer, pushes>>
    BY <1>6 DEF vars
  <2>2. TypeOK'
    <3>1. WaiterTypeOK'
      BY <2>1 DEF TypeOK, WaiterTypeOK, waiterVars
    <3> QED
      BY <2>1, <3>1 DEF TypeOK, queueVars, progressVars, writerVars, flushVars
  <2>3. Numbered'
    BY <2>1 DEF Numbered, queueVars, progressVars, writerVars
  <2>4. Stopping'
    BY <2>1 DEF Stopping, queueVars, writerVars
  <2>5. FlushHonest'
    BY <2>1 DEF FlushHonest, queueVars, progressVars, writerVars, flushVars
  <2> QED
    BY <2>2, <2>3, <2>4, <2>5
<1> QED
  BY <1>1, <1>2, <1>3, <1>4, <1>5, <1>6 DEF Next

\* So it always holds.
LEMMA AlwaysIInv == Spec => []IInv
<1> QED
  BY InitIInv, StepIInv, PTL DEF Spec

\* The sink's variables keep their types, and the queue its capacity (TraceSink.cpp:169).
THEOREM SinkTypeCorrect == Spec => []TypeOK
<1>1. IInv => TypeOK
  BY DEF IInv
<1> QED
  BY <1>1, AlwaysIInv, PTL

\* A FlushNow that answers true has its lines in the file (TraceSink.hpp:89).
THEOREM FlushesHonest == Spec => []FlushHonest
<1>1. IInv => FlushHonest
  BY DEF IInv
<1> QED
  BY <1>1, AlwaysIInv, PTL

\* The file is a prefix of what was accepted, and all of it after a Close without a failure;
\* no Push goes uncounted (TraceSink.hpp:50).
THEOREM ClosesComplete == Spec => []ClosedComplete
<1>1. IInv => ClosedComplete
  <2> SUFFICES ASSUME IInv PROVE ClosedComplete
    OBVIOUS
  <2>1. TypeOK /\ Numbered /\ Stopping
    BY DEF IInv
  <2>2. /\ accepted \in Nat /\ written \in Nat /\ through \in Nat /\ done \in Nat
        /\ file \in Seq(Lines) /\ Len(file) \in Nat
    BY <2>1, Numbers
  <2>3. \A i \in DOMAIN file : file[i] = i
    <3>1. DOMAIN file = 1..Len(file)
      BY <2>2, LenProperties
    <3> QED
      BY <2>1, <3>1 DEF Numbered
  <2>4. ASSUME closer = "closed"
        PROVE  pushes = written + droppedFull + droppedClosed /\ (failed \/ Len(file) = accepted)
    <3>1. queue = <<>> /\ batch = <<>> /\ done = 0
      BY <2>1, <2>4 DEF Stopping, Numbered
    <3>2. Len(queue) = 0 /\ Len(batch) = 0
      BY <3>1
    <3>3. accepted = written
      BY <2>1, <2>2, <3>2 DEF Numbered
    <3> QED
      BY <2>1, <2>2, <3>1, <3>3 DEF Numbered
  <2> QED
    BY <2>3, <2>4 DEF ClosedComplete
<1> QED
  BY <1>1, AlwaysIInv, PTL

-----------------------------------------------------------------------------
(* The wake: without a timer the writer never sleeps beside work.          *)

\* What the writer was told and has not yet seen: the latch, or a thread about to set it.
Told == notified \/ \E t \in Threads : signal[t] = "store"

\* Work the writer has not taken is told to it, from the moment it looks elsewhere; a latch
\* set behind its check has a thread that waits for the mutex, or is about to notify.
Woken ==
  /\ owner # "out" => writer = "wait" /\ ~stopping
  /\ writer = "wait" => ~stopping
  /\ (owner # "out" \/ writer = "write") /\ queue # <<>> => Told
  /\ (owner # "out" \/ writer \in {"take", "write"}) /\ stop /\ ~stopping => Told
  /\ owner = "armed" /\ notified => \E t \in Threads : signal[t] = "lock"
  /\ owner = "asleep" /\ notified => \E t \in Threads : signal[t] \in {"lock", "notify"}
  /\ \A f \in Flushers : signal[f] # "none" => flusher[f] = "notify"
  /\ signal["closer"] # "none" => closer \notin {"open", "stop"}

\* A thread that begins to notify disturbs no other.
LEMMA NotifyingTells ==
  ASSUME WaiterTypeOK, NEW t \in Threads, signal[t] = "none", signal' = Notifying({t})
  PROVE  /\ signal'[t] = "store" /\ \A u \in Threads : signal[u] # "none" => signal'[u] = signal[u]
         /\ \A u \in Threads \ {t} : signal'[u] = signal[u]
  BY DEF Notifying, WaiterTypeOK

\* The waiter's own steps.
LEMMA WaiterWakes ==
  ASSUME TypeOK, Woken, Unwaited, WaitStep \/ \E t \in Threads : NotifyStep(t)
  PROVE  Woken'
<1>1. /\ queue' = queue /\ stop' = stop /\ writer' = writer /\ stopping' = stopping /\ flusher' = flusher /\ closer' = closer
      /\ "closer" \in Threads /\ Flushers \subseteq Threads /\ notified \in BOOLEAN
      /\ signal \in [Threads -> {"none", "store", "lock", "notify"}]
  BY ThreadsAssumption DEF Unwaited, queueVars, writerVars, flushVars, TypeOK, WaiterTypeOK
<1>2. CASE Exchange
  BY <1>1, <1>2 DEF Exchange, Woken, Told
<1>3. CASE LockAndLoad
  BY <1>1, <1>3 DEF LockAndLoad, Woken, Told
<1>4. CASE Sleep
  BY <1>1, <1>4 DEF Sleep, Woken, Told
<1>5. ASSUME NEW t \in Threads, Store(t)
      PROVE  Woken'
  <2>1. /\ notified' = TRUE /\ owner' = owner /\ signal'[t] = "lock" /\ signal[t] = "store"
        /\ \A u \in Threads \ {t} : signal'[u] = signal[u]
    BY <1>1, <1>5 DEF Store
  <2>2. Told'
    BY <2>1 DEF Told
  <2> QED
    BY <1>1, <2>1, <2>2 DEF Woken
<1>6. ASSUME NEW t \in Threads, LockUnlock(t)
      PROVE  Woken'
  <2>1. /\ notified' = notified /\ owner' = owner /\ owner # "armed" /\ signal'[t] = "notify" /\ signal[t] = "lock"
        /\ \A u \in Threads \ {t} : signal'[u] = signal[u]
    BY <1>1, <1>6 DEF LockUnlock, MutexHeld
  <2>2. Told => Told'
    BY <2>1 DEF Told
  <2>3. owner' = "asleep" /\ notified' => \E u \in Threads : signal'[u] \in {"lock", "notify"}
    BY <2>1
  <2> QED
    BY <1>1, <2>1, <2>2, <2>3 DEF Woken
<1>7. ASSUME NEW t \in Threads, NotifyOne(t)
      PROVE  Woken'
  <2>1. /\ notified' = notified /\ signal'[t] = "none" /\ signal[t] = "notify"
        /\ owner' = (IF owner = "asleep" THEN "exchange" ELSE owner)
        /\ \A u \in Threads \ {t} : signal'[u] = signal[u]
    BY <1>1, <1>7 DEF NotifyOne
  <2>2. Told => Told'
    BY <2>1 DEF Told
  <2>3. owner' = "armed" /\ notified' => \E u \in Threads : signal'[u] = "lock"
    BY <2>1 DEF Woken
  <2>4. owner' # "asleep" /\ (owner' # "out" => owner # "out")
    BY <2>1
  <2> QED
    BY <1>1, <2>1, <2>2, <2>3, <2>4 DEF Woken
<1> QED
  BY <1>2, <1>3, <1>4, <1>5, <1>6, <1>7 DEF WaitStep, NotifyStep

\* The sink's steps.
LEMMA StepWoken == IInv /\ Woken /\ [Next]_vars => Woken'
<1> SUFFICES ASSUME IInv, Woken, [Next]_vars PROVE Woken'
  OBVIOUS
<1>0. TypeOK /\ WaiterTypeOK /\ Stopping /\ Numbered
  BY DEF IInv, TypeOK
<1>1. /\ "closer" \in Threads /\ Flushers \subseteq Threads /\ Producers \subseteq Threads
      /\ "closer" \notin Flushers /\ "closer" \notin Producers /\ Producers \cap Flushers = {}
  BY ThreadsAssumption
<1>2. ASSUME NEW p \in Producers, PushAccepted(p)
      PROVE  Woken'
  <2>1. /\ signal[p] = "none" /\ queue' = Append(queue, accepted')
        /\ signal' = Notifying(IF queue = <<>> THEN {p} ELSE {})
        /\ UNCHANGED <<notified, owner, stop, writer, stopping, flusher, closer>>
    BY <1>2 DEF PushAccepted, writerVars, flushVars
  <2>2. CASE queue = <<>>
    <3>1. /\ signal'[p] = "store" /\ p \in Threads
          /\ \A u \in Threads \ {p} : signal'[u] = signal[u]
      BY <1>0, <1>1, <2>1, <2>2, NotifyingTells
    <3>2. Told'
      BY <3>1 DEF Told
    <3>3. /\ owner = "armed" /\ notified => \E t \in Threads : signal'[t] = "lock"
          /\ owner = "asleep" /\ notified => \E t \in Threads : signal'[t] \in {"lock", "notify"}
      BY <2>1, <3>1 DEF Woken
    <3>4. (\A f \in Flushers : signal'[f] = signal[f]) /\ signal'["closer"] = signal["closer"]
      BY <1>1, <3>1
    <3> QED
      BY <2>1, <3>2, <3>3, <3>4 DEF Woken
  <2>3. CASE queue # <<>>
    <3>1. signal' = signal
      BY <1>0, <2>1, <2>3 DEF Notifying, WaiterTypeOK
    <3> QED
      BY <2>1, <2>3, <3>1 DEF Woken, Told
  <2> QED
    BY <2>2, <2>3
<1>3. CASE \E p \in Producers : PushDropped(p)
  BY <1>3 DEF PushDropped, Woken, Told, waiterVars, writerVars, flushVars
<1>4. CASE ReadStop
  <2>1. owner = "out"
    BY <1>4 DEF ReadStop, Woken
  <2> QED
    BY <1>4, <2>1 DEF ReadStop, Woken, Told, waiterVars, queueVars, flushVars
<1>5. CASE TakeQueue
  <2>1. owner = "out"
    BY <1>5 DEF TakeQueue, Woken
  <2> QED
    BY <1>5, <2>1 DEF TakeQueue, Woken, Told, waiterVars, flushVars
<1>6. CASE WriteLines
  BY <1>6 DEF WriteLines, Woken, Told, waiterVars, queueVars, flushVars
<1>7. CASE Progress
  <2>1. /\ writer = "write" /\ UNCHANGED <<notified, signal, queue, stop, stopping, closer>>
        /\ flusher' = [f \in Flushers |-> IF flusher[f] = "asleep" THEN "check" ELSE flusher[f]]
        /\ IF stopping THEN writer' = "last" /\ owner' = owner ELSE writer' = "wait" /\ owner' = "exchange"
        /\ owner = "out"
    BY <1>7 DEF Progress, Enter, WakeFlushers, queueVars, Woken
  <2> QED
    BY <2>1 DEF Woken, Told
<1>8. CASE LastWords
  <2>1. /\ writer = "last" /\ writer' = "joined" /\ UNCHANGED <<notified, signal, owner, queue, stop, stopping, closer>>
        /\ flusher' = [f \in Flushers |-> IF flusher[f] = "asleep" THEN "check" ELSE flusher[f]]
        /\ owner = "out"
    BY <1>8 DEF LastWords, WakeFlushers, waiterVars, queueVars, Woken
  <2> QED
    BY <2>1 DEF Woken, Told
<1>9. CASE (WaitStep \/ \E t \in Threads : NotifyStep(t)) /\ Unwaited
  BY <1>0, <1>9, WaiterWakes
<1>10. ASSUME NEW f \in Flushers, FlushRefused(f) \/ FlushChecks(f) \/ FlushTimeout(f)
      PROVE  Woken'
  <2>1. UNCHANGED <<notified, owner, signal, queue, stop, writer, stopping, closer>>
    BY <1>10 DEF FlushRefused, FlushChecks, FlushTimeout, waiterVars, queueVars, writerVars
  <2>2. signal[f] = "none" /\ \A g \in Flushers \ {f} : flusher'[g] = flusher[g]
    BY <1>0, <1>10 DEF FlushRefused, FlushChecks, FlushTimeout, Answer, Woken, TypeOK
  <2> QED
    BY <2>1, <2>2 DEF Woken, Told
<1>11. ASSUME NEW f \in Flushers, FlushNow(f)
      PROVE  Woken'
  <2>1. /\ flusher[f] = "out" /\ flusher' = [flusher EXCEPT ![f] = "notify"] /\ signal' = Notifying({f})
        /\ UNCHANGED <<notified, owner, queue, stop, writer, stopping, closer>>
    BY <1>11 DEF FlushNow, queueVars, writerVars
  <2>2. signal[f] = "none"
    BY <2>1 DEF Woken
  <2>3. signal'[f] = "store" /\ f \in Threads /\ \A u \in Threads \ {f} : signal'[u] = signal[u]
    BY <1>0, <1>1, <2>1, <2>2, NotifyingTells
  <2>4. Told'
    BY <2>3 DEF Told
  <2>5. /\ owner = "armed" /\ notified => \E t \in Threads : signal'[t] = "lock"
        /\ owner = "asleep" /\ notified => \E t \in Threads : signal'[t] \in {"lock", "notify"}
    BY <2>2, <2>3 DEF Woken
  <2>6. \A g \in Flushers : signal'[g] # "none" => flusher'[g] = "notify"
    BY <1>0, <1>1, <2>1, <2>3 DEF Woken, TypeOK
  <2>7. signal'["closer"] = signal["closer"]
    BY <1>1, <2>3
  <2> QED
    BY <2>1, <2>4, <2>5, <2>6, <2>7 DEF Woken
<1>12. CASE MarkClosed
  <2>1. closer = "open" /\ UNCHANGED <<notified, owner, signal, queue, stop, writer, stopping, flusher>>
    BY <1>12 DEF MarkClosed, waiterVars, writerVars, flushVars
  <2> QED
    BY <2>1 DEF Woken, Told
<1>13. CASE RequestStop
  <2>1. /\ closer = "stop" /\ closer' = "join" /\ signal' = Notifying({"closer"})
        /\ UNCHANGED <<notified, owner, queue, writer, stopping, flusher>>
    BY <1>13 DEF RequestStop, queueVars, writerVars, flushVars
  <2>2. signal["closer"] = "none"
    BY <2>1 DEF Woken
  <2>3. signal'["closer"] = "store" /\ \A u \in Threads \ {"closer"} : signal'[u] = signal[u]
    BY <1>0, <1>1, <2>1, <2>2, NotifyingTells
  <2>4. Told'
    BY <1>1, <2>3 DEF Told
  <2>5. /\ owner = "armed" /\ notified => \E t \in Threads : signal'[t] = "lock"
        /\ owner = "asleep" /\ notified => \E t \in Threads : signal'[t] \in {"lock", "notify"}
    BY <1>1, <2>2, <2>3 DEF Woken
  <2>6. \A g \in Flushers : signal'[g] = signal[g]
    BY <1>1, <2>3
  <2> QED
    BY <2>1, <2>4, <2>5, <2>6 DEF Woken
<1>14. CASE Join
  BY <1>14 DEF Join, Woken, Told, waiterVars, queueVars, writerVars, flushVars
<1>15. CASE UNCHANGED vars
  BY <1>15 DEF vars, Woken, Told, waiterVars, queueVars, writerVars, flushVars
<1> QED
  BY <1>2, <1>3, <1>4, <1>5, <1>6, <1>7, <1>8, <1>9, <1>10, <1>11, <1>12, <1>13, <1>14, <1>15
     DEF Next, WriterStep, NotifierStep

\* The writer never sleeps beside lines or a stop that nobody is about to wake it for: no
\* notification is lost between the check of the latch and the sleep (Waiter.cpp:118), nor is
\* one missing because Push only notifies when it finds the queue empty (TraceSink.cpp:175).
NoLostWake == owner = "asleep" /\ (queue # <<>> \/ stop) => \E t \in Threads : signal[t] # "none"

\* See NoLostWake.
THEOREM NeverLosesWake == Spec => []NoLostWake
<1>1. Init => Woken
  BY ThreadsAssumption DEF Init, WaiterInit, Woken
<1>2. Woken => NoLostWake
  BY DEF Woken, NoLostWake, Told
<1> QED
  BY <1>1, <1>2, StepWoken, AlwaysIInv, PTL DEF Spec

=============================================================================
