--------------------------- MODULE RuntimeLinkProofs ---------------------------
(***************************************************************************)
(* What the link promises (RuntimeLink), for every number of streams,      *)
(* servers and messages and any bounds of the queue.  The inductive        *)
(* invariant is TypeOK with three parts: every message is somewhere, what  *)
(* was sent is before the pass and the pass before the queue, and what     *)
(* the threads that end the link know of it.                               *)
(***************************************************************************)
EXTENDS RuntimeLink, TLAPS, FiniteSetTheorems, SequenceTheorems, WellFoundedInduction

\* Every set of naturals has a least element.
LEMMA LeastOfNaturals ==
  ASSUME NEW S, S \subseteq Nat, S # {}
  PROVE  \E x \in S : \A y \in S : x <= y
<1> DEFINE R == {ss \in Nat \X Nat : ss[1] < ss[2]}
<1>1. IsWellFoundedOn(R, Nat)
  BY NatLessThanWellFounded DEF OpToRel
<1>2. \E x \in S : \A y \in S : ~(<<y, x>> \in R)
  <2> HIDE DEF R
  <2> QED
    BY <1>1, WFMin
<1>3. \A x, y \in Nat : ~(<<y, x>> \in R) => x <= y
  OBVIOUS
<1> QED
  BY <1>2, <1>3

Account ==
  \A s \in Streams : counts[s].handed = Total(counts, s) + Held(queue, s) + Held(pass, s)

Ascending(q) == \A i, j \in DOMAIN q : i < j => q[i].n < q[j].n
Before(p, q) == \A i \in DOMAIN p, j \in DOMAIN q : p[i].n < q[j].n
UpTo(q, n) == \A i \in DOMAIN q : q[i].n <= n

Order ==
  /\ Ascending(sent) /\ Ascending(pass) /\ Ascending(queue)
  /\ Before(sent, pass) /\ Before(sent, queue) /\ Before(pass, queue)
  /\ UpTo(sent, handed) /\ UpTo(pass, handed) /\ UpTo(queue, handed)

\* The writer holds messages only inside a pass, and none once it has exited; the queue of a
\* closed link is empty; whoever flushes or waits for the writer has closed the link; the
\* window is written after both, and nothing is counted after it.
Ends ==
  /\ pc["writer"] \notin {"graceful", "finals"}
  /\ exited => pc["writer"] \in {"once", "failed", "close", "flush", "window", "done"}
  /\ pc["writer"] \notin {"pass", "writing", "abandon"} => pass = <<>>
  /\ pc["writer"] = "writing" => pass # <<>>
  /\ closed => queue = <<>>
  /\ \A t \in Threads : pc[t] \in {"flush", "window", "graceful", "finals"} => closed
  /\ window # {} => exited /\ closed
  /\ \A final \in window : final = counts
  /\ pc["closer"] = "finals" => exited

IInv == TypeOK /\ Account /\ Order /\ Ends

-----------------------------------------------------------------------------
(* What a sequence holds of a stream.                                      *)

LEMMA HeldType ==
  ASSUME NEW q \in Seq(Message), NEW s
  PROVE  /\ IsFiniteSet({i \in DOMAIN q : q[i].stream = s})
         /\ Held(q, s) \in Nat
<1>1. DOMAIN q = 1..Len(q) /\ Len(q) \in Nat
  BY LenProperties
<1>2. IsFiniteSet(1..Len(q))
  BY <1>1, FS_Interval
<1>3. IsFiniteSet({i \in DOMAIN q : q[i].stream = s})
  BY <1>1, <1>2, FS_Subset
<1> QED
  BY <1>3, FS_CardinalityType DEF Held

LEMMA HeldEmpty ==
  ASSUME NEW s
  PROVE  Held(<<>>, s) = 0
<1>1. DOMAIN <<>> = {}
  OBVIOUS
<1>2. {i \in DOMAIN <<>> : <<>>[i].stream = s} = {}
  BY <1>1
<1> QED
  BY <1>2, FS_EmptySet DEF Held

LEMMA HeldAppend ==
  ASSUME NEW q \in Seq(Message), NEW e \in Message, NEW s
  PROVE  Held(Append(q, e), s) = Held(q, s) + (IF e.stream = s THEN 1 ELSE 0)
<1> DEFINE r == Append(q, e)
           P == {i \in DOMAIN q : q[i].stream = s}
           R == {i \in DOMAIN r : r[i].stream = s}
<1>1. /\ Len(q) \in Nat /\ DOMAIN q = 1..Len(q)
      /\ r \in Seq(Message) /\ Len(r) = Len(q) + 1
      /\ \A i \in 1..Len(q) : r[i] = q[i]
      /\ r[Len(q) + 1] = e
  BY LenProperties, AppendProperties
<1>2. DOMAIN r = 1..(Len(q) + 1)
  <2> HIDE DEF r
  <2> QED
    BY <1>1, LenProperties
<1>3. IsFiniteSet(P) /\ Cardinality(P) \in Nat
  BY HeldType DEF Held
<1>4. R = IF e.stream = s THEN P \cup {Len(q) + 1} ELSE P
  <2> HIDE DEF r
  <2> QED
    BY <1>1, <1>2
<1>5. Len(q) + 1 \notin P
  BY <1>1
<1>6. Cardinality(P \cup {Len(q) + 1}) = Cardinality(P) + 1
  <2> HIDE DEF P
  <2> QED
    BY <1>3, <1>5, FS_AddElement
<1>7. Held(q, s) = Cardinality(P) /\ Held(r, s) = Cardinality(R)
  BY DEF Held
<1> HIDE DEF r, P, R
<1>8. Held(r, s) = Held(q, s) + (IF e.stream = s THEN 1 ELSE 0)
  BY <1>3, <1>4, <1>6, <1>7
<1> QED
  BY <1>8 DEF r

\* r is q without its element k.
Removed(r, q, k) ==
  /\ k \in 1..Len(q)
  /\ Len(r) = Len(q) - 1
  /\ \A i \in 1..Len(r) : r[i] = IF i < k THEN q[i] ELSE q[i + 1]

LEMMA HeldRemoved ==
  ASSUME NEW q \in Seq(Message), NEW r \in Seq(Message), NEW k, Removed(r, q, k), NEW s
  PROVE  Held(r, s) = Held(q, s) - (IF q[k].stream = s THEN 1 ELSE 0)
<1> DEFINE P == {i \in DOMAIN q : q[i].stream = s}
           R == {i \in DOMAIN r : r[i].stream = s}
           place(i) == IF i < k THEN i ELSE i + 1
           f == [i \in R |-> place(i)]
<1>1. /\ Len(q) \in Nat /\ DOMAIN q = 1..Len(q) /\ DOMAIN r = 1..Len(r) /\ Len(r) = Len(q) - 1
      /\ k \in 1..Len(q) /\ \A i \in 1..Len(r) : r[i] = q[place(i)]
  BY LenProperties DEF Removed
<1>2. /\ IsFiniteSet(P) /\ IsFiniteSet(R) /\ Cardinality(P) \in Nat
      /\ Held(q, s) = Cardinality(P) /\ Held(r, s) = Cardinality(R)
  BY HeldType DEF Held
<1>3. f \in Bijection(R, P \ {k})
  <2>1. ASSUME NEW i \in R
        PROVE  place(i) \in P \ {k}
    BY <1>1
  <2>2. ASSUME NEW i \in R, NEW j \in R, place(i) = place(j)
        PROVE  i = j
    BY <1>1, <2>2
  <2>3. ASSUME NEW j \in P \ {k}
        PROVE  \E i \in R : place(i) = j
    <3>1. CASE j < k
      <4>1. j \in R /\ place(j) = j
        BY <1>1, <3>1
      <4> QED
        BY <4>1
    <3>2. CASE j > k
      <4>1. j - 1 \in R /\ place(j - 1) = j
        BY <1>1, <3>2
      <4> QED
        BY <4>1
    <3> QED
      BY <1>1, <3>1, <3>2
  <2> HIDE DEF P, R, place
  <2>4. f \in [R -> P \ {k}] /\ \A i \in R : f[i] = place(i)
    BY <2>1
  <2> HIDE DEF f
  <2> QED
    BY <2>2, <2>3, <2>4 DEF Bijection, Injection, Surjection, IsInjective
<1>4. Cardinality(R) = Cardinality(P \ {k})
  <2>1. ExistsBijection(R, P \ {k})
    BY <1>3 DEF ExistsBijection
  <2> HIDE DEF P, R
  <2> QED
    BY <1>2, <2>1, FS_Bijection
<1>5. Cardinality(P \ {k}) = IF k \in P THEN Cardinality(P) - 1 ELSE Cardinality(P)
  <2> HIDE DEF P
  <2> QED
    BY <1>2, FS_RemoveElement
<1>6. k \in P <=> q[k].stream = s
  BY <1>1
<1> HIDE DEF P, R
<1> QED
  BY <1>2, <1>4, <1>5, <1>6

LEMMA OrderRemoved ==
  ASSUME NEW q \in Seq(Message), NEW r \in Seq(Message), NEW k, Removed(r, q, k),
         NEW p \in Seq(Message), NEW n
  PROVE  /\ Ascending(q) => Ascending(r)
         /\ Before(p, q) => Before(p, r)
         /\ UpTo(q, n) => UpTo(r, n)
<1> DEFINE place(i) == IF i < k THEN i ELSE i + 1
<1>1. /\ Len(q) \in Nat /\ DOMAIN q = 1..Len(q) /\ DOMAIN r = 1..Len(r) /\ Len(r) = Len(q) - 1
      /\ k \in 1..Len(q) /\ \A i \in 1..Len(r) : r[i] = q[place(i)]
  BY LenProperties DEF Removed
<1>2. \A i \in DOMAIN r : place(i) \in DOMAIN q
  BY <1>1
<1>3. \A i, j \in DOMAIN r : i < j => place(i) < place(j)
  BY <1>1
<1> HIDE DEF place
<1> QED
  BY <1>1, <1>2, <1>3 DEF Ascending, Before, UpTo

LEMMA TailRemoved ==
  ASSUME NEW q \in Seq(Message), q # <<>>
  PROVE  /\ Head(q) = q[1] /\ Head(q) \in Message /\ 1 \in DOMAIN q
         /\ Tail(q) \in Seq(Message) /\ Removed(Tail(q), q, 1)
<1>1. Len(q) \in Nat \ {0} /\ DOMAIN q = 1..Len(q)
  BY LenProperties, EmptySeq
<1>2. /\ Head(q) \in Message /\ Tail(q) \in Seq(Message) /\ Len(Tail(q)) = Len(q) - 1
      /\ \A i \in 1..Len(Tail(q)) : Tail(q)[i] = q[i + 1]
  BY HeadTailProperties
<1>3. Head(q) = q[1]
  OBVIOUS
<1> QED
  BY <1>1, <1>2, <1>3 DEF Removed

LEMMA OldestRemoved ==
  ASSUME queue \in Seq(Message), NEW s, Held(queue, s) # 0
  PROVE  /\ WithoutOldest(s) \in Seq(Message)
         /\ \E k \in 1..Len(queue) : queue[k].stream = s /\ Removed(WithoutOldest(s), queue, k)
<1> DEFINE P == {i \in DOMAIN queue : queue[i].stream = s}
           oldest == CHOOSE i \in DOMAIN queue :
             /\ queue[i].stream = s
             /\ \A j \in 1..(i - 1) : queue[j].stream # s
<1>1. Len(queue) \in Nat /\ DOMAIN queue = 1..Len(queue)
  BY LenProperties
<1>2. P # {} /\ P \subseteq Nat
  BY <1>1, FS_EmptySet DEF Held
<1>3. PICK k \in P : \A i \in P : k <= i
  <2> HIDE DEF P
  <2> QED
    BY <1>2, LeastOfNaturals
<1>4. k \in DOMAIN queue /\ queue[k].stream = s /\ \A j \in 1..(k - 1) : queue[j].stream # s
  BY <1>1, <1>3
<1>5. oldest \in 1..Len(queue) /\ queue[oldest].stream = s
  BY <1>1, <1>4
<1>6. WithoutOldest(s) = SubSeq(queue, 1, oldest - 1) \o SubSeq(queue, oldest + 1, Len(queue))
  BY DEF WithoutOldest
<1> DEFINE a == SubSeq(queue, 1, oldest - 1)
           b == SubSeq(queue, oldest + 1, Len(queue))
<1> HIDE DEF oldest
<1>7. \A i \in 1..Len(queue) : queue[i] \in Message
  BY ElementOfSeq
<1>8. a \in Seq(Message) /\ Len(a) = oldest - 1 /\ \A i \in 1..(oldest - 1) : a[i] = queue[i]
  <2>1. oldest - 1 \in Int /\ \A i \in 1..(oldest - 1) : queue[i] \in Message
    BY <1>1, <1>5, <1>7
  <2>2. /\ a \in Seq(Message) /\ Len(a) = IF 1 <= oldest - 1 THEN oldest - 1 - 1 + 1 ELSE 0
        /\ \A i \in 1..(oldest - 1 - 1 + 1) : a[i] = queue[1 + i - 1]
    BY <2>1, SubSeqProperties
  <2>3. oldest - 1 - 1 + 1 = oldest - 1 /\ \A i \in 1..(oldest - 1) : 1 + i - 1 = i
    BY <1>1, <1>5
  <2> HIDE DEF a
  <2> QED
    BY <1>1, <1>5, <2>2, <2>3
<1>9. /\ b \in Seq(Message) /\ Len(b) = Len(queue) - oldest
      /\ \A i \in 1..(Len(queue) - oldest) : b[i] = queue[oldest + i]
  <2>1. oldest + 1 \in Int /\ Len(queue) \in Int /\ \A i \in (oldest + 1)..Len(queue) : queue[i] \in Message
    BY <1>1, <1>5, <1>7
  <2>2. /\ b \in Seq(Message)
        /\ Len(b) = IF oldest + 1 <= Len(queue) THEN Len(queue) - (oldest + 1) + 1 ELSE 0
        /\ \A i \in 1..(Len(queue) - (oldest + 1) + 1) : b[i] = queue[oldest + 1 + i - 1]
    BY <2>1, SubSeqProperties
  <2>3. /\ Len(queue) - (oldest + 1) + 1 = Len(queue) - oldest
        /\ \A i \in 1..(Len(queue) - oldest) : oldest + 1 + i - 1 = oldest + i
    BY <1>1, <1>5
  <2>4. (IF oldest + 1 <= Len(queue) THEN Len(queue) - (oldest + 1) + 1 ELSE 0) = Len(queue) - oldest
    <3>1. oldest \in Nat /\ oldest <= Len(queue) /\ Len(queue) \in Nat
      BY <1>1, <1>5
    <3>2. CASE oldest + 1 <= Len(queue)
      BY <3>1, <3>2
    <3>3. CASE ~(oldest + 1 <= Len(queue))
      <4>1. Len(queue) = oldest
        BY <3>1, <3>3
      <4>2. Len(queue) - oldest = 0
        BY <3>1, <4>1
      <4> QED
        BY <3>3, <4>2
    <3> QED
      BY <3>2, <3>3
  <2> HIDE DEF b
  <2> QED
    BY <2>2, <2>3, <2>4
<1>10. /\ a \o b \in Seq(Message) /\ Len(a \o b) = Len(a) + Len(b)
       /\ \A i \in 1..(Len(a) + Len(b)) : (a \o b)[i] = IF i <= Len(a) THEN a[i] ELSE b[i - Len(a)]
  BY <1>8, <1>9, ConcatProperties
<1>11. Removed(a \o b, queue, oldest)
  <2> DEFINE c == a \o b
  <2>1. Len(c) = Len(queue) - 1
    <3> HIDE DEF a, b
    <3>1. oldest - 1 + (Len(queue) - oldest) = Len(queue) - 1
      BY <1>1, <1>5
    <3> QED
      BY <1>8, <1>9, <1>10, <3>1
  <2>2. ASSUME NEW i \in 1..Len(c)
        PROVE  c[i] = IF i < oldest THEN queue[i] ELSE queue[i + 1]
    <3>1. c[i] = IF i <= oldest - 1 THEN a[i] ELSE b[i - (oldest - 1)]
      BY <1>8, <1>10
    <3> HIDE DEF a, b, c
    <3>2. CASE i < oldest
      <4>1. i \in 1..(oldest - 1) /\ i <= oldest - 1
        BY <1>1, <1>5, <2>1, <3>2
      <4> QED
        BY <1>8, <3>1, <3>2, <4>1
    <3>3. CASE ~(i < oldest)
      <4>1. /\ ~(i <= oldest - 1) /\ i - (oldest - 1) \in 1..(Len(queue) - oldest)
            /\ oldest + (i - (oldest - 1)) = i + 1
        BY <1>1, <1>5, <2>1, <3>3
      <4> QED
        BY <1>9, <3>1, <3>3, <4>1
    <3> QED
      BY <3>2, <3>3
  <2> HIDE DEF c
  <2> QED
    BY <1>5, <2>1, <2>2 DEF Removed, c
<1> QED
  BY <1>5, <1>6, <1>10, <1>11

LEMMA OrderAppend ==
  ASSUME NEW q \in Seq(Message), NEW e \in Message, NEW p \in Seq(Message), NEW n \in Nat
  PROVE  /\ Ascending(q) /\ (\A i \in DOMAIN q : q[i].n < e.n) => Ascending(Append(q, e))
         /\ Before(p, q) /\ (\A i \in DOMAIN p : p[i].n < e.n) => Before(p, Append(q, e))
         /\ Before(q, p) /\ (\A i \in DOMAIN p : e.n < p[i].n) => Before(Append(q, e), p)
         /\ UpTo(q, n) /\ e.n <= n => UpTo(Append(q, e), n)
<1> DEFINE r == Append(q, e)
<1>1. /\ Len(q) \in Nat /\ DOMAIN q = 1..Len(q)
      /\ r \in Seq(Message) /\ Len(r) = Len(q) + 1
      /\ \A i \in 1..Len(q) : r[i] = q[i]
      /\ r[Len(q) + 1] = e
  BY LenProperties, AppendProperties
<1> HIDE DEF r
<1>2. DOMAIN r = 1..(Len(q) + 1)
  BY <1>1, LenProperties
<1>3. \A i \in DOMAIN r : i \in DOMAIN q \/ (i = Len(q) + 1 /\ r[i] = e)
  BY <1>1, <1>2
<1>4. \A i \in DOMAIN q : r[i] = q[i] /\ i < Len(q) + 1 /\ ~(Len(q) + 1 < i)
  BY <1>1
<1>5. ~(Len(q) + 1 < Len(q) + 1)
  BY <1>1
<1>6. Ascending(q) /\ (\A i \in DOMAIN q : q[i].n < e.n) => Ascending(r)
  BY <1>3, <1>4, <1>5 DEF Ascending
<1>7. /\ Before(p, q) /\ (\A i \in DOMAIN p : p[i].n < e.n) => Before(p, r)
      /\ Before(q, p) /\ (\A i \in DOMAIN p : e.n < p[i].n) => Before(r, p)
      /\ UpTo(q, n) /\ e.n <= n => UpTo(r, n)
  BY <1>3, <1>4 DEF Before, UpTo
<1> QED
  BY <1>6, <1>7 DEF r

-----------------------------------------------------------------------------
(* What the steps have in common.                                          *)

LEMMA ThreadsDiffer ==
  /\ {"writer", "reader", "closer"} \subseteq Threads
  /\ \A t \in Servers : t \in Threads /\ t # "writer" /\ t # "closer" /\ t # "reader"
  /\ \A t \in Threads : t # "free" /\ t # "done"
BY NamesAssumption DEF Threads

\* Where a thread goes, the others stay.
LEMMA Goes ==
  ASSUME TypeOK, NEW t \in Threads, NEW place, GoTo(t, place)
  PROVE  /\ pc'[t] = place
         /\ \A u \in Threads \ {t} : pc'[u] = pc[u]
BY DEF TypeOK, GoTo

\* The pc and its type.
Places == {"running", "pass", "writing", "reporting", "abandon", "once", "failed",
           "close", "graceful", "finals", "flush", "window", "done"}

LEMMA GoesType ==
  ASSUME TypeOK, NEW t \in Threads, NEW place \in Places, GoTo(t, place)
  PROVE  pc' \in [Threads -> Places]
BY DEF TypeOK, GoTo, Places

\* The parts of TypeOK that most steps leave alone.
LinkType ==
  /\ queue \in Seq(Message) /\ pass \in Seq(Message) /\ sent \in Seq(Message)
  /\ Held(queue, "control") <= MaxQueuedControls
  /\ \A s \in Streams : Held(queue, s) <= MaxQueuedData
  /\ counts \in Counts
  /\ handed \in 0..MaxHanded

LEMMA CountFacts ==
  ASSUME counts \in Counts, NEW q \in Seq(Message), NEW b \in {"written", "cleared", "abandoned"}
  PROVE  /\ Count(q, b) \in Counts
         /\ \A s \in Streams : /\ Count(q, b)[s].handed = counts[s].handed
                               /\ Total(Count(q, b), s) = Total(counts, s) + Held(q, s)
<1> DEFINE c == Count(q, b)
<1>1. ASSUME NEW s \in Streams
      PROVE  /\ c[s] \in [Buckets -> Nat]
             /\ c[s].handed = counts[s].handed
             /\ Total(c, s) = Total(counts, s) + Held(q, s)
  <2> DEFINE h == Held(q, s)
             old == counts[s]
             new == [old EXCEPT ![b] = @ + h]
  <2>1. c[s] = new
    BY DEF Count
  <2>2. h \in Nat
    BY HeldType
  <2>3. old \in [Buckets -> Nat]
    BY DEF Counts
  <2>4. /\ old["overflow"] \in Nat /\ old["written"] \in Nat /\ old["cleared"] \in Nat
        /\ old["abandoned"] \in Nat
    BY <2>3 DEF Buckets
  <2> HIDE DEF h, old
  <2>5. b \in Buckets /\ old[b] + h \in Nat
    BY <2>2, <2>3 DEF Buckets
  <2>6. new \in [Buckets -> Nat] /\ new["handed"] = old["handed"]
    BY <2>3, <2>5 DEF Buckets
  <2>7. /\ new["overflow"] = old["overflow"]
        /\ new["written"] = old["written"] + (IF b = "written" THEN h ELSE 0)
        /\ new["cleared"] = old["cleared"] + (IF b = "cleared" THEN h ELSE 0)
        /\ new["abandoned"] = old["abandoned"] + (IF b = "abandoned" THEN h ELSE 0)
    BY <2>2, <2>3, <2>4 DEF Buckets
  <2>8. /\ Total(c, s) = new["overflow"] + new["written"] + new["cleared"] + new["abandoned"]
        /\ Total(counts, s) = old["overflow"] + old["written"] + old["cleared"] + old["abandoned"]
    BY <2>1 DEF Total, old
  <2> HIDE DEF new, c
  <2>9. Total(c, s) = Total(counts, s) + h
    <3>1. \/ new["written"] = old["written"] + h /\ new["cleared"] = old["cleared"] /\ new["abandoned"] = old["abandoned"]
          \/ new["written"] = old["written"] /\ new["cleared"] = old["cleared"] + h /\ new["abandoned"] = old["abandoned"]
          \/ new["written"] = old["written"] /\ new["cleared"] = old["cleared"] /\ new["abandoned"] = old["abandoned"] + h
      BY <2>4, <2>7
    <3>2. PICK o \in Nat, w \in Nat, l \in Nat, a \in Nat :
            o = old["overflow"] /\ w = old["written"] /\ l = old["cleared"] /\ a = old["abandoned"]
      BY <2>4
    <3>3. Total(counts, s) = o + w + l + a /\ new["overflow"] = o
      BY <2>7, <2>8, <3>2
    <3>4. \/ Total(c, s) = o + (w + h) + l + a
          \/ Total(c, s) = o + w + (l + h) + a
          \/ Total(c, s) = o + w + l + (a + h)
      BY <2>8, <3>1, <3>2, <3>3
    <3> QED
      BY <2>2, <3>3, <3>4
  <2> QED
    BY <2>1, <2>6, <2>9 DEF h, old
<1>2. c = [s \in Streams |-> c[s]]
  BY DEF Count
<1> HIDE DEF c
<1>3. c \in Counts
  BY <1>1, <1>2 DEF Counts
<1> QED
  BY <1>1, <1>3 DEF c

\* The sums of a stream are naturals.
LEMMA TotalType ==
  ASSUME counts \in Counts, NEW s \in Streams
  PROVE  Total(counts, s) \in Nat /\ counts[s].handed \in Nat
<1>1. counts[s] \in [Buckets -> Nat]
  BY DEF Counts
<1>2. /\ counts[s]["overflow"] \in Nat /\ counts[s]["written"] \in Nat /\ counts[s]["cleared"] \in Nat
      /\ counts[s]["abandoned"] \in Nat /\ counts[s]["handed"] \in Nat
  BY <1>1 DEF Buckets
<1> QED
  BY <1>2 DEF Total

\* A step that moves no message keeps the account and the order.
LEMMA Still ==
  ASSUME IInv, UNCHANGED <<queue, pass, sent, counts, handed>>
  PROVE  LinkType' /\ Account' /\ Order'
BY DEF IInv, TypeOK, LinkType, Account, Total, Held, Order, Ascending, Before, UpTo

\* The sequence without elements is in every order.
LEMMA EmptyOrder ==
  ASSUME NEW p, NEW n
  PROVE  /\ <<>> \in Seq(Message) /\ Ascending(<<>>) /\ Before(p, <<>>) /\ Before(<<>>, p) /\ UpTo(<<>>, n)
<1>1. DOMAIN <<>> = {} /\ <<>> \in Seq(Message)
  OBVIOUS
<1> QED
  BY <1>1 DEF Ascending, Before, UpTo

\* Shutdown clears the queue into the counts, once.
LEMMA ShutdownClears ==
  ASSUME IInv, Shutdown, UNCHANGED <<pass, sent, handed>>
  PROVE  /\ LinkType' /\ Account' /\ Order'
         /\ closed' /\ queue' = <<>> /\ (closed => counts' = counts)
         /\ {closed', diagnostic', wake'} \subseteq BOOLEAN
<1> USE DEF IInv
<1>1. CASE closed
  <2>1. UNCHANGED <<queue, closed, counts, diagnostic, wake>>
    BY <1>1 DEF Shutdown
  <2>2. LinkType' /\ Account' /\ Order'
    <3> HIDE DEF IInv
    <3> QED
      BY <2>1, Still
  <2> QED
    BY <1>1, <2>1, <2>2 DEF TypeOK, Ends
<1>2. CASE ~closed
  <2>1. closed' = TRUE /\ diagnostic' = FALSE /\ counts' = Count(queue, "cleared") /\ queue' = <<>> /\ wake' = TRUE
    BY <1>2 DEF Shutdown
  <2>2. queue \in Seq(Message) /\ pass \in Seq(Message) /\ counts \in Counts
    BY DEF TypeOK
  <2>3. /\ counts' \in Counts
        /\ \A s \in Streams : counts'[s].handed = counts[s].handed /\ Total(counts', s) = Total(counts, s) + Held(queue, s)
    BY <2>1, <2>2, CountFacts
  <2>4. Account'
    <3> SUFFICES ASSUME NEW s \in Streams
                 PROVE  counts'[s].handed = Total(counts', s) + Held(queue', s) + Held(pass', s)
      BY DEF Account, Total, Held
    <3>1. Held(queue', s) = 0 /\ Held(pass', s) = Held(pass, s)
      BY <2>1, HeldEmpty
    <3>2. Held(queue, s) \in Nat /\ Held(pass, s) \in Nat /\ Total(counts, s) \in Nat
      BY <2>2, HeldType, TotalType
    <3>3. counts[s].handed = Total(counts, s) + Held(queue, s) + Held(pass, s)
      BY DEF Account
    <3> QED
      BY <2>3, <3>1, <3>2, <3>3
  <2>5. Order'
    BY <2>1, EmptyOrder DEF Order, Ascending, Before, UpTo
  <2>6. LinkType'
    <3>1. \A s : Held(queue', s) = 0
      BY <2>1, HeldEmpty
    <3> QED
      BY <2>1, <2>3, <3>1, EmptyOrder, LimitsAssumption DEF TypeOK, LinkType, Held
  <2> QED
    BY <1>2, <2>1, <2>4, <2>5, <2>6
<1> QED
  BY <1>1, <1>2 DEF TypeOK

\* The rest of TypeOK.
ThreadType ==
  /\ window \subseteq Counts
  /\ {closed, diagnostic, exited, wake, diagnosticWake, available, ctxDone} \subseteq BOOLEAN
  /\ pc \in [Threads -> Places]
  /\ writerError \in {"none", "closing", "failed"}
  /\ linkOnce \in Threads \cup {"free", "done"}
  /\ finalOnce \in Threads \cup {"free", "done"}
  /\ heartbeats \in 0..MaxHeartbeats

LEMMA TypeParts == TypeOK <=> LinkType /\ ThreadType
BY DEF TypeOK, LinkType, ThreadType, Places

-----------------------------------------------------------------------------
(* Queueing.                                                               *)

\* What every kind of queueing needs: the new message is behind everything.
LEMMA Newest ==
  ASSUME IInv, handed < MaxHanded, NEW s \in Streams \cup {"control"}
  PROVE  LET e == [stream |-> s, n |-> handed + 1] IN
         /\ e \in Message /\ e.n = handed + 1 /\ e.stream = s
         /\ handed \in Nat /\ handed + 1 \in 0..MaxHanded
         /\ \A i \in DOMAIN queue : queue[i].n < handed + 1
         /\ \A i \in DOMAIN pass : pass[i].n < handed + 1
         /\ \A i \in DOMAIN sent : sent[i].n < handed + 1
<1>1. MaxHanded \in Nat /\ handed \in Nat
  BY BoundsAssumption DEF IInv, TypeOK
<1>2. handed + 1 \in 1..MaxHanded
  BY <1>1
<1>3. \A q \in Seq(Message) : UpTo(q, handed) => \A i \in DOMAIN q : q[i].n < handed + 1
  <2> SUFFICES ASSUME NEW q \in Seq(Message), UpTo(q, handed), NEW i \in DOMAIN q
               PROVE  q[i].n < handed + 1
    OBVIOUS
  <2>1. q[i] \in Message
    BY LenProperties, ElementOfSeq
  <2>2. q[i].n \in Nat /\ q[i].n <= handed
    BY <1>1, <2>1 DEF Message, UpTo
  <2> QED
    BY <1>1, <2>2
<1>4. /\ \A i \in DOMAIN queue : queue[i].n < handed + 1
      /\ \A i \in DOMAIN pass : pass[i].n < handed + 1
      /\ \A i \in DOMAIN sent : sent[i].n < handed + 1
  BY <1>3 DEF IInv, Order, TypeOK
<1>5. [stream |-> s, n |-> handed + 1] \in Message
  BY <1>2 DEF Message
<1>6. handed + 1 \in 0..MaxHanded
  BY <1>1
<1> QED
  BY <1>1, <1>4, <1>5, <1>6

LEMMA QueueDataKeeps ==
  ASSUME IInv, NEW t \in Servers, NEW s \in Streams, QueueData(t, s)
  PROVE  IInv'
<1> USE DEF IInv
<1> DEFINE e == [stream |-> s, n |-> handed + 1]
           overflow == Held(queue, s) >= MaxQueuedData
           rest == IF overflow THEN WithoutOldest(s) ELSE queue
           one == IF overflow THEN 1 ELSE 0
<1>1. /\ handed < MaxHanded /\ ~closed /\ handed' = handed + 1 /\ wake' = TRUE
      /\ queue' = Append(rest, e)
      /\ counts' = [counts EXCEPT ![s].handed = @ + 1, ![s].overflow = @ + one]
      /\ UNCHANGED <<closed, diagnostic, exited, diagnosticWake, pc, pass, writerError, onceVars, sent, heartbeats>>
  BY DEF QueueData
<1>2. /\ queue \in Seq(Message) /\ pass \in Seq(Message) /\ sent \in Seq(Message) /\ counts \in Counts
      /\ MaxQueuedData \in Nat \ {0}
      /\ s # "control" /\ \A u \in Streams : u # "control"
  BY LimitsAssumption, NamesAssumption DEF TypeOK
<1>3. /\ e \in Message /\ e.n = handed + 1 /\ e.stream = s
      /\ handed \in Nat /\ handed + 1 \in 0..MaxHanded
      /\ \A i \in DOMAIN queue : queue[i].n < handed + 1
      /\ \A i \in DOMAIN pass : pass[i].n < handed + 1
      /\ \A i \in DOMAIN sent : sent[i].n < handed + 1
  <2>1. s \in Streams \cup {"control"}
    OBVIOUS
  <2> HIDE DEF IInv
  <2> QED
    BY <1>1, <2>1, Newest
<1>4. \A u : Held(queue, u) \in Nat
  BY <1>2, HeldType
<1>5. /\ rest \in Seq(Message)
      /\ \A u : Held(rest, u) = Held(queue, u) - (IF overflow /\ u = s THEN 1 ELSE 0)
      /\ Ascending(rest) /\ Before(sent, rest) /\ Before(pass, rest)
      /\ UpTo(rest, handed) /\ \A i \in DOMAIN rest : rest[i].n < handed + 1
  <2>1. CASE overflow
    <3>1. Held(queue, s) # 0
      BY <1>2, <1>4, <2>1
    <3>2. WithoutOldest(s) \in Seq(Message)
      BY <1>2, <3>1, OldestRemoved
    <3>3. PICK k \in 1..Len(queue) : queue[k].stream = s /\ Removed(WithoutOldest(s), queue, k)
      BY <1>2, <3>1, OldestRemoved
    <3> DEFINE w == WithoutOldest(s)
    <3> HIDE DEF w
    <3>4. w \in Seq(Message) /\ Removed(w, queue, k)
      BY <3>2, <3>3 DEF w
    <3>5. \A u : Held(w, u) = Held(queue, u) - (IF u = s THEN 1 ELSE 0)
      BY <1>2, <3>3, <3>4, HeldRemoved
    <3>6. Ascending(w) /\ Before(sent, w) /\ Before(pass, w) /\ UpTo(w, handed)
      BY <1>2, <3>4, OrderRemoved DEF Order
    <3>7. \A i \in DOMAIN w : w[i].n < handed + 1
      <4> SUFFICES ASSUME NEW i \in DOMAIN w
                   PROVE  w[i].n < handed + 1
        OBVIOUS
      <4>1. w[i] \in Message /\ w[i].n <= handed
        BY <3>4, <3>6, LenProperties, ElementOfSeq DEF UpTo
      <4>2. w[i].n \in Nat
        BY <4>1, BoundsAssumption DEF Message
      <4> QED
        BY <1>3, <4>1, <4>2
    <3> QED
      BY <2>1, <3>4, <3>5, <3>6, <3>7 DEF w
  <2>2. CASE ~overflow
    <3>1. \A u : Held(queue, u) - 0 = Held(queue, u)
      BY <1>4
    <3> QED
      BY <1>2, <1>3, <2>2, <3>1 DEF Order
  <2> QED
    BY <2>1, <2>2
<1> HIDE DEF e, rest
<1>6. /\ queue' \in Seq(Message)
      /\ \A u : Held(queue', u) = Held(queue, u) - (IF overflow /\ u = s THEN 1 ELSE 0) + (IF u = s THEN 1 ELSE 0)
      /\ Ascending(queue') /\ Before(sent, queue') /\ Before(pass, queue') /\ UpTo(queue', handed + 1)
  <2>1. queue' \in Seq(Message)
    BY <1>1, <1>3, <1>5, AppendProperties
  <2>2. \A u : Held(queue', u) = Held(rest, u) + (IF u = s THEN 1 ELSE 0)
    BY <1>1, <1>3, <1>5, HeldAppend
  <2>3. UpTo(rest, handed + 1)
    <3> SUFFICES ASSUME NEW i \in DOMAIN rest
                 PROVE  rest[i].n <= handed + 1
      BY DEF UpTo
    <3>1. rest[i] \in Message /\ rest[i].n < handed + 1
      BY <1>5, LenProperties, ElementOfSeq
    <3>2. rest[i].n \in Nat
      BY <3>1, BoundsAssumption DEF Message
    <3> QED
      BY <1>3, <3>1, <3>2
  <2>4. handed + 1 \in Nat /\ e.n <= handed + 1
    BY <1>3
  <2>5. Ascending(queue') /\ Before(sent, queue') /\ Before(pass, queue') /\ UpTo(queue', handed + 1)
    BY <1>1, <1>2, <1>3, <1>5, <2>3, <2>4, OrderAppend
  <2> QED
    BY <1>5, <2>1, <2>2, <2>5
<1>7. /\ counts' \in Counts
      /\ \A u \in Streams : /\ counts'[u].handed = counts[u].handed + (IF u = s THEN 1 ELSE 0)
                            /\ Total(counts', u) = Total(counts, u) + (IF overflow /\ u = s THEN 1 ELSE 0)
  <2> DEFINE old == counts[s]
             h == old["handed"] + 1
             o == old["overflow"] + one
             new == [old EXCEPT !["handed"] = h, !["overflow"] = o]
  <2>1. old \in [Buckets -> Nat]
    BY <1>2 DEF Counts
  <2>2. /\ old["overflow"] \in Nat /\ old["written"] \in Nat /\ old["cleared"] \in Nat
        /\ old["abandoned"] \in Nat /\ old["handed"] \in Nat /\ one \in {0, 1}
    BY <2>1 DEF Buckets
  <2>3. counts' = [counts EXCEPT ![s] = new]
    BY <1>1, <1>2 DEF Counts, Buckets
  <2> HIDE DEF old, one, overflow
  <2>4. h \in Nat /\ o \in Nat
    BY <2>2
  <2> HIDE DEF h, o
  <2>5. /\ new \in [Buckets -> Nat] /\ new["handed"] = h /\ new["overflow"] = o
        /\ new["written"] = old["written"] /\ new["cleared"] = old["cleared"] /\ new["abandoned"] = old["abandoned"]
    BY <2>1, <2>4 DEF Buckets
  <2> HIDE DEF new
  <2>6. counts' \in Counts
    BY <1>2, <2>3, <2>5 DEF Counts
  <2>7. counts'[s] = new /\ \A u \in Streams : u # s => counts'[u] = counts[u]
    BY <1>2, <2>3 DEF Counts
  <2>8. Total(counts', s) = Total(counts, s) + one
    <3>1. /\ Total(counts', s) = new["overflow"] + new["written"] + new["cleared"] + new["abandoned"]
          /\ Total(counts, s) = old["overflow"] + old["written"] + old["cleared"] + old["abandoned"]
      BY <2>7 DEF Total, old
    <3> QED
      BY <2>2, <2>5, <3>1 DEF o
  <2>9. counts'[s].handed = counts[s].handed + 1
    BY <2>5, <2>7 DEF h, old
  <2>10. ASSUME NEW u \in Streams, u # s
         PROVE  counts'[u].handed = counts[u].handed + 0 /\ Total(counts', u) = Total(counts, u) + 0
    <3>1. Total(counts', u) = Total(counts, u)
      BY <2>7, <2>10 DEF Total
    <3>2. Total(counts, u) \in Nat /\ counts[u].handed \in Nat
      BY <1>2, TotalType
    <3> QED
      BY <2>7, <2>10, <3>1, <3>2
  <2> QED
    BY <2>6, <2>8, <2>9, <2>10 DEF one
<1> HIDE DEF overflow
<1>8. Account'
  <2> SUFFICES ASSUME NEW u \in Streams
               PROVE  counts'[u].handed = Total(counts', u) + Held(queue', u) + Held(pass', u)
    BY DEF Account, Total, Held
  <2>1. Held(pass, u) \in Nat /\ Held(queue, u) \in Nat /\ Total(counts, u) \in Nat
    BY <1>2, HeldType, TotalType
  <2>2. counts[u].handed = Total(counts, u) + Held(queue, u) + Held(pass, u)
    BY DEF Account
  <2>3. pass' = pass
    BY <1>1
  <2> QED
    BY <1>6, <1>7, <2>1, <2>2, <2>3
<1>9. LinkType'
  <2>1. Held(queue', "control") <= MaxQueuedControls
    <3>1. Held(queue', "control") = Held(queue, "control")
      BY <1>2, <1>4, <1>6
    <3> QED
      BY <3>1 DEF TypeOK
  <2>2. ASSUME NEW u \in Streams
        PROVE  Held(queue', u) <= MaxQueuedData
    <3>1. Held(queue, u) \in Nat /\ Held(queue, u) <= MaxQueuedData
      BY <1>4 DEF TypeOK
    <3> QED
      BY <1>2, <1>6, <3>1 DEF overflow
  <2>3. handed' \in 0..MaxHanded /\ pass' = pass /\ sent' = sent
    BY <1>1, <1>3
  <2> QED
    BY <1>2, <1>6, <1>7, <2>1, <2>2, <2>3 DEF LinkType, Held
<1>10. Order'
  <2>1. UpTo(sent, handed + 1) /\ UpTo(pass, handed + 1)
    <3> SUFFICES ASSUME NEW q \in {sent, pass}, NEW i \in DOMAIN q
                 PROVE  q[i].n <= handed + 1
      BY DEF UpTo
    <3>1. q[i] \in Message /\ q[i].n < handed + 1
      BY <1>2, <1>3, LenProperties, ElementOfSeq
    <3>2. q[i].n \in Nat
      BY <3>1, BoundsAssumption DEF Message
    <3> QED
      BY <1>3, <3>1, <3>2
  <2>2. handed' = handed + 1 /\ sent' = sent /\ pass' = pass
    BY <1>1
  <2> QED
    BY <1>6, <2>1, <2>2 DEF Order, Ascending, Before, UpTo
<1>11. ThreadType'
  BY <1>1 DEF TypeOK, ThreadType, onceVars, Places
<1>12. Ends'
  BY <1>1 DEF Ends, onceVars
<1> QED
  BY <1>8, <1>9, <1>10, <1>11, <1>12, TypeParts DEF TypeOK, LinkType, ThreadType, Places

LEMMA QueueControlKeeps ==
  ASSUME IInv, NEW t \in Servers, QueueControl(t)
  PROVE  IInv'
<1> USE DEF IInv
<1> DEFINE e == [stream |-> "control", n |-> handed + 1]
<1>1. /\ handed < MaxHanded /\ ~closed /\ handed' = handed + 1 /\ wake' = TRUE
      /\ Held(queue, "control") < MaxQueuedControls
      /\ queue' = Append(queue, e)
      /\ UNCHANGED <<closed, counts, diagnostic, exited, diagnosticWake, pc, pass, writerError, onceVars, sent, heartbeats>>
  BY DEF QueueControl
<1>2. /\ queue \in Seq(Message) /\ pass \in Seq(Message) /\ sent \in Seq(Message) /\ counts \in Counts
      /\ MaxQueuedControls \in Nat
      /\ \A u \in Streams : u # "control"
  BY LimitsAssumption, NamesAssumption DEF TypeOK
<1>3. /\ e \in Message /\ e.n = handed + 1 /\ e.stream = "control"
      /\ handed \in Nat /\ handed + 1 \in 0..MaxHanded
      /\ \A i \in DOMAIN queue : queue[i].n < handed + 1
      /\ \A i \in DOMAIN pass : pass[i].n < handed + 1
      /\ \A i \in DOMAIN sent : sent[i].n < handed + 1
  <2>1. "control" \in Streams \cup {"control"}
    OBVIOUS
  <2> HIDE DEF IInv
  <2> QED
    BY <1>1, <2>1, Newest
<1> HIDE DEF e
<1>4. \A q \in {queue, pass, sent} : UpTo(q, handed + 1)
  <2> SUFFICES ASSUME NEW q \in {queue, pass, sent}, NEW i \in DOMAIN q
               PROVE  q[i].n <= handed + 1
    BY DEF UpTo
  <2>1. q[i] \in Message /\ q[i].n < handed + 1
    BY <1>2, <1>3, LenProperties, ElementOfSeq
  <2>2. q[i].n \in Nat
    BY <2>1, BoundsAssumption DEF Message
  <2> QED
    BY <1>3, <2>1, <2>2
<1>5. /\ queue' \in Seq(Message)
      /\ \A u : Held(queue', u) = Held(queue, u) + (IF u = "control" THEN 1 ELSE 0)
      /\ Ascending(queue') /\ Before(sent, queue') /\ Before(pass, queue') /\ UpTo(queue', handed + 1)
  <2>1. queue' \in Seq(Message)
    BY <1>1, <1>2, <1>3, AppendProperties
  <2>2. \A u : Held(queue', u) = Held(queue, u) + (IF u = "control" THEN 1 ELSE 0)
    BY <1>1, <1>2, <1>3, HeldAppend
  <2>3. handed + 1 \in Nat /\ e.n <= handed + 1 /\ UpTo(queue, handed + 1)
    BY <1>3, <1>4
  <2>4. Ascending(queue) /\ Before(sent, queue) /\ Before(pass, queue)
    BY DEF Order
  <2>5. Ascending(queue') /\ Before(sent, queue') /\ Before(pass, queue') /\ UpTo(queue', handed + 1)
    BY <1>1, <1>2, <1>3, <2>3, <2>4, OrderAppend
  <2> QED
    BY <2>1, <2>2, <2>5
<1>6. \A u : Held(queue, u) \in Nat
  BY <1>2, HeldType
<1>7. \A u \in Streams : Held(queue', u) = Held(queue, u)
  BY <1>2, <1>5, <1>6
<1>8. Account'
  <2> SUFFICES ASSUME NEW s \in Streams
               PROVE  counts'[s].handed = Total(counts', s) + Held(queue', s) + Held(pass', s)
    BY DEF Account, Total, Held
  <2>1. counts' = counts /\ pass' = pass
    BY <1>1
  <2> QED
    BY <1>7, <2>1 DEF Account
<1>9. LinkType'
  <2>1. Held(queue', "control") <= MaxQueuedControls
    BY <1>1, <1>2, <1>5, <1>6
  <2> QED
    BY <1>1, <1>2, <1>3, <1>5, <1>7, <2>1 DEF LinkType, TypeOK, Held
<1>10. Order'
  <2>1. handed' = handed + 1 /\ sent' = sent /\ pass' = pass
    BY <1>1
  <2> QED
    BY <1>4, <1>5, <2>1 DEF Order, Ascending, Before, UpTo
<1>11. ThreadType'
  BY <1>1 DEF TypeOK, ThreadType, onceVars, Places
<1>12. Ends'
  BY <1>1 DEF Ends, onceVars
<1> QED
  BY <1>8, <1>9, <1>10, <1>11, <1>12, TypeParts DEF TypeOK, LinkType, ThreadType, Places

-----------------------------------------------------------------------------
(* The writer.                                                             *)

LEMMA TakeKeeps ==
  ASSUME IInv, pc["writer"] = "running", wake' \in BOOLEAN, Take
  PROVE  IInv'
<1> USE DEF IInv
<1>1. /\ pass' = queue /\ queue' = <<>> /\ GoTo("writer", "pass")
      /\ UNCHANGED <<closed, counts, diagnostic, exited, diagnosticWake, writerError, onceVars, sent, boundVars>>
  BY DEF Take
<1>2. /\ queue \in Seq(Message) /\ counts \in Counts /\ pass = <<>>
      /\ "writer" \in Threads
  BY ThreadsDiffer DEF TypeOK, Ends
<1>3. /\ pc'["writer"] = "pass" /\ \A u \in Threads \ {"writer"} : pc'[u] = pc[u]
      /\ pc' \in [Threads -> Places]
  BY <1>1, <1>2, Goes, GoesType DEF Places
<1>4. \A s : Held(queue', s) = 0 /\ Held(pass', s) = Held(queue, s) /\ Held(pass, s) = 0
  BY <1>1, <1>2, HeldEmpty
<1>5. Account'
  <2> SUFFICES ASSUME NEW s \in Streams
               PROVE  counts'[s].handed = Total(counts', s) + Held(queue', s) + Held(pass', s)
    BY DEF Account, Total, Held
  <2>1. Held(queue, s) \in Nat /\ Total(counts, s) \in Nat
    BY <1>2, HeldType, TotalType
  <2>2. counts[s].handed = Total(counts, s) + Held(queue, s) + Held(pass, s)
    BY DEF Account
  <2>3. counts' = counts
    BY <1>1
  <2> QED
    BY <1>4, <2>1, <2>2, <2>3
<1>6. LinkType'
  BY <1>1, <1>2, <1>4, EmptyOrder, LimitsAssumption DEF LinkType, TypeOK, Held, boundVars
<1>7. Order'
  <2>1. sent' = sent /\ handed' = handed
    BY <1>1 DEF boundVars
  <2> QED
    BY <1>1, <2>1, EmptyOrder DEF Order, Ascending, Before, UpTo
<1>8. ThreadType'
  BY <1>1, <1>3 DEF TypeOK, ThreadType, onceVars, boundVars
<1>9. Ends'
  BY <1>1, <1>2, <1>3, ThreadsDiffer DEF Ends, onceVars
<1> QED
  BY <1>5, <1>6, <1>7, <1>8, <1>9, TypeParts DEF TypeOK, LinkType, ThreadType, Places

LEMMA WrittenKeeps ==
  ASSUME IInv, Written
  PROVE  IInv'
<1> USE DEF IInv
<1>1. /\ pc["writer"] = "writing" /\ sent' = Append(sent, Head(pass))
      /\ counts' = Count(<<Head(pass)>>, "written")
      /\ pass' = Tail(pass) /\ GoTo("writer", "pass")
      /\ UNCHANGED <<queue, closed, diagnostic, exited, wake, diagnosticWake, writerError, onceVars, boundVars>>
  BY DEF Written
<1>2. /\ queue \in Seq(Message) /\ pass \in Seq(Message) /\ sent \in Seq(Message) /\ counts \in Counts
      /\ pass # <<>> /\ "writer" \in Threads /\ handed \in Nat
  BY <1>1, ThreadsDiffer, BoundsAssumption DEF TypeOK, Ends
<1>3. /\ pc'["writer"] = "pass" /\ \A u \in Threads \ {"writer"} : pc'[u] = pc[u]
      /\ pc' \in [Threads -> Places]
  BY <1>1, <1>2, Goes, GoesType DEF Places
<1> DEFINE e == Head(pass)
<1>4. /\ e = pass[1] /\ e \in Message /\ 1 \in DOMAIN pass
      /\ pass' \in Seq(Message) /\ Removed(pass', pass, 1)
  BY <1>1, <1>2, TailRemoved
<1> HIDE DEF e
<1>5. \A s : Held(pass', s) = Held(pass, s) - (IF e.stream = s THEN 1 ELSE 0)
  BY <1>2, <1>4, HeldRemoved
<1>6. \A s : Held(<<e>>, s) = IF e.stream = s THEN 1 ELSE 0
  <2> SUFFICES ASSUME NEW s
               PROVE  Held(<<e>>, s) = IF e.stream = s THEN 1 ELSE 0
    OBVIOUS
  <2> DEFINE none == <<>>
             one == <<e>>
  <2>1. one = Append(none, e) /\ none \in Seq(Message)
    OBVIOUS
  <2>2. Held(none, s) = 0
    BY HeldEmpty
  <2> HIDE DEF none, one
  <2>3. Held(one, s) = Held(none, s) + (IF e.stream = s THEN 1 ELSE 0)
    BY <1>4, <2>1, HeldAppend
  <2>4. Held(one, s) = IF e.stream = s THEN 1 ELSE 0
    BY <2>2, <2>3
  <2> QED
    BY <2>4 DEF one
<1>7. /\ counts' \in Counts
      /\ \A s \in Streams : counts'[s].handed = counts[s].handed /\ Total(counts', s) = Total(counts, s) + Held(<<e>>, s)
  <2>1. <<e>> \in Seq(Message) /\ counts' = Count(<<e>>, "written")
    BY <1>1, <1>4 DEF e
  <2> QED
    BY <1>2, <2>1, CountFacts
<1>8. Account'
  <2> SUFFICES ASSUME NEW s \in Streams
               PROVE  counts'[s].handed = Total(counts', s) + Held(queue', s) + Held(pass', s)
    BY DEF Account, Total, Held
  <2>1. Held(queue, s) \in Nat /\ Held(pass, s) \in Nat /\ Total(counts, s) \in Nat
    BY <1>2, HeldType, TotalType
  <2>2. counts[s].handed = Total(counts, s) + Held(queue, s) + Held(pass, s)
    BY DEF Account
  <2>3. queue' = queue
    BY <1>1
  <2> QED
    BY <1>5, <1>6, <1>7, <2>1, <2>2, <2>3
<1>9. sent' \in Seq(Message)
  BY <1>1, <1>2, <1>4, AppendProperties DEF e
<1>10. LinkType'
  BY <1>1, <1>4, <1>7, <1>9 DEF LinkType, TypeOK, Held, boundVars
<1>11. Order'
  <2>1. /\ Ascending(sent) /\ Ascending(pass) /\ Ascending(queue)
        /\ Before(sent, pass) /\ Before(sent, queue) /\ Before(pass, queue)
        /\ UpTo(sent, handed) /\ UpTo(pass, handed) /\ UpTo(queue, handed)
    BY DEF Order
  <2>2. Ascending(pass') /\ Before(sent, pass') /\ UpTo(pass', handed)
    BY <1>2, <1>4, <2>1, OrderRemoved
  <2>3. /\ DOMAIN pass = 1..Len(pass) /\ DOMAIN pass' = 1..Len(pass') /\ Len(pass) \in Nat
        /\ \A i \in DOMAIN pass' : pass'[i] = pass[i + 1] /\ i + 1 \in DOMAIN pass /\ 1 < i + 1
    BY <1>2, <1>4, LenProperties DEF Removed
  <2>4. Before(pass', queue)
    BY <2>1, <2>3 DEF Before
  <2>5. \A i \in DOMAIN pass' : e.n < pass'[i].n
    BY <1>4, <2>1, <2>3 DEF Ascending
  <2>6. (\A i \in DOMAIN sent : sent[i].n < e.n) /\ (\A i \in DOMAIN queue : e.n < queue[i].n) /\ e.n <= handed
    BY <1>4, <2>1 DEF Before, UpTo
  <2>7. sent' = Append(sent, e)
    BY <1>1 DEF e
  <2>8. Ascending(sent') /\ Before(sent', queue) /\ Before(sent', pass') /\ UpTo(sent', handed)
    <3>1. Before(sent', pass')
      BY <1>2, <1>4, <2>2, <2>5, <2>7, OrderAppend
    <3>2. Ascending(sent') /\ Before(sent', queue) /\ UpTo(sent', handed)
      BY <1>2, <1>4, <2>1, <2>6, <2>7, OrderAppend
    <3> QED
      BY <3>1, <3>2
  <2>9. queue' = queue /\ handed' = handed
    BY <1>1 DEF boundVars
  <2> QED
    BY <2>1, <2>2, <2>4, <2>8, <2>9 DEF Order, Ascending, Before, UpTo
<1>12. ThreadType'
  BY <1>1, <1>3 DEF TypeOK, ThreadType, onceVars, boundVars
<1>13. Ends'
  BY <1>1, <1>2, <1>3, ThreadsDiffer DEF Ends, onceVars
<1> QED
  BY <1>8, <1>10, <1>11, <1>12, <1>13, TypeParts DEF TypeOK, LinkType, ThreadType, Places

LEMMA AbandonKeeps ==
  ASSUME IInv, Abandon
  PROVE  IInv'
<1> USE DEF IInv
<1> DEFINE place == IF writerError = "closing" THEN "done" ELSE "once"
<1>1. /\ pc["writer"] = "abandon" /\ counts' = Count(pass, "abandoned") /\ pass' = <<>>
      /\ GoTo("writer", place) /\ exited' = TRUE
      /\ UNCHANGED <<queue, closed, diagnostic, wake, diagnosticWake, writerError, onceVars, sent, boundVars>>
  BY DEF Abandon, Stopped
<1>2. /\ queue \in Seq(Message) /\ pass \in Seq(Message) /\ counts \in Counts /\ "writer" \in Threads
      /\ place \in {"done", "once"} /\ place \in Places
  BY ThreadsDiffer DEF TypeOK, Places
<1> HIDE DEF place
<1>3. /\ pc'["writer"] = place /\ \A u \in Threads \ {"writer"} : pc'[u] = pc[u]
      /\ pc' \in [Threads -> Places]
  BY <1>1, <1>2, Goes, GoesType
<1>4. /\ counts' \in Counts
      /\ \A s \in Streams : counts'[s].handed = counts[s].handed /\ Total(counts', s) = Total(counts, s) + Held(pass, s)
  BY <1>1, <1>2, CountFacts
<1>5. Account'
  <2> SUFFICES ASSUME NEW s \in Streams
               PROVE  counts'[s].handed = Total(counts', s) + Held(queue', s) + Held(pass', s)
    BY DEF Account, Total, Held
  <2>1. Held(queue, s) \in Nat /\ Held(pass, s) \in Nat /\ Total(counts, s) \in Nat
    BY <1>2, HeldType, TotalType
  <2>2. counts[s].handed = Total(counts, s) + Held(queue, s) + Held(pass, s)
    BY DEF Account
  <2>3. queue' = queue /\ Held(pass', s) = 0
    BY <1>1, HeldEmpty
  <2> QED
    BY <1>4, <2>1, <2>2, <2>3
<1>6. LinkType'
  BY <1>1, <1>4, EmptyOrder DEF LinkType, TypeOK, Held, boundVars
<1>7. Order'
  BY <1>1, EmptyOrder DEF Order, Ascending, Before, UpTo, boundVars
<1>8. ThreadType'
  BY <1>1, <1>3 DEF TypeOK, ThreadType, onceVars, boundVars
<1>9. Ends'
  BY <1>1, <1>2, <1>3, ThreadsDiffer DEF Ends, onceVars
<1> QED
  BY <1>5, <1>6, <1>7, <1>8, <1>9, TypeParts DEF TypeOK, LinkType, ThreadType, Places

-----------------------------------------------------------------------------
(* The steps that move no message.                                         *)

LEMMA RefusedKeeps ==
  ASSUME IInv, NEW t \in Servers, Refused(t)
  PROVE  IInv'
<1>1. /\ pc[t] = "running" /\ GoTo(t, "failed") /\ t \in Threads /\ t \notin {"writer", "closer"}
      /\ UNCHANGED <<linkVars, pass, writerError, onceVars, sent, boundVars>>
  BY ThreadsDiffer DEF Refused
<1>2. /\ pc'[t] = "failed" /\ \A u \in Threads \ {t} : pc'[u] = pc[u]
      /\ pc' \in [Threads -> Places]
  BY <1>1, Goes, GoesType DEF IInv, Places
<1>3. LinkType' /\ Account' /\ Order'
  BY <1>1, Still DEF linkVars, boundVars
<1>4. ThreadType'
  BY <1>1, <1>2 DEF IInv, TypeOK, ThreadType, linkVars, onceVars, boundVars
<1>5. Ends'
  BY <1>1, <1>2, ThreadsDiffer DEF IInv, Ends, linkVars, onceVars
<1> QED
  BY <1>3, <1>4, <1>5, TypeParts DEF IInv, TypeOK, LinkType, ThreadType, Places

LEMMA HeartbeatKeeps ==
  ASSUME IInv, Heartbeat
  PROVE  IInv'
<1>1. /\ heartbeats < MaxHeartbeats /\ heartbeats' = heartbeats + 1 /\ diagnostic' = TRUE /\ diagnosticWake' = TRUE
      /\ UNCHANGED <<queue, closed, counts, exited, wake, pc, pass, writerError, onceVars, sent, handed>>
  BY DEF Heartbeat
<1>2. LinkType' /\ Account' /\ Order'
  BY <1>1, Still
<1>3. heartbeats' \in 0..MaxHeartbeats
  BY <1>1, BoundsAssumption DEF IInv, TypeOK
<1>4. ThreadType'
  BY <1>1, <1>3 DEF IInv, TypeOK, ThreadType, Places, onceVars
<1>5. Ends'
  BY <1>1 DEF IInv, Ends, onceVars
<1> QED
  BY <1>2, <1>4, <1>5, TypeParts DEF IInv, TypeOK, LinkType, ThreadType, Places

\* The writer's steps that only move it, set its error or take a wake of the diagnostic.
LEMMA WriterMoves ==
  ASSUME IInv, NEW place \in Places, GoTo("writer", place),
         UNCHANGED <<queue, closed, counts, wake, pass, onceVars, sent, boundVars>>,
         {diagnostic', diagnosticWake', exited'} \subseteq BOOLEAN,
         writerError' \in {"none", "closing", "failed"},
         place \notin {"graceful", "finals", "flush", "window"},
         exited => exited',
         exited' => place \in {"once", "failed", "close", "done"},
         place \in {"pass", "writing", "abandon"} \/ pass = <<>>,
         place = "writing" => pass # <<>>
  PROVE  IInv'
<1>1. /\ pc'["writer"] = place /\ \A u \in Threads \ {"writer"} : pc'[u] = pc[u]
      /\ pc' \in [Threads -> Places]
  BY Goes, GoesType, ThreadsDiffer DEF IInv
<1>2. LinkType' /\ Account' /\ Order'
  BY Still DEF boundVars
<1>3. ThreadType'
  BY <1>1 DEF IInv, TypeOK, ThreadType, onceVars, boundVars
<1>4. Ends'
  BY <1>1, ThreadsDiffer DEF IInv, Ends, onceVars
<1> QED
  BY <1>2, <1>3, <1>4, TypeParts DEF IInv, TypeOK, LinkType, ThreadType, Places

LEMMA WriterMovingKeeps ==
  ASSUME IInv, WriterReturns \/ NextWrite \/ WriteFails \/ WriteDiagnostic \/ Reported
  PROVE  IInv'
<1>1. /\ {diagnostic, diagnosticWake, exited, TRUE, FALSE} \subseteq BOOLEAN
      /\ writerError \in {"none", "closing", "failed"}
      /\ pc["writer"] \in {"running", "pass", "writing", "reporting"} => ~exited
      /\ pc["writer"] \in {"running", "reporting"} => pass = <<>>
      /\ {"running", "abandon", "writing", "reporting", "once", "done"} \subseteq Places
  BY DEF IInv, TypeOK, Ends, Places
<1>2. CASE WriterReturns
  <2>1. /\ pc["writer"] = "running" /\ GoTo("writer", "done") /\ exited' = TRUE
        /\ UNCHANGED <<queue, closed, counts, diagnostic, wake, diagnosticWake, pass, writerError, onceVars, sent, boundVars>>
    BY <1>2 DEF WriterReturns, Stopped
  <2> QED
    BY <1>1, <2>1, WriterMoves
<1>3. CASE NextWrite
  <2>1. /\ pc["writer"] = "pass" /\ UNCHANGED <<linkVars, pass, onceVars, sent, boundVars>>
        /\ \/ pass = <<>> /\ GoTo("writer", "running") /\ UNCHANGED writerError
           \/ GoTo("writer", "abandon") /\ writerError' = "closing"
           \/ pass # <<>> /\ GoTo("writer", "writing") /\ UNCHANGED writerError
    BY <1>3 DEF NextWrite
  <2>2. UNCHANGED <<queue, closed, counts, diagnostic, exited, wake, diagnosticWake>>
    BY <2>1 DEF linkVars
  <2>3. CASE pass = <<>> /\ GoTo("writer", "running") /\ UNCHANGED writerError
    BY <1>1, <2>1, <2>2, <2>3, WriterMoves
  <2>4. CASE GoTo("writer", "abandon") /\ writerError' = "closing"
    BY <1>1, <2>1, <2>2, <2>4, WriterMoves
  <2>5. CASE pass # <<>> /\ GoTo("writer", "writing") /\ UNCHANGED writerError
    BY <1>1, <2>1, <2>2, <2>5, WriterMoves
  <2> QED
    BY <2>1, <2>3, <2>4, <2>5
<1>4. CASE WriteFails
  <2>1. /\ pc["writer"] = "writing" /\ writerError' = "failed" /\ GoTo("writer", "abandon")
        /\ UNCHANGED <<queue, closed, counts, diagnostic, exited, wake, diagnosticWake, pass, onceVars, sent, boundVars>>
    BY <1>4 DEF WriteFails, linkVars
  <2> QED
    BY <1>1, <2>1, WriterMoves
<1>5. CASE WriteDiagnostic
  <2>1. /\ pc["writer"] = "running" /\ diagnosticWake' = FALSE /\ diagnostic' = FALSE
        /\ UNCHANGED <<queue, closed, counts, wake, pass, writerError, onceVars, sent, boundVars>>
        /\ \/ GoTo("writer", "done") /\ exited' = TRUE
           \/ GoTo("writer", "reporting") /\ UNCHANGED exited
           \/ GoTo("writer", "running") /\ UNCHANGED exited
    BY <1>5 DEF WriteDiagnostic, Stopped
  <2>2. CASE GoTo("writer", "done") /\ exited' = TRUE
    BY <1>1, <2>1, <2>2, WriterMoves
  <2>3. CASE GoTo("writer", "reporting") /\ UNCHANGED exited
    BY <1>1, <2>1, <2>3, WriterMoves
  <2>4. CASE GoTo("writer", "running") /\ UNCHANGED exited
    BY <1>1, <2>1, <2>4, WriterMoves
  <2> QED
    BY <2>1, <2>2, <2>3, <2>4
<1>6. CASE Reported
  <2>1. /\ pc["writer"] = "reporting"
        /\ UNCHANGED <<queue, closed, counts, diagnostic, wake, diagnosticWake, pass, writerError, onceVars, sent, boundVars>>
        /\ \/ GoTo("writer", "running") /\ UNCHANGED exited
           \/ GoTo("writer", "done") /\ exited' = TRUE
           \/ GoTo("writer", "once") /\ exited' = TRUE
    BY <1>6 DEF Reported, Stopped
  <2>2. CASE GoTo("writer", "running") /\ UNCHANGED exited
    BY <1>1, <2>1, <2>2, WriterMoves
  <2>3. CASE GoTo("writer", "done") /\ exited' = TRUE
    BY <1>1, <2>1, <2>3, WriterMoves
  <2>4. CASE GoTo("writer", "once") /\ exited' = TRUE
    BY <1>1, <2>1, <2>4, WriterMoves
  <2> QED
    BY <2>1, <2>2, <2>3, <2>4
<1> QED
  BY <1>2, <1>3, <1>4, <1>5, <1>6

-----------------------------------------------------------------------------
(* The end of the link.                                                    *)

\* A step of a thread that ends the link, or that waits for another to.
LEMMA EndingStep ==
  ASSUME IInv, NEW t \in Threads, NEW place \in Places, GoTo(t, place),
         Shutdown \/ UNCHANGED <<queue, closed, counts, diagnostic, wake>>,
         UNCHANGED <<diagnosticWake, pass, writerError, sent, boundVars>>,
         {available', ctxDone'} \subseteq BOOLEAN,
         {linkOnce', finalOnce'} \subseteq Threads \cup {"free", "done"},
         t = "writer" => pc[t] \in {"once", "failed", "close", "flush", "window"},
         place \in {"once", "failed", "close", "flush", "window", "done", "graceful", "finals"},
         place \in {"graceful", "finals"} => t = "closer",
         place \in {"flush", "window", "graceful", "finals"} => closed',
         place = "finals" => exited,
         exited' = exited \/ (exited' = TRUE /\ t = "writer"),
         window' = window \/ (exited /\ closed /\ window' = {counts})
  PROVE  IInv'
<1>1. /\ pc'[t] = place /\ \A u \in Threads \ {t} : pc'[u] = pc[u]
      /\ pc' \in [Threads -> Places]
  BY Goes, GoesType DEF IInv
<1>2. /\ LinkType' /\ Account' /\ Order'
      /\ (closed' => queue' = <<>>) /\ (closed => closed' /\ counts' = counts)
      /\ {closed', diagnostic', wake'} \subseteq BOOLEAN
  <2>1. CASE Shutdown
    BY <2>1, ShutdownClears DEF boundVars
  <2>2. CASE UNCHANGED <<queue, closed, counts, diagnostic, wake>>
    <3>1. LinkType' /\ Account' /\ Order'
      BY <2>2, Still DEF boundVars
    <3> QED
      BY <2>2, <3>1 DEF IInv, TypeOK, Ends
  <2> QED
    BY <2>1, <2>2
<1>3. counts \in Counts /\ exited \in BOOLEAN /\ exited' \in BOOLEAN /\ (exited => exited')
  BY DEF IInv, TypeOK
<1>4. ThreadType'
  BY <1>1, <1>2, <1>3 DEF IInv, TypeOK, ThreadType, boundVars
<1>5. window' # {} => exited /\ closed
  BY DEF IInv, Ends
<1>6. \A final \in window' : final = counts'
  BY <1>2, <1>5 DEF IInv, Ends
<1>7. Ends'
  <2>1. /\ pc["writer"] \notin {"graceful", "finals"}
        /\ exited => pc["writer"] \in {"once", "failed", "close", "flush", "window", "done"}
        /\ pc["writer"] \notin {"pass", "writing", "abandon"} => pass = <<>>
        /\ pc["writer"] = "writing" => pass # <<>>
        /\ \A u \in Threads : pc[u] \in {"flush", "window", "graceful", "finals"} => closed
        /\ pc["closer"] = "finals" => exited
    BY DEF IInv, Ends
  <2>2. /\ pc'["writer"] \notin {"graceful", "finals"}
        /\ exited' => pc'["writer"] \in {"once", "failed", "close", "flush", "window", "done"}
        /\ pc'["writer"] \notin {"pass", "writing", "abandon"} => pass' = <<>>
        /\ pc'["writer"] = "writing" => pass' # <<>>
    <3>1. CASE t = "writer"
      BY <1>1, <2>1, <3>1
    <3>2. CASE t # "writer"
      BY <1>1, <1>3, <2>1, <3>2, ThreadsDiffer
    <3> QED
      BY <3>1, <3>2
  <2>3. \A u \in Threads : pc'[u] \in {"flush", "window", "graceful", "finals"} => closed'
    BY <1>1, <1>2, <2>1
  <2>4. pc'["closer"] = "finals" => exited'
    BY <1>1, <1>3, <2>1, ThreadsDiffer
  <2> QED
    BY <1>2, <1>3, <1>5, <1>6, <2>2, <2>3, <2>4 DEF Ends
<1> QED
  BY <1>2, <1>4, <1>7, TypeParts DEF IInv, TypeOK, LinkType, ThreadType, Places

\* What EndingStep asks of the threads and the flags.
LEMMA EndingFacts ==
  ASSUME IInv
  PROVE  /\ {available, ctxDone, TRUE, FALSE} \subseteq BOOLEAN
         /\ {linkOnce, finalOnce, "done"} \subseteq Threads \cup {"free", "done"}
         /\ \A t \in Threads : pc[t] \in {"flush", "window", "graceful", "finals"} => closed
         /\ {"once", "failed", "close", "flush", "window", "done", "graceful", "finals"} \subseteq Places
         /\ pc["writer"] \notin {"graceful", "finals"}
         /\ exited \in BOOLEAN
BY DEF IInv, TypeOK, Ends, Places

LEMMA ContextEndsKeeps ==
  ASSUME IInv, ContextEnds
  PROVE  IInv'
<1>1. /\ UNCHANGED <<pc, queue, closed, counts, diagnostic, wake, exited, diagnosticWake, pass, writerError>>
      /\ UNCHANGED <<linkOnce, finalOnce, available, window, sent, boundVars>>
      /\ ctxDone' = TRUE
  BY DEF ContextEnds, linkVars
<1>2. LinkType' /\ Account' /\ Order'
  BY <1>1, Still DEF boundVars
<1>3. ThreadType'
  BY <1>1 DEF IInv, TypeOK, ThreadType, Places, boundVars
<1>4. Ends'
  BY <1>1 DEF IInv, Ends
<1> QED
  BY <1>2, <1>3, <1>4, TypeParts DEF IInv, TypeOK, LinkType, ThreadType, Places

LEMMA ReadFailsKeeps ==
  ASSUME IInv, ReadFails
  PROVE  IInv'
<1>1. PICK place \in {"done", "once"} : GoTo("reader", place)
  BY DEF ReadFails
<1>2. "reader" \in Threads /\ "reader" # "writer"
  BY ThreadsDiffer
<1>3. UNCHANGED <<queue, closed, counts, diagnostic, wake, exited, diagnosticWake, pass, writerError, sent, boundVars,
                  linkOnce, finalOnce, available, ctxDone, window>>
  BY DEF ReadFails, linkVars, onceVars
<1> QED
  BY <1>1, <1>2, <1>3, EndingFacts, EndingStep

LEMMA FailKeeps ==
  ASSUME IInv, NEW t \in Threads, Fail(t)
  PROVE  IInv'
<1>1. /\ pc[t] = "once"
      /\ UNCHANGED <<diagnosticWake, pass, writerError, finalOnce, available, ctxDone, window, sent, boundVars>>
  BY DEF Fail
<1>2. CASE linkOnce' = t /\ Shutdown /\ GoTo(t, "failed") /\ UNCHANGED exited
  BY <1>1, <1>2, EndingFacts, EndingStep
<1>3. CASE Return(t) /\ UNCHANGED <<queue, closed, counts, diagnostic, wake>>
  <2>1. /\ GoTo(t, "done") /\ linkOnce' \in {"done", linkOnce}
        /\ exited' = (exited \/ t = "writer")
    BY <1>3 DEF Return
  <2>2. exited' = exited \/ (exited' = TRUE /\ t = "writer")
    BY <2>1, EndingFacts
  <2> QED
    BY <1>1, <1>3, <2>1, <2>2, EndingFacts, EndingStep
<1> QED
  BY <1>2, <1>3 DEF Fail

LEMMA RuntimeFailedKeeps ==
  ASSUME IInv, NEW t \in Threads, RuntimeFailed(t)
  PROVE  IInv'
<1>1. /\ pc[t] = "failed" /\ available' = FALSE
      /\ UNCHANGED <<queue, closed, counts, diagnostic, wake, diagnosticWake, pass, writerError,
                     finalOnce, ctxDone, window, sent, boundVars>>
  BY DEF RuntimeFailed
<1>2. CASE GoTo(t, "close") /\ UNCHANGED <<linkOnce, exited>>
  BY <1>1, <1>2, EndingFacts, EndingStep
<1>3. CASE Return(t)
  <2>1. /\ GoTo(t, "done") /\ linkOnce' \in {"done", linkOnce}
        /\ exited' = (exited \/ t = "writer")
    BY <1>3 DEF Return
  <2>2. exited' = exited \/ (exited' = TRUE /\ t = "writer")
    BY <2>1, EndingFacts
  <2> QED
    BY <1>1, <2>1, <2>2, EndingFacts, EndingStep
<1> QED
  BY <1>2, <1>3 DEF RuntimeFailed

LEMMA CloseLinkKeeps ==
  ASSUME IInv, NEW t \in Threads, CloseLink(t)
  PROVE  IInv'
<1>1. /\ pc[t] = "close" /\ Shutdown /\ GoTo(t, "flush")
      /\ UNCHANGED <<exited, diagnosticWake, pass, writerError, sent, boundVars,
                     linkOnce, finalOnce, available, ctxDone, window>>
  BY DEF CloseLink, onceVars
<1>2. closed'
  BY <1>1, ShutdownClears DEF boundVars
<1> QED
  BY <1>1, <1>2, EndingFacts, EndingStep

LEMMA FlushKeeps ==
  ASSUME IInv, NEW t \in Threads, Flush(t)
  PROVE  IInv'
<1>1. /\ pc[t] = "flush" /\ closed /\ closed'
      /\ UNCHANGED <<queue, closed, counts, diagnostic, wake, diagnosticWake, pass, writerError,
                     available, ctxDone, window, sent, boundVars>>
  BY EndingFacts DEF Flush
<1>2. CASE finalOnce' = t /\ GoTo(t, "window") /\ UNCHANGED <<linkOnce, exited>>
  BY <1>1, <1>2, EndingFacts, EndingStep
<1>3. CASE Return(t) /\ UNCHANGED finalOnce
  <2>1. /\ GoTo(t, "done") /\ linkOnce' \in {"done", linkOnce}
        /\ exited' = (exited \/ t = "writer")
    BY <1>3 DEF Return
  <2>2. exited' = exited \/ (exited' = TRUE /\ t = "writer")
    BY <2>1, EndingFacts
  <2> QED
    BY <1>1, <1>3, <2>1, <2>2, EndingFacts, EndingStep
<1> QED
  BY <1>2, <1>3 DEF Flush

LEMMA FinalWindowKeeps ==
  ASSUME IInv, NEW t \in Threads, FinalWindow(t)
  PROVE  IInv'
<1>1. /\ pc[t] = "window" /\ exited /\ closed /\ window' = {counts} /\ finalOnce' = "done"
      /\ UNCHANGED <<queue, closed, counts, diagnostic, wake, diagnosticWake, pass, writerError,
                     available, ctxDone, sent, boundVars>>
  BY EndingFacts DEF FinalWindow
<1>2. /\ GoTo(t, "done") /\ linkOnce' \in {"done", linkOnce}
      /\ exited' = (exited \/ t = "writer")
  BY DEF FinalWindow, Return
<1>3. exited' = exited \/ (exited' = TRUE /\ t = "writer")
  BY <1>2, EndingFacts
<1> QED
  BY <1>1, <1>2, <1>3, EndingFacts, EndingStep

LEMMA CloserKeeps ==
  ASSUME IInv, Close \/ WaitWriter \/ Finals
  PROVE  IInv'
<1>1. "closer" \in Threads /\ "closer" # "writer"
  BY ThreadsDiffer
<1>2. CASE Close
  <2>1. /\ Shutdown
        /\ UNCHANGED <<exited, diagnosticWake, pass, writerError, linkOnce, finalOnce, available, ctxDone,
                       window, sent, boundVars>>
    BY <1>2 DEF Close, onceVars
  <2>2. PICK place \in {"flush", "graceful"} : GoTo("closer", place)
    BY <1>2 DEF Close
  <2>3. closed'
    BY <2>1, ShutdownClears DEF boundVars
  <2> QED
    BY <1>1, <2>1, <2>2, <2>3, EndingFacts, EndingStep
<1>3. CASE WaitWriter
  <2>1. /\ pc["closer"] = "graceful" /\ closed /\ closed'
        /\ UNCHANGED <<queue, closed, counts, diagnostic, wake, exited, diagnosticWake, pass, writerError, sent, boundVars,
                       linkOnce, finalOnce, available, ctxDone, window>>
    BY <1>1, <1>3, EndingFacts DEF WaitWriter, linkVars, onceVars
  <2>2. PICK place \in {"finals", "flush"} : GoTo("closer", place) /\ (place = "finals" => exited)
    BY <1>3 DEF WaitWriter
  <2> QED
    BY <1>1, <2>1, <2>2, EndingFacts, EndingStep
<1>4. CASE Finals
  <2>1. /\ pc["closer"] = "finals" /\ closed /\ closed' /\ GoTo("closer", "flush")
        /\ UNCHANGED <<queue, closed, counts, diagnostic, wake, exited, diagnosticWake, pass, writerError, sent, boundVars,
                       linkOnce, finalOnce, available, ctxDone, window>>
    BY <1>1, <1>4, EndingFacts DEF Finals, linkVars, onceVars
  <2> QED
    BY <1>1, <2>1, EndingFacts, EndingStep
<1> QED
  BY <1>2, <1>3, <1>4

-----------------------------------------------------------------------------
(* The theorems.                                                           *)

LEMMA InitIInv == Init => IInv
<1> SUFFICES ASSUME Init
             PROVE  IInv
  OBVIOUS
<1>1. LinkType
  <2>1. counts \in Counts
    BY DEF Init, Counts
  <2>2. \A s : Held(queue, s) = 0
    BY HeldEmpty DEF Init
  <2> QED
    BY <2>1, <2>2, EmptyOrder, LimitsAssumption, BoundsAssumption DEF Init, LinkType
<1>2. ThreadType
  <2>1. pc \in [Threads -> Places]
    BY DEF Init, Places
  <2>2. heartbeats \in 0..MaxHeartbeats
    BY BoundsAssumption DEF Init
  <2> QED
    BY <2>1, <2>2 DEF Init, ThreadType
<1>3. Account
  <2> SUFFICES ASSUME NEW s \in Streams
               PROVE  counts[s].handed = Total(counts, s) + Held(queue, s) + Held(pass, s)
    BY DEF Account
  <2>1. counts[s] = [b \in Buckets |-> 0]
    BY DEF Init
  <2>2. counts[s].handed = 0 /\ Total(counts, s) = 0
    BY <2>1 DEF Total, Buckets
  <2>3. Held(queue, s) = 0 /\ Held(pass, s) = 0
    BY HeldEmpty DEF Init
  <2> QED
    BY <2>2, <2>3
<1>4. Order
  BY EmptyOrder DEF Init, Order
<1>5. Ends
  BY ThreadsDiffer DEF Init, Ends
<1> QED
  BY <1>1, <1>2, <1>3, <1>4, <1>5, TypeParts DEF IInv

LEMMA StepIInv == IInv /\ [Next]_vars => IInv'
<1> SUFFICES ASSUME IInv, [Next]_vars
             PROVE  IInv'
  OBVIOUS
<1>1. ASSUME NEW t \in Servers, QueueControl(t) \/ Refused(t) \/ \E s \in Streams : QueueData(t, s)
      PROVE  IInv'
  BY <1>1, QueueControlKeeps, RefusedKeeps, QueueDataKeeps
<1>2. CASE Heartbeat
  BY <1>2, HeartbeatKeeps
<1>3. CASE WriterWoken \/ WriterTimer
  <2>1. pc["writer"] = "running" /\ wake' \in BOOLEAN /\ Take
    BY <1>3 DEF WriterWoken, WriterTimer, IInv, TypeOK
  <2> QED
    BY <2>1, TakeKeeps
<1>4. CASE WriterReturns \/ NextWrite \/ WriteFails \/ WriteDiagnostic \/ Reported
  BY <1>4, WriterMovingKeeps
<1>5. CASE Written
  BY <1>5, WrittenKeeps
<1>6. CASE Abandon
  BY <1>6, AbandonKeeps
<1>7. CASE ReadFails
  BY <1>7, ReadFailsKeeps
<1>8. ASSUME NEW t \in Threads, Ending(t)
      PROVE  IInv'
  BY <1>8, FailKeeps, RuntimeFailedKeeps, CloseLinkKeeps, FlushKeeps, FinalWindowKeeps DEF Ending
<1>9. CASE Close \/ WaitWriter \/ Finals
  BY <1>9, CloserKeeps
<1>10. CASE ContextEnds
  BY <1>10, ContextEndsKeeps
<1>11. CASE UNCHANGED vars
  <2>1. LinkType' /\ Account' /\ Order'
    BY <1>11, Still DEF vars, linkVars, boundVars
  <2>2. ThreadType'
    BY <1>11 DEF IInv, TypeOK, ThreadType, Places, vars, linkVars, onceVars, boundVars
  <2>3. Ends'
    BY <1>11 DEF IInv, Ends, vars, linkVars, onceVars
  <2> QED
    BY <2>1, <2>2, <2>3, TypeParts DEF IInv, TypeOK, LinkType, ThreadType, Places
<1> QED
  BY <1>1, <1>2, <1>3, <1>4, <1>5, <1>6, <1>7, <1>8, <1>9, <1>10, <1>11 DEF Next, Writing

\* So it always holds.
LEMMA AlwaysIInv == Spec => []IInv
<1> QED
  BY InitIInv, StepIInv, PTL DEF Spec

\* The link's variables keep their types, and its queue its bounds
\* (runtime_link.go:221, maxQueuedControls, maxQueuedInputs, maxQueuedActions).
THEOREM LinkTypeCorrect == Spec => []TypeOK
<1>1. IInv => TypeOK
  BY DEF IInv
<1> QED
  BY <1>1, AlwaysIInv, PTL

\* Every data message handed to the link is in exactly one bucket or still held, and the last
\* window misses none (I0 of runtime_link.go:304).
THEOREM AccountedForever == Spec => []Accounted
<1>1. IInv => Accounted
  <2> SUFFICES ASSUME IInv
               PROVE  Accounted
    OBVIOUS
  <2>1. ASSUME NEW final \in window, NEW s \in Streams
        PROVE  final = counts /\ final[s].handed = Total(final, s)
    <3>1. final = counts /\ queue = <<>> /\ pass = <<>>
      BY <2>1 DEF IInv, Ends
    <3>2. Held(queue, s) = 0 /\ Held(pass, s) = 0
      BY <3>1, HeldEmpty
    <3>3. counts[s].handed = Total(counts, s) + Held(queue, s) + Held(pass, s)
      BY DEF IInv, Account
    <3>4. Total(counts, s) \in Nat
      BY TotalType DEF IInv, TypeOK
    <3> QED
      BY <3>1, <3>2, <3>3, <3>4
  <2>2. \A final \in window : final = counts
    BY DEF IInv, Ends
  <2> QED
    BY <2>1, <2>2 DEF Accounted, IInv, Account
<1> QED
  BY <1>1, AlwaysIInv, PTL

\* What the Match receives is in the order in which it was handed over (runtime_link.go:69).
THEOREM AlwaysInOrder == Spec => []SentInOrder
<1>1. IInv => SentInOrder
  BY DEF IInv, Order, Ascending, Before, SentInOrder
<1> QED
  BY <1>1, AlwaysIInv, PTL

\* The final drop reports have the connection to themselves (runtime_link.go:765).
THEOREM FinalsHaveTheLink == Spec => []FinalsAlone
<1>1. IInv => FinalsAlone
  BY DEF IInv, Ends, FinalsAlone
<1> QED
  BY <1>1, AlwaysIInv, PTL

=============================================================================
