------------------------- MODULE TraceBufferProofs -------------------------
(***************************************************************************)
(* Proofs about TraceBuffer, for every event set, capacity and bound.      *)
(*                                                                         *)
(* The argument rests on one fact the properties do not mention: a stream  *)
(* in good state has refused nothing yet.  It makes the queue adjacent to  *)
(* the file whenever lines can still be accepted, so that draining extends *)
(* the file by exactly the events that follow it in issued.                *)
(***************************************************************************)
EXTENDS TraceBuffer, SequenceTheorems, TLAPS

GoodRefusedNothing == stream = "good" => stats.dropped_event_count = 0

QueueIsShort ==
  /\ Len(pending) < capacity_
  /\ stats.max_queue_depth <= capacity_

IInv ==
  /\ TypeOK
  /\ Conservation
  /\ FileIsPrefix
  /\ GoodRefusedNothing
  /\ QueueIsShort
  /\ ClosedIsComplete

-----------------------------------------------------------------------------
(* Lemmas about slices of a sequence. *)

\* The capacity in use is positive.
LEMMA CapacityPositive == capacity_ \in Nat \ {0}
  BY TraceBufferAssumption DEF capacity_

\* A sequence is a slice of another exactly when it agrees with it
\* element by element.
LEMMA IsSlice ==
  ASSUME NEW S, NEW s \in Seq(S), NEW t \in Seq(S), NEW m \in Nat,
         m + Len(s) <= Len(t)
  PROVE  s = SubSeq(t, m + 1, m + Len(s))
           <=> \A i \in 1 .. Len(s) : s[i] = t[m + i]
<1> DEFINE u == SubSeq(t, m + 1, m + Len(s))
<1>1. \A i \in m + 1 .. m + Len(s) : t[i] \in S
  BY ElementOfSeq, LenProperties
<1>2. /\ u \in Seq(S)
      /\ Len(u) = Len(s)
      /\ \A i \in 1 .. Len(s) : u[i] = t[m + i]
  <2>1. Len(s) \in Nat
    BY LenProperties
  <2>2. m + 1 \in Int /\ m + Len(s) \in Int
    BY <2>1
  <2>3. /\ u \in Seq(S)
        /\ Len(u) = IF m + 1 <= m + Len(s) THEN m + Len(s) - (m + 1) + 1 ELSE 0
        /\ \A i \in 1 .. m + Len(s) - (m + 1) + 1 : u[i] = t[m + 1 + i - 1]
    BY <1>1, <2>2, SubSeqProperties
  <2>4. QED
    BY <2>1, <2>3
<1>3. ASSUME \A i \in 1 .. Len(s) : s[i] = t[m + i]
      PROVE  s = u
  BY <1>2, <1>3, SeqEqual
<1>4. QED
  BY <1>2, <1>3

\* A sequence is the first part of another when they agree where it is defined.
LEMMA FirstOfElements ==
  ASSUME NEW s \in Seq(Event), NEW t \in Seq(Event)
  PROVE  FirstOf(s, t) <=> /\ Len(s) <= Len(t)
                           /\ \A i \in 1 .. Len(s) : s[i] = t[i]
<1>1. Len(s) \in Nat /\ Len(t) \in Nat
  BY LenProperties
<1>2. ASSUME Len(s) <= Len(t)
      PROVE  s = SubSeq(t, 1, Len(s)) <=> \A i \in 1 .. Len(s) : s[i] = t[i]
  <2>1. PICK m \in Nat : m = 0 /\ m + Len(s) <= Len(t)
    BY <1>1, <1>2
  <2>2. s = SubSeq(t, m + 1, m + Len(s)) <=> \A i \in 1 .. Len(s) : s[i] = t[m + i]
    BY <2>1, IsSlice
  <2>3. m + 1 = 1 /\ m + Len(s) = Len(s) /\ \A i \in 1 .. Len(s) : m + i = i
    BY <1>1, <2>1
  <2>4. QED
    BY <2>2, <2>3
<1>3. QED
  BY <1>2 DEF FirstOf

\* A sequence is the last part of another when they agree after a shift.
LEMMA LastOfElements ==
  ASSUME NEW s \in Seq(Event), NEW t \in Seq(Event)
  PROVE  LastOf(s, t) <=> /\ Len(s) <= Len(t)
                          /\ \A i \in 1 .. Len(s) : s[i] = t[Len(t) - Len(s) + i]
<1>1. Len(s) \in Nat /\ Len(t) \in Nat
  BY LenProperties
<1>2. ASSUME Len(s) <= Len(t)
      PROVE  s = SubSeq(t, Len(t) - Len(s) + 1, Len(t))
               <=> \A i \in 1 .. Len(s) : s[i] = t[Len(t) - Len(s) + i]
  <2> DEFINE m == Len(t) - Len(s)
  <2>1. m \in Nat /\ m = Len(t) - Len(s) /\ m + Len(s) = Len(t)
    BY <1>1, <1>2
  <2> HIDE DEF m
  <2>2. m + Len(s) <= Len(t)
    BY <1>1, <2>1
  <2>3. s = SubSeq(t, m + 1, m + Len(s)) <=> \A i \in 1 .. Len(s) : s[i] = t[m + i]
    BY <2>1, <2>2, IsSlice
  <2>4. QED
    BY <2>1, <2>3, Zenon
<1>3. QED
  BY <1>2 DEF LastOf

\* Nothing is the last part of every sequence.
LEMMA NothingIsLast ==
  ASSUME NEW t \in Seq(Event)
  PROVE  LastOf(<< >>, t)
<1>1. << >> \in Seq(Event) /\ Len(<< >>) = 0 /\ Len(t) \in Nat
  BY EmptySeq, LenProperties
<1>2. SubSeq(t, Len(t) + 1, Len(t)) = << >>
  BY <1>1, SubSeqEmpty
<1>3. Len(t) - 0 + 1 = Len(t) + 1 /\ 0 <= Len(t)
  BY <1>1
<1>4. QED
  BY <1>1, <1>2, <1>3 DEF LastOf

\* Nothing is the first part of every sequence.
LEMMA NothingIsFirst ==
  ASSUME NEW t \in Seq(Event)
  PROVE  FirstOf(<< >>, t)
<1>1. Len(<< >>) = 0 /\ Len(t) \in Nat
  BY EmptySeq, LenProperties
<1>2. SubSeq(t, 1, 0) = << >>
  BY SubSeqEmpty
<1>3. QED
  BY <1>1, <1>2 DEF FirstOf

\* Draining the first k queued events extends a prefix of the issued events
\* to a longer one, provided the queue is adjacent to the prefix.
LEMMA DrainExtendsPrefix ==
  ASSUME NEW f \in Seq(Event), NEW q \in Seq(Event), NEW iss \in Seq(Event),
         NEW k \in 0 .. Len(q), FirstOf(f, iss), LastOf(q, iss),
         k = 0 \/ Len(f) + Len(q) = Len(iss)
  PROVE  /\ f \o SubSeq(q, 1, k) \in Seq(Event)
         /\ Len(f \o SubSeq(q, 1, k)) = Len(f) + k
         /\ FirstOf(f \o SubSeq(q, 1, k), iss)
<1> DEFINE h == SubSeq(q, 1, k)
           g == f \o h
<1>1. Len(f) \in Nat /\ Len(q) \in Nat /\ Len(iss) \in Nat /\ k \in Nat
  BY LenProperties
<1>2. \A i \in 1 .. k : q[i] \in Event
  BY <1>1, ElementOfSeq
<1>3. /\ h \in Seq(Event)
      /\ Len(h) = k
      /\ \A i \in 1 .. k : h[i] = q[i]
  <2>1. /\ h \in Seq(Event)
        /\ Len(h) = IF 1 <= k THEN k - 1 + 1 ELSE 0
        /\ \A i \in 1 .. k - 1 + 1 : h[i] = q[1 + i - 1]
    BY <1>1, <1>2, SubSeqProperties
  <2>2. QED
    BY <1>1, <2>1
<1>4. /\ g \in Seq(Event)
      /\ Len(g) = Len(f) + k
      /\ \A i \in 1 .. Len(f) + k : g[i] = IF i <= Len(f) THEN f[i] ELSE h[i - Len(f)]
  BY <1>3, ConcatProperties
<1>5. /\ Len(f) <= Len(iss)
      /\ \A i \in 1 .. Len(f) : f[i] = iss[i]
  BY FirstOfElements
<1>6. /\ Len(q) <= Len(iss)
      /\ \A i \in 1 .. Len(q) : q[i] = iss[Len(iss) - Len(q) + i]
  BY LastOfElements
<1>7. Len(g) <= Len(iss)
  BY <1>1, <1>4, <1>5
<1>8. ASSUME NEW i \in 1 .. Len(g)
      PROVE  g[i] = iss[i]
  <2>1. CASE i <= Len(f)
    BY <1>1, <1>4, <1>5, <2>1
  <2>2. CASE i > Len(f)
    <3>1. i - Len(f) \in 1 .. k /\ k > 0
      BY <1>1, <1>4, <2>2
    <3>2. g[i] = q[i - Len(f)]
      BY <1>1, <1>3, <1>4, <2>2, <3>1
    <3>3. Len(iss) - Len(q) = Len(f) /\ i - Len(f) \in 1 .. Len(q)
      BY <1>1, <3>1
    <3>4. q[i - Len(f)] = iss[Len(f) + (i - Len(f))]
      BY <1>6, <3>3
    <3>5. QED
      BY <1>1, <3>2, <3>4
  <2>3. QED
    BY <1>1, <1>4, <2>1, <2>2
<1>9. FirstOf(g, iss)
  <2> HIDE DEF g
  <2>1. QED
    BY <1>4, <1>7, <1>8, FirstOfElements
<1>10. QED
  BY <1>4, <1>9

\* Appending one event to the history and to the queue keeps the file the
\* first part and the queue the last part of the history.
LEMMA AppendKeepsSlices ==
  ASSUME NEW f \in Seq(Event), NEW q \in Seq(Event), NEW iss \in Seq(Event),
         NEW e \in Event, FirstOf(f, iss), LastOf(q, iss)
  PROVE  /\ Append(iss, e) \in Seq(Event)
         /\ Len(Append(iss, e)) = Len(iss) + 1
         /\ Append(q, e) \in Seq(Event)
         /\ Len(Append(q, e)) = Len(q) + 1
         /\ FirstOf(f, Append(iss, e))
         /\ LastOf(Append(q, e), Append(iss, e))
<1> DEFINE iss2 == Append(iss, e)
           q2 == Append(q, e)
<1>1. Len(f) \in Nat /\ Len(q) \in Nat /\ Len(iss) \in Nat
  BY LenProperties
<1>2. /\ iss2 \in Seq(Event)
      /\ Len(iss2) = Len(iss) + 1
      /\ \A i \in 1 .. Len(iss) : iss2[i] = iss[i]
      /\ iss2[Len(iss) + 1] = e
  BY AppendProperties
<1>3. /\ q2 \in Seq(Event)
      /\ Len(q2) = Len(q) + 1
      /\ \A i \in 1 .. Len(q) : q2[i] = q[i]
      /\ q2[Len(q) + 1] = e
  BY AppendProperties
<1>4. /\ Len(f) <= Len(iss)
      /\ \A i \in 1 .. Len(f) : f[i] = iss[i]
  BY FirstOfElements
<1>5. /\ Len(q) <= Len(iss)
      /\ \A i \in 1 .. Len(q) : q[i] = iss[Len(iss) - Len(q) + i]
  BY LastOfElements
<1> HIDE DEF iss2, q2
<1>6. FirstOf(f, iss2)
  <2>1. \A i \in 1 .. Len(f) : f[i] = iss2[i]
    BY <1>1, <1>2, <1>4
  <2>2. Len(f) <= Len(iss2)
    BY <1>1, <1>2, <1>4
  <2>3. QED
    BY <1>2, <2>1, <2>2, FirstOfElements
<1>7. ASSUME NEW i \in 1 .. Len(q2)
      PROVE  q2[i] = iss2[Len(iss2) - Len(q2) + i]
  <2>1. Len(iss2) - Len(q2) = Len(iss) - Len(q)
    BY <1>1, <1>2, <1>3
  <2>2. CASE i \in 1 .. Len(q)
    <3>1. Len(iss) - Len(q) + i \in 1 .. Len(iss)
      BY <1>1, <1>5, <2>2
    <3>2. QED
      BY <1>2, <1>3, <1>5, <2>1, <2>2, <3>1
  <2>3. CASE i = Len(q) + 1
    <3>1. Len(iss) - Len(q) + i = Len(iss) + 1
      BY <1>1, <2>3
    <3>2. QED
      BY <1>2, <1>3, <2>1, <2>3, <3>1
  <2>4. QED
    BY <1>1, <1>3, <2>2, <2>3
<1>8. LastOf(q2, iss2)
  <2>1. Len(q2) <= Len(iss2)
    BY <1>1, <1>2, <1>3, <1>5
  <2>2. QED
    BY <1>2, <1>3, <1>7, <2>1, LastOfElements
<1>9. QED
  BY <1>2, <1>3, <1>6, <1>8 DEF iss2, q2

-----------------------------------------------------------------------------
(* Lemmas about the counters. *)

\* The counters are natural numbers.
LEMMA StatsFields ==
  ASSUME NEW s \in TraceStats
  PROVE  /\ s.event_count \in Nat /\ s.flush_count \in Nat
         /\ s.dropped_event_count \in Nat /\ s.max_queue_depth \in Nat
  BY DEF TraceStats

\* What a drain that accepts k of n events makes of the counters.
LEMMA CountedStats ==
  ASSUME NEW s \in TraceStats, NEW n \in Nat, NEW k \in 0 .. n
  PROVE  /\ Counted(s, n, k) \in TraceStats
         /\ Counted(s, n, k).event_count = s.event_count + k
         /\ Counted(s, n, k).dropped_event_count = s.dropped_event_count + (n - k)
         /\ Counted(s, n, k).max_queue_depth = s.max_queue_depth
<1>1. /\ s.event_count + k \in Nat /\ s.flush_count + 1 \in Nat
      /\ s.dropped_event_count + (n - k) \in Nat /\ s.max_queue_depth \in Nat
  BY StatsFields
<1>2. QED
  BY <1>1 DEF Counted, TraceStats

\* Queueing only touches the depth, which stays below any bound of n and of
\* the depth so far.
LEMMA DeeperStats ==
  ASSUME NEW s \in TraceStats, NEW n \in Nat, NEW b \in Nat,
         n <= b, s.max_queue_depth <= b
  PROVE  /\ Deeper(s, n) \in TraceStats
         /\ Deeper(s, n).event_count = s.event_count
         /\ Deeper(s, n).dropped_event_count = s.dropped_event_count
         /\ Deeper(s, n).max_queue_depth <= b
<1> DEFINE d == IF n > s.max_queue_depth THEN n ELSE s.max_queue_depth
<1>1. d \in Nat /\ d <= b
  BY StatsFields
<1> HIDE DEF d
<1>2. Deeper(s, n) = [event_count |-> s.event_count,
                      flush_count |-> s.flush_count,
                      dropped_event_count |-> s.dropped_event_count,
                      max_queue_depth |-> d]
  BY DEF Deeper, TraceStats, d
<1>3. QED
  BY <1>1, <1>2, StatsFields DEF TraceStats

-----------------------------------------------------------------------------
(* The invariant. *)

\* A queue ready to be drained: with the counters s it accounts, together
\* with the file, for every event of the history.
Ready(q, s) ==
  /\ q \in Seq(Event)
  /\ s \in TraceStats
  /\ s.event_count = Len(file)
  /\ Len(issued') = s.event_count + s.dropped_event_count + Len(q)
  /\ FirstOf(file, issued')
  /\ LastOf(q, issued')
  /\ stream = "good" => s.dropped_event_count = 0
  /\ s.max_queue_depth <= capacity_

\* Draining a ready queue, as Write, Flush and Close do, re-establishes every
\* part of the invariant that does not mention the stream and the disk.
LEMMA DrainStep ==
  ASSUME TypeOK, issued' \in Seq(Event),
         NEW q, NEW s, Ready(q, s),
         NEW k \in Accepted(q), Drain(q, s, k)
  PROVE  /\ k \in Nat
         /\ pending' = << >>
         /\ file' \in Seq(Event)
         /\ Len(file') = Len(file) + k
         /\ stats' \in TraceStats
         /\ Conservation'
         /\ FileIsPrefix'
         /\ stats'.max_queue_depth <= capacity_
         /\ StreamAfter(q, k) = "good" => stats'.dropped_event_count = 0
         /\ stream # "good" => k = 0
<1>1. /\ q \in Seq(Event) /\ file \in Seq(Event)
      /\ Len(q) \in Nat /\ Len(file) \in Nat /\ Len(issued') \in Nat
  BY LenProperties DEF Ready, TypeOK
<1>2. k \in 0 .. Len(q) /\ (stream # "good" => k = 0)
  BY <1>1 DEF Accepted
<1>3. /\ s \in TraceStats
      /\ s.event_count \in Nat /\ s.dropped_event_count \in Nat
      /\ s.event_count = Len(file)
      /\ Len(issued') = s.event_count + s.dropped_event_count + Len(q)
      /\ stream = "good" => s.dropped_event_count = 0
      /\ s.max_queue_depth <= capacity_
  BY StatsFields DEF Ready
<1>4. FirstOf(file, issued') /\ LastOf(q, issued')
  BY DEF Ready
<1>5. k = 0 \/ Len(file) + Len(q) = Len(issued')
  BY <1>1, <1>2, <1>3
<1>6. /\ file' \in Seq(Event)
      /\ Len(file') = Len(file) + k
      /\ FirstOf(file', issued')
  <2>1. file' = file \o SubSeq(q, 1, k)
    BY DEF Drain
  <2>2. QED
    BY <1>1, <1>2, <1>4, <1>5, <2>1, DrainExtendsPrefix
<1>7. pending' = << >> /\ Len(pending') = 0
  BY DEF Drain
<1>8. /\ stats' \in TraceStats
      /\ stats'.event_count = s.event_count + k
      /\ stats'.dropped_event_count = s.dropped_event_count + (Len(q) - k)
      /\ stats'.max_queue_depth = s.max_queue_depth
  <2>1. CASE q = << >>
    <3>1. Len(q) = 0 /\ k = 0
      BY <1>2, <2>1, EmptySeq
    <3>2. stats' = s
      BY <2>1 DEF Drain
    <3>3. QED
      BY <1>3, <3>1, <3>2
  <2>2. CASE q # << >>
    <3>1. stats' = Counted(s, Len(q), k)
      BY <2>2 DEF Drain
    <3>2. QED
      BY <1>1, <1>2, <1>3, <3>1, CountedStats
  <2>3. QED
    BY <2>1, <2>2
<1>9. Conservation'
  <2>1. stats'.event_count = Len(file')
    BY <1>3, <1>6, <1>8
  <2>2. stats'.event_count + stats'.dropped_event_count + 0
          = (s.event_count + k) + (s.dropped_event_count + (Len(q) - k))
    BY <1>1, <1>2, <1>3, <1>8
  <2>3. Len(issued') = stats'.event_count + stats'.dropped_event_count + Len(pending')
    <3>1. Len(issued') = (s.event_count + k) + (s.dropped_event_count + (Len(q) - k))
      BY <1>1, <1>2, <1>3
    <3>2. QED
      BY <1>7, <2>2, <3>1
  <2>4. QED
    BY <2>1, <2>3 DEF Conservation
<1>10. FileIsPrefix'
  <2>1. LastOf(<< >>, issued')
    BY NothingIsLast
  <2>2. QED
    BY <1>6, <1>7, <2>1 DEF FileIsPrefix
<1>11. StreamAfter(q, k) = "good" => stats'.dropped_event_count = 0
  <2>1. StreamAfter(q, k) = "good" => stream = "good" /\ k = Len(q)
    BY <1>1, <1>2 DEF StreamAfter
  <2>2. QED
    BY <1>1, <1>3, <1>8, <2>1
<1>12. QED
  BY <1>2, <1>3, <1>6, <1>7, <1>8, <1>9, <1>10, <1>11

\* Between calls the queue itself is ready.
LEMMA PendingIsReady ==
  ASSUME IInv, issued' = issued
  PROVE  Ready(pending, stats) /\ issued' \in Seq(Event)
<1>1. issued' \in Seq(Event)
  BY DEF IInv, TypeOK
<1>2. pending \in Seq(Event) /\ stats \in TraceStats
  BY DEF IInv, TypeOK
<1>3. /\ stats.event_count = Len(file)
      /\ Len(issued') = stats.event_count + stats.dropped_event_count + Len(pending)
  BY DEF IInv, Conservation
<1>4. FirstOf(file, issued') /\ LastOf(pending, issued')
  BY DEF IInv, FileIsPrefix
<1>5. /\ stream = "good" => stats.dropped_event_count = 0
      /\ stats.max_queue_depth <= capacity_
  BY DEF IInv, GoodRefusedNothing, QueueIsShort
<1>6. QED
  BY <1>1, <1>2, <1>3, <1>4, <1>5 DEF Ready

\* The queue with one more event is ready when that event is the newest one.
LEMMA EnqueuedIsReady ==
  ASSUME IInv, NEW e \in Event, issued' = Append(issued, e)
  PROVE  /\ Append(pending, e) \in Seq(Event)
         /\ Len(Append(pending, e)) = Len(pending) + 1
         /\ Len(pending) \in Nat
         /\ issued' \in Seq(Event) /\ Len(issued') = Len(issued) + 1
         /\ Ready(Append(pending, e), Deeper(stats, Len(Append(pending, e))))
<1>1. /\ pending \in Seq(Event) /\ file \in Seq(Event) /\ issued \in Seq(Event)
      /\ Len(pending) \in Nat /\ Len(file) \in Nat /\ Len(issued) \in Nat
      /\ stats \in TraceStats
  BY LenProperties DEF IInv, TypeOK
<1>2. FirstOf(file, issued) /\ LastOf(pending, issued)
  BY DEF IInv, FileIsPrefix
<1>3. /\ Append(issued, e) \in Seq(Event)
      /\ Len(Append(issued, e)) = Len(issued) + 1
      /\ Append(pending, e) \in Seq(Event)
      /\ Len(Append(pending, e)) = Len(pending) + 1
      /\ FirstOf(file, Append(issued, e))
      /\ LastOf(Append(pending, e), Append(issued, e))
  BY <1>1, <1>2, AppendKeepsSlices
<1> DEFINE q == Append(pending, e)
<1>4. /\ issued' \in Seq(Event) /\ Len(issued') = Len(issued) + 1
      /\ q \in Seq(Event) /\ Len(q) = Len(pending) + 1
      /\ FirstOf(file, issued')
      /\ LastOf(q, issued')
  <2>1. issued' = Append(issued, e) /\ q = Append(pending, e)
    OBVIOUS
  <2> HIDE DEF q
  <2>2. QED
    BY <1>3, <2>1, Zenon
<1> HIDE DEF q
<1>5. /\ stats.event_count = Len(file)
      /\ Len(issued) = stats.event_count + stats.dropped_event_count + Len(pending)
      /\ stats.event_count \in Nat /\ stats.dropped_event_count \in Nat
  BY <1>1, StatsFields DEF IInv, Conservation
<1>6. /\ Deeper(stats, Len(q)) \in TraceStats
      /\ Deeper(stats, Len(q)).event_count = stats.event_count
      /\ Deeper(stats, Len(q)).dropped_event_count = stats.dropped_event_count
      /\ Deeper(stats, Len(q)).max_queue_depth <= capacity_
  <2>1. /\ Len(q) \in Nat /\ Len(q) <= capacity_ /\ capacity_ \in Nat
        /\ stats.max_queue_depth <= capacity_
    BY <1>1, <1>4, CapacityPositive DEF IInv, QueueIsShort
  <2>2. QED
    BY <1>1, <2>1, DeeperStats
<1>7. Len(issued') = Deeper(stats, Len(q)).event_count
                       + Deeper(stats, Len(q)).dropped_event_count + Len(q)
  <2>1. Len(issued') = Len(issued) + 1 /\ Len(q) = Len(pending) + 1
    BY <1>4
  <2>2. QED
    BY <1>1, <1>5, <1>6, <2>1
<1>8. stream = "good" => Deeper(stats, Len(q)).dropped_event_count = 0
  BY <1>6 DEF IInv, GoodRefusedNothing
<1>9. Ready(q, Deeper(stats, Len(q)))
  BY <1>4, <1>5, <1>6, <1>7, <1>8 DEF Ready
<1>10. QED
  BY <1>1, <1>4, <1>9 DEF q

\* The disk part of the invariant after a drain that leaves the stream open.
LEMMA SpillStep ==
  ASSUME IInv, NEW q, NEW k \in Nat, Len(file') = Len(file) + k,
         stats'.event_count = Len(file'),
         stream # "good" => k = 0,
         stream' = StreamAfter(q, k), device' = device, Spill
  PROVE  onDisk' \in Nat /\ stream' \in StreamState /\ ClosedIsComplete'
<1>1. /\ onDisk \in Nat /\ Len(file) \in Nat /\ stream \in StreamState
      /\ onDisk <= Len(file)
      /\ stream = "closed" /\ device = "ok" => onDisk = Len(file)
  BY LenProperties DEF IInv, TypeOK, ClosedIsComplete, Conservation
<1>2. stream' \in StreamState /\ (stream' = "closed" => stream = "closed")
  BY <1>1 DEF StreamAfter, StreamState
<1>3. onDisk' \in Nat /\ onDisk' <= Len(file')
  BY <1>1 DEF Spill
<1>4. ASSUME stream' = "closed", device' = "ok"
      PROVE  onDisk' = Len(file')
  <2>1. k = 0 /\ onDisk = Len(file) /\ Len(file') = Len(file)
    BY <1>1, <1>2, <1>4
  <2>2. QED
    BY <1>1, <1>4, <2>1 DEF Spill
<1>5. QED
  BY <1>2, <1>3, <1>4 DEF ClosedIsComplete

\* What remains of the invariant once the queue is drained.
LEMMA EmptyQueueStep ==
  ASSUME IInv, issued' \in Seq(Event), device' \in {"ok", "full"},
         pending' = << >>, file' \in Seq(Event), stats' \in TraceStats,
         Conservation', FileIsPrefix', stats'.max_queue_depth <= capacity_,
         stream' = "good" => stats'.dropped_event_count = 0,
         onDisk' \in Nat, stream' \in StreamState, ClosedIsComplete'
  PROVE  IInv'
<1>1. TypeOK'
  BY EmptySeq DEF TypeOK
<1>2. QueueIsShort'
  <2>1. Len(pending') = 0
    OBVIOUS
  <2>2. QED
    BY <2>1, CapacityPositive DEF QueueIsShort, capacity_
<1>3. GoodRefusedNothing'
  BY DEF GoodRefusedNothing
<1>4. QED
  BY <1>1, <1>2, <1>3 DEF IInv

\* FlushPending on a ready queue re-establishes the invariant.
LEMMA FlushStep ==
  ASSUME IInv, issued' \in Seq(Event), device' = device,
         NEW q, NEW s, Ready(q, s), FlushPending(q, s)
  PROVE  IInv'
<1>1. PICK k \in Accepted(q) :
        Drain(q, s, k) /\ stream' = StreamAfter(q, k) /\ Spill
  BY DEF FlushPending
<1>2. TypeOK /\ device' \in {"ok", "full"}
  BY DEF IInv, TypeOK
<1>3. /\ k \in Nat
      /\ pending' = << >>
      /\ file' \in Seq(Event)
      /\ Len(file') = Len(file) + k
      /\ stats' \in TraceStats
      /\ Conservation'
      /\ FileIsPrefix'
      /\ stats'.max_queue_depth <= capacity_
      /\ StreamAfter(q, k) = "good" => stats'.dropped_event_count = 0
      /\ stream # "good" => k = 0
  BY <1>1, <1>2, DrainStep
<1>4. stats'.event_count = Len(file')
  BY <1>3 DEF Conservation
<1>5. onDisk' \in Nat /\ stream' \in StreamState /\ ClosedIsComplete'
  BY <1>1, <1>3, <1>4, SpillStep
<1>6. stream' = "good" => stats'.dropped_event_count = 0
  BY <1>1, <1>3
<1>7. QED
  BY <1>2, <1>3, <1>5, <1>6, EmptyQueueStep

-----------------------------------------------------------------------------
(* Initial states and steps. *)

\* A freshly constructed writer satisfies the invariant.
LEMMA FreshInv == Fresh => IInv
<1> SUFFICES ASSUME Fresh
             PROVE  IInv
  OBVIOUS
<1>1. << >> \in Seq(Event) /\ Len(<< >>) = 0
  BY EmptySeq
<1>2. stats \in TraceStats /\ stats.event_count = 0
      /\ stats.dropped_event_count = 0 /\ stats.max_queue_depth = 0
  BY DEF Fresh, ZeroStats, TraceStats
<1>3. TypeOK
  BY <1>1, <1>2 DEF TypeOK, Fresh, StreamState
<1>4. Conservation
  BY <1>1, <1>2 DEF Conservation, Fresh
<1>5. FileIsPrefix
  <2>1. FirstOf(<< >>, << >>)
    BY <1>1, NothingIsFirst
  <2>2. LastOf(<< >>, << >>)
    BY <1>1, NothingIsLast
  <2>3. QED
    BY <2>1, <2>2 DEF FileIsPrefix, Fresh
<1>6. GoodRefusedNothing /\ ClosedIsComplete
  BY <1>2 DEF GoodRefusedNothing, ClosedIsComplete, Fresh
<1>7. QueueIsShort
  BY <1>1, <1>2, CapacityPositive DEF QueueIsShort, Fresh, capacity_
<1>8. QED
  BY <1>3, <1>4, <1>5, <1>6, <1>7 DEF IInv

\* Write keeps the invariant, whether it drains the queue or not.
LEMMA WriteStep ==
  ASSUME IInv, NEW e \in Event, Write(e)
  PROVE  IInv'
<1> DEFINE q == Append(pending, e)
<1>1. issued' = Append(issued, e) /\ device' = device
  BY DEF Write
<1>2. /\ q \in Seq(Event) /\ Len(q) = Len(pending) + 1 /\ Len(pending) \in Nat
      /\ issued' \in Seq(Event)
      /\ Ready(q, Deeper(stats, Len(q)))
  BY <1>1, EnqueuedIsReady
<1>3. \/ /\ Len(q) < capacity_
         /\ pending' = q
         /\ stats' = Deeper(stats, Len(q))
         /\ UNCHANGED <<stream, file, onDisk>>
      \/ FlushPending(q, Deeper(stats, Len(q)))
  BY <1>2, CapacityPositive DEF Write, Full
<1> HIDE DEF q
<1>4. CASE FlushPending(q, Deeper(stats, Len(q)))
  BY <1>1, <1>2, <1>4, FlushStep
<1>5. CASE /\ Len(q) < capacity_
           /\ pending' = q
           /\ stats' = Deeper(stats, Len(q))
           /\ UNCHANGED <<stream, file, onDisk>>
  <2>1. /\ stats' \in TraceStats
        /\ stats'.event_count = Len(file')
        /\ Len(issued') = stats'.event_count + stats'.dropped_event_count + Len(pending')
        /\ FirstOf(file', issued') /\ LastOf(pending', issued')
        /\ stream' = "good" => stats'.dropped_event_count = 0
        /\ stats'.max_queue_depth <= capacity_
    BY <1>2, <1>5 DEF Ready
  <2>2. TypeOK'
    BY <1>1, <1>2, <1>5, <2>1 DEF IInv, TypeOK
  <2>3. Conservation' /\ FileIsPrefix' /\ GoodRefusedNothing'
    BY <2>1 DEF Conservation, FileIsPrefix, GoodRefusedNothing
  <2>4. QueueIsShort'
    BY <1>5, <2>1 DEF QueueIsShort, capacity_
  <2>5. ClosedIsComplete'
    <3>1. /\ onDisk <= Len(file)
          /\ stream = "closed" /\ device = "ok" => onDisk = Len(file)
      BY DEF IInv, ClosedIsComplete, Conservation
    <3>2. QED
      BY <1>1, <1>5, <2>1, <3>1 DEF ClosedIsComplete
  <2>6. QED
    BY <2>2, <2>3, <2>4, <2>5 DEF IInv
<1>6. QED
  BY <1>3, <1>4, <1>5

\* Close keeps the invariant: the stream ends closed, with everything on disk
\* if the device still takes data.
LEMMA CloseStep ==
  ASSUME IInv, Close
  PROVE  IInv'
<1>1. PICK k \in Accepted(pending) : Drain(pending, stats, k)
  BY DEF Close
<1>2. issued' = issued /\ device' = device /\ StreamCloses
  BY DEF Close
<1>3. Ready(pending, stats) /\ issued' \in Seq(Event)
  BY <1>2, PendingIsReady
<1>4. TypeOK /\ device' \in {"ok", "full"}
  BY <1>2 DEF IInv, TypeOK
<1>5. /\ k \in Nat
      /\ pending' = << >>
      /\ file' \in Seq(Event)
      /\ Len(file') = Len(file) + k
      /\ stats' \in TraceStats
      /\ Conservation'
      /\ FileIsPrefix'
      /\ stats'.max_queue_depth <= capacity_
      /\ stream # "good" => k = 0
  BY <1>1, <1>3, <1>4, DrainStep
<1>6. stats'.event_count = Len(file')
  BY <1>5 DEF Conservation
<1>7. stream' \in StreamState /\ stream' # "good"
  BY <1>2 DEF StreamCloses, StreamState
<1>8. onDisk' \in Nat /\ ClosedIsComplete'
  <2>1. /\ onDisk \in Nat /\ onDisk <= Len(file) /\ Len(file) \in Nat
        /\ Len(file') \in Nat
        /\ stream = "closed" /\ device = "ok" => onDisk = Len(file)
    BY <1>5, LenProperties DEF IInv, TypeOK, ClosedIsComplete, Conservation
  <2>2. onDisk' \in Nat /\ onDisk' <= Len(file')
    BY <1>2, <1>5, <2>1 DEF StreamCloses
  <2>3. stream' = "closed" /\ device' = "ok" => onDisk' = Len(file')
    BY <1>2, <1>5, <2>1 DEF StreamCloses
  <2>4. QED
    BY <1>6, <2>2, <2>3 DEF ClosedIsComplete
<1>9. QED
  BY <1>3, <1>4, <1>5, <1>7, <1>8, EmptyQueueStep

\* Every step keeps the invariant.
LEMMA NextInv == IInv /\ [Next]_bufferVars => IInv'
<1> SUFFICES ASSUME IInv, [Next]_bufferVars
             PROVE  IInv'
  OBVIOUS
<1>1. ASSUME NEW e \in Event, Write(e)
      PROVE  IInv'
  BY <1>1, WriteStep
<1>2. CASE Flush
  <2>1. issued' = issued /\ device' = device /\ FlushPending(pending, stats)
    BY <1>2 DEF Flush
  <2>2. QED
    BY <2>1, PendingIsReady, FlushStep
<1>3. CASE Close
  BY <1>3, CloseStep
<1>4. CASE DeviceFails
  <2>1. /\ UNCHANGED <<pending, stats, stream, file, onDisk, issued>>
        /\ device' = "full"
    BY <1>4 DEF DeviceFails
  <2>2. TypeOK'
    BY <2>1 DEF IInv, TypeOK
  <2>3. Conservation' /\ FileIsPrefix' /\ GoodRefusedNothing'
    BY <2>1 DEF IInv, Conservation, FileIsPrefix, GoodRefusedNothing
  <2>4. QueueIsShort' /\ ClosedIsComplete'
    BY <2>1 DEF IInv, QueueIsShort, ClosedIsComplete, capacity_
  <2>5. QED
    BY <2>2, <2>3, <2>4 DEF IInv
<1>5. CASE UNCHANGED bufferVars
  <2>1. TypeOK'
    BY <1>5 DEF IInv, TypeOK, bufferVars
  <2>2. Conservation' /\ FileIsPrefix' /\ GoodRefusedNothing'
    BY <1>5 DEF IInv, Conservation, FileIsPrefix, GoodRefusedNothing, bufferVars
  <2>3. QueueIsShort' /\ ClosedIsComplete'
    BY <1>5 DEF IInv, QueueIsShort, ClosedIsComplete, capacity_, bufferVars
  <2>4. QED
    BY <2>1, <2>2, <2>3 DEF IInv
<1>6. QED
  BY <1>1, <1>2, <1>3, <1>4, <1>5 DEF Next

\* The invariant holds in every reachable state.
THEOREM Invariant == Spec => []IInv
<1>1. Fresh => IInv
  BY FreshInv
<1>2. IInv /\ [Next]_bufferVars => IInv'
  BY NextInv
<1>3. QED
  BY <1>1, <1>2, PTL DEF Spec

-----------------------------------------------------------------------------
(* What the invariant gives. *)

\* BufferedTraceWriter keeps its state well typed.
THEOREM TypeCorrect == Spec => []TypeOK
<1>1. IInv => TypeOK
  BY DEF IInv
<1>2. QED
  BY <1>1, Invariant, PTL

\* No event passed to Write goes unaccounted: written, dropped and queued
\* events add up, and event_count is the number of lines of the file.
THEOREM NothingUnaccounted == Spec => []Conservation
<1>1. IInv => Conservation
  BY DEF IInv
<1>2. QED
  BY <1>1, Invariant, PTL

\* The trace file holds the events written first, in order and without a gap.
THEOREM OrderPreserved == Spec => []FileIsPrefix
<1>1. IInv => FileIsPrefix
  BY DEF IInv
<1>2. QED
  BY <1>1, Invariant, PTL

\* Destroying the writer without Close loses fewer events than its capacity.
THEOREM LossBound == Spec => []LossIsBounded
<1>1. IInv => LossIsBounded
  <2> SUFFICES ASSUME IInv
               PROVE  LossIsBounded
    OBVIOUS
  <2>1. Len(pending) < capacity_ /\ stats.max_queue_depth <= capacity_
    BY DEF IInv, QueueIsShort
  <2>2. ASSUME stream = "good"
        PROVE  Len(issued) - Len(file) < capacity_
    <3>1. /\ Len(file) \in Nat /\ Len(pending) \in Nat /\ Len(issued) \in Nat
          /\ capacity_ \in Nat
      BY LenProperties, CapacityPositive DEF IInv, TypeOK
    <3>2. /\ stats.event_count = Len(file) /\ stats.dropped_event_count = 0
          /\ Len(issued) = stats.event_count + stats.dropped_event_count + Len(pending)
      BY <2>2 DEF IInv, Conservation, GoodRefusedNothing
    <3>3. QED
      BY <2>1, <3>1, <3>2
  <2>3. QED
    BY <2>1, <2>2 DEF LossIsBounded
<1>2. QED
  BY <1>1, Invariant, PTL

\* With a working device, a closed trace file holds every counted line.
THEOREM CloseCompletes == Spec => []ClosedIsComplete
<1>1. IInv => ClosedIsComplete
  BY DEF IInv
<1>2. QED
  BY <1>1, Invariant, PTL

-----------------------------------------------------------------------------
(* What a step may do to the file, and the refinement. *)

\* Draining appends to the file, and leaves it alone unless the stream is good.
LEMMA DrainShape ==
  ASSUME IInv, NEW q \in Seq(Event), NEW s, NEW k \in Accepted(q), Drain(q, s, k)
  PROVE  /\ Len(file) <= Len(file')
         /\ stream # "good" => file' = file
<1>1. file \in Seq(Event) /\ Len(file) \in Nat /\ Len(q) \in Nat
  BY LenProperties DEF IInv, TypeOK
<1>2. k \in 0 .. Len(q) /\ (stream # "good" => k = 0)
  BY <1>1 DEF Accepted
<1>3. file' = file \o SubSeq(q, 1, k)
  BY DEF Drain
<1>4. ASSUME k = 0
      PROVE  file' = file
  <2>1. SubSeq(q, 1, k) = << >>
    BY <1>4, SubSeqEmpty
  <2>2. QED
    BY <1>1, <1>3, <2>1, ConcatEmptySeq
<1>5. SubSeq(q, 1, k) \in Seq(Event)
  <2>1. \A i \in 1 .. k : q[i] \in Event
    BY <1>1, <1>2, ElementOfSeq
  <2>2. 1 \in Int /\ k \in Int
    BY <1>1, <1>2
  <2>3. QED
    BY <2>1, <2>2, SubSeqProperties
<1>6. PICK n \in Nat : n = Len(SubSeq(q, 1, k))
  BY <1>5, LenProperties
<1>7. Len(file) <= Len(file')
  <2>1. Len(file') = Len(file) + n
    BY <1>1, <1>3, <1>5, <1>6, ConcatProperties
  <2>2. PICK m \in Nat : m = Len(file)
    BY <1>1
  <2>3. m + n >= m
    OBVIOUS
  <2>4. QED
    BY <2>1, <2>2, <2>3
<1>8. QED
  BY <1>2, <1>4, <1>7

\* A step hands over at most one event, never shortens the file, and once the
\* stream is not good it never becomes good again nor takes another line.
LEMMA StepShape ==
  ASSUME IInv, [Next]_bufferVars
  PROVE  /\ issued' = issued \/ \E e \in Event : issued' = Append(issued, e)
         /\ Len(file) <= Len(file')
         /\ stream # "good" => file' = file /\ stream' # "good"
<1>1. file \in Seq(Event) /\ pending \in Seq(Event) /\ Len(file) \in Nat
  BY LenProperties DEF IInv, TypeOK
<1>2. ASSUME NEW q \in Seq(Event), NEW s, FlushPending(q, s)
      PROVE  /\ Len(file) <= Len(file')
             /\ stream # "good" => file' = file /\ stream' # "good"
  <2>1. PICK k \in Accepted(q) : Drain(q, s, k) /\ stream' = StreamAfter(q, k)
    BY <1>2 DEF FlushPending
  <2>2. stream # "good" => stream' # "good"
    BY <2>1 DEF StreamAfter
  <2>3. QED
    BY <2>1, <2>2, DrainShape
<1>3. ASSUME NEW e \in Event, Write(e)
      PROVE  /\ issued' = Append(issued, e)
             /\ Len(file) <= Len(file')
             /\ stream # "good" => file' = file /\ stream' # "good"
  <2> DEFINE q == Append(pending, e)
  <2>1. issued' = Append(issued, e)
    BY <1>3 DEF Write
  <2>2. UNCHANGED <<stream, file>> \/ FlushPending(q, Deeper(stats, Len(q)))
    BY <1>3 DEF Write
  <2>3. q \in Seq(Event)
    BY <1>1, AppendProperties
  <2> HIDE DEF q
  <2>4. CASE UNCHANGED <<stream, file>>
    BY <1>1, <2>1, <2>4
  <2>5. CASE FlushPending(q, Deeper(stats, Len(q)))
    <3> DEFINE s == Deeper(stats, Len(q))
    <3>1. FlushPending(q, s)
      BY <2>5
    <3> HIDE DEF s
    <3>2. QED
      BY <1>2, <2>1, <2>3, <3>1
  <2>6. QED
    BY <2>2, <2>4, <2>5
<1>4. CASE Flush
  BY <1>1, <1>2, <1>4 DEF Flush
<1>5. CASE Close
  <2>1. PICK k \in Accepted(pending) : Drain(pending, stats, k)
    BY <1>5 DEF Close
  <2>2. issued' = issued /\ stream' # "good"
    BY <1>5 DEF Close, StreamCloses
  <2>3. QED
    BY <1>1, <2>1, <2>2, DrainShape
<1>6. CASE DeviceFails
  BY <1>1, <1>6 DEF DeviceFails
<1>7. CASE UNCHANGED bufferVars
  BY <1>1, <1>7 DEF bufferVars
<1>8. QED
  BY <1>3, <1>4, <1>5, <1>6, <1>7 DEF Next

\* Once an event was dropped the trace file never grows again.
THEOREM DropsAreFinal == Spec => DropIsFinal
<1>1. IInv /\ [Next]_bufferVars
        => [stats.dropped_event_count > 0 => UNCHANGED file]_bufferVars
  <2> SUFFICES ASSUME IInv, [Next]_bufferVars, stats.dropped_event_count > 0
               PROVE  file' = file
    OBVIOUS
  <2>1. stream # "good"
    BY DEF IInv, GoodRefusedNothing
  <2>2. QED
    BY <2>1, StepShape
<1>2. QED
  BY <1>1, Invariant, PTL DEF Spec, DropIsFinal

\* A step of the buffered writer is a step of the abstract log.
LEMMA StepImplementsLog ==
  ASSUME IInv, IInv', [Next]_bufferVars
  PROVE  Log!LogNext
<1>1. /\ issued' = issued \/ \E e \in Event : issued' = Append(issued, e)
      /\ Len(file) <= Len(file')
      /\ stream # "good" => file' = file /\ stream' # "good"
  BY StepShape
<1>2. Log!Extends
  BY <1>1 DEF Log!Extends
<1>3. FirstOf(file', issued')
  BY DEF IInv, FileIsPrefix
<1>4. Len(file') <= Len(issued') /\ Log!Shows(Len(file'))
  BY <1>3 DEF FirstOf, Log!Shows
<1>5. Len(file') \in Len(file) .. Len(issued')
  <2>1. Len(file) \in Nat /\ Len(file') \in Nat /\ Len(issued') \in Nat
    BY LenProperties DEF IInv, TypeOK
  <2>2. QED
    BY <1>1, <1>4, <2>1
<1>6. ASSUME stream' = "good"
      PROVE  Len(issued') - Len(file') < capacity_
  <2>1. /\ Len(file') \in Nat /\ Len(pending') \in Nat /\ Len(issued') \in Nat
        /\ capacity_ \in Nat
    BY LenProperties, CapacityPositive DEF IInv, TypeOK
  <2>2. /\ stats'.event_count = Len(file') /\ stats'.dropped_event_count = 0
        /\ Len(issued') = stats'.event_count + stats'.dropped_event_count + Len(pending')
    BY <1>6 DEF IInv, Conservation, GoodRefusedNothing
  <2>3. Len(pending') < capacity_
    BY DEF IInv, QueueIsShort, capacity_
  <2>4. QED
    BY <2>1, <2>2, <2>3
<1>7. CASE stream = "good" /\ stream' = "good"
  <2>1. Log!Advance
    BY <1>2, <1>4, <1>5, <1>6, <1>7 DEF Log!Advance
  <2>2. QED
    BY <2>1 DEF Log!LogNext
<1>8. CASE stream = "good" /\ stream' # "good"
  <2>1. Log!Break
    BY <1>2, <1>4, <1>5, <1>8 DEF Log!Break
  <2>2. QED
    BY <2>1 DEF Log!LogNext
<1>9. CASE stream # "good"
  <2>1. Log!Ignore
    BY <1>1, <1>2, <1>9 DEF Log!Ignore
  <2>2. QED
    BY <2>1 DEF Log!LogNext
<1>10. QED
  BY <1>7, <1>8, <1>9

\* BufferedTraceWriter over JsonlFileWriter implements the abstract log of
\* EventLog, with capacity_ as the window and a good stream as a usable file.
THEOREM BufferImplementsLog == Spec => ImplementsEventLog
<1>1. Fresh => Log!LogInit
  BY DEF Fresh, Log!LogInit
<1>2. IInv /\ IInv' /\ [Next]_bufferVars => [Log!LogNext]_Log!logVars
  BY StepImplementsLog
<1>3. QED
  BY <1>1, <1>2, Invariant, PTL DEF Spec, ImplementsEventLog, Log!LogSpec
=============================================================================
