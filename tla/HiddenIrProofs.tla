--------------------------- MODULE HiddenIrProofs ---------------------------
(***************************************************************************)
(* Proofs about the adapters of cerebras and sambanova, for any number of  *)
(* sessions, executors, partitions and operators, and any files to start   *)
(* from.                                                                   *)
(*                                                                         *)
(* That context, adapter and metric agree on a model from the end of       *)
(* loading is only inductive together with what the session knew before:   *)
(* the compile has handed the adapter's own model to the context, and no   *)
(* metric of the run is older than the session.  That every partition is   *)
(* reported rests on the tracker's own invariant, and on where the metrics *)
(* of a run that succeeded come from.  That a model directory is described *)
(* by its largest graph, or by what the adapter kept if no graph has       *)
(* operators, rests on what finding, parsing and choosing graphs do with   *)
(* any list of executors and any files, on the metrics that precede and    *)
(* follow those of the executors, and on the adapter holding, until the    *)
(* compile ends, what it brought into the session.                         *)
(*                                                                         *)
(* The tracker comes first: whatever it is called with, what it completes  *)
(* are the pairs a reader of the calls expects.  Its invariant adds what   *)
(* is open: a partition is open exactly when an accepted begin of it is    *)
(* the last accepted call of its name, and since then.                     *)
(***************************************************************************)
EXTENDS HiddenIrAdapter, ListProofs

-----------------------------------------------------------------------------
(* The partition tracker. *)

Record == [name : Partition, begin_ts : Nat, end_ts : Nat]
Opened == [name : Partition, begin_ts : Nat]

\* The state is what it is taken for.
TrackerTypes ==
  /\ active_ \in [Partition -> {<< >>} \cup {<<r>> : r \in Opened}]
  /\ completed_ \in Seq(Record)
  /\ calls \in Seq(Call)

Accepted(do, n) == [do |-> do, name |-> n, ok |-> TRUE]

\* Call b began a partition of name n, and no call of n was accepted since.
IsOpen(n, b) ==
  /\ b \in DOMAIN calls
  /\ calls[b] = Accepted("begin", n)
  /\ \A t \in b + 1 .. Len(calls) : ~ (calls[t].name = n /\ calls[t].ok)

\* What is open is what the calls say.
OpenIsLast ==
  \A n \in Partition :
    /\ active_[n] # << >> =>
         \E b \in DOMAIN calls : active_[n] = <<[name |-> n, begin_ts |-> b]>> /\ IsOpen(n, b)
    /\ active_[n] = << >> => \A b \in DOMAIN calls : ~IsOpen(n, b)

TrackerInv == TrackerTypes /\ OpenIsLast /\ PairsCompleted

-----------------------------------------------------------------------------
\* A new tracker.
LEMMA EmptyTracker ==
  ASSUME active_ = [n \in Partition |-> << >>], completed_ = << >>, calls = << >>
  PROVE  TrackerInv
<1>1. TrackerTypes
  BY EmptySeq DEF TrackerTypes
<1>2. DOMAIN calls = {} /\ DOMAIN completed_ = {}
  OBVIOUS
<1>3. OpenIsLast
  BY <1>2 DEF OpenIsLast
<1>4. Pairs = {}
  BY <1>2 DEF Pairs
<1>5. PairsCompleted
  BY <1>2, <1>4 DEF PairsCompleted, Paired
<1>6. QED
  BY <1>1, <1>3, <1>5 DEF TrackerInv

\* A tracker that is reset, and one that is left alone.
LEMMA NewTracker ==
  ASSUME Reset
  PROVE  TrackerInv'
<1>1. active_' = [n \in Partition |-> << >>] /\ completed_' = << >> /\ calls' = << >>
  BY DEF Reset
<1>2. TrackerTypes'
  BY <1>1, EmptySeq DEF TrackerTypes
<1>3. DOMAIN calls' = {} /\ DOMAIN completed_' = {}
  BY <1>1
<1>4. OpenIsLast'
  BY <1>1, <1>3 DEF OpenIsLast
<1>5. Pairs' = {}
  BY <1>3 DEF Pairs
<1>6. PairsCompleted'
  BY <1>1, <1>3, <1>5 DEF PairsCompleted, Paired
<1>7. QED
  BY <1>2, <1>4, <1>6 DEF TrackerInv

\* The second of the two.
LEMMA TrackerStutters ==
  ASSUME TrackerInv, UNCHANGED trackerVars
  PROVE  TrackerInv'
<1>1. active_' = active_ /\ completed_' = completed_ /\ calls' = calls
  BY DEF trackerVars
<1>2. TrackerTypes'
  BY <1>1 DEF TrackerInv, TrackerTypes
<1>3. OpenIsLast'
  BY <1>1 DEF TrackerInv, OpenIsLast, IsOpen
<1>4. Pairs' = Pairs
  BY <1>1 DEF Pairs
<1>5. PairsCompleted'
  BY <1>1, <1>4 DEF TrackerInv, PairsCompleted, Paired
<1>6. QED
  BY <1>2, <1>3, <1>5 DEF TrackerInv

\* One more call.
LEMMA CallAdded ==
  ASSUME TrackerTypes, NEW do \in {"begin", "end"}, NEW n \in Partition, NEW ok \in BOOLEAN,
         Called(do, n, ok)
  PROVE  /\ calls' \in Seq(Call) /\ Len(calls) \in Nat /\ Len(calls') = Len(calls) + 1
         /\ DOMAIN calls = 1 .. Len(calls) /\ DOMAIN calls' = 1 .. Len(calls) + 1
         /\ \A t \in 1 .. Len(calls) : calls'[t] = calls[t] /\ calls[t] \in Call
         /\ calls'[Len(calls) + 1] = [do |-> do, name |-> n, ok |-> ok]
<1>1. [do |-> do, name |-> n, ok |-> ok] \in Call
  BY DEF Call
<1>2. calls \in Seq(Call)
  BY DEF TrackerTypes
<1>3. /\ calls' \in Seq(Call) /\ Len(calls') = Len(calls) + 1
      /\ \A t \in 1 .. Len(calls) : calls'[t] = calls[t]
      /\ calls'[Len(calls) + 1] = [do |-> do, name |-> n, ok |-> ok]
  BY <1>1, <1>2, AppendProperties DEF Called
<1>4. Len(calls) \in Nat /\ DOMAIN calls = 1 .. Len(calls) /\ DOMAIN calls' = 1 .. Len(calls')
  BY <1>2, <1>3, LenProperties
<1>5. \A t \in 1 .. Len(calls) : calls[t] \in Call
  BY <1>2, <1>4, ElementOfSeq
<1>6. QED
  BY <1>3, <1>4, <1>5

\* Pairs are of the calls so far: a new call is not in between, and can only
\* end one.
LEMMA PairsGrow ==
  ASSUME TrackerTypes, NEW do \in {"begin", "end"}, NEW n \in Partition, NEW ok \in BOOLEAN,
         Called(do, n, ok)
  PROVE  Pairs' = Pairs \cup
           {p \in [name : {n}, begin_ts : DOMAIN calls, end_ts : {Len(calls) + 1}] :
              do = "end" /\ ok /\ IsOpen(n, p.begin_ts)}
<1> DEFINE new == {p \in [name : {n}, begin_ts : DOMAIN calls, end_ts : {Len(calls) + 1}] :
                     do = "end" /\ ok /\ IsOpen(n, p.begin_ts)}
           last == Len(calls) + 1
<1>1. /\ Len(calls) \in Nat /\ DOMAIN calls = 1 .. Len(calls) /\ DOMAIN calls' = 1 .. last
      /\ \A t \in 1 .. Len(calls) : calls'[t] = calls[t]
      /\ calls'[last] = [do |-> do, name |-> n, ok |-> ok]
  BY CallAdded
<1>2. ASSUME NEW p \in Pairs
      PROVE  p \in Pairs'
  <2>1. /\ p \in [name : Partition, begin_ts : DOMAIN calls, end_ts : DOMAIN calls]
        /\ p.begin_ts < p.end_ts
        /\ calls[p.begin_ts] = [do |-> "begin", name |-> p.name, ok |-> TRUE]
        /\ calls[p.end_ts] = [do |-> "end", name |-> p.name, ok |-> TRUE]
        /\ \A t \in p.begin_ts + 1 .. p.end_ts - 1 : ~ (calls[t].name = p.name /\ calls[t].ok)
    BY DEF Pairs
  <2>2. p.begin_ts \in 1 .. Len(calls) /\ p.end_ts \in 1 .. Len(calls) /\ p.name \in Partition
    BY <1>1, <2>1
  <2>3. p \in [name : Partition, begin_ts : DOMAIN calls', end_ts : DOMAIN calls']
    <3>1. DOMAIN calls \subseteq DOMAIN calls'
      BY <1>1
    <3>2. QED
      BY <2>1, <3>1
  <2>4. calls'[p.begin_ts] = calls[p.begin_ts] /\ calls'[p.end_ts] = calls[p.end_ts]
    BY <1>1, <2>2
  <2>5. ASSUME NEW t \in p.begin_ts + 1 .. p.end_ts - 1
        PROVE  ~ (calls'[t].name = p.name /\ calls'[t].ok)
    <3>1. t \in 1 .. Len(calls)
      BY <1>1, <2>2
    <3>2. calls'[t] = calls[t]
      BY <1>1, <3>1
    <3>3. QED
      BY <2>1, <3>2
  <2>6. QED
    BY <2>1, <2>3, <2>4, <2>5 DEF Pairs
<1>3. ASSUME NEW p \in new
      PROVE  p \in Pairs'
  <2>1. /\ p.name = n /\ p.begin_ts \in 1 .. Len(calls) /\ p.end_ts = last
        /\ do = "end" /\ ok = TRUE /\ IsOpen(n, p.begin_ts)
        /\ p = [name |-> n, begin_ts |-> p.begin_ts, end_ts |-> last]
    BY <1>1
  <2>2. p \in [name : Partition, begin_ts : DOMAIN calls', end_ts : DOMAIN calls']
    <3>1. p.begin_ts \in DOMAIN calls' /\ last \in DOMAIN calls'
      BY <1>1, <2>1
    <3>2. QED
      BY <2>1, <3>1
  <2>3. p.begin_ts < p.end_ts
    BY <1>1, <2>1
  <2>4. /\ calls'[p.begin_ts] = [do |-> "begin", name |-> p.name, ok |-> TRUE]
        /\ calls'[p.end_ts] = [do |-> "end", name |-> p.name, ok |-> TRUE]
    BY <1>1, <2>1 DEF IsOpen, Accepted
  <2>5. ASSUME NEW t \in p.begin_ts + 1 .. p.end_ts - 1
        PROVE  ~ (calls'[t].name = p.name /\ calls'[t].ok)
    <3>1. t \in 1 .. Len(calls) /\ t \in p.begin_ts + 1 .. Len(calls)
      BY <1>1, <2>1
    <3>2. calls'[t] = calls[t]
      BY <1>1, <3>1
    <3>3. QED
      BY <2>1, <3>1, <3>2 DEF IsOpen
  <2>6. QED
    BY <2>2, <2>3, <2>4, <2>5 DEF Pairs
<1>4. ASSUME NEW p \in Pairs'
      PROVE  p \in Pairs \cup new
  <2>1. /\ p \in [name : Partition, begin_ts : DOMAIN calls', end_ts : DOMAIN calls']
        /\ p.begin_ts < p.end_ts
        /\ calls'[p.begin_ts] = [do |-> "begin", name |-> p.name, ok |-> TRUE]
        /\ calls'[p.end_ts] = [do |-> "end", name |-> p.name, ok |-> TRUE]
        /\ \A t \in p.begin_ts + 1 .. p.end_ts - 1 : ~ (calls'[t].name = p.name /\ calls'[t].ok)
    BY DEF Pairs
  <2>2. /\ p.begin_ts \in 1 .. Len(calls) /\ p.end_ts \in 1 .. last /\ p.name \in Partition
        /\ p = [name |-> p.name, begin_ts |-> p.begin_ts, end_ts |-> p.end_ts]
    <3>1. p.begin_ts \in 1 .. last /\ p.end_ts \in 1 .. last /\ p.name \in Partition
          /\ p = [name |-> p.name, begin_ts |-> p.begin_ts, end_ts |-> p.end_ts]
      BY <1>1, <2>1
    <3>2. p.begin_ts \in 1 .. Len(calls)
      BY <1>1, <2>1, <3>1
    <3>3. QED
      BY <3>1, <3>2
  <2>3. calls'[p.begin_ts] = calls[p.begin_ts]
    BY <1>1, <2>2
  <2>4. CASE p.end_ts \in 1 .. Len(calls)
    <3>1. calls'[p.end_ts] = calls[p.end_ts]
      BY <1>1, <2>4
    <3>2. p \in [name : Partition, begin_ts : DOMAIN calls, end_ts : DOMAIN calls]
      BY <1>1, <2>2, <2>4
    <3>3. ASSUME NEW t \in p.begin_ts + 1 .. p.end_ts - 1
          PROVE  ~ (calls[t].name = p.name /\ calls[t].ok)
      <4>1. t \in 1 .. Len(calls)
        BY <1>1, <2>2, <2>4
      <4>2. calls'[t] = calls[t]
        BY <1>1, <4>1
      <4>3. QED
        BY <2>1, <4>2
    <3>4. p \in Pairs
      BY <2>1, <2>3, <3>1, <3>2, <3>3 DEF Pairs
    <3>5. QED
      BY <3>4
  <2>5. CASE p.end_ts = last
    <3>1. p.name = n /\ do = "end" /\ ok
      <4>1. [do |-> do, name |-> n, ok |-> ok] = [do |-> "end", name |-> p.name, ok |-> TRUE]
        BY <1>1, <2>1, <2>5
      <4>2. QED
        BY <4>1
    <3>2. IsOpen(n, p.begin_ts)
      <4>1. calls[p.begin_ts] = Accepted("begin", n)
        BY <2>1, <2>3, <3>1 DEF Accepted
      <4>2. ASSUME NEW t \in p.begin_ts + 1 .. Len(calls)
            PROVE  ~ (calls[t].name = n /\ calls[t].ok)
        <5>1. t \in 1 .. Len(calls) /\ t \in p.begin_ts + 1 .. p.end_ts - 1
          BY <1>1, <2>2, <2>5
        <5>2. calls'[t] = calls[t]
          BY <1>1, <5>1
        <5>3. QED
          BY <2>1, <3>1, <5>1, <5>2
      <4>3. QED
        BY <1>1, <2>2, <4>1, <4>2 DEF IsOpen
    <3>3. p \in [name : {n}, begin_ts : DOMAIN calls, end_ts : {last}]
      BY <1>1, <2>2, <2>5, <3>1
    <3>4. QED
      BY <3>1, <3>2, <3>3
  <2>6. p.end_ts \in 1 .. Len(calls) \/ p.end_ts = last
    BY <1>1, <2>2
  <2>7. QED
    BY <2>4, <2>5, <2>6
<1>5. Pairs' = Pairs \cup new
  BY <1>2, <1>3, <1>4
<1>6. QED
  BY <1>5

\* What is open after one more call.
LEMMA OpenAfter ==
  ASSUME TrackerTypes, NEW do \in {"begin", "end"}, NEW n \in Partition, NEW ok \in BOOLEAN,
         Called(do, n, ok), NEW m \in Partition, NEW b
  PROVE  IsOpen(m, b)' <=>
           \/ IsOpen(m, b) /\ ~(n = m /\ ok)
           \/ b = Len(calls) + 1 /\ do = "begin" /\ n = m /\ ok
<1> DEFINE k == Len(calls)
<1>1. /\ k \in Nat /\ Len(calls') = k + 1
      /\ DOMAIN calls = 1 .. k /\ DOMAIN calls' = 1 .. k + 1
      /\ \A t \in 1 .. k : calls'[t] = calls[t]
      /\ calls'[k + 1] = [do |-> do, name |-> n, ok |-> ok]
  BY CallAdded
<1> HIDE DEF k
<1>2. ASSUME IsOpen(m, b), ~(n = m /\ ok)
      PROVE  IsOpen(m, b)'
  <2>1. b \in 1 .. k /\ calls'[b] = Accepted("begin", m)
    BY <1>1, <1>2 DEF IsOpen
  <2>2. ASSUME NEW t \in b + 1 .. k + 1
        PROVE  ~ (calls'[t].name = m /\ calls'[t].ok)
    <3>1. CASE t = k + 1
      BY <1>1, <1>2, <3>1
    <3>2. CASE t # k + 1
      <4>1. t \in b + 1 .. k /\ t \in 1 .. k
        BY <1>1, <2>1, <3>2
      <4>2. QED
        BY <1>1, <1>2, <4>1 DEF IsOpen, k
    <3>3. QED
      BY <3>1, <3>2
  <2>3. b \in 1 .. k + 1
    BY <1>1, <2>1
  <2>4. QED
    BY <1>1, <2>1, <2>2, <2>3 DEF IsOpen, Accepted
<1>3. ASSUME b = k + 1, do = "begin", n = m, ok
      PROVE  IsOpen(m, b)'
  <2>1. b \in 1 .. k + 1 /\ calls'[b] = Accepted("begin", m)
    BY <1>1, <1>3 DEF Accepted
  <2>2. b + 1 .. k + 1 = {}
    BY <1>1, <1>3
  <2>3. QED
    BY <1>1, <2>1, <2>2 DEF IsOpen, Accepted
<1>4. ASSUME IsOpen(m, b)', b # k + 1
      PROVE  IsOpen(m, b) /\ ~(n = m /\ ok)
  <2>1. /\ b \in 1 .. k + 1 /\ calls'[b] = Accepted("begin", m)
        /\ \A t \in b + 1 .. k + 1 : ~ (calls'[t].name = m /\ calls'[t].ok)
    BY <1>1, <1>4 DEF IsOpen, Accepted
  <2>2. b \in 1 .. k /\ calls[b] = Accepted("begin", m)
    BY <1>1, <1>4, <2>1
  <2>3. ASSUME NEW t \in b + 1 .. k
        PROVE  ~ (calls[t].name = m /\ calls[t].ok)
    <3>1. t \in b + 1 .. k + 1 /\ t \in 1 .. k
      BY <1>1, <2>2
    <3>2. QED
      BY <1>1, <2>1, <3>1
  <2>4. IsOpen(m, b)
    BY <1>1, <2>2, <2>3 DEF IsOpen, k
  <2>5. k + 1 \in b + 1 .. k + 1
    BY <1>1, <2>2
  <2>6. ~(n = m /\ ok)
    BY <1>1, <2>1, <2>5
  <2>7. QED
    BY <2>4, <2>6
<1>5. ASSUME IsOpen(m, b)', b = k + 1
      PROVE  do = "begin" /\ n = m /\ ok
  <2>1. [do |-> do, name |-> n, ok |-> ok] = [do |-> "begin", name |-> m, ok |-> TRUE]
    BY <1>1, <1>5 DEF IsOpen, Accepted
  <2>2. QED
    BY <2>1
<1>6. QED
  BY <1>2, <1>3, <1>4, <1>5 DEF k

\* A partition is begun at most once since its last end.
LEMMA OpenOnce ==
  ASSUME TrackerTypes, NEW n \in Partition, NEW a, NEW b, IsOpen(n, a), IsOpen(n, b)
  PROVE  a = b
<1>1. Len(calls) \in Nat /\ DOMAIN calls = 1 .. Len(calls)
  BY LenProperties DEF TrackerTypes
<1>2. /\ a \in 1 .. Len(calls) /\ b \in 1 .. Len(calls)
      /\ calls[a].name = n /\ calls[a].ok /\ calls[b].name = n /\ calls[b].ok
      /\ \A t \in a + 1 .. Len(calls) : ~ (calls[t].name = n /\ calls[t].ok)
      /\ \A t \in b + 1 .. Len(calls) : ~ (calls[t].name = n /\ calls[t].ok)
  BY <1>1 DEF IsOpen, Accepted
<1>3. a \notin b + 1 .. Len(calls) /\ b \notin a + 1 .. Len(calls)
  BY <1>2
<1>4. QED
  BY <1>1, <1>2, <1>3

\* A pair was completed by a call that has been made.
LEMMA PairsAreOld ==
  ASSUME TrackerTypes, NEW p \in Pairs
  PROVE  p.end_ts # Len(calls) + 1
<1>1. Len(calls) \in Nat /\ DOMAIN calls = 1 .. Len(calls)
  BY LenProperties DEF TrackerTypes
<1>2. p.end_ts \in DOMAIN calls
  BY DEF Pairs
<1>3. QED
  BY <1>1, <1>2

\* A refused call, and a begin, complete nothing.
LEMMA NothingCompleted ==
  ASSUME TrackerInv, NEW do \in {"begin", "end"}, NEW n \in Partition, NEW ok \in BOOLEAN,
         Called(do, n, ok), ~(do = "end" /\ ok), completed_' = completed_
  PROVE  PairsCompleted'
<1> USE DEF TrackerInv
<1>1. Pairs' = Pairs
  <2>1. PICK added : added = {p \in [name : {n}, begin_ts : DOMAIN calls, end_ts : {Len(calls) + 1}] :
                                do = "end" /\ ok /\ IsOpen(n, p.begin_ts)}
    OBVIOUS
  <2>2. added = {}
    BY <2>1
  <2>3. Pairs' = Pairs \cup added
    BY <2>1, PairsGrow
  <2>4. QED
    BY <2>2, <2>3
<1>2. /\ Len(calls) \in Nat
      /\ DOMAIN calls = 1 .. Len(calls) /\ DOMAIN calls' = 1 .. Len(calls) + 1
      /\ \A t \in 1 .. Len(calls) : calls'[t] = calls[t]
      /\ calls'[Len(calls) + 1] = [do |-> do, name |-> n, ok |-> ok]
  BY CallAdded
<1>3. ASSUME NEW t \in DOMAIN calls', calls'[t].ok /\ calls'[t].do = "end"
      PROVE  \E p \in Pairs : p.end_ts = t /\ \A q \in Pairs : q.end_ts = t => q = p
  <2>1. t # Len(calls) + 1
    BY <1>2, <1>3
  <2>2. t \in DOMAIN calls /\ calls[t].ok /\ calls[t].do = "end"
    BY <1>2, <1>3, <2>1
  <2>3. QED
    BY <2>2 DEF PairsCompleted, Paired
<1>4. Paired'
  BY <1>1, <1>3 DEF Paired
<1>5. QED
  BY <1>1, <1>4 DEF PairsCompleted

\* An end of a partition that is open completes the pair of the two calls.
LEMMA PairCompleted ==
  ASSUME TrackerInv, NEW n \in Partition, NEW b \in DOMAIN calls,
         Called("end", n, TRUE), IsOpen(n, b),
         completed_' = Append(completed_, [name |-> n, begin_ts |-> b, end_ts |-> Len(calls) + 1])
  PROVE  PairsCompleted'
<1> DEFINE last == Len(calls) + 1
           done == [name |-> n, begin_ts |-> b, end_ts |-> last]
<1> USE DEF TrackerInv
<1>1. /\ Len(calls) \in Nat
      /\ DOMAIN calls = 1 .. Len(calls) /\ DOMAIN calls' = 1 .. last
      /\ \A t \in 1 .. Len(calls) : calls'[t] = calls[t]
  BY CallAdded
<1>2. Pairs' = Pairs \cup {done}
  <2> DEFINE new == {p \in [name : {n}, begin_ts : DOMAIN calls, end_ts : {last}] :
                       IsOpen(n, p.begin_ts)}
  <2>1. Pairs' = Pairs \cup
           {p \in [name : {n}, begin_ts : DOMAIN calls, end_ts : {last}] :
              "end" = "end" /\ TRUE /\ IsOpen(n, p.begin_ts)}
    BY PairsGrow
  <2>2. done \in new
    OBVIOUS
  <2>3. ASSUME NEW p \in new
        PROVE  p = done
    <3>1. p.begin_ts = b
      BY OpenOnce
    <3>2. QED
      BY <3>1
  <2>4. QED
    BY <2>1, <2>2, <2>3
<1>3. \A p \in Pairs : p.end_ts # last
  BY PairsAreOld
<1>4. done \in Record
  BY <1>1 DEF Record
<1>5. /\ Len(completed_) \in Nat /\ DOMAIN completed_ = 1 .. Len(completed_)
      /\ DOMAIN completed_' = 1 .. Len(completed_) + 1
      /\ \A i \in 1 .. Len(completed_) : completed_'[i] = completed_[i]
      /\ completed_'[Len(completed_) + 1] = done
  <2>1. completed_ \in Seq(Record) /\ completed_' = Append(completed_, done)
    BY DEF TrackerTypes
  <2> HIDE DEF done
  <2>2. QED
    BY <1>4, <2>1, AppendProperties, LenProperties
<1>6. {completed_[i] : i \in DOMAIN completed_} = Pairs
  BY DEF PairsCompleted
<1>7. done.end_ts = last
  OBVIOUS
<1> HIDE DEF done, last, TrackerInv
<1>8. {completed_'[i] : i \in DOMAIN completed_'} = Pairs'
  <2>1. ASSUME NEW i \in DOMAIN completed_'
        PROVE  completed_'[i] \in Pairs \cup {done}
    <3>1. CASE i = Len(completed_) + 1
      BY <1>5, <3>1
    <3>2. CASE i # Len(completed_) + 1
      <4>1. i \in DOMAIN completed_
        BY <1>5, <3>2
      <4>2. QED
        BY <1>5, <1>6, <4>1
    <3>3. QED
      BY <3>1, <3>2
  <2>2. ASSUME NEW p \in Pairs
        PROVE  \E i \in DOMAIN completed_' : completed_'[i] = p
    <3>1. PICK i \in DOMAIN completed_ : completed_[i] = p
      BY <1>6
    <3>2. i \in DOMAIN completed_' /\ completed_'[i] = p
      BY <1>5, <3>1
    <3>3. QED
      BY <3>2
  <2>3. Len(completed_) + 1 \in DOMAIN completed_'
    BY <1>5
  <2>4. QED
    BY <1>2, <1>5, <2>1, <2>2, <2>3
<1>9. ASSUME NEW i \in DOMAIN completed_', NEW j \in DOMAIN completed_',
             completed_'[i] = completed_'[j]
      PROVE  i = j
  <2>1. \A x \in 1 .. Len(completed_) : completed_'[x] # done
    <3>1. ASSUME NEW x \in 1 .. Len(completed_)
          PROVE  completed_'[x] \in Pairs
      BY <1>5, <1>6
    <3>2. QED
      BY <1>3, <1>7, <3>1
  <2>2. CASE i = Len(completed_) + 1 \/ j = Len(completed_) + 1
    BY <1>5, <1>9, <2>1, <2>2
  <2>3. CASE i # Len(completed_) + 1 /\ j # Len(completed_) + 1
    <3>1. i \in DOMAIN completed_ /\ j \in DOMAIN completed_
      BY <1>5, <2>3
    <3>2. completed_[i] = completed_[j]
      BY <1>5, <1>9, <3>1
    <3>3. QED
      BY <3>1, <3>2 DEF PairsCompleted, TrackerInv
  <2>4. QED
    BY <2>2, <2>3
<1>10. ASSUME NEW t \in DOMAIN calls', calls'[t].ok /\ calls'[t].do = "end"
       PROVE  \E p \in Pairs' : p.end_ts = t /\ \A q \in Pairs' : q.end_ts = t => q = p
  <2>1. CASE t = last
    <3>1. \A q \in Pairs' : q.end_ts = last => q = done
      BY <1>2, <1>3
    <3>2. done \in Pairs'
      BY <1>2
    <3>3. QED
      BY <1>7, <2>1, <3>1, <3>2
  <2>2. CASE t # last
    <3>1. t \in DOMAIN calls /\ calls[t].ok /\ calls[t].do = "end"
      BY <1>1, <1>10, <2>2 DEF last
    <3>2. PICK p \in Pairs : p.end_ts = t /\ \A q \in Pairs : q.end_ts = t => q = p
      BY <3>1 DEF PairsCompleted, Paired, TrackerInv
    <3>3. \A q \in Pairs' : q.end_ts = t => q = p
      BY <1>2, <1>7, <2>2, <3>2
    <3>4. p \in Pairs'
      BY <1>2
    <3>5. QED
      BY <3>2, <3>3, <3>4
  <2>3. QED
    BY <2>1, <2>2
<1>11. Paired'
  BY <1>10 DEF Paired
<1>12. QED
  BY <1>8, <1>9, <1>11 DEF PairsCompleted

\* The tracker's records keep their types.
LEMMA TypesKept ==
  ASSUME TrackerTypes, NEW n \in Partition, Begin(n) \/ End(n)
  PROVE  TrackerTypes'
<1> USE DEF TrackerTypes
<1>1. Now \in Nat
  BY LenProperties DEF Now
<1>2. calls' \in Seq(Call)
  <2>1. \E do \in {"begin", "end"}, ok \in BOOLEAN : Called(do, n, ok)
    BY DEF Begin, End
  <2>2. QED
    BY <2>1, CallAdded
<1>3. CASE Begin(n)
  <2>1. [name |-> n, begin_ts |-> Now] \in Opened
    BY <1>1 DEF Opened
  <2>2. active_' \in [Partition -> {<< >>} \cup {<<r>> : r \in Opened}] /\ completed_' = completed_
    BY <1>3, <2>1 DEF Begin
  <2>3. QED
    BY <1>2, <2>2
<1>4. CASE End(n)
  <2>1. active_' \in [Partition -> {<< >>} \cup {<<r>> : r \in Opened}]
    BY <1>4 DEF End
  <2>2. CASE active_[n] # << >>
    <3>1. active_[n] \in {<< >>} \cup {<<r>> : r \in Opened}
      OBVIOUS
    <3>2. PICK r \in Opened : active_[n] = <<r>>
      BY <2>2, <3>1
    <3>3. active_[n][1].begin_ts \in Nat
      BY <3>2 DEF Opened
    <3>4. [name |-> n, begin_ts |-> active_[n][1].begin_ts, end_ts |-> Now] \in Record
      BY <1>1, <3>3 DEF Record
    <3>5. completed_' = Append(completed_,
            [name |-> n, begin_ts |-> active_[n][1].begin_ts, end_ts |-> Now])
      BY <1>4, <2>2 DEF End
    <3>6. completed_' \in Seq(Record)
      BY <3>4, <3>5, AppendProperties
    <3>7. QED
      BY <1>2, <2>1, <3>6
  <2>3. CASE active_[n] = << >>
    BY <1>2, <1>4, <2>1, <2>3 DEF End
  <2>4. QED
    BY <2>2, <2>3
<1>5. QED
  BY <1>3, <1>4

\* A refused call changes nothing that is open.
LEMMA RefusedKeepsOpen ==
  ASSUME TrackerInv, NEW do \in {"begin", "end"}, NEW n \in Partition,
         Called(do, n, FALSE), active_' = active_
  PROVE  OpenIsLast'
<1> USE DEF TrackerInv
<1>1. ASSUME NEW m \in Partition, NEW b
      PROVE  IsOpen(m, b)' <=> IsOpen(m, b)
  BY OpenAfter
<1>2. ASSUME NEW m \in Partition
      PROVE  /\ active_[m] # << >> =>
                  \E b \in DOMAIN calls' : active_[m] = <<[name |-> m, begin_ts |-> b]>> /\ IsOpen(m, b)'
             /\ active_[m] = << >> => \A b \in DOMAIN calls' : ~IsOpen(m, b)'
  <2>1. DOMAIN calls \subseteq DOMAIN calls'
    <3>1. /\ Len(calls) \in Nat
          /\ DOMAIN calls = 1 .. Len(calls) /\ DOMAIN calls' = 1 .. Len(calls) + 1
      BY CallAdded
    <3>2. QED
      BY <3>1
  <2>2. \A b : IsOpen(m, b) => b \in DOMAIN calls
    BY DEF IsOpen
  <2>3. QED
    BY <1>1, <2>1, <2>2 DEF OpenIsLast
<1>3. QED
  BY <1>2 DEF OpenIsLast

\* A call that is accepted changes what is open of its own name only.
LEMMA OthersKeepOpen ==
  ASSUME TrackerInv, NEW do \in {"begin", "end"}, NEW n \in Partition,
         Called(do, n, TRUE), NEW m \in Partition, m # n, active_'[m] = active_[m]
  PROVE  /\ active_'[m] # << >> =>
              \E b \in DOMAIN calls' : active_'[m] = <<[name |-> m, begin_ts |-> b]>> /\ IsOpen(m, b)'
         /\ active_'[m] = << >> => \A b \in DOMAIN calls' : ~IsOpen(m, b)'
<1> USE DEF TrackerInv
<1>1. ASSUME NEW b
      PROVE  IsOpen(m, b)' <=> IsOpen(m, b)
  BY OpenAfter
<1>2. DOMAIN calls \subseteq DOMAIN calls'
  <2>1. /\ Len(calls) \in Nat
        /\ DOMAIN calls = 1 .. Len(calls) /\ DOMAIN calls' = 1 .. Len(calls) + 1
    BY CallAdded
  <2>2. QED
    BY <2>1
<1>3. \A b : IsOpen(m, b) => b \in DOMAIN calls
  BY DEF IsOpen
<1>4. QED
  BY <1>1, <1>2, <1>3 DEF OpenIsLast

\* Beginning a partition, accepted or not.
LEMMA BeginKeeps ==
  ASSUME TrackerInv, NEW n \in Partition, Begin(n)
  PROVE  TrackerInv'
<1> USE DEF TrackerInv
<1>1. TrackerTypes'
  BY TypesKept
<1>2. CASE active_[n] # << >>
  <2>1. Called("begin", n, FALSE) /\ active_' = active_ /\ completed_' = completed_
    BY <1>2 DEF Begin
  <2>2. OpenIsLast'
    BY <2>1, RefusedKeepsOpen
  <2>3. PairsCompleted'
    BY <2>1, NothingCompleted
  <2>4. QED
    BY <1>1, <2>2, <2>3
<1>3. CASE active_[n] = << >>
  <2>1. /\ Called("begin", n, TRUE) /\ completed_' = completed_
        /\ active_' = [active_ EXCEPT ![n] = <<[name |-> n, begin_ts |-> Now]>>]
    BY <1>3 DEF Begin
  <2>2. PairsCompleted'
    BY <2>1, NothingCompleted
  <2>3. ASSUME NEW m \in Partition
        PROVE  /\ active_'[m] # << >> =>
                    \E b \in DOMAIN calls' :
                      active_'[m] = <<[name |-> m, begin_ts |-> b]>> /\ IsOpen(m, b)'
               /\ active_'[m] = << >> => \A b \in DOMAIN calls' : ~IsOpen(m, b)'
    <3>1. CASE m # n
      <4>1. active_'[m] = active_[m]
        BY <2>1, <3>1 DEF TrackerTypes
      <4>2. QED
        BY <2>1, <3>1, <4>1, OthersKeepOpen
    <3>2. CASE m = n
      <4>1. /\ Len(calls) \in Nat /\ DOMAIN calls' = 1 .. Len(calls) + 1
        BY <2>1, CallAdded
      <4>2. PICK now \in DOMAIN calls' : now = Len(calls) + 1
        BY <4>1
      <4>3. active_'[n] = <<[name |-> n, begin_ts |-> now]>>
        BY <2>1, <4>2 DEF TrackerTypes, Now
      <4>4. IsOpen(n, now)'
        BY <2>1, <4>2, OpenAfter
      <4>5. active_'[n] # << >>
        BY <4>3
      <4>6. QED
        BY <3>2, <4>2, <4>3, <4>4, <4>5
    <3>3. QED
      BY <3>1, <3>2
  <2>4. OpenIsLast'
    BY <2>3 DEF OpenIsLast
  <2>5. QED
    BY <1>1, <2>2, <2>4
<1>4. QED
  BY <1>2, <1>3

\* Ending a partition, accepted or not.
LEMMA EndKeeps ==
  ASSUME TrackerInv, NEW n \in Partition, End(n)
  PROVE  TrackerInv'
<1> USE DEF TrackerInv
<1>1. TrackerTypes'
  BY TypesKept
<1>2. CASE active_[n] = << >>
  <2>1. Called("end", n, FALSE) /\ active_' = active_ /\ completed_' = completed_
    BY <1>2 DEF End
  <2>2. OpenIsLast'
    BY <2>1, RefusedKeepsOpen
  <2>3. PairsCompleted'
    BY <2>1, NothingCompleted
  <2>4. QED
    BY <1>1, <2>2, <2>3
<1>3. CASE active_[n] # << >>
  <2>1. /\ Called("end", n, TRUE) /\ active_' = [active_ EXCEPT ![n] = << >>]
        /\ completed_' = Append(completed_,
             [name |-> n, begin_ts |-> active_[n][1].begin_ts, end_ts |-> Now])
    BY <1>3 DEF End
  <2>2. PICK b \in DOMAIN calls :
          active_[n] = <<[name |-> n, begin_ts |-> b]>> /\ IsOpen(n, b)
    BY <1>3 DEF OpenIsLast
  <2>3. active_[n][1].begin_ts = b
    BY <2>2
  <2>4. PairsCompleted'
    BY <2>1, <2>2, <2>3, PairCompleted DEF Now
  <2>5. ASSUME NEW m \in Partition
        PROVE  /\ active_'[m] # << >> =>
                    \E c \in DOMAIN calls' :
                      active_'[m] = <<[name |-> m, begin_ts |-> c]>> /\ IsOpen(m, c)'
               /\ active_'[m] = << >> => \A c \in DOMAIN calls' : ~IsOpen(m, c)'
    <3>1. CASE m # n
      <4>1. active_'[m] = active_[m]
        BY <2>1, <3>1 DEF TrackerTypes
      <4>2. QED
        BY <2>1, <3>1, <4>1, OthersKeepOpen
    <3>2. CASE m = n
      <4>1. active_'[n] = << >>
        BY <2>1 DEF TrackerTypes
      <4>2. \A c : ~IsOpen(n, c)'
        BY <2>1, OpenAfter
      <4>3. QED
        BY <3>2, <4>1, <4>2
    <3>3. QED
      BY <3>1, <3>2
  <2>6. OpenIsLast'
    BY <2>5 DEF OpenIsLast
  <2>7. QED
    BY <1>1, <2>4, <2>6
<1>4. QED
  BY <1>2, <1>3

-----------------------------------------------------------------------------
(* The invariant. *)

\* Sessions, files and the tracker are what they are taken for.
DataInv ==
  /\ session \in 0 .. MaxSessions
  /\ files \in [File -> {<< >>} \cup {<<c>> : c \in AnyContent}]
  /\ TrackerInv

\* The metric reported at the end of loading.
Counted == Metric("partition_count", "model", session, model_.ops)

\* The metrics of a run that are not of a partition, and those that are.
Reported ==
  [name : {"partition_count", "exit_code", "log"}, source : {"model", "run_cmd", "log"}, by : Nat,
   value : Nat \cup {model_.ops}]
Timed == [name : {"partition_ms"}, source : Partition, by : Nat, value : Int]

\* What a run that succeeded has reported before its partitions.
RunReport(own) ==
  /\ own \in Seq(Reported)
  /\ \A i \in DOMAIN own : own[i].name = "partition_count" => own[i].value = model_.ops

\* What a session knows of its model, call by call.
ModelInv ==
  /\ at \in {"PrepareArtifacts", "CompileBegin", "CompileEnd", "LoadBegin", "LoadEnd"}
       => runtime_metrics = << >>
  /\ at = "LoadBegin" => metadata_ops = model_ /\ (model_.ops = 0 \/ model_.ops > 0)
  /\ at \in {"LoadEnd", "RunBegin", "RunEnd", "Shutdown"}
       => metadata_ops = model_ /\ model_.ops > 0
  /\ at \in {"RunBegin", "RunEnd"} => runtime_metrics = <<Counted>>

\* The metrics of the run, once it has succeeded.
ReportInv ==
  at = "Shutdown" => \E own : RunReport(own) /\ runtime_metrics = own \o PartitionMetrics

-----------------------------------------------------------------------------
(* Data. *)

\* A command leaves files behind.
LEMMA CommandTypes ==
  ASSUME DataInv, NEW writes, Command(writes)
  PROVE  files' \in [File -> {<< >>} \cup {<<c>> : c \in AnyContent}]
<1>1. Content(session) \subseteq AnyContent
  BY HiddenIrAssumption DEF DataInv, Content, AnyContent
<1>2. PICK new \in [writes -> {<< >>} \cup {<<c>> : c \in Content(session)}] :
        files' = [f \in File |-> IF f \in writes /\ new[f] # << >> THEN new[f] ELSE files[f]]
  BY DEF Command
<1>3. ASSUME NEW f \in File
      PROVE  (IF f \in writes /\ new[f] # << >> THEN new[f] ELSE files[f])
               \in {<< >>} \cup {<<c>> : c \in AnyContent}
  <2>1. CASE f \in writes
    <3>1. new[f] \in {<< >>} \cup {<<c>> : c \in Content(session)}
      BY <1>2, <2>1
    <3>2. new[f] \in {<< >>} \cup {<<c>> : c \in AnyContent}
      BY <1>1, <3>1
    <3>3. QED
      BY <3>2 DEF DataInv
  <2>2. CASE f \notin writes
    BY <2>2 DEF DataInv
  <2>3. QED
    BY <2>1, <2>2
<1>4. QED
  BY <1>2, <1>3

\* Whether a command is run or not.
LEMMA MaybeRunTypes ==
  ASSUME DataInv, NEW cmd, NEW writes, NEW rc, MaybeRun(cmd, writes, rc)
  PROVE  files' \in [File -> {<< >>} \cup {<<c>> : c \in AnyContent}]
  BY CommandTypes DEF MaybeRun, DataInv

\* Every call keeps them.
LEMMA DataStep ==
  ASSUME DataInv, [Next]_vars
  PROVE  DataInv'
<1>1. CASE InitializeSession \/ Shutdown
  <2>1. session' \in 0 .. MaxSessions /\ files' = files
    BY <1>1, HiddenIrAssumption DEF DataInv, InitializeSession, Shutdown, settingVars
  <2>2. Reset
    BY <1>1 DEF InitializeSession, Shutdown
  <2>3. TrackerInv'
    BY <2>2, NewTracker
  <2>4. QED
    BY <2>1, <2>3 DEF DataInv
<1>2. CASE PrepareArtifacts \/ CompileBegin \/ LoadBegin \/ LoadEnd \/ RunBegin
           \/ UNCHANGED vars
  <2>1. UNCHANGED <<session, files, trackerVars>>
    BY <1>2 DEF PrepareArtifacts, CompileBegin, LoadBegin, LoadEnd, RunBegin, vars, settingVars
  <2>2. TrackerInv'
    BY <2>1, TrackerStutters DEF DataInv
  <2>3. QED
    BY <2>1, <2>2 DEF DataInv
<1>3. CASE CompileEndFromGraph \/ CompileEndFromDir \/ RunEnd
  <2>1. \E cmd, writes, rc : MaybeRun(cmd, writes, rc)
    BY <1>3 DEF CompileEndFromGraph, CompileEndFromDir, RunEnd
  <2>2. files' \in [File -> {<< >>} \cup {<<c>> : c \in AnyContent}]
    BY <2>1, MaybeRunTypes
  <2>3. UNCHANGED <<session, trackerVars>>
    BY <1>3 DEF CompileEndFromGraph, CompileEndFromDir, RunEnd, settingVars
  <2>4. TrackerInv'
    BY <2>3, TrackerStutters DEF DataInv
  <2>5. QED
    BY <2>2, <2>3, <2>4 DEF DataInv
<1>4. CASE SubgraphBegin \/ SubgraphEnd
  <2>1. /\ \E n \in Partition : Begin(n) \/ End(n)
        /\ UNCHANGED <<session, files>>
    BY <1>4 DEF SubgraphBegin, SubgraphEnd, settingVars
  <2>2. TrackerInv'
    BY <2>1, BeginKeeps, EndKeeps DEF DataInv
  <2>3. QED
    BY <2>1, <2>2 DEF DataInv
<1>5. QED
  BY <1>1, <1>2, <1>3, <1>4 DEF Next

-----------------------------------------------------------------------------
(* Model and metrics. *)

\* What the model of a session is read from has operators or none.
LEMMA BuiltFromGraph ==
  ASSUME DataInv', files'["graph"] # << >>
  PROVE  BuiltModel(files').ops = 0 \/ BuiltModel(files').ops > 0
<1>1. files'["graph"] \in {<< >>} \cup {<<c>> : c \in AnyContent}
  BY DEF DataInv, File
<1>2. PICK c \in AnyContent : files'["graph"] = <<c>>
  BY <1>1
<1>3. c.ops \in Nat
  BY HiddenIrAssumption DEF AnyContent
<1>4. QED
  BY <1>2, <1>3 DEF BuiltModel

\* Every call keeps what the session knows of its model.
LEMMA ModelStep ==
  ASSUME DataInv, DataInv', ModelInv, [Next]_vars
  PROVE  ModelInv'
<1>1. CASE InitializeSession
  BY <1>1 DEF InitializeSession, ModelInv
<1>2. CASE PrepareArtifacts
  BY <1>2 DEF PrepareArtifacts, Fails, ModelInv
<1>3. CASE CompileBegin
  BY <1>3 DEF CompileBegin, Fails, ModelInv, runtimeVars
<1>4. CASE CompileEndFromGraph
  <2>1. runtime_metrics' = << >>
    BY <1>4 DEF CompileEndFromGraph, ModelInv, runtimeVars
  <2>2. CASE at' = "idle"
    BY <2>2 DEF ModelInv
  <2>3. CASE at' # "idle"
    <3>1. /\ files'["graph"] # << >> /\ model_' = BuiltModel(files')
          /\ metadata_ops' = model_' /\ at' = "LoadBegin"
      BY <1>4, <2>3 DEF CompileEndFromGraph, Fails
    <3>2. model_'.ops = 0 \/ model_'.ops > 0
      BY <3>1, BuiltFromGraph
    <3>3. QED
      BY <2>1, <3>1, <3>2 DEF ModelInv
  <2>4. QED
    BY <2>2, <2>3
<1>5. CASE CompileEndFromDir
  <2>1. runtime_metrics' = << >>
    BY <1>5 DEF CompileEndFromDir, ModelInv, runtimeVars
  <2>2. \/ at' = "idle"
        \/ /\ cirh_ops_'.ops > 0 /\ model_' = cirh_ops_'
           /\ metadata_ops' = model_' /\ at' = "LoadBegin"
    BY <1>5 DEF CompileEndFromDir, Fails
  <2>3. QED
    BY <2>1, <2>2 DEF ModelInv
<1>6. CASE LoadBegin
  BY <1>6 DEF LoadBegin, Fails, ModelInv, runtimeVars, contextVars, modelVars
<1>7. CASE LoadEnd
  <2>1. /\ at' = "RunBegin" /\ at = "LoadEnd"
        /\ runtime_metrics' = Append(runtime_metrics, Counted)
        /\ UNCHANGED <<session, model_, metadata_ops>>
    BY <1>7 DEF LoadEnd, settingVars, contextVars, modelVars, Counted
  <2>2. runtime_metrics' = <<Counted>>
    BY <2>1 DEF ModelInv
  <2>3. Counted' = Counted
    BY <2>1 DEF Counted, Metric
  <2>4. QED
    BY <2>1, <2>2, <2>3 DEF ModelInv
<1>8. CASE RunBegin
  <2>1. /\ at' = "RunEnd" /\ at = "RunBegin"
        /\ UNCHANGED <<session, runtime_metrics, model_, metadata_ops>>
    BY <1>8 DEF RunBegin, settingVars, runtimeVars, contextVars, modelVars
  <2>2. Counted' = Counted
    BY <2>1 DEF Counted, Metric
  <2>3. QED
    BY <2>1, <2>2 DEF ModelInv
<1>9. CASE RunEnd
  <2>1. /\ at = "RunEnd" /\ at' \in {"idle", "Shutdown"}
        /\ UNCHANGED <<model_, metadata_ops>>
    BY <1>9 DEF RunEnd, Fails, contextVars, modelVars
  <2>2. QED
    BY <2>1 DEF ModelInv
<1>10. CASE Shutdown
  BY <1>10 DEF Shutdown, ModelInv
<1>11. CASE SubgraphBegin \/ SubgraphEnd \/ UNCHANGED vars
  <2>1. UNCHANGED <<session, at, runtime_metrics, model_, metadata_ops>>
    BY <1>11 DEF SubgraphBegin, SubgraphEnd, vars, settingVars, runtimeVars, contextVars, modelVars
  <2>2. Counted' = Counted
    BY <2>1 DEF Counted, Metric
  <2>3. QED
    BY <2>1, <2>2 DEF ModelInv
<1>12. QED
  BY <1>1, <1>2, <1>3, <1>4, <1>5, <1>6, <1>7, <1>8, <1>9, <1>10, <1>11 DEF Next

\* One sequence of metrics after another.
LEMMA MetricsJoined ==
  ASSUME NEW S, NEW own \in Seq(S), NEW more \in Seq(S)
  PROVE  /\ own \o more \in Seq(S)
         /\ Len(own) \in Nat /\ Len(more) \in Nat /\ Len(own \o more) = Len(own) + Len(more)
         /\ DOMAIN own = 1 .. Len(own) /\ DOMAIN more = 1 .. Len(more)
         /\ DOMAIN (own \o more) = 1 .. Len(own) + Len(more)
         /\ \A i \in 1 .. Len(own) : (own \o more)[i] = own[i]
         /\ \A i \in 1 .. Len(own) + Len(more) :
              i > Len(own) => (own \o more)[i] = more[i - Len(own)] /\ i - Len(own) \in DOMAIN more
<1>1. /\ own \o more \in Seq(S) /\ Len(own \o more) = Len(own) + Len(more)
      /\ \A i \in 1 .. Len(own) + Len(more) :
           (own \o more)[i] = IF i <= Len(own) THEN own[i] ELSE more[i - Len(own)]
  BY ConcatProperties
<1>2. /\ Len(own) \in Nat /\ Len(more) \in Nat
      /\ DOMAIN own = 1 .. Len(own) /\ DOMAIN more = 1 .. Len(more)
      /\ DOMAIN (own \o more) = 1 .. Len(own \o more)
  BY <1>1, LenProperties
<1>3. QED
  BY <1>1, <1>2

\* A report that grows by metrics of another name.
LEMMA ReportGrows ==
  ASSUME NEW own, NEW more \in Seq(Reported), RunReport(own),
         \A i \in DOMAIN more : more[i].name # "partition_count"
  PROVE  RunReport(own \o more)
<1>1. own \in Seq(Reported)
  BY DEF RunReport
<1>2. /\ own \o more \in Seq(Reported)
      /\ Len(own) \in Nat /\ Len(more) \in Nat
      /\ DOMAIN own = 1 .. Len(own) /\ DOMAIN more = 1 .. Len(more)
      /\ DOMAIN (own \o more) = 1 .. Len(own) + Len(more)
      /\ \A i \in 1 .. Len(own) : (own \o more)[i] = own[i]
      /\ \A i \in 1 .. Len(own) + Len(more) :
           i > Len(own) => (own \o more)[i] = more[i - Len(own)] /\ i - Len(own) \in DOMAIN more
  BY <1>1, MetricsJoined
<1>3. ASSUME NEW i \in DOMAIN (own \o more), (own \o more)[i].name = "partition_count"
      PROVE  (own \o more)[i].value = model_.ops
  <2>1. i \in 1 .. Len(own)
    BY <1>2, <1>3
  <2>2. QED
    BY <1>2, <1>3, <2>1 DEF RunReport
<1>4. QED
  BY <1>2, <1>3 DEF RunReport

\* A metric or none.
LEMMA OneMetric ==
  ASSUME NEW S, NEW m \in S, NEW ms, ms = << >> \/ ms = <<m>>
  PROVE  ms \in Seq(S) /\ \A i \in DOMAIN ms : ms[i] = m
<1>1. CASE ms = << >>
  BY <1>1, EmptySeq
<1>2. CASE ms = <<m>>
  <2>1. ms \in Seq(S)
    BY <1>2
  <2>2. Len(ms) = 1 /\ ms[1] = m
    BY <1>2
  <2>3. DOMAIN ms = 1 .. 1
    BY <2>1, <2>2, LenProperties
  <2>4. QED
    BY <2>1, <2>2, <2>3
<1>3. QED
  BY <1>1, <1>2

\* The metrics of a run, up to those of its partitions.
LEMMA RunReports ==
  ASSUME DataInv, DataInv', runtime_metrics = <<Counted>>, NEW rc \in {0, 1}
  PROVE  RunReport(runtime_metrics \o CommandMetrics("run_cmd", rc) \o LogMetrics(files'))
<1>1. session \in Nat
  BY HiddenIrAssumption DEF DataInv
<1>2. RunReport(runtime_metrics)
  <2>1. Counted \in Reported
    BY <1>1 DEF Counted, Metric, Reported
  <2>2. Counted.value = model_.ops
    BY DEF Counted, Metric
  <2>3. /\ runtime_metrics \in Seq(Reported)
        /\ \A i \in DOMAIN runtime_metrics : runtime_metrics[i] = Counted
    BY <2>1, OneMetric
  <2>4. QED
    BY <2>2, <2>3 DEF RunReport
<1>3. /\ CommandMetrics("run_cmd", rc) \in Seq(Reported)
      /\ \A i \in DOMAIN CommandMetrics("run_cmd", rc) :
           CommandMetrics("run_cmd", rc)[i].name # "partition_count"
  <2>1. Metric("exit_code", "run_cmd", session, rc) \in Reported
    BY <1>1 DEF Metric, Reported
  <2>2. Metric("exit_code", "run_cmd", session, rc).name = "exit_code"
    BY DEF Metric
  <2> DEFINE m == Metric("exit_code", "run_cmd", session, rc)
  <2>3. CommandMetrics("run_cmd", rc) = << >> \/ CommandMetrics("run_cmd", rc) = <<m>>
    BY DEF CommandMetrics
  <2> HIDE DEF m
  <2>4. m \in Reported /\ m.name = "exit_code"
    BY <2>1, <2>2 DEF m
  <2>5. /\ CommandMetrics("run_cmd", rc) \in Seq(Reported)
        /\ \A i \in DOMAIN CommandMetrics("run_cmd", rc) : CommandMetrics("run_cmd", rc)[i] = m
    BY <2>3, <2>4, OneMetric
  <2>6. QED
    BY <2>4, <2>5
<1>4. /\ LogMetrics(files') \in Seq(Reported)
      /\ \A i \in DOMAIN LogMetrics(files') : LogMetrics(files')[i].name # "partition_count"
  <2>1. files'["log"] \in {<< >>} \cup {<<c>> : c \in AnyContent}
    BY DEF DataInv, File
  <2>2. CASE files'["log"] = << >>
    <3>1. LogMetrics(files') = << >>
      BY <2>2 DEF LogMetrics
    <3>2. DOMAIN LogMetrics(files') = {}
      BY <3>1
    <3>3. QED
      BY <3>1, <3>2, EmptySeq
  <2>3. CASE files'["log"] # << >>
    <3>1. PICK c \in AnyContent : files'["log"] = <<c>>
      BY <2>1, <2>3
    <3>2. c.by \in Nat /\ c.ops \in Nat
      BY HiddenIrAssumption DEF AnyContent
    <3> DEFINE m == Metric("log", "log", c.by, c.ops)
    <3>3. m \in Reported /\ m.name = "log"
      BY <3>2 DEF Metric, Reported
    <3>4. LogMetrics(files') = << >> \/ LogMetrics(files') = <<m>>
      BY <3>1 DEF LogMetrics
    <3> HIDE DEF m
    <3>5. /\ LogMetrics(files') \in Seq(Reported)
          /\ \A i \in DOMAIN LogMetrics(files') : LogMetrics(files')[i] = m
      BY <3>3, <3>4, OneMetric
    <3>6. QED
      BY <3>3, <3>5
  <2>4. QED
    BY <2>2, <2>3
<1>5. RunReport(runtime_metrics \o CommandMetrics("run_cmd", rc))
  BY <1>2, <1>3, ReportGrows
<1>6. QED
  BY <1>4, <1>5, ReportGrows

\* Every call keeps what has been reported of the run.
LEMMA ReportStep ==
  ASSUME DataInv, DataInv', ModelInv, ReportInv, [Next]_vars
  PROVE  ReportInv'
<1>1. CASE RunEnd
  <2>1. CASE at' = "idle"
    BY <2>1 DEF ReportInv
  <2>2. CASE at' # "idle"
    <3>1. PICK rc \in {0, 1} :
            runtime_metrics' = runtime_metrics \o CommandMetrics("run_cmd", rc)
                                 \o LogMetrics(files') \o PartitionMetrics
      BY <1>1, <2>2 DEF RunEnd, Fails
    <3> DEFINE own == runtime_metrics \o CommandMetrics("run_cmd", rc) \o LogMetrics(files')
    <3>2. runtime_metrics = <<Counted>>
      BY <1>1 DEF RunEnd, ModelInv
    <3>3. RunReport(own)
      BY <3>2, RunReports
    <3>4. UNCHANGED <<session, model_, completed_>>
      BY <1>1 DEF RunEnd, settingVars, modelVars, trackerVars
    <3>5. PartitionMetrics' = PartitionMetrics
      BY <3>4 DEF PartitionMetrics, Metric
    <3>6. PICK o : o = own
      OBVIOUS
    <3> HIDE DEF own
    <3>7. RunReport(o)'
      BY <3>3, <3>4, <3>6 DEF RunReport, Reported
    <3>8. runtime_metrics' = o \o PartitionMetrics'
      BY <3>1, <3>5, <3>6 DEF own
    <3>9. QED
      BY <3>7, <3>8 DEF ReportInv
  <2>3. QED
    BY <2>1, <2>2
<1>2. CASE UNCHANGED vars
  <2>1. UNCHANGED <<at, session, runtime_metrics, model_, completed_>>
    BY <1>2 DEF vars, settingVars, runtimeVars, modelVars, trackerVars
  <2>2. PartitionMetrics' = PartitionMetrics
    BY <2>1 DEF PartitionMetrics, Metric
  <2>3. ASSUME NEW o, RunReport(o)
        PROVE  RunReport(o)'
    BY <2>1, <2>3 DEF RunReport, Reported
  <2>4. QED
    BY <2>1, <2>2, <2>3 DEF ReportInv
<1>3. CASE Next /\ ~RunEnd
  <2>1. at' # "Shutdown"
    BY <1>3 DEF Next, InitializeSession, PrepareArtifacts, CompileBegin, CompileEndFromGraph,
                CompileEndFromDir, LoadBegin, LoadEnd, RunBegin, Shutdown, SubgraphBegin,
                SubgraphEnd, Fails, Loaded
  <2>2. QED
    BY <2>1 DEF ReportInv
<1>4. QED
  BY <1>1, <1>2, <1>3

-----------------------------------------------------------------------------
(* The executors of a model directory. *)

AnyFiles == [File -> {<< >>} \cup {<<c>> : c \in AnyContent}]

WithOperators(fs) == {e \in Executor : fs[e] # << >> /\ fs[e][1].ops > 0}

\* What is in a file, if there is one.
LEMMA FileHolds ==
  ASSUME NEW fs \in AnyFiles, NEW f \in File
  PROVE  /\ fs[f] # << >> => fs[f][1] \in AnyContent
         /\ Len(fs[f]) <= 1
<1>1. fs[f] \in {<< >>} \cup {<<c>> : c \in AnyContent}
  BY DEF AnyFiles
<1>2. CASE fs[f] = << >>
  <2>1. Len(fs[f]) = 0
    BY <1>2, EmptySeq
  <2>2. QED
    BY <1>2, <2>1
<1>3. CASE fs[f] # << >>
  <2>1. PICK c \in AnyContent : fs[f] = <<c>>
    BY <1>1, <1>3
  <2>2. QED
    BY <1>3, <2>1
<1>4. QED
  BY <1>2, <1>3

\* The executors are a list of executors.
LEMMA ExecutorsAre == Executors \in Seq(Executor) /\ IsInjective(Executors)
  BY HiddenIrAssumption, ListIn DEF Executor

\* Those found are the ones with a file, once each.
LEMMA FoundFacts ==
  ASSUME NEW fs
  PROVE  /\ Found(fs) \in Seq(Executor) /\ IsInjective(Found(fs))
         /\ ToSet(Found(fs)) = {e \in Executor : fs[e] # << >>}
<1> DEFINE S == {e \in Executor : fs[e] # << >>}
<1>1. S \subseteq ToSet(Executors)
  BY DEF Executor
<1>2. Found(fs) = Among(Executors, S)
  BY DEF Found
<1> HIDE DEF S
<1>3. Found(fs) \in Seq(Executor) /\ IsInjective(Found(fs))
  <2>1. Among(Executors, S) \in Seq(Executor)
    BY ExecutorsAre, AmongFacts
  <2>2. IsInjective(Among(Executors, S))
    BY ExecutorsAre, AmongKeepsDistinct
  <2>3. QED
    BY <1>2, <2>1, <2>2
<1>4. ToSet(Found(fs)) = ToSet(Executors) \cap S
  BY <1>2, ExecutorsAre, AmongFacts
<1>5. QED
  BY <1>1, <1>3, <1>4 DEF S

\* Those parsed are of those found, once each.
LEMMA ParsedFacts ==
  ASSUME NEW fs
  PROVE  Parsed(fs) \in Seq(Executor) /\ IsInjective(Parsed(fs))
<1>1. PICK found : found = Found(fs)
  OBVIOUS
<1>2. found \in Seq(Executor) /\ IsInjective(found)
  BY <1>1, FoundFacts
<1>3. Len(found) \in Nat /\ DOMAIN found = 1 .. Len(found)
  BY <1>2, LenProperties
<1>4. PICK bad : bad = {i \in DOMAIN found : ~fs[found[i]][1].readable}
  OBVIOUS
<1>5. Parsed(fs) = IF bad = {} THEN found ELSE SubSeq(found, 1, Min(bad) - 1)
  BY <1>1, <1>4 DEF Parsed
<1>6. CASE bad = {}
  BY <1>2, <1>5, <1>6
<1>7. CASE bad # {}
  <2>1. bad \in SUBSET (1 .. Len(found))
    BY <1>3, <1>4
  <2>2. Min(bad) \in bad
    BY <1>3, <1>7, <2>1, LeastIs
  <2>3. PICK m \in 0 .. Len(found) - 1 : m = Min(bad) - 1
    <3>1. Min(bad) \in 1 .. Len(found)
      BY <2>1, <2>2
    <3>2. Min(bad) - 1 \in 0 .. Len(found) - 1
      BY <1>3, <3>1
    <3>3. QED
      BY <3>2
  <2>4. Parsed(fs) = SubSeq(found, 1, m)
    BY <1>5, <1>7, <2>3
  <2>5. m \in Int /\ m <= Len(found) /\ \A i \in 1 .. m : i \in DOMAIN found
    BY <1>3, <2>3
  <2>6. \A i \in 1 .. m : found[i] \in Executor
    BY <1>2, <2>5, ElementOfSeq, <1>3
  <2>7. PICK s : s = SubSeq(found, 1, m)
    OBVIOUS
  <2>8. /\ s \in Seq(Executor) /\ Len(s) = IF 1 <= m THEN m - 1 + 1 ELSE 0
        /\ \A i \in 1 .. m - 1 + 1 : s[i] = found[1 + i - 1]
    BY <2>5, <2>6, <2>7, SubSeqProperties
  <2>9. DOMAIN s = 1 .. m /\ \A i \in 1 .. m : s[i] = found[i]
    <3>1. m - 1 + 1 = m /\ (IF 1 <= m THEN m - 1 + 1 ELSE 0) = m
      BY <1>3, <2>3
    <3>2. DOMAIN s = 1 .. Len(s)
      BY <2>8, LenProperties
    <3>3. \A i \in 1 .. m : 1 + i - 1 = i
      BY <2>5
    <3>4. QED
      BY <2>8, <3>1, <3>2, <3>3
  <2>10. IsInjective(s)
    BY <1>2, <2>5, <2>9 DEF IsInjective
  <2>11. QED
    BY <2>4, <2>7, <2>8, <2>10
<1>8. QED
  BY <1>6, <1>7

\* The graphs are of executors with operators, once each, and of all of them
\* if every file could be read.
LEMMA GraphsFacts ==
  ASSUME NEW fs
  PROVE  /\ Graphs(fs) \in Seq(Executor) /\ IsInjective(Graphs(fs))
         /\ ToSet(Graphs(fs)) \subseteq WithOperators(fs)
         /\ Parsed(fs) = Found(fs) => ToSet(Graphs(fs)) = WithOperators(fs)
<1>1. Graphs(fs) = Among(Parsed(fs), WithOperators(fs))
  BY DEF Graphs, WithOperators
<1>2. Parsed(fs) \in Seq(Executor) /\ IsInjective(Parsed(fs))
  BY ParsedFacts
<1>3. Graphs(fs) \in Seq(Executor) /\ IsInjective(Graphs(fs))
  <2>1. Among(Parsed(fs), WithOperators(fs)) \in Seq(Executor)
    BY <1>2, AmongFacts
  <2>2. IsInjective(Among(Parsed(fs), WithOperators(fs)))
    BY <1>2, AmongKeepsDistinct
  <2>3. QED
    BY <1>1, <2>1, <2>2
<1>4. ToSet(Graphs(fs)) = ToSet(Parsed(fs)) \cap WithOperators(fs)
  BY <1>1, <1>2, AmongFacts
<1>5. WithOperators(fs) \subseteq ToSet(Found(fs))
  BY FoundFacts DEF WithOperators
<1>6. QED
  BY <1>3, <1>4, <1>5

\* There is a largest graph, and it is one of them.
LEMMA LargestIs ==
  ASSUME NEW fs \in AnyFiles, Graphs(fs) # << >>
  PROVE  /\ Largest(fs) \in ToSet(Graphs(fs)) /\ Largest(fs) \in WithOperators(fs)
         /\ \A e \in ToSet(Graphs(fs)) : fs[e][1].ops <= fs[Largest(fs)][1].ops
<1>1. PICK graphs : graphs = Graphs(fs)
  OBVIOUS
<1>2. graphs \in Seq(Executor) /\ ToSet(graphs) \subseteq WithOperators(fs)
  BY <1>1, GraphsFacts
<1>3. Len(graphs) \in Nat /\ DOMAIN graphs = 1 .. Len(graphs) /\ 1 \in DOMAIN graphs
  BY <1>1, <1>2, LenProperties, EmptySeq
<1>4. ASSUME NEW j \in DOMAIN graphs
      PROVE  fs[graphs[j]][1].ops \in 1 .. MaxOps
  <2>1. graphs[j] \in WithOperators(fs)
    BY <1>2 DEF ToSet
  <2>2. graphs[j] \in File /\ fs[graphs[j]] # << >> /\ fs[graphs[j]][1].ops > 0
    BY <2>1 DEF WithOperators, File
  <2>3. fs[graphs[j]][1] \in AnyContent
    BY <2>2, FileHolds
  <2>4. QED
    BY <2>2, <2>3, HiddenIrAssumption DEF AnyContent
<1>5. PICK size : size = [j \in DOMAIN graphs |-> fs[graphs[j]][1].ops]
  OBVIOUS
<1>6. \A j \in DOMAIN graphs : size[j] \in 1 .. MaxOps /\ size[j] = fs[graphs[j]][1].ops
  BY <1>4, <1>5
<1>7. PICK sizes : sizes = {size[j] : j \in DOMAIN graphs}
  OBVIOUS
<1>8. sizes \in SUBSET (1 .. MaxOps) /\ sizes # {} /\ MaxOps \in Nat
  BY <1>3, <1>6, <1>7, HiddenIrAssumption
<1>9. Max(sizes) \in sizes /\ \A k \in sizes : k <= Max(sizes)
  BY <1>8, GreatestIs
<1>10. PICK top \in DOMAIN graphs : \A k \in DOMAIN graphs : size[k] <= size[top]
  BY <1>7, <1>9
<1>11. PICK S : S = {j \in DOMAIN graphs : \A k \in DOMAIN graphs :
                       fs[graphs[k]][1].ops <= fs[graphs[j]][1].ops}
  OBVIOUS
<1>12. S \in SUBSET (1 .. Len(graphs)) /\ S # {}
  BY <1>3, <1>6, <1>10, <1>11
<1>13. Min(S) \in S
  BY <1>3, <1>12, LeastIs
<1>14. Largest(fs) = graphs[Min(S)]
  BY <1>1, <1>11 DEF Largest
<1>15. Largest(fs) \in ToSet(graphs)
  BY <1>3, <1>12, <1>13, <1>14 DEF ToSet
<1>16. ASSUME NEW e \in ToSet(graphs)
       PROVE  fs[e][1].ops <= fs[Largest(fs)][1].ops
  <2>1. PICK k \in DOMAIN graphs : e = graphs[k]
    BY DEF ToSet
  <2>2. QED
    BY <1>11, <1>13, <1>14, <2>1
<1>17. QED
  BY <1>1, <1>2, <1>15, <1>16

\* A list made of four, of which only the second has elements of S.
MadeOf(c, a, g, x, y) ==
  IsList(a) /\ IsList(g) /\ IsList(x) /\ IsList(y) /\ c = a \o g \o x \o y

OnlySecond(a, x, y, S) == ToSet(a) \cap S = {} /\ ToSet(x) \cap S = {} /\ ToSet(y) \cap S = {}

\* Where these are.
LEMMA Between ==
  ASSUME NEW c, NEW a, NEW g, NEW x, NEW y, MadeOf(c, a, g, x, y), NEW S, OnlySecond(a, x, y, S)
  PROVE  /\ IsList(c) /\ ToSet(c) = ToSet(a) \cup ToSet(g) \cup ToSet(x) \cup ToSet(y)
         /\ Len(a) \in Nat /\ DOMAIN g = 1 .. Len(g)
         /\ \A j \in DOMAIN g : Len(a) + j \in DOMAIN c /\ c[Len(a) + j] = g[j]
         /\ \A i \in DOMAIN c : c[i] \in S
              => i \in Nat /\ i - Len(a) \in DOMAIN g /\ c[i] = g[i - Len(a)]
<1>0. /\ IsList(a) /\ IsList(g) /\ IsList(x) /\ IsList(y) /\ c = a \o g \o x \o y
      /\ ToSet(a) \cap S = {} /\ ToSet(x) \cap S = {} /\ ToSet(y) \cap S = {}
  BY DEF MadeOf, OnlySecond
<1>1. PICK b : b = a \o g
  OBVIOUS
<1>2. /\ IsList(b) /\ Len(b) = Len(a) + Len(g) /\ Len(a) \in Nat /\ Len(g) \in Nat
      /\ DOMAIN a = 1 .. Len(a) /\ DOMAIN g = 1 .. Len(g)
      /\ \A i \in 1 .. Len(a) : b[i] = a[i]
      /\ \A i \in 1 .. Len(g) : b[Len(a) + i] = g[i]
      /\ ToSet(b) = ToSet(a) \cup ToSet(g)
  BY <1>0, <1>1, ListConcat, ConcatSet
<1>3. PICK e : e = b \o x
  OBVIOUS
<1>4. /\ IsList(e) /\ Len(e) = Len(b) + Len(x) /\ Len(x) \in Nat /\ DOMAIN x = 1 .. Len(x)
      /\ \A i \in 1 .. Len(b) : e[i] = b[i]
      /\ \A i \in 1 .. Len(x) : e[Len(b) + i] = x[i]
      /\ ToSet(e) = ToSet(b) \cup ToSet(x)
  <2>1. IsList(b)
    BY <1>2
  <2>2. ToSet(e) = ToSet(b) \cup ToSet(x)
    BY <1>0, <1>3, <2>1, ConcatSet
  <2>3. QED
    BY <1>0, <1>3, <2>1, <2>2, ListConcat
<1>5. PICK d : d = e \o y
  OBVIOUS
<1>6. /\ IsList(d) /\ DOMAIN d = 1 .. Len(e) + Len(y) /\ Len(y) \in Nat /\ DOMAIN y = 1 .. Len(y)
      /\ \A i \in 1 .. Len(e) : d[i] = e[i]
      /\ \A i \in 1 .. Len(y) : d[Len(e) + i] = y[i]
      /\ ToSet(d) = ToSet(e) \cup ToSet(y)
  <2>1. IsList(e) /\ IsList(y)
    BY <1>0, <1>4
  <2>2. ToSet(d) = ToSet(e) \cup ToSet(y)
    BY <1>5, <2>1, ConcatSet
  <2>3. /\ IsList(e \o y) /\ Len(y) \in Nat
        /\ DOMAIN y = 1 .. Len(y) /\ DOMAIN (e \o y) = 1 .. Len(e) + Len(y)
        /\ \A i \in 1 .. Len(e) : (e \o y)[i] = e[i]
        /\ \A i \in 1 .. Len(y) : (e \o y)[Len(e) + i] = y[i]
    BY <2>1, ListConcat
  <2>4. QED
    BY <1>5, <2>2, <2>3
<1>7. ASSUME NEW j \in DOMAIN g
      PROVE  Len(a) + j \in DOMAIN d /\ d[Len(a) + j] = g[j]
  <2>1. /\ Len(a) + j \in 1 .. Len(b) /\ Len(a) + j \in 1 .. Len(e)
        /\ Len(a) + j \in 1 .. Len(e) + Len(y)
    BY <1>2, <1>4, <1>6
  <2>2. QED
    BY <1>2, <1>4, <1>6, <2>1
<1>8. ASSUME NEW i \in DOMAIN d, d[i] \in S
      PROVE  i \in Nat /\ i - Len(a) \in DOMAIN g /\ d[i] = g[i - Len(a)]
  <2>1. i \in 1 .. Len(a) + Len(g) + Len(x) + Len(y)
    BY <1>2, <1>4, <1>6
  <2>2. CASE i > Len(e)
    <3>1. i - Len(e) \in 1 .. Len(y) /\ Len(e) + (i - Len(e)) = i
      BY <1>2, <1>4, <1>6, <2>1, <2>2
    <3>2. d[i] = y[i - Len(e)]
      BY <1>6, <3>1
    <3>3. y[i - Len(e)] \in ToSet(y)
      BY <1>6, <3>1 DEF ToSet
    <3>4. QED
      BY <1>0, <1>8, <3>2, <3>3
  <2>3. CASE i <= Len(e) /\ i > Len(b)
    <3>1. i - Len(b) \in 1 .. Len(x) /\ Len(b) + (i - Len(b)) = i /\ i \in 1 .. Len(e)
      BY <1>2, <1>4, <2>1, <2>3
    <3>2. d[i] = x[i - Len(b)]
      BY <1>4, <1>6, <3>1
    <3>3. x[i - Len(b)] \in ToSet(x)
      BY <1>4, <3>1 DEF ToSet
    <3>4. QED
      BY <1>0, <1>8, <3>2, <3>3
  <2>4. CASE i <= Len(a)
    <3>1. i \in 1 .. Len(a) /\ i \in 1 .. Len(b) /\ i \in 1 .. Len(e)
      BY <1>2, <1>4, <2>1, <2>4
    <3>2. d[i] = a[i]
      BY <1>2, <1>4, <1>6, <3>1
    <3>3. a[i] \in ToSet(a)
      BY <1>2, <3>1 DEF ToSet
    <3>4. QED
      BY <1>0, <1>8, <3>2, <3>3
  <2>5. CASE i > Len(a) /\ i <= Len(b)
    <3>1. /\ i - Len(a) \in 1 .. Len(g) /\ Len(a) + (i - Len(a)) = i
          /\ i \in 1 .. Len(b) /\ i \in 1 .. Len(e) /\ i \in Nat
      BY <1>2, <1>4, <2>1, <2>5
    <3>2. QED
      BY <1>2, <1>4, <1>6, <3>1
  <2>6. i > Len(e) \/ (i <= Len(e) /\ i > Len(b)) \/ i <= Len(a) \/ (i > Len(a) /\ i <= Len(b))
    BY <1>2, <1>4, <2>1
  <2>7. QED
    BY <2>2, <2>3, <2>4, <2>5, <2>6
<1>9. d = c
  BY <1>0, <1>1, <1>3, <1>5
<1>10. ToSet(d) = ToSet(a) \cup ToSet(g) \cup ToSet(x) \cup ToSet(y)
  BY <1>2, <1>4, <1>6
<1>11. QED
  BY <1>2, <1>6, <1>7, <1>8, <1>9, <1>10

\* The metrics of a command, of the report, and of the executors.
LEMMA CommandReports ==
  ASSUME NEW cmd, NEW rc \in {0, 1}
  PROVE  /\ IsList(CommandMetrics(cmd, rc))
         /\ \A m \in ToSet(CommandMetrics(cmd, rc)) : m.name = "exit_code" /\ m.value \in Nat
<1>1. PICK m : m = Metric("exit_code", cmd, session, rc)
  OBVIOUS
<1>2. m.name = "exit_code" /\ m.value \in Nat
  BY <1>1 DEF Metric
<1>3. CASE cmd \in given
  <2>1. CommandMetrics(cmd, rc) = <<m>>
    BY <1>1, <1>3 DEF CommandMetrics
  <2>2. IsList(<<m>>) /\ ToSet(<<m>>) = {m}
    BY ListOfOne DEF ToSet
  <2>3. QED
    BY <1>2, <2>1, <2>2
<1>4. CASE cmd \notin given
  <2>1. CommandMetrics(cmd, rc) = << >>
    BY <1>4 DEF CommandMetrics
  <2>2. IsList(<< >>) /\ ToSet(<< >>) = {}
    BY ListOfNone DEF ToSet
  <2>3. QED
    BY <2>1, <2>2
<1>5. QED
  BY <1>3, <1>4

\* The second of the three.
LEMMA ReportReports ==
  ASSUME NEW fs \in AnyFiles
  PROVE  /\ IsList(ReportMetrics(fs))
         /\ \A m \in ToSet(ReportMetrics(fs)) : m.name = "report" /\ m.value \in Nat
<1>1. CASE "report" \in given /\ fs["report"] # << >>
  <2>1. fs["report"][1] \in AnyContent
    BY <1>1, FileHolds DEF File
  <2>2. PICK c \in AnyContent : c = fs["report"][1]
    BY <2>1
  <2>3. PICK m : m = Metric("report", "report", c.by, c.ops)
    OBVIOUS
  <2>4. m.name = "report" /\ m.value \in Nat
    BY <2>3, HiddenIrAssumption DEF Metric, AnyContent
  <2>5. ReportMetrics(fs) = <<m>>
    BY <1>1, <2>2, <2>3 DEF ReportMetrics
  <2>6. IsList(<<m>>) /\ ToSet(<<m>>) = {m}
    BY ListOfOne DEF ToSet
  <2>7. QED
    BY <2>4, <2>5, <2>6
<1>2. CASE ~("report" \in given /\ fs["report"] # << >>)
  <2>1. ReportMetrics(fs) = << >>
    BY <1>2 DEF ReportMetrics
  <2>2. IsList(<< >>) /\ ToSet(<< >>) = {}
    BY ListOfNone DEF ToSet
  <2>3. QED
    BY <2>1, <2>2
<1>3. QED
  BY <1>1, <1>2

\* The third.
LEMMA ExecutorReports ==
  ASSUME NEW fs \in AnyFiles
  PROVE  /\ IsList(ExecutorMetrics(fs))
         /\ DOMAIN ExecutorMetrics(fs) = DOMAIN Graphs(fs)
         /\ \A i \in DOMAIN Graphs(fs) :
              /\ ExecutorMetrics(fs)[i].name = "cirh_operators"
              /\ ExecutorMetrics(fs)[i].source = Graphs(fs)[i]
              /\ ExecutorMetrics(fs)[i].value = fs[Graphs(fs)[i]][1].ops
         /\ \A m \in ToSet(ExecutorMetrics(fs)) : m.name = "cirh_operators" /\ m.value \in Nat
<1>1. PICK graphs : graphs = Graphs(fs)
  OBVIOUS
<1>2. graphs \in Seq(Executor) /\ ToSet(graphs) \subseteq WithOperators(fs)
  BY <1>1, GraphsFacts
<1>3. Len(graphs) \in Nat /\ DOMAIN graphs = 1 .. Len(graphs)
  BY <1>2, LenProperties
<1>4. PICK ms : ms = ExecutorMetrics(fs)
  OBVIOUS
<1>5. ms = [i \in DOMAIN graphs |->
              Metric("cirh_operators", graphs[i], fs[graphs[i]][1].by, fs[graphs[i]][1].ops)]
  BY <1>1, <1>4 DEF ExecutorMetrics
<1>6. ms = [i \in 1 .. Len(graphs) |-> ms[i]]
  BY <1>3, <1>5
<1>7. IsList(ms) /\ DOMAIN ms = DOMAIN graphs
  BY <1>3, <1>6, FunctionIsList
<1>8. ASSUME NEW i \in DOMAIN graphs
      PROVE  /\ ms[i].name = "cirh_operators" /\ ms[i].source = graphs[i]
             /\ ms[i].value = fs[graphs[i]][1].ops /\ ms[i].value \in Nat
  <2>1. graphs[i] \in WithOperators(fs)
    BY <1>2 DEF ToSet
  <2>2. graphs[i] \in File /\ fs[graphs[i]] # << >>
    BY <2>1 DEF WithOperators, File
  <2>3. fs[graphs[i]][1] \in AnyContent
    BY <2>2, FileHolds
  <2>4. fs[graphs[i]][1].ops \in Nat
    BY <2>3, HiddenIrAssumption DEF AnyContent
  <2>5. ms[i] = Metric("cirh_operators", graphs[i], fs[graphs[i]][1].by, fs[graphs[i]][1].ops)
    BY <1>5
  <2>6. QED
    BY <2>4, <2>5 DEF Metric
<1>9. \A m \in ToSet(ms) : m.name = "cirh_operators" /\ m.value \in Nat
  BY <1>7, <1>8 DEF ToSet
<1>10. QED
  BY <1>1, <1>4, <1>7, <1>8, <1>9

-----------------------------------------------------------------------------
(* What a compile with a model directory describes. *)

\* Before the compile ends, nothing is known of it, and the adapter holds what it
\* brought into the session.
FreshInv ==
  /\ at \in {"PrepareArtifacts", "CompileBegin", "CompileEnd"}
       => cirh_path = "none" /\ cirh_ops_ = kept
  /\ at \in {"CompileBegin", "CompileEnd"}
       => compile_metrics = << >> /\ outputs \in {<< >>, <<"report">>}

\* Every call keeps that.
LEMMA FreshStep ==
  ASSUME FreshInv, [Next]_vars
  PROVE  FreshInv'
<1>1. CASE InitializeSession
  BY <1>1 DEF InitializeSession, FreshInv
<1>2. CASE PrepareArtifacts
  BY <1>2 DEF PrepareArtifacts, FreshInv, Fails, contextVars, modelVars, settingVars
<1>3. CASE CompileBegin
  BY <1>3 DEF CompileBegin, FreshInv, Fails, contextVars, compileVars, modelVars, settingVars
<1>4. CASE UNCHANGED vars
  BY <1>4 DEF vars, FreshInv, contextVars, compileVars, modelVars, settingVars
<1>5. CASE Next /\ ~InitializeSession /\ ~PrepareArtifacts /\ ~CompileBegin
  <2>1. at' \notin {"PrepareArtifacts", "CompileBegin", "CompileEnd"}
    BY <1>5 DEF Next, CompileEndFromGraph, CompileEndFromDir, LoadBegin, LoadEnd, RunBegin,
                RunEnd, Shutdown, SubgraphBegin, SubgraphEnd, Fails, Loaded
  <2>2. QED
    BY <2>1 DEF FreshInv
<1>6. QED
  BY <1>1, <1>2, <1>3, <1>4, <1>5 DEF Next

\* The outputs of a compile: the report perhaps, and the graphs.
LEMMA OutputsAre ==
  ASSUME NEW old \in {<< >>, <<"report">>}, NEW graphs \in Seq(Executor)
  PROVE  /\ ToSet(old \o graphs) \subseteq Executor \cup {"report"}
         /\ ToSet(old \o graphs) \cap Executor = ToSet(graphs)
<1>1. IsList(old) /\ ToSet(old) \subseteq {"report"}
  <2>1. IsList(<<"report">>) /\ ToSet(<<"report">>) = {"report"}
    BY ListOfOne DEF ToSet
  <2>2. IsList(<< >>) /\ ToSet(<< >>) = {}
    BY ListOfNone DEF ToSet
  <2>3. QED
    BY <2>1, <2>2
<1>2. IsList(graphs) /\ ToSet(graphs) \subseteq Executor
  BY SeqIsList, ElementOfSeq, LenProperties DEF ToSet
<1>3. ToSet(old \o graphs) = ToSet(old) \cup ToSet(graphs)
  BY <1>1, <1>2, ConcatSet
<1>4. "report" \notin Executor
  BY HiddenIrAssumption
<1>5. QED
  BY <1>1, <1>2, <1>3, <1>4

\* The metrics of a compile that went through.
CompileReport(ms, fs, rc, d) ==
  /\ d.name = "cirh_executors"
  /\ ms = (<< >> \o CommandMetrics("compile_cmd", rc)) \o ExecutorMetrics(fs) \o <<d>>
            \o ReportMetrics(fs)

\* Those of the executors are among them, after the first n.
ReportedAfter(n, ms, fs) ==
  /\ \A j \in DOMAIN Graphs(fs) : n + j \in DOMAIN ms /\ ms[n + j] = ExecutorMetrics(fs)[j]
  /\ \A i \in DOMAIN ms : ms[i].name = "cirh_operators"
       => i \in Nat /\ i - n \in DOMAIN Graphs(fs) /\ ms[i] = ExecutorMetrics(fs)[i - n]

\* Once a compile has gone through there is such a number.
LEMMA CompileReports ==
  ASSUME NEW fs \in AnyFiles, NEW rc \in {0, 1}, NEW d, NEW ms, CompileReport(ms, fs, rc, d)
  PROVE  \E n \in Nat : ReportedAfter(n, ms, fs)
<1> DEFINE own(s) == {m \in ToSet(s) : m.name = "cirh_operators"}
<1>1. PICK a : a = << >> \o CommandMetrics("compile_cmd", rc)
  OBVIOUS
<1>2. IsList(a) /\ \A m \in ToSet(a) : m.name = "exit_code"
  <2>1. IsList(CommandMetrics("compile_cmd", rc))
        /\ \A m \in ToSet(CommandMetrics("compile_cmd", rc)) : m.name = "exit_code"
    BY CommandReports
  <2>2. IsList(<< >>) /\ ToSet(<< >>) = {}
    BY ListOfNone DEF ToSet
  <2>3. IsList(a)
    BY <1>1, <2>1, <2>2, ListConcat
  <2>4. ToSet(a) = ToSet(<< >>) \cup ToSet(CommandMetrics("compile_cmd", rc))
    BY <1>1, <2>1, <2>2, ConcatSet
  <2>5. QED
    BY <2>1, <2>2, <2>3, <2>4
<1>3. PICK g : g = ExecutorMetrics(fs)
  OBVIOUS
<1>4. IsList(g) /\ DOMAIN g = DOMAIN Graphs(fs)
  BY <1>3, ExecutorReports
<1>5. PICK x : x = <<d>>
  OBVIOUS
<1>6. IsList(x) /\ \A m \in ToSet(x) : m.name = "cirh_executors"
  BY <1>5, ListOfOne DEF ToSet, CompileReport
<1>7. PICK y : y = ReportMetrics(fs)
  OBVIOUS
<1>8. IsList(y) /\ \A m \in ToSet(y) : m.name = "report"
  BY <1>7, ReportReports
<1>9. PICK S : S = own(ms)
  OBVIOUS
<1>10. ToSet(a) \cap S = {} /\ ToSet(x) \cap S = {} /\ ToSet(y) \cap S = {}
  BY <1>2, <1>6, <1>8, <1>9
<1>11. ms = a \o g \o x \o y
  BY <1>1, <1>3, <1>5, <1>7 DEF CompileReport
<1>12. /\ Len(a) \in Nat
       /\ \A j \in DOMAIN g : Len(a) + j \in DOMAIN ms /\ ms[Len(a) + j] = g[j]
       /\ \A i \in DOMAIN ms : ms[i] \in S
            => i \in Nat /\ i - Len(a) \in DOMAIN g /\ ms[i] = g[i - Len(a)]
  <2>1. MadeOf(ms, a, g, x, y)
    BY <1>2, <1>4, <1>6, <1>8, <1>11 DEF MadeOf
  <2>2. OnlySecond(a, x, y, S)
    BY <1>10 DEF OnlySecond
  <2>3. QED
    BY <2>1, <2>2, Between
<1>13. \A i \in DOMAIN ms : ms[i].name = "cirh_operators" => ms[i] \in S
  BY <1>9 DEF ToSet
<1>14. ReportedAfter(Len(a), ms, fs)
  BY <1>3, <1>4, <1>12, <1>13 DEF ReportedAfter
<1>15. QED
  BY <1>12, <1>14

\* The two parts of the claim: what is described, and what is reported.
Described(fs, path, ops) ==
  IF WithOperators(fs) = {}
  THEN path = "empty" /\ ops = kept /\ kept.ops > 0
  ELSE /\ path \in WithOperators(fs) /\ ops = ParsedModel(fs[path][1])
       /\ \A e \in WithOperators(fs) : fs[e][1].ops <= ops.ops

OnceEach(ms, outs, fs) ==
  LET own == {i \in DOMAIN ms : ms[i].name = "cirh_operators"}
  IN /\ {ms[i].source : i \in own} = WithOperators(fs)
     /\ ToSet(outs) \cap Executor = WithOperators(fs)
     /\ \A i, j \in own : ms[i].source = ms[j].source => i = j
     /\ \A i \in own : ms[i].value = fs[ms[i].source][1].ops

LEMMA ModelIsLargestIs ==
  ModelIsLargest <=> (Compiled /\ FromModelDir => /\ Described(files, cirh_path, metadata_ops)
                                                  /\ OnceEach(compile_metrics, outputs, files))
<1>1. Full = WithOperators(files)
  BY DEF Full, WithOperators
<1>2. QED
  BY <1>1 DEF ModelIsLargest, Described, OnceEach

\* And after a step.
LEMMA ModelIsLargestNext ==
  ASSUME kept' = kept,
         Compiled' /\ FromModelDir' => /\ Described(files', cirh_path', metadata_ops')
                                       /\ OnceEach(compile_metrics', outputs', files')
  PROVE  ModelIsLargest'
<1>1. Full' = WithOperators(files')
  BY DEF Full, WithOperators
<1>2. ToSet(outputs)' = ToSet(outputs')
  BY DEF ToSet
<1>3. SUFFICES ASSUME Compiled', FromModelDir'
               PROVE  ModelIsLargest'
  BY DEF ModelIsLargest
<1>4. Described(files', cirh_path', metadata_ops')
  BY <1>3
<1>5. OnceEach(compile_metrics', outputs', files')
  BY <1>3
<1>6. IF Full' = {}
      THEN cirh_path' = "empty" /\ metadata_ops' = kept' /\ kept'.ops > 0
      ELSE /\ cirh_path' \in Full' /\ metadata_ops' = ParsedModel(files'[cirh_path'][1])
           /\ \A e \in Full' : files'[e][1].ops <= metadata_ops'.ops
  BY <1>1, <1>4 DEF Described
<1>7. PICK ms : ms = compile_metrics'
  OBVIOUS
<1>8. PICK own : own = {i \in DOMAIN ms : ms[i].name = "cirh_operators"}
  OBVIOUS
<1>9. /\ {ms[i].source : i \in own} = Full'
      /\ ToSet(outputs)' \cap Executor = Full'
      /\ \A i, j \in own : ms[i].source = ms[j].source => i = j
      /\ \A i \in own : ms[i].value = files'[ms[i].source][1].ops
  BY <1>1, <1>2, <1>5, <1>7, <1>8 DEF OnceEach
<1>10. QED
  BY <1>6, <1>7, <1>8, <1>9 DEF ModelIsLargest, ParsedModel

\* A compile that went through describes the largest graph and reports them
\* all.
LEMMA LargestDescribed ==
  ASSUME DataInv', FreshInv, CompileEndFromDir, at' # "idle"
  PROVE  ModelIsLargest'
<1>1. PICK fs : fs = files'
  OBVIOUS
<1>2. fs \in AnyFiles
  BY <1>1 DEF DataInv, AnyFiles
<1>3. PICK rc \in {0, 1} :
        /\ Parsed(fs) = Found(fs)
        /\ cirh_ops_' = IF Graphs(fs) = << >> THEN cirh_ops_ ELSE ParsedModel(fs[Largest(fs)][1])
        /\ cirh_ops_'.ops > 0
        /\ outputs' = outputs \o Graphs(fs)
        /\ model_' = cirh_ops_' /\ metadata_ops' = model_'
        /\ cirh_path' = IF Graphs(fs) = << >> THEN "empty" ELSE Largest(fs)
        /\ compile_metrics' =
             (compile_metrics \o CommandMetrics("compile_cmd", rc)) \o ExecutorMetrics(fs)
               \o <<Metric("cirh_executors", "dir", session, Len(Found(fs)))>>
               \o ReportMetrics(fs)
  BY <1>1 DEF CompileEndFromDir, Fails
<1>4. /\ compile_metrics = << >> /\ outputs \in {<< >>, <<"report">>}
      /\ cirh_ops_ = kept /\ kept' = kept
  BY DEF CompileEndFromDir, FreshInv, settingVars
<1>5. PICK graphs : graphs = Graphs(fs)
  OBVIOUS
<1>6. graphs \in Seq(Executor) /\ IsInjective(graphs) /\ ToSet(graphs) = WithOperators(fs)
  BY <1>3, <1>5, GraphsFacts
<1>7. Described(fs, cirh_path', metadata_ops')
  <2>1. CASE graphs = << >>
    <3>1. WithOperators(fs) = {}
      BY <1>6, <2>1, ListOfNone DEF ToSet
    <3>2. cirh_path' = "empty" /\ metadata_ops' = kept /\ kept.ops > 0
      BY <1>3, <1>4, <1>5, <2>1
    <3>3. QED
      BY <3>1, <3>2 DEF Described
  <2>2. CASE graphs # << >>
    <3>1. PICK top : top = Largest(fs)
      OBVIOUS
    <3>2. top \in WithOperators(fs) /\ \A e \in WithOperators(fs) : fs[e][1].ops <= fs[top][1].ops
      BY <1>2, <1>5, <1>6, <2>2, <3>1, LargestIs
    <3>3. cirh_path' = top /\ metadata_ops' = ParsedModel(fs[top][1])
      BY <1>3, <1>5, <2>2, <3>1
    <3>4. metadata_ops'.ops = fs[top][1].ops
      BY <3>3 DEF ParsedModel
    <3>5. QED
      BY <3>2, <3>3, <3>4 DEF Described
  <2>3. QED
    BY <2>1, <2>2
<1>8. PICK ms : ms = compile_metrics'
  OBVIOUS
<1>9. PICK g : g = ExecutorMetrics(fs)
  OBVIOUS
<1>10. \A j \in DOMAIN graphs : /\ g[j].name = "cirh_operators" /\ g[j].source = graphs[j]
                                /\ g[j].value = fs[graphs[j]][1].ops
  BY <1>2, <1>5, <1>9, ExecutorReports
<1>11. PICK n \in Nat :
         /\ \A j \in DOMAIN graphs : n + j \in DOMAIN ms /\ ms[n + j] = g[j]
         /\ \A i \in DOMAIN ms : ms[i].name = "cirh_operators"
              => i \in Nat /\ i - n \in DOMAIN graphs /\ ms[i] = g[i - n]
  <2>1. PICK d : d = Metric("cirh_executors", "dir", session, Len(Found(fs)))
    OBVIOUS
  <2>2. d.name = "cirh_executors"
    BY <2>1 DEF Metric
  <2>3. CompileReport(ms, fs, rc, d)
    BY <1>3, <1>4, <1>8, <2>1, <2>2 DEF CompileReport
  <2>4. PICK k \in Nat : ReportedAfter(k, ms, fs)
    BY <1>2, <2>3, CompileReports
  <2>5. QED
    BY <1>5, <1>9, <2>4 DEF ReportedAfter
<1>12. PICK own : own = {i \in DOMAIN ms : ms[i].name = "cirh_operators"}
  OBVIOUS
<1>13. \A j \in DOMAIN graphs : n + j \in own /\ ms[n + j].source = graphs[j]
  BY <1>10, <1>11, <1>12
<1>14. \A i \in own : /\ i \in Nat /\ i - n \in DOMAIN graphs /\ ms[i].source = graphs[i - n]
                      /\ ms[i].value = fs[ms[i].source][1].ops
  BY <1>10, <1>11, <1>12
<1>15. {ms[i].source : i \in own} = WithOperators(fs)
  <2>1. ASSUME NEW i \in own
        PROVE  ms[i].source \in ToSet(graphs)
    BY <1>14 DEF ToSet
  <2>2. ASSUME NEW e \in ToSet(graphs)
        PROVE  \E i \in own : ms[i].source = e
    <3>1. PICK j \in DOMAIN graphs : e = graphs[j]
      BY DEF ToSet
    <3>2. n + j \in own /\ ms[n + j].source = graphs[j]
      BY <1>13
    <3>3. QED
      BY <3>1, <3>2
  <2>3. QED
    BY <1>6, <2>1, <2>2
<1>16. ASSUME NEW i \in own, NEW j \in own, ms[i].source = ms[j].source
       PROVE  i = j
  <2>1. /\ i \in Nat /\ j \in Nat /\ i - n \in DOMAIN graphs /\ j - n \in DOMAIN graphs
        /\ graphs[i - n] = graphs[j - n]
    BY <1>14, <1>16
  <2>2. i - n = j - n
    BY <1>6, <2>1 DEF IsInjective
  <2>3. QED
    BY <2>1, <2>2
<1>17. ToSet(outputs') \cap Executor = WithOperators(fs)
  BY <1>3, <1>4, <1>5, <1>6, OutputsAre
<1>18. OnceEach(ms, outputs', fs)
  BY <1>12, <1>14, <1>15, <1>16, <1>17 DEF OnceEach
<1>19. QED
  BY <1>1, <1>4, <1>7, <1>8, <1>18, ModelIsLargestNext

\* A command of the run writes the log and nothing else.
LEMMA RunKeepsExecutors ==
  ASSUME DataInv, NEW rc, MaybeRun("run_cmd", {"log"}, rc), NEW e \in Executor
  PROVE  files'[e] = files[e]
<1>1. e \in File /\ e \notin {"log"}
  BY HiddenIrAssumption DEF File
<1>2. CASE UNCHANGED files
  BY <1>2
<1>3. CASE Command({"log"})
  BY <1>1, <1>3 DEF Command
<1>4. QED
  BY <1>2, <1>3 DEF MaybeRun

\* A description stays as long as what it is about.
LEMMA DescriptionStays ==
  ASSUME ModelIsLargest, Compiled' => Compiled, FromModelDir' <=> FromModelDir,
         UNCHANGED <<cirh_path, kept, compile_metrics, outputs, metadata_ops>>,
         \A e \in Executor : files'[e] = files[e]
  PROVE  ModelIsLargest'
<1>1. SUFFICES ASSUME Compiled', FromModelDir'
               PROVE  ModelIsLargest'
  BY DEF ModelIsLargest
<1>2. /\ Described(files, cirh_path, metadata_ops)
      /\ OnceEach(compile_metrics, outputs, files)
  BY <1>1, ModelIsLargestIs
<1>3. WithOperators(files') = WithOperators(files) /\ WithOperators(files) \subseteq Executor
  BY DEF WithOperators
<1>4. Described(files', cirh_path, metadata_ops)
  BY <1>2, <1>3 DEF Described, ParsedModel
<1>5. OnceEach(compile_metrics, outputs, files')
  <2>1. PICK ms : ms = compile_metrics
    OBVIOUS
  <2>2. PICK own : own = {i \in DOMAIN ms : ms[i].name = "cirh_operators"}
    OBVIOUS
  <2>3. /\ {ms[i].source : i \in own} = WithOperators(files)
        /\ ToSet(outputs) \cap Executor = WithOperators(files)
        /\ \A i, j \in own : ms[i].source = ms[j].source => i = j
        /\ \A i \in own : ms[i].value = files[ms[i].source][1].ops
    BY <1>2, <2>1, <2>2 DEF OnceEach
  <2>4. ASSUME NEW i \in own
        PROVE  ms[i].value = files'[ms[i].source][1].ops
    <3>1. ms[i].source \in Executor
      BY <1>3, <2>3
    <3>2. QED
      BY <2>3, <3>1
  <2>5. QED
    BY <1>3, <2>1, <2>2, <2>3, <2>4 DEF OnceEach
<1>6. QED
  BY <1>4, <1>5, ModelIsLargestNext

\* Every call keeps what is described.
LEMMA LargestStep ==
  ASSUME DataInv, DataInv', FreshInv, ModelIsLargest, [Next]_vars
  PROVE  ModelIsLargest'
<1>1. CASE CompileEndFromDir
  <2>1. CASE at' = "idle"
    BY <2>1 DEF ModelIsLargest, Compiled
  <2>2. QED
    BY <1>1, <2>1, LargestDescribed
<1>2. CASE CompileEndFromGraph
  <2>1. ~FromModelDir'
    BY <1>2 DEF CompileEndFromGraph, FromModelDir, settingVars
  <2>2. QED
    BY <2>1 DEF ModelIsLargest
<1>3. CASE InitializeSession \/ PrepareArtifacts \/ CompileBegin \/ Shutdown
  <2>1. ~Compiled'
    BY <1>3 DEF InitializeSession, PrepareArtifacts, CompileBegin, Shutdown, Fails, Compiled
  <2>2. QED
    BY <2>1 DEF ModelIsLargest
<1>4. CASE LoadBegin \/ LoadEnd \/ RunBegin \/ SubgraphBegin \/ SubgraphEnd \/ UNCHANGED vars
  <2>1. UNCHANGED <<files, compileVars, contextVars, settingVars>> /\ (Compiled' => Compiled)
    BY <1>4 DEF LoadBegin, LoadEnd, RunBegin, SubgraphBegin, SubgraphEnd, Compiled, Fails, vars
  <2>2. QED
    BY <2>1, DescriptionStays DEF compileVars, contextVars, settingVars, FromModelDir
<1>5. CASE RunEnd
  <2>1. UNCHANGED <<compileVars, contextVars, settingVars>> /\ Compiled
    BY <1>5 DEF RunEnd, Compiled
  <2>2. PICK rc \in {0, 1} : MaybeRun("run_cmd", {"log"}, rc)
    BY <1>5 DEF RunEnd
  <2>3. \A e \in Executor : files'[e] = files[e]
    BY <2>2, RunKeepsExecutors
  <2>4. QED
    BY <2>1, <2>3, DescriptionStays DEF compileVars, contextVars, settingVars, FromModelDir
<1>6. QED
  BY <1>1, <1>2, <1>3, <1>4, <1>5 DEF Next

-----------------------------------------------------------------------------
(* Types. *)

IsModel(m) == m.ops \in 0 .. MaxOps /\ m.by \in 0 .. MaxSessions

Measured(ms) == IsList(ms) /\ \A m \in ToSet(ms) : m.value \in Nat

\* The types, part by part.
Kinds ==
  /\ at \in Calls
  /\ ToSet(inputs) \subseteq {"graph", "sidecar"}
  /\ ToSet(outputs) \subseteq Executor \cup {"report"}
  /\ ToSet(runtime_inputs) \subseteq {"log"}
  /\ IsModel(metadata_ops) /\ IsModel(model_) /\ IsModel(cirh_ops_) /\ IsModel(kept)
  /\ cirh_path \in Executor \cup {"none", "empty"}
  /\ Measured(compile_metrics)

\* Metrics of two lists.
LEMMA MeasuredBoth ==
  ASSUME NEW a, NEW b, Measured(a), Measured(b)
  PROVE  Measured(a \o b)
  BY ListConcat, ConcatSet DEF Measured

\* A list of none, and one of one metric.
LEMMA MeasuredFew ==
  /\ Measured(<< >>)
  /\ \A m : m.value \in Nat => Measured(<<m>>)
<1>1. IsList(<< >>) /\ ToSet(<< >>) = {}
  BY ListOfNone DEF ToSet
<1>2. ASSUME NEW m
      PROVE  IsList(<<m>>) /\ ToSet(<<m>>) = {m}
  BY ListOfOne DEF ToSet
<1>3. QED
  BY <1>1, <1>2 DEF Measured

\* A model that has none, and one read from a file.
LEMMA ModelsAre ==
  /\ IsModel(NoModel)
  /\ \A c \in AnyContent : IsModel(ParsedModel(c))
<1>1. IsModel(NoModel)
  BY HiddenIrAssumption DEF IsModel, NoModel
<1>2. ASSUME NEW c \in AnyContent
      PROVE  IsModel(ParsedModel(c))
  BY DEF IsModel, ParsedModel, AnyContent
<1>3. QED
  BY <1>1, <1>2

\* The lists that name files.
LEMMA FilesNamed ==
  /\ ToSet(<< >>) = {}
  /\ \A f : ToSet(<<f>>) = {f}
  /\ \A f, g : ToSet(<<f>> \o <<g>>) = {f, g}
  /\ \A f : ToSet(<<f>> \o << >>) = {f}
<1>1. IsList(<< >>) /\ ToSet(<< >>) = {}
  BY ListOfNone DEF ToSet
<1>2. ASSUME NEW f
      PROVE  IsList(<<f>>) /\ ToSet(<<f>>) = {f}
  BY ListOfOne DEF ToSet
<1>3. ASSUME NEW f, NEW g
      PROVE  ToSet(<<f>> \o <<g>>) = {f, g}
  <2>1. IsList(<<f>>) /\ IsList(<<g>>)
    BY <1>2
  <2>2. ToSet(<<f>> \o <<g>>) = ToSet(<<f>>) \cup ToSet(<<g>>)
    BY <2>1, ConcatSet
  <2>3. ToSet(<<f>>) = {f} /\ ToSet(<<g>>) = {g}
    BY <1>2
  <2>4. {f} \cup {g} = {f, g}
    OBVIOUS
  <2>5. QED
    BY <2>2, <2>3, <2>4
<1>4. ASSUME NEW f
      PROVE  ToSet(<<f>> \o << >>) = {f}
  <2>1. IsList(<<f>>)
    BY <1>2
  <2>2. ToSet(<<f>> \o << >>) = ToSet(<<f>>) \cup ToSet(<< >>)
    BY <1>1, <2>1, ConcatSet
  <2>3. QED
    BY <1>1, <1>2, <2>2
<1>5. QED
  BY <1>1, <1>2, <1>3, <1>4

\* What a compile from a graph leaves.
LEMMA GraphCompileKinds ==
  ASSUME DataInv', FreshInv, Kinds, CompileEndFromGraph
  PROVE  Kinds'
<1>1. PICK fs : fs = files'
  OBVIOUS
<1>2. fs \in AnyFiles
  BY <1>1 DEF DataInv, AnyFiles
<1>3. PICK rc \in {0, 1} :
        \/ /\ compile_metrics' = compile_metrics \o CommandMetrics("compile_cmd", rc)
           /\ at' = "idle"
           /\ UNCHANGED <<model_, metadata_ops>>
        \/ /\ fs["graph"] # << >>
           /\ model_' = BuiltModel(fs)
           /\ compile_metrics' = compile_metrics \o CommandMetrics("compile_cmd", rc)
                                   \o ReportMetrics(fs)
           /\ metadata_ops' = model_'
           /\ at' = "LoadBegin"
  BY <1>1 DEF CompileEndFromGraph, Fails
<1>4. Measured(compile_metrics) /\ Measured(CommandMetrics("compile_cmd", rc))
  BY CommandReports DEF Kinds, Measured
<1>5. Measured(ReportMetrics(fs))
  BY <1>2, ReportReports DEF Measured
<1>6. Measured(compile_metrics \o CommandMetrics("compile_cmd", rc))
  BY <1>4, MeasuredBoth
<1>7. Measured(compile_metrics')
  BY <1>3, <1>5, <1>6, MeasuredBoth
<1>8. IsModel(model_') /\ IsModel(metadata_ops')
  <2>1. CASE UNCHANGED <<model_, metadata_ops>>
    BY <2>1 DEF Kinds
  <2>2. CASE fs["graph"] # << >> /\ model_' = BuiltModel(fs) /\ metadata_ops' = model_'
    <3>1. fs["graph"][1] \in AnyContent
      BY <1>2, <2>2, FileHolds DEF File
    <3>2. PICK c \in AnyContent : c = fs["graph"][1]
      BY <3>1
    <3>3. BuiltModel(fs).ops = c.ops /\ BuiltModel(fs).by = c.by
      BY <3>2 DEF BuiltModel
    <3>4. IsModel(BuiltModel(fs))
      BY <3>3 DEF IsModel, AnyContent
    <3>5. QED
      BY <2>2, <3>4
  <2>3. QED
    BY <1>3, <2>1, <2>2
<1>9. UNCHANGED <<inputs, outputs, runtime_inputs, cirh_path, cirh_ops_, kept>>
  BY DEF CompileEndFromGraph, runtimeVars, settingVars
<1>10. at' \in Calls
  BY <1>3 DEF Calls
<1>11. ToSet(inputs)' = ToSet(inputs) /\ ToSet(outputs)' = ToSet(outputs)
       /\ ToSet(runtime_inputs)' = ToSet(runtime_inputs)
  BY <1>9 DEF ToSet
<1>12. IsModel(model_)' /\ IsModel(metadata_ops)' /\ IsModel(cirh_ops_)' /\ IsModel(kept)'
  BY <1>8, <1>9 DEF IsModel, Kinds
<1>13. Measured(compile_metrics)'
  BY <1>7 DEF Measured, IsList, ToSet
<1>14. QED
  BY <1>9, <1>10, <1>11, <1>12, <1>13 DEF Kinds

\* What a compile with a model directory leaves.
LEMMA DirCompileKinds ==
  ASSUME DataInv', FreshInv, Kinds, CompileEndFromDir
  PROVE  Kinds'
<1>1. PICK fs : fs = files'
  OBVIOUS
<1>2. fs \in AnyFiles
  BY <1>1 DEF DataInv, AnyFiles
<1>3. PICK rc \in {0, 1} :
        \/ /\ compile_metrics' = compile_metrics \o CommandMetrics("compile_cmd", rc)
           /\ at' = "idle"
           /\ UNCHANGED <<outputs, cirh_ops_, model_, contextVars>>
        \/ /\ cirh_ops_' = IF Graphs(fs) = << >> THEN cirh_ops_
                           ELSE ParsedModel(fs[Largest(fs)][1])
           /\ outputs' = outputs \o Graphs(fs)
           /\ \/ /\ compile_metrics' =
                      compile_metrics \o CommandMetrics("compile_cmd", rc) \o ExecutorMetrics(fs)
                 /\ at' = "idle"
                 /\ UNCHANGED <<model_, contextVars>>
              \/ /\ model_' = cirh_ops_' /\ metadata_ops' = model_'
                 /\ compile_metrics' =
                      (compile_metrics \o CommandMetrics("compile_cmd", rc)) \o ExecutorMetrics(fs)
                        \o <<Metric("cirh_executors", "dir", session, Len(Found(fs)))>>
                        \o ReportMetrics(fs)
                 /\ cirh_path' = IF Graphs(fs) = << >> THEN "empty" ELSE Largest(fs)
                 /\ at' = "LoadBegin"
  BY <1>1 DEF CompileEndFromDir, Fails
<1>4. PICK ran : ran = compile_metrics \o CommandMetrics("compile_cmd", rc)
  OBVIOUS
<1>5. Measured(ran)
  <2>1. Measured(compile_metrics) /\ Measured(CommandMetrics("compile_cmd", rc))
    BY CommandReports DEF Kinds, Measured
  <2>2. QED
    BY <1>4, <2>1, MeasuredBoth
<1>6. Measured(ran \o ExecutorMetrics(fs))
  <2>1. Measured(ExecutorMetrics(fs))
    BY <1>2, ExecutorReports DEF Measured
  <2>2. QED
    BY <1>5, <2>1, MeasuredBoth
<1>7. PICK d : d = Metric("cirh_executors", "dir", session, Len(Found(fs)))
  OBVIOUS
<1>8. Measured(ran \o ExecutorMetrics(fs) \o <<d>> \o ReportMetrics(fs))
  <2>1. Len(Found(fs)) \in Nat
    BY FoundFacts, LenProperties
  <2>2. d.value \in Nat
    BY <1>7, <2>1 DEF Metric
  <2>3. Measured(<<d>>)
    BY <2>2, MeasuredFew
  <2>4. Measured(ReportMetrics(fs))
    BY <1>2, ReportReports DEF Measured
  <2>5. Measured(ran \o ExecutorMetrics(fs) \o <<d>>)
    BY <1>6, <2>3, MeasuredBoth
  <2>6. QED
    BY <2>4, <2>5, MeasuredBoth
<1>9. Measured(compile_metrics')
  BY <1>3, <1>4, <1>5, <1>6, <1>7, <1>8
<1>10. ASSUME Graphs(fs) # << >>
       PROVE  Largest(fs) \in Executor /\ IsModel(ParsedModel(fs[Largest(fs)][1]))
  <2>1. Largest(fs) \in WithOperators(fs)
    BY <1>2, <1>10, LargestIs
  <2>2. Largest(fs) \in Executor /\ Largest(fs) \in File /\ fs[Largest(fs)] # << >>
    BY <2>1 DEF WithOperators, File
  <2>3. fs[Largest(fs)][1] \in AnyContent
    BY <1>2, <2>2, FileHolds
  <2>4. QED
    BY <2>2, <2>3, ModelsAre
<1>11. IsModel(cirh_ops_')
  BY <1>3, <1>10 DEF Kinds
<1>12. IsModel(model_') /\ IsModel(metadata_ops') /\ cirh_path' \in Executor \cup {"none", "empty"}
  BY <1>3, <1>10, <1>11 DEF Kinds, contextVars
<1>13. ToSet(outputs') \subseteq Executor \cup {"report"}
  <2>1. CASE outputs' = outputs
    BY <2>1 DEF Kinds
  <2>2. CASE outputs' = outputs \o Graphs(fs)
    <3>1. outputs \in {<< >>, <<"report">>}
      BY DEF CompileEndFromDir, FreshInv
    <3>2. Graphs(fs) \in Seq(Executor)
      BY GraphsFacts
    <3>3. QED
      BY <2>2, <3>1, <3>2, OutputsAre
  <2>3. QED
    BY <1>3, <2>1, <2>2
<1>14. UNCHANGED <<inputs, runtime_inputs, kept>> /\ at' \in Calls
  BY <1>3 DEF CompileEndFromDir, runtimeVars, settingVars, Calls
<1>15. ToSet(inputs)' = ToSet(inputs) /\ ToSet(outputs)' = ToSet(outputs')
       /\ ToSet(runtime_inputs)' = ToSet(runtime_inputs)
  BY <1>14 DEF ToSet
<1>16. IsModel(model_)' /\ IsModel(metadata_ops)' /\ IsModel(cirh_ops_)' /\ IsModel(kept)'
  BY <1>11, <1>12, <1>14 DEF IsModel, Kinds
<1>17. Measured(compile_metrics)'
  BY <1>9 DEF Measured, IsList, ToSet
<1>18. QED
  BY <1>12, <1>13, <1>14, <1>15, <1>16, <1>17 DEF Kinds

\* The other calls, most of which leave all of that alone.
LEMMA KindsStep ==
  ASSUME DataInv', FreshInv, Kinds, [Next]_vars
  PROVE  Kinds'
<1>1. CASE CompileEndFromGraph
  BY <1>1, GraphCompileKinds
<1>2. CASE CompileEndFromDir
  BY <1>2, DirCompileKinds
<1>3. CASE InitializeSession
  <2>1. /\ at' = "PrepareArtifacts" /\ metadata_ops' = NoModel /\ cirh_path' = "none"
        /\ inputs' = << >> /\ outputs' = << >> /\ compile_metrics' = << >>
        /\ runtime_inputs' = << >>
        /\ model_' \in {model_, NoModel} /\ cirh_ops_' \in {cirh_ops_, NoModel}
        /\ kept' = cirh_ops_'
    BY <1>3 DEF InitializeSession, modelVars
  <2>2. IsModel(NoModel) /\ IsModel(model_) /\ IsModel(cirh_ops_)
    BY ModelsAre DEF Kinds
  <2>3. IsModel(metadata_ops') /\ IsModel(model_') /\ IsModel(cirh_ops_')
    BY <2>1, <2>2
  <2>4. IsModel(metadata_ops)' /\ IsModel(model_)' /\ IsModel(cirh_ops_)' /\ IsModel(kept)'
    BY <2>1, <2>3 DEF IsModel
  <2>5. Measured(compile_metrics')
    BY <2>1, MeasuredFew
  <2>6. Measured(compile_metrics)'
    BY <2>5 DEF Measured, IsList, ToSet
  <2>7. ToSet(inputs') = {} /\ ToSet(outputs') = {} /\ ToSet(runtime_inputs') = {}
    BY <2>1, FilesNamed
  <2>8. ToSet(inputs)' = {} /\ ToSet(outputs)' = {} /\ ToSet(runtime_inputs)' = {}
    BY <2>7 DEF ToSet
  <2>9. at' \in Calls
    BY <2>1 DEF Calls
  <2>10. QED
    BY <2>1, <2>4, <2>6, <2>8, <2>9 DEF Kinds
<1>4. CASE PrepareArtifacts
  <2>1. UNCHANGED <<contextVars, modelVars, kept>>
    BY <1>4 DEF PrepareArtifacts, settingVars
  <2>2. IsModel(metadata_ops)' /\ IsModel(model_)' /\ IsModel(cirh_ops_)' /\ IsModel(kept)'
        /\ cirh_path' \in Executor \cup {"none", "empty"}
    BY <2>1 DEF Kinds, contextVars, modelVars, IsModel
  <2>3. CASE at' = "idle"
    <3>1. UNCHANGED <<compileVars, runtimeVars>>
      BY <1>4, <2>3 DEF PrepareArtifacts
    <3>2. UNCHANGED <<inputs, outputs, compile_metrics, runtime_inputs>>
      BY <3>1 DEF compileVars, runtimeVars
    <3>3. ToSet(inputs)' = ToSet(inputs) /\ ToSet(outputs)' = ToSet(outputs)
          /\ ToSet(runtime_inputs)' = ToSet(runtime_inputs)
          /\ (Measured(compile_metrics) => Measured(compile_metrics)')
      BY <3>2 DEF ToSet, Measured, IsList
    <3>4. at' \in Calls
      BY <2>3 DEF Calls
    <3>5. QED
      BY <2>2, <3>3, <3>4 DEF Kinds
  <2>4. CASE at' # "idle"
    <3>1. /\ at' = "CompileBegin"
          /\ inputs' \in {<<"graph">> \o <<"sidecar">>, <<"graph">> \o << >>}
          /\ outputs' \in {<<"report">>, << >>}
          /\ compile_metrics' = << >>
          /\ runtime_inputs' \in {<<"log">>, << >>}
      BY <1>4, <2>4 DEF PrepareArtifacts, Fails
    <3>2. /\ ToSet(inputs') \subseteq {"graph", "sidecar"}
          /\ ToSet(outputs') \subseteq Executor \cup {"report"}
          /\ ToSet(runtime_inputs') \subseteq {"log"}
      <4>1. ToSet(inputs') \in {{"graph", "sidecar"}, {"graph"}}
        <5>1. ToSet(<<"graph">> \o <<"sidecar">>) = {"graph", "sidecar"}
          BY FilesNamed
        <5>2. ToSet(<<"graph">> \o << >>) = {"graph"}
          BY FilesNamed
        <5>3. QED
          BY <3>1, <5>1, <5>2
      <4>2. ToSet(outputs') \in {{"report"}, {}} /\ ToSet(runtime_inputs') \in {{"log"}, {}}
        <5>1. ToSet(<<"report">>) = {"report"} /\ ToSet(<<"log">>) = {"log"} /\ ToSet(<< >>) = {}
          BY FilesNamed
        <5>2. QED
          BY <3>1, <5>1
      <4>3. QED
        BY <4>1, <4>2
    <3>3. /\ ToSet(inputs)' \subseteq {"graph", "sidecar"}
          /\ ToSet(outputs)' \subseteq Executor \cup {"report"}
          /\ ToSet(runtime_inputs)' \subseteq {"log"}
      BY <3>2 DEF ToSet
    <3>4. Measured(compile_metrics')
      BY <3>1, MeasuredFew
    <3>5. Measured(compile_metrics)'
      BY <3>4 DEF Measured, IsList, ToSet
    <3>6. at' \in Calls
      BY <3>1 DEF Calls
    <3>7. (Executor \cup {"report"})' = Executor \cup {"report"}
      OBVIOUS
    <3>8. QED
      BY <2>2, <3>3, <3>5, <3>6, <3>7 DEF Kinds
  <2>5. QED
    BY <2>3, <2>4
<1>5. CASE \/ CompileBegin \/ LoadBegin \/ LoadEnd \/ RunBegin \/ RunEnd \/ Shutdown
           \/ SubgraphBegin \/ SubgraphEnd \/ UNCHANGED vars
  <2>1. /\ UNCHANGED <<compileVars, contextVars, runtime_inputs, cirh_ops_, kept>>
        /\ model_' \in {model_, NoModel}
    BY <1>5 DEF CompileBegin, LoadBegin, LoadEnd, RunBegin, RunEnd, Shutdown, SubgraphBegin,
                SubgraphEnd, vars, runtimeVars, modelVars, settingVars
  <2>2. at' \in Calls
    BY <1>5 DEF CompileBegin, LoadBegin, LoadEnd, RunBegin, RunEnd, Shutdown, SubgraphBegin,
                SubgraphEnd, Fails, vars, Kinds, Calls
  <2>3. UNCHANGED <<inputs, outputs, compile_metrics, metadata_ops, cirh_path>>
    BY <2>1 DEF compileVars, contextVars
  <2>4. ToSet(inputs)' = ToSet(inputs) /\ ToSet(outputs)' = ToSet(outputs)
        /\ ToSet(runtime_inputs)' = ToSet(runtime_inputs)
        /\ (Measured(compile_metrics) => Measured(compile_metrics)')
    BY <2>1, <2>3 DEF ToSet, Measured, IsList
  <2>5. IsModel(model_')
    BY <2>1, ModelsAre DEF Kinds
  <2>6. IsModel(metadata_ops)' /\ IsModel(model_)' /\ IsModel(cirh_ops_)' /\ IsModel(kept)'
    BY <2>1, <2>3, <2>5 DEF IsModel, Kinds
  <2>7. QED
    BY <2>2, <2>3, <2>4, <2>6 DEF Kinds
<1>6. QED
  BY <1>1, <1>2, <1>3, <1>4, <1>5 DEF Next

\* Together with what is known of the data these are the types.
LEMMA KindsSuffice ==
  ASSUME DataInv, Kinds
  PROVE  AdapterTypeOK
<1>1. \A f \in File : Len(files[f]) <= 1
  BY FileHolds DEF DataInv, AnyFiles
<1>2. \A m \in {metadata_ops, model_, cirh_ops_, kept} : m.ops \in 0 .. MaxOps /\ m.by \in 0 .. MaxSessions
  BY DEF Kinds, IsModel
<1>3. \A i \in DOMAIN compile_metrics : compile_metrics[i].value \in Nat
  BY DEF Kinds, Measured, ToSet
<1>4. ASSUME NEW n \in Partition
      PROVE  Len(active_[n]) <= 1
  <2>1. active_[n] \in {<< >>} \cup {<<r>> : r \in Opened}
    BY DEF DataInv, TrackerInv, TrackerTypes
  <2>2. CASE active_[n] = << >>
    BY <2>2, ListOfNone
  <2>3. CASE active_[n] # << >>
    <3>1. PICK r : active_[n] = <<r>>
      BY <2>1, <2>3
    <3>2. QED
      BY <3>1, ListOfOne
  <2>4. QED
    BY <2>2, <2>3
<1>5. QED
  BY <1>1, <1>2, <1>3, <1>4 DEF AdapterTypeOK, DataInv, Kinds

-----------------------------------------------------------------------------
(* What follows. *)

\* The metrics of the completed partitions.
LEMMA PartitionMetricsTypes ==
  ASSUME DataInv
  PROVE  PartitionMetrics \in Seq(Timed) /\ Len(PartitionMetrics) = Len(completed_)
<1>1. completed_ \in Seq(Record) /\ session \in Nat
  BY HiddenIrAssumption DEF DataInv, TrackerInv, TrackerTypes
<1>2. Len(completed_) \in Nat /\ DOMAIN completed_ = 1 .. Len(completed_)
  BY <1>1, LenProperties
<1>3. ASSUME NEW i \in DOMAIN completed_
      PROVE  Metric("partition_ms", completed_[i].name, session,
                    completed_[i].end_ts - completed_[i].begin_ts) \in Timed
  <2>1. completed_[i] \in Record
    BY <1>1, <1>2, ElementOfSeq
  <2>2. QED
    BY <1>1, <2>1 DEF Record, Metric, Timed
<1>4. PartitionMetrics \in [1 .. Len(completed_) -> Timed]
  BY <1>2, <1>3 DEF PartitionMetrics
<1>5. QED
  BY <1>2, <1>4, SeqDef, LenProperties

\* A successful run's report and what follows it, metric by metric.
LEMMA ReportSplit ==
  ASSUME DataInv, NEW own, RunReport(own), runtime_metrics = own \o PartitionMetrics
  PROVE  /\ Len(own) \in Nat /\ Len(runtime_metrics) = Len(own) + Len(completed_)
         /\ Len(completed_) \in Nat
         /\ \A i \in DOMAIN runtime_metrics :
              IF i <= Len(own)
              THEN i \in DOMAIN own /\ runtime_metrics[i] = own[i] /\ own[i] \in Reported
              ELSE /\ i - Len(own) \in DOMAIN completed_
                   /\ runtime_metrics[i] = PartitionMetrics[i - Len(own)]
<1>1. own \in Seq(Reported)
  BY DEF RunReport
<1>2. PartitionMetrics \in Seq(Timed) /\ Len(PartitionMetrics) = Len(completed_)
  BY PartitionMetricsTypes
<1>3. own \in Seq(Reported \cup Timed) /\ PartitionMetrics \in Seq(Reported \cup Timed)
  BY <1>1, <1>2, SeqMonotonic
<1> DEFINE more == PartitionMetrics
<1>4. /\ Len(own) \in Nat /\ Len(more) \in Nat /\ Len(own \o more) = Len(own) + Len(more)
      /\ DOMAIN own = 1 .. Len(own) /\ DOMAIN more = 1 .. Len(more)
      /\ DOMAIN (own \o more) = 1 .. Len(own) + Len(more)
      /\ \A i \in 1 .. Len(own) : (own \o more)[i] = own[i]
      /\ \A i \in 1 .. Len(own) + Len(more) :
           i > Len(own) => (own \o more)[i] = more[i - Len(own)] /\ i - Len(own) \in DOMAIN more
  BY <1>3, MetricsJoined
<1>5. DOMAIN completed_ = DOMAIN more
  BY DEF PartitionMetrics
<1>6. \A i \in DOMAIN own : own[i] \in Reported
  BY <1>1, <1>4, ElementOfSeq
<1>7. runtime_metrics = own \o more
  OBVIOUS
<1> HIDE DEF more
<1>8. ASSUME NEW i \in DOMAIN runtime_metrics
      PROVE  IF i <= Len(own)
             THEN i \in DOMAIN own /\ runtime_metrics[i] = own[i] /\ own[i] \in Reported
             ELSE i - Len(own) \in DOMAIN completed_ /\ runtime_metrics[i] = more[i - Len(own)]
  <2>1. i \in 1 .. Len(own) + Len(more)
    BY <1>4, <1>7
  <2>2. CASE i <= Len(own)
    <3>1. i \in 1 .. Len(own)
      BY <1>4, <2>1, <2>2
    <3>2. QED
      BY <1>4, <1>6, <1>7, <2>2, <3>1
  <2>3. CASE ~ (i <= Len(own))
    <3>1. i > Len(own)
      BY <1>4, <2>1, <2>3
    <3>2. QED
      BY <1>4, <1>5, <1>7, <2>1, <2>3, <3>1
  <2>4. QED
    BY <2>2, <2>3
<1>9. Len(runtime_metrics) = Len(own) + Len(completed_) /\ Len(completed_) \in Nat
  BY <1>2, <1>4, <1>7 DEF more
<1>10. QED
  BY <1>4, <1>8, <1>9 DEF more

\* All of it together.
HiddenIrInv == DataInv /\ ModelInv /\ ReportInv /\ FreshInv /\ Kinds /\ ModelIsLargest

\* The invariant of the adapter, at every step.
LEMMA HiddenIrInvariant == Spec => []HiddenIrInv
<1>1. Init => HiddenIrInv
  <2> SUFFICES ASSUME Init PROVE HiddenIrInv
    OBVIOUS
  <2>1. TrackerInv
    BY EmptyTracker DEF Init, TrackerInit
  <2>2. DataInv
    BY <2>1, HiddenIrAssumption DEF Init, DataInv
  <2>3. ModelInv /\ ReportInv /\ FreshInv /\ ModelIsLargest
    BY DEF Init, ModelInv, ReportInv, FreshInv, ModelIsLargest, Compiled
  <2>4. Kinds
    <3>1. /\ at = "idle" /\ inputs = << >> /\ outputs = << >> /\ compile_metrics = << >>
          /\ runtime_inputs = << >> /\ cirh_path = "none"
          /\ metadata_ops = NoModel /\ model_ = NoModel /\ cirh_ops_ = NoModel /\ kept = NoModel
      BY DEF Init
    <3>2. Measured(compile_metrics) /\ IsModel(NoModel)
      BY <3>1, MeasuredFew, ModelsAre
    <3>3. ToSet(inputs) = {} /\ ToSet(outputs) = {} /\ ToSet(runtime_inputs) = {}
      BY <3>1, FilesNamed
    <3>4. QED
      BY <3>1, <3>2, <3>3 DEF Kinds, Calls
  <2>5. QED
    BY <2>2, <2>3, <2>4 DEF HiddenIrInv
<1>2. HiddenIrInv /\ [Next]_vars => HiddenIrInv'
  <2> SUFFICES ASSUME HiddenIrInv, [Next]_vars PROVE HiddenIrInv'
    OBVIOUS
  <2>1. DataInv'
    BY DataStep DEF HiddenIrInv
  <2>2. ModelInv'
    BY <2>1, ModelStep DEF HiddenIrInv
  <2>3. ReportInv'
    BY <2>1, ReportStep DEF HiddenIrInv
  <2>4. FreshInv'
    BY FreshStep DEF HiddenIrInv
  <2>5. Kinds'
    BY <2>1, KindsStep DEF HiddenIrInv
  <2>6. ModelIsLargest'
    BY <2>1, LargestStep DEF HiddenIrInv
  <2>7. QED
    BY <2>1, <2>2, <2>3, <2>4, <2>5, <2>6 DEF HiddenIrInv
<1>3. QED
  BY <1>1, <1>2, PTL DEF Spec

\* The state is well typed, whatever the files hold and whichever calls fail.
THEOREM AdapterTypeCorrect == Spec => []AdapterTypeOK
<1>1. HiddenIrInv => AdapterTypeOK
  BY KindsSuffice DEF HiddenIrInv
<1>2. QED
  BY <1>1, HiddenIrInvariant, PTL

\* A compile with a model directory reports every executor with operators once
\* and describes the largest graph; when no graph has operators it goes through
\* only on an adapter that kept a model, and it is that one it describes.
THEOREM LargestIsModel == Spec => []ModelIsLargest
<1>1. HiddenIrInv => ModelIsLargest
  BY DEF HiddenIrInv
<1>2. QED
  BY <1>1, HiddenIrInvariant, PTL

\* A session that gets past loading has a model with operators, and the
\* context, the adapter and the metric reported at the end of loading agree
\* on it, also when the same adapter object served a session before.
THEOREM ModelAgrees == Spec => []LoadedModelAgrees
<1>1. HiddenIrInv => LoadedModelAgrees
  <2> SUFFICES ASSUME HiddenIrInv, at \in {"LoadEnd", "RunBegin", "RunEnd", "Shutdown"}
               PROVE  /\ metadata_ops.ops > 0 /\ metadata_ops = model_
                      /\ \A i \in DOMAIN runtime_metrics :
                           runtime_metrics[i].name = "partition_count"
                             => runtime_metrics[i].value = metadata_ops.ops
    BY DEF LoadedModelAgrees
  <2>1. metadata_ops = model_ /\ model_.ops > 0
    BY DEF HiddenIrInv, ModelInv
  <2>2. CASE at = "LoadEnd"
    BY <2>1, <2>2 DEF HiddenIrInv, ModelInv
  <2>3. CASE at \in {"RunBegin", "RunEnd"}
    <3>1. runtime_metrics = <<Counted>>
      BY <2>3 DEF HiddenIrInv, ModelInv
    <3>2. DOMAIN runtime_metrics = {1} /\ runtime_metrics[1].value = model_.ops
      BY <3>1 DEF Counted, Metric
    <3>3. QED
      BY <2>1, <3>2
  <2>4. CASE at = "Shutdown"
    <3>1. DataInv
      BY DEF HiddenIrInv
    <3>2. PICK own : RunReport(own) /\ runtime_metrics = own \o PartitionMetrics
      BY <2>4 DEF HiddenIrInv, ReportInv
    <3>3. /\ Len(own) \in Nat
          /\ \A i \in DOMAIN runtime_metrics :
               IF i <= Len(own)
               THEN i \in DOMAIN own /\ runtime_metrics[i] = own[i] /\ own[i] \in Reported
               ELSE /\ i - Len(own) \in DOMAIN completed_
                    /\ runtime_metrics[i] = PartitionMetrics[i - Len(own)]
      BY <3>1, <3>2, ReportSplit
    <3>4. ASSUME NEW j \in DOMAIN completed_
          PROVE  PartitionMetrics[j].name = "partition_ms"
      BY DEF PartitionMetrics, Metric
    <3>5. ASSUME NEW i \in DOMAIN runtime_metrics, runtime_metrics[i].name = "partition_count"
          PROVE  runtime_metrics[i].value = model_.ops
      <4>1. CASE i <= Len(own)
        BY <3>2, <3>3, <3>5, <4>1 DEF RunReport
      <4>2. CASE ~ (i <= Len(own))
        BY <3>3, <3>4, <3>5, <4>2
      <4>3. QED
        BY <4>1, <4>2
    <3>6. QED
      BY <2>1, <3>5
  <2>5. QED
    BY <2>2, <2>3, <2>4
<1>2. QED
  BY <1>1, HiddenIrInvariant, PTL

\* The completed partitions are the pairs of the session's own calls, once
\* each, whatever order the calls come in, and a run that succeeded has
\* reported each of them, in the order they ended.
THEOREM PartitionsReported == Spec => []PartitionsArePairs
<1>1. HiddenIrInv => PartitionsArePairs
  <2> SUFFICES ASSUME HiddenIrInv PROVE PartitionsArePairs
    OBVIOUS
  <2>1. DataInv /\ PairsCompleted
    BY DEF HiddenIrInv, DataInv, TrackerInv
  <2>2. ASSUME at = "Shutdown"
        PROVE  LET before == Len(runtime_metrics) - Len(completed_)
               IN /\ before >= 0
                  /\ \A i \in DOMAIN runtime_metrics :
                       IF i <= before THEN runtime_metrics[i].name # "partition_ms"
                       ELSE LET done == completed_[i - before]
                            IN runtime_metrics[i] = Metric("partition_ms", done.name, session,
                                                           done.end_ts - done.begin_ts)
    <3>1. PICK own : RunReport(own) /\ runtime_metrics = own \o PartitionMetrics
      BY <2>2 DEF HiddenIrInv, ReportInv
    <3>2. /\ Len(own) \in Nat /\ Len(runtime_metrics) = Len(own) + Len(completed_)
          /\ Len(completed_) \in Nat
          /\ \A i \in DOMAIN runtime_metrics :
               IF i <= Len(own)
               THEN i \in DOMAIN own /\ runtime_metrics[i] = own[i] /\ own[i] \in Reported
               ELSE /\ i - Len(own) \in DOMAIN completed_
                    /\ runtime_metrics[i] = PartitionMetrics[i - Len(own)]
      BY <2>1, <3>1, ReportSplit
    <3>3. ASSUME NEW j \in DOMAIN completed_
          PROVE  PartitionMetrics[j] =
                   Metric("partition_ms", completed_[j].name, session,
                          completed_[j].end_ts - completed_[j].begin_ts)
      BY DEF PartitionMetrics
    <3>4. \A m \in Reported : m.name # "partition_ms"
      BY DEF Reported
    <3>5. Len(runtime_metrics) - Len(completed_) = Len(own)
      BY <3>2
    <3>6. Len(own) >= 0
      BY <3>2
    <3>7. ASSUME NEW i \in DOMAIN runtime_metrics
          PROVE  IF i <= Len(own) THEN runtime_metrics[i].name # "partition_ms"
                 ELSE runtime_metrics[i] =
                        Metric("partition_ms", completed_[i - Len(own)].name, session,
                               completed_[i - Len(own)].end_ts - completed_[i - Len(own)].begin_ts)
      <4>1. CASE i <= Len(own)
        BY <3>2, <3>4, <4>1
      <4>2. CASE ~ (i <= Len(own))
        BY <3>2, <3>3, <4>2
      <4>3. QED
        BY <4>1, <4>2
    <3>8. QED
      BY <3>5, <3>6, <3>7
  <2>3. QED
    BY <2>1, <2>2 DEF PartitionsArePairs
<1>2. QED
  BY <1>1, HiddenIrInvariant, PTL
=============================================================================
