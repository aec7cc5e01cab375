------------------------- MODULE BuiltinToolsProofs -------------------------
(***************************************************************************)
(* Proofs about the built-in tools, for every graph, every program, every  *)
(* policy and any machine word: what the memory proxy prints, and that the *)
(* reports of a session make one picture.                                  *)
(*                                                                         *)
(* The memory proxy's loops hold a volume they never look at again: what   *)
(* they have added and taken off so far is the volume of the names defined *)
(* less that of the names past their last use, which only the position     *)
(* decides.  So the invariant says that every row there is, the peak and   *)
(* the summary are functions of the graph and the position.  That a figure *)
(* is what its name says follows for a graph in SSA form, where names and  *)
(* values correspond.                                                      *)
(*                                                                         *)
(* For the session the invariant says what each tool has kept at each      *)
(* hook, what each report there is says of what its tool has kept, and     *)
(* that a tool with a measurement has reported it once it is closed.  The  *)
(* reports then agree because they are figures of the same operators.      *)
(***************************************************************************)
EXTENDS BuiltinTools, ListProofs

-----------------------------------------------------------------------------
(* The graph on its own. *)

NamesOf(ops) == UNION {Outputs(ops[p]) : p \in DOMAIN ops}

DefAt(ops, n) == {p \in DOMAIN ops : n \in Outputs(ops[p])}
UseAt(ops, n) == {p \in DOMAIN ops : n \in ops[p].ins}

LastDef(ops, n) == Max(DefAt(ops, n))
LastUse(ops, n) == IF UseAt(ops, n) = {} THEN LastDef(ops, n) ELSE Max(UseAt(ops, n))

Weights(ops) == [n \in NamesOf(ops) |-> ResultBytes(ops[LastDef(ops, n)])]

Vol(ops, names) == SumOver(Weights(ops), names)

\* What has been live and what has died before position p.
LiveAt(ops, p) == {n \in NamesOf(ops) : \E q \in DOMAIN ops : q < p /\ n \in Outputs(ops[q])}
DeadAt(ops, p) == {n \in NamesOf(ops) : LastUse(ops, n) < p}

Balance(ops, p) == Vol(ops, LiveAt(ops, p)) - Vol(ops, DeadAt(ops, p))

HeldAt(ops, p) == Balance(ops, p) + Vol(ops, Outputs(ops[p]) \ LiveAt(ops, p))

\* A greatest element is the greatest.
LEMMA GreatestUnique ==
  ASSUME NEW S, NEW m \in S, \A j \in S : j \in Int /\ j <= m
  PROVE  Max(S) = m
<1>1. \E x \in S : \A y \in S : x >= y
  <2>1. \A y \in S : m >= y
    OBVIOUS
  <2>2. QED
    BY <2>1
<1>2. PICK x : x = Max(S)
  OBVIOUS
<1>3. x \in S /\ x >= m
  BY <1>1, <1>2 DEF Max
<1>4. x <= m /\ x \in Int /\ m \in Int
  BY <1>3
<1>5. x = m
  BY <1>3, <1>4
<1>6. QED
  BY <1>2, <1>5

\* The volume of an operator's results is a number, whatever is published.
LEMMA ResultBytesNat ==
  ASSUME NEW op, op.published \in Publishes, op.result_bytes \in Nat, op.estimated_bytes \in Nat
  PROVE  ResultBytes(op) \in Nat
<1>1. CASE op.published = "figure"
  BY <1>1 DEF ResultBytes
<1>2. CASE op.published = "text"
  BY <1>2 DEF ResultBytes
<1>3. CASE op.published = "nothing"
  BY <1>3 DEF ResultBytes
<1>4. QED
  BY <1>1, <1>2, <1>3 DEF Publishes

\* There are finitely many names, and each has its places in the graph.
LEMMA GraphFacts ==
  ASSUME NEW ops, WellFormed(ops)
  PROVE  /\ Len(ops) \in Nat /\ DOMAIN ops = 1 .. Len(ops)
         /\ \A p \in DOMAIN ops : IsFiniteSet(Outputs(ops[p])) /\ Outputs(ops[p]) \subseteq NamesOf(ops)
         /\ IsFiniteSet(NamesOf(ops))
         /\ \A p \in DOMAIN ops : ResultBytes(ops[p]) \in Nat
<1>1. Len(ops) \in Nat /\ DOMAIN ops = 1 .. Len(ops)
  BY ListFacts DEF WellFormed
<1>2. ASSUME NEW p \in DOMAIN ops
      PROVE  /\ IsFiniteSet(Outputs(ops[p])) /\ Outputs(ops[p]) \subseteq NamesOf(ops)
             /\ ResultBytes(ops[p]) \in Nat
  <2>1. Len(ops[p].outs) \in Nat /\ DOMAIN ops[p].outs = 1 .. Len(ops[p].outs)
    BY ListFacts DEF WellFormed
  <2>2. ResultBytes(ops[p]) \in Nat
    BY ResultBytesNat DEF WellFormed
  <2>3. PICK D : D = DOMAIN ops[p].outs
    OBVIOUS
  <2>4. IsFiniteSet(D)
    BY <2>1, <2>3, FS_Interval
  <2>5. PICK named : named = {ops[p].outs[k].name : k \in D}
    OBVIOUS
  <2>6. IsFiniteSet(Outputs(ops[p]))
    <3>1. [k \in D |-> ops[p].outs[k].name] \in Surjection(D, named)
      BY <2>5 DEF Surjection
    <3>2. IsFiniteSet(named)
      BY <2>4, <3>1, FS_Surjection
    <3>3. Outputs(ops[p]) \in SUBSET named
      BY <2>3, <2>5 DEF Outputs
    <3>4. QED
      BY <3>2, <3>3, FS_Subset
  <2>7. QED
    BY <2>2, <2>6 DEF NamesOf
<1>3. IsFiniteSet(NamesOf(ops))
  <2> DEFINE All == {Outputs(ops[p]) : p \in DOMAIN ops}
  <2>1. PICK D : D = DOMAIN ops
    OBVIOUS
  <2>2. [p \in D |-> Outputs(ops[p])] \in Surjection(D, All)
    BY <2>1 DEF Surjection
  <2>3. IsFiniteSet(D)
    BY <1>1, <2>1, FS_Interval
  <2>4. IsFiniteSet(All)
    BY <2>2, <2>3, FS_Surjection
  <2>5. \A T \in All : IsFiniteSet(T)
    BY <1>2
  <2> HIDE DEF All
  <2>6. IsFiniteSet(UNION All)
    BY <2>4, <2>5, FS_UNION
  <2>7. QED
    BY <2>6 DEF All, NamesOf
<1>4. QED
  BY <1>1, <1>2, <1>3

\* The last definition and the last use of a name.
LEMMA NameFacts ==
  ASSUME NEW ops, WellFormed(ops), NEW n \in NamesOf(ops)
  PROVE  /\ LastDef(ops, n) \in DefAt(ops, n) /\ LastDef(ops, n) \in DOMAIN ops
         /\ \A q \in DefAt(ops, n) : q <= LastDef(ops, n)
         /\ LastUse(ops, n) \in DOMAIN ops
         /\ \A q \in UseAt(ops, n) : q <= LastUse(ops, n)
         /\ Weights(ops)[n] \in Nat
<1>1. Len(ops) \in Nat /\ DOMAIN ops = 1 .. Len(ops)
  BY GraphFacts
<1>2. DefAt(ops, n) \in SUBSET (1 .. Len(ops)) /\ DefAt(ops, n) # {}
  BY <1>1 DEF DefAt, NamesOf
<1>3. LastDef(ops, n) \in DefAt(ops, n) /\ \A q \in DefAt(ops, n) : q <= LastDef(ops, n)
  BY <1>1, <1>2, GreatestIs DEF LastDef
<1>4. LastDef(ops, n) \in DOMAIN ops
  BY <1>1, <1>2, <1>3
<1>5. UseAt(ops, n) \in SUBSET (1 .. Len(ops))
  BY <1>1 DEF UseAt
<1>6. CASE UseAt(ops, n) = {}
  BY <1>3, <1>4, <1>6, GraphFacts DEF LastUse, Weights
<1>7. CASE UseAt(ops, n) # {}
  <2>1. /\ Max(UseAt(ops, n)) \in UseAt(ops, n)
        /\ \A q \in UseAt(ops, n) : q <= Max(UseAt(ops, n))
    BY <1>1, <1>5, <1>7, GreatestIs
  <2>2. LastUse(ops, n) = Max(UseAt(ops, n))
    BY <1>7 DEF LastUse
  <2>3. LastUse(ops, n) \in DOMAIN ops
    BY <2>1, <2>2 DEF UseAt
  <2>4. QED
    BY <1>3, <1>4, <2>1, <2>2, <2>3, GraphFacts DEF Weights
<1>8. QED
  BY <1>6, <1>7

\* Volumes are numbers, and those of disjoint sets add up.
LEMMA VolFacts ==
  ASSUME NEW ops, WellFormed(ops), NEW S \in SUBSET NamesOf(ops)
  PROVE  IsFiniteSet(S) /\ Vol(ops, S) \in Nat
<1>1. IsFiniteSet(S)
  BY GraphFacts, FS_Subset
<1>2. PICK f : f = Weights(ops)
  OBVIOUS
<1>3. \A n \in S : f[n] \in Nat
  BY <1>2, NameFacts
<1>4. SumOver(f, S) \in Nat
  BY <1>1, <1>3, SumIsNat
<1>5. QED
  BY <1>1, <1>2, <1>4 DEF Vol

\* Two sets of names without a common one.
LEMMA VolUnion ==
  ASSUME NEW ops, WellFormed(ops), NEW S \in SUBSET NamesOf(ops),
         NEW T \in SUBSET NamesOf(ops), S \cap T = {}
  PROVE  Vol(ops, S \cup T) = Vol(ops, S) + Vol(ops, T)
<1>1. IsFiniteSet(S) /\ IsFiniteSet(T)
  BY VolFacts
<1>2. PICK f : f = Weights(ops)
  OBVIOUS
<1>3. \A n \in S \cup T : f[n] \in Int
  BY <1>2, NameFacts
<1>4. SumOver(f, S \cup T) = SumOver(f, S) + SumOver(f, T)
  BY <1>1, <1>3, SumUnion
<1>5. QED
  BY <1>2, <1>4 DEF Vol

\* The volumes the tool computes.
LEMMA VolumeIs ==
  ASSUME WellFormed(filtered_ops_), NEW names \in SUBSET NamesOf(filtered_ops_)
  PROVE  Volume(names) = Vol(filtered_ops_, names)
<1> DEFINE f == Weights(filtered_ops_)
           G == CHOOSE g : g = [T \in SUBSET names |->
                   IF T = {} THEN 0 ELSE Ref(Picked(T)).bytes + g[T \ {Picked(T)}]]
<1>0. IsFiniteSet(names) /\ \A n \in names : f[n] = Ref(n).bytes
  <2>1. \A n \in names : f[n] = Ref(n).bytes
    BY DEF Weights, Ref, LastDef, DefAt, Definers, Ops
  <2>2. QED
    BY <2>1, VolFacts
<1> HIDE DEF f
<1>1. ASSUME NEW g
      PROVE  (g = [T \in SUBSET names |->
                   IF T = {} THEN 0 ELSE Ref(Picked(T)).bytes + g[T \ {Picked(T)}]])
               <=> SumsTo(g, f, names)
  <2>1. \A T \in SUBSET names : T # {} => f[Picked(T)] = Ref(Picked(T)).bytes
    BY <1>0, PickedIn
  <2>2. [T \in SUBSET names |->
           IF T = {} THEN 0 ELSE Ref(Picked(T)).bytes + g[T \ {Picked(T)}]]
        = [T \in SUBSET names |-> IF T = {} THEN 0 ELSE f[Picked(T)] + g[T \ {Picked(T)}]]
    BY <2>1
  <2>3. QED
    BY <2>2 DEF SumsTo
<1>2. SumsTo(G, f, names)
  <2>1. \E g : SumsTo(g, f, names)
    BY <1>0, SumsExist
  <2>2. QED
    BY <1>1, <2>1
<1>3. Volume(names) = G[names]
  BY DEF Volume, MapThenSumSet, MapThenFoldSet, Picked
<1>4. G[names] = SumOver(f, names)
  <2> HIDE DEF G
  <2>1. names \in SUBSET names
    OBVIOUS
  <2>2. QED
    BY <1>0, <1>2, <2>1, SumsHold, SumsAgree DEF SumOver
<1>5. QED
  BY <1>3, <1>4 DEF Vol, f

\* Before the first operator nothing is live and nothing has died.
LEMMA LoopStarts ==
  ASSUME NEW ops, WellFormed(ops)
  PROVE  LiveAt(ops, 1) = {} /\ Balance(ops, 1) = 0
<1>1. DOMAIN ops = 1 .. Len(ops) /\ Len(ops) \in Nat
  BY GraphFacts
<1>2. \A q \in DOMAIN ops : ~(q < 1)
  BY <1>1
<1>3. LiveAt(ops, 1) = {}
  BY <1>2 DEF LiveAt
<1>4. DeadAt(ops, 1) = {}
  BY <1>2, NameFacts DEF DeadAt
<1>5. Vol(ops, {}) = 0
  BY SumOfNone DEF Vol
<1>6. QED
  BY <1>3, <1>4, <1>5 DEF Balance

\* One turn of either loop.
LEMMA LoopTurns ==
  ASSUME NEW ops, WellFormed(ops), NEW p \in DOMAIN ops
  PROVE  /\ LiveAt(ops, p + 1) = LiveAt(ops, p) \cup Outputs(ops[p])
         /\ Balance(ops, p + 1) = HeldAt(ops, p) - Vol(ops, {n \in NamesOf(ops) : LastUse(ops, n) = p})
         /\ HeldAt(ops, p) \in Int
<1> DEFINE D == {n \in NamesOf(ops) : LastUse(ops, n) = p}
           New == Outputs(ops[p]) \ LiveAt(ops, p)
<1>1. Len(ops) \in Nat /\ DOMAIN ops = 1 .. Len(ops) /\ Outputs(ops[p]) \subseteq NamesOf(ops)
  BY GraphFacts
<1>2. \A q \in DOMAIN ops : q < p + 1 <=> q < p \/ q = p
  BY <1>1
<1>3. LiveAt(ops, p + 1) = LiveAt(ops, p) \cup Outputs(ops[p])
  BY <1>1, <1>2 DEF LiveAt
<1>4. DeadAt(ops, p + 1) = DeadAt(ops, p) \cup D /\ DeadAt(ops, p) \cap D = {}
  <2>1. \A n \in NamesOf(ops) : LastUse(ops, n) \in DOMAIN ops
    BY NameFacts
  <2>2. \A q \in DOMAIN ops : ~(q < p /\ q = p)
    BY <1>1
  <2>3. QED
    BY <1>2, <2>1, <2>2 DEF DeadAt
<1>5. /\ LiveAt(ops, p) \in SUBSET NamesOf(ops) /\ DeadAt(ops, p) \in SUBSET NamesOf(ops)
      /\ D \in SUBSET NamesOf(ops) /\ New \in SUBSET NamesOf(ops)
  BY <1>1 DEF LiveAt, DeadAt
<1>6. LiveAt(ops, p) \cup New = LiveAt(ops, p + 1) /\ LiveAt(ops, p) \cap New = {}
  BY <1>3
<1> HIDE DEF D, New
<1>7. Vol(ops, DeadAt(ops, p + 1)) = Vol(ops, DeadAt(ops, p)) + Vol(ops, D)
  BY <1>4, <1>5, VolUnion
<1>8. Vol(ops, LiveAt(ops, p + 1)) = Vol(ops, LiveAt(ops, p)) + Vol(ops, New)
  BY <1>5, <1>6, VolUnion
<1>9. /\ Vol(ops, LiveAt(ops, p)) \in Nat /\ Vol(ops, DeadAt(ops, p)) \in Nat
      /\ Vol(ops, D) \in Nat /\ Vol(ops, New) \in Nat
  BY <1>5, VolFacts
<1>10. HeldAt(ops, p) = (Vol(ops, LiveAt(ops, p)) - Vol(ops, DeadAt(ops, p))) + Vol(ops, New)
  BY DEF HeldAt, Balance, New
<1>11. Balance(ops, p + 1)
         = (Vol(ops, LiveAt(ops, p)) + Vol(ops, New)) - (Vol(ops, DeadAt(ops, p)) + Vol(ops, D))
  BY <1>7, <1>8 DEF Balance
<1>12. Balance(ops, p + 1) = HeldAt(ops, p) - Vol(ops, D) /\ HeldAt(ops, p) \in Int
  BY <1>9, <1>10, <1>11
<1>13. QED
  BY <1>3, <1>12 DEF D

\* After the last operator everything has been live and has died.
LEMMA LoopEnds ==
  ASSUME NEW ops, WellFormed(ops)
  PROVE  Balance(ops, Len(ops) + 1) = 0
<1>1. Len(ops) \in Nat /\ DOMAIN ops = 1 .. Len(ops)
  BY GraphFacts
<1>2. \A q \in DOMAIN ops : q < Len(ops) + 1
  BY <1>1
<1>3. LiveAt(ops, Len(ops) + 1) = NamesOf(ops)
  BY <1>2 DEF LiveAt, NamesOf
<1>4. DeadAt(ops, Len(ops) + 1) = NamesOf(ops)
  BY <1>2, NameFacts DEF DeadAt
<1>5. Vol(ops, NamesOf(ops)) \in Nat
  BY VolFacts
<1>6. QED
  BY <1>3, <1>4, <1>5 DEF Balance

-----------------------------------------------------------------------------
(* The invariant. *)

ReuseAt(ops, p) ==
  IF ~HasResult(ops[p]) THEN 0
  ELSE (LastUse(ops, ops[p].outs[1].name) - LastDef(ops, ops[p].outs[1].name)) % Word

RetainedAt(ops, p) ==
  /\ HasResult(ops[p])
  /\ ops[LastDef(ops, ops[p].outs[1].name)].stage_tag = "forward"
  /\ ops[LastUse(ops, ops[p].outs[1].name)].stage_tag = "backward"

RowAt(ops, p) ==
  [live |-> HeldAt(ops, p), reuse |-> ReuseAt(ops, p), retained |-> RetainedAt(ops, p)]

Rows(ops, k) == [p \in 1 .. k |-> RowAt(ops, p)]

KeptAt(ops)   == {p \in DOMAIN ops : RetainedAt(ops, p)}
ResultAt(ops) == {p \in DOMAIN ops : HasResult(ops[p])}

KeptBytes(ops) == [p \in KeptAt(ops) |-> Weights(ops)[ops[p].outs[1].name]]
Reuses(ops)    == [p \in DOMAIN ops |-> ReuseAt(ops, p)]

SummaryOf(ops, pk) ==
  [operators      |-> Len(ops),
   peak_live      |-> pk.live,
   peak_at        |-> pk.at,
   retained       |-> SumOver(KeptBytes(ops), KeptAt(ops)),
   retained_count |-> Cardinality(KeptAt(ops)),
   reuse_sum      |-> SumOver(Reuses(ops), ResultAt(ops)),
   reuse_n        |-> Cardinality(ResultAt(ops))]

\* The greatest volume held before position p, if it is positive.
PeakBy(ops, p, pk) ==
  /\ pk.live \in Nat /\ pk.at \in 1 .. Len(ops) + 1
  /\ \A q \in 1 .. p - 1 : HeldAt(ops, q) <= pk.live
  /\ pk.live = 0 \/ \E q \in 1 .. p - 1 : pk.live = HeldAt(ops, q)

Waits ==
  /\ pos = 1 /\ live = {} /\ live_bytes = 0
  /\ table = << >> /\ peak = NoPeak /\ summary = << >>

Loops == live = LiveAt(filtered_ops_, pos) /\ live_bytes = Balance(filtered_ops_, pos)

MemInv ==
  /\ WellFormed(filtered_ops_)
  /\ doing \in {"hooks", "compiled", "table", "summary", "done"}
  /\ pos \in 1 .. Len(filtered_ops_) + 1
  /\ doing \in {"hooks", "compiled"} => Waits
  /\ doing = "table" =>
       /\ Loops /\ filtered_ops_ # << >> /\ summary = << >> /\ peak = NoPeak
       /\ table = Rows(filtered_ops_, pos - 1)
  /\ doing = "summary" =>
       /\ Loops /\ filtered_ops_ # << >> /\ summary = << >>
       /\ table = Rows(filtered_ops_, Len(filtered_ops_))
       /\ PeakBy(filtered_ops_, pos, peak)
  /\ doing = "done" =>
       \/ Waits
       \/ /\ filtered_ops_ # << >>
          /\ live \subseteq NamesOf(filtered_ops_) /\ live_bytes \in Int
          /\ table = Rows(filtered_ops_, Len(filtered_ops_))
          /\ PeakBy(filtered_ops_, Len(filtered_ops_) + 1, peak)
          /\ \/ summary = << >>
             \/ summary = <<SummaryOf(filtered_ops_, peak)>>

\* A step of the tool, for any operators a policy may leave.
MemoryStep ==
  \/ \E ops : WellFormed(ops) /\ OnCompileEnd(ops)
  \/ OnShutdown \/ TableRow \/ TableDone \/ PeakTurn \/ SummaryDone

\* The empty list is one.
LEMMA EmptyFormed == WellFormed(<< >>)
<1>1. IsList(<< >>)
  BY EmptySeq DEF IsList
<1>2. Len(<< >>) = 0 /\ DOMAIN << >> = {}
  OBVIOUS
<1>3. Len(<< >>) <= Word
  BY <1>2, MemoryProxyAssumption
<1>4. QED
  BY <1>1, <1>2, <1>3 DEF WellFormed

\* The first result of an operator is a name.
LEMMA FirstName ==
  ASSUME NEW ops, WellFormed(ops), NEW p \in DOMAIN ops, HasResult(ops[p])
  PROVE  1 \in DOMAIN ops[p].outs /\ ops[p].outs[1].name \in NamesOf(ops)
<1>1. 1 \in DOMAIN ops[p].outs /\ ops[p].outs[1].name # ""
  BY ListFacts DEF WellFormed, HasResult
<1>2. ops[p].outs[1].name \in {ops[p].outs[k].name : k \in DOMAIN ops[p].outs}
  BY <1>1
<1>3. ops[p].outs[1].name \in Outputs(ops[p])
  BY <1>1, <1>2 DEF Outputs
<1>4. QED
  BY <1>1, <1>3 DEF NamesOf

\* Distances are numbers a std::size_t has.
LEMMA ReuseType ==
  ASSUME NEW ops, WellFormed(ops), NEW p \in DOMAIN ops
  PROVE  ReuseAt(ops, p) \in 0 .. Word - 1
<1>1. Word \in Nat \ {0}
  BY MemoryProxyAssumption
<1>2. CASE ~HasResult(ops[p])
  BY <1>1, <1>2 DEF ReuseAt
<1>3. CASE HasResult(ops[p])
  <2>1. PICK n : n = ops[p].outs[1].name
    OBVIOUS
  <2>2. n \in NamesOf(ops)
    BY <1>3, <2>1, FirstName
  <2>3. LastUse(ops, n) \in Int /\ LastDef(ops, n) \in Int
    BY <2>2, NameFacts, GraphFacts
  <2>4. PICK d : d = LastUse(ops, n) - LastDef(ops, n)
    OBVIOUS
  <2>5. d \in Int
    BY <2>3, <2>4
  <2>6. d % Word \in 0 .. Word - 1
    BY <1>1, <2>5
  <2>7. QED
    BY <1>3, <2>1, <2>4, <2>6 DEF ReuseAt
<1>4. QED
  BY <1>2, <1>3

\* The rows of a loop, one by one.
LEMMA RowsFacts ==
  ASSUME NEW ops, NEW k \in Nat
  PROVE  /\ Len(Rows(ops, k)) = k /\ DOMAIN Rows(ops, k) = 1 .. k
         /\ \A p \in 1 .. k : Rows(ops, k)[p] = RowAt(ops, p)
         /\ Append(Rows(ops, k), RowAt(ops, k + 1)) = Rows(ops, k + 1)
         /\ Rows(ops, 0) = << >>
<1> DEFINE T == {RowAt(ops, p) : p \in Nat}
<1>1. \A j \in Nat : Rows(ops, j) \in Seq(T) /\ Len(Rows(ops, j)) = j
  BY DEF Rows
<1>2. DOMAIN Rows(ops, k) = 1 .. k /\ \A p \in 1 .. k : Rows(ops, k)[p] = RowAt(ops, p)
  BY DEF Rows
<1>3. Append(Rows(ops, k), RowAt(ops, k + 1)) = Rows(ops, k + 1)
  <2>1. PICK s : s = Rows(ops, k)
    OBVIOUS
  <2>2. PICK e : e = RowAt(ops, k + 1)
    OBVIOUS
  <2>3. s \in Seq(T) /\ Len(s) = k /\ e \in T /\ \A p \in 1 .. k : s[p] = RowAt(ops, p)
    BY <1>1, <1>2, <2>1, <2>2
  <2> HIDE DEF T
  <2>4. /\ Append(s, e) \in Seq(T) /\ Len(Append(s, e)) = k + 1
        /\ \A p \in 1 .. k : Append(s, e)[p] = s[p]
        /\ Append(s, e)[k + 1] = e
    BY <2>3, AppendProperties
  <2>5. PICK t : t = Append(s, e)
    OBVIOUS
  <2>6. \A p \in 1 .. k + 1 : p \in 1 .. k \/ p = k + 1
    OBVIOUS
  <2>7. \A p \in 1 .. k + 1 : t[p] = RowAt(ops, p)
    BY <2>2, <2>3, <2>4, <2>5, <2>6
  <2>8. t = [p \in 1 .. k + 1 |-> t[p]]
    <3>1. t \in Seq(T) /\ Len(t) = k + 1
      BY <2>4, <2>5
    <3>2. QED
      BY <3>1
  <2>9. t = Rows(ops, k + 1)
    BY <2>7, <2>8 DEF Rows
  <2>10. QED
    BY <2>1, <2>2, <2>5, <2>9
<1>4. Rows(ops, 0) = << >>
  <2>1. Rows(ops, 0) \in Seq(T) /\ Len(Rows(ops, 0)) = 0
    BY <1>1
  <2> HIDE DEF T
  <2>2. PICK r : r = Rows(ops, 0)
    OBVIOUS
  <2>3. QED
    BY <2>1, <2>2, EmptySeq
<1>5. 0 \in Nat
  OBVIOUS
<1>6. QED
  BY <1>1, <1>2, <1>3, <1>4

\* What a row and the summary's sets are, as the tool states them.
LEMMA RowIs ==
  ASSUME NEW p \in DOMAIN filtered_ops_
  PROVE  /\ Reuse(Ops[p]) = ReuseAt(filtered_ops_, p)
         /\ Retained(Ops[p]) = RetainedAt(filtered_ops_, p)
  BY DEF Ops, Reuse, ReuseAt, Retained, RetainedAt, Ref, LastDef, LastUse, DefAt, UseAt,
         Definers, Readers

\* The sets of the summary.
LEMMA SummarySets ==
  /\ Kept = KeptAt(filtered_ops_)
  /\ WithResult = ResultAt(filtered_ops_)
<1>1. \A p \in DOMAIN Ops : Retained(Ops[p]) = RetainedAt(filtered_ops_, p)
  BY RowIs DEF Ops
<1>2. Kept = KeptAt(filtered_ops_)
  BY <1>1 DEF Kept, KeptAt, Ops
<1>3. QED
  BY <1>2 DEF WithResult, ResultAt, Ops

\* The bytes retained, as the tool adds them up.
LEMMA RetainedIs ==
  ASSUME WellFormed(filtered_ops_)
  PROVE  MapThenSumSet(LAMBDA p : Ref(Ops[p].outs[1].name).bytes, Kept)
           = SumOver(KeptBytes(filtered_ops_), KeptAt(filtered_ops_))
<1> DEFINE S == Kept
           f == KeptBytes(filtered_ops_)
           G == CHOOSE g : g = [T \in SUBSET S |->
                   IF T = {} THEN 0
                   ELSE Ref(Ops[Picked(T)].outs[1].name).bytes + g[T \ {Picked(T)}]]
<1>0. IsFiniteSet(S) /\ \A p \in S : f[p] = Ref(Ops[p].outs[1].name).bytes
  <2>1. PICK D : D = DOMAIN filtered_ops_
    OBVIOUS
  <2>2. IsFiniteSet(D)
    BY <2>1, GraphFacts, FS_Interval
  <2>3. S \in SUBSET D
    BY <2>1 DEF Kept, Ops
  <2>4. IsFiniteSet(S)
    BY <2>2, <2>3, FS_Subset
  <2>5. \A p \in S : f[p] = Ref(Ops[p].outs[1].name).bytes
    <3>1. SUFFICES ASSUME NEW p \in S
                   PROVE  f[p] = Ref(Ops[p].outs[1].name).bytes
      OBVIOUS
    <3>2. p \in DOMAIN filtered_ops_ /\ p \in KeptAt(filtered_ops_)
      BY SummarySets DEF KeptAt
    <3>3. PICK n : n = filtered_ops_[p].outs[1].name
      OBVIOUS
    <3>4. n \in NamesOf(filtered_ops_)
      BY <3>2, <3>3, FirstName DEF KeptAt, RetainedAt
    <3>5. Weights(filtered_ops_)[n] = Ref(n).bytes
      BY <3>4 DEF Weights, Ref, LastDef, DefAt, Definers, Ops
    <3>6. QED
      BY <3>2, <3>3, <3>5 DEF KeptBytes, Ops
  <2>6. QED
    BY <2>4, <2>5
<1> HIDE DEF f, S
<1>1. ASSUME NEW g
      PROVE  (g = [T \in SUBSET S |->
                   IF T = {} THEN 0
                   ELSE Ref(Ops[Picked(T)].outs[1].name).bytes + g[T \ {Picked(T)}]])
               <=> SumsTo(g, f, S)
  <2>1. \A T \in SUBSET S : T # {} => f[Picked(T)] = Ref(Ops[Picked(T)].outs[1].name).bytes
    BY <1>0, PickedIn
  <2>2. [T \in SUBSET S |->
           IF T = {} THEN 0
           ELSE Ref(Ops[Picked(T)].outs[1].name).bytes + g[T \ {Picked(T)}]]
        = [T \in SUBSET S |-> IF T = {} THEN 0 ELSE f[Picked(T)] + g[T \ {Picked(T)}]]
    BY <2>1
  <2>3. QED
    BY <2>2 DEF SumsTo
<1>2. SumsTo(G, f, S)
  <2>1. \E g : SumsTo(g, f, S)
    BY <1>0, SumsExist
  <2>2. QED
    BY <1>1, <2>1
<1>3. MapThenSumSet(LAMBDA p : Ref(Ops[p].outs[1].name).bytes, Kept) = G[S]
  BY DEF MapThenSumSet, MapThenFoldSet, Picked, S
<1>4. G[S] = SumOver(f, S)
  <2> HIDE DEF G
  <2>1. S \in SUBSET S
    OBVIOUS
  <2>2. QED
    BY <1>0, <1>2, <2>1, SumsHold, SumsAgree DEF SumOver
<1>5. QED
  BY <1>3, <1>4, SummarySets DEF f, S

\* The distances, as the tool adds them up.
LEMMA ReusesAre ==
  ASSUME WellFormed(filtered_ops_)
  PROVE  MapThenSumSet(LAMBDA p : Reuse(Ops[p]), WithResult)
           = SumOver(Reuses(filtered_ops_), ResultAt(filtered_ops_))
<1> DEFINE S == WithResult
           f == Reuses(filtered_ops_)
           G == CHOOSE g : g = [T \in SUBSET S |->
                   IF T = {} THEN 0 ELSE Reuse(Ops[Picked(T)]) + g[T \ {Picked(T)}]]
<1>0. IsFiniteSet(S) /\ \A p \in S : f[p] = Reuse(Ops[p])
  <2>1. PICK D : D = DOMAIN filtered_ops_
    OBVIOUS
  <2>2. IsFiniteSet(D)
    BY <2>1, GraphFacts, FS_Interval
  <2>3. S \in SUBSET D
    BY <2>1 DEF WithResult, Ops
  <2>4. IsFiniteSet(S)
    BY <2>2, <2>3, FS_Subset
  <2>5. \A p \in S : f[p] = Reuse(Ops[p])
    BY <2>1, <2>3, RowIs DEF Reuses
  <2>6. QED
    BY <2>4, <2>5
<1> HIDE DEF f, S
<1>1. ASSUME NEW g
      PROVE  (g = [T \in SUBSET S |->
                   IF T = {} THEN 0 ELSE Reuse(Ops[Picked(T)]) + g[T \ {Picked(T)}]])
               <=> SumsTo(g, f, S)
  <2>1. \A T \in SUBSET S : T # {} => f[Picked(T)] = Reuse(Ops[Picked(T)])
    BY <1>0, PickedIn
  <2>2. [T \in SUBSET S |->
           IF T = {} THEN 0 ELSE Reuse(Ops[Picked(T)]) + g[T \ {Picked(T)}]]
        = [T \in SUBSET S |-> IF T = {} THEN 0 ELSE f[Picked(T)] + g[T \ {Picked(T)}]]
    BY <2>1
  <2>3. QED
    BY <2>2 DEF SumsTo
<1>2. SumsTo(G, f, S)
  <2>1. \E g : SumsTo(g, f, S)
    BY <1>0, SumsExist
  <2>2. QED
    BY <1>1, <2>1
<1>3. MapThenSumSet(LAMBDA p : Reuse(Ops[p]), WithResult) = G[S]
  BY DEF MapThenSumSet, MapThenFoldSet, Picked, S
<1>4. G[S] = SumOver(f, S)
  <2> HIDE DEF G
  <2>1. S \in SUBSET S
    OBVIOUS
  <2>2. QED
    BY <1>0, <1>2, <2>1, SumsHold, SumsAgree DEF SumOver
<1>5. QED
  BY <1>3, <1>4, SummarySets DEF f, S

\* The volumes of a turn, as the tool computes them.
LEMMA TurnIs ==
  ASSUME WellFormed(filtered_ops_), Loops, NEW p \in DOMAIN filtered_ops_, p = pos
  PROVE  /\ Held = HeldAt(filtered_ops_, p)
         /\ Volume(Dying(p)) = Vol(filtered_ops_, {n \in NamesOf(filtered_ops_) :
                                                    LastUse(filtered_ops_, n) = p})
<1>1. Outputs(filtered_ops_[p]) \subseteq NamesOf(filtered_ops_)
  BY GraphFacts
<1>2. Volume(Outputs(Ops[pos]) \ live)
        = Vol(filtered_ops_, Outputs(filtered_ops_[p]) \ LiveAt(filtered_ops_, p))
  <2>1. PICK new : new = Outputs(filtered_ops_[p]) \ LiveAt(filtered_ops_, p)
    OBVIOUS
  <2>2. new \in SUBSET NamesOf(filtered_ops_)
    BY <1>1, <2>1
  <2>3. Volume(new) = Vol(filtered_ops_, new)
    BY <2>2, VolumeIs
  <2>4. Outputs(Ops[pos]) \ live = new
    BY <2>1 DEF Loops, Ops
  <2>5. QED
    BY <2>1, <2>3, <2>4
<1>3. Held = HeldAt(filtered_ops_, p)
  BY <1>2 DEF Held, HeldAt, Loops
<1>4. Dying(p) = {n \in NamesOf(filtered_ops_) : LastUse(filtered_ops_, n) = p}
  BY DEF Dying, Defined, NamesOf, Ops, Ref, LastUse, LastDef, UseAt, DefAt, Readers, Definers
<1>5. Volume(Dying(p)) = Vol(filtered_ops_, Dying(p))
  <2>1. Dying(p) \in SUBSET NamesOf(filtered_ops_)
    BY <1>4
  <2>2. QED
    BY <2>1, VolumeIs
<1>6. QED
  BY <1>3, <1>4, <1>5

\* A turn carries the account from one position to the next.
LEMMA TurnKeeps ==
  ASSUME WellFormed(filtered_ops_), Loops, pos \in DOMAIN filtered_ops_, Turn,
         filtered_ops_' = filtered_ops_
  PROVE  Loops' /\ pos' = pos + 1 /\ Held = HeldAt(filtered_ops_, pos)
<1>1. PICK p \in DOMAIN filtered_ops_ : p = pos
  OBVIOUS
<1>2. /\ Held = HeldAt(filtered_ops_, p)
      /\ Volume(Dying(p)) = Vol(filtered_ops_, {n \in NamesOf(filtered_ops_) :
                                                    LastUse(filtered_ops_, n) = p})
  BY <1>1, TurnIs
<1>3. /\ LiveAt(filtered_ops_, p + 1) = LiveAt(filtered_ops_, p) \cup Outputs(filtered_ops_[p])
      /\ Balance(filtered_ops_, p + 1)
           = HeldAt(filtered_ops_, p) - Vol(filtered_ops_, {n \in NamesOf(filtered_ops_) :
                                                             LastUse(filtered_ops_, n) = p})
  BY LoopTurns
<1>4. live' = LiveAt(filtered_ops_, p + 1)
  BY <1>1, <1>3 DEF Turn, Loops, Ops
<1>5. live_bytes' = Balance(filtered_ops_, p + 1)
  BY <1>1, <1>2, <1>3 DEF Turn
<1>6. pos' = p + 1
  BY <1>1 DEF Turn
<1>7. QED
  BY <1>1, <1>2, <1>4, <1>5, <1>6 DEF Loops

\* The invariant holds at the start.
LEMMA MemoryStarts == Init => MemInv
<1> SUFFICES ASSUME Init
             PROVE  MemInv
  OBVIOUS
<1>1. WellFormed(filtered_ops_)
  BY EmptyFormed DEF Init
<1>2. pos \in 1 .. Len(filtered_ops_) + 1
  <2>1. Len(filtered_ops_) \in Nat /\ pos = 1
    BY <1>1, GraphFacts DEF Init
  <2>2. QED
    BY <2>1
<1>3. Waits /\ doing = "hooks"
  BY DEF Init, Waits
<1>4. QED
  BY <1>1, <1>2, <1>3 DEF MemInv

\* The operators arrive.
LEMMA CompileKeeps ==
  ASSUME MemInv, NEW ops, WellFormed(ops), OnCompileEnd(ops)
  PROVE  MemInv'
<1>1. filtered_ops_' = ops /\ doing' = "compiled" /\ Waits
  BY DEF OnCompileEnd, MemInv
<1>2. Waits'
  BY <1>1 DEF OnCompileEnd, Waits, loopVars
<1>3. WellFormed(filtered_ops_')
  BY <1>1
<1>4. pos' \in 1 .. Len(filtered_ops_') + 1
  <2>1. Len(filtered_ops_') \in Nat /\ pos' = 1
    BY <1>2, <1>3, GraphFacts DEF Waits
  <2>2. QED
    BY <2>1
<1>5. QED
  BY <1>1, <1>2, <1>3, <1>4 DEF MemInv

\* The reports begin.
LEMMA ShutdownKeeps ==
  ASSUME MemInv, OnShutdown
  PROVE  MemInv'
<1>1. /\ Waits /\ WellFormed(filtered_ops_) /\ pos \in 1 .. Len(filtered_ops_) + 1
      /\ filtered_ops_' = filtered_ops_ /\ pos' = pos
  BY DEF OnShutdown, MemInv, loopVars
<1>2. Waits'
  BY <1>1 DEF OnShutdown, Waits, loopVars
<1>3. CASE doing' = "done"
  BY <1>1, <1>2, <1>3 DEF MemInv
<1>4. CASE doing' = "table"
  <2>1. filtered_ops_ # << >>
    BY <1>4 DEF OnShutdown, Ops
  <2>2. pos' = 1 /\ live' = {} /\ live_bytes' = 0 /\ table' = << >> /\ peak' = NoPeak /\ summary' = << >>
    BY <1>2 DEF Waits
  <2>3. LiveAt(filtered_ops_, 1) = {} /\ Balance(filtered_ops_, 1) = 0
    BY <1>1, LoopStarts
  <2>4. Loops'
    BY <1>1, <2>2, <2>3 DEF Loops
  <2>5. table' = Rows(filtered_ops_', pos' - 1)
    <3>1. Rows(filtered_ops_', 0) = << >>
      BY RowsFacts
    <3>2. pos' - 1 = 0
      BY <2>2
    <3>3. QED
      BY <2>2, <3>1, <3>2
  <2>6. QED
    BY <1>1, <1>4, <2>1, <2>2, <2>4, <2>5 DEF MemInv, Waits
<1>5. QED
  BY <1>3, <1>4 DEF OnShutdown

\* A row of the table.
LEMMA RowKeeps ==
  ASSUME MemInv, TableRow
  PROVE  MemInv'
<1>1. /\ WellFormed(filtered_ops_) /\ pos \in 1 .. Len(filtered_ops_) + 1
      /\ Loops /\ filtered_ops_ # << >> /\ summary = << >> /\ peak = NoPeak
      /\ table = Rows(filtered_ops_, pos - 1)
      /\ filtered_ops_' = filtered_ops_ /\ doing = "table" /\ doing' = doing
      /\ summary' = summary /\ peak' = peak
      /\ pos <= Len(filtered_ops_) /\ Turn
  BY DEF TableRow, MemInv, Ops
<1>2. Len(filtered_ops_) \in Nat /\ DOMAIN filtered_ops_ = 1 .. Len(filtered_ops_)
  BY <1>1, GraphFacts
<1>3. pos \in DOMAIN filtered_ops_ /\ pos - 1 \in Nat /\ (pos - 1) + 1 = pos
  BY <1>1, <1>2
<1>4. Loops' /\ pos' = pos + 1 /\ Held = HeldAt(filtered_ops_, pos)
  BY <1>1, <1>3, TurnKeeps
<1>5. pos' \in 1 .. Len(filtered_ops_) + 1 /\ pos' - 1 = pos
  BY <1>1, <1>2, <1>4
<1>6. table' = Append(table, RowAt(filtered_ops_, pos))
  <2>1. Reuse(Ops[pos]) = ReuseAt(filtered_ops_, pos) /\ Retained(Ops[pos]) = RetainedAt(filtered_ops_, pos)
    BY <1>3, RowIs
  <2>2. QED
    BY <1>4, <2>1 DEF TableRow, RowAt
<1>7. table' = Rows(filtered_ops_, pos)
  <2>1. Append(Rows(filtered_ops_, pos - 1), RowAt(filtered_ops_, (pos - 1) + 1))
          = Rows(filtered_ops_, (pos - 1) + 1)
    BY <1>3, RowsFacts
  <2>2. QED
    BY <1>1, <1>3, <1>6, <2>1
<1>8. QED
  BY <1>1, <1>4, <1>5, <1>7 DEF MemInv

\* The second loop begins.
LEMMA TableDoneKeeps ==
  ASSUME MemInv, TableDone
  PROVE  MemInv'
<1>1. /\ WellFormed(filtered_ops_) /\ pos \in 1 .. Len(filtered_ops_) + 1
      /\ filtered_ops_ # << >> /\ summary = << >> /\ peak = NoPeak
      /\ table = Rows(filtered_ops_, pos - 1)
      /\ filtered_ops_' = filtered_ops_ /\ doing' = "summary"
      /\ summary' = summary /\ peak' = peak /\ table' = table
      /\ pos > Len(filtered_ops_)
      /\ pos' = 1 /\ live' = {} /\ live_bytes' = 0
  BY DEF TableDone, MemInv, Ops, StartLoop
<1>2. Len(filtered_ops_) \in Nat
  BY <1>1, GraphFacts
<1>3. pos - 1 = Len(filtered_ops_) /\ 1 \in 1 .. Len(filtered_ops_) + 1
  BY <1>1, <1>2
<1>4. LiveAt(filtered_ops_, 1) = {} /\ Balance(filtered_ops_, 1) = 0
  BY <1>1, LoopStarts
<1>5. Loops'
  BY <1>1, <1>4 DEF Loops
<1>6. PeakBy(filtered_ops_', pos', peak')
  <2>1. \A q \in 1 .. 1 - 1 : FALSE
    OBVIOUS
  <2>2. peak'.live = 0 /\ peak'.at = 1
    BY <1>1 DEF NoPeak
  <2>3. QED
    BY <1>1, <1>3, <2>1, <2>2 DEF PeakBy
<1>7. QED
  BY <1>1, <1>3, <1>5, <1>6 DEF MemInv

\* A turn of the second loop.
LEMMA PeakKeeps ==
  ASSUME MemInv, PeakTurn
  PROVE  MemInv'
<1>1. /\ WellFormed(filtered_ops_) /\ pos \in 1 .. Len(filtered_ops_) + 1
      /\ Loops /\ filtered_ops_ # << >> /\ summary = << >>
      /\ table = Rows(filtered_ops_, Len(filtered_ops_))
      /\ PeakBy(filtered_ops_, pos, peak)
      /\ filtered_ops_' = filtered_ops_ /\ doing = "summary" /\ doing' = doing
      /\ summary' = summary /\ table' = table
      /\ pos <= Len(filtered_ops_) /\ Turn
  BY DEF PeakTurn, MemInv, Ops
<1>2. Len(filtered_ops_) \in Nat /\ DOMAIN filtered_ops_ = 1 .. Len(filtered_ops_)
  BY <1>1, GraphFacts
<1>3. pos \in DOMAIN filtered_ops_
  BY <1>1, <1>2
<1>4. Loops' /\ pos' = pos + 1 /\ Held = HeldAt(filtered_ops_, pos)
  BY <1>1, <1>3, TurnKeeps
<1>5. pos' \in 1 .. Len(filtered_ops_) + 1 /\ pos' - 1 = pos
  BY <1>1, <1>2, <1>4
<1>6. PeakBy(filtered_ops_, pos', peak')
  <2>1. HeldAt(filtered_ops_, pos) \in Int
    BY <1>1, <1>3, LoopTurns
  <2>2. PICK held : held = HeldAt(filtered_ops_, pos)
    OBVIOUS
  <2>0. pos \in Nat /\ pos >= 1
    BY <1>1, <1>2
  <2>10. PICK k \in Nat : k = pos /\ k >= 1
    BY <2>0
  <2>11. PICK m : m = pos' - 1
    OBVIOUS
  <2>12. m = k
    BY <1>5, <2>10, <2>11
  <2>13. /\ \A q \in 1 .. k : q \in 1 .. k - 1 \/ q = k
         /\ \A q \in 1 .. k - 1 : q \in 1 .. k
         /\ k \in 1 .. k
    BY <2>10
  <2>3. \A q \in 1 .. pos' - 1 : q \in 1 .. pos - 1 \/ q = pos
    BY <2>10, <2>11, <2>12, <2>13
  <2>4. \A q \in 1 .. pos - 1 : q \in 1 .. pos' - 1
    BY <2>10, <2>11, <2>12, <2>13
  <2>5. pos \in 1 .. pos' - 1
    BY <2>10, <2>11, <2>12, <2>13
  <2>6. /\ peak.live \in Nat /\ peak.at \in 1 .. Len(filtered_ops_) + 1
        /\ \A q \in 1 .. pos - 1 : HeldAt(filtered_ops_, q) <= peak.live
        /\ peak.live = 0 \/ \E q \in 1 .. pos - 1 : peak.live = HeldAt(filtered_ops_, q)
    BY <1>1 DEF PeakBy
  <2>7. CASE held > peak.live
    <3>1. peak'.live = held /\ peak'.at = pos
      BY <1>4, <2>2, <2>7 DEF PeakTurn
    <3>2. held \in Nat
      BY <2>1, <2>2, <2>6, <2>7
    <3>3. \A q \in 1 .. pos - 1 : HeldAt(filtered_ops_, q) <= held
      <4>1. SUFFICES ASSUME NEW q \in 1 .. pos - 1
                     PROVE  HeldAt(filtered_ops_, q) <= held
        OBVIOUS
      <4>2. HeldAt(filtered_ops_, q) <= peak.live
        BY <2>6
      <4>3. q \in DOMAIN filtered_ops_
        BY <1>1, <1>2
      <4>4. HeldAt(filtered_ops_, q) \in Int
        BY <1>1, <4>3, LoopTurns
      <4>5. PICK x : x = HeldAt(filtered_ops_, q)
        OBVIOUS
      <4>6. QED
        BY <2>6, <2>7, <3>2, <4>2, <4>4, <4>5
    <3>4. held <= held
      BY <3>2
    <3>5. \A q \in 1 .. pos' - 1 : HeldAt(filtered_ops_, q) <= held
      BY <2>2, <2>3, <3>3, <3>4
    <3>6. QED
      BY <1>1, <2>2, <2>5, <3>1, <3>2, <3>5 DEF PeakBy
  <2>8. CASE ~(held > peak.live)
    <3>1. peak' = peak
      BY <1>4, <2>2, <2>8 DEF PeakTurn
    <3>2. held <= peak.live
      BY <2>1, <2>2, <2>6, <2>8
    <3>3. \A q \in 1 .. pos' - 1 : HeldAt(filtered_ops_, q) <= peak.live
      BY <2>2, <2>3, <2>6, <3>2
    <3>4. QED
      BY <2>4, <2>6, <3>1, <3>3 DEF PeakBy
  <2>9. QED
    BY <2>7, <2>8
<1>7. QED
  BY <1>1, <1>4, <1>5, <1>6 DEF MemInv

\* The summary is written, or its file does not open.
LEMMA SummaryKeeps ==
  ASSUME MemInv, SummaryDone
  PROVE  MemInv'
<1>1. /\ WellFormed(filtered_ops_) /\ pos \in 1 .. Len(filtered_ops_) + 1
      /\ Loops /\ filtered_ops_ # << >>
      /\ table = Rows(filtered_ops_, Len(filtered_ops_))
      /\ PeakBy(filtered_ops_, pos, peak)
      /\ filtered_ops_' = filtered_ops_ /\ doing' = "done"
      /\ pos' = pos /\ live' = live /\ live_bytes' = live_bytes
      /\ table' = table /\ peak' = peak
      /\ pos > Len(filtered_ops_)
  BY DEF SummaryDone, MemInv, Ops, loopVars
<1>2. Len(filtered_ops_) \in Nat
  BY <1>1, GraphFacts
<1>3. pos = Len(filtered_ops_) + 1
  BY <1>1, <1>2
<1>4. live \subseteq NamesOf(filtered_ops_) /\ live_bytes \in Int
  <2>1. live = LiveAt(filtered_ops_, pos) /\ live_bytes = 0
    BY <1>1, <1>3, LoopEnds DEF Loops
  <2>2. QED
    BY <2>1 DEF LiveAt
<1>5. summary' = << >> \/ summary' = <<SummaryOf(filtered_ops_, peak)>>
  <2>1. PICK r : r = MapThenSumSet(LAMBDA p : Ref(Ops[p].outs[1].name).bytes, Kept)
    OBVIOUS
  <2>2. PICK u : u = MapThenSumSet(LAMBDA p : Reuse(Ops[p]), WithResult)
    OBVIOUS
  <2>3. \/ summary' = << >>
        \/ summary' = << [operators      |-> Len(Ops),
                          peak_live      |-> peak.live,
                          peak_at        |-> peak.at,
                          retained       |-> r,
                          retained_count |-> Cardinality(Kept),
                          reuse_sum      |-> u,
                          reuse_n        |-> Cardinality(WithResult)] >>
    BY <2>1, <2>2 DEF SummaryDone
  <2>4. /\ r = SumOver(KeptBytes(filtered_ops_), KeptAt(filtered_ops_))
        /\ u = SumOver(Reuses(filtered_ops_), ResultAt(filtered_ops_))
    BY <1>1, <2>1, <2>2, RetainedIs, ReusesAre
  <2>5. QED
    BY <2>3, <2>4, SummarySets DEF SummaryOf, Ops
<1>6. QED
  BY <1>1, <1>3, <1>4, <1>5 DEF MemInv

\* Every step keeps the invariant.
LEMMA MemorySteps ==
  ASSUME MemInv, MemoryStep
  PROVE  MemInv'
<1>1. CASE \E ops : WellFormed(ops) /\ OnCompileEnd(ops)
  BY <1>1, CompileKeeps
<1>2. CASE OnShutdown
  BY <1>2, ShutdownKeeps
<1>3. CASE TableRow
  BY <1>3, RowKeeps
<1>4. CASE TableDone
  BY <1>4, TableDoneKeeps
<1>5. CASE PeakTurn
  BY <1>5, PeakKeeps
<1>6. CASE SummaryDone
  BY <1>6, SummaryKeeps
<1>7. QED
  BY <1>1, <1>2, <1>3, <1>4, <1>5, <1>6 DEF MemoryStep

\* And so does a step that leaves the tool alone.
LEMMA MemoryRests ==
  ASSUME MemInv, UNCHANGED vars
  PROVE  MemInv'
<1>1. /\ filtered_ops_' = filtered_ops_ /\ doing' = doing /\ pos' = pos /\ live' = live
      /\ live_bytes' = live_bytes /\ table' = table /\ peak' = peak /\ summary' = summary
  BY DEF vars
<1>2. Waits <=> Waits'
  BY <1>1 DEF Waits
<1>3. Loops <=> Loops'
  BY <1>1 DEF Loops
<1>4. QED
  BY <1>1, <1>2, <1>3 DEF MemInv

-----------------------------------------------------------------------------
(* What the invariant says of the figures. *)

\* The rows there are.
LEMMA TableFacts ==
  ASSUME MemInv
  PROVE  \E j \in 0 .. Len(filtered_ops_) : table = Rows(filtered_ops_, j)
<1>1. Len(filtered_ops_) \in Nat
  BY GraphFacts DEF MemInv
<1>2. CASE table = << >>
  <2>1. Rows(filtered_ops_, 0) = << >> /\ 0 \in 0 .. Len(filtered_ops_)
    BY <1>1, RowsFacts
  <2>2. QED
    BY <1>2, <2>1
<1>3. CASE table = Rows(filtered_ops_, Len(filtered_ops_))
  <2>1. Len(filtered_ops_) \in 0 .. Len(filtered_ops_)
    BY <1>1
  <2>2. QED
    BY <1>3, <2>1
<1>4. CASE table = Rows(filtered_ops_, pos - 1)
  <2>1. pos \in 1 .. Len(filtered_ops_) + 1
    BY DEF MemInv
  <2>2. pos - 1 \in 0 .. Len(filtered_ops_)
    BY <1>1, <2>1
  <2>3. QED
    BY <1>4, <2>2
<1>5. QED
  BY <1>2, <1>3, <1>4 DEF MemInv, Waits

\* The summary there may be.
LEMMA SummaryFacts ==
  ASSUME MemInv, summary # << >>
  PROVE  /\ summary = <<SummaryOf(filtered_ops_, peak)>>
         /\ filtered_ops_ # << >>
         /\ table = Rows(filtered_ops_, Len(filtered_ops_))
         /\ PeakBy(filtered_ops_, Len(filtered_ops_) + 1, peak)
  BY DEF MemInv, Waits

\* State is well typed.
LEMMA MemoryTypes == MemInv => MemoryTypeOK
<1> SUFFICES ASSUME MemInv
             PROVE  MemoryTypeOK
  OBVIOUS
<1>1. WellFormed(filtered_ops_) /\ Ops = filtered_ops_
  BY DEF MemInv, Ops
<1>2. \A p \in DOMAIN Ops : ResultBytes(Ops[p]) \in Nat
  BY <1>1, GraphFacts
<1>3. Defined = NamesOf(filtered_ops_)
  BY DEF Defined, NamesOf, Ops
<1>4. Len(filtered_ops_) \in Nat /\ DOMAIN filtered_ops_ = 1 .. Len(filtered_ops_)
  BY <1>1, GraphFacts
<1>5. live \subseteq Defined /\ live_bytes \in Int
  <2>1. CASE Waits
    BY <2>1 DEF Waits
  <2>2. CASE Loops
    <3>1. \A p \in DOMAIN filtered_ops_ : Balance(filtered_ops_, p) \in Int
      <4>1. SUFFICES ASSUME NEW p \in DOMAIN filtered_ops_
                     PROVE  Balance(filtered_ops_, p) \in Int
        OBVIOUS
      <4>2. /\ LiveAt(filtered_ops_, p) \in SUBSET NamesOf(filtered_ops_)
            /\ DeadAt(filtered_ops_, p) \in SUBSET NamesOf(filtered_ops_)
        BY DEF LiveAt, DeadAt
      <4>3. Vol(filtered_ops_, LiveAt(filtered_ops_, p)) \in Nat /\ Vol(filtered_ops_, DeadAt(filtered_ops_, p)) \in Nat
        BY <1>1, <4>2, VolFacts
      <4>4. QED
        BY <4>3 DEF Balance
    <3>2. Balance(filtered_ops_, Len(filtered_ops_) + 1) = 0
      BY <1>1, LoopEnds
    <3>3. pos \in DOMAIN filtered_ops_ \/ pos = Len(filtered_ops_) + 1
      BY <1>4 DEF MemInv
    <3>4. live \subseteq NamesOf(filtered_ops_)
      BY <2>2 DEF Loops, LiveAt
    <3>5. QED
      BY <1>3, <2>2, <3>1, <3>2, <3>3, <3>4 DEF Loops
  <2>3. CASE live \subseteq NamesOf(filtered_ops_) /\ live_bytes \in Int
    BY <1>3, <2>3
  <2>4. QED
    BY <2>1, <2>2, <2>3 DEF MemInv
<1>6. \A k \in DOMAIN table : table[k].reuse \in 0 .. Word - 1
  <2>1. PICK j \in 0 .. Len(filtered_ops_) : table = Rows(filtered_ops_, j)
    BY TableFacts
  <2>2. j \in Nat /\ \A k \in 1 .. j : k \in DOMAIN filtered_ops_
    BY <1>4
  <2>3. DOMAIN table = 1 .. j /\ \A k \in 1 .. j : table[k] = RowAt(filtered_ops_, k)
    BY <2>1, <2>2, RowsFacts
  <2>4. \A k \in DOMAIN table : table[k].reuse = ReuseAt(filtered_ops_, k)
    BY <2>3 DEF RowAt
  <2>5. \A k \in DOMAIN table : ReuseAt(filtered_ops_, k) \in 0 .. Word - 1
    BY <1>1, <2>2, <2>3, ReuseType
  <2>6. QED
    BY <2>4, <2>5
<1>7. peak.live \in Nat /\ peak.at \in 1 .. Len(Ops) + 1
  <2>1. CASE peak = NoPeak
    <3>1. peak.live = 0 /\ peak.at = 1
      BY <2>1 DEF NoPeak
    <3>2. QED
      BY <1>1, <1>4, <3>1
  <2>2. CASE PeakBy(filtered_ops_, pos, peak) \/ PeakBy(filtered_ops_, Len(filtered_ops_) + 1, peak)
    BY <1>1, <2>2 DEF PeakBy
  <2>3. QED
    BY <2>1, <2>2 DEF MemInv, Waits
<1>8. QED
  BY <1>1, <1>2, <1>5, <1>6, <1>7 DEF MemoryTypeOK, MemInv

\* The account is balanced at the end of either loop.
LEMMA BooksDo == MemInv => BooksBalance
<1> SUFFICES ASSUME MemInv, doing \in {"table", "summary"}, pos > Len(Ops)
             PROVE  live_bytes = 0
  BY DEF BooksBalance
<1>1. WellFormed(filtered_ops_) /\ Loops /\ pos \in 1 .. Len(filtered_ops_) + 1
  BY DEF MemInv
<1>2. Len(filtered_ops_) \in Nat
  BY <1>1, GraphFacts
<1>3. pos = Len(filtered_ops_) + 1
  BY <1>1, <1>2 DEF Ops
<1>4. QED
  BY <1>1, <1>3, LoopEnds DEF Loops

\* The distances of the table, added up.
LEMMA TableReuses ==
  ASSUME MemInv, table = Rows(filtered_ops_, Len(filtered_ops_))
  PROVE  MapThenSumSet(LAMBDA p : table[p].reuse, DOMAIN table)
           = SumOver(Reuses(filtered_ops_), ResultAt(filtered_ops_))
<1> DEFINE S == DOMAIN table
           f == Reuses(filtered_ops_)
           G == CHOOSE g : g = [T \in SUBSET S |->
                   IF T = {} THEN 0 ELSE table[Picked(T)].reuse + g[T \ {Picked(T)}]]
<1>a. /\ WellFormed(filtered_ops_) /\ Len(filtered_ops_) \in Nat
      /\ DOMAIN filtered_ops_ = 1 .. Len(filtered_ops_)
  BY GraphFacts DEF MemInv
<1>b. S = DOMAIN filtered_ops_ /\ \A p \in S : table[p] = RowAt(filtered_ops_, p)
  BY <1>a, RowsFacts
<1>0. IsFiniteSet(S) /\ \A p \in S : f[p] = table[p].reuse
  <2>1. IsFiniteSet(S)
    BY <1>a, <1>b, FS_Interval
  <2>2. \A p \in S : f[p] = table[p].reuse
    BY <1>b DEF Reuses, RowAt
  <2>3. QED
    BY <2>1, <2>2
<1>c. \A p \in S : f[p] \in Nat /\ (p \notin ResultAt(filtered_ops_) => f[p] = 0)
  <2>1. \A p \in S : f[p] = ReuseAt(filtered_ops_, p)
    BY <1>b DEF Reuses
  <2>2. \A p \in S : ReuseAt(filtered_ops_, p) \in Nat
    <3>1. \A i \in 0 .. Word - 1 : i \in Nat
      BY MemoryProxyAssumption
    <3>2. QED
      BY <1>a, <1>b, <3>1, ReuseType
  <2>3. \A p \in S : p \notin ResultAt(filtered_ops_) => ReuseAt(filtered_ops_, p) = 0
    BY <1>b DEF ResultAt, ReuseAt
  <2>4. QED
    BY <2>1, <2>2, <2>3
<1>d. ResultAt(filtered_ops_) \subseteq S
  BY <1>b DEF ResultAt
<1> HIDE DEF f, S
<1>1. ASSUME NEW g
      PROVE  (g = [T \in SUBSET S |->
                   IF T = {} THEN 0 ELSE table[Picked(T)].reuse + g[T \ {Picked(T)}]])
               <=> SumsTo(g, f, S)
  <2>1. \A T \in SUBSET S : T # {} => f[Picked(T)] = table[Picked(T)].reuse
    BY <1>0, PickedIn
  <2>2. [T \in SUBSET S |->
           IF T = {} THEN 0 ELSE table[Picked(T)].reuse + g[T \ {Picked(T)}]]
        = [T \in SUBSET S |-> IF T = {} THEN 0 ELSE f[Picked(T)] + g[T \ {Picked(T)}]]
    BY <2>1
  <2>3. QED
    BY <2>2 DEF SumsTo
<1>2. SumsTo(G, f, S)
  <2>1. \E g : SumsTo(g, f, S)
    BY <1>0, SumsExist
  <2>2. QED
    BY <1>1, <2>1
<1>3. MapThenSumSet(LAMBDA p : table[p].reuse, DOMAIN table) = G[S]
  BY DEF MapThenSumSet, MapThenFoldSet, Picked, S
<1>4. G[S] = SumOver(f, S)
  <2> HIDE DEF G
  <2>1. S \in SUBSET S
    OBVIOUS
  <2>2. QED
    BY <1>0, <1>2, <2>1, SumsHold, SumsAgree DEF SumOver
<1>5. SumOver(f, S) = SumOver(f, ResultAt(filtered_ops_))
  <2>1. PICK R : R = ResultAt(filtered_ops_)
    OBVIOUS
  <2>2. PICK Z : Z = S \ R
    OBVIOUS
  <2>3. R \in SUBSET S /\ Z \in SUBSET S /\ R \cap Z = {} /\ R \cup Z = S
    BY <1>d, <2>1, <2>2
  <2>4. IsFiniteSet(R) /\ IsFiniteSet(Z)
    BY <1>0, <2>3, FS_Subset
  <2>5. (\A p \in R \cup Z : f[p] \in Int) /\ \A p \in R : f[p] \in Int
    BY <1>c, <2>3
  <2>6. SumOver(f, Z) = 0
    BY <1>c, <2>1, <2>2, <2>4, SumOfZeros
  <2>7. SumOver(f, R \cup Z) = SumOver(f, R) + SumOver(f, Z)
    BY <2>3, <2>4, <2>5, SumUnion
  <2>8. SumOver(f, R) \in Int
    BY <2>4, <2>5, SumIsInt
  <2>9. SumOver(f, S) = SumOver(f, R) + 0
    BY <2>3, <2>6, <2>7
  <2>10. QED
    BY <2>1, <2>8, <2>9
<1>6. QED
  BY <1>3, <1>4, <1>5 DEF f

\* The summary and the table agree.
LEMMA SummaryAgrees == MemInv => SummaryAgreesWithTable
<1> SUFFICES ASSUME MemInv, NEW k \in DOMAIN summary
             PROVE  /\ summary[k].operators = Len(table)
                    /\ summary[k].peak_live = Max({0} \cup {table[p].live : p \in DOMAIN table})
                    /\ summary[k].retained_count = Cardinality({p \in DOMAIN table : table[p].retained})
                    /\ summary[k].reuse_sum = MapThenSumSet(LAMBDA p : table[p].reuse, DOMAIN table)
  BY DEF SummaryAgreesWithTable
<1>1. summary # << >>
  BY EmptySeq
<1>2. /\ summary = <<SummaryOf(filtered_ops_, peak)>>
      /\ table = Rows(filtered_ops_, Len(filtered_ops_))
      /\ PeakBy(filtered_ops_, Len(filtered_ops_) + 1, peak)
  BY <1>1, SummaryFacts
<1>3. /\ WellFormed(filtered_ops_) /\ Len(filtered_ops_) \in Nat
      /\ DOMAIN filtered_ops_ = 1 .. Len(filtered_ops_)
  BY GraphFacts DEF MemInv
<1>4. summary[k] = SummaryOf(filtered_ops_, peak)
  BY <1>2
<1>5. /\ Len(table) = Len(filtered_ops_) /\ DOMAIN table = DOMAIN filtered_ops_
      /\ \A p \in DOMAIN table : table[p] = RowAt(filtered_ops_, p)
  BY <1>2, <1>3, RowsFacts
<1>6. summary[k].operators = Len(table)
  BY <1>4, <1>5 DEF SummaryOf
<1>7. peak.live = Max({0} \cup {table[p].live : p \in DOMAIN table})
  <2>1. PICK S : S = {0} \cup {table[p].live : p \in DOMAIN table}
    OBVIOUS
  <2>2. (Len(filtered_ops_) + 1) - 1 = Len(filtered_ops_)
    BY <1>3
  <2>3. /\ peak.live \in Nat
        /\ \A q \in DOMAIN table : HeldAt(filtered_ops_, q) <= peak.live
        /\ peak.live = 0 \/ \E q \in DOMAIN table : peak.live = HeldAt(filtered_ops_, q)
    BY <1>2, <1>3, <1>5, <2>2 DEF PeakBy
  <2>4. \A q \in DOMAIN table : table[q].live = HeldAt(filtered_ops_, q)
    BY <1>5 DEF RowAt
  <2>5. \A q \in DOMAIN table : HeldAt(filtered_ops_, q) \in Int
    BY <1>3, <1>5, LoopTurns
  <2>6. peak.live \in S
    BY <2>1, <2>3, <2>4
  <2>7. \A x \in S : x \in Int /\ x <= peak.live
    BY <2>1, <2>3, <2>4, <2>5
  <2>8. PICK m \in S : m = peak.live
    BY <2>6
  <2>9. Max(S) = m
    BY <2>7, <2>8, GreatestUnique
  <2>10. QED
    BY <2>1, <2>8, <2>9
<1>8. KeptAt(filtered_ops_) = {p \in DOMAIN table : table[p].retained}
  BY <1>5 DEF KeptAt, RowAt
<1>9. SumOver(Reuses(filtered_ops_), ResultAt(filtered_ops_))
        = MapThenSumSet(LAMBDA p : table[p].reuse, DOMAIN table)
  BY <1>2, TableReuses
<1>10. summary[k].peak_live = Max({0} \cup {table[p].live : p \in DOMAIN table})
  BY <1>4, <1>7 DEF SummaryOf
<1>11. summary[k].retained_count = Cardinality({p \in DOMAIN table : table[p].retained})
  BY <1>4, <1>8 DEF SummaryOf
<1>12. summary[k].reuse_sum = MapThenSumSet(LAMBDA p : table[p].reuse, DOMAIN table)
  <2>1. summary[k].reuse_sum = SumOver(Reuses(filtered_ops_), ResultAt(filtered_ops_))
    BY <1>4 DEF SummaryOf
  <2>2. QED
    BY <1>9, <2>1
<1>13. QED
  BY <1>6, <1>10, <1>11, <1>12

-----------------------------------------------------------------------------
(* Graphs in SSA form. *)

\* An operator with a result has one, and it is the only definition of its name.
LEMMA SsaResult ==
  ASSUME WellFormed(filtered_ops_), Ssa, NEW p \in ResultAt(filtered_ops_),
         NEW n, n = filtered_ops_[p].outs[1].name
  PROVE  /\ p \in DOMAIN filtered_ops_ /\ n \in NamesOf(filtered_ops_)
         /\ DOMAIN filtered_ops_[p].outs = {1}
         /\ Outputs(filtered_ops_[p]) = {n}
         /\ Definers(n) = {p}
         /\ LastDef(filtered_ops_, n) = p
         /\ \A q \in UseAt(filtered_ops_, n) : p < q
<1>1. p \in DOMAIN filtered_ops_ /\ HasResult(filtered_ops_[p])
  BY DEF ResultAt
<1>2. 1 \in DOMAIN filtered_ops_[p].outs /\ n \in NamesOf(filtered_ops_)
  BY <1>1, FirstName
<1>3. /\ Len(filtered_ops_[p].outs) \in Nat
      /\ DOMAIN filtered_ops_[p].outs = 1 .. Len(filtered_ops_[p].outs)
  BY <1>1, ListFacts DEF WellFormed
<1>4. DOMAIN filtered_ops_[p].outs = {1}
  <2>1. Len(filtered_ops_[p].outs) = 1
    BY <1>1 DEF Ssa, Ops, HasResult
  <2>2. 1 .. 1 = {1}
    OBVIOUS
  <2>3. QED
    BY <1>3, <2>1, <2>2
<1>5. Outputs(filtered_ops_[p]) = {n}
  BY <1>1, <1>4 DEF Outputs, HasResult
<1>8. PICK d \in DOMAIN filtered_ops_ : Definers(n) = {d} /\ \A q \in Readers(n) : d < q
  <2>1. n \in Defined
    BY <1>2 DEF Defined, NamesOf, Ops
  <2>2. QED
    BY <2>1 DEF Ssa, Ops
<1>9. p \in Definers(n)
  BY <1>1, <1>5 DEF Definers, Ops
<1>10. d = p
  BY <1>8, <1>9
<1>11. LastDef(filtered_ops_, n) = p
  <2>1. DefAt(filtered_ops_, n) = {p}
    BY <1>8, <1>10 DEF DefAt, Definers, Ops
  <2>2. LastDef(filtered_ops_, n) \in DefAt(filtered_ops_, n)
    BY <1>2, NameFacts
  <2>3. QED
    BY <2>1, <2>2
<1>12. \A q \in UseAt(filtered_ops_, n) : p < q
  BY <1>8, <1>10 DEF UseAt, Readers, Ops
<1>13. QED
  BY <1>1, <1>2, <1>4, <1>5, <1>8, <1>10, <1>11, <1>12

\* And every name is the result of one.
LEMMA SsaName ==
  ASSUME WellFormed(filtered_ops_), Ssa, NEW n \in NamesOf(filtered_ops_)
  PROVE  /\ LastDef(filtered_ops_, n) \in ResultAt(filtered_ops_)
         /\ filtered_ops_[LastDef(filtered_ops_, n)].outs[1].name = n
<1>1. PICK p : p = LastDef(filtered_ops_, n)
  OBVIOUS
<1>2. p \in DOMAIN filtered_ops_ /\ n \in Outputs(filtered_ops_[p])
  BY <1>1, NameFacts DEF DefAt
<1>3. HasResult(filtered_ops_[p])
  <2>1. PICK k \in DOMAIN filtered_ops_[p].outs : TRUE
    BY <1>2 DEF Outputs
  <2>2. filtered_ops_[p].outs # << >>
    BY <2>1, EmptySeq
  <2>3. QED
    BY <1>2, <2>2 DEF Ssa, Ops
<1>4. p \in ResultAt(filtered_ops_)
  BY <1>2, <1>3 DEF ResultAt
<1>5. Outputs(filtered_ops_[p]) = {filtered_ops_[p].outs[1].name}
  BY <1>4, SsaResult
<1>6. QED
  BY <1>1, <1>2, <1>4, <1>5

Sizes == [v \in Values |-> Size(v)]

Figures == [v \in Values |-> Figure(v)]

\* A value of the graph and the name the tool knows it by.
LEMMA SsaValue ==
  ASSUME WellFormed(filtered_ops_), Ssa, NEW p \in ResultAt(filtered_ops_),
         NEW n, n = filtered_ops_[p].outs[1].name
  PROVE  /\ <<p, 1>> \in Values
         /\ Until(<<p, 1>>) = LastUse(filtered_ops_, n)
         /\ LastUse(filtered_ops_, n) \in DOMAIN filtered_ops_ /\ p <= LastUse(filtered_ops_, n)
         /\ Figures[<<p, 1>>] = Weights(filtered_ops_)[n]
<1>1. /\ p \in DOMAIN filtered_ops_ /\ n \in NamesOf(filtered_ops_)
      /\ DOMAIN filtered_ops_[p].outs = {1}
      /\ Definers(n) = {p}
      /\ LastDef(filtered_ops_, n) = p
      /\ \A q \in UseAt(filtered_ops_, n) : p < q
  BY SsaResult
<1>2. Len(filtered_ops_) \in Nat /\ DOMAIN filtered_ops_ = 1 .. Len(filtered_ops_)
  BY GraphFacts
<1>3. PICK v : v = <<p, 1>>
  OBVIOUS
<1>4. v[1] = p /\ v[2] = 1
  BY <1>3
<1>5. v \in Values
  BY <1>1, <1>3 DEF Values, Ops
<1>6. UsersOf(v) = UseAt(filtered_ops_, n)
  <2>1. \A q \in Readers(n) : p < q /\ ~ \E d \in Definers(n) : p < d /\ d < q
    BY <1>1, <1>2 DEF Readers, UseAt, Ops
  <2>2. UsersOf(v) = Readers(n)
    BY <1>4, <2>1 DEF UsersOf, Ops
  <2>3. QED
    BY <2>2 DEF UseAt, Readers, Ops
<1>7. /\ LastUse(filtered_ops_, n) \in {p} \cup UseAt(filtered_ops_, n)
      /\ \A q \in {p} \cup UseAt(filtered_ops_, n) : q \in Int /\ q <= LastUse(filtered_ops_, n)
      /\ LastUse(filtered_ops_, n) \in DOMAIN filtered_ops_
  <2>1. UseAt(filtered_ops_, n) \subseteq 1 .. Len(filtered_ops_)
    BY <1>2 DEF UseAt
  <2>2. /\ \A q \in UseAt(filtered_ops_, n) : q <= LastUse(filtered_ops_, n)
        /\ LastUse(filtered_ops_, n) \in DOMAIN filtered_ops_
    BY <1>1, NameFacts
  <2>3. CASE UseAt(filtered_ops_, n) = {}
    <3>1. LastUse(filtered_ops_, n) = p
      BY <1>1, <2>3 DEF LastUse
    <3>2. QED
      BY <1>1, <1>2, <2>2, <2>3, <3>1
  <2>4. CASE UseAt(filtered_ops_, n) # {}
    <3>1. UseAt(filtered_ops_, n) \in SUBSET (1 .. Len(filtered_ops_))
      BY <2>1
    <3>2. Max(UseAt(filtered_ops_, n)) \in UseAt(filtered_ops_, n)
      BY <1>2, <2>4, <3>1, GreatestIs
    <3>3. LastUse(filtered_ops_, n) \in UseAt(filtered_ops_, n)
      BY <2>4, <3>2 DEF LastUse
    <3>4. p < LastUse(filtered_ops_, n)
      BY <1>1, <3>3
    <3>5. p \in Int /\ LastUse(filtered_ops_, n) \in Int
      BY <1>1, <1>2, <2>2
    <3>6. p <= LastUse(filtered_ops_, n)
      BY <3>4, <3>5
    <3>7. \A q \in UseAt(filtered_ops_, n) : q \in Int
      BY <2>1
    <3>8. QED
      BY <2>2, <3>3, <3>5, <3>6, <3>7
  <2>5. QED
    BY <2>3, <2>4
<1>8. Until(v) = LastUse(filtered_ops_, n)
  <2>1. PICK S : S = {p} \cup UseAt(filtered_ops_, n)
    OBVIOUS
  <2>2. PICK m \in S : m = LastUse(filtered_ops_, n)
    BY <1>7, <2>1
  <2>3. Max(S) = m
    BY <1>7, <2>1, <2>2, GreatestUnique
  <2>4. QED
    BY <1>4, <1>6, <2>1, <2>2, <2>3 DEF Until
<1>9. Figure(v) = Weights(filtered_ops_)[n]
  BY <1>1, <1>4 DEF Figure, Weights, Ops
<1>10. Figures[v] = Weights(filtered_ops_)[n]
  BY <1>5, <1>9 DEF Figures
<1>11. p <= LastUse(filtered_ops_, n)
  BY <1>7
<1>12. QED
  BY <1>3, <1>5, <1>7, <1>8, <1>10, <1>11

\* There are no other values.
LEMMA SsaValues ==
  ASSUME WellFormed(filtered_ops_), Ssa, NEW v \in Values
  PROVE  v[1] \in ResultAt(filtered_ops_) /\ v = <<v[1], 1>>
<1>1. PICK p \in DOMAIN filtered_ops_ : v \in {p} \X (DOMAIN filtered_ops_[p].outs)
  BY DEF Values, Ops
<1>2. v[1] = p /\ v[2] \in DOMAIN filtered_ops_[p].outs /\ v = <<v[1], v[2]>>
  BY <1>1
<1>3. filtered_ops_[p].outs # << >>
  BY <1>2, EmptySeq
<1>4. p \in ResultAt(filtered_ops_)
  BY <1>3 DEF ResultAt, Ssa, Ops
<1>5. DOMAIN filtered_ops_[p].outs = {1}
  BY <1>4, SsaResult
<1>6. QED
  BY <1>2, <1>4, <1>5

\* A volume of values.
LEMMA SizesAdd ==
  ASSUME NEW S \in SUBSET Values, IsFiniteSet(S)
  PROVE  MapThenSumSet(Size, S) = SumOver(Sizes, S)
<1> DEFINE f == Sizes
           G == CHOOSE g : g = [T \in SUBSET S |->
                   IF T = {} THEN 0 ELSE Size(Picked(T)) + g[T \ {Picked(T)}]]
<1>0. \A v \in S : f[v] = Size(v)
  BY DEF Sizes
<1> HIDE DEF f
<1>1. ASSUME NEW g
      PROVE  (g = [T \in SUBSET S |->
                   IF T = {} THEN 0 ELSE Size(Picked(T)) + g[T \ {Picked(T)}]])
               <=> SumsTo(g, f, S)
  <2>1. \A T \in SUBSET S : T # {} => f[Picked(T)] = Size(Picked(T))
    BY <1>0, PickedIn
  <2>2. [T \in SUBSET S |-> IF T = {} THEN 0 ELSE Size(Picked(T)) + g[T \ {Picked(T)}]]
        = [T \in SUBSET S |-> IF T = {} THEN 0 ELSE f[Picked(T)] + g[T \ {Picked(T)}]]
    BY <2>1
  <2>3. QED
    BY <2>2 DEF SumsTo
<1>2. SumsTo(G, f, S)
  <2>1. \E g : SumsTo(g, f, S)
    BY SumsExist
  <2>2. QED
    BY <1>1, <2>1
<1>3. MapThenSumSet(Size, S) = G[S]
  BY DEF MapThenSumSet, MapThenFoldSet, Picked
<1>4. G[S] = SumOver(f, S)
  <2> HIDE DEF G
  <2>1. S \in SUBSET S
    OBVIOUS
  <2>2. QED
    BY <1>2, <2>1, SumsHold, SumsAgree DEF SumOver
<1>5. QED
  BY <1>3, <1>4 DEF f

\* A volume of values and the tool's figures for them.
LEMMA FiguresCompare ==
  ASSUME WellFormed(filtered_ops_), NEW S \in SUBSET Values, IsFiniteSet(S)
  PROVE  /\ MapThenSumSet(Size, S) \in Nat /\ SumOver(Figures, S) \in Nat
         /\ (\A v \in Values : Figure(v) = Size(v)) => SumOver(Figures, S) = MapThenSumSet(Size, S)
         /\ (\A v \in Values : Figure(v) >= Size(v)) => SumOver(Figures, S) >= MapThenSumSet(Size, S)
<1>1. PICK e : e = Sizes
  OBVIOUS
<1>2. PICK f : f = Figures
  OBVIOUS
<1>3. \A v \in S : e[v] = Size(v) /\ f[v] = Figure(v)
  BY <1>1, <1>2 DEF Sizes, Figures
<1>4. \A v \in S : e[v] \in Nat /\ f[v] \in Nat
  <2>1. SUFFICES ASSUME NEW v \in S
                 PROVE  Size(v) \in Nat /\ Figure(v) \in Nat
    BY <1>3
  <2>2. PICK p \in DOMAIN filtered_ops_ : v \in {p} \X (DOMAIN filtered_ops_[p].outs)
    BY DEF Values, Ops
  <2>3. v[1] = p /\ v[2] \in DOMAIN filtered_ops_[p].outs
    BY <2>2
  <2>4. Size(v) \in Nat
    BY <2>3 DEF Size, Ops, WellFormed
  <2>5. Figure(v) \in Nat
    BY <2>3, GraphFacts DEF Figure, Ops
  <2>6. QED
    BY <2>4, <2>5
<1>5. MapThenSumSet(Size, S) = SumOver(e, S)
  BY <1>1, SizesAdd
<1>6. SumOver(e, S) \in Nat /\ SumOver(f, S) \in Nat
  BY <1>4, SumIsNat
<1>7. ASSUME \A v \in Values : Figure(v) >= Size(v)
      PROVE  SumOver(f, S) >= SumOver(e, S)
  <2>1. \A v \in S : e[v] \in Int /\ f[v] \in Int /\ e[v] <= f[v]
    BY <1>3, <1>4, <1>7
  <2>2. SumOver(e, S) <= SumOver(f, S)
    BY <2>1, SumMonotone
  <2>3. QED
    BY <1>6, <2>2
<1>8. ASSUME \A v \in Values : Figure(v) = Size(v)
      PROVE  SumOver(f, S) = SumOver(e, S)
  <2>1. e = f
    BY <1>1, <1>2, <1>8 DEF Sizes, Figures
  <2>2. QED
    BY <2>1
<1>9. QED
  BY <1>2, <1>5, <1>6, <1>7, <1>8

Here(p) == {v \in Values : v[1] <= p /\ p <= Until(v)}

\* The volume held while an operator executes is that of the values resident,
\* each by its figure.
LEMMA HeldIsFigures ==
  ASSUME WellFormed(filtered_ops_), Ssa, NEW p \in DOMAIN filtered_ops_
  PROVE  /\ HeldAt(filtered_ops_, p) = SumOver(Figures, Here(p))
         /\ IsFiniteSet(Here(p)) /\ Here(p) \in SUBSET Values
<1> DEFINE Names == {n \in NamesOf(filtered_ops_) :
                       LastDef(filtered_ops_, n) <= p /\ p <= LastUse(filtered_ops_, n)}
           here == {v \in Values : v[1] <= p /\ p <= Until(v)}
           h == [n \in NamesOf(filtered_ops_) |-> <<LastDef(filtered_ops_, n), 1>>]
<1>1. Len(filtered_ops_) \in Nat /\ DOMAIN filtered_ops_ = 1 .. Len(filtered_ops_)
  BY GraphFacts
<1>2. ASSUME NEW n \in NamesOf(filtered_ops_)
      PROVE  /\ LastDef(filtered_ops_, n) \in ResultAt(filtered_ops_)
             /\ filtered_ops_[LastDef(filtered_ops_, n)].outs[1].name = n
             /\ h[n] \in Values /\ h[n][1] = LastDef(filtered_ops_, n)
             /\ Until(h[n]) = LastUse(filtered_ops_, n)
             /\ Figures[h[n]] = Weights(filtered_ops_)[n]
             /\ LastDef(filtered_ops_, n) <= LastUse(filtered_ops_, n)
             /\ LastDef(filtered_ops_, n) \in DOMAIN filtered_ops_
             /\ LastUse(filtered_ops_, n) \in DOMAIN filtered_ops_
  <2>1. PICK d : d = LastDef(filtered_ops_, n)
    OBVIOUS
  <2>2. d \in ResultAt(filtered_ops_) /\ n = filtered_ops_[d].outs[1].name
    BY <2>1, SsaName
  <2>3. /\ <<d, 1>> \in Values
        /\ Until(<<d, 1>>) = LastUse(filtered_ops_, n)
        /\ LastUse(filtered_ops_, n) \in DOMAIN filtered_ops_ /\ d <= LastUse(filtered_ops_, n)
        /\ Figures[<<d, 1>>] = Weights(filtered_ops_)[n]
    BY <2>2, SsaValue
  <2>4. h[n] = <<d, 1>>
    BY <2>1
  <2>5. d \in DOMAIN filtered_ops_
    BY <2>2 DEF ResultAt
  <2>6. QED
    BY <2>1, <2>2, <2>3, <2>4, <2>5
<1>3. here = {h[n] : n \in Names}
  <2>1. ASSUME NEW v \in here
        PROVE  v \in {h[n] : n \in Names}
    <3>1. v \in Values /\ v[1] <= p /\ p <= Until(v)
      OBVIOUS
    <3>2. v[1] \in ResultAt(filtered_ops_) /\ v = <<v[1], 1>>
      BY <3>1, SsaValues
    <3>3. PICK n : n = filtered_ops_[v[1]].outs[1].name
      OBVIOUS
    <3>4. n \in NamesOf(filtered_ops_) /\ LastDef(filtered_ops_, n) = v[1]
      BY <3>2, <3>3, SsaResult
    <3>5. Until(v) = LastUse(filtered_ops_, n)
      BY <3>2, <3>3, SsaValue
    <3>6. n \in Names /\ h[n] = v
      BY <3>1, <3>2, <3>4, <3>5
    <3>7. QED
      BY <3>6
  <2>2. ASSUME NEW n \in Names
        PROVE  h[n] \in here
    <3> HIDE DEF h
    <3>1. QED
      BY <1>2
  <2> HIDE DEF h, Names, here
  <2>3. QED
    BY <2>1, <2>2
<1>4. \A n, m \in Names : h[n] = h[m] => n = m
  <2> HIDE DEF h
  <2>1. QED
    BY <1>2
<1>5. \A n \in Names : Figures[h[n]] = Weights(filtered_ops_)[n]
  <2> HIDE DEF h
  <2>1. QED
    BY <1>2
<1>6. Names \in SUBSET NamesOf(filtered_ops_)
  OBVIOUS
<1>7. LiveAt(filtered_ops_, p + 1) = {n \in NamesOf(filtered_ops_) : LastDef(filtered_ops_, n) <= p}
  <2>1. ASSUME NEW n \in NamesOf(filtered_ops_)
        PROVE  (\E q \in DOMAIN filtered_ops_ : q < p + 1 /\ n \in Outputs(filtered_ops_[q]))
                 <=> LastDef(filtered_ops_, n) <= p
    <3>1. PICK d : d = LastDef(filtered_ops_, n)
      OBVIOUS
    <3>2. d \in ResultAt(filtered_ops_) /\ n = filtered_ops_[d].outs[1].name
      BY <1>2, <3>1
    <3>3. Definers(n) = {d} /\ d \in DOMAIN filtered_ops_
      BY <3>2, SsaResult
    <3>4. \A q \in DOMAIN filtered_ops_ : n \in Outputs(filtered_ops_[q]) <=> q = d
      BY <3>3 DEF Definers, Ops
    <3>5. d < p + 1 <=> d <= p
      BY <1>1, <3>3
    <3>6. QED
      BY <3>1, <3>3, <3>4, <3>5
  <2>2. QED
    BY <2>1 DEF LiveAt
<1> HIDE DEF here, h
<1>8. /\ LiveAt(filtered_ops_, p + 1) = DeadAt(filtered_ops_, p) \cup Names
      /\ DeadAt(filtered_ops_, p) \cap Names = {}
  <2>1. ASSUME NEW n \in NamesOf(filtered_ops_)
        PROVE  /\ LastDef(filtered_ops_, n) <= p
                    <=> (\/ LastUse(filtered_ops_, n) < p
                         \/ LastDef(filtered_ops_, n) <= p /\ p <= LastUse(filtered_ops_, n))
               /\ ~(LastUse(filtered_ops_, n) < p /\ p <= LastUse(filtered_ops_, n))
    <3>1. PICK d : d = LastDef(filtered_ops_, n)
      OBVIOUS
    <3>5. PICK u : u = LastUse(filtered_ops_, n)
      OBVIOUS
    <3>6. d \in DOMAIN filtered_ops_ /\ u \in DOMAIN filtered_ops_ /\ d <= u
      BY <1>2, <3>1, <3>5
    <3>2. d \in Int /\ u \in Int /\ d <= u /\ p \in Int
      BY <1>1, <3>6
    <3>3. (d <= p <=> (u < p \/ (d <= p /\ p <= u))) /\ ~(u < p /\ p <= u)
      BY <3>2
    <3>4. QED
      BY <3>1, <3>3, <3>5
  <2>2. QED
    BY <1>7, <2>1 DEF DeadAt
<1> HIDE DEF Names
<1>9. /\ LiveAt(filtered_ops_, p) \in SUBSET NamesOf(filtered_ops_)
      /\ LiveAt(filtered_ops_, p + 1) \in SUBSET NamesOf(filtered_ops_)
      /\ DeadAt(filtered_ops_, p) \in SUBSET NamesOf(filtered_ops_)
      /\ Outputs(filtered_ops_[p]) \ LiveAt(filtered_ops_, p) \in SUBSET NamesOf(filtered_ops_)
  BY GraphFacts DEF LiveAt, DeadAt
<1>10. HeldAt(filtered_ops_, p) = Vol(filtered_ops_, Names)
  <2>1. Vol(filtered_ops_, LiveAt(filtered_ops_, p + 1))
          = Vol(filtered_ops_, DeadAt(filtered_ops_, p)) + Vol(filtered_ops_, Names)
    BY <1>6, <1>8, <1>9, VolUnion
  <2>2. PICK new : new = Outputs(filtered_ops_[p]) \ LiveAt(filtered_ops_, p)
    OBVIOUS
  <2>3. LiveAt(filtered_ops_, p + 1) = LiveAt(filtered_ops_, p) \cup new
    <3>1. LiveAt(filtered_ops_, p + 1) = LiveAt(filtered_ops_, p) \cup Outputs(filtered_ops_[p])
      BY LoopTurns
    <3>2. QED
      BY <2>2, <3>1
  <2>4. new \in SUBSET NamesOf(filtered_ops_) /\ LiveAt(filtered_ops_, p) \cap new = {}
    BY <1>9, <2>2
  <2>5. Vol(filtered_ops_, LiveAt(filtered_ops_, p + 1))
          = Vol(filtered_ops_, LiveAt(filtered_ops_, p)) + Vol(filtered_ops_, new)
    BY <1>9, <2>3, <2>4, VolUnion
  <2>6. /\ Vol(filtered_ops_, LiveAt(filtered_ops_, p)) \in Nat /\ Vol(filtered_ops_, new) \in Nat
        /\ Vol(filtered_ops_, DeadAt(filtered_ops_, p)) \in Nat /\ Vol(filtered_ops_, Names) \in Nat
    BY <1>6, <1>9, <2>4, VolFacts
  <2>7. HeldAt(filtered_ops_, p)
          = (Vol(filtered_ops_, LiveAt(filtered_ops_, p)) - Vol(filtered_ops_, DeadAt(filtered_ops_, p)))
            + Vol(filtered_ops_, new)
    BY <2>2 DEF HeldAt, Balance
  <2>8. QED
    BY <2>1, <2>5, <2>6, <2>7
<1>11. IsFiniteSet(Names) /\ Vol(filtered_ops_, Names) \in Nat
  BY <1>6, VolFacts
<1>12. IsFiniteSet(here) /\ here \in SUBSET Values
  <2>1. [n \in Names |-> h[n]] \in Surjection(Names, here)
    BY <1>3 DEF Surjection
  <2>2. IsFiniteSet(here)
    BY <1>11, <2>1, FS_Surjection
  <2>3. QED
    BY <2>2 DEF here
<1>13. Vol(filtered_ops_, Names) = SumOver(Figures, here)
  <2>1. PICK f : f = Weights(filtered_ops_)
    OBVIOUS
  <2>2. \A n \in Names : f[n] \in Int
    BY <1>6, <2>1, NameFacts
  <2>3. \A n \in Names : Figures[h[n]] = f[n]
    BY <1>5, <2>1
  <2>4. SumOver(f, Names) = SumOver(Figures, here)
    <3>1. PICK e : e = Figures
      OBVIOUS
    <3>2. \A n \in Names : e[h[n]] = f[n]
      BY <2>3, <3>1
    <3>3. SumOver(f, Names) = SumOver(e, here)
      BY <1>3, <1>4, <1>11, <2>2, <3>2, SumMapped
    <3>4. QED
      BY <3>1, <3>3
  <2>5. QED
    BY <2>1, <2>4 DEF Vol
<1>14. here = Here(p)
  BY DEF here, Here
<1>15. QED
  BY <1>10, <1>12, <1>13, <1>14

\* And so the volume of those values, or no less than that.
LEMMA HeldIsResident ==
  ASSUME WellFormed(filtered_ops_), Ssa, NEW p \in DOMAIN filtered_ops_
  PROVE  /\ HeldAt(filtered_ops_, p) \in Nat /\ Resident(p) \in Nat
         /\ (\A v \in Values : Figure(v) = Size(v)) => HeldAt(filtered_ops_, p) = Resident(p)
         /\ (\A v \in Values : Figure(v) >= Size(v)) => HeldAt(filtered_ops_, p) >= Resident(p)
<1>1. PICK S : S = Here(p)
  OBVIOUS
<1>2. S \in SUBSET Values /\ IsFiniteSet(S) /\ HeldAt(filtered_ops_, p) = SumOver(Figures, S)
  BY <1>1, HeldIsFigures
<1>3. Resident(p) = MapThenSumSet(Size, S)
  BY <1>1 DEF Resident, Here
<1>4. QED
  BY <1>2, <1>3, FiguresCompare

\* The bytes retained are those of the values kept for the backward phase, each
\* by its figure.
LEMMA StashIs ==
  ASSUME WellFormed(filtered_ops_), Ssa
  PROVE  /\ (\A v \in Values : Figure(v) = Size(v)) =>
              SumOver(KeptBytes(filtered_ops_), KeptAt(filtered_ops_)) = MapThenSumSet(Size, Stashed)
         /\ (\A v \in Values : Figure(v) >= Size(v)) =>
              SumOver(KeptBytes(filtered_ops_), KeptAt(filtered_ops_)) >= MapThenSumSet(Size, Stashed)
         /\ Cardinality(KeptAt(filtered_ops_)) = Cardinality(Stashed)
<1> DEFINE K == KeptAt(filtered_ops_)
           h == [p \in DOMAIN filtered_ops_ |-> <<p, 1>>]
           f == KeptBytes(filtered_ops_)
<1>1. ASSUME NEW p \in ResultAt(filtered_ops_)
      PROVE  /\ p \in DOMAIN filtered_ops_ /\ h[p] = <<p, 1>> /\ h[p] \in Values /\ h[p][1] = p
             /\ p \in K <=> h[p] \in Stashed
             /\ p \in K => f[p] = Figures[h[p]] /\ f[p] \in Int
  <2>1. PICK n : n = filtered_ops_[p].outs[1].name
    OBVIOUS
  <2>2. /\ p \in DOMAIN filtered_ops_ /\ n \in NamesOf(filtered_ops_)
        /\ LastDef(filtered_ops_, n) = p
    BY <2>1, SsaResult
  <2>3. h[p] = <<p, 1>> /\ h[p][1] = p
    BY <2>2
  <2> HIDE DEF h
  <2>4. /\ h[p] \in Values /\ Until(h[p]) = LastUse(filtered_ops_, n)
        /\ Figures[h[p]] = Weights(filtered_ops_)[n]
    BY <2>1, <2>3, SsaValue
  <2>5. p \in K <=> h[p] \in Stashed
    <3>1. p \in K <=> RetainedAt(filtered_ops_, p)
      BY <2>2 DEF KeptAt
    <3>2. RetainedAt(filtered_ops_, p)
            <=> (/\ filtered_ops_[p].stage_tag = "forward"
                 /\ filtered_ops_[LastUse(filtered_ops_, n)].stage_tag = "backward")
      BY <2>1, <2>2 DEF RetainedAt, ResultAt
    <3>3. h[p] \in Stashed
            <=> (/\ filtered_ops_[p].stage_tag = "forward"
                 /\ filtered_ops_[LastUse(filtered_ops_, n)].stage_tag = "backward")
      BY <2>3, <2>4 DEF Stashed, Ops
    <3>4. QED
      BY <3>1, <3>2, <3>3
  <2>6. p \in K => f[p] = Weights(filtered_ops_)[n]
    BY <2>1 DEF KeptBytes
  <2>7. Weights(filtered_ops_)[n] \in Int
    BY <2>2, NameFacts
  <2>8. QED
    BY <2>2, <2>3, <2>4, <2>5, <2>6, <2>7
<1>2. K \subseteq ResultAt(filtered_ops_)
  BY DEF KeptAt, ResultAt, RetainedAt
<1>3. Stashed = {h[p] : p \in K}
  <2>1. ASSUME NEW v \in Stashed
        PROVE  v \in {h[p] : p \in K}
    <3>1. v \in Values
      BY DEF Stashed
    <3>2. v[1] \in ResultAt(filtered_ops_) /\ v = <<v[1], 1>>
      BY <3>1, SsaValues
    <3>3. PICK p : p = v[1]
      OBVIOUS
    <3>4. h[p] = v /\ p \in ResultAt(filtered_ops_)
      BY <1>1, <3>2, <3>3
    <3> HIDE DEF h, K
    <3>5. p \in K
      BY <1>1, <3>4
    <3>6. QED
      BY <3>4, <3>5
  <2>2. ASSUME NEW p \in K
        PROVE  h[p] \in Stashed
    <3> HIDE DEF h, K
    <3>1. QED
      BY <1>1, <1>2
  <2> HIDE DEF h, K
  <2>3. QED
    BY <2>1, <2>2
<1>4. IsFiniteSet(K)
  <2>1. PICK D : D = DOMAIN filtered_ops_
    OBVIOUS
  <2>2. IsFiniteSet(D) /\ K \in SUBSET D
    BY <2>1, GraphFacts, FS_Interval DEF KeptAt
  <2> HIDE DEF K
  <2>3. QED
    BY <2>2, FS_Subset
<1> HIDE DEF K, h, f
<1>5. \A p, q \in K : h[p] = h[q] => p = q
  BY <1>1, <1>2
<1>6. \A p \in K : f[p] = Figures[h[p]] /\ f[p] \in Int
  BY <1>1, <1>2
<1>7. SumOver(f, K) = SumOver(Figures, Stashed)
  <2>1. PICK e : e = Figures
    OBVIOUS
  <2>2. \A p \in K : e[h[p]] = f[p]
    BY <1>6, <2>1
  <2>3. SumOver(f, K) = SumOver(e, Stashed)
    BY <1>3, <1>4, <1>5, <1>6, <2>2, SumMapped
  <2>4. QED
    BY <2>1, <2>3
<1>8. IsFiniteSet(Stashed) /\ Cardinality(K) = Cardinality(Stashed)
  <2>1. [p \in K |-> h[p]] \in Bijection(K, Stashed)
    BY <1>3, <1>5 DEF Bijection, Injection, Surjection, IsInjective
  <2>2. QED
    BY <1>4, <2>1, FS_Bijection DEF ExistsBijection
<1>9. Stashed \in SUBSET Values
  BY DEF Stashed
<1>10. PICK T : T = Stashed
  OBVIOUS
<1>11. /\ (\A v \in Values : Figure(v) = Size(v)) => SumOver(Figures, T) = MapThenSumSet(Size, T)
       /\ (\A v \in Values : Figure(v) >= Size(v)) => SumOver(Figures, T) >= MapThenSumSet(Size, T)
  BY <1>8, <1>9, <1>10, FiguresCompare
<1>12. QED
  BY <1>7, <1>8, <1>10, <1>11 DEF K, f

\* A number below the word stays as it is.
LEMMA NoWrap ==
  ASSUME NEW w \in Nat \ {0}, NEW d \in 0 .. w - 1
  PROVE  d % w = d
<1>1. d = 0 * w + d /\ d \in Nat /\ d < w
  OBVIOUS
<1>2. QED
  BY <1>1

\* A row of the table, on a graph in SSA form.
LEMMA RowOfGraph ==
  ASSUME MemInv, Ssa, NEW p \in DOMAIN table
  PROVE  /\ p \in DOMAIN filtered_ops_
         /\ table[p].live = HeldAt(filtered_ops_, p)
         /\ \A v \in Values : v[1] = p => table[p].reuse = Until(v) - p
<1>1. /\ WellFormed(filtered_ops_) /\ Len(filtered_ops_) \in Nat
      /\ DOMAIN filtered_ops_ = 1 .. Len(filtered_ops_)
      /\ Len(filtered_ops_) <= Word /\ Word \in Nat \ {0}
  BY GraphFacts, MemoryProxyAssumption DEF MemInv, WellFormed
<1>2. PICK j \in 0 .. Len(filtered_ops_) : table = Rows(filtered_ops_, j)
  BY TableFacts
<1>3. j \in Nat /\ \A q \in 1 .. j : q \in DOMAIN filtered_ops_
  BY <1>1
<1>4. p \in 1 .. j /\ table[p] = RowAt(filtered_ops_, p)
  BY <1>2, <1>3, RowsFacts
<1>5. p \in DOMAIN filtered_ops_
  BY <1>3, <1>4
<1>6. table[p].live = HeldAt(filtered_ops_, p)
  BY <1>4 DEF RowAt
<1>7. ASSUME NEW v \in Values, v[1] = p
      PROVE  table[p].reuse = Until(v) - p
  <2>1. p \in ResultAt(filtered_ops_) /\ v = <<p, 1>>
    BY <1>1, <1>7, SsaValues
  <2>2. PICK n : n = filtered_ops_[p].outs[1].name
    OBVIOUS
  <2>3. /\ Until(v) = LastUse(filtered_ops_, n)
        /\ LastUse(filtered_ops_, n) \in DOMAIN filtered_ops_
        /\ p <= LastUse(filtered_ops_, n)
    BY <1>1, <2>1, <2>2, SsaValue
  <2>4. LastDef(filtered_ops_, n) = p
    BY <1>1, <2>1, <2>2, SsaResult
  <2>5. ReuseAt(filtered_ops_, p) = (LastUse(filtered_ops_, n) - p) % Word
    BY <2>1, <2>2, <2>4 DEF ReuseAt, ResultAt
  <2>6. PICK d : d = LastUse(filtered_ops_, n) - p
    OBVIOUS
  <2>7. d \in 0 .. Word - 1
    <3>1. PICK u : u = LastUse(filtered_ops_, n)
      OBVIOUS
    <3>2. u \in 1 .. Len(filtered_ops_) /\ p \in 1 .. Len(filtered_ops_) /\ p <= u /\ d = u - p
      BY <1>1, <1>5, <2>3, <2>6, <3>1
    <3>3. QED
      BY <1>1, <3>2
  <2>8. d % Word = d
    BY <1>1, <2>7, NoWrap
  <2>9. table[p].reuse = ReuseAt(filtered_ops_, p)
    BY <1>4 DEF RowAt
  <2>10. QED
    BY <2>3, <2>5, <2>6, <2>8, <2>9
<1>8. QED
  BY <1>5, <1>6, <1>7

\* The summary, on a graph in SSA form.
LEMMA SummaryOfGraph ==
  ASSUME MemInv, Ssa, NEW k \in DOMAIN summary
  PROVE  /\ filtered_ops_ # << >>
         /\ summary[k].peak_live \in Nat
         /\ \A p \in DOMAIN filtered_ops_ : HeldAt(filtered_ops_, p) <= summary[k].peak_live
         /\ \/ summary[k].peak_live = 0
            \/ \E p \in DOMAIN filtered_ops_ : summary[k].peak_live = HeldAt(filtered_ops_, p)
         /\ summary[k].retained = SumOver(KeptBytes(filtered_ops_), KeptAt(filtered_ops_))
         /\ summary[k].retained_count = Cardinality(Stashed)
<1>1. WellFormed(filtered_ops_) /\ Len(filtered_ops_) \in Nat
  BY GraphFacts DEF MemInv
<1>2. summary # << >>
  BY EmptySeq
<1>3. /\ summary = <<SummaryOf(filtered_ops_, peak)>>
      /\ filtered_ops_ # << >>
      /\ PeakBy(filtered_ops_, Len(filtered_ops_) + 1, peak)
  BY <1>2, SummaryFacts
<1>4. summary[k] = SummaryOf(filtered_ops_, peak)
  BY <1>3
<1>5. /\ summary[k].peak_live = peak.live
      /\ summary[k].retained = SumOver(KeptBytes(filtered_ops_), KeptAt(filtered_ops_))
      /\ summary[k].retained_count = Cardinality(KeptAt(filtered_ops_))
  BY <1>4 DEF SummaryOf
<1>6. (Len(filtered_ops_) + 1) - 1 = Len(filtered_ops_)
  BY <1>1
<1>7. /\ peak.live \in Nat
      /\ \A p \in DOMAIN filtered_ops_ : HeldAt(filtered_ops_, p) <= peak.live
      /\ peak.live = 0 \/ \E p \in DOMAIN filtered_ops_ : peak.live = HeldAt(filtered_ops_, p)
  BY <1>1, <1>3, <1>6, GraphFacts DEF PeakBy
<1>8. Cardinality(KeptAt(filtered_ops_)) = Cardinality(Stashed)
  BY <1>1, StashIs
<1>9. QED
  BY <1>3, <1>5, <1>7, <1>8

\* On a graph in SSA form the report is exact where it does not need the volumes,
\* and all of it is if the figures are the volumes.
LEMMA ReportIs == MemInv => ReportIsExact
<1> SUFFICES ASSUME MemInv, Ssa
             PROVE  /\ \A p \in DOMAIN table :
                         \A v \in Values : v[1] = p => table[p].reuse = Until(v) - p
                    /\ \A k \in DOMAIN summary :
                         summary[k].retained_count = Cardinality(Stashed)
                    /\ (\A v \in Values : Figure(v) = Size(v)) =>
                         /\ \A p \in DOMAIN table : table[p].live = Resident(p)
                         /\ \A k \in DOMAIN summary :
                              /\ summary[k].peak_live = Max({Resident(p) : p \in DOMAIN Ops})
                              /\ summary[k].retained = MapThenSumSet(Size, Stashed)
  BY DEF ReportIsExact
<1>1. /\ WellFormed(filtered_ops_) /\ Len(filtered_ops_) \in Nat
      /\ DOMAIN filtered_ops_ = 1 .. Len(filtered_ops_)
  BY GraphFacts DEF MemInv
<1>2. \A p \in DOMAIN table : \A v \in Values : v[1] = p => table[p].reuse = Until(v) - p
  BY RowOfGraph
<1>3. \A k \in DOMAIN summary : summary[k].retained_count = Cardinality(Stashed)
  BY SummaryOfGraph
<1>4. ASSUME \A v \in Values : Figure(v) = Size(v)
      PROVE  /\ \A p \in DOMAIN table : table[p].live = Resident(p)
             /\ \A k \in DOMAIN summary :
                  /\ summary[k].peak_live = Max({Resident(p) : p \in DOMAIN Ops})
                  /\ summary[k].retained = MapThenSumSet(Size, Stashed)
  <2>1. \A p \in DOMAIN filtered_ops_ : HeldAt(filtered_ops_, p) = Resident(p) /\ Resident(p) \in Nat
    BY <1>1, <1>4, HeldIsResident
  <2>2. \A p \in DOMAIN table : table[p].live = Resident(p)
    BY <2>1, RowOfGraph
  <2>3. ASSUME NEW k \in DOMAIN summary
        PROVE  summary[k].peak_live = Max({Resident(p) : p \in DOMAIN Ops})
    <3>1. PICK S : S = {Resident(p) : p \in DOMAIN Ops}
      OBVIOUS
    <3>2. PICK top : top = summary[k].peak_live
      OBVIOUS
    <3>3. /\ top \in Nat /\ filtered_ops_ # << >>
          /\ \A p \in DOMAIN filtered_ops_ : Resident(p) <= top
          /\ top = 0 \/ \E p \in DOMAIN filtered_ops_ : top = Resident(p)
      BY <2>1, <3>2, SummaryOfGraph
    <3>4. top \in S
      <4>1. CASE top = 0
        <5>1. 1 \in DOMAIN filtered_ops_
          BY <1>1, <3>3, ListFacts DEF WellFormed
        <5>2. Resident(1) \in Nat /\ Resident(1) <= 0
          BY <2>1, <3>3, <4>1, <5>1
        <5>3. Resident(1) = 0
          BY <5>2
        <5>4. QED
          BY <3>1, <4>1, <5>1, <5>3 DEF Ops
      <4>2. CASE \E p \in DOMAIN filtered_ops_ : top = Resident(p)
        BY <3>1, <4>2 DEF Ops
      <4>3. QED
        BY <3>3, <4>1, <4>2
    <3>5. \A x \in S : x \in Int /\ x <= top
      BY <2>1, <3>1, <3>3 DEF Ops
    <3>6. PICK m \in S : m = top
      BY <3>4
    <3>7. Max(S) = m
      BY <3>5, <3>6, GreatestUnique
    <3>8. QED
      BY <3>1, <3>2, <3>6, <3>7
  <2>4. ASSUME NEW k \in DOMAIN summary
        PROVE  summary[k].retained = MapThenSumSet(Size, Stashed)
    <3>1. SumOver(KeptBytes(filtered_ops_), KeptAt(filtered_ops_)) = MapThenSumSet(Size, Stashed)
      BY <1>1, <1>4, StashIs
    <3>2. QED
      BY <3>1, SummaryOfGraph
  <2>5. QED
    BY <2>2, <2>3, <2>4
<1>5. QED
  BY <1>2, <1>3, <1>4

\* With figures that may be larger than the volumes, it never shows too little.
LEMMA ReportCovers == MemInv => ReportIsNeverShort
<1> SUFFICES ASSUME MemInv, Ssa, \A v \in Values : Figure(v) >= Size(v)
             PROVE  /\ \A p \in DOMAIN table : table[p].live >= Resident(p)
                    /\ \A k \in DOMAIN summary :
                         /\ \A p \in DOMAIN Ops : summary[k].peak_live >= Resident(p)
                         /\ summary[k].retained >= MapThenSumSet(Size, Stashed)
  BY DEF ReportIsNeverShort
<1>1. WellFormed(filtered_ops_)
  BY DEF MemInv
<1>2. \A p \in DOMAIN filtered_ops_ :
        /\ HeldAt(filtered_ops_, p) \in Nat /\ Resident(p) \in Nat
        /\ HeldAt(filtered_ops_, p) >= Resident(p)
  BY <1>1, HeldIsResident
<1>3. \A p \in DOMAIN table : table[p].live >= Resident(p)
  BY <1>2, RowOfGraph
<1>4. ASSUME NEW k \in DOMAIN summary, NEW p \in DOMAIN Ops
      PROVE  summary[k].peak_live >= Resident(p)
  <2>1. PICK held : held = HeldAt(filtered_ops_, p)
    OBVIOUS
  <2>2. p \in DOMAIN filtered_ops_
    BY DEF Ops
  <2>3. held \in Nat /\ Resident(p) \in Nat /\ held >= Resident(p)
    BY <1>2, <2>1, <2>2
  <2>4. summary[k].peak_live \in Nat /\ held <= summary[k].peak_live
    BY <2>1, <2>2, SummaryOfGraph
  <2>5. QED
    BY <2>3, <2>4
<1>5. \A k \in DOMAIN summary : summary[k].retained >= MapThenSumSet(Size, Stashed)
  BY <1>1, StashIs, SummaryOfGraph
<1>6. QED
  BY <1>3, <1>4, <1>5

-----------------------------------------------------------------------------
(* The theorems, of the tool on its own. *)

\* A step of the tool's own specification.
LEMMA NextIsStep == Next => MemoryStep
<1>1. \A ops \in Graphs : WellFormed(ops)
  BY MemoryProxyAssumption
<1>2. QED
  BY <1>1 DEF Next, MemoryStep

\* The invariant holds of the tool on its own.
LEMMA MemoryInvariant == Spec => []MemInv
<1>1. Init => MemInv
  BY MemoryStarts
<1>2. MemInv /\ [Next]_vars => MemInv'
  BY NextIsStep, MemorySteps, MemoryRests
<1>3. QED
  BY <1>1, <1>2, PTL DEF Spec

-----------------------------------------------------------------------------
(* The tools of a session. *)

Early == {"OnRegister", "OnInit", "OnCompileBegin", "OnCompileEnd"}
Middle == {"OnLoadBegin", "OnLoadEnd", "OnRunBegin", "OnRunEnd"}
Late == {"OnShutdown", "bundle", "ended"}

\* The operators the tools look at.
Chosen == FilterOps(policy, workload.ops)

\* The samples of a session whose run is over.
Samples == IF Attached("overhead_profiler") /\ HasPair(RuntimeMetrics)
           THEN <<Sample(RuntimeMetrics)>> ELSE << >>

SessionInv ==
  /\ workload \in Workloads
  /\ policy \in {BuildPolicy(workload.options)} \cup workload.own_policies
  /\ IsList(tools)
  /\ closing \in 1 .. Len(tools) + 1
  /\ hook \in Early \cup Middle \cup Late
  /\ DOMAIN written = Reports

\* What each tool has kept, at each hook.
KeptInv ==
  /\ hook \in Early => doing = "hooks" /\ analyzer_ = NoOps /\ semantic_ = NoOps
  /\ doing # "hooks" => Attached("dataflow_memory_proxy") /\ filtered_ops_ = Chosen
  /\ analyzer_.ops \in {<< >>, Chosen}
  /\ analyzer_.ops = << >> \/ (analyzer_.peak_macs = workload.peak_macs /\ analyzer_.peak_bw = workload.peak_bw)
  /\ semantic_.ops \in {<< >>, Chosen}
  /\ ~Attached("semantic_attribution") => semantic_.ops = << >>
  /\ DOMAIN analyzer_ = DOMAIN NoOps /\ DOMAIN semantic_ = DOMAIN NoOps
  /\ hook \in {"OnShutdown", "bundle"} /\ semantic_.ops # << >> =>
       semantic_.metrics = FilterMetrics(policy, RuntimeMetrics)
  /\ hook \in Early \cup Middle => samples_ = << >>
  /\ hook \in {"OnShutdown", "bundle"} => samples_ = Samples
  /\ Len(samples_) <= 1

TableOf(s) ==
  [i \in DOMAIN s.ops |->
     [stable_id |-> s.ops[i].stable_id,
      runtime_attributed |-> s.ops[i].stable_id \in Observed(s.metrics)]]

SitesOf(s) == {Site(s.ops[i]) : i \in DOMAIN s.ops}

AtSite(s, x) == {i \in DOMAIN s.ops : Site(s.ops[i]) = x}

Lined(s) == {i \in DOMAIN s.ops : s.ops[i].src # ""}

InModule(s) == {i \in DOMAIN s.ops : s.ops[i].module_path # ""}

\* The figures of a semantic attribution of s that the others are compared with.
SemanticSays(r, s) ==
  /\ r.operators = Len(s.ops)
  /\ r.table = TableOf(s)
  /\ r.with_source = Cardinality(Lined(s))
  /\ r.module_only = IF Cardinality(InModule(s)) > Cardinality(Lined(s))
                     THEN Cardinality(InModule(s)) - Cardinality(Lined(s)) ELSE 0
  /\ r.unattributed = Cardinality(AtSite(s, <<"unattributed">>))
  /\ r.source_sites = Cardinality({x \in SitesOf(s) : x[1] = "line"})
  /\ DOMAIN r.expansion = SitesOf(s)
  /\ \A x \in SitesOf(s) : r.expansion[x].total = Cardinality(AtSite(s, x))

\* Classify, of the peaks of a.
Boundness(a, macs, bytes) ==
  IF a.peak_macs <= 0 \/ a.peak_bw <= 0 THEN "unknown"
  ELSE IF bytes <= 0 \/ 2 * macs * a.peak_bw < a.peak_macs * bytes THEN "memory"
  ELSE IF macs * a.peak_bw > 2 * a.peak_macs * bytes THEN "compute"
  ELSE "balanced"

MacsOf(a) == [i \in DOMAIN a.ops |-> a.ops[i].macs]

BytesOf(a) == [i \in DOMAIN a.ops |-> a.ops[i].estimated_bytes]

InClass(a, c) == {i \in DOMAIN a.ops : Boundness(a, a.ops[i].macs, a.ops[i].estimated_bytes) = c}

\* The figures of an analysis of a.
AnalyzerSays(r, a) ==
  /\ r.operators = Len(a.ops)
  /\ r.table = [i \in DOMAIN a.ops |-> Boundness(a, a.ops[i].macs, a.ops[i].estimated_bytes)]
  /\ r.total_macs = SumOver(MacsOf(a), DOMAIN a.ops)
  /\ r.boundness = Boundness(a, SumOver(MacsOf(a), DOMAIN a.ops), SumOver(BytesOf(a), DOMAIN a.ops))
  /\ r.share = [c \in Classes |-> SumOver(MacsOf(a), InClass(a, c))]

\* What each report there is says of what its tool has kept.
WrittenInv ==
  /\ \A t \in Reports : Len(written[t]) <= 1
  /\ hook \in Early \cup Middle => \A t \in Reports : written[t] = << >>
  /\ Has("dataflow_memory_proxy") => Of("dataflow_memory_proxy").operators = Len(Chosen)
  /\ Has("portability_report") => Of("portability_report").operators = Len(Chosen)
  /\ Has("program_analyzer") =>
       /\ analyzer_.ops = Chosen /\ analyzer_.ops # << >>
       /\ AnalyzerSays(Of("program_analyzer"), analyzer_)
  /\ Has("semantic_attribution") =>
       /\ semantic_.ops = Chosen /\ semantic_.metrics = FilterMetrics(policy, RuntimeMetrics)
       /\ SemanticSays(Of("semantic_attribution"), semantic_)

Paired == HasPair(RuntimeMetrics)

\* The overhead, by the profiler once it is closed and by the driver after it.
ClosedInv ==
  /\ hook \in Early \cup Middle => closing = 1
  /\ hook \in {"OnShutdown", "bundle"} /\ samples_ # << >> =>
       \A i \in DOMAIN tools :
         i < closing /\ tools[i] = "overhead_profiler" => Has("overhead_profiler")
  /\ hook = "bundle" => closing > Len(tools)
  /\ Has("overhead_profiler") =>
       Paired /\ Of("overhead_profiler").slowdown = Slowdown(Sample(RuntimeMetrics))
  /\ Has("bundle") =>
       /\ hook = "ended"
       /\ Of("bundle").operators = Len(workload.ops)
       /\ Of("bundle").slowdown = IF Paired THEN <<Slowdown(Sample(RuntimeMetrics))>> ELSE << >>
       /\ Attached("overhead_profiler") /\ Paired => Has("overhead_profiler")

ToolsInv == MemInv /\ SessionInv /\ KeptInv /\ WrittenInv /\ ClosedInv

\* The reports there may be.
LEMMA ReportsAre ==
  Reports = {"portability_report", "overhead_profiler", "semantic_attribution",
             "dataflow_memory_proxy", "program_analyzer", "bundle"}
<1>1. DOMAIN BuiltinToolNames = 1 .. 5
  BY DEF BuiltinToolNames
<1>2. \A i \in 1 .. 5 : i = 1 \/ i = 2 \/ i = 3 \/ i = 4 \/ i = 5
  OBVIOUS
<1>3. 1 \in 1 .. 5 /\ 2 \in 1 .. 5 /\ 3 \in 1 .. 5 /\ 4 \in 1 .. 5 /\ 5 \in 1 .. 5
  OBVIOUS
<1>4. ToSet(BuiltinToolNames)
        = {BuiltinToolNames[1], BuiltinToolNames[2], BuiltinToolNames[3], BuiltinToolNames[4],
           BuiltinToolNames[5]}
  <2>1. PICK b : b = BuiltinToolNames
    OBVIOUS
  <2>2. DOMAIN b = 1 .. 5
    BY <1>1, <2>1
  <2>3. \A x : x \in ToSet(b) <=> x \in {b[1], b[2], b[3], b[4], b[5]}
    BY <1>2, <1>3, <2>2 DEF ToSet
  <2>4. QED
    BY <2>1, <2>3
<1>5. QED
  BY <1>4 DEF Reports, BuiltinToolNames

\* What a session can be about.
LEMMA WorkloadFacts ==
  ASSUME SessionInv
  PROVE  /\ WellFormed(workload.ops) /\ IsList(workload.ops)
         /\ \A i \in DOMAIN workload.ops : workload.ops[i].macs \in Nat /\ workload.ops[i].estimated_bytes \in Nat
         /\ workload.peak_macs \in Int /\ workload.peak_bw \in Int
         /\ IsList(workload.load_metrics) /\ IsList(workload.run_metrics)
         /\ IsList(workload.options.requested_tools)
  BY BuiltinToolsAssumption DEF SessionInv, WellFormed

\* The operators chosen are some of the program's, in its order.
LEMMA ChosenFacts ==
  ASSUME NEW pol, NEW ops, WellFormed(ops)
  PROVE  /\ WellFormed(FilterOps(pol, ops)) /\ IsList(FilterOps(pol, ops))
         /\ Len(FilterOps(pol, ops)) <= Len(ops)
         /\ ToSet(FilterOps(pol, ops)) = {op \in ToSet(ops) : ShouldInstrument(pol, op)}
         /\ (\A op \in ToSet(ops) : ShouldInstrument(pol, op)) => FilterOps(pol, ops) = ops
<1>1. PICK T : ops \in Seq(T) /\ T = {ops[k] : k \in DOMAIN ops}
  BY ListFacts DEF WellFormed
<1>2. PICK S : S = {op \in ToSet(ops) : ShouldInstrument(pol, op)}
  OBVIOUS
<1>3. PICK kept : kept = FilterOps(pol, ops)
  OBVIOUS
<1>4. kept = Among(ops, S)
  BY <1>2, <1>3 DEF FilterOps
<1>5. /\ kept \in Seq(T) /\ ToSet(kept) = ToSet(ops) \cap S /\ Len(kept) <= Len(ops)
      /\ (ToSet(ops) \subseteq S => kept = ops)
  BY <1>1, <1>4, AmongFacts
<1>6. ToSet(kept) = S
  BY <1>2, <1>5
<1>7. IsList(kept)
  BY <1>5, SeqIsList
<1>8. WellFormed(kept)
  <2>1. Len(kept) <= Word
    <3>1. Len(kept) \in Nat /\ Len(ops) \in Nat /\ Len(ops) <= Word /\ Word \in Nat
      BY <1>7, ListFacts, MemoryProxyAssumption DEF WellFormed
    <3>2. QED
      BY <1>5, <3>1
  <2>2. ASSUME NEW p \in DOMAIN kept
        PROVE  /\ IsList(kept[p].outs)
               /\ \A k \in DOMAIN kept[p].outs : kept[p].outs[k].bytes \in Nat
               /\ kept[p].published \in Publishes
               /\ kept[p].result_bytes \in Nat /\ kept[p].estimated_bytes \in Nat
    <3>1. kept[p] \in ToSet(ops)
      BY <1>2, <1>6 DEF ToSet
    <3>2. PICK q \in DOMAIN ops : kept[p] = ops[q]
      BY <3>1 DEF ToSet
    <3>3. /\ IsList(ops[q].outs)
          /\ \A k \in DOMAIN ops[q].outs : ops[q].outs[k].bytes \in Nat
          /\ ops[q].published \in Publishes
          /\ ops[q].result_bytes \in Nat /\ ops[q].estimated_bytes \in Nat
      BY DEF WellFormed
    <3>4. QED
      BY <3>2, <3>3
  <2>3. QED
    BY <1>7, <2>1, <2>2 DEF WellFormed
<1>9. QED
  BY <1>2, <1>3, <1>5, <1>6, <1>7, <1>8

\* The metrics chosen are those of no operator or of a sampled id.
LEMMA MetricsFacts ==
  ASSUME NEW pol, NEW ms, IsList(ms)
  PROVE  ToSet(FilterMetrics(pol, ms))
           = {m \in ToSet(ms) : m.stable_id = 0 \/ ShouldEmit(pol, m.stable_id)}
<1>1. PICK T : ms \in Seq(T) /\ T = {ms[k] : k \in DOMAIN ms}
  BY ListFacts
<1>2. PICK S : S = {m \in ToSet(ms) : m.stable_id = 0 \/ ShouldEmit(pol, m.stable_id)}
  OBVIOUS
<1>3. ToSet(Among(ms, S)) = ToSet(ms) \cap S
  BY <1>1, AmongFacts
<1>4. FilterMetrics(pol, ms) = Among(ms, S)
  BY <1>2 DEF FilterMetrics
<1>5. QED
  BY <1>2, <1>3, <1>4

\* The metrics of a run are a list.
LEMMA RuntimeList ==
  ASSUME SessionInv
  PROVE  IsList(RuntimeMetrics)
<1>1. PICK T : workload.load_metrics \in Seq(T) /\ T = {workload.load_metrics[k] : k \in DOMAIN workload.load_metrics}
  BY WorkloadFacts, ListFacts
<1>2. PICK U : workload.run_metrics \in Seq(U) /\ U = {workload.run_metrics[k] : k \in DOMAIN workload.run_metrics}
  BY WorkloadFacts, ListFacts
<1>3. PICK V : V = T \cup U
  OBVIOUS
<1>4. T \subseteq V /\ U \subseteq V
  BY <1>3
<1>5. workload.load_metrics \in Seq(V) /\ workload.run_metrics \in Seq(V)
  BY <1>1, <1>2, <1>4, SeqMonotonic
<1>6. workload.load_metrics \o workload.run_metrics \in Seq(V)
  BY <1>5, ConcatProperties
<1>7. QED
  BY <1>6, SeqIsList DEF RuntimeMetrics

\* The tools attached are a list.
LEMMA ToolsList ==
  ASSUME ToolsInit
  PROVE  IsList(tools)
<1>1. workload \in Workloads
  BY DEF ToolsInit
<1>2. PICK names : names = RegisterBuiltin({}, BuiltinToolNames).names
  OBVIOUS
<1>3. PICK listed : listed = List(names, SortedTools)
  OBVIOUS
<1>4. tools = AddBuiltinTools(workload.options, listed)
  BY <1>2, <1>3 DEF ToolsInit
<1>5. PICK T : SortedTools \in Seq(T) /\ T = {SortedTools[k] : k \in DOMAIN SortedTools}
  BY ListFacts, BuiltinToolsAssumption
<1>6. listed \in Seq(T)
  BY <1>3, <1>5, AmongFacts DEF List
<1>7. IsList(Among(listed, ToSet(listed) \ workload.options.disabled_tools))
  <2>1. PICK S : S = ToSet(listed) \ workload.options.disabled_tools
    OBVIOUS
  <2>2. Among(listed, S) \in Seq(T)
    BY <1>6, AmongFacts
  <2>3. QED
    BY <2>1, <2>2, SeqIsList
<1>8. IsList(<< >>)
  BY EmptySeq, SeqIsList
<1>9. IsList(workload.options.requested_tools)
  BY <1>1, BuiltinToolsAssumption
<1>10. QED
  BY <1>4, <1>7, <1>8, <1>9 DEF AddBuiltinTools

\* The invariant holds at the start.
LEMMA ToolsStart == ToolsInit => ToolsInv
<1> SUFFICES ASSUME ToolsInit
             PROVE  ToolsInv
  OBVIOUS
<1>1. MemInv /\ doing = "hooks"
  BY MemoryStarts DEF ToolsInit, Init
<1>2. SessionInv
  <2>1. IsList(tools)
    BY ToolsList
  <2>2. Len(tools) \in Nat
    BY <2>1, ListFacts
  <2>3. closing \in 1 .. Len(tools) + 1
    BY <2>2 DEF ToolsInit
  <2>4. /\ workload \in Workloads
        /\ policy \in {BuildPolicy(workload.options)} \cup workload.own_policies
        /\ hook \in Early \cup Middle \cup Late
    BY DEF ToolsInit, Early, Late
  <2>5. DOMAIN written = Reports
    BY DEF ToolsInit
  <2>6. QED
    BY <2>1, <2>3, <2>4, <2>5 DEF SessionInv
<1>3. analyzer_ = NoOps /\ semantic_ = NoOps /\ samples_ = << >> /\ hook \in {"OnRegister", "ended"}
  BY DEF ToolsInit
<1>4. NoOps.ops = << >> /\ Len(<< >>) = 0
  BY DEF NoOps
<1>5. KeptInv
  BY <1>1, <1>3, <1>4 DEF KeptInv, Early, Middle
<1>6. \A t \in Reports : written[t] = << >>
  BY DEF ToolsInit
<1>7. WrittenInv
  <2>1. \A t \in Reports : Len(written[t]) <= 1
    BY <1>4, <1>6
  <2>2. ~Has("dataflow_memory_proxy") /\ ~Has("portability_report") /\ ~Has("program_analyzer")
        /\ ~Has("semantic_attribution")
    BY <1>6, ReportsAre DEF Has
  <2>3. QED
    BY <1>6, <2>1, <2>2 DEF WrittenInv
<1>8. ClosedInv
  <2>1. ~Has("overhead_profiler") /\ ~Has("bundle")
    BY <1>6, ReportsAre DEF Has
  <2>2. closing = 1 /\ hook \notin {"OnShutdown", "bundle"}
    BY <1>3 DEF ToolsInit
  <2>3. QED
    BY <2>1, <2>2 DEF ClosedInv
<1>9. QED
  BY <1>1, <1>2, <1>5, <1>7, <1>8 DEF ToolsInv

\* What the invariant is about and most hooks leave alone.
KeptVars == <<samples_, analyzer_, semantic_>>

\* The session does not change.
LEMMA SessionRests ==
  ASSUME UNCHANGED sessionVars
  PROVE  /\ workload' = workload /\ policy' = policy /\ tools' = tools
         /\ Chosen' = Chosen /\ RuntimeMetrics' = RuntimeMetrics /\ Samples' = Samples
         /\ (Paired' <=> Paired)
         /\ (Attached("overhead_profiler")' <=> Attached("overhead_profiler"))
         /\ \A t : Attached(t)' <=> Attached(t)
<1>1. workload' = workload /\ policy' = policy /\ tools' = tools
  BY DEF sessionVars
<1>2. \A t : Attached(t)' <=> Attached(t)
  BY <1>1 DEF Attached
<1>3. RuntimeMetrics' = RuntimeMetrics
  BY <1>1 DEF RuntimeMetrics
<1>4. Attached("overhead_profiler")' <=> Attached("overhead_profiler")
  BY <1>2
<1>5. Samples' = Samples
  BY <1>3, <1>4 DEF Samples
<1>6. Paired' <=> Paired
  BY <1>3 DEF Paired
<1>7. QED
  BY <1>1, <1>2, <1>3, <1>4, <1>5, <1>6 DEF Chosen

\* A hook at which no tool of the invariant does anything.
LEMMA HookKeeps ==
  ASSUME ToolsInv, UNCHANGED vars, UNCHANGED sessionVars, closing' = closing,
         UNCHANGED KeptVars, written' = written,
         \/ hook \in Early /\ hook' \in (Early \cup {"ended"})
         \/ hook \in Middle /\ hook' \in Middle
         \/ hook = "OnShutdown" /\ closing > Len(tools) /\ hook' = "bundle"
         \/ hook \in {"OnShutdown", "bundle"} /\ hook' = "ended"
         \/ hook' = hook
  PROVE  ToolsInv'
<1>1. MemInv /\ SessionInv /\ KeptInv /\ WrittenInv /\ ClosedInv
  BY DEF ToolsInv
<1>2. MemInv'
  BY <1>1, MemoryRests
<1>3. /\ workload' = workload /\ policy' = policy /\ tools' = tools
      /\ Chosen' = Chosen /\ RuntimeMetrics' = RuntimeMetrics /\ Samples' = Samples
      /\ \A t : Attached(t)' <=> Attached(t)
  BY SessionRests
<1>4. /\ filtered_ops_' = filtered_ops_ /\ doing' = doing
      /\ samples_' = samples_ /\ analyzer_' = analyzer_ /\ semantic_' = semantic_
  BY DEF vars, KeptVars
<1>5. hook' \in Early \cup Middle \cup Late
  BY <1>1 DEF SessionInv, Early, Middle, Late
<1>6. SessionInv'
  BY <1>1, <1>3, <1>5 DEF SessionInv
<1>7. /\ hook' \in Early => hook \in Early
      /\ hook' \in {"OnShutdown", "bundle"} => hook \in {"OnShutdown", "bundle"}
      /\ hook' \in Early \cup Middle => hook \in Early \cup Middle
  BY DEF Early, Middle
<1>8. KeptInv'
  <2>1. Attached("dataflow_memory_proxy")' <=> Attached("dataflow_memory_proxy")
    BY <1>3
  <2>2. Attached("semantic_attribution")' <=> Attached("semantic_attribution")
    BY <1>3
  <2>3. QED
    BY <1>1, <1>3, <1>4, <1>7, <2>1, <2>2 DEF KeptInv
<1>9. WrittenInv'
  BY <1>1, <1>3, <1>4, <1>7 DEF WrittenInv, Has, Of
<1>10. ClosedInv'
  <2>1. /\ Has("overhead_profiler")' <=> Has("overhead_profiler")
        /\ Has("bundle")' <=> Has("bundle")
        /\ Of("overhead_profiler")' = Of("overhead_profiler") /\ Of("bundle")' = Of("bundle")
    BY DEF Has, Of
  <2>2. Paired' <=> Paired
    BY SessionRests
  <2>3. Attached("overhead_profiler")' <=> Attached("overhead_profiler")
    BY <1>3
  <2>4. /\ hook = "ended" => hook' = "ended"
        /\ hook' = "bundle" => hook = "bundle" \/ closing > Len(tools)
    BY DEF Early, Middle
  <2>5. QED
    BY <1>1, <1>3, <1>4, <1>7, <2>1, <2>2, <2>3, <2>4 DEF ClosedInv
<1>11. QED
  BY <1>2, <1>6, <1>8, <1>9, <1>10 DEF ToolsInv

\* The tools start.
LEMMA InitKeeps ==
  ASSUME ToolsInv, OnInit
  PROVE  ToolsInv'
<1>1. /\ MemInv /\ SessionInv /\ KeptInv /\ WrittenInv /\ ClosedInv
      /\ hook = "OnInit" /\ hook' = "OnCompileBegin"
      /\ UNCHANGED vars /\ UNCHANGED sessionVars /\ closing' = closing /\ written' = written
      /\ samples_' = << >> /\ analyzer_' = NoOps /\ semantic_' = NoOps
  BY DEF ToolsInv, OnInit
<1>2. samples_ = << >> /\ analyzer_ = NoOps /\ semantic_ = NoOps
  BY <1>1 DEF KeptInv, Early
<1>3. UNCHANGED KeptVars
  BY <1>1, <1>2 DEF KeptVars
<1>4. hook \in Early /\ hook' \in Early \cup {"ended"}
  BY <1>1 DEF Early
<1>5. QED
  BY <1>1, <1>3, <1>4, HookKeeps

\* The operators reach the tools.
LEMMA CompileEndKeeps ==
  ASSUME ToolsInv, OnCompileEndAll
  PROVE  ToolsInv'
<1> DEFINE ops == FilterOps(policy, workload.ops)
<1>1. /\ MemInv /\ SessionInv /\ KeptInv /\ WrittenInv /\ ClosedInv
      /\ hook = "OnCompileEnd" /\ hook' = "OnLoadBegin"
      /\ UNCHANGED sessionVars /\ closing' = closing /\ written' = written
      /\ samples_' = samples_
      /\ IF Attached("dataflow_memory_proxy") THEN OnCompileEnd(ops) ELSE UNCHANGED vars
      /\ analyzer_' = IF Attached("program_analyzer")
                      THEN [analyzer_ EXCEPT !.ops = ops, !.peak_macs = workload.peak_macs,
                                             !.peak_bw = workload.peak_bw]
                      ELSE analyzer_
      /\ semantic_' = IF Attached("semantic_attribution")
                      THEN [semantic_ EXCEPT !.ops = ops] ELSE semantic_
  BY DEF ToolsInv, OnCompileEndAll
<1>2. analyzer_ = NoOps /\ semantic_ = NoOps /\ samples_ = << >> /\ doing = "hooks"
  BY <1>1 DEF KeptInv, Early
<1>3. WellFormed(ops)
  BY <1>1, WorkloadFacts, ChosenFacts
<1> HIDE DEF ops
<1>4. MemInv'
  BY <1>1, <1>3, CompileKeeps, MemoryRests
<1>5. /\ workload' = workload /\ policy' = policy /\ tools' = tools
      /\ Chosen' = Chosen /\ RuntimeMetrics' = RuntimeMetrics /\ Samples' = Samples
      /\ \A t : Attached(t)' <=> Attached(t)
  BY <1>1, SessionRests
<1>6. ops = Chosen
  BY DEF ops, Chosen
<1>7. SessionInv'
  BY <1>1, <1>5 DEF SessionInv, Middle
<1>8. doing' # "hooks" => Attached("dataflow_memory_proxy") /\ filtered_ops_' = Chosen
  <2>1. CASE Attached("dataflow_memory_proxy")
    BY <1>1, <1>6, <2>1 DEF OnCompileEnd
  <2>2. CASE ~Attached("dataflow_memory_proxy")
    BY <1>1, <1>2, <2>2 DEF vars
  <2>3. QED
    BY <2>1, <2>2
<1>9. /\ analyzer_'.ops \in {<< >>, Chosen} /\ DOMAIN analyzer_' = DOMAIN NoOps
      /\ analyzer_'.ops = << >> \/ (analyzer_'.peak_macs = workload.peak_macs /\ analyzer_'.peak_bw = workload.peak_bw)
  <2>1. CASE Attached("program_analyzer")
    BY <1>1, <1>2, <1>6, <2>1 DEF NoOps
  <2>2. CASE ~Attached("program_analyzer")
    BY <1>1, <1>2, <2>2 DEF NoOps
  <2>3. QED
    BY <2>1, <2>2
<1>10. /\ semantic_'.ops \in {<< >>, Chosen} /\ DOMAIN semantic_' = DOMAIN NoOps
       /\ ~Attached("semantic_attribution") => semantic_'.ops = << >>
  <2>1. CASE Attached("semantic_attribution")
    BY <1>1, <1>2, <1>6, <2>1 DEF NoOps
  <2>2. CASE ~Attached("semantic_attribution")
    BY <1>1, <1>2, <2>2 DEF NoOps
  <2>3. QED
    BY <2>1, <2>2
<1>11. KeptInv'
  <2>1. Attached("dataflow_memory_proxy")' <=> Attached("dataflow_memory_proxy")
    BY <1>5
  <2>2. Attached("semantic_attribution")' <=> Attached("semantic_attribution")
    BY <1>5
  <2>3. hook' \notin Early /\ hook' \notin {"OnShutdown", "bundle"}
    BY <1>1 DEF Early
  <2>4. Len(samples_') <= 1 /\ samples_' = << >>
    BY <1>1, <1>2 DEF KeptInv
  <2>5. QED
    BY <1>5, <1>8, <1>9, <1>10, <2>1, <2>2, <2>3, <2>4 DEF KeptInv
<1>12. WrittenInv'
  <2>1. \A t \in Reports : written[t] = << >>
    BY <1>1 DEF WrittenInv, Early
  <2>2. /\ written'["dataflow_memory_proxy"] = << >> /\ written'["portability_report"] = << >>
        /\ written'["program_analyzer"] = << >> /\ written'["semantic_attribution"] = << >>
    BY <1>1, <2>1, ReportsAre
  <2>3. \A t \in Reports : Len(written'[t]) <= 1 /\ written'[t] = << >>
    BY <1>1, <2>1 DEF WrittenInv
  <2>4. QED
    BY <2>2, <2>3 DEF WrittenInv, Has
<1>13. ClosedInv'
  <2>1. ~Has("overhead_profiler")' /\ ~Has("bundle")'
    <3>1. \A t \in Reports : written'[t] = << >>
      BY <1>1 DEF WrittenInv, Early, Middle
    <3>2. QED
      BY <3>1, ReportsAre DEF Has
  <2>2. closing' = 1 /\ hook' \notin {"OnShutdown", "bundle"}
    BY <1>1 DEF ClosedInv, Early
  <2>3. QED
    BY <2>1, <2>2 DEF ClosedInv
<1>14. QED
  BY <1>4, <1>7, <1>11, <1>12, <1>13 DEF ToolsInv

\* The metrics of the run reach the tools.
LEMMA RunEndKeeps ==
  ASSUME ToolsInv, OnRunEnd
  PROVE  ToolsInv'
<1> DEFINE kept == FilterMetrics(policy, RuntimeMetrics)
<1>1. /\ MemInv /\ SessionInv /\ KeptInv /\ WrittenInv /\ ClosedInv
      /\ hook = "OnRunEnd" /\ hook' = "OnShutdown"
      /\ UNCHANGED vars /\ UNCHANGED sessionVars /\ closing' = closing /\ written' = written
      /\ samples_' = IF Attached("overhead_profiler") /\ HasPair(RuntimeMetrics)
                     THEN Append(samples_, Sample(RuntimeMetrics)) ELSE samples_
      /\ analyzer_' = IF Attached("program_analyzer")
                      THEN [analyzer_ EXCEPT !.metrics = kept] ELSE analyzer_
      /\ semantic_' = IF Attached("semantic_attribution")
                      THEN [semantic_ EXCEPT !.metrics = kept] ELSE semantic_
  BY DEF ToolsInv, OnRunEnd
<1> HIDE DEF kept
<1>2. MemInv' /\ filtered_ops_' = filtered_ops_ /\ doing' = doing
  BY <1>1, MemoryRests DEF vars
<1>3. /\ workload' = workload /\ policy' = policy /\ tools' = tools
      /\ Chosen' = Chosen /\ RuntimeMetrics' = RuntimeMetrics /\ Samples' = Samples
      /\ \A t : Attached(t)' <=> Attached(t)
  BY <1>1, SessionRests
<1>4. SessionInv'
  BY <1>1, <1>3 DEF SessionInv, Late
<1>5. samples_ = << >>
  BY <1>1 DEF KeptInv, Middle
<1>6. samples_' = Samples /\ Len(samples_') <= 1
  <2>1. PICK x : x = Sample(RuntimeMetrics)
    OBVIOUS
  <2>2. Append(<< >>, x) = <<x>> /\ Len(<<x>>) = 1 /\ Len(<< >>) = 0
    OBVIOUS
  <2>3. QED
    BY <1>1, <1>5, <2>1, <2>2 DEF Samples
<1>7. /\ analyzer_'.ops = analyzer_.ops /\ analyzer_'.peak_macs = analyzer_.peak_macs
      /\ analyzer_'.peak_bw = analyzer_.peak_bw /\ DOMAIN analyzer_' = DOMAIN NoOps
  BY <1>1 DEF KeptInv, NoOps
<1>8. /\ semantic_'.ops = semantic_.ops /\ DOMAIN semantic_' = DOMAIN NoOps
      /\ Attached("semantic_attribution") => semantic_'.metrics = kept
  BY <1>1 DEF KeptInv, NoOps
<1>9. KeptInv'
  <2>1. Attached("dataflow_memory_proxy")' <=> Attached("dataflow_memory_proxy")
    BY <1>3
  <2>2. Attached("semantic_attribution")' <=> Attached("semantic_attribution")
    BY <1>3
  <2>3. hook' \notin Early /\ hook' \notin Early \cup Middle
    BY <1>1 DEF Early, Middle
  <2>4. semantic_'.ops # << >> => semantic_'.metrics = FilterMetrics(policy, RuntimeMetrics)
    BY <1>1, <1>8 DEF KeptInv, kept
  <2>5. QED
    BY <1>1, <1>2, <1>3, <1>6, <1>7, <1>8, <2>1, <2>2, <2>3, <2>4 DEF KeptInv
<1>10. WrittenInv'
  <2>1. \A t \in Reports : written[t] = << >>
    BY <1>1 DEF WrittenInv, Middle
  <2>2. /\ written'["dataflow_memory_proxy"] = << >> /\ written'["portability_report"] = << >>
        /\ written'["program_analyzer"] = << >> /\ written'["semantic_attribution"] = << >>
    BY <1>1, <2>1, ReportsAre
  <2>3. \A t \in Reports : Len(written'[t]) <= 1 /\ written'[t] = << >>
    BY <1>1, <2>1 DEF WrittenInv
  <2>4. QED
    BY <2>2, <2>3 DEF WrittenInv, Has
<1>11. ClosedInv'
  <2>1. ~Has("overhead_profiler")' /\ ~Has("bundle")'
    <3>1. \A t \in Reports : written'[t] = << >>
      BY <1>1 DEF WrittenInv, Early, Middle
    <3>2. QED
      BY <3>1, ReportsAre DEF Has
  <2>2. closing' = 1 /\ hook' = "OnShutdown"
    BY <1>1 DEF ClosedInv, Middle
  <2>3. \A i \in DOMAIN tools' : ~(i < 1)
    <3>1. Len(tools') \in Nat /\ DOMAIN tools' = 1 .. Len(tools')
      BY <1>3, <1>1, ListFacts DEF SessionInv
    <3>2. QED
      BY <3>1
  <2>4. hook' \notin Early \cup Middle
    BY <2>2 DEF Early, Middle
  <2>5. QED
    BY <2>1, <2>2, <2>3, <2>4 DEF ClosedInv
<1>12. QED
  BY <1>2, <1>4, <1>9, <1>10, <1>11 DEF ToolsInv

Closers == OpTools \cup {"overhead_profiler"}

\* What the report r of tool t says.
Tells(t, r) ==
  /\ t \in OpTools => r.operators = Len(Chosen)
  /\ t = "program_analyzer" =>
       analyzer_.ops = Chosen /\ analyzer_.ops # << >> /\ AnalyzerSays(r, analyzer_)
  /\ t = "semantic_attribution" =>
       /\ semantic_.ops = Chosen /\ semantic_.metrics = FilterMetrics(policy, RuntimeMetrics)
       /\ SemanticSays(r, semantic_)
  /\ t = "overhead_profiler" =>
       Paired /\ r.slowdown = Slowdown(Sample(RuntimeMetrics))

\* A tool at its shutdown leaves the session.
LEMMA CloserFacts ==
  ASSUME ToolsInv, NEW t, Closing(t)
  PROVE  /\ hook = "OnShutdown" /\ Attached(t) /\ closing \in DOMAIN tools
         /\ tools[closing] = t /\ closing \in Nat
         /\ closing + 1 \in 1 .. Len(tools) + 1
<1>1. IsList(tools) /\ closing \in 1 .. Len(tools) + 1
  BY DEF ToolsInv, SessionInv
<1>2. Len(tools) \in Nat /\ DOMAIN tools = 1 .. Len(tools)
  BY <1>1, ListFacts
<1>3. hook = "OnShutdown" /\ closing <= Len(tools) /\ tools[closing] = t
  BY DEF Closing
<1>4. closing \in DOMAIN tools /\ closing \in Nat /\ closing + 1 \in 1 .. Len(tools) + 1
  BY <1>1, <1>2, <1>3
<1>5. QED
  BY <1>3, <1>4 DEF Attached

\* The reports after one more, or after none.
LEMMA WrittenNext ==
  ASSUME DOMAIN written = Reports, NEW t \in Closers, NEW r,
         written' = [written EXCEPT ![t] = <<r>>]
  PROVE  /\ DOMAIN written' = Reports
         /\ Has(t)' /\ Of(t)' = r /\ Len(written'[t]) = 1
         /\ \A u \in Reports \ {t} : written'[u] = written[u]
<1>1. t \in Reports
  BY ReportsAre DEF Closers, OpTools
<1>2. written'[t] = <<r>>
  BY <1>1
<1>3. <<r>> # << >> /\ <<r>>[1] = r /\ Len(<<r>>) = 1
  OBVIOUS
<1>4. QED
  BY <1>1, <1>2, <1>3 DEF Has, Of

\* A tool has finished, with a report that says what it should or with none.
LEMMA NextKeeps ==
  ASSUME ToolsInv, UNCHANGED vars, UNCHANGED sessionVars, UNCHANGED stateVars,
         NEW t \in Closers, Closing(t), NextTool,
         \/ written' = written /\ (t = "overhead_profiler" => samples_ = << >>)
         \/ \E r : written' = [written EXCEPT ![t] = <<r>>] /\ Tells(t, r)
  PROVE  ToolsInv'
<1>1. /\ MemInv /\ SessionInv /\ KeptInv /\ WrittenInv /\ ClosedInv
      /\ closing' = closing + 1 /\ hook' = hook
  BY DEF ToolsInv, NextTool
<1>2. MemInv' /\ filtered_ops_' = filtered_ops_ /\ doing' = doing
  BY <1>1, MemoryRests DEF vars
<1>3. /\ workload' = workload /\ policy' = policy /\ tools' = tools
      /\ Chosen' = Chosen /\ RuntimeMetrics' = RuntimeMetrics /\ Samples' = Samples
      /\ \A u : Attached(u)' <=> Attached(u)
  BY SessionRests
<1>4. samples_' = samples_ /\ analyzer_' = analyzer_ /\ semantic_' = semantic_
  BY DEF stateVars
<1>5. /\ hook = "OnShutdown" /\ closing \in DOMAIN tools /\ tools[closing] = t /\ closing \in Nat
      /\ closing + 1 \in 1 .. Len(tools) + 1
  BY CloserFacts
<1>6. Paired' <=> Paired
  BY SessionRests
<1>7. /\ "dataflow_memory_proxy" \in Reports /\ "portability_report" \in Reports
      /\ "program_analyzer" \in Reports /\ "semantic_attribution" \in Reports
      /\ "overhead_profiler" \in Reports /\ "bundle" \in Reports /\ t # "bundle"
  BY ReportsAre DEF Closers, OpTools
<1>8. \/ written' = written /\ (t = "overhead_profiler" => samples_ = << >>)
      \/ /\ DOMAIN written' = Reports /\ Has(t)' /\ Tells(t, Of(t)') /\ Len(written'[t]) = 1
         /\ \A u \in Reports \ {t} : written'[u] = written[u]
  <2>1. CASE written' = written /\ (t = "overhead_profiler" => samples_ = << >>)
    BY <2>1
  <2>2. CASE \E r : written' = [written EXCEPT ![t] = <<r>>] /\ Tells(t, r)
    <3>1. PICK r : written' = [written EXCEPT ![t] = <<r>>] /\ Tells(t, r)
      BY <2>2
    <3>2. DOMAIN written = Reports
      BY <1>1 DEF SessionInv
    <3>3. QED
      BY <3>1, <3>2, WrittenNext
  <2>3. QED
    BY <2>1, <2>2
<1>9. SessionInv'
  BY <1>1, <1>3, <1>5, <1>8 DEF SessionInv
<1>10. KeptInv'
  <2>1. Attached("dataflow_memory_proxy")' <=> Attached("dataflow_memory_proxy")
    BY <1>3
  <2>2. Attached("semantic_attribution")' <=> Attached("semantic_attribution")
    BY <1>3
  <2>3. QED
    BY <1>1, <1>2, <1>3, <1>4, <2>1, <2>2 DEF KeptInv
<1>11. ASSUME NEW u \in Reports \ {t}
       PROVE  (Has(u)' <=> Has(u)) /\ Of(u)' = Of(u) /\ written'[u] = written[u]
  <2>1. written'[u] = written[u]
    BY <1>8
  <2>2. QED
    BY <2>1 DEF Has, Of
<1>12. t \in Closers
  OBVIOUS
<1>13. /\ Has(t)' => (Has(t) /\ Of(t)' = Of(t)) \/ Tells(t, Of(t)')
       /\ Has(t) => Has(t)'
  <2>1. CASE written' = written
    <3>1. (Has(t)' <=> Has(t)) /\ Of(t)' = Of(t)
      BY <2>1 DEF Has, Of
    <3>2. QED
      BY <3>1
  <2>2. CASE Has(t)' /\ Tells(t, Of(t)')
    BY <2>2
  <2>3. QED
    BY <1>8, <2>1, <2>2
<1>14. WrittenInv'
  <2>1. \A u \in Reports : Len(written'[u]) <= 1
    <3>1. CASE written' = written
      BY <1>1, <3>1 DEF WrittenInv
    <3>2. CASE Len(written'[t]) = 1 /\ \A u \in Reports \ {t} : written'[u] = written[u]
      <4>1. \A u \in Reports \ {t} : Len(written'[u]) <= 1
        <5>1. \A u \in Reports : Len(written[u]) <= 1
          BY <1>1 DEF WrittenInv
        <5>2. QED
          BY <3>2, <5>1
      <4>2. PICK n : n = Len(written'[t])
        OBVIOUS
      <4>3. n <= 1
        BY <3>2, <4>2
      <4>4. QED
        BY <4>1, <4>2, <4>3
    <3>3. QED
      BY <1>8, <3>1, <3>2
  <2>2. hook' \notin Early \cup Middle
    BY <1>1, <1>5 DEF Early, Middle
  <2>3. Has("dataflow_memory_proxy")' => Of("dataflow_memory_proxy")'.operators = Len(Chosen)
    <3>1. CASE t = "dataflow_memory_proxy"
      BY <1>1, <1>13, <3>1 DEF WrittenInv, Tells, OpTools
    <3>2. CASE t # "dataflow_memory_proxy"
      BY <1>1, <1>7, <1>11, <3>2 DEF WrittenInv
    <3>3. QED
      BY <3>1, <3>2
  <2>4. Has("portability_report")' => Of("portability_report")'.operators = Len(Chosen)
    <3>1. CASE t = "portability_report"
      BY <1>1, <1>13, <3>1 DEF WrittenInv, Tells, OpTools
    <3>2. CASE t # "portability_report"
      BY <1>1, <1>7, <1>11, <3>2 DEF WrittenInv
    <3>3. QED
      BY <3>1, <3>2
  <2>5. Has("program_analyzer")' =>
          /\ analyzer_.ops = Chosen /\ analyzer_.ops # << >>
          /\ AnalyzerSays(Of("program_analyzer")', analyzer_)
    <3>1. CASE t = "program_analyzer"
      BY <1>1, <1>13, <3>1 DEF WrittenInv, Tells
    <3>2. CASE t # "program_analyzer"
      BY <1>1, <1>7, <1>11, <3>2 DEF WrittenInv
    <3>3. QED
      BY <3>1, <3>2
  <2>6. Has("semantic_attribution")' =>
          /\ semantic_.ops = Chosen /\ semantic_.metrics = FilterMetrics(policy, RuntimeMetrics)
          /\ SemanticSays(Of("semantic_attribution")', semantic_)
    <3>1. CASE t = "semantic_attribution"
      BY <1>1, <1>13, <3>1 DEF WrittenInv, Tells
    <3>2. CASE t # "semantic_attribution"
      BY <1>1, <1>7, <1>11, <3>2 DEF WrittenInv
    <3>3. QED
      BY <3>1, <3>2
  <2>7. QED
    BY <1>3, <1>4, <2>1, <2>2, <2>3, <2>4, <2>5, <2>6 DEF WrittenInv
<1>15. ClosedInv'
  <2>1. hook' \notin Early \cup Middle /\ hook' # "bundle"
    BY <1>1, <1>5 DEF Early, Middle
  <2>2. ~Has("bundle")'
    <3>1. ~Has("bundle")
      BY <1>1, <1>5 DEF ClosedInv
    <3>2. QED
      BY <1>7, <1>11, <3>1
  <2>3. Has("overhead_profiler")' =>
          Paired /\ Of("overhead_profiler")'.slowdown = Slowdown(Sample(RuntimeMetrics))
    <3>1. CASE t = "overhead_profiler"
      BY <1>1, <1>13, <3>1 DEF ClosedInv, Tells
    <3>2. CASE t # "overhead_profiler"
      BY <1>1, <1>7, <1>11, <3>2 DEF ClosedInv
    <3>3. QED
      BY <3>1, <3>2
  <2>4. ASSUME samples_ # << >>, NEW i \in DOMAIN tools, i < closing + 1,
               tools[i] = "overhead_profiler"
        PROVE  Has("overhead_profiler")'
    <3>1. CASE i = closing
      <4>1. t = "overhead_profiler"
        BY <1>5, <2>4, <3>1
      <4>2. QED
        BY <1>8, <2>4, <4>1
    <3>2. CASE i # closing
      <4>1. DOMAIN tools = 1 .. Len(tools)
        BY <1>1, ListFacts DEF SessionInv
      <4>2. i < closing
        BY <1>5, <2>4, <3>2, <4>1
      <4>3. Has("overhead_profiler")
        BY <1>1, <1>5, <2>4, <4>2 DEF ClosedInv
      <4>4. QED
        BY <1>7, <1>11, <1>13, <4>3
    <3>3. QED
      BY <3>1, <3>2
  <2>5. QED
    BY <1>1, <1>3, <1>4, <1>6, <2>1, <2>2, <2>3, <2>4 DEF ClosedInv
<1>16. QED
  BY <1>2, <1>9, <1>10, <1>14, <1>15 DEF ToolsInv

\* A tool that fails ends the session.
LEMMA FailKeeps ==
  ASSUME ToolsInv, UNCHANGED vars, UNCHANGED sessionVars, UNCHANGED stateVars,
         NEW t, Closing(t), hook' = "ended", UNCHANGED <<closing, written>>
  PROVE  ToolsInv'
<1>1. UNCHANGED KeptVars /\ closing' = closing /\ written' = written
  BY DEF stateVars, KeptVars
<1>2. hook = "OnShutdown"
  BY DEF Closing
<1>3. QED
  BY <1>1, <1>2, HookKeeps

-----------------------------------------------------------------------------
(* What the reports say. *)

\* A list has finitely many positions.
LEMMA PositionsFinite ==
  ASSUME NEW s, IsList(s)
  PROVE  /\ IsFiniteSet(DOMAIN s) /\ Cardinality(DOMAIN s) = Len(s) /\ Len(s) \in Nat
         /\ \A T \in SUBSET DOMAIN s : IsFiniteSet(T) /\ Cardinality(T) \in Nat
<1>1. Len(s) \in Nat /\ DOMAIN s = 1 .. Len(s)
  BY ListFacts
<1>2. PICK n \in Nat : n = Len(s)
  BY <1>1
<1>3. IsFiniteSet(1 .. n) /\ Cardinality(1 .. n) = n
  <2>1. IsFiniteSet(1 .. n) /\ Cardinality(1 .. n) = IF 1 <= n THEN n - 1 + 1 ELSE 0
    BY FS_Interval
  <2>2. (IF 1 <= n THEN n - 1 + 1 ELSE 0) = n
    OBVIOUS
  <2>3. QED
    BY <2>1, <2>2
<1>4. IsFiniteSet(DOMAIN s) /\ Cardinality(DOMAIN s) = Len(s)
  BY <1>1, <1>2, <1>3
<1>5. \A T \in SUBSET DOMAIN s : IsFiniteSet(T) /\ Cardinality(T) \in Nat
  BY <1>4, FS_Subset, FS_CardinalityType
<1>6. QED
  BY <1>1, <1>4, <1>5

\* The macs of some operators.
LEMMA MacsAdd ==
  ASSUME NEW a, IsList(a.ops), NEW S \in SUBSET DOMAIN a.ops
  PROVE  MapThenSumSet(LAMBDA i : a.ops[i].macs, S) = SumOver(MacsOf(a), S)
<1> DEFINE f == MacsOf(a)
           G == CHOOSE g : g = [T \in SUBSET S |->
                   IF T = {} THEN 0 ELSE a.ops[Picked(T)].macs + g[T \ {Picked(T)}]]
<1>0. IsFiniteSet(S) /\ \A i \in S : f[i] = a.ops[i].macs
  BY PositionsFinite DEF MacsOf
<1> HIDE DEF f
<1>1. ASSUME NEW g
      PROVE  (g = [T \in SUBSET S |->
                   IF T = {} THEN 0 ELSE a.ops[Picked(T)].macs + g[T \ {Picked(T)}]])
               <=> SumsTo(g, f, S)
  <2>1. \A T \in SUBSET S : T # {} => f[Picked(T)] = a.ops[Picked(T)].macs
    BY <1>0, PickedIn
  <2>2. [T \in SUBSET S |-> IF T = {} THEN 0 ELSE a.ops[Picked(T)].macs + g[T \ {Picked(T)}]]
        = [T \in SUBSET S |-> IF T = {} THEN 0 ELSE f[Picked(T)] + g[T \ {Picked(T)}]]
    BY <2>1
  <2>3. QED
    BY <2>2 DEF SumsTo
<1>2. SumsTo(G, f, S)
  <2>1. \E g : SumsTo(g, f, S)
    BY <1>0, SumsExist
  <2>2. QED
    BY <1>1, <2>1
<1>3. MapThenSumSet(LAMBDA i : a.ops[i].macs, S) = G[S]
  BY DEF MapThenSumSet, MapThenFoldSet, Picked
<1>4. G[S] = SumOver(f, S)
  <2> HIDE DEF G
  <2>1. S \in SUBSET S
    OBVIOUS
  <2>2. QED
    BY <1>0, <1>2, <2>1, SumsHold, SumsAgree DEF SumOver
<1>5. QED
  BY <1>3, <1>4 DEF f

\* Their bytes.
LEMMA BytesAdd ==
  ASSUME NEW a, IsList(a.ops), NEW S \in SUBSET DOMAIN a.ops
  PROVE  MapThenSumSet(LAMBDA i : a.ops[i].estimated_bytes, S) = SumOver(BytesOf(a), S)
<1> DEFINE f == BytesOf(a)
           G == CHOOSE g : g = [T \in SUBSET S |->
                   IF T = {} THEN 0 ELSE a.ops[Picked(T)].estimated_bytes + g[T \ {Picked(T)}]]
<1>0. IsFiniteSet(S) /\ \A i \in S : f[i] = a.ops[i].estimated_bytes
  BY PositionsFinite DEF BytesOf
<1> HIDE DEF f
<1>1. ASSUME NEW g
      PROVE  (g = [T \in SUBSET S |->
                   IF T = {} THEN 0 ELSE a.ops[Picked(T)].estimated_bytes + g[T \ {Picked(T)}]])
               <=> SumsTo(g, f, S)
  <2>1. \A T \in SUBSET S : T # {} => f[Picked(T)] = a.ops[Picked(T)].estimated_bytes
    BY <1>0, PickedIn
  <2>2. [T \in SUBSET S |-> IF T = {} THEN 0 ELSE a.ops[Picked(T)].estimated_bytes + g[T \ {Picked(T)}]]
        = [T \in SUBSET S |-> IF T = {} THEN 0 ELSE f[Picked(T)] + g[T \ {Picked(T)}]]
    BY <2>1
  <2>3. QED
    BY <2>2 DEF SumsTo
<1>2. SumsTo(G, f, S)
  <2>1. \E g : SumsTo(g, f, S)
    BY <1>0, SumsExist
  <2>2. QED
    BY <1>1, <2>1
<1>3. MapThenSumSet(LAMBDA i : a.ops[i].estimated_bytes, S) = G[S]
  BY DEF MapThenSumSet, MapThenFoldSet, Picked
<1>4. G[S] = SumOver(f, S)
  <2> HIDE DEF G
  <2>1. S \in SUBSET S
    OBVIOUS
  <2>2. QED
    BY <1>0, <1>2, <2>1, SumsHold, SumsAgree DEF SumOver
<1>5. QED
  BY <1>3, <1>4 DEF f

\* The report of the analyzer says what it should.
LEMMA AnalyzerReportSays ==
  ASSUME IsList(analyzer_.ops)
  PROVE  AnalyzerSays(AnalyzerReport, analyzer_)
<1> DEFINE ops == analyzer_.ops
           D == DOMAIN analyzer_.ops
<1>1. \A macs, bytes : Classify(macs, bytes) = Boundness(analyzer_, macs, bytes)
  BY DEF Classify, Boundness
<1>2. \A i \in D : Class(ops[i]) = Boundness(analyzer_, ops[i].macs, ops[i].estimated_bytes)
  BY <1>1 DEF Class
<1>3. Total(analyzer_.ops, Macs) = SumOver(MacsOf(analyzer_), D)
  <2>1. D \in SUBSET DOMAIN analyzer_.ops
    OBVIOUS
  <2>2. MapThenSumSet(LAMBDA i : analyzer_.ops[i].macs, D) = SumOver(MacsOf(analyzer_), D)
    BY <2>1, MacsAdd
  <2>3. QED
    BY <2>2 DEF Total, Macs
<1>4. Total(analyzer_.ops, Bytes) = SumOver(BytesOf(analyzer_), D)
  <2>1. D \in SUBSET DOMAIN analyzer_.ops
    OBVIOUS
  <2>2. MapThenSumSet(LAMBDA i : analyzer_.ops[i].estimated_bytes, D) = SumOver(BytesOf(analyzer_), D)
    BY <2>1, BytesAdd
  <2>3. QED
    BY <2>2 DEF Total, Bytes
<1>5. ASSUME NEW c \in Classes
      PROVE  MapThenSumSet(LAMBDA i : analyzer_.ops[i].macs,
                           {i \in DOMAIN analyzer_.ops : Class(analyzer_.ops[i]) = c})
               = SumOver(MacsOf(analyzer_), InClass(analyzer_, c))
  <2>1. {i \in DOMAIN analyzer_.ops : Class(analyzer_.ops[i]) = c} = InClass(analyzer_, c)
    BY <1>2 DEF InClass
  <2>2. {i \in DOMAIN analyzer_.ops : Class(analyzer_.ops[i]) = c} \in SUBSET DOMAIN analyzer_.ops
    OBVIOUS
  <2>3. MapThenSumSet(LAMBDA i : analyzer_.ops[i].macs,
                      {i \in DOMAIN analyzer_.ops : Class(analyzer_.ops[i]) = c})
          = SumOver(MacsOf(analyzer_), {i \in DOMAIN analyzer_.ops : Class(analyzer_.ops[i]) = c})
    BY <2>2, MacsAdd
  <2>4. QED
    BY <2>1, <2>3
<1>6. PICK share : share = [c \in Classes |->
         MapThenSumSet(LAMBDA i : analyzer_.ops[i].macs,
                       {i \in DOMAIN analyzer_.ops : Class(analyzer_.ops[i]) = c})]
  OBVIOUS
<1>7. share = [c \in Classes |-> SumOver(MacsOf(analyzer_), InClass(analyzer_, c))]
  BY <1>5, <1>6
<1>8. PICK table_ : table_ = [i \in D |-> Class(ops[i])]
  OBVIOUS
<1>9. table_ = [i \in D |-> Boundness(analyzer_, ops[i].macs, ops[i].estimated_bytes)]
  BY <1>2, <1>8
<1>10. PICK r : r = AnalyzerReport
  OBVIOUS
<1>11. /\ r.operators = Len(ops) /\ r.total_macs = Total(ops, Macs)
       /\ r.boundness = Classify(Total(ops, Macs), Total(ops, Bytes))
       /\ r.table = [i \in D |-> Class(ops[i])]
       /\ r.share = [c \in Classes |->
            MapThenSumSet(LAMBDA i : ops[i].macs, {i \in D : Class(ops[i]) = c})]
  BY <1>10 DEF AnalyzerReport
<1>12. QED
  BY <1>1, <1>3, <1>4, <1>6, <1>7, <1>8, <1>9, <1>10, <1>11 DEF AnalyzerSays

\* The report of the semantic attribution says what it should.
LEMMA SemanticReportSays ==
  ASSUME IsList(semantic_.ops)
  PROVE  SemanticSays(SemanticReport, semantic_)
<1>1. PICK r : r = SemanticReport
  OBVIOUS
<1>2. PICK ops : ops = semantic_.ops
  OBVIOUS
<1>0. IsList(ops)
  BY <1>2
<1>3. /\ r.operators = Len(semantic_.ops)
      /\ r.table = TableOf(semantic_)
      /\ r.module_only = ModuleOnly
  BY <1>1 DEF SemanticReport, TableOf
<1>4. r.with_source = Cardinality(Lined(semantic_))
  BY <1>1 DEF SemanticReport, Count, Lined
<1>5. r.unattributed = Cardinality(AtSite(semantic_, <<"unattributed">>))
  BY <1>1 DEF SemanticReport, Count, AtSite
<1>6. Sites = SitesOf(semantic_)
  BY DEF Sites, SitesOf
<1>7. r.source_sites = Cardinality({x \in SitesOf(semantic_) : x[1] = "line"})
  BY <1>1, <1>6 DEF SemanticReport
<1>8. r.expansion = [s \in Sites |-> Expansion(s)]
  BY <1>1 DEF SemanticReport
<1>9. ASSUME NEW x
      PROVE  Expansion(x).total = Cardinality(AtSite(semantic_, x))
  <2>1. PICK S : S = {op \in ToSet(ops) : Site(op) = x}
    OBVIOUS
  <2>2. PICK T : ops \in Seq(T) /\ T = {ops[k] : k \in DOMAIN ops}
    BY <1>0, ListFacts
  <2>3. Len(Among(ops, S)) = Cardinality({k \in DOMAIN ops : ops[k] \in S})
    BY <2>2, AmongFacts
  <2>4. \A k \in DOMAIN ops : ops[k] \in ToSet(ops)
    BY DEF ToSet
  <2>5. {k \in DOMAIN ops : ops[k] \in S} = AtSite(semantic_, x)
    BY <1>2, <2>1, <2>4 DEF AtSite
  <2>6. Expansion(x).total = Len(Among(ops, S))
    BY <1>2, <2>1 DEF Expansion
  <2>7. QED
    BY <2>3, <2>5, <2>6
<1>10. DOMAIN r.expansion = SitesOf(semantic_)
       /\ \A x \in SitesOf(semantic_) : r.expansion[x].total = Cardinality(AtSite(semantic_, x))
  BY <1>6, <1>8, <1>9
<1>11. ModuleOnly = IF Cardinality(InModule(semantic_)) > Cardinality(Lined(semantic_))
                    THEN Cardinality(InModule(semantic_)) - Cardinality(Lined(semantic_)) ELSE 0
  BY DEF ModuleOnly, Count, InModule, Lined
<1>12. QED
  BY <1>1, <1>3, <1>4, <1>5, <1>7, <1>10, <1>11 DEF SemanticSays

-----------------------------------------------------------------------------
(* The steps of the shutdown. *)

\* The memory proxy at work.
LEMMA MemoryWorkKeeps ==
  ASSUME ToolsInv, MemoryProxyWorks
  PROVE  ToolsInv'
<1>1. /\ MemInv /\ SessionInv /\ KeptInv /\ WrittenInv /\ ClosedInv
      /\ Closing("dataflow_memory_proxy")
      /\ OnShutdown \/ TableRow \/ TableDone \/ PeakTurn \/ SummaryDone
      /\ UNCHANGED sessionVars /\ hook' = hook /\ closing' = closing
      /\ UNCHANGED stateVars /\ written' = written
  BY DEF ToolsInv, MemoryProxyWorks
<1>2. MemInv'
  BY <1>1, MemorySteps DEF MemoryStep
<1>3. filtered_ops_' = filtered_ops_ /\ doing # "hooks"
  BY <1>1 DEF OnShutdown, TableRow, TableDone, PeakTurn, SummaryDone
<1>4. /\ workload' = workload /\ policy' = policy /\ tools' = tools
      /\ Chosen' = Chosen /\ RuntimeMetrics' = RuntimeMetrics /\ Samples' = Samples
      /\ \A t : Attached(t)' <=> Attached(t)
  BY <1>1, SessionRests
<1>5. samples_' = samples_ /\ analyzer_' = analyzer_ /\ semantic_' = semantic_
  BY <1>1 DEF stateVars
<1>6. hook = "OnShutdown" /\ Attached("dataflow_memory_proxy")
  BY <1>1, CloserFacts
<1>7. SessionInv'
  BY <1>1, <1>4 DEF SessionInv
<1>8. KeptInv'
  <2>1. Attached("dataflow_memory_proxy")' <=> Attached("dataflow_memory_proxy")
    BY <1>4
  <2>2. Attached("semantic_attribution")' <=> Attached("semantic_attribution")
    BY <1>4
  <2>3. hook' \notin Early
    BY <1>1, <1>6 DEF Early
  <2>4. filtered_ops_' = Chosen
    BY <1>1, <1>3 DEF KeptInv
  <2>5. QED
    BY <1>1, <1>3, <1>4, <1>5, <1>6, <2>1, <2>2, <2>3, <2>4 DEF KeptInv
<1>9. WrittenInv'
  BY <1>1, <1>4, <1>5 DEF WrittenInv, Has, Of
<1>10. ClosedInv'
  <2>1. /\ Has("overhead_profiler")' <=> Has("overhead_profiler")
        /\ Has("bundle")' <=> Has("bundle")
        /\ Of("overhead_profiler")' = Of("overhead_profiler") /\ Of("bundle")' = Of("bundle")
    BY <1>1 DEF Has, Of
  <2>2. Paired' <=> Paired
    BY <1>1, SessionRests
  <2>3. Attached("overhead_profiler")' <=> Attached("overhead_profiler")
    BY <1>4
  <2>4. QED
    BY <1>1, <1>4, <1>5, <2>1, <2>2, <2>3 DEF ClosedInv
<1>11. QED
  BY <1>2, <1>7, <1>8, <1>9, <1>10 DEF ToolsInv

\* The memory proxy reports, fails or has nothing to say.
LEMMA MemoryReportKeeps ==
  ASSUME ToolsInv, MemoryProxyReports
  PROVE  ToolsInv'
<1> DEFINE t == "dataflow_memory_proxy"
<1>1. /\ MemInv /\ KeptInv /\ Closing(t) /\ doing = "done"
      /\ IF Ops = << >> THEN HasNothing
         ELSE IF summary = << >> THEN hook' = "ended" /\ UNCHANGED <<closing, written>>
         ELSE NextTool /\ written' = [written EXCEPT !["dataflow_memory_proxy"] = summary]
      /\ UNCHANGED vars /\ UNCHANGED sessionVars /\ UNCHANGED stateVars
  BY DEF ToolsInv, MemoryProxyReports
<1>2. t \in Closers /\ t \in OpTools /\ t # "overhead_profiler"
      /\ t # "program_analyzer" /\ t # "semantic_attribution"
  BY DEF Closers, OpTools
<1>3. CASE Ops = << >>
  BY <1>1, <1>2, <1>3, NextKeeps DEF HasNothing
<1>4. CASE Ops # << >> /\ summary = << >>
  BY <1>1, <1>4, FailKeeps
<1>5. CASE Ops # << >> /\ summary # << >>
  <2>1. summary = <<SummaryOf(filtered_ops_, peak)>>
    BY <1>1, <1>5, SummaryFacts
  <2>2. PICK r : r = SummaryOf(filtered_ops_, peak)
    OBVIOUS
  <2>3. written' = [written EXCEPT ![t] = <<r>>] /\ NextTool
    BY <1>1, <1>5, <2>1, <2>2
  <2>4. r.operators = Len(Chosen)
    BY <1>1, <2>2 DEF SummaryOf, KeptInv
  <2>5. Tells(t, r)
    BY <1>2, <2>4 DEF Tells
  <2>6. QED
    BY <1>1, <1>2, <2>3, <2>5, NextKeeps
<1>6. QED
  BY <1>3, <1>4, <1>5

\* A tool reports what it should, or fails.
LEMMA ReportKeeps ==
  ASSUME ToolsInv, UNCHANGED vars, UNCHANGED sessionVars, UNCHANGED stateVars,
         NEW t \in Closers, Closing(t), NEW r, Tells(t, r), Report(t, r)
  PROVE  ToolsInv'
<1>1. CASE NextTool /\ written' = [written EXCEPT ![t] = <<r>>]
  BY <1>1, NextKeeps
<1>2. CASE hook' = "ended" /\ UNCHANGED <<closing, written>>
  BY <1>2, FailKeeps
<1>3. QED
  BY <1>1, <1>2 DEF Report

\* The overhead profiler reports, fails or has nothing to say.
LEMMA OverheadKeeps ==
  ASSUME ToolsInv, OverheadReports
  PROVE  ToolsInv'
<1> DEFINE t == "overhead_profiler"
<1>1. /\ KeptInv /\ Closing(t) /\ hook = "OnShutdown"
      /\ IF samples_ = << >> THEN HasNothing ELSE Report("overhead_profiler", OverheadReport)
      /\ UNCHANGED vars /\ UNCHANGED sessionVars /\ UNCHANGED stateVars
  BY DEF ToolsInv, OverheadReports, Closing
<1>2. t \in Closers /\ t \notin OpTools
  BY DEF Closers, OpTools
<1>3. CASE samples_ = << >>
  BY <1>1, <1>2, <1>3, NextKeeps DEF HasNothing
<1>4. CASE samples_ # << >>
  <2>1. samples_ = Samples
    BY <1>1 DEF KeptInv
  <2>2. Paired /\ samples_ = <<Sample(RuntimeMetrics)>>
    BY <1>4, <2>1 DEF Samples, Paired
  <2>3. OverheadReport.slowdown = Slowdown(Sample(RuntimeMetrics))
    <3>1. samples_[1] = Sample(RuntimeMetrics)
      BY <2>2
    <3>2. QED
      BY <3>1 DEF OverheadReport
  <2>4. PICK r : r = OverheadReport
    OBVIOUS
  <2>5. Tells(t, r)
    BY <1>2, <2>2, <2>3, <2>4 DEF Tells
  <2>6. QED
    BY <1>1, <1>2, <1>4, <2>4, <2>5, ReportKeeps
<1>5. QED
  BY <1>3, <1>4

\* The portability report is written, or fails.
LEMMA PortabilityKeeps ==
  ASSUME ToolsInv, PortabilityReports
  PROVE  ToolsInv'
<1> DEFINE t == "portability_report"
<1>1. /\ Closing(t) /\ Report("portability_report", PortabilityReport)
      /\ UNCHANGED vars /\ UNCHANGED sessionVars /\ UNCHANGED stateVars
  BY DEF PortabilityReports
<1>2. t \in Closers /\ t # "overhead_profiler" /\ t # "program_analyzer" /\ t # "semantic_attribution"
  BY DEF Closers, OpTools
<1>3. PICK r : r = PortabilityReport
  OBVIOUS
<1>4. r.operators = Len(Chosen)
  BY <1>3 DEF PortabilityReport, Chosen
<1>5. Tells(t, r)
  BY <1>2, <1>4 DEF Tells
<1>6. QED
  BY <1>1, <1>2, <1>3, <1>5, ReportKeeps

\* The operators a tool has kept are a list.
LEMMA ChosenList ==
  ASSUME SessionInv
  PROVE  IsList(Chosen) /\ WellFormed(Chosen)
  BY WorkloadFacts, ChosenFacts DEF Chosen

\* The analyzer reports, fails or has nothing to say.
LEMMA AnalyzerKeeps ==
  ASSUME ToolsInv, AnalyzerReports
  PROVE  ToolsInv'
<1> DEFINE t == "program_analyzer"
<1>1. /\ KeptInv /\ SessionInv /\ Closing(t)
      /\ IF analyzer_.ops = << >> THEN HasNothing ELSE Report("program_analyzer", AnalyzerReport)
      /\ UNCHANGED vars /\ UNCHANGED sessionVars /\ UNCHANGED stateVars
  BY DEF ToolsInv, AnalyzerReports
<1>2. t \in Closers /\ t # "overhead_profiler" /\ t # "semantic_attribution"
  BY DEF Closers, OpTools
<1>3. CASE analyzer_.ops = << >>
  BY <1>1, <1>2, <1>3, NextKeeps DEF HasNothing
<1>4. CASE analyzer_.ops # << >>
  <2>1. analyzer_.ops = Chosen
    BY <1>1, <1>4 DEF KeptInv
  <2>2. IsList(analyzer_.ops)
    BY <1>1, <2>1, ChosenList
  <2>3. PICK r : r = AnalyzerReport
    OBVIOUS
  <2>4. AnalyzerSays(r, analyzer_)
    BY <2>2, <2>3, AnalyzerReportSays
  <2>5. r.operators = Len(Chosen)
    BY <2>1, <2>4 DEF AnalyzerSays
  <2>6. Tells(t, r)
    BY <1>2, <1>4, <2>1, <2>4, <2>5 DEF Tells
  <2>7. QED
    BY <1>1, <1>2, <1>4, <2>3, <2>6, ReportKeeps
<1>5. QED
  BY <1>3, <1>4

\* The semantic attribution reports, fails or has nothing to say.
LEMMA SemanticKeeps ==
  ASSUME ToolsInv, SemanticReports
  PROVE  ToolsInv'
<1> DEFINE t == "semantic_attribution"
<1>1. /\ KeptInv /\ SessionInv /\ Closing(t) /\ hook = "OnShutdown"
      /\ IF semantic_.ops = << >> THEN HasNothing ELSE Report("semantic_attribution", SemanticReport)
      /\ UNCHANGED vars /\ UNCHANGED sessionVars /\ UNCHANGED stateVars
  BY DEF ToolsInv, SemanticReports, Closing
<1>2. t \in Closers /\ t # "overhead_profiler" /\ t # "program_analyzer"
  BY DEF Closers, OpTools
<1>3. CASE semantic_.ops = << >>
  BY <1>1, <1>2, <1>3, NextKeeps DEF HasNothing
<1>4. CASE semantic_.ops # << >>
  <2>1. semantic_.ops = Chosen /\ semantic_.metrics = FilterMetrics(policy, RuntimeMetrics)
    BY <1>1, <1>4 DEF KeptInv
  <2>2. IsList(semantic_.ops)
    BY <1>1, <2>1, ChosenList
  <2>3. PICK r : r = SemanticReport
    OBVIOUS
  <2>4. SemanticSays(r, semantic_)
    BY <2>2, <2>3, SemanticReportSays
  <2>5. r.operators = Len(Chosen)
    BY <2>1, <2>4 DEF SemanticSays
  <2>6. Tells(t, r)
    BY <1>2, <2>1, <2>4, <2>5 DEF Tells
  <2>7. QED
    BY <1>1, <1>2, <1>4, <2>3, <2>6, ReportKeeps
<1>5. QED
  BY <1>3, <1>4

\* The driver writes its own reports, or fails.
LEMMA BundleKeeps ==
  ASSUME ToolsInv, WriteBundleOutputs
  PROVE  ToolsInv'
<1>1. /\ MemInv /\ SessionInv /\ KeptInv /\ WrittenInv /\ ClosedInv
      /\ hook = "bundle" /\ hook' = "ended"
      /\ UNCHANGED vars /\ UNCHANGED sessionVars /\ closing' = closing /\ UNCHANGED stateVars
  BY DEF ToolsInv, WriteBundleOutputs
<1>2. UNCHANGED KeptVars
  BY <1>1 DEF stateVars, KeptVars
<1>3. CASE written' = written
  BY <1>1, <1>2, <1>3, HookKeeps
<1>4. CASE written' # written
  <2>1. PICK r : /\ written' = [written EXCEPT !["bundle"] = <<r>>]
                 /\ r.operators = Len(workload.ops)
                 /\ r.slowdown = IF Paired THEN <<Slowdown(Sample(RuntimeMetrics))>> ELSE << >>
    <3>1. PICK r : r = [operators |-> Len(workload.ops),
                        runtime_metrics |-> RuntimeMetrics,
                        slowdown |-> IF HasPair(RuntimeMetrics)
                                     THEN <<Slowdown(Sample(RuntimeMetrics))>> ELSE << >>]
      OBVIOUS
    <3>2. written' = [written EXCEPT !["bundle"] = <<r>>]
      BY <1>4, <3>1 DEF WriteBundleOutputs
    <3>3. r.operators = Len(workload.ops)
      BY <3>1
    <3>4. r.slowdown = IF Paired THEN <<Slowdown(Sample(RuntimeMetrics))>> ELSE << >>
      BY <3>1 DEF Paired
    <3>5. QED
      BY <3>2, <3>3, <3>4
  <2>2. DOMAIN written = Reports /\ "bundle" \in Reports
    BY <1>1, ReportsAre DEF SessionInv
  <2>3. written'["bundle"] = <<r>> /\ \A u \in Reports \ {"bundle"} : written'[u] = written[u]
    BY <2>1, <2>2
  <2>4. Of("bundle")' = r
    <3>1. <<r>>[1] = r
      OBVIOUS
    <3>2. QED
      BY <2>3, <3>1 DEF Of
  <2>5. MemInv' /\ filtered_ops_' = filtered_ops_ /\ doing' = doing
    BY <1>1, MemoryRests DEF vars
  <2>6. /\ workload' = workload /\ policy' = policy /\ tools' = tools
        /\ Chosen' = Chosen /\ RuntimeMetrics' = RuntimeMetrics /\ Samples' = Samples
        /\ \A t : Attached(t)' <=> Attached(t)
    BY <1>1, SessionRests
  <2>7. samples_' = samples_ /\ analyzer_' = analyzer_ /\ semantic_' = semantic_
    BY <1>1 DEF stateVars
  <2>8. SessionInv'
    BY <1>1, <2>1, <2>2, <2>6 DEF SessionInv, Late
  <2>9. KeptInv'
    <3>1. Attached("dataflow_memory_proxy")' <=> Attached("dataflow_memory_proxy")
      BY <2>6
    <3>2. Attached("semantic_attribution")' <=> Attached("semantic_attribution")
      BY <2>6
    <3>3. hook' \notin Early \cup Middle
      BY <1>1 DEF Early, Middle
    <3>4. QED
      BY <1>1, <2>5, <2>6, <2>7, <3>1, <3>2, <3>3 DEF KeptInv
  <2>10. ASSUME NEW u \in Reports \ {"bundle"}
         PROVE  (Has(u)' <=> Has(u)) /\ Of(u)' = Of(u) /\ written'[u] = written[u]
    <3>1. written'[u] = written[u]
      BY <2>3
    <3>2. QED
      BY <3>1 DEF Has, Of
  <2>11. {"dataflow_memory_proxy", "portability_report", "program_analyzer",
          "semantic_attribution", "overhead_profiler"} \subseteq Reports \ {"bundle"}
    BY ReportsAre
  <2>12. WrittenInv'
    <3>1. \A u \in Reports : Len(written'[u]) <= 1
      <4>1. Len(<<r>>) = 1
        OBVIOUS
      <4>2. Len(written'["bundle"]) <= 1
        BY <2>3, <4>1
      <4>3. \A u \in Reports \ {"bundle"} : Len(written'[u]) <= 1
        BY <1>1, <2>3 DEF WrittenInv
      <4>4. QED
        BY <4>2, <4>3
    <3>2. hook' \notin Early \cup Middle
      BY <1>1 DEF Early, Middle
    <3>3. /\ Has("dataflow_memory_proxy")' <=> Has("dataflow_memory_proxy")
          /\ Has("portability_report")' <=> Has("portability_report")
          /\ Has("program_analyzer")' <=> Has("program_analyzer")
          /\ Has("semantic_attribution")' <=> Has("semantic_attribution")
          /\ Of("dataflow_memory_proxy")' = Of("dataflow_memory_proxy")
          /\ Of("portability_report")' = Of("portability_report")
          /\ Of("program_analyzer")' = Of("program_analyzer")
          /\ Of("semantic_attribution")' = Of("semantic_attribution")
      BY <2>10, <2>11
    <3>4. QED
      BY <1>1, <2>6, <2>7, <3>1, <3>2, <3>3 DEF WrittenInv
  <2>13. ClosedInv'
    <3>1. hook' \notin Early \cup Middle \cup {"OnShutdown", "bundle"}
      BY <1>1 DEF Early, Middle
    <3>2. /\ Has("overhead_profiler")' <=> Has("overhead_profiler")
          /\ Of("overhead_profiler")' = Of("overhead_profiler")
      BY <2>10, <2>11
    <3>3. Paired' <=> Paired
      BY <1>1, SessionRests
    <3>4. Attached("overhead_profiler") /\ Paired => Has("overhead_profiler")
      <4>1. SUFFICES ASSUME Attached("overhead_profiler"), Paired
                     PROVE  Has("overhead_profiler")
        OBVIOUS
      <4>2. samples_ = Samples
        BY <1>1 DEF KeptInv
      <4>3. samples_ # << >>
        BY <4>1, <4>2 DEF Samples, Paired
      <4>4. PICK i \in DOMAIN tools : tools[i] = "overhead_profiler"
        BY <4>1 DEF Attached
      <4>5. i < closing
        <5>1. closing > Len(tools) /\ closing \in 1 .. Len(tools) + 1
          BY <1>1 DEF ClosedInv, SessionInv
        <5>2. DOMAIN tools = 1 .. Len(tools) /\ Len(tools) \in Nat
          BY <1>1, ListFacts DEF SessionInv
        <5>3. QED
          BY <5>1, <5>2
      <4>6. QED
        BY <1>1, <4>3, <4>4, <4>5 DEF ClosedInv
    <3>5. Attached("overhead_profiler")' <=> Attached("overhead_profiler")
      BY <2>6
    <3>6. QED
      BY <1>1, <2>1, <2>4, <2>6, <2>7, <3>1, <3>2, <3>3, <3>4, <3>5 DEF ClosedInv
  <2>14. QED
    BY <2>5, <2>8, <2>9, <2>12, <2>13 DEF ToolsInv
<1>5. QED
  BY <1>3, <1>4

\* Every step keeps the invariant.
LEMMA ToolsKeep ==
  ASSUME ToolsInv, [ToolsNext]_toolVars
  PROVE  ToolsInv'
<1>1. CASE UNCHANGED toolVars
  <2>1. /\ UNCHANGED vars /\ UNCHANGED sessionVars /\ closing' = closing /\ UNCHANGED KeptVars
        /\ written' = written /\ hook' = hook
    BY <1>1 DEF toolVars, stateVars, KeptVars
  <2>2. QED
    BY <2>1, HookKeeps
<1>2. CASE OnRegister
  <2>1. /\ UNCHANGED vars /\ UNCHANGED sessionVars /\ closing' = closing /\ UNCHANGED KeptVars
        /\ written' = written /\ hook \in Early /\ hook' \in Early \cup {"ended"}
    BY <1>2 DEF OnRegister, stateVars, KeptVars, Early
  <2>2. QED
    BY <2>1, HookKeeps
<1>3. CASE OnInit
  BY <1>3, InitKeeps
<1>4. CASE OnCompileBegin
  <2>1. /\ UNCHANGED vars /\ UNCHANGED sessionVars /\ closing' = closing /\ UNCHANGED KeptVars
        /\ written' = written /\ hook \in Early /\ hook' \in Early \cup {"ended"}
    BY <1>4 DEF OnCompileBegin, KeptVars, Early
  <2>2. QED
    BY <2>1, HookKeeps
<1>5. CASE OnCompileEndAll
  BY <1>5, CompileEndKeeps
<1>6. CASE OnLoadBegin
  <2>1. /\ UNCHANGED vars /\ UNCHANGED sessionVars /\ closing' = closing /\ UNCHANGED KeptVars
        /\ written' = written /\ hook \in Middle /\ hook' \in Middle
    BY <1>6 DEF OnLoadBegin, KeptVars, Middle
  <2>2. QED
    BY <2>1, HookKeeps
<1>7. CASE OnLoadEnd
  <2>1. /\ UNCHANGED vars /\ UNCHANGED sessionVars /\ closing' = closing /\ UNCHANGED KeptVars
        /\ written' = written /\ hook \in Middle /\ hook' \in Middle
    BY <1>7 DEF OnLoadEnd, KeptVars, Middle
  <2>2. QED
    BY <2>1, HookKeeps
<1>8. CASE OnRunBegin
  <2>1. /\ UNCHANGED vars /\ UNCHANGED sessionVars /\ closing' = closing /\ UNCHANGED KeptVars
        /\ written' = written /\ hook \in Middle /\ hook' \in Middle
    BY <1>8 DEF OnRunBegin, stateVars, KeptVars, Middle
  <2>2. QED
    BY <2>1, HookKeeps
<1>9. CASE OnRunEnd
  BY <1>9, RunEndKeeps
<1>10. CASE MemoryProxyWorks
  BY <1>10, MemoryWorkKeeps
<1>11. CASE MemoryProxyReports
  BY <1>11, MemoryReportKeeps
<1>12. CASE OverheadReports
  BY <1>12, OverheadKeeps
<1>13. CASE PortabilityReports
  BY <1>13, PortabilityKeeps
<1>14. CASE AnalyzerReports
  BY <1>14, AnalyzerKeeps
<1>15. CASE SemanticReports
  BY <1>15, SemanticKeeps
<1>16. CASE AllClosed
  <2>1. /\ UNCHANGED vars /\ UNCHANGED sessionVars /\ closing' = closing /\ UNCHANGED KeptVars
        /\ written' = written
        /\ hook = "OnShutdown" /\ closing > Len(tools) /\ hook' = "bundle"
    BY <1>16 DEF AllClosed, stateVars, KeptVars
  <2>2. QED
    BY <2>1, HookKeeps
<1>17. CASE WriteBundleOutputs
  BY <1>17, BundleKeeps
<1>18. QED
  BY <1>1, <1>2, <1>3, <1>4, <1>5, <1>6, <1>7, <1>8, <1>9, <1>10, <1>11, <1>12, <1>13, <1>14,
     <1>15, <1>16, <1>17 DEF ToolsNext

\* The invariant holds of every session.
THEOREM ToolsInvariant == ToolsSpec => []ToolsInv
<1>1. ToolsInit => ToolsInv
  BY ToolsStart
<1>2. ToolsInv /\ [ToolsNext]_toolVars => ToolsInv'
  BY ToolsKeep
<1>3. QED
  BY <1>1, <1>2, PTL DEF ToolsSpec

\* Every variable of the tools has its type, at every hook and in every part of
\* the shutdown.
THEOREM ToolsTypeCorrect == ToolsSpec => []ToolsTypeOK
<1>1. ToolsInv => ToolsTypeOK
  <2> SUFFICES ASSUME ToolsInv
               PROVE  ToolsTypeOK
    OBVIOUS
  <2>1. MemInv /\ SessionInv /\ KeptInv /\ WrittenInv
    BY DEF ToolsInv
  <2>2. MemoryTypeOK
    BY <2>1, MemoryTypes
  <2>3. QED
    BY <2>1, <2>2 DEF ToolsTypeOK, SessionInv, KeptInv, WrittenInv, Early, Middle, Late
<1>2. QED
  BY <1>1, ToolsInvariant, PTL

\* Whatever the session, if the graph the memory proxy was handed is in SSA form,
\* its distances and the number of stashed values are exact; its volumes are too
\* if every operator's adapter publishes the volume of its result.
THEOREM FiguresAreExact == ToolsSpec => []ReportIsExact
<1>1. ToolsInv => ReportIsExact
  BY ReportIs DEF ToolsInv
<1>2. QED
  BY <1>1, ToolsInvariant, PTL

\* And when it takes figures that may be larger, those of whole operators among
\* them, it never reports less than what is resident.
THEOREM ReportNeverShort == ToolsSpec => []ReportIsNeverShort
<1>1. ToolsInv => ReportIsNeverShort
  BY ReportCovers DEF ToolsInv
<1>2. QED
  BY <1>1, ToolsInvariant, PTL

\* Whatever the graph, either loop of the memory proxy's OnShutdown ends with
\* nothing held.
THEOREM NothingIsHeld == ToolsSpec => []BooksBalance
<1>1. ToolsInv => BooksBalance
  BY BooksDo DEF ToolsInv
<1>2. QED
  BY <1>1, ToolsInvariant, PTL

\* Whatever the graph, the summary of the memory proxy is that of its table,
\* although each is computed in a loop of its own.
THEOREM SummaryTellsTable == ToolsSpec => []SummaryAgreesWithTable
<1>1. ToolsInv => SummaryAgreesWithTable
  BY SummaryAgrees DEF ToolsInv
<1>2. QED
  BY <1>1, ToolsInvariant, PTL

-----------------------------------------------------------------------------
(* Sampling. *)

\* An operator the driver's policy has chosen keeps its metrics.
LEMMA ChosenIsEmitted ==
  ASSUME NEW options, NEW op, ShouldInstrument(BuildPolicy(options), op)
  PROVE  ShouldEmit(BuildPolicy(options), op.stable_id)
<1>1. CASE options.mode = "sampled"
  <2>1. BuildPolicy(options).mode = "sampled"
    BY <1>1 DEF BuildPolicy, DefaultPolicy
  <2>2. QED
    BY <2>1 DEF ShouldInstrument
<1>2. CASE options.mode # "sampled"
  <2>1. /\ BuildPolicy(options).sampling_ratio = Buckets
        /\ BuildPolicy(options).sampling_stride = 1
    <3>1. CASE options.mode = "selective"
      BY <3>1 DEF BuildPolicy, DefaultPolicy
    <3>2. CASE options.mode # "selective"
      BY <1>2, <3>2 DEF BuildPolicy, DefaultPolicy
    <3>3. QED
      BY <3>1, <3>2
  <2>2. Buckets > 0 /\ Buckets >= Buckets /\ ~(1 > 1)
    BY PolicyAssumption
  <2>3. QED
    BY <2>1, <2>2 DEF ShouldEmit
<1>3. QED
  BY <1>1, <1>2

\* With the policy the driver builds, sampling never separates an operator in
\* the semantic attribution from the metrics measured of it, whatever the hash.
THEOREM AttributionIsWhole == ToolsSpec => []AttributionIsNotFiltered
<1>1. ToolsInv => AttributionIsNotFiltered
  <2> SUFFICES ASSUME ToolsInv, Has("semantic_attribution"),
                      policy = BuildPolicy(workload.options),
                      NEW i \in DOMAIN Of("semantic_attribution").table
               PROVE  Of("semantic_attribution").table[i].runtime_attributed
                        <=> Of("semantic_attribution").table[i].stable_id \in Observed(RuntimeMetrics)
    BY DEF AttributionIsNotFiltered
  <2>1. /\ semantic_.ops = Chosen /\ semantic_.metrics = FilterMetrics(policy, RuntimeMetrics)
        /\ SemanticSays(Of("semantic_attribution"), semantic_) /\ SessionInv
    BY DEF ToolsInv, WrittenInv
  <2>2. Of("semantic_attribution").table = TableOf(semantic_)
    BY <2>1 DEF SemanticSays
  <2>3. i \in DOMAIN Chosen
    BY <2>1, <2>2 DEF TableOf
  <2>4. PICK id : id = Chosen[i].stable_id
    OBVIOUS
  <2>5. /\ Of("semantic_attribution").table[i].stable_id = id
        /\ Of("semantic_attribution").table[i].runtime_attributed
             = (id \in Observed(semantic_.metrics))
    BY <2>1, <2>2, <2>3, <2>4 DEF TableOf
  <2>6. ShouldEmit(policy, id)
    <3>1. Chosen[i] \in ToSet(Chosen)
      BY <2>3 DEF ToSet
    <3>2. ToSet(Chosen) = {op \in ToSet(workload.ops) : ShouldInstrument(policy, op)}
      BY <2>1, WorkloadFacts, ChosenFacts DEF Chosen
    <3>3. ShouldInstrument(policy, Chosen[i])
      BY <3>1, <3>2
    <3>4. QED
      BY <2>4, <3>3, ChosenIsEmitted
  <2>7. PICK ms : ms = RuntimeMetrics
    OBVIOUS
  <2>8. PICK kept : kept = FilterMetrics(policy, ms)
    OBVIOUS
  <2>9. ToSet(kept) = {m \in ToSet(ms) : m.stable_id = 0 \/ ShouldEmit(policy, m.stable_id)}
    BY <2>1, <2>7, <2>8, RuntimeList, MetricsFacts
  <2>10. \A s : Observed(s) = {m.stable_id : m \in ToSet(s)} \ {0}
    BY DEF Observed, ToSet
  <2>11. id \in Observed(kept) <=> id \in Observed(ms)
    BY <2>6, <2>9, <2>10
  <2>12. QED
    BY <2>1, <2>5, <2>7, <2>8, <2>11
<1>2. QED
  BY <1>1, ToolsInvariant, PTL

\* Every tool reports as many operators as were chosen.
LEMMA OperatorsAgree ==
  ASSUME ToolsInv, NEW t \in OpTools, Has(t)
  PROVE  Of(t).operators = Len(Chosen)
<1>1. WrittenInv
  BY DEF ToolsInv
<1>2. \/ t = "dataflow_memory_proxy" \/ t = "portability_report"
      \/ t = "program_analyzer" \/ t = "semantic_attribution"
  BY DEF OpTools
<1>3. CASE t = "dataflow_memory_proxy"
  BY <1>1, <1>3 DEF WrittenInv
<1>4. CASE t = "portability_report"
  BY <1>1, <1>4 DEF WrittenInv
<1>5. CASE t = "program_analyzer"
  BY <1>1, <1>5 DEF WrittenInv, AnalyzerSays
<1>6. CASE t = "semantic_attribution"
  BY <1>1, <1>6 DEF WrittenInv, SemanticSays
<1>7. QED
  BY <1>2, <1>3, <1>4, <1>5, <1>6

\* A site that is a line, a module or neither.
LEMMA SiteIs ==
  ASSUME NEW op
  PROVE  /\ Site(op) = <<"unattributed">> <=> op.src = "" /\ op.module_path = ""
         /\ Site(op)[1] = "line" <=> op.src # ""
<1>1. CASE op.src # ""
  <2>1. PICK x : x = op.src
    OBVIOUS
  <2>2. Site(op) = <<"line", x>>
    BY <1>1, <2>1 DEF Site
  <2>3. <<"line", x>> # <<"unattributed">> /\ <<"line", x>>[1] = "line"
    <3>1. Len(<<"line", x>>) = 2 /\ Len(<<"unattributed">>) = 1
      OBVIOUS
    <3>2. QED
      BY <3>1
  <2>4. QED
    BY <1>1, <2>2, <2>3
<1>2. CASE op.src = "" /\ op.module_path # ""
  <2>1. PICK x : x = op.module_path
    OBVIOUS
  <2>2. Site(op) = <<"module", x>>
    BY <1>2, <2>1 DEF Site
  <2>3. <<"module", x>> # <<"unattributed">> /\ <<"module", x>>[1] # "line"
    <3>1. Len(<<"module", x>>) = 2 /\ Len(<<"unattributed">>) = 1
      OBVIOUS
    <3>2. <<"module", x>>[1] = "module"
      OBVIOUS
    <3>3. QED
      BY <3>1, <3>2
  <2>4. QED
    BY <1>2, <2>2, <2>3
<1>3. CASE op.src = "" /\ op.module_path = ""
  <2>1. Site(op) = <<"unattributed">>
    BY <1>3 DEF Site
  <2>2. <<"unattributed">>[1] = "unattributed"
    OBVIOUS
  <2>3. QED
    BY <1>3, <2>1, <2>2
<1>4. QED
  BY <1>1, <1>2, <1>3

\* The difference of two counts, if it is not negative, and the rest.
LEMMA ThreeParts ==
  ASSUME NEW a \in Nat, NEW b \in Nat, NEW c \in Nat, a <= b
  PROVE  a + (IF b > a THEN b - a ELSE 0) + (c - b) = c
  OBVIOUS

\* A line, a module only or neither accounts for every operator.
LEMMA PlacesAdd ==
  ASSUME NEW s, IsList(s.ops), NEW r, SemanticSays(r, s),
         \A i \in DOMAIN s.ops : s.ops[i].src # "" => s.ops[i].module_path # ""
  PROVE  r.with_source + r.module_only + r.unattributed = r.operators
<1>1. PICK D : D = DOMAIN s.ops
  OBVIOUS
<1>2. PICK L : L = Lined(s)
  OBVIOUS
<1>3. PICK M : M = InModule(s)
  OBVIOUS
<1>4. PICK N : N = AtSite(s, <<"unattributed">>)
  OBVIOUS
<1>5. L \subseteq M /\ M \subseteq D /\ N = D \ M
  <2>1. L \subseteq M /\ M \subseteq D
    BY <1>1, <1>2, <1>3 DEF Lined, InModule
  <2>2. N = D \ M
    <3>1. \A i \in D : i \in N <=> s.ops[i].src = "" /\ s.ops[i].module_path = ""
      BY <1>1, <1>4, SiteIs DEF AtSite
    <3>2. \A i \in D : i \in M <=> s.ops[i].module_path # ""
      BY <1>1, <1>3 DEF InModule
    <3>3. N \subseteq D
      BY <1>1, <1>4 DEF AtSite
    <3>4. \A i \in D : s.ops[i].src # "" => s.ops[i].module_path # ""
      BY <1>1
    <3>5. \A i : i \in N <=> i \in D /\ i \notin M
      BY <3>1, <3>2, <3>3, <3>4
    <3>6. QED
      BY <3>5
  <2>3. QED
    BY <2>1, <2>2
<1>6. IsFiniteSet(D) /\ Cardinality(D) = Len(s.ops) /\ Len(s.ops) \in Nat
  BY <1>1, PositionsFinite
<1>7. IsFiniteSet(M) /\ IsFiniteSet(L) /\ Cardinality(L) <= Cardinality(M)
  BY <1>5, <1>6, FS_Subset
<1>8. PICK nl \in Nat : nl = Cardinality(L)
  BY <1>7, FS_CardinalityType
<1>9. PICK nm \in Nat : nm = Cardinality(M)
  BY <1>7, FS_CardinalityType
<1>10. Cardinality(D \ M) = Cardinality(D) - Cardinality(D \cap M) /\ D \cap M = M
  BY <1>5, <1>6, FS_Difference
<1>11. Cardinality(N) = Len(s.ops) - nm
  BY <1>5, <1>6, <1>9, <1>10
<1>12. PICK nn \in Nat : nn = Len(s.ops)
  BY <1>6
<1>13. /\ r.operators = nn /\ r.with_source = nl /\ r.unattributed = nn - nm
       /\ r.module_only = IF nm > nl THEN nm - nl ELSE 0
  BY <1>2, <1>3, <1>4, <1>8, <1>9, <1>11, <1>12 DEF SemanticSays
<1>14. nl <= nm
  BY <1>7, <1>8, <1>9
<1>15. nl + (IF nm > nl THEN nm - nl ELSE 0) + (nn - nm) = nn
  BY <1>14, ThreeParts
<1>16. QED
  BY <1>13, <1>15

\* There are finitely many sites, and no more lines than operators with one.
LEMMA SitesFinite ==
  ASSUME NEW s, IsList(s.ops)
  PROVE  /\ IsFiniteSet(SitesOf(s))
         /\ Cardinality({x \in SitesOf(s) : x[1] = "line"}) <= Cardinality(Lined(s))
<1>1. PICK D : D = DOMAIN s.ops
  OBVIOUS
<1>2. IsFiniteSet(D)
  BY <1>1, PositionsFinite
<1>3. PICK h : h = [i \in D |-> Site(s.ops[i])]
  OBVIOUS
<1>4. SitesOf(s) = {h[i] : i \in D}
  BY <1>1, <1>3 DEF SitesOf
<1>5. IsFiniteSet(SitesOf(s))
  <2>1. PICK I : I = SitesOf(s)
    OBVIOUS
  <2>2. h \in Surjection(D, I)
    BY <1>3, <1>4, <2>1 DEF Surjection
  <2>3. QED
    BY <1>2, <2>1, <2>2, FS_Surjection
<1>6. PICK L : L = Lined(s)
  OBVIOUS
<1>7. L \subseteq D /\ IsFiniteSet(L)
  BY <1>1, <1>2, <1>6, FS_Subset DEF Lined
<1>8. PICK I : I = {x \in SitesOf(s) : x[1] = "line"}
  OBVIOUS
<1>9. \A i \in D : h[i][1] = "line" <=> i \in L
  <2>1. \A i \in D : h[i] = Site(s.ops[i])
    BY <1>3
  <2>2. \A i \in D : Site(s.ops[i])[1] = "line" <=> s.ops[i].src # ""
    BY SiteIs
  <2>3. \A i \in D : i \in L <=> s.ops[i].src # ""
    BY <1>1, <1>6 DEF Lined
  <2>4. QED
    BY <2>1, <2>2, <2>3
<1>10. I = {h[i] : i \in L}
  <2>1. \A x : x \in I <=> (\E i \in D : x = h[i]) /\ x[1] = "line"
    BY <1>4, <1>8
  <2>2. \A x : x \in I <=> \E i \in L : x = h[i]
    BY <1>7, <1>9, <2>1
  <2>3. QED
    BY <2>2
<1>11. PICK g : g = [i \in L |-> h[i]]
  OBVIOUS
<1>12. g \in Surjection(L, I)
  BY <1>10, <1>11 DEF Surjection
<1>13. Cardinality(I) <= Cardinality(L)
  BY <1>7, <1>12, FS_Surjection
<1>14. QED
  BY <1>5, <1>6, <1>8, <1>13

\* The totals of the sites.
LEMMA TotalsAdd ==
  ASSUME NEW r, NEW K, IsFiniteSet(K)
  PROVE  MapThenSumSet(LAMBDA k : r.expansion[k].total, K)
           = SumOver([k \in K |-> r.expansion[k].total], K)
<1> DEFINE f == [k \in K |-> r.expansion[k].total]
           G == CHOOSE g : g = [T \in SUBSET K |->
                   IF T = {} THEN 0 ELSE r.expansion[Picked(T)].total + g[T \ {Picked(T)}]]
<1>0. \A k \in K : f[k] = r.expansion[k].total
  OBVIOUS
<1> HIDE DEF f
<1>1. ASSUME NEW g
      PROVE  (g = [T \in SUBSET K |->
                   IF T = {} THEN 0 ELSE r.expansion[Picked(T)].total + g[T \ {Picked(T)}]])
               <=> SumsTo(g, f, K)
  <2>1. \A T \in SUBSET K : T # {} => f[Picked(T)] = r.expansion[Picked(T)].total
    BY <1>0, PickedIn
  <2>2. [T \in SUBSET K |-> IF T = {} THEN 0 ELSE r.expansion[Picked(T)].total + g[T \ {Picked(T)}]]
        = [T \in SUBSET K |-> IF T = {} THEN 0 ELSE f[Picked(T)] + g[T \ {Picked(T)}]]
    BY <2>1
  <2>3. QED
    BY <2>2 DEF SumsTo
<1>2. SumsTo(G, f, K)
  <2>1. \E g : SumsTo(g, f, K)
    BY SumsExist
  <2>2. QED
    BY <1>1, <2>1
<1>3. MapThenSumSet(LAMBDA k : r.expansion[k].total, K) = G[K]
  BY DEF MapThenSumSet, MapThenFoldSet, Picked
<1>4. G[K] = SumOver(f, K)
  <2> HIDE DEF G
  <2>1. K \in SUBSET K
    OBVIOUS
  <2>2. QED
    BY <1>2, <2>1, SumsHold, SumsAgree DEF SumOver
<1>5. QED
  BY <1>3, <1>4 DEF f

\* The sites account for every operator.
LEMMA SitesAdd ==
  ASSUME NEW s, IsList(s.ops), NEW r, SemanticSays(r, s)
  PROVE  /\ MapThenSumSet(LAMBDA k : r.expansion[k].total, DOMAIN r.expansion) = r.operators
         /\ r.source_sites <= r.with_source
<1>1. PICK D : D = DOMAIN s.ops
  OBVIOUS
<1>2. IsFiniteSet(D) /\ Cardinality(D) = Len(s.ops)
      /\ \A T \in SUBSET D : IsFiniteSet(T)
  BY <1>1, PositionsFinite
<1>3. PICK K : K = SitesOf(s)
  OBVIOUS
<1>4. IsFiniteSet(K) /\ DOMAIN r.expansion = K
  BY <1>3, SitesFinite DEF SemanticSays
<1>5. PICK f : f = [i \in D |-> 1]
  OBVIOUS
<1>6. SumOver(f, D) = Len(s.ops)
  BY <1>2, <1>5, SumOfOnes
<1>7. PICK class : class = [i \in D |-> Site(s.ops[i])]
  OBVIOUS
<1>8. \A i \in D : class[i] \in K
  BY <1>1, <1>3, <1>7 DEF SitesOf
<1>9. PICK e : e = [k \in K |-> r.expansion[k].total]
  OBVIOUS
<1>0. PICK part : part = [k \in K |-> {i \in D : class[i] = k}]
  OBVIOUS
<1>10. ASSUME NEW k \in K
       PROVE  e[k] = SumOver(f, part[k])
  <2>1. PICK T : T = part[k] /\ T = {i \in D : class[i] = k}
    BY <1>0
  <2>2. T = AtSite(s, k)
    BY <1>1, <1>7, <2>1 DEF AtSite
  <2>3. T \in SUBSET D /\ IsFiniteSet(T)
    BY <1>2, <2>1
  <2>4. \A i \in T : f[i] = 1
    BY <1>5, <2>3
  <2>5. SumOver(f, T) = Cardinality(T)
    BY <2>3, <2>4, SumOfOnes
  <2>6. e[k] = Cardinality(AtSite(s, k))
    BY <1>3, <1>9 DEF SemanticSays
  <2>7. QED
    BY <2>1, <2>2, <2>5, <2>6
<1>11. \A i \in D : f[i] \in Int
  BY <1>5
<1>12. SumOver(e, K) = SumOver(f, D)
  <2>1. \A k \in K : e[k] = SumOver(f, part[k]) /\ part[k] = {i \in D : class[i] = k}
    BY <1>0, <1>10
  <2>2. IsFiniteSet(D) /\ IsFiniteSet(K)
    BY <1>2, <1>4
  <2>3. QED
    BY <1>8, <1>11, <2>1, <2>2, SumByClass
<1>13. MapThenSumSet(LAMBDA k : r.expansion[k].total, K) = SumOver(e, K)
  BY <1>4, <1>9, TotalsAdd
<1>14. MapThenSumSet(LAMBDA k : r.expansion[k].total, DOMAIN r.expansion) = r.operators
  BY <1>4, <1>6, <1>12, <1>13 DEF SemanticSays
<1>15. r.source_sites <= r.with_source
  BY SitesFinite DEF SemanticSays
<1>16. QED
  BY <1>14, <1>15

\* The sign of a combination of two sums is that of the combinations of the
\* summands, if these agree.
LEMMA SignOfSums ==
  ASSUME NEW S, IsFiniteSet(S), NEW f, NEW g, \A x \in S : f[x] \in Int /\ g[x] \in Int,
         NEW c \in Int, NEW d \in Int
  PROVE  /\ (\A x \in S : c * f[x] - d * g[x] >= 0) => c * SumOver(f, S) - d * SumOver(g, S) >= 0
         /\ (S # {} /\ \A x \in S : c * f[x] - d * g[x] > 0)
              => c * SumOver(f, S) - d * SumOver(g, S) > 0
<1>1. PICK h : h = Linear(S, f, g, c, d) /\ h = [x \in S |-> c * f[x] - d * g[x]]
  BY DEF Linear
<1>2. \A x \in S : h[x] = c * f[x] - d * g[x]
  BY <1>1
<1>3. \A x \in S : h[x] \in Int
  BY <1>2
<1>4. \A x \in S : f[x] \in Int /\ g[x] \in Int /\ h[x] = c * f[x] - d * g[x]
  BY <1>2
<1>5. SumOver(h, S) = c * SumOver(f, S) - d * SumOver(g, S)
  <2>1. SumOver(Linear(S, f, g, c, d), S) = c * SumOver(f, S) - d * SumOver(g, S)
    BY ONLY SumLinear, IsFiniteSet(S), \A x \in S : f[x] \in Int /\ g[x] \in Int, c \in Int, d \in Int
  <2>2. QED
    BY <1>1, <2>1
<1>6. PICK total : total = c * SumOver(f, S) - d * SumOver(g, S)
  OBVIOUS
<1>7. (\A x \in S : h[x] >= 0) => SumOver(h, S) >= 0
  <2>1. SUFFICES ASSUME \A x \in S : h[x] >= 0
                 PROVE  SumOver(h, S) >= 0
    OBVIOUS
  <2>2. \A x \in S : h[x] \in Nat
    BY <1>3, <2>1
  <2>3. SumOver(h, S) \in Nat
    BY <2>2, SumIsNat
  <2>4. QED
    BY <2>3
<1>8. (S # {} /\ \A x \in S : h[x] > 0) => SumOver(h, S) > 0
  BY <1>3, SumIsPositive
<1>9. QED
  BY <1>2, <1>5, <1>7, <1>8

\* Products of integers, for the provers.
LEMMA Products ==
  ASSUME NEW m \in Int, NEW b \in Int, NEW P \in Int, NEW B \in Int
  PROVE  /\ 2 * m * B = 2 * B * m /\ m * B = B * m
         /\ m * B \in Int /\ P * b \in Int /\ 2 * B \in Int /\ 2 * P \in Int
         /\ 2 * B * m = 2 * (B * m) /\ 2 * P * b = 2 * (P * b)
         /\ (P > 0 /\ b > 0 => P * b > 0)
  BY Z3

\* The class of an operator with bytes, on a machine with peaks.
LEMMA BoundnessIs ==
  ASSUME NEW a, a.peak_macs \in Int, a.peak_bw \in Int, a.peak_macs > 0, a.peak_bw > 0,
         NEW m \in Int, NEW b \in Int, b > 0
  PROVE  /\ Boundness(a, m, b) \in {"memory", "compute", "balanced"}
         /\ Boundness(a, m, b) = "memory" <=> ~(2 * a.peak_bw * m - a.peak_macs * b >= 0)
         /\ Boundness(a, m, b) = "memory" <=> a.peak_macs * b - 2 * a.peak_bw * m > 0
         /\ Boundness(a, m, b) = "compute" <=> a.peak_bw * m - 2 * a.peak_macs * b > 0
         /\ Boundness(a, m, b) = "compute" <=> ~(2 * a.peak_macs * b - a.peak_bw * m >= 0)
<1>1. PICK P \in Int : P = a.peak_macs /\ P > 0
  OBVIOUS
<1>2. PICK B \in Int : B = a.peak_bw /\ B > 0
  OBVIOUS
<1>3. PICK X \in Int : X = B * m
  BY <1>2
<1>4. PICK Y \in Int : Y = P * b
  BY <1>1
<1>5. /\ 2 * m * B = 2 * X /\ m * B = X /\ 2 * B * m = 2 * X /\ 2 * P * b = 2 * Y /\ Y > 0
  BY <1>1, <1>2, <1>3, <1>4, Products
<1>6. Boundness(a, m, b)
        = IF 2 * X < Y THEN "memory" ELSE IF X > 2 * Y THEN "compute" ELSE "balanced"
  <2>1. ~(P <= 0 \/ B <= 0) /\ ~(b <= 0)
    BY <1>1, <1>2
  <2>2. Boundness(a, m, b)
          = IF P <= 0 \/ B <= 0 THEN "unknown"
            ELSE IF b <= 0 \/ 2 * m * B < P * b THEN "memory"
            ELSE IF m * B > 2 * P * b THEN "compute" ELSE "balanced"
    BY <1>1, <1>2 DEF Boundness
  <2>3. QED
    BY <1>4, <1>5, <2>1, <2>2
<1>7. 2 * X < Y => ~(X > 2 * Y)
  BY <1>5
<1>8. /\ (2 * X < Y <=> ~(2 * X - Y >= 0)) /\ (2 * X < Y <=> Y - 2 * X > 0)
      /\ (X > 2 * Y <=> X - 2 * Y > 0) /\ (X > 2 * Y <=> ~(2 * Y - X >= 0))
  OBVIOUS
<1>9. PICK k : k = Boundness(a, m, b)
  OBVIOUS
<1>10. /\ k \in {"memory", "compute", "balanced"}
       /\ (k = "memory" <=> 2 * X < Y) /\ (k = "compute" <=> X > 2 * Y)
  BY <1>6, <1>7, <1>9
<1>11. QED
  BY <1>1, <1>2, <1>3, <1>4, <1>5, <1>8, <1>9, <1>10

\* The shares of the classes.
LEMMA SharesAdd ==
  ASSUME NEW r, IsFiniteSet(Classes)
  PROVE  MapThenSumSet(LAMBDA c : r.share[c], Classes)
           = SumOver([c \in Classes |-> r.share[c]], Classes)
<1> DEFINE f == [c \in Classes |-> r.share[c]]
           G == CHOOSE g : g = [T \in SUBSET Classes |->
                   IF T = {} THEN 0 ELSE r.share[Picked(T)] + g[T \ {Picked(T)}]]
<1>0. \A c \in Classes : f[c] = r.share[c]
  OBVIOUS
<1> HIDE DEF f
<1>1. ASSUME NEW g
      PROVE  (g = [T \in SUBSET Classes |->
                   IF T = {} THEN 0 ELSE r.share[Picked(T)] + g[T \ {Picked(T)}]])
               <=> SumsTo(g, f, Classes)
  <2>1. \A T \in SUBSET Classes : T # {} => f[Picked(T)] = r.share[Picked(T)]
    BY <1>0, PickedIn
  <2>2. [T \in SUBSET Classes |-> IF T = {} THEN 0 ELSE r.share[Picked(T)] + g[T \ {Picked(T)}]]
        = [T \in SUBSET Classes |-> IF T = {} THEN 0 ELSE f[Picked(T)] + g[T \ {Picked(T)}]]
    BY <2>1
  <2>3. QED
    BY <2>2 DEF SumsTo
<1>2. SumsTo(G, f, Classes)
  <2>1. \E g : SumsTo(g, f, Classes)
    BY SumsExist
  <2>2. QED
    BY <1>1, <2>1
<1>3. MapThenSumSet(LAMBDA c : r.share[c], Classes) = G[Classes]
  BY DEF MapThenSumSet, MapThenFoldSet, Picked
<1>4. G[Classes] = SumOver(f, Classes)
  <2> HIDE DEF G
  <2>1. Classes \in SUBSET Classes
    OBVIOUS
  <2>2. QED
    BY <1>2, <2>1, SumsHold, SumsAgree DEF SumOver
<1>5. QED
  BY <1>3, <1>4 DEF f

\* What an operator list of the program holds.
Counted(a) ==
  /\ IsList(a.ops) /\ a.peak_macs \in Int /\ a.peak_bw \in Int
  /\ \A i \in DOMAIN a.ops : a.ops[i].macs \in Int /\ a.ops[i].estimated_bytes \in Int

\* The shares make up all macs.
LEMMA AnalyzerAdds ==
  ASSUME NEW a, Counted(a), NEW r, AnalyzerSays(r, a)
  PROVE  MapThenSumSet(LAMBDA c : r.share[c], Classes) = r.total_macs
<1>1. PICK D : D = DOMAIN a.ops
  OBVIOUS
<1>2. IsFiniteSet(D)
  BY <1>1, PositionsFinite DEF Counted
<1>3. IsFiniteSet(Classes)
  <2>1. IsFiniteSet({"unknown"} \cup {"memory"}) /\ IsFiniteSet({"balanced"} \cup {"compute"})
    BY FS_Singleton, FS_Union
  <2>2. IsFiniteSet(({"unknown"} \cup {"memory"}) \cup ({"balanced"} \cup {"compute"}))
    BY <2>1, FS_Union
  <2>3. Classes = ({"unknown"} \cup {"memory"}) \cup ({"balanced"} \cup {"compute"})
    BY DEF Classes
  <2>4. QED
    BY <2>2, <2>3
<1>4. PICK K : K = Classes
  OBVIOUS
<1>5. PICK f : f = MacsOf(a)
  OBVIOUS
<1>6. \A i \in D : f[i] \in Int
  BY <1>1, <1>5 DEF MacsOf, Counted
<1>7. PICK class : class = [i \in D |-> Boundness(a, a.ops[i].macs, a.ops[i].estimated_bytes)]
  OBVIOUS
<1>8. \A i \in D : class[i] \in K
  BY <1>4, <1>7 DEF Boundness, Classes
<1>9. PICK part : part = [c \in K |-> InClass(a, c)]
  OBVIOUS
<1>10. \A c \in K : part[c] = {i \in D : class[i] = c}
  BY <1>1, <1>7, <1>9 DEF InClass
<1>11. PICK e : e = [c \in K |-> r.share[c]]
  OBVIOUS
<1>12. \A c \in K : e[c] = SumOver(f, part[c])
  BY <1>4, <1>5, <1>9, <1>11 DEF AnalyzerSays
<1>13. IsFiniteSet(K)
  BY <1>3, <1>4
<1>14. SumOver(e, K) = SumOver(f, D)
  BY <1>2, <1>6, <1>8, <1>10, <1>12, <1>13, SumByClass
<1>15. MapThenSumSet(LAMBDA c : r.share[c], Classes) = SumOver(e, Classes)
  BY <1>3, <1>4, <1>11, SharesAdd
<1>16. QED
  BY <1>1, <1>4, <1>5, <1>14, <1>15 DEF AnalyzerSays

\* The class of the program lies among those of its operators.
LEMMA ClassesBound ==
  ASSUME NEW a, Counted(a), a.ops # << >>, NEW r, AnalyzerSays(r, a),
         \A i \in DOMAIN a.ops : a.ops[i].estimated_bytes > 0
  PROVE  /\ \E i \in DOMAIN r.table : Rank(r.table[i]) <= Rank(r.boundness)
         /\ \E i \in DOMAIN r.table : Rank(r.table[i]) >= Rank(r.boundness)
<1>1. PICK D : D = DOMAIN a.ops
  OBVIOUS
<1>2. IsFiniteSet(D) /\ 1 \in D
  BY <1>1, PositionsFinite, ListFacts DEF Counted
<1>3. PICK f : f = MacsOf(a)
  OBVIOUS
<1>4. PICK g : g = BytesOf(a)
  OBVIOUS
<1>5. \A i \in D : f[i] = a.ops[i].macs /\ f[i] \in Int /\ g[i] = a.ops[i].estimated_bytes /\ g[i] \in Int /\ g[i] > 0
  BY <1>1, <1>3, <1>4 DEF MacsOf, BytesOf, Counted
<1>6. PICK F : F = SumOver(f, D)
  OBVIOUS
<1>7. PICK G : G = SumOver(g, D)
  OBVIOUS
<1>8. F \in Int /\ G \in Int /\ G > 0
  <2>1. D # {}
    BY <1>2
  <2>2. G > 0
    BY <1>2, <1>5, <1>7, <2>1, SumIsPositive
  <2>3. F \in Int /\ G \in Int
    BY <1>2, <1>5, <1>6, <1>7, SumIsInt
  <2>4. QED
    BY <2>2, <2>3
<1>9. PICK t : t = r.table
  OBVIOUS
<1>10. PICK k : k = r.boundness
  OBVIOUS
<1>11. DOMAIN t = D /\ \A i \in D : t[i] = Boundness(a, f[i], g[i])
  BY <1>1, <1>5, <1>9 DEF AnalyzerSays
<1>12. k = Boundness(a, F, G)
  BY <1>1, <1>3, <1>4, <1>6, <1>7, <1>10 DEF AnalyzerSays
<1>13. Rank("unknown") = 0 /\ Rank("memory") = 1 /\ Rank("balanced") = 2 /\ Rank("compute") = 3
  BY DEF Rank
<1>14. CASE a.peak_macs <= 0 \/ a.peak_bw <= 0
  <2>1. \A m, b : Boundness(a, m, b) = "unknown"
    BY <1>14 DEF Boundness
  <2>2. t[1] = k
    BY <1>2, <1>11, <1>12, <2>1
  <2>3. Rank(t[1]) <= Rank(k) /\ Rank(t[1]) >= Rank(k)
    BY <1>2, <1>11, <1>12, <1>13, <2>1
  <2>4. QED
    BY <1>2, <1>9, <1>10, <1>11, <2>3
<1>15. CASE a.peak_macs > 0 /\ a.peak_bw > 0
  <2>1. a.peak_macs \in Int /\ a.peak_bw \in Int
    BY DEF Counted
  <2>2. PICK P \in Int : P = a.peak_macs
    BY <2>1
  <2>3. PICK B \in Int : B = a.peak_bw
    BY <2>1
  <2>4. PICK cb \in Int : cb = 2 * B
    BY <2>3
  <2>5. PICK cp \in Int : cp = 2 * P
    BY <2>2
  <2>6. ASSUME NEW m \in Int, NEW b \in Int, b > 0
        PROVE  /\ Boundness(a, m, b) \in {"memory", "compute", "balanced"}
               /\ Boundness(a, m, b) = "memory" <=> ~(cb * m - P * b >= 0)
               /\ Boundness(a, m, b) = "memory" <=> P * b - cb * m > 0
               /\ Boundness(a, m, b) = "compute" <=> B * m - cp * b > 0
               /\ Boundness(a, m, b) = "compute" <=> ~(cp * b - B * m >= 0)
    BY <1>15, <2>1, <2>2, <2>3, <2>4, <2>5, <2>6, BoundnessIs
  <2>7. /\ k \in {"memory", "compute", "balanced"}
        /\ k = "memory" <=> ~(cb * F - P * G >= 0)
        /\ k = "memory" <=> P * G - cb * F > 0
        /\ k = "compute" <=> B * F - cp * G > 0
        /\ k = "compute" <=> ~(cp * G - B * F >= 0)
    BY <1>8, <1>12, <2>6
  <2>8. \A i \in D :
          /\ t[i] \in {"memory", "compute", "balanced"}
          /\ t[i] = "memory" <=> ~(cb * f[i] - P * g[i] >= 0)
          /\ t[i] = "memory" <=> P * g[i] - cb * f[i] > 0
          /\ t[i] = "compute" <=> B * f[i] - cp * g[i] > 0
          /\ t[i] = "compute" <=> ~(cp * g[i] - B * f[i] >= 0)
    <3>1. SUFFICES ASSUME NEW i \in D
                   PROVE  /\ t[i] \in {"memory", "compute", "balanced"}
                          /\ t[i] = "memory" <=> ~(cb * f[i] - P * g[i] >= 0)
                          /\ t[i] = "memory" <=> P * g[i] - cb * f[i] > 0
                          /\ t[i] = "compute" <=> B * f[i] - cp * g[i] > 0
                          /\ t[i] = "compute" <=> ~(cp * g[i] - B * f[i] >= 0)
      OBVIOUS
    <3>2. PICK m \in Int : m = f[i]
      BY <1>5
    <3>3. PICK b \in Int : b = g[i] /\ b > 0
      BY <1>5
    <3>4. t[i] = Boundness(a, m, b)
      BY <1>11, <3>2, <3>3
    <3>5. PICK u : u = Boundness(a, m, b)
      OBVIOUS
    <3>6. /\ u \in {"memory", "compute", "balanced"}
          /\ u = "memory" <=> ~(cb * m - P * b >= 0)
          /\ u = "memory" <=> P * b - cb * m > 0
          /\ u = "compute" <=> B * m - cp * b > 0
          /\ u = "compute" <=> ~(cp * b - B * m >= 0)
      BY <2>6, <3>3, <3>5
    <3>7. t[i] = u /\ f[i] = m /\ g[i] = b
      BY <3>2, <3>3, <3>4, <3>5
    <3>8. QED
      BY <3>6, <3>7, ZenonT(30)
  <2>9. D # {} /\ (\A i \in D : f[i] \in Int /\ g[i] \in Int)
    BY <1>2, <1>5
  <2>10. (\A i \in D : t[i] # "memory") => k # "memory"
    <3>1. (\A i \in D : cb * f[i] - P * g[i] >= 0) => cb * F - P * G >= 0
      BY <1>2, <1>6, <1>7, <2>9, SignOfSums
    <3>2. QED
      BY <2>7, <2>8, <3>1
  <2>11. (\A i \in D : t[i] = "memory") => k = "memory"
    <3>1. (\A i \in D : P * g[i] - cb * f[i] > 0) => P * G - cb * F > 0
      BY <1>2, <1>6, <1>7, <2>9, SignOfSums
    <3>2. QED
      BY <2>7, <2>8, <3>1
  <2>12. (\A i \in D : t[i] = "compute") => k = "compute"
    <3>1. (\A i \in D : B * f[i] - cp * g[i] > 0) => B * F - cp * G > 0
      BY <1>2, <1>6, <1>7, <2>9, SignOfSums
    <3>2. QED
      BY <2>7, <2>8, <3>1
  <2>13. (\A i \in D : t[i] # "compute") => k # "compute"
    <3>1. (\A i \in D : cp * g[i] - B * f[i] >= 0) => cp * G - B * F >= 0
      BY <1>2, <1>6, <1>7, <2>9, SignOfSums
    <3>2. QED
      BY <2>7, <2>8, <3>1
  <2>14. \A i \in D : t[i] \in {"memory", "compute", "balanced"}
    BY <2>8
  <2>15. k \in {"memory", "compute", "balanced"}
    BY <2>7
  <2>16. \A c \in {"memory", "compute", "balanced"} :
           /\ Rank(c) \in {1, 2, 3}
           /\ Rank(c) = 1 <=> c = "memory"
           /\ Rank(c) = 3 <=> c = "compute"
    BY <1>13
  <2>17. \E i \in D : Rank(t[i]) <= Rank(k)
    <3>1. CASE k = "memory"
      <4>1. PICK i \in D : t[i] = "memory"
        BY <2>10, <3>1
      <4>2. Rank(t[i]) <= Rank(k)
        BY <1>13, <3>1, <4>1
      <4>3. QED
        BY <4>2
    <3>2. CASE k = "compute"
      <4>1. Rank(t[1]) \in {1, 2, 3} /\ Rank(k) = 3
        BY <1>2, <1>13, <2>14, <2>16, <3>2
      <4>2. Rank(t[1]) <= Rank(k)
        BY <4>1
      <4>3. QED
        BY <1>2, <4>2
    <3>3. CASE k = "balanced"
      <4>1. PICK i \in D : t[i] # "compute"
        BY <2>12, <3>3
      <4>2. Rank(t[i]) \in {1, 2} /\ Rank(k) = 2
        BY <1>13, <2>14, <3>3, <4>1
      <4>3. Rank(t[i]) <= Rank(k)
        BY <4>2
      <4>4. QED
        BY <4>3
    <3>4. QED
      BY <2>15, <3>1, <3>2, <3>3
  <2>18. \E i \in D : Rank(t[i]) >= Rank(k)
    <3>1. CASE k = "memory"
      <4>1. Rank(t[1]) \in {1, 2, 3} /\ Rank(k) = 1
        BY <1>2, <1>13, <2>14, <2>16, <3>1
      <4>2. Rank(t[1]) >= Rank(k)
        BY <4>1
      <4>3. QED
        BY <1>2, <4>2
    <3>2. CASE k = "compute"
      <4>1. PICK i \in D : t[i] = "compute"
        BY <2>13, <3>2
      <4>2. Rank(t[i]) >= Rank(k)
        BY <1>13, <3>2, <4>1
      <4>3. QED
        BY <4>2
    <3>3. CASE k = "balanced"
      <4>1. PICK i \in D : t[i] # "memory"
        BY <2>11, <3>3
      <4>2. Rank(t[i]) \in {2, 3} /\ Rank(k) = 2
        BY <1>13, <2>14, <3>3, <4>1
      <4>3. Rank(t[i]) >= Rank(k)
        BY <4>2
      <4>4. QED
        BY <4>3
    <3>4. QED
      BY <2>15, <3>1, <3>2, <3>3
  <2>19. QED
    BY <1>9, <1>10, <1>11, <2>17, <2>18
<1>16. (a.peak_macs <= 0 \/ a.peak_bw <= 0) \/ (a.peak_macs > 0 /\ a.peak_bw > 0)
  BY DEF Counted
<1>17. QED
  BY <1>14, <1>15, <1>16

\* The invariant is enough for the reports to agree.
LEMMA ReportsDo == ToolsInv => ReportsAgree
<1> SUFFICES ASSUME ToolsInv
             PROVE  ReportsAgree
  OBVIOUS
<1>1. SessionInv /\ KeptInv /\ WrittenInv /\ ClosedInv
  BY DEF ToolsInv
<1>2. \A t, u \in {v \in OpTools : Has(v)} : Of(t).operators = Of(u).operators
  BY OperatorsAgree
<1>3. ASSUME Has("bundle"), NEW t \in {v \in OpTools : Has(v)}
      PROVE  /\ Of(t).operators <= Of("bundle").operators
             /\ policy = DefaultPolicy => Of(t).operators = Of("bundle").operators
  <2>1. Of(t).operators = Len(Chosen)
    BY OperatorsAgree
  <2>2. Of("bundle").operators = Len(workload.ops)
    BY <1>1, <1>3 DEF ClosedInv
  <2>3. WellFormed(workload.ops)
    BY <1>1, WorkloadFacts
  <2>4. Len(Chosen) <= Len(workload.ops)
    BY <2>3, ChosenFacts DEF Chosen
  <2>5. ASSUME policy = DefaultPolicy
        PROVE  Chosen = workload.ops
    <3>1. \A op : ShouldInstrument(DefaultPolicy, op)
      BY DEF ShouldInstrument, DefaultPolicy, Passes
    <3>2. QED
      BY <2>3, <2>5, <3>1, ChosenFacts DEF Chosen
  <2>6. QED
    BY <2>1, <2>2, <2>4, <2>5
<1>4. IsList(Chosen)
  BY <1>1, ChosenList
<1>5. ASSUME Has("semantic_attribution")
      PROVE  LET s == Of("semantic_attribution")
                 sites == DOMAIN s.expansion
             IN /\ (\A i \in DOMAIN semantic_.ops :
                      semantic_.ops[i].src # "" => semantic_.ops[i].module_path # "")
                     => s.with_source + s.module_only + s.unattributed = s.operators
                /\ MapThenSumSet(LAMBDA k : s.expansion[k].total, sites) = s.operators
                /\ s.source_sites <= s.with_source
  <2>1. SemanticSays(Of("semantic_attribution"), semantic_) /\ IsList(semantic_.ops)
    BY <1>1, <1>4, <1>5 DEF WrittenInv
  <2>2. PICK r : r = Of("semantic_attribution")
    OBVIOUS
  <2>3. SemanticSays(r, semantic_)
    BY <2>1, <2>2
  <2>4. (\A i \in DOMAIN semantic_.ops :
           semantic_.ops[i].src # "" => semantic_.ops[i].module_path # "")
          => r.with_source + r.module_only + r.unattributed = r.operators
    BY <2>1, <2>3, PlacesAdd
  <2>5. /\ MapThenSumSet(LAMBDA k : r.expansion[k].total, DOMAIN r.expansion) = r.operators
        /\ r.source_sites <= r.with_source
    BY <2>1, <2>3, SitesAdd
  <2>6. (\A i \in DOMAIN semantic_.ops :
           semantic_.ops[i].src # "" => semantic_.ops[i].module_path # "")
          => Of("semantic_attribution").with_source + Of("semantic_attribution").module_only
               + Of("semantic_attribution").unattributed = Of("semantic_attribution").operators
    BY <2>2, <2>4
  <2>7. MapThenSumSet(LAMBDA k : Of("semantic_attribution").expansion[k].total,
                      DOMAIN Of("semantic_attribution").expansion)
          = Of("semantic_attribution").operators
    BY <2>2, <2>5
  <2>8. Of("semantic_attribution").source_sites <= Of("semantic_attribution").with_source
    BY <2>2, <2>5
  <2>9. QED
    BY <2>6, <2>7, <2>8
<1>6. ASSUME Has("program_analyzer")
      PROVE  LET a == Of("program_analyzer")
             IN /\ MapThenSumSet(LAMBDA c : a.share[c], Classes) = a.total_macs
                /\ (\A i \in DOMAIN analyzer_.ops : analyzer_.ops[i].estimated_bytes > 0)
                     => /\ \E i \in DOMAIN a.table : Rank(a.table[i]) <= Rank(a.boundness)
                        /\ \E i \in DOMAIN a.table : Rank(a.table[i]) >= Rank(a.boundness)
  <2>1. /\ AnalyzerSays(Of("program_analyzer"), analyzer_)
        /\ analyzer_.ops = Chosen /\ analyzer_.ops # << >>
    BY <1>1, <1>6 DEF WrittenInv
  <2>2. Counted(analyzer_)
    <3>1. analyzer_.peak_macs = workload.peak_macs /\ analyzer_.peak_bw = workload.peak_bw
      BY <1>1, <2>1 DEF KeptInv
    <3>2. /\ workload.peak_macs \in Int /\ workload.peak_bw \in Int /\ WellFormed(workload.ops)
          /\ \A i \in DOMAIN workload.ops :
               workload.ops[i].macs \in Nat /\ workload.ops[i].estimated_bytes \in Nat
      BY <1>1, WorkloadFacts
    <3>3. ToSet(Chosen) \subseteq ToSet(workload.ops)
      BY <3>2, ChosenFacts DEF Chosen
    <3>4. \A op \in ToSet(workload.ops) : op.macs \in Int /\ op.estimated_bytes \in Int
      BY <3>2 DEF ToSet
    <3>5. \A i \in DOMAIN Chosen : Chosen[i] \in ToSet(Chosen)
      BY DEF ToSet
    <3>6. \A i \in DOMAIN Chosen : Chosen[i].macs \in Int /\ Chosen[i].estimated_bytes \in Int
      BY <3>3, <3>4, <3>5
    <3>7. QED
      BY <1>4, <2>1, <3>1, <3>2, <3>6 DEF Counted
  <2>3. PICK r : r = Of("program_analyzer")
    OBVIOUS
  <2>4. AnalyzerSays(r, analyzer_)
    BY <2>1, <2>3
  <2>5. MapThenSumSet(LAMBDA c : r.share[c], Classes) = r.total_macs
    BY <2>2, <2>4, AnalyzerAdds
  <2>6. (\A i \in DOMAIN analyzer_.ops : analyzer_.ops[i].estimated_bytes > 0)
           => /\ \E i \in DOMAIN r.table : Rank(r.table[i]) <= Rank(r.boundness)
              /\ \E i \in DOMAIN r.table : Rank(r.table[i]) >= Rank(r.boundness)
    BY <2>1, <2>2, <2>4, ClassesBound
  <2>7. QED
    BY <2>3, <2>5, <2>6
<1>7. ASSUME Has("bundle"), Attached("overhead_profiler")
      PROVE  IF Has("overhead_profiler")
             THEN Of("bundle").slowdown = <<Of("overhead_profiler").slowdown>>
             ELSE Of("bundle").slowdown = << >>
  BY <1>1, <1>7 DEF ClosedInv
<1>8. QED
  BY <1>2, <1>3, <1>5, <1>6, <1>7 DEF ReportsAgree

\* Whatever is filtered, and whichever tools there are, the reports of a session
\* and the driver's bundle make one picture.
THEOREM OnePicture == ToolsSpec => []ReportsAgree
<1>1. ToolsInv => ReportsAgree
  BY ReportsDo
<1>2. QED
  BY <1>1, ToolsInvariant, PTL
=============================================================================
