---------------------------- MODULE BackendProofs ----------------------------
(***************************************************************************)
(* Theorems about module BackendSessions: the sessions of a process on the *)
(* Edge TPU or on gpu_mlir.                                                *)
(*                                                                         *)
(* The two adapters share nothing but the registries, so that each has an  *)
(* invariant of its own: EdgeInv says what the adapter of the Edge TPU     *)
(* knows of its log and operators at every call, GpuInv what that of       *)
(* gpu_mlir knows of its model.  The properties of what a session reports  *)
(* then follow without looking at steps.                                   *)
(***************************************************************************)
EXTENDS BackendSessions, ListProofs

-----------------------------------------------------------------------------
(* Metrics of a name in sequences of metrics. *)

Shift(k, S) == {k + i : i \in S}

\* In a concatenation they are those of the parts.
LEMMA ThoseConcat ==
  ASSUME NEW s, NEW t, IsList(s), IsList(t), NEW name
  PROVE  Those(name, s \o t) = Those(name, s) \cup Shift(Len(s), Those(name, t))
<1>1. PICK c : c = s \o t
  OBVIOUS
<1>2. PICK m \in Nat : m = Len(s)
  BY ListConcat
<1>3. PICK n \in Nat : n = Len(t)
  BY ListConcat
<1>4. /\ DOMAIN s = 1 .. m /\ DOMAIN t = 1 .. n /\ DOMAIN c = 1 .. m + n
      /\ \A i \in 1 .. m : c[i] = s[i]
      /\ \A i \in 1 .. n : c[m + i] = t[i]
  BY <1>1, <1>2, <1>3, ListConcat
<1>5. \A i \in 1 .. m : i \in 1 .. m + n
  OBVIOUS
<1>6. \A i \in 1 .. n : m + i \in 1 .. m + n
  OBVIOUS
<1>7. \A i \in 1 .. m + n : i \in 1 .. m \/ \E k \in 1 .. n : i = m + k
  <2>1. SUFFICES ASSUME NEW i \in 1 .. m + n, i \notin 1 .. m
                 PROVE  \E k \in 1 .. n : i = m + k
    OBVIOUS
  <2>2. i - m \in 1 .. n /\ i = m + (i - m)
    BY <2>1
  <2>3. QED
    BY <2>2
<1>8. \A i \in Those(name, c) : i \in Those(name, s) \cup Shift(m, Those(name, t))
  <2>1. SUFFICES ASSUME NEW i \in 1 .. m + n, c[i].name = name
                 PROVE  i \in Those(name, s) \cup Shift(m, Those(name, t))
    BY <1>4 DEF Those
  <2>2. CASE i \in 1 .. m
    BY <1>4, <2>1, <2>2 DEF Those
  <2>3. ASSUME NEW k \in 1 .. n, i = m + k
        PROVE  i \in Shift(m, Those(name, t))
    <3>1. t[k].name = name
      BY <1>4, <2>1, <2>3
    <3>2. k \in Those(name, t)
      BY <1>4, <3>1 DEF Those
    <3>3. QED
      BY <2>3, <3>2 DEF Shift
  <2>4. QED
    BY <1>7, <2>2, <2>3
<1>9. \A i \in Those(name, s) : i \in Those(name, c)
  BY <1>4, <1>5 DEF Those
<1>10. \A i \in Those(name, t) : m + i \in Those(name, c)
  BY <1>4, <1>6 DEF Those
<1>11. \A i \in Shift(m, Those(name, t)) : i \in Those(name, c)
  BY <1>10 DEF Shift
<1>12. QED
  BY <1>1, <1>2, <1>8, <1>9, <1>11

\* There are none in no metrics, and none in metrics of other names.
LEMMA ThoseNone ==
  ASSUME NEW s, NEW name, \A i \in DOMAIN s : s[i].name # name
  PROVE  Those(name, s) = {}
BY DEF Those

\* Shifting keeps nothing nothing, one thing one thing, and the number of many.
LEMMA ShiftFacts ==
  ASSUME NEW k \in Nat
  PROVE  /\ Shift(k, {}) = {}
         /\ \A i \in Nat : Shift(k, {i}) = {k + i}
         /\ \A j \in Nat : Shift(k, Shift(j, {})) = {}
         /\ \A n \in Nat : Shift(k, 1 .. n) = k + 1 .. k + n
         /\ \A S, T : Shift(k, S \cup T) = Shift(k, S) \cup Shift(k, T)
<1>1. Shift(k, {}) = {}
  BY DEF Shift
<1>2. \A i \in Nat : Shift(k, {i}) = {k + i}
  BY DEF Shift
<1>3. \A j \in Nat : Shift(k, Shift(j, {})) = {}
  BY DEF Shift
<1>4. ASSUME NEW n \in Nat
      PROVE  Shift(k, 1 .. n) = k + 1 .. k + n
  <2>1. \A i \in 1 .. n : k + i \in k + 1 .. k + n
    OBVIOUS
  <2>2. \A j \in k + 1 .. k + n : j - k \in 1 .. n /\ j = k + (j - k)
    OBVIOUS
  <2>3. QED
    BY <2>1, <2>2 DEF Shift
<1>5. \A S, T : Shift(k, S \cup T) = Shift(k, S) \cup Shift(k, T)
  BY DEF Shift
<1>6. QED
  BY <1>1, <1>2, <1>3, <1>4, <1>5

\* The length of a function on 1 .. n and where it has a name.
LEMMA CardOfRange ==
  ASSUME NEW k \in Nat, NEW n \in Nat
  PROVE  IsFiniteSet(k + 1 .. k + n) /\ Cardinality(k + 1 .. k + n) = n
<1>1. k + 1 \in Int /\ k + n \in Int
  OBVIOUS
<1>2. /\ IsFiniteSet(k + 1 .. k + n)
      /\ Cardinality(k + 1 .. k + n) = IF k + 1 > k + n THEN 0 ELSE (k + n) - (k + 1) + 1
  BY <1>1, FS_Interval
<1>3. QED
  BY <1>2

-----------------------------------------------------------------------------
(* What the adapter of the Edge TPU reports of a log. *)

\* Head, rows and counts.
SummaryPart(log) == IF log.summary THEN <<Metric("memory_summary", 1, log.by)>> ELSE << >>
RowsPart(log) == [i \in DOMAIN log.rows |-> Metric("operator_count", 1, log.by)]
MappedIn(rows) == {i \in DOMAIN rows : rows[i].mapped}
CountsPart(log) ==
  IF log.rows = << >> THEN << >>
  ELSE <<Metric("ops_mapped_to_tpu", Cardinality(MappedIn(log.rows)), log.by),
         Metric("ops_fallback_to_cpu",
                Len(log.rows) - Cardinality(MappedIn(log.rows)), log.by)>>

\* The rows of a table are finitely many, mapped ones no more than all.
LEMMA TableFacts ==
  ASSUME NEW rows, IsTable(rows)
  PROVE  /\ Len(rows) \in Nat /\ DOMAIN rows = 1 .. Len(rows)
         /\ Cardinality(MappedIn(rows)) \in 0 .. Len(rows)
         /\ rows = << >> <=> Len(rows) = 0
<1>1. Len(rows) \in Nat /\ DOMAIN rows = 1 .. Len(rows)
  BY ListFacts DEF IsTable
<1>2. PICK n \in Nat : n = Len(rows)
  BY <1>1
<1>3. IsFiniteSet(1 .. n) /\ Cardinality(1 .. n) = n
  <2>1. IsFiniteSet(0 + 1 .. 0 + n) /\ Cardinality(0 + 1 .. 0 + n) = n
    BY CardOfRange
  <2>2. 0 + 1 .. 0 + n = 1 .. n
    OBVIOUS
  <2>3. QED
    BY <2>1, <2>2
<1>4. MappedIn(rows) \in SUBSET (1 .. n)
  BY <1>1, <1>2 DEF MappedIn
<1>5. IsFiniteSet(MappedIn(rows)) /\ Cardinality(MappedIn(rows)) <= n
  BY <1>3, <1>4, FS_Subset
<1>6. Cardinality(MappedIn(rows)) \in Nat
  BY <1>5, FS_CardinalityType
<1>7. Cardinality(MappedIn(rows)) \in 0 .. n
  BY <1>5, <1>6
<1>8. rows = << >> <=> Len(rows) = 0
  <2>1. Len(<< >>) = 0
    OBVIOUS
  <2>2. ASSUME Len(rows) = 0 PROVE rows = << >>
    <3>1. PICK S : rows \in Seq(S)
      BY ListFacts DEF IsTable
    <3>2. QED
      BY <2>2, <3>1, EmptySeq
  <2>3. QED
    BY <2>1, <2>2
<1>9. QED
  BY <1>1, <1>2, <1>7, <1>8

\* The parts of what is reported of a log, and where they have which names.
LEMMA LogParts ==
  ASSUME NEW log, IsTable(log.rows), log.summary \in BOOLEAN
  PROVE  /\ ToMetricSamples(log) = (SummaryPart(log) \o RowsPart(log)) \o CountsPart(log)
         /\ IsList(SummaryPart(log)) /\ IsList(RowsPart(log)) /\ IsList(CountsPart(log))
         /\ Len(SummaryPart(log)) \in {0, 1} /\ Len(RowsPart(log)) = Len(log.rows)
         /\ \A i \in DOMAIN SummaryPart(log) :
              SummaryPart(log)[i] = Metric("memory_summary", 1, log.by)
         /\ \A i \in DOMAIN RowsPart(log) :
              RowsPart(log)[i] = Metric("operator_count", 1, log.by)
         /\ log.rows # << >> =>
              /\ Len(CountsPart(log)) = 2 /\ DOMAIN CountsPart(log) = {1, 2}
              /\ CountsPart(log)[1]
                   = Metric("ops_mapped_to_tpu", Cardinality(MappedIn(log.rows)), log.by)
              /\ CountsPart(log)[2]
                   = Metric("ops_fallback_to_cpu",
                            Len(log.rows) - Cardinality(MappedIn(log.rows)), log.by)
         /\ log.rows = << >> => CountsPart(log) = << >>
<1>1. ToMetricSamples(log) = (SummaryPart(log) \o RowsPart(log)) \o CountsPart(log)
  BY DEF ToMetricSamples, SummaryPart, RowsPart, CountsPart, MappedIn
<1>2. PICK a : a = Metric("memory_summary", 1, log.by)
  OBVIOUS
<1>3. PICK b : b = Metric("operator_count", 1, log.by)
  OBVIOUS
<1>4. /\ IsList(SummaryPart(log)) /\ Len(SummaryPart(log)) \in {0, 1}
      /\ \A i \in DOMAIN SummaryPart(log) : SummaryPart(log)[i] = a
  <2>1. CASE log.summary
    <3>1. SummaryPart(log) = <<a>>
      BY <2>1, <1>2 DEF SummaryPart
    <3>2. QED
      BY <3>1, ListOfOne
  <2>2. CASE ~log.summary
    <3>1. SummaryPart(log) = << >>
      BY <2>2 DEF SummaryPart
    <3>2. QED
      BY <3>1, ListOfNone
  <2>3. QED
    BY <2>1, <2>2
<1>5. /\ IsList(RowsPart(log)) /\ Len(RowsPart(log)) = Len(log.rows)
      /\ \A i \in DOMAIN RowsPart(log) : RowsPart(log)[i] = b
  <2>1. PICK n \in Nat : n = Len(log.rows) /\ DOMAIN log.rows = 1 .. n
    BY TableFacts
  <2>2. PICK r : r = RowsPart(log)
    OBVIOUS
  <2>3. r = [i \in 1 .. n |-> b]
    BY <2>1, <2>2, <1>3 DEF RowsPart
  <2>4. r = [i \in 1 .. n |-> r[i]]
    BY <2>3
  <2>5. IsList(r) /\ Len(r) = n /\ DOMAIN r = 1 .. n
    BY <2>4, FunctionIsList
  <2>6. QED
    BY <2>1, <2>2, <2>3, <2>5
<1>6. PICK c : c = Metric("ops_mapped_to_tpu", Cardinality(MappedIn(log.rows)), log.by)
  OBVIOUS
<1>7. PICK d : d = Metric("ops_fallback_to_cpu",
                          Len(log.rows) - Cardinality(MappedIn(log.rows)), log.by)
  OBVIOUS
<1>8. log.rows = << >> => CountsPart(log) = << >>
  BY DEF CountsPart
<1>9. ASSUME log.rows # << >>
      PROVE  /\ IsList(CountsPart(log)) /\ Len(CountsPart(log)) = 2
             /\ DOMAIN CountsPart(log) = {1, 2}
             /\ CountsPart(log)[1] = c /\ CountsPart(log)[2] = d
  <2>1. CountsPart(log) = <<c, d>>
    BY <1>6, <1>7, <1>9 DEF CountsPart
  <2>2. <<c, d>> \in Seq({c, d}) /\ Len(<<c, d>>) = 2 /\ <<c, d>>[1] = c /\ <<c, d>>[2] = d
    OBVIOUS
  <2>3. DOMAIN <<c, d>> = 1 .. 2
    BY <2>2, LenProperties
  <2>4. 1 .. 2 = {1, 2}
    OBVIOUS
  <2>5. QED
    BY <2>1, <2>2, <2>3, <2>4, SeqIsList
<1>10. IsList(CountsPart(log))
  BY <1>8, <1>9, ListOfNone
<1>11. QED
  BY <1>1, <1>2, <1>3, <1>4, <1>5, <1>6, <1>7, <1>8, <1>9, <1>10

\* Where what is reported of a log has which names.
LEMMA SamplesOfLog ==
  ASSUME NEW log, IsTable(log.rows), log.summary \in BOOLEAN
  PROVE  LET s == ToMetricSamples(log)
             n == Len(log.rows)
         IN \E k \in {0, 1} :
              /\ IsList(s)
              /\ Those("memory_summary", s) = 1 .. k
              /\ Those("operator_count", s) = k + 1 .. k + n
              /\ \A i \in k + 1 .. k + n : s[i].by = log.by
              /\ \A i \in DOMAIN s : s[i].value \in Nat
              /\ n = 0 => Those("ops_mapped_to_tpu", s) = {} /\ Those("ops_fallback_to_cpu", s) = {}
              /\ n # 0 =>
                   /\ Those("ops_mapped_to_tpu", s) = {k + n + 1}
                   /\ Those("ops_fallback_to_cpu", s) = {k + n + 2}
                   /\ s[k + n + 1].value = Cardinality(MappedIn(log.rows))
                   /\ s[k + n + 2].value = n - Cardinality(MappedIn(log.rows))
              /\ \A i \in DOMAIN s : s[i].name \in {"memory_summary", "operator_count",
                                                    "ops_mapped_to_tpu", "ops_fallback_to_cpu"}
<1>1. PICK a : a = SummaryPart(log)
  OBVIOUS
<1>2. PICK b : b = RowsPart(log)
  OBVIOUS
<1>3. PICK c : c = CountsPart(log)
  OBVIOUS
<1>4. PICK k \in {0, 1} : k = Len(a)
  BY <1>1, LogParts
<1>5. PICK n \in Nat : n = Len(log.rows) /\ (log.rows = << >> <=> n = 0)
  BY TableFacts
<1>6. PICK m \in 0 .. n : m = Cardinality(MappedIn(log.rows))
  BY <1>5, TableFacts
<1>7. PICK s : s = (a \o b) \o c
  OBVIOUS
<1>8. ToMetricSamples(log) = s
  BY <1>1, <1>2, <1>3, <1>7, LogParts
<1>9. IsList(a) /\ IsList(b) /\ IsList(c) /\ Len(b) = n
  BY <1>1, <1>2, <1>3, <1>5, LogParts
<1>10. /\ DOMAIN a = 1 .. k /\ DOMAIN b = 1 .. n
       /\ \A i \in 1 .. k : a[i] = Metric("memory_summary", 1, log.by)
       /\ \A i \in 1 .. n : b[i] = Metric("operator_count", 1, log.by)
  <2>1. DOMAIN a = 1 .. k /\ DOMAIN b = 1 .. n
    BY <1>4, <1>9, ListFacts
  <2>2. QED
    BY <2>1, <1>1, <1>2, LogParts
<1>11. /\ n = 0 => c = << >>
       /\ n # 0 => /\ Len(c) = 2 /\ DOMAIN c = {1, 2}
                   /\ c[1] = Metric("ops_mapped_to_tpu", m, log.by)
                   /\ c[2] = Metric("ops_fallback_to_cpu", n - m, log.by)
  BY <1>3, <1>5, <1>6, LogParts
<1>12. PICK ab : ab = a \o b
  OBVIOUS
<1>13. /\ IsList(ab) /\ Len(ab) = k + n /\ DOMAIN ab = 1 .. k + n
       /\ \A i \in 1 .. k : ab[i] = a[i]
       /\ \A i \in 1 .. n : ab[k + i] = b[i]
  BY <1>4, <1>9, <1>12, ListConcat
<1>14. \A i \in k + 1 .. k + n : i - k \in 1 .. n /\ i = k + (i - k)
  OBVIOUS
<1>15. \A i \in k + 1 .. k + n : ab[i] = Metric("operator_count", 1, log.by)
  <2>1. SUFFICES ASSUME NEW i \in k + 1 .. k + n
                 PROVE  ab[i] = Metric("operator_count", 1, log.by)
    OBVIOUS
  <2>2. PICK j \in 1 .. n : i = k + j
    BY <1>14
  <2>3. QED
    BY <2>2, <1>10, <1>13
<1>16. \A i \in 1 .. k + n : i \in 1 .. k \/ i \in k + 1 .. k + n
  OBVIOUS
<1>17. /\ Those("memory_summary", ab) = 1 .. k
       /\ Those("operator_count", ab) = k + 1 .. k + n
       /\ Those("ops_mapped_to_tpu", ab) = {}
       /\ Those("ops_fallback_to_cpu", ab) = {}
  <2>1. \A i \in 1 .. k : ab[i].name = "memory_summary"
    BY <1>10, <1>13 DEF Metric
  <2>2. \A i \in k + 1 .. k + n : ab[i].name = "operator_count"
    BY <1>15 DEF Metric
  <2>3. 1 .. k \subseteq 1 .. k + n /\ k + 1 .. k + n \subseteq 1 .. k + n
    OBVIOUS
  <2>4. QED
    BY <1>13, <1>16, <2>1, <2>2, <2>3 DEF Those
<1>18. \A i \in 1 .. k + n : ab[i].value = 1 /\ ab[i].name \in {"memory_summary", "operator_count"}
  BY <1>10, <1>13, <1>15, <1>16 DEF Metric
<1>19. CASE n = 0
  <2>1. s = ab
    <3>1. PICK T : ab \in Seq(T)
      BY <1>13, ListFacts
    <3>2. QED
      BY <1>7, <1>11, <1>12, <1>19, <3>1, ConcatEmptySeq
  <2>2. k + 1 .. k + n \subseteq 1 .. k + n
    OBVIOUS
  <2>3. \A i \in k + 1 .. k + n : s[i].by = log.by
    BY <1>15, <2>1 DEF Metric
  <2>4. \A i \in DOMAIN s : s[i].value \in Nat
    BY <1>13, <1>18, <2>1
  <2>5. QED
    BY <1>5, <1>8, <1>13, <1>17, <1>18, <1>19, <2>1, <2>3, <2>4
<1>20. CASE n # 0
  <2>1. Len(c) = 2 /\ DOMAIN c = {1, 2} /\ 1 .. 2 = {1, 2}
    BY <1>11, <1>20
  <2>2. /\ IsList(s) /\ DOMAIN s = 1 .. (k + n) + 2
        /\ \A i \in 1 .. k + n : s[i] = ab[i]
        /\ \A i \in 1 .. 2 : s[(k + n) + i] = c[i]
    <3>1. IsList(ab) /\ IsList(c)
      BY <1>9, <1>13
    <3>2. /\ IsList(ab \o c) /\ DOMAIN (ab \o c) = 1 .. Len(ab) + Len(c)
          /\ \A i \in 1 .. Len(ab) : (ab \o c)[i] = ab[i]
          /\ \A i \in 1 .. Len(c) : (ab \o c)[Len(ab) + i] = c[i]
      BY <3>1, ListConcat
    <3>3. s = ab \o c /\ Len(ab) = k + n /\ Len(c) = 2
      BY <1>7, <1>12, <1>13, <2>1
    <3>4. QED
      BY <3>2, <3>3
  <2>3. s[k + n + 1] = c[1] /\ s[k + n + 2] = c[2]
    BY <2>2
  <2>4. /\ s[k + n + 1] = Metric("ops_mapped_to_tpu", m, log.by)
        /\ s[k + n + 2] = Metric("ops_fallback_to_cpu", n - m, log.by)
    BY <1>11, <1>20, <2>3
  <2>5. \A i \in 1 .. (k + n) + 2 : i \in 1 .. k + n \/ i = k + n + 1 \/ i = k + n + 2
    OBVIOUS
  <2>6. /\ s[k + n + 1].name = "ops_mapped_to_tpu" /\ s[k + n + 1].value = m
        /\ s[k + n + 2].name = "ops_fallback_to_cpu" /\ s[k + n + 2].value = n - m
    BY <2>4 DEF Metric
  <2>7. /\ Those("memory_summary", s) = 1 .. k
        /\ Those("operator_count", s) = k + 1 .. k + n
        /\ Those("ops_mapped_to_tpu", s) = {k + n + 1}
        /\ Those("ops_fallback_to_cpu", s) = {k + n + 2}
    <3>1. k + n + 1 \in DOMAIN s /\ k + n + 2 \in DOMAIN s /\ 1 .. k + n \subseteq DOMAIN s
      BY <2>2
    <3>2. \A name : \A i \in Those(name, ab) : i \in Those(name, s)
      BY <1>13, <2>2, <3>1 DEF Those
    <3>3. \A name : \A i \in Those(name, s) :
             i \in Those(name, ab) \/ i = k + n + 1 \/ i = k + n + 2
      BY <1>13, <2>2, <2>5 DEF Those
    <3>4. /\ k + n + 1 \in Those("ops_mapped_to_tpu", s)
          /\ k + n + 2 \in Those("ops_fallback_to_cpu", s)
          /\ \A name : name # "ops_mapped_to_tpu" => k + n + 1 \notin Those(name, s)
          /\ \A name : name # "ops_fallback_to_cpu" => k + n + 2 \notin Those(name, s)
      BY <2>6, <3>1 DEF Those
    <3>5. k + n + 1 \notin 1 .. k + n /\ k + n + 2 \notin 1 .. k + n
      OBVIOUS
    <3>6. Those("memory_summary", s) = Those("memory_summary", ab)
      <4>1. k + n + 1 \notin Those("memory_summary", s) /\ k + n + 2 \notin Those("memory_summary", s)
        BY <3>4
      <4>2. Those("memory_summary", s) \subseteq Those("memory_summary", ab)
        BY <3>3, <4>1
      <4>3. Those("memory_summary", ab) \subseteq Those("memory_summary", s)
        BY <3>2
      <4>4. QED
        BY <4>2, <4>3
    <3>7. Those("operator_count", s) = Those("operator_count", ab)
      <4>1. k + n + 1 \notin Those("operator_count", s) /\ k + n + 2 \notin Those("operator_count", s)
        BY <3>4
      <4>2. Those("operator_count", s) \subseteq Those("operator_count", ab)
        BY <3>3, <4>1
      <4>3. Those("operator_count", ab) \subseteq Those("operator_count", s)
        BY <3>2
      <4>4. QED
        BY <4>2, <4>3
    <3>8. Those("ops_mapped_to_tpu", s) = {k + n + 1}
      <4>1. Those("ops_mapped_to_tpu", ab) = {}
        BY <1>17
      <4>2. k + n + 2 \notin Those("ops_mapped_to_tpu", s) /\ k + n + 1 \in Those("ops_mapped_to_tpu", s)
        BY <3>4
      <4>3. \A i \in Those("ops_mapped_to_tpu", s) : i = k + n + 1
        BY <3>3, <4>1, <4>2
      <4>4. QED
        BY <4>2, <4>3
    <3>9. Those("ops_fallback_to_cpu", s) = {k + n + 2}
      <4>1. Those("ops_fallback_to_cpu", ab) = {}
        BY <1>17
      <4>2. k + n + 1 \notin Those("ops_fallback_to_cpu", s) /\ k + n + 2 \in Those("ops_fallback_to_cpu", s)
        BY <3>4
      <4>3. \A i \in Those("ops_fallback_to_cpu", s) : i = k + n + 2
        BY <3>3, <4>1, <4>2
      <4>4. QED
        BY <4>2, <4>3
    <3>10. QED
      BY <1>17, <3>6, <3>7, <3>8, <3>9
  <2>8. \A i \in k + 1 .. k + n : s[i].by = log.by
    <3>1. k + 1 .. k + n \subseteq 1 .. k + n
      OBVIOUS
    <3>2. QED
      BY <1>15, <2>2, <3>1 DEF Metric
  <2>9. m \in Nat /\ n - m \in Nat
    BY <1>6
  <2>10. \A i \in DOMAIN s : s[i].value \in Nat
    BY <1>18, <2>2, <2>5, <2>6, <2>9
  <2>11. \A i \in DOMAIN s : s[i].name \in {"memory_summary", "operator_count",
                                            "ops_mapped_to_tpu", "ops_fallback_to_cpu"}
    BY <1>18, <2>2, <2>5, <2>6
  <2>12. QED
    BY <1>5, <1>6, <1>8, <1>20, <2>2, <2>6, <2>7, <2>8, <2>10, <2>11
<1>21. QED
  BY <1>19, <1>20

-----------------------------------------------------------------------------
(* What a session on the Edge TPU knows. *)

\* The log that is listed, if it can be read, and what is reported of it.
ReadIn(fs, l) == ReadLogs(fs, NotEmpty(l))
SamplesOf(fs, l) ==
  FlattenSeq([i \in DOMAIN ReadIn(fs, l) |-> ToMetricSamples(fs[ReadIn(fs, l)[i]][1])])
IsRead(fs, l) == l # "" /\ fs[l][1].readable
RowsOf(fs, l) == IF IsRead(fs, l) THEN fs[l][1].rows ELSE << >>

\* The other parts of what a compile reports, and of what it lists.
CommandPart(inputs, s) ==
  IF "compile_cmd" \in inputs THEN <<Metric("exit_code", 0, s)>> ELSE << >>
ParameterPart(fs) ==
  IF HasGraph(fs) THEN <<Metric("model_parameter_bytes", 1, fs["source"][1].by)>> ELSE << >>
SourcePart(fs) == IF HasGraph(fs) THEN <<"source">> ELSE << >>

Report(inputs, s, fs, l) ==
  (CommandPart(inputs, s) \o SamplesOf(fs, l)) \o ParameterPart(fs)

BuiltModel(fs, rows) ==
  IF HasGraph(fs) THEN BuildModelFromGraph(fs["source"][1].ops, rows)
  ELSE BuildModelFromOperators(rows)

\* A log that may be listed.
IsLog(fs, l) == l # "" => l \in Logs /\ Exists(fs, l)

\* One log is read, or none.
LEMMA ReadOne ==
  ASSUME NEW fs, NEW l
  PROVE  ReadIn(fs, l) = IF IsRead(fs, l) THEN <<l>> ELSE << >>
<1>1. CASE l = ""
  <2>1. NotEmpty(l) = << >>
    BY <1>1 DEF NotEmpty
  <2>2. ReadIn(fs, l) = << >>
    BY <2>1, AmongNone DEF ReadIn, ReadLogs
  <2>3. QED
    BY <1>1, <2>2 DEF IsRead
<1>2. CASE l # ""
  <2>1. NotEmpty(l) = <<l>>
    BY <1>2 DEF NotEmpty
  <2>2. PICK S : S = {f \in ToSet(<<l>>) : fs[f][1].readable}
    OBVIOUS
  <2>3. ReadIn(fs, l) = Among(<<l>>, S)
    BY <2>1, <2>2 DEF ReadIn, ReadLogs
  <2>4. ToSet(<<l>>) = {l}
    BY ListOfOne DEF ToSet
  <2>5. l \in S <=> fs[l][1].readable
    BY <2>2, <2>4
  <2>6. Among(<<l>>, S) = IF l \in S THEN <<l>> ELSE << >>
    BY AmongOne
  <2>7. QED
    BY <1>2, <2>3, <2>5, <2>6 DEF IsRead
<1>3. QED
  BY <1>1, <1>2

\* A sequence of one sequence, flattened.
LEMMA FlattenOne ==
  ASSUME NEW s
  PROVE  FlattenSeq(<<s>>) = s
<1>1. PICK q : q = <<s>>
  OBVIOUS
<1>2. Len(q) = 1 /\ q[1] = s
  BY <1>1
<1>3. 1 .. 1 = {1}
  OBVIOUS
<1> DEFINE Is(f) == f = [i \in 1 .. Len(q) |-> IF i = 1 THEN q[i] ELSE f[i - 1] \o q[i]]
<1>4. \A f : Is(f) => f[Len(q)] = s
  BY <1>2, <1>3
<1>5. Is([i \in {1} |-> s])
  BY <1>2, <1>3
<1>6. FlattenSeq(q) = (CHOOSE f : Is(f))[Len(q)]
  BY <1>2 DEF FlattenSeq
<1>7. Is(CHOOSE f : Is(f))
  <2> HIDE DEF Is
  <2>1. QED
    BY <1>5
<1>8. FlattenSeq(q) = s
  BY <1>4, <1>6, <1>7
<1>9. QED
  BY <1>1, <1>8

\* What is reported of the log.
LEMMA SamplesAre ==
  ASSUME NEW fs, NEW l
  PROVE  SamplesOf(fs, l) = IF IsRead(fs, l) THEN ToMetricSamples(fs[l][1]) ELSE << >>
<1>1. PICK r : r = ReadIn(fs, l)
  OBVIOUS
<1>2. PICK q : q = [i \in DOMAIN r |-> ToMetricSamples(fs[r[i]][1])]
  OBVIOUS
<1>3. SamplesOf(fs, l) = FlattenSeq(q)
  BY <1>1, <1>2 DEF SamplesOf
<1>4. CASE IsRead(fs, l)
  <2>1. r = <<l>>
    BY <1>1, <1>4, ReadOne
  <2>2. DOMAIN r = {1} /\ r[1] = l
    BY <2>1, ListOfOne
  <2>3. PICK s : s = ToMetricSamples(fs[l][1])
    OBVIOUS
  <2>4. q = [i \in {1} |-> s]
    BY <1>2, <2>2, <2>3
  <2>5. q = <<s>>
    <3>1. 1 .. 1 = {1}
      OBVIOUS
    <3>2. q = [i \in 1 .. 1 |-> q[i]]
      BY <2>4, <3>1
    <3>3. IsList(q) /\ Len(q) = 1 /\ q[1] = s
      BY <2>4, <3>2, FunctionIsList
    <3>4. IsList(<<s>>) /\ Len(<<s>>) = 1 /\ <<s>>[1] = s
      BY ListOfOne
    <3>5. \A i \in 1 .. 1 : q[i] = <<s>>[i]
      BY <3>1, <3>3, <3>4
    <3>6. QED
      BY <3>3, <3>4, <3>5, ListsEqual
  <2>6. QED
    BY <1>3, <1>4, <2>3, <2>5, FlattenOne
<1>5. CASE ~IsRead(fs, l)
  <2>1. r = << >>
    BY <1>1, <1>5, ReadOne
  <2>2. DOMAIN r = {} /\ 1 .. 0 = {}
    BY <2>1, ListOfNone
  <2>3. q = [i \in 1 .. 0 |-> q[i]]
    BY <1>2, <2>2
  <2>4. IsList(q) /\ Len(q) = 0
    BY <2>3, FunctionIsList
  <2>5. FlattenSeq(q) = q
    BY <2>4 DEF FlattenSeq
  <2>6. \A i \in 1 .. 0 : q[i] = << >>[i]
    OBVIOUS
  <2>7. q = << >>
    BY <2>4, <2>6, ListOfNone, ListsEqual
  <2>8. QED
    BY <1>3, <1>5, <2>5, <2>7
<1>6. QED
  BY <1>4, <1>5

\* What a file that exists holds.
LEMMA LogContent ==
  ASSUME NEW fs, AreFiles(fs), NEW l \in Logs \cup {"runtime log"}, Exists(fs, l)
  PROVE  /\ Len(fs[l]) = 1 /\ IsTable(fs[l][1].rows)
         /\ fs[l][1].readable \in BOOLEAN /\ fs[l][1].summary \in BOOLEAN
<1>1. l \in File /\ l \notin {"source", "compiled"}
  BY DEF Logs, File
<1>2. QED
  BY <1>1 DEF AreFiles, IsContent, Exists

\* The rows listed are a table.
LEMMA RowsAreTable ==
  ASSUME NEW fs, AreFiles(fs), NEW l, IsLog(fs, l)
  PROVE  IsTable(RowsOf(fs, l))
<1>1. CASE IsRead(fs, l)
  BY <1>1, LogContent DEF IsLog, IsRead, RowsOf
<1>2. CASE ~IsRead(fs, l)
  BY <1>2, ListOfNone DEF RowsOf, IsTable
<1>3. QED
  BY <1>1, <1>2

\* In the metrics s the n rows of a log by one writer are reported after k
\* others, and then how many are mapped and how many are not.
Reported(s, k, n, mapped, by) ==
  /\ IsList(s)
  /\ \E i \in Nat : Those("memory_summary", s) \subseteq {i}
  /\ Those("operator_count", s) = k + 1 .. k + n
  /\ \A i \in DOMAIN s : s[i].value \in Nat
  /\ n # 0 =>
       /\ \A i \in k + 1 .. k + n : s[i].by = by
       /\ Those("ops_mapped_to_tpu", s) = {k + n + 1}
       /\ Those("ops_fallback_to_cpu", s) = {k + n + 2}
       /\ s[k + n + 1].value = mapped
       /\ s[k + n + 2].value = n - mapped

\* What is reported of the log that is listed, or of none.
LEMMA SamplesFacts ==
  ASSUME NEW fs, AreFiles(fs), NEW l, IsLog(fs, l)
  PROVE  \E k \in Nat :
           Reported(SamplesOf(fs, l), k, Len(RowsOf(fs, l)),
                    Cardinality(MappedIn(RowsOf(fs, l))), fs[l][1].by)
<1>1. CASE ~IsRead(fs, l)
  <2>1. SamplesOf(fs, l) = << >> /\ RowsOf(fs, l) = << >>
    BY <1>1, SamplesAre DEF RowsOf
  <2>2. IsList(<< >>) /\ Len(<< >>) = 0 /\ DOMAIN << >> = {}
    BY ListOfNone
  <2>3. \A name : Those(name, << >>) = {}
    BY <2>2 DEF Those
  <2>4. 0 + 1 .. 0 + 0 = {} /\ 0 \in Nat
    OBVIOUS
  <2>5. \A m, by : Reported(<< >>, 0, 0, m, by)
    BY <2>2, <2>3, <2>4 DEF Reported
  <2>6. QED
    BY <2>1, <2>2, <2>4, <2>5
<1>2. CASE IsRead(fs, l)
  <2>1. PICK log : log = fs[l][1]
    OBVIOUS
  <2>2. IsTable(log.rows) /\ log.summary \in BOOLEAN /\ l # ""
    BY <1>2, <2>1, LogContent DEF IsLog, IsRead
  <2>3. PICK s : s = ToMetricSamples(log)
    OBVIOUS
  <2>4. PICK rows : rows = log.rows
    OBVIOUS
  <2>5. PICK n \in Nat : n = Len(rows)
    BY <2>2, <2>4, TableFacts
  <2>6. PICK k \in {0, 1} :
          /\ IsList(s)
          /\ Those("memory_summary", s) = 1 .. k
          /\ Those("operator_count", s) = k + 1 .. k + n
          /\ \A i \in k + 1 .. k + n : s[i].by = log.by
          /\ \A i \in DOMAIN s : s[i].value \in Nat
          /\ n # 0 =>
               /\ Those("ops_mapped_to_tpu", s) = {k + n + 1}
               /\ Those("ops_fallback_to_cpu", s) = {k + n + 2}
               /\ s[k + n + 1].value = Cardinality(MappedIn(rows))
               /\ s[k + n + 2].value = n - Cardinality(MappedIn(rows))
    BY <2>2, <2>3, <2>4, <2>5, SamplesOfLog, ZenonT(30)
  <2>7. 1 .. k \subseteq {1} /\ 1 \in Nat /\ k \in Nat
    OBVIOUS
  <2>8. SamplesOf(fs, l) = s /\ RowsOf(fs, l) = rows
    BY <1>2, <2>1, <2>3, <2>4, SamplesAre DEF RowsOf
  <2>9. Reported(s, k, n, Cardinality(MappedIn(rows)), log.by)
    BY <2>6, <2>7 DEF Reported
  <2>10. QED
    BY <2>1, <2>5, <2>7, <2>8, <2>9
<1>3. QED
  BY <1>1, <1>2

\* The parts around it, with names of their own.
LEMMA OtherParts ==
  ASSUME NEW inputs, NEW s, NEW fs
  PROVE  /\ IsList(CommandPart(inputs, s)) /\ IsList(ParameterPart(fs))
         /\ \A i \in DOMAIN CommandPart(inputs, s) :
              CommandPart(inputs, s)[i].name = "exit_code" /\ CommandPart(inputs, s)[i].value = 0
         /\ \A i \in DOMAIN ParameterPart(fs) :
              /\ ParameterPart(fs)[i].name = "model_parameter_bytes"
              /\ ParameterPart(fs)[i].value = 1
<1>1. PICK a : a = Metric("exit_code", 0, s)
  OBVIOUS
<1>2. a.name = "exit_code" /\ a.value = 0
  BY <1>1 DEF Metric
<1>3. CommandPart(inputs, s) = << >> \/ CommandPart(inputs, s) = <<a>>
  BY <1>1 DEF CommandPart
<1>4. PICK b : b = Metric("model_parameter_bytes", 1, fs["source"][1].by)
  OBVIOUS
<1>5. b.name = "model_parameter_bytes" /\ b.value = 1
  BY <1>4 DEF Metric
<1>6. ParameterPart(fs) = << >> \/ ParameterPart(fs) = <<b>>
  BY <1>4 DEF ParameterPart
<1>7. QED
  BY <1>2, <1>3, <1>5, <1>6, ListOfOne, ListOfNone

\* Where a compile's report has the metrics of the log.
LEMMA ReportFacts ==
  ASSUME NEW inputs, NEW s, NEW fs, AreFiles(fs), NEW l, IsLog(fs, l)
  PROVE  \E k \in Nat :
           Reported(Report(inputs, s, fs, l), k, Len(RowsOf(fs, l)),
                    Cardinality(MappedIn(RowsOf(fs, l))), fs[l][1].by)
<1>1. PICK a : a = CommandPart(inputs, s)
  OBVIOUS
<1>2. PICK b : b = SamplesOf(fs, l)
  OBVIOUS
<1>3. PICK c : c = ParameterPart(fs)
  OBVIOUS
<1>4. PICK mapped : mapped = Cardinality(MappedIn(RowsOf(fs, l)))
  OBVIOUS
<1>5. PICK n \in Nat : n = Len(RowsOf(fs, l))
  BY RowsAreTable, TableFacts
<1>6. PICK by : by = fs[l][1].by
  OBVIOUS
<1>7. PICK k \in Nat : Reported(b, k, n, mapped, by)
  BY <1>2, <1>4, <1>5, <1>6, SamplesFacts
<1>8. /\ IsList(a) /\ IsList(b) /\ IsList(c)
      /\ \A i \in DOMAIN a : a[i].name = "exit_code" /\ a[i].value = 0
      /\ \A i \in DOMAIN c : c[i].name = "model_parameter_bytes" /\ c[i].value = 1
  BY <1>1, <1>3, <1>7, OtherParts DEF Reported
<1>9. PICK p \in Nat : p = Len(a)
  BY <1>8, ListFacts
<1>10. PICK q \in Nat : q = Len(b)
  BY <1>8, ListFacts
<1>11. PICK r \in Nat : r = Len(c)
  BY <1>8, ListFacts
<1>12. PICK ab : ab = a \o b
  OBVIOUS
<1>13. PICK cm : cm = ab \o c
  OBVIOUS
<1>14. Report(inputs, s, fs, l) = cm
  BY <1>1, <1>2, <1>3, <1>12, <1>13 DEF Report
<1>15. /\ IsList(ab) /\ Len(ab) = p + q /\ DOMAIN ab = 1 .. p + q
       /\ DOMAIN a = 1 .. p /\ DOMAIN b = 1 .. q
       /\ \A i \in 1 .. p : ab[i] = a[i]
       /\ \A i \in 1 .. q : ab[p + i] = b[i]
  <2>1. /\ IsList(a \o b) /\ Len(a \o b) = Len(a) + Len(b)
        /\ DOMAIN a = 1 .. Len(a) /\ DOMAIN b = 1 .. Len(b)
        /\ DOMAIN (a \o b) = 1 .. Len(a) + Len(b)
        /\ \A i \in 1 .. Len(a) : (a \o b)[i] = a[i]
        /\ \A i \in 1 .. Len(b) : (a \o b)[Len(a) + i] = b[i]
    BY <1>8, ListConcat
  <2>2. QED
    BY <1>9, <1>10, <1>12, <2>1
<1>16. /\ IsList(cm) /\ DOMAIN cm = 1 .. (p + q) + r /\ DOMAIN c = 1 .. r
       /\ \A i \in 1 .. p + q : cm[i] = ab[i]
       /\ \A i \in 1 .. r : cm[(p + q) + i] = c[i]
  <2>1. /\ IsList(ab \o c) /\ DOMAIN c = 1 .. Len(c)
        /\ DOMAIN (ab \o c) = 1 .. Len(ab) + Len(c)
        /\ \A i \in 1 .. Len(ab) : (ab \o c)[i] = ab[i]
        /\ \A i \in 1 .. Len(c) : (ab \o c)[Len(ab) + i] = c[i]
    BY <1>8, <1>15, ListConcat
  <2>2. QED
    BY <1>11, <1>13, <1>15, <2>1
<1>17. \A name \in {"memory_summary", "operator_count", "ops_mapped_to_tpu",
                    "ops_fallback_to_cpu"} : Those(name, cm) = Shift(p, Those(name, b))
  <2>1. SUFFICES ASSUME NEW name \in {"memory_summary", "operator_count", "ops_mapped_to_tpu",
                                      "ops_fallback_to_cpu"}
                 PROVE  Those(name, cm) = Shift(p, Those(name, b))
    OBVIOUS
  <2>2. Those(name, a) = {} /\ Those(name, c) = {}
    BY <1>8, <2>1 DEF Those
  <2>3. Those(name, a \o b) = Those(name, a) \cup Shift(Len(a), Those(name, b))
    BY <1>8, ThoseConcat
  <2>4. Those(name, ab \o c) = Those(name, ab) \cup Shift(Len(ab), Those(name, c))
    BY <1>8, <1>15, ThoseConcat
  <2>5. Shift(Len(ab), {}) = {}
    BY DEF Shift
  <2>6. Those(name, ab) = Shift(p, Those(name, b))
    BY <1>9, <1>12, <2>2, <2>3
  <2>7. QED
    BY <1>13, <2>2, <2>4, <2>5, <2>6
<1>18. \A i \in 1 .. q : cm[p + i] = b[i] /\ p + i \in DOMAIN cm
  <2>1. SUFFICES ASSUME NEW i \in 1 .. q
                 PROVE  cm[p + i] = b[i] /\ p + i \in DOMAIN cm
    OBVIOUS
  <2>2. p + i \in 1 .. p + q /\ p + i \in 1 .. (p + q) + r
    OBVIOUS
  <2>3. QED
    BY <1>15, <1>16, <2>2
<1>19. PICK j \in Nat : j = p + k
  OBVIOUS
<1>20. Those("operator_count", cm) = j + 1 .. j + n
  <2>1. Those("operator_count", b) = k + 1 .. k + n
    BY <1>7 DEF Reported
  <2>2. \A i \in k + 1 .. k + n : p + i \in j + 1 .. j + n
    BY <1>19
  <2>3. \A i \in j + 1 .. j + n : i - p \in k + 1 .. k + n /\ i = p + (i - p)
    BY <1>19
  <2>4. Shift(p, k + 1 .. k + n) = j + 1 .. j + n
    BY <2>2, <2>3 DEF Shift
  <2>5. QED
    BY <1>17, <2>1, <2>4
<1>21. \E i \in Nat : Those("memory_summary", cm) \subseteq {i}
  <2>1. PICK i \in Nat : Those("memory_summary", b) \subseteq {i}
    BY <1>7 DEF Reported
  <2>2. Shift(p, Those("memory_summary", b)) \subseteq {p + i} /\ p + i \in Nat
    BY <2>1 DEF Shift
  <2>3. QED
    BY <1>17, <2>2
<1>22. ASSUME n # 0
       PROVE  /\ \A i \in j + 1 .. j + n : cm[i].by = by
              /\ Those("ops_mapped_to_tpu", cm) = {j + n + 1}
              /\ Those("ops_fallback_to_cpu", cm) = {j + n + 2}
              /\ cm[j + n + 1].value = mapped
              /\ cm[j + n + 2].value = n - mapped
  <2>1. /\ \A i \in k + 1 .. k + n : b[i].by = by
        /\ Those("operator_count", b) = k + 1 .. k + n
        /\ Those("ops_mapped_to_tpu", b) = {k + n + 1}
        /\ Those("ops_fallback_to_cpu", b) = {k + n + 2}
        /\ b[k + n + 1].value = mapped
        /\ b[k + n + 2].value = n - mapped
    BY <1>7, <1>22 DEF Reported
  <2>2. ASSUME NEW i \in j + 1 .. j + n
        PROVE  cm[i].by = by
    <3>1. i - p \in k + 1 .. k + n /\ i = p + (i - p)
      BY <1>19
    <3>2. PICK h \in k + 1 .. k + n : i = p + h
      BY <3>1
    <3>3. h \in 1 .. q
      BY <1>15, <2>1 DEF Those
    <3>4. cm[i] = b[h]
      BY <1>18, <3>2, <3>3
    <3>5. QED
      BY <2>1, <3>4
  <2>3. k + n + 1 \in 1 .. q /\ k + n + 2 \in 1 .. q
    BY <1>15, <2>1 DEF Those
  <2>4. p + (k + n + 1) = j + n + 1 /\ p + (k + n + 2) = j + n + 2
    BY <1>19
  <2>5. cm[j + n + 1] = b[k + n + 1] /\ cm[j + n + 2] = b[k + n + 2]
    BY <1>18, <2>3, <2>4
  <2>6. Shift(p, {k + n + 1}) = {p + (k + n + 1)} /\ Shift(p, {k + n + 2}) = {p + (k + n + 2)}
    BY DEF Shift
  <2>7. /\ Those("ops_mapped_to_tpu", cm) = {j + n + 1}
        /\ Those("ops_fallback_to_cpu", cm) = {j + n + 2}
    BY <1>17, <2>1, <2>4, <2>6
  <2>8. QED
    BY <2>1, <2>2, <2>5, <2>7
<1>23. \A i \in DOMAIN cm : cm[i].value \in Nat
  <2>1. SUFFICES ASSUME NEW i \in 1 .. (p + q) + r
                 PROVE  cm[i].value \in Nat
    BY <1>16
  <2>2. CASE i \in 1 .. p
    <3>1. i \in 1 .. p + q
      BY <2>2
    <3>2. cm[i] = a[i]
      BY <1>15, <1>16, <2>2, <3>1
    <3>3. QED
      BY <1>8, <1>15, <2>2, <3>2
  <2>3. ASSUME NEW h \in 1 .. q, i = p + h
        PROVE  cm[i].value \in Nat
    <3>1. \A x \in DOMAIN b : b[x].value \in Nat
      BY <1>7 DEF Reported
    <3>2. b[h].value \in Nat
      BY <1>15, <2>3, <3>1
    <3>3. QED
      BY <1>18, <2>3, <3>2
  <2>4. ASSUME NEW h \in 1 .. r, i = (p + q) + h
        PROVE  cm[i].value \in Nat
    <3>1. c[h].value = 1
      BY <1>8, <1>16, <2>4
    <3>2. cm[(p + q) + h] = c[h]
      BY <1>16, <2>4
    <3>3. QED
      BY <2>4, <3>1, <3>2
  <2>5. \/ i \in 1 .. p
        \/ i - p \in 1 .. q /\ i = p + (i - p)
        \/ i - (p + q) \in 1 .. r /\ i = (p + q) + (i - (p + q))
    OBVIOUS
  <2>6. QED
    BY <2>2, <2>3, <2>4, <2>5
<1>24. Reported(cm, j, n, mapped, by)
  BY <1>16, <1>20, <1>21, <1>22, <1>23 DEF Reported
<1>25. QED
  BY <1>4, <1>5, <1>6, <1>14, <1>24

-----------------------------------------------------------------------------
(* The invariant of the Edge TPU. *)

\* What has a type, in any session and between two.
EdgeTypes ==
  /\ EdgeTpuTypeOK
  /\ AreFiles(files) /\ IsTable(operators_)
  /\ runtime_inputs \in {<< >>, <<"runtime log">>}

\* The log and the operators at every call.
EdgeStage ==
  /\ at # "idle" => IsLog(files, log_resolved)
  /\ at \in {"CompileBegin", "CompileEnd"} =>
       outputs = NotEmpty(log_resolved) /\ compile_metrics = << >>
  /\ Compiled =>
       /\ outputs = NotEmpty(log_resolved) \o SourcePart(files)
       /\ compile_metrics = Report(given, session, files, log_resolved)
       /\ metadata_ops = BuiltModel(files, operators_) /\ model_ = metadata_ops
  /\ Compiled /\ clean => operators_ = RowsOf(files, log_resolved)
  /\ ~Compiled /\ clean => operators_ = << >>

\* The runtime metrics at every call.
EdgeMetrics ==
  /\ at \in {"CompileBegin", "CompileEnd", "LoadBegin", "LoadEnd"} => runtime_metrics = << >>
  /\ at \in {"RunBegin", "RunEnd", "Shutdown"} =>
       /\ IsList(runtime_metrics)
       /\ Those("graph_nodes", runtime_metrics) = {1}
       /\ runtime_metrics[1].value = Len(metadata_ops)

EdgeInv == EdgeTypes /\ EdgeStage /\ EdgeMetrics

\* A call of the driver or of another caller, with any inputs.
EdgeAction ==
  \/ \E inputs : InitializeSession(inputs) /\ (NewAdapter \/ SameAdapter)
  \/ PrepareArtifacts \/ Begins \/ CompileEnd \/ LoadEnd \/ RunEnd \/ Shutdown \/ Abandon

\* Sequences of no element or one, and two of them one after the other.
Short(T, a) == a \in Seq(T) /\ Len(a) <= 1

Joins(a, b, S) ==
  /\ Len(a \o b) <= 2
  /\ ToSet(a \o b) = ToSet(a) \cup ToSet(b)
  /\ Among(a, S) = a /\ Among(b, S) = << >> => Among(a \o b, S) = a

\* A list of one element is short.
LEMMA OneIn ==
  ASSUME NEW T, NEW e \in T
  PROVE  Short(T, <<e>>) /\ ToSet(<<e>>) = {e}
<1>1. <<e>> \in Seq(T)
  OBVIOUS
<1>2. ToSet(<<e>>) = {e}
  BY ListOfOne DEF ToSet
<1>3. Len(<<e>>) <= 1
  OBVIOUS
<1>4. QED
  BY <1>1, <1>2, <1>3 DEF Short

\* So is the empty list.
LEMMA NoneIn == ToSet(<< >>) = {} /\ \A T : Short(T, << >>)
<1>1. ToSet(<< >>) = {}
  BY ListOfNone DEF ToSet
<1>2. \A T : << >> \in Seq(T)
  OBVIOUS
<1>3. Len(<< >>) <= 1
  OBVIOUS
<1>4. QED
  BY <1>1, <1>2, <1>3 DEF Short

\* What is among two short lists is what is among either.
LEMMA TwoParts ==
  ASSUME NEW T, NEW a, NEW b, Short(T, a), Short(T, b), NEW S
  PROVE  Joins(a, b, S)
<1>1. a \in Seq(T) /\ b \in Seq(T) /\ Len(a) <= 1 /\ Len(b) <= 1
  BY DEF Short
<1>2. IsList(a) /\ IsList(b)
  BY <1>1, SeqIsList
<1>3. Len(a \o b) = Len(a) + Len(b) /\ Len(a) \in Nat /\ Len(b) \in Nat
  BY <1>2, ListConcat
<1>4. Len(a \o b) <= 2
  BY <1>1, <1>3
<1>5. ToSet(a \o b) = ToSet(a) \cup ToSet(b)
  BY <1>2, ConcatSet
<1>6. Among(a \o b, S) = Among(a, S) \o Among(b, S)
  BY <1>1, AmongConcat
<1>7. a \o << >> = a
  BY <1>1, ConcatEmptySeq
<1>8. QED
  BY <1>4, <1>5, <1>6, <1>7 DEF Joins

\* What is listed after a compile: the log, if there is one, and the source.
LEMMA Listed ==
  ASSUME NEW fs, NEW l, l = "" \/ l \in Logs
  PROVE  LET o == NotEmpty(l) \o SourcePart(fs)
         IN /\ Len(o) <= 2 /\ ToSet(o) \subseteq Logs \cup {"source"}
            /\ Among(o, Logs) = NotEmpty(l)
            /\ ToSet(o) \cap Logs = IF l = "" THEN {} ELSE {l}
            /\ "source" \in ToSet(o) <=> HasGraph(fs)
<1>1. PICK T : T = Logs \cup {"source"}
  OBVIOUS
<1>2. "source" \notin Logs /\ "" \notin Logs
  BY DEF Logs
<1>3. /\ Short(T, NotEmpty(l))
      /\ ToSet(NotEmpty(l)) = IF l = "" THEN {} ELSE {l}
      /\ Among(NotEmpty(l), Logs) = NotEmpty(l)
  <2>1. CASE l = ""
    <3>1. NotEmpty(l) = << >>
      BY <2>1 DEF NotEmpty
    <3>2. QED
      BY <2>1, <3>1, NoneIn, AmongNone
  <2>2. CASE l # ""
    <3>1. NotEmpty(l) = <<l>> /\ l \in T /\ l \in Logs
      BY <1>1, <2>2 DEF NotEmpty
    <3>2. Short(T, <<l>>) /\ ToSet(<<l>>) = {l}
      BY <3>1, OneIn
    <3>3. Among(<<l>>, Logs) = <<l>>
      BY <3>1, AmongOne
    <3>4. QED
      BY <2>2, <3>1, <3>2, <3>3
  <2>3. QED
    BY <2>1, <2>2
<1>4. /\ Short(T, SourcePart(fs))
      /\ ToSet(SourcePart(fs)) = IF HasGraph(fs) THEN {"source"} ELSE {}
      /\ Among(SourcePart(fs), Logs) = << >>
  <2>1. CASE ~HasGraph(fs)
    <3>1. SourcePart(fs) = << >>
      BY <2>1 DEF SourcePart
    <3>2. QED
      BY <2>1, <3>1, NoneIn, AmongNone
  <2>2. CASE HasGraph(fs)
    <3>1. SourcePart(fs) = <<"source">> /\ "source" \in T
      BY <1>1, <2>2 DEF SourcePart
    <3>2. Short(T, <<"source">>) /\ ToSet(<<"source">>) = {"source"}
      BY <3>1, OneIn
    <3>3. Among(<<"source">>, Logs) = << >>
      BY <1>2, AmongOne
    <3>4. QED
      BY <2>2, <3>1, <3>2, <3>3
  <2>3. QED
    BY <2>1, <2>2
<1>5. Joins(NotEmpty(l), SourcePart(fs), Logs)
  BY <1>3, <1>4, TwoParts
<1>6. PICK o : o = NotEmpty(l) \o SourcePart(fs)
  OBVIOUS
<1>7. /\ Len(o) <= 2 /\ ToSet(o) = ToSet(NotEmpty(l)) \cup ToSet(SourcePart(fs))
      /\ Among(o, Logs) = NotEmpty(l)
  BY <1>3, <1>4, <1>5, <1>6 DEF Joins
<1>8. /\ ToSet(o) \subseteq Logs \cup {"source"}
      /\ ToSet(o) \cap Logs = IF l = "" THEN {} ELSE {l}
      /\ "source" \in ToSet(o) <=> HasGraph(fs)
  BY <1>2, <1>3, <1>4, <1>7
<1>9. QED
  BY <1>6, <1>7, <1>8

\* What a file holds is one content or none.
LEMMA FilesAreShort ==
  ASSUME NEW fs, AreFiles(fs)
  PROVE  \A f \in File : Len(fs[f]) <= 1
<1>1. SUFFICES ASSUME NEW f \in File
               PROVE  Len(fs[f]) <= 1
  OBVIOUS
<1>2. PICK c : c = fs[f]
  OBVIOUS
<1>3. c = << >> \/ Len(c) = 1
  BY <1>2 DEF AreFiles
<1>4. CASE c = << >>
  BY <1>2, <1>4, NoneIn DEF Short
<1>5. CASE Len(c) = 1
  BY <1>2, <1>5
<1>6. QED
  BY <1>3, <1>4, <1>5

\* Nothing in front of a list and nothing behind it.
LEMMA NothingBefore ==
  ASSUME NEW s, IsList(s)
  PROVE  << >> \o s = s
<1>1. PICK T : s \in Seq(T)
  BY ListFacts
<1>2. QED
  BY <1>1, ConcatEmptySeq

\* Nothing is added by concatenating nothing.
LEMMA NothingAfter ==
  ASSUME NEW s, IsList(s)
  PROVE  s \o << >> = s
<1>1. PICK T : s \in Seq(T)
  BY ListFacts
<1>2. QED
  BY <1>1, ConcatEmptySeq

\* The operators of a model have a tag.
LEMMA BuiltTags ==
  ASSUME NEW fs, NEW rows
  PROVE  \A i \in DOMAIN BuiltModel(fs, rows) :
           BuiltModel(fs, rows)[i].stage_tag \in {"edgetpu", "cpu_fallback"}
BY DEF BuiltModel, BuildModelFromGraph, BuildModelFromOperators, Tag

\* A derived log is there.
LEMMA DerivedIsLog ==
  ASSUME NEW fs
  PROVE  IsLog(fs, DerivedLog(fs)) /\ DerivedLog(fs) \in Logs \cup {""}
BY DEF IsLog, DerivedLog, Logs

\* The files after a command are files, and what was there still is.
LEMMA CommandKeeps ==
  ASSUME NEW rc, AreFiles(files), EdgeTpuAssumption, MaybeCompile(rc)
  PROVE  AreFiles(files') /\ \A f \in File : Exists(files, f) => Exists(files', f)
<1>1. CASE UNCHANGED files
  BY <1>1
<1>2. CASE Command
  <2>1. PICK table \in Tables, written \in SUBSET {"compiled", "summary log", "operator log"} :
          files' = [f \in File |->
                IF f \notin written THEN files[f]
                ELSE IF f = "compiled" THEN <<[by |-> session, ops |-> << >>]>>
                ELSE <<[by |-> session, readable |-> TRUE, rows |-> table,
                        summary |-> f = "summary log"]>>]
    BY <1>2 DEF Command
  <2>2. SUFFICES ASSUME NEW f \in File
                 PROVE  /\ files'[f] # << >> => Len(files'[f]) = 1 /\ IsContent(f, files'[f][1])
                        /\ Exists(files, f) => Exists(files', f)
    BY DEF AreFiles
  <2>3. CASE f \notin written
    <3>1. files'[f] = files[f]
      BY <2>1, <2>3
    <3>2. QED
      BY <3>1 DEF AreFiles, Exists
  <2>4. CASE f \in written /\ f = "compiled"
    <3>1. PICK c : c = [by |-> session, ops |-> << >>]
      OBVIOUS
    <3>2. files'[f] = <<c>>
      BY <2>1, <2>4, <3>1
    <3>3. c.ops = << >>
      BY <3>1
    <3>4. IsContent(f, c)
      BY <2>4, <3>3, ListOfNone DEF IsContent
    <3>5. Len(<<c>>) = 1 /\ <<c>>[1] = c
      BY ListOfOne
    <3>6. <<c>> # << >>
      BY <3>5, ListOfNone
    <3>7. QED
      BY <3>2, <3>4, <3>5, <3>6 DEF Exists
  <2>5. CASE f \in written /\ f # "compiled"
    <3>1. PICK c : c = [by |-> session, readable |-> TRUE, rows |-> table,
                        summary |-> f = "summary log"]
      OBVIOUS
    <3>2. files'[f] = <<c>>
      BY <2>1, <2>5, <3>1
    <3>3. c.rows = table /\ c.readable = TRUE /\ c.summary \in BOOLEAN
      BY <3>1
    <3>4. f \notin {"source", "compiled"}
      BY <2>5
    <3>5. IsTable(table)
      BY DEF EdgeTpuAssumption
    <3>6. IsContent(f, c)
      BY <3>3, <3>4, <3>5 DEF IsContent
    <3>7. Len(<<c>>) = 1 /\ <<c>>[1] = c
      BY ListOfOne
    <3>8. <<c>> # << >>
      BY <3>7, ListOfNone
    <3>9. QED
      BY <3>2, <3>6, <3>7, <3>8 DEF Exists
  <2>6. QED
    BY <2>3, <2>4, <2>5
<1>3. QED
  BY <1>1, <1>2 DEF MaybeCompile

-----------------------------------------------------------------------------
(* The steps of the Edge TPU. *)

\* It holds when a process starts.
LEMMA EdgeInit ==
  ASSUME Init, EdgeTpuAssumption
  PROVE  EdgeInv
<1>1. AreFiles(files) /\ \A f \in File : Len(files[f]) <= 1
  <2>1. AreFiles(files)
    BY DEF Init, EdgeTpuAssumption
  <2>2. QED
    BY <2>1, FilesAreShort
<1>2. /\ session = 0 /\ at = "idle" /\ clean = TRUE /\ log_resolved = ""
      /\ runtime_log_resolved = "" /\ outputs = << >> /\ compile_metrics = << >>
      /\ runtime_inputs = << >> /\ runtime_metrics = << >> /\ model_ = << >>
      /\ operators_ = << >>
  BY DEF Init
<1>3. Len(<< >>) <= 2 /\ ToSet(<< >>) = {} /\ DOMAIN << >> = {}
  BY ListOfNone, NoneIn
<1>4. 0 \in 0 .. MaxSessions
  BY DEF EdgeTpuAssumption
<1>5. EdgeTpuTypeOK
  BY <1>1, <1>2, <1>3, <1>4 DEF EdgeTpuTypeOK, Calls
<1>6. IsTable(operators_)
  BY <1>2, ListOfNone DEF IsTable
<1>7. EdgeTypes
  BY <1>1, <1>2, <1>5, <1>6 DEF EdgeTypes
<1>8. EdgeStage /\ EdgeMetrics
  BY <1>2 DEF EdgeStage, EdgeMetrics, Compiled
<1>9. QED
  BY <1>7, <1>8 DEF EdgeInv

\* A session starts.
LEMMA EdgeStarts ==
  ASSUME EdgeInv, EdgeTpuAssumption, NEW inputs, InitializeSession(inputs),
         NewAdapter \/ SameAdapter
  PROVE  EdgeInv'
<1>1. /\ at = "idle" /\ at' = "PrepareArtifacts" /\ session' = session + 1
      /\ session < MaxSessions /\ files' = files /\ log_resolved' = FoundLog(files, given')
      /\ runtime_log_resolved' \in {"", "runtime log"}
      /\ outputs' = << >> /\ compile_metrics' = << >>
      /\ runtime_inputs' = << >> /\ runtime_metrics' = << >>
  BY DEF InitializeSession
<1>2. /\ clean' \in BOOLEAN
      /\ clean' => operators_' = << >>
      /\ model_' = << >> \/ model_' = model_
      /\ operators_' = << >> \/ operators_' = operators_
  <2>1. CASE NewAdapter
    BY <2>1 DEF NewAdapter
  <2>2. CASE SameAdapter
    <3>1. clean' = clean /\ operators_' = operators_ /\ model_' = model_
      BY <2>2 DEF SameAdapter, adapterVars
    <3>2. clean \in BOOLEAN /\ (clean => operators_ = << >>)
      BY <1>1 DEF EdgeInv, EdgeTypes, EdgeStage, EdgeTpuTypeOK, Compiled
    <3>3. QED
      BY <3>1, <3>2
  <2>3. QED
    BY <2>1, <2>2
<1>3. IsLog(files, log_resolved') /\ log_resolved' \in Logs \cup {""}
  BY <1>1, DerivedIsLog DEF FoundLog, IsLog, Logs
<1>4. session' \in 0 .. MaxSessions
  <2>1. session \in 0 .. MaxSessions
    BY DEF EdgeInv, EdgeTypes, EdgeTpuTypeOK
  <2>2. MaxSessions \in Nat
    BY DEF EdgeTpuAssumption
  <2>3. session' = session + 1 /\ session < MaxSessions
    BY <1>1
  <2>4. QED
    BY <2>1, <2>2, <2>3
<1>5. Len(<< >>) <= 2 /\ ToSet(<< >>) = {} /\ DOMAIN << >> = {}
  BY ListOfNone, NoneIn
<1>6. \A i \in DOMAIN model_' : model_'[i].stage_tag \in {"edgetpu", "cpu_fallback"}
  BY <1>2, <1>5 DEF EdgeInv, EdgeTypes, EdgeTpuTypeOK
<1>7. IsTable(operators_')
  <2>1. IsTable(<< >>)
    BY ListOfNone DEF IsTable
  <2>2. IsTable(operators_)
    BY DEF EdgeInv, EdgeTypes
  <2>3. QED
    BY <1>2, <2>1, <2>2
<1>8. AreFiles(files) /\ \A f \in File : Len(files[f]) <= 1
  BY DEF EdgeInv, EdgeTypes, EdgeTpuTypeOK
<1>9. EdgeTpuTypeOK'
  BY <1>1, <1>2, <1>3, <1>4, <1>5, <1>6, <1>8 DEF EdgeTpuTypeOK, Calls
<1>10. EdgeTypes'
  BY <1>1, <1>7, <1>8, <1>9 DEF EdgeTypes
<1>11. EdgeStage' /\ EdgeMetrics'
  BY <1>1, <1>2, <1>3 DEF EdgeStage, EdgeMetrics, Compiled
<1>12. QED
  BY <1>10, <1>11 DEF EdgeInv

\* The steps that leave files and adapter alone keep their part of it.
LEMMA EdgeSame ==
  ASSUME EdgeInv, UNCHANGED <<session, files, resolvedVars>>,
         at' \in Calls, clean' \in BOOLEAN,
         Len(outputs') <= 2, ToSet(outputs') \subseteq Logs \cup {"source"},
         runtime_inputs' \in {<< >>, <<"runtime log">>},
         \A i \in DOMAIN compile_metrics' : compile_metrics'[i].value \in Nat,
         model_' = model_ \/ model_' = << >>, operators_' = operators_ \/ operators_' = << >>
  PROVE  EdgeTypes'
<1>1. ToSet(<< >>) = {} /\ DOMAIN << >> = {} /\ IsTable(<< >>)
  BY ListOfNone, NoneIn DEF IsTable
<1>2. ToSet(<<"runtime log">>) = {"runtime log"}
  BY OneIn
<1>3. ToSet(runtime_inputs') \subseteq {"runtime log"}
  BY <1>1, <1>2
<1>4. \A i \in DOMAIN model_' : model_'[i].stage_tag \in {"edgetpu", "cpu_fallback"}
  BY <1>1 DEF EdgeInv, EdgeTypes, EdgeTpuTypeOK
<1>5. /\ session \in 0 .. MaxSessions /\ \A f \in File : Len(files[f]) <= 1
      /\ log_resolved \in Logs \cup {""} /\ runtime_log_resolved \in {"", "runtime log"}
  BY DEF EdgeInv, EdgeTypes, EdgeTpuTypeOK
<1>6. /\ session' = session /\ files' = files /\ log_resolved' = log_resolved
      /\ runtime_log_resolved' = runtime_log_resolved
  BY DEF resolvedVars
<1>7. EdgeTpuTypeOK'
  BY <1>3, <1>4, <1>5, <1>6 DEF EdgeTpuTypeOK
<1>8. AreFiles(files') /\ IsTable(operators_')
  BY <1>1, <1>6 DEF EdgeInv, EdgeTypes
<1>9. QED
  BY <1>7, <1>8 DEF EdgeTypes

\* The artifacts are prepared.
LEMMA EdgePrepares ==
  ASSUME EdgeInv, PrepareArtifacts
  PROVE  EdgeInv'
<1>1. /\ at = "PrepareArtifacts" /\ at' \in {"idle", "CompileBegin"}
      /\ outputs' = IF at' = "idle" \/ log_resolved = "" THEN << >> ELSE <<log_resolved>>
      /\ runtime_inputs' = IF at' = "idle" \/ runtime_log_resolved = "" THEN << >>
                           ELSE <<runtime_log_resolved>>
      /\ compile_metrics' = << >> /\ runtime_metrics' = << >>
  BY DEF PrepareArtifacts
<1>2. /\ session' = session /\ clean' = clean /\ files' = files
      /\ log_resolved' = log_resolved /\ runtime_log_resolved' = runtime_log_resolved
      /\ model_' = model_ /\ operators_' = operators_
  BY DEF PrepareArtifacts, settingVars, resolvedVars, adapterVars
<1>3. /\ clean \in BOOLEAN /\ log_resolved \in Logs \cup {""}
      /\ runtime_log_resolved \in {"", "runtime log"}
      /\ IsLog(files, log_resolved) /\ (clean => operators_ = << >>)
  BY <1>1 DEF EdgeInv, EdgeTypes, EdgeTpuTypeOK, EdgeStage, Compiled
<1>4. /\ ToSet(<< >>) = {} /\ DOMAIN << >> = {} /\ Len(<< >>) <= 2
      /\ Len(<<log_resolved>>) <= 2 /\ ToSet(<<log_resolved>>) = {log_resolved}
  <2>1. Len(<< >>) = 0 /\ Len(<<log_resolved>>) = 1
    BY ListOfNone, ListOfOne
  <2>2. ToSet(<<log_resolved>>) = {log_resolved}
    BY OneIn
  <2>3. QED
    BY <2>1, <2>2, ListOfNone, NoneIn
<1>5. Len(outputs') <= 2 /\ ToSet(outputs') \subseteq Logs \cup {"source"}
  BY <1>1, <1>3, <1>4
<1>6. EdgeTypes'
  <2>1. UNCHANGED <<session, files, resolvedVars>>
    BY <1>2 DEF resolvedVars
  <2>2. runtime_inputs' \in {<< >>, <<"runtime log">>}
    BY <1>1, <1>3
  <2>3. at' \in Calls
    BY <1>1 DEF Calls
  <2>4. \A i \in DOMAIN compile_metrics' : compile_metrics'[i].value \in Nat
    BY <1>1, <1>4
  <2>5. QED
    BY <1>2, <1>3, <1>5, <2>1, <2>2, <2>3, <2>4, EdgeSame
<1>7. EdgeStage'
  <2>1. at' = "CompileBegin" => outputs' = NotEmpty(log_resolved)
    BY <1>1 DEF NotEmpty
  <2>2. QED
    BY <1>1, <1>2, <1>3, <2>1 DEF EdgeStage, Compiled
<1>8. EdgeMetrics'
  BY <1>1 DEF EdgeMetrics
<1>9. QED
  BY <1>6, <1>7, <1>8 DEF EdgeInv

\* What does not change in a step keeps its type.
LEMMA EdgeKept ==
  ASSUME EdgeInv, UNCHANGED <<session, files, resolvedVars, compileVars, runtime_inputs>>,
         at' \in Calls, clean' \in BOOLEAN,
         model_' = model_ \/ model_' = << >>, operators_' = operators_ \/ operators_' = << >>
  PROVE  EdgeTypes'
<1>1. /\ outputs' = outputs /\ compile_metrics' = compile_metrics
      /\ runtime_inputs' = runtime_inputs
      /\ UNCHANGED <<session, files, resolvedVars>>
  BY DEF compileVars
<1>2. /\ Len(outputs) <= 2 /\ ToSet(outputs) \subseteq Logs \cup {"source"}
      /\ runtime_inputs \in {<< >>, <<"runtime log">>}
      /\ \A i \in DOMAIN compile_metrics : compile_metrics[i].value \in Nat
  BY DEF EdgeInv, EdgeTypes, EdgeTpuTypeOK
<1>3. QED
  BY <1>1, <1>2, EdgeSame

\* A call only checks its arguments.
LEMMA EdgeBegins ==
  ASSUME EdgeInv, Begins
  PROVE  EdgeInv'
<1>1. \/ at = "CompileBegin" /\ at' = "CompileEnd"
      \/ at = "LoadBegin" /\ at' = "LoadEnd"
      \/ at = "RunBegin" /\ at' = "RunEnd"
  BY DEF Begins
<1>2. UNCHANGED <<settingVars, files, resolvedVars, compileVars, runtimeVars, metadata_ops,
                  adapterVars>>
  BY DEF Begins
<1>3. UNCHANGED <<session, given, clean, files, log_resolved, outputs, compile_metrics,
                  runtime_inputs, runtime_metrics, metadata_ops, model_, operators_>>
  BY <1>2 DEF settingVars, resolvedVars, compileVars, runtimeVars, adapterVars
<1>4. EdgeTypes'
  <2>1. at' \in Calls
    BY <1>1 DEF Calls
  <2>2. clean \in BOOLEAN
    BY DEF EdgeInv, EdgeTypes, EdgeTpuTypeOK
  <2>3. QED
    BY <1>2, <1>3, <2>1, <2>2, EdgeKept
<1>5. EdgeStage'
  BY <1>1, <1>3 DEF EdgeInv, EdgeStage, Compiled
<1>6. EdgeMetrics'
  BY <1>1, <1>3 DEF EdgeInv, EdgeMetrics
<1>7. QED
  BY <1>4, <1>5, <1>6 DEF EdgeInv

\* The end of a session, shut down or left.
LEMMA EdgeEnds ==
  ASSUME EdgeInv, Shutdown \/ Abandon
  PROVE  EdgeInv'
<1>1. /\ at' = "idle" /\ UNCHANGED <<session, files, resolvedVars, compileVars, runtime_inputs>>
      /\ UNCHANGED log_resolved
      /\ \/ clean' = TRUE /\ operators_' = << >> /\ model_' = << >>
         \/ clean' = FALSE /\ operators_' = operators_ /\ model_' = model_
  BY DEF Shutdown, Abandon, runtimeVars, adapterVars, resolvedVars
<1>2. EdgeTypes'
  <2>1. at' \in Calls
    BY <1>1 DEF Calls
  <2>2. QED
    BY <1>1, <2>1, EdgeKept
<1>3. EdgeStage' /\ EdgeMetrics'
  BY <1>1 DEF EdgeStage, EdgeMetrics, Compiled
<1>4. QED
  BY <1>2, <1>3 DEF EdgeInv

\* The nodes of the model are counted.
LEMMA EdgeLoads ==
  ASSUME EdgeInv, LoadEnd
  PROVE  EdgeInv'
<1>1. /\ at = "LoadEnd" /\ at' = "RunBegin"
      /\ runtime_metrics' = Append(runtime_metrics, Metric("graph_nodes", Len(model_), session))
      /\ UNCHANGED <<settingVars, files, resolvedVars, compileVars, runtime_inputs, metadata_ops,
                     adapterVars>>
  BY DEF LoadEnd
<1>2. UNCHANGED <<session, given, clean, files, log_resolved, outputs, compile_metrics,
                  runtime_inputs, metadata_ops, model_, operators_>>
  BY <1>1 DEF settingVars, resolvedVars, compileVars, adapterVars
<1>3. EdgeTypes'
  <2>1. at' \in Calls
    BY <1>1 DEF Calls
  <2>2. clean \in BOOLEAN
    BY DEF EdgeInv, EdgeTypes, EdgeTpuTypeOK
  <2>3. QED
    BY <1>1, <1>2, <2>1, <2>2, EdgeKept
<1>4. EdgeStage'
  BY <1>1, <1>2 DEF EdgeInv, EdgeStage, Compiled
<1>5. EdgeMetrics'
  <2>1. runtime_metrics = << >> /\ model_ = metadata_ops
    BY <1>1 DEF EdgeInv, EdgeStage, EdgeMetrics, Compiled
  <2>2. PICK m : m = Metric("graph_nodes", Len(metadata_ops), session)
    OBVIOUS
  <2>3. runtime_metrics' = <<m>>
    <3>1. runtime_metrics' = Append(<< >>, m)
      BY <1>1, <2>1, <2>2
    <3>2. Append(<< >>, m) = <<m>>
      OBVIOUS
    <3>3. QED
      BY <3>1, <3>2
  <2>4. IsList(<<m>>) /\ DOMAIN <<m>> = {1} /\ <<m>>[1] = m
    BY ListOfOne
  <2>5. m.name = "graph_nodes" /\ m.value = Len(metadata_ops)
    BY <2>2 DEF Metric
  <2>6. Those("graph_nodes", <<m>>) = {1}
    BY <2>4, <2>5 DEF Those
  <2>7. /\ IsList(runtime_metrics') /\ Those("graph_nodes", runtime_metrics') = {1}
        /\ runtime_metrics'[1].value = Len(metadata_ops')
    BY <1>2, <2>3, <2>4, <2>5, <2>6
  <2>8. QED
    BY <1>1, <2>7 DEF EdgeMetrics
<1>6. QED
  BY <1>3, <1>4, <1>5 DEF EdgeInv

\* What can be read of a list of logs is a list.
LEMMA ReadIsList ==
  ASSUME NEW fs, NEW logs, IsList(logs)
  PROVE  IsList(ReadLogs(fs, logs))
<1>1. PICK T : logs \in Seq(T)
  BY ListFacts
<1>2. PICK S : S = {f \in ToSet(logs) : fs[f][1].readable}
  OBVIOUS
<1>3. Among(logs, S) \in Seq(T)
  BY <1>1, AmongFacts
<1>4. QED
  BY <1>2, <1>3, SeqIsList DEF ReadLogs

\* The log of the run is read.
LEMMA EdgeRuns ==
  ASSUME EdgeInv, RunEnd
  PROVE  EdgeInv'
<1>1. PICK read : read = ReadLogs(files, runtime_inputs)
  OBVIOUS
<1>2. PICK ms : ms = [i \in DOMAIN read |-> Metric("latency", 1, files[read[i]][1].by)]
  OBVIOUS
<1>3. /\ at = "RunEnd" /\ at' = "Shutdown" /\ runtime_metrics' = runtime_metrics \o ms
      /\ UNCHANGED <<settingVars, files, resolvedVars, compileVars, runtime_inputs, metadata_ops,
                     adapterVars>>
  BY <1>1, <1>2 DEF RunEnd
<1>4. UNCHANGED <<session, given, clean, files, log_resolved, outputs, compile_metrics,
                  runtime_inputs, metadata_ops, model_, operators_>>
  BY <1>3 DEF settingVars, resolvedVars, compileVars, adapterVars
<1>5. EdgeTypes'
  <2>1. at' \in Calls
    BY <1>3 DEF Calls
  <2>2. clean \in BOOLEAN
    BY DEF EdgeInv, EdgeTypes, EdgeTpuTypeOK
  <2>3. QED
    BY <1>3, <1>4, <2>1, <2>2, EdgeKept
<1>6. EdgeStage'
  BY <1>3, <1>4 DEF EdgeInv, EdgeStage, Compiled
<1>7. EdgeMetrics'
  <2>1. /\ IsList(runtime_metrics) /\ Those("graph_nodes", runtime_metrics) = {1}
        /\ runtime_metrics[1].value = Len(metadata_ops)
    BY <1>3 DEF EdgeInv, EdgeMetrics
  <2>2. IsList(runtime_inputs)
    BY ListOfOne, ListOfNone DEF EdgeInv, EdgeTypes
  <2>3. IsList(read)
    BY <1>1, <2>2, ReadIsList
  <2>4. PICK n \in Nat : DOMAIN read = 1 .. n
    BY <2>3, ListFacts
  <2>5. ms = [i \in 1 .. n |-> ms[i]]
    BY <1>2, <2>4
  <2>6. IsList(ms) /\ DOMAIN ms = 1 .. n
    BY <2>5, FunctionIsList
  <2>7. \A i \in DOMAIN ms : ms[i].name = "latency"
    BY <1>2 DEF Metric
  <2>8. Those("graph_nodes", ms) = {}
    BY <2>7 DEF Those
  <2>9. PICK rm : rm = runtime_metrics
    OBVIOUS
  <2>10. Those("graph_nodes", rm \o ms) = {1}
    <3>1. Those("graph_nodes", rm \o ms)
            = Those("graph_nodes", rm) \cup Shift(Len(rm), Those("graph_nodes", ms))
      BY <2>1, <2>6, <2>9, ThoseConcat
    <3>2. Shift(Len(rm), {}) = {}
      BY DEF Shift
    <3>3. QED
      BY <2>1, <2>8, <2>9, <3>1, <3>2
  <2>11. IsList(rm \o ms) /\ \A i \in 1 .. Len(rm) : (rm \o ms)[i] = rm[i]
    BY <2>1, <2>6, <2>9, ListConcat
  <2>12. 1 \in 1 .. Len(rm)
    <3>1. 1 \in DOMAIN rm
      BY <2>1, <2>9 DEF Those
    <3>2. QED
      BY <2>1, <2>9, <3>1, ListFacts
  <2>13. (rm \o ms)[1].value = Len(metadata_ops)
    BY <2>1, <2>9, <2>11, <2>12
  <2>14. /\ IsList(runtime_metrics') /\ Those("graph_nodes", runtime_metrics') = {1}
         /\ runtime_metrics'[1].value = Len(metadata_ops')
    BY <1>3, <1>4, <2>9, <2>10, <2>11, <2>13
  <2>15. QED
    BY <1>3, <2>14 DEF EdgeMetrics
<1>8. QED
  BY <1>5, <1>6, <1>7 DEF EdgeInv

\* The compile fails: what is listed stays, and the log's metrics are not read.
LEMMA EdgeFails ==
  ASSUME EdgeInv, EdgeTpuAssumption, at = "CompileEnd", at' = "idle",
         NEW rc \in {0, 1}, MaybeCompile(rc),
         compile_metrics' = compile_metrics \o CommandMetrics(rc),
         UNCHANGED <<log_resolved, outputs, metadata_ops, adapterVars>>,
         UNCHANGED <<settingVars, runtime_log_resolved, runtimeVars>>
  PROVE  EdgeInv'
<1>1. /\ outputs = NotEmpty(log_resolved) /\ compile_metrics = << >>
      /\ clean \in BOOLEAN /\ (clean => operators_ = << >>)
      /\ AreFiles(files)
  BY DEF EdgeInv, EdgeTypes, EdgeTpuTypeOK, EdgeStage, Compiled
<1>2. UNCHANGED <<session, clean, log_resolved, runtime_log_resolved, outputs, runtime_inputs,
                  model_, operators_>>
  BY DEF settingVars, runtimeVars, adapterVars
<1>3. AreFiles(files')
  BY <1>1, CommandKeeps
<1>4. \A f \in File : Len(files'[f]) <= 1
  BY <1>3, FilesAreShort
<1>5. \A i \in DOMAIN compile_metrics' : compile_metrics'[i].value \in Nat
  <2>1. PICK m : m = Metric("exit_code", rc, session)
    OBVIOUS
  <2>2. m.value = rc /\ rc \in Nat
    BY <2>1 DEF Metric
  <2>3. CommandMetrics(rc) = << >> \/ CommandMetrics(rc) = <<m>>
    BY <2>1 DEF CommandMetrics
  <2>4. PICK c : c = CommandMetrics(rc)
    OBVIOUS
  <2>5. IsList(c) /\ \A i \in DOMAIN c : c[i].value \in Nat
    <3>1. CASE c = << >>
      BY <3>1, ListOfNone
    <3>2. CASE c = <<m>>
      BY <2>2, <3>2, ListOfOne
    <3>3. QED
      BY <2>3, <2>4, <3>1, <3>2
  <2>6. << >> \o c = c
    BY <2>5, NothingBefore
  <2>7. compile_metrics' = c
    BY <1>1, <2>4, <2>6
  <2>8. QED
    BY <2>5, <2>7
<1>6. EdgeTpuTypeOK'
  BY <1>2, <1>4, <1>5 DEF EdgeInv, EdgeTypes, EdgeTpuTypeOK, Calls
<1>7. EdgeTypes'
  BY <1>2, <1>3, <1>6 DEF EdgeInv, EdgeTypes
<1>8. EdgeStage' /\ EdgeMetrics'
  BY <1>1, <1>2 DEF EdgeStage, EdgeMetrics, Compiled
<1>9. QED
  BY <1>7, <1>8 DEF EdgeInv

\* The compile succeeds: the one log, found before or after it, is listed and
\* read.
LEMMA EdgeCompiles ==
  ASSUME EdgeInv, EdgeTpuAssumption, CompileEnd, at' # "idle"
  PROVE  EdgeInv'
<1>1. PICK late : late = LateLog(files')
  OBVIOUS
<1>2. PICK logs : logs = outputs \o NotEmpty(late)
  OBVIOUS
<1>3. PICK read : read = ReadLogs(files', logs)
  OBVIOUS
<1>4. /\ at = "CompileEnd" /\ MaybeCompile(0) /\ at' = "LoadBegin"
      /\ log_resolved' = IF late = "" THEN log_resolved ELSE late
      /\ outputs' = logs \o IF HasGraph(files') THEN <<"source">> ELSE << >>
      /\ operators_' = IF read = << >> THEN operators_ ELSE files'[Last(read)][1].rows
      /\ model_' = IF HasGraph(files')
                   THEN BuildModelFromGraph(files'["source"][1].ops, operators_')
                   ELSE BuildModelFromOperators(operators_')
      /\ metadata_ops' = model_'
      /\ compile_metrics' =
           compile_metrics \o CommandMetrics(0)
           \o FlattenSeq([i \in DOMAIN read |-> ToMetricSamples(files'[read[i]][1])])
           \o IF HasGraph(files')
              THEN <<Metric("model_parameter_bytes", 1, files'["source"][1].by)>>
              ELSE << >>
  BY <1>1, <1>2, <1>3 DEF CompileEnd
<1>5. UNCHANGED <<session, given, clean, runtime_log_resolved, runtime_inputs, runtime_metrics>>
  BY DEF CompileEnd, settingVars, runtimeVars
<1>6. /\ outputs = NotEmpty(log_resolved) /\ compile_metrics = << >>
      /\ runtime_metrics = << >> /\ IsLog(files, log_resolved)
      /\ log_resolved \in Logs \cup {""}
      /\ clean \in BOOLEAN /\ (clean => operators_ = << >>)
      /\ AreFiles(files) /\ IsTable(operators_)
  BY <1>4 DEF EdgeInv, EdgeTypes, EdgeTpuTypeOK, EdgeStage, EdgeMetrics, Compiled
<1>7. AreFiles(files') /\ \A f \in File : Exists(files, f) => Exists(files', f)
  BY <1>4, <1>6, CommandKeeps
<1>8. /\ IsLog(files', log_resolved') /\ log_resolved' \in Logs \cup {""}
      /\ logs = NotEmpty(log_resolved')
  <2>1. PICK l : l = log_resolved'
    OBVIOUS
  <2>2. CASE log_resolved = ""
    <3>1. late = DerivedLog(files')
      BY <1>1, <2>2 DEF LateLog
    <3>2. log_resolved' = late
      BY <1>4, <2>2
    <3>3. logs = << >> \o NotEmpty(late)
      BY <1>2, <1>6, <2>2 DEF NotEmpty
    <3>4. IsList(NotEmpty(late))
      BY ListOfOne, ListOfNone DEF NotEmpty
    <3>5. QED
      BY <3>1, <3>2, <3>3, <3>4, NothingBefore, DerivedIsLog
  <2>3. CASE log_resolved # ""
    <3>1. late = "" /\ log_resolved' = log_resolved
      BY <1>1, <1>4, <2>3 DEF LateLog
    <3>2. logs = NotEmpty(log_resolved) \o << >>
      BY <1>2, <1>6, <3>1 DEF NotEmpty
    <3>3. IsList(NotEmpty(log_resolved))
      BY ListOfOne, ListOfNone DEF NotEmpty
    <3>4. logs = NotEmpty(log_resolved)
      BY <3>2, <3>3, NothingAfter
    <3>5. log_resolved \in Logs /\ log_resolved \in File
      BY <1>6, <2>3 DEF Logs, File
    <3>6. IsLog(files', log_resolved)
      BY <1>6, <1>7, <2>3, <3>5 DEF IsLog
    <3>7. QED
      BY <1>6, <3>1, <3>4, <3>6
  <2>4. QED
    BY <2>2, <2>3
<1>9. PICK l : l = log_resolved' /\ IsLog(files', l) /\ l \in Logs \cup {""}
  BY <1>8
<1>10. PICK fs : fs = files' /\ AreFiles(fs)
  BY <1>7
<1>11. read = ReadIn(fs, l)
  BY <1>3, <1>8, <1>9, <1>10 DEF ReadIn
<1>12. read = IF IsRead(fs, l) THEN <<l>> ELSE << >>
  BY <1>11, ReadOne
<1>13. operators_' = IF IsRead(fs, l) THEN RowsOf(fs, l) ELSE operators_
  <2>1. CASE IsRead(fs, l)
    <3>1. read = <<l>>
      BY <1>12, <2>1
    <3>2. <<l>> # << >> /\ Last(<<l>>) = l
      <4>1. Len(<<l>>) = 1 /\ <<l>>[1] = l /\ Len(<< >>) = 0
        BY ListOfOne, ListOfNone
      <4>2. QED
        BY <4>1 DEF Last
    <3>3. operators_' = fs[l][1].rows
      BY <1>4, <1>10, <3>1, <3>2
    <3>4. QED
      BY <2>1, <3>3 DEF RowsOf
  <2>2. CASE ~IsRead(fs, l)
    BY <1>4, <1>12, <2>2
  <2>3. QED
    BY <2>1, <2>2
<1>14. IsTable(operators_')
  BY <1>6, <1>9, <1>10, <1>13, RowsAreTable
<1>15. clean' => operators_' = RowsOf(fs, l)
  BY <1>5, <1>6, <1>13 DEF RowsOf
<1>16. model_' = BuiltModel(fs, operators_') /\ metadata_ops' = model_'
  BY <1>4, <1>10 DEF BuiltModel
<1>17. outputs' = NotEmpty(l) \o SourcePart(fs)
  BY <1>4, <1>8, <1>9, <1>10 DEF SourcePart
<1>18. compile_metrics' = Report(given, session, fs, l)
  <2>1. CommandMetrics(0) = CommandPart(given, session)
    BY DEF CommandMetrics, CommandPart
  <2>2. IsList(CommandPart(given, session))
    BY OtherParts
  <2>3. << >> \o CommandPart(given, session) = CommandPart(given, session)
    BY <2>2, NothingBefore
  <2>4. FlattenSeq([i \in DOMAIN read |-> ToMetricSamples(files'[read[i]][1])]) = SamplesOf(fs, l)
    BY <1>10, <1>11 DEF SamplesOf
  <2>5. (IF HasGraph(files') THEN <<Metric("model_parameter_bytes", 1, files'["source"][1].by)>>
         ELSE << >>) = ParameterPart(fs)
    BY <1>10 DEF ParameterPart
  <2>6. QED
    BY <1>4, <1>6, <2>1, <2>3, <2>4, <2>5 DEF Report
<1>19. EdgeTpuTypeOK'
  <2>1. \A f \in File : Len(files'[f]) <= 1
    BY <1>7, FilesAreShort
  <2>2. Len(outputs') <= 2 /\ ToSet(outputs') \subseteq Logs \cup {"source"}
    BY <1>9, <1>17, Listed
  <2>3. \A i \in DOMAIN model_' : model_'[i].stage_tag \in {"edgetpu", "cpu_fallback"}
    BY <1>16, BuiltTags
  <2>4. \A i \in DOMAIN compile_metrics' : compile_metrics'[i].value \in Nat
    <3>1. \A i \in DOMAIN Report(given, session, fs, l) :
             Report(given, session, fs, l)[i].value \in Nat
      BY <1>9, <1>10, ReportFacts DEF Reported
    <3>2. QED
      BY <1>18, <3>1
  <2>5. at' \in Calls
    BY <1>4 DEF Calls
  <2>6. QED
    BY <1>5, <1>8, <2>1, <2>2, <2>3, <2>4, <2>5 DEF EdgeInv, EdgeTypes, EdgeTpuTypeOK
<1>20. EdgeTypes'
  BY <1>5, <1>7, <1>14, <1>19 DEF EdgeInv, EdgeTypes
<1>21. EdgeStage'
  BY <1>4, <1>5, <1>9, <1>10, <1>15, <1>16, <1>17, <1>18 DEF EdgeStage, Compiled
<1>22. EdgeMetrics'
  BY <1>4, <1>5, <1>6 DEF EdgeMetrics
<1>23. QED
  BY <1>20, <1>21, <1>22 DEF EdgeInv

\* Every step.
LEMMA EdgeStep ==
  ASSUME EdgeInv, EdgeTpuAssumption, EdgeAction
  PROVE  EdgeInv'
<1>1. ASSUME NEW inputs, InitializeSession(inputs), NewAdapter \/ SameAdapter
      PROVE  EdgeInv'
  BY <1>1, EdgeStarts
<1>2. ASSUME CompileEnd, at' = "idle"
      PROVE  EdgeInv'
  <2>1. PICK rc \in {0, 1} :
          /\ MaybeCompile(rc)
          /\ IF rc # 0
             THEN /\ at' = "idle"
                  /\ compile_metrics' = compile_metrics \o CommandMetrics(rc)
                  /\ UNCHANGED <<log_resolved, outputs, metadata_ops, adapterVars>>
             ELSE at' = "LoadBegin"
    BY <1>2 DEF CompileEnd
  <2>2. /\ compile_metrics' = compile_metrics \o CommandMetrics(rc)
        /\ UNCHANGED <<log_resolved, outputs, metadata_ops, adapterVars>>
    BY <1>2, <2>1
  <2>3. at = "CompileEnd" /\ UNCHANGED <<settingVars, runtime_log_resolved, runtimeVars>>
    BY <1>2 DEF CompileEnd
  <2>4. QED
    BY <1>2, <2>1, <2>2, <2>3, EdgeFails
<1>3. CASE CompileEnd
  BY <1>2, <1>3, EdgeCompiles
<1>4. QED
  BY <1>1, <1>3, EdgePrepares, EdgeBegins, EdgeLoads, EdgeRuns, EdgeEnds DEF EdgeAction

-----------------------------------------------------------------------------
(* What follows of the log, the operators and the counts. *)

\* The rows listed are those of the log resolved.
LEMMA ListedRowsAre ==
  ASSUME EdgeInv, Compiled
  PROVE  /\ ListedRows = RowsOf(files, log_resolved)
         /\ Among(outputs, Logs) = NotEmpty(log_resolved)
         /\ "source" \in ToSet(outputs) <=> HasGraph(files)
         /\ IsLog(files, log_resolved) /\ AreFiles(files)
         /\ IsTable(RowsOf(files, log_resolved))
<1>1. /\ outputs = NotEmpty(log_resolved) \o SourcePart(files)
      /\ IsLog(files, log_resolved) /\ AreFiles(files)
      /\ log_resolved \in Logs \cup {""}
  BY DEF EdgeInv, EdgeTypes, EdgeTpuTypeOK, EdgeStage, Compiled
<1>2. PICK l : l = log_resolved
  OBVIOUS
<1>3. /\ Among(outputs, Logs) = NotEmpty(l)
      /\ ToSet(outputs) \cap Logs = IF l = "" THEN {} ELSE {l}
      /\ "source" \in ToSet(outputs) <=> HasGraph(files)
  BY <1>1, <1>2, Listed
<1>4. ListedRows = RowsOf(files, l)
  <2>1. CASE l = ""
    BY <1>3, <2>1 DEF ListedRows, RowsOf, IsRead
  <2>2. CASE l # ""
    <3>1. PICK S : S = ToSet(outputs) \cap Logs
      OBVIOUS
    <3>2. S = {l}
      BY <1>3, <2>2, <3>1
    <3>3. S # {}
      BY <3>2
    <3>4. PICK c : c = CHOOSE f \in S : TRUE
      OBVIOUS
    <3>5. c \in S
      BY <3>3, <3>4
    <3>6. c = l
      BY <3>2, <3>5
    <3>7. ListedRows = IF files[c][1].readable THEN files[c][1].rows ELSE << >>
      BY <3>1, <3>3, <3>4 DEF ListedRows
    <3>8. QED
      BY <2>2, <3>6, <3>7 DEF RowsOf, IsRead
  <2>3. QED
    BY <2>1, <2>2
<1>5. IsTable(RowsOf(files, l))
  BY <1>1, <1>2, RowsAreTable
<1>6. QED
  BY <1>1, <1>2, <1>3, <1>4, <1>5

\* The placement of operators built with the rows of a table.
LEMMA BuiltPlacement ==
  ASSUME NEW fs, NEW rows, IsTable(rows), NEW ops, ops = BuiltModel(fs, rows)
  PROVE  /\ \A i \in DOMAIN ops : ops[i].stage_tag = "cpu_fallback"
              => \E j \in DOMAIN rows : rows[j].type = ops[i].type /\ ~rows[j].mapped
         /\ \A j \in DOMAIN rows :
              (\A k \in DOMAIN rows : rows[k].type = rows[j].type => ~rows[k].mapped)
                => \A i \in DOMAIN ops : ops[i].type = rows[j].type
                                           => ops[i].stage_tag = "cpu_fallback"
<1>1. CASE HasGraph(fs)
  <2>1. PICK g : g = fs["source"][1].ops
    OBVIOUS
  <2>2. ops = [i \in DOMAIN g |-> [type |-> g[i], stage_tag |-> Tag(OnCpu(rows, g[i]))]]
    BY <1>1, <2>1 DEF BuiltModel, BuildModelFromGraph
  <2>3. \A i \in DOMAIN ops : /\ ops[i].type = g[i]
                              /\ ops[i].stage_tag = Tag(OnCpu(rows, g[i]))
    BY <2>2
  <2>4. \A i \in DOMAIN ops : ops[i].stage_tag = "cpu_fallback" <=> OnCpu(rows, ops[i].type)
    BY <2>3 DEF Tag
  <2>5. QED
    BY <2>4 DEF OnCpu
<1>2. CASE ~HasGraph(fs)
  <2>1. ops = [i \in DOMAIN rows |-> [type |-> rows[i].type, stage_tag |-> Tag(~rows[i].mapped)]]
    BY <1>2 DEF BuiltModel, BuildModelFromOperators
  <2>2. \A i \in DOMAIN ops : /\ i \in DOMAIN rows /\ ops[i].type = rows[i].type
                              /\ ops[i].stage_tag = Tag(~rows[i].mapped)
    BY <2>1
  <2>3. \A i \in DOMAIN ops : ops[i].stage_tag = "cpu_fallback" <=> ~rows[i].mapped
    BY <2>2 DEF Tag
  <2>4. QED
    BY <2>2, <2>3
<1>3. QED
  BY <1>1, <1>2

\* The invariant implies that the placement is from the listed log.
LEMMA EdgePlacement ==
  ASSUME EdgeInv
  PROVE  PlacementIsFromListedLog
<1>1. SUFFICES ASSUME Compiled, clean
               PROVE  PlacementIsFromListedLog
  BY DEF PlacementIsFromListedLog
<1>2. PICK rows : rows = ListedRows
  OBVIOUS
<1>3. IsTable(rows) /\ rows = operators_ /\ metadata_ops = BuiltModel(files, rows)
  BY <1>1, <1>2, ListedRowsAre DEF EdgeInv, EdgeStage
<1>4. PICK ops : ops = metadata_ops
  OBVIOUS
<1>5. /\ \A i \in DOMAIN ops : ops[i].stage_tag = "cpu_fallback"
           => \E j \in DOMAIN rows : rows[j].type = ops[i].type /\ ~rows[j].mapped
      /\ \A j \in DOMAIN rows :
           (\A k \in DOMAIN rows : rows[k].type = rows[j].type => ~rows[k].mapped)
             => \A i \in DOMAIN ops : ops[i].type = rows[j].type
                                        => ops[i].stage_tag = "cpu_fallback"
  BY <1>3, <1>4, BuiltPlacement
<1>6. \A type : (\A i \in DOMAIN ops : ops[i].type = type => ops[i].stage_tag = "cpu_fallback")
                  => TagsOf(type) \subseteq {"cpu_fallback"}
  BY <1>4 DEF TagsOf
<1>7. \A j \in DOMAIN rows :
        (\A k \in DOMAIN rows : rows[k].type = rows[j].type => ~rows[k].mapped)
          => TagsOf(rows[j].type) \subseteq {"cpu_fallback"}
  BY <1>5, <1>6
<1>8. QED
  BY <1>2, <1>4, <1>5, <1>7 DEF PlacementIsFromListedLog

\* The invariant implies that one log is listed and reported.
LEMMA EdgeOneLog ==
  ASSUME EdgeInv
  PROVE  LogIsListedOnce
<1>1. SUFFICES ASSUME Compiled
               PROVE  LogIsListedOnce
  BY DEF LogIsListedOnce
<1>2. PICK l : l = log_resolved
  OBVIOUS
<1>3. PICK cm : cm = compile_metrics
  OBVIOUS
<1>4. /\ Among(outputs, Logs) = NotEmpty(l) /\ IsLog(files, l) /\ AreFiles(files)
      /\ IsTable(RowsOf(files, l)) /\ cm = Report(given, session, files, l)
  BY <1>1, <1>2, <1>3, ListedRowsAre DEF EdgeInv, EdgeStage
<1>5. PICK n \in Nat : n = Len(RowsOf(files, l))
  BY <1>4, TableFacts
<1>6. PICK by : by = files[l][1].by
  OBVIOUS
<1>7. PICK k \in Nat : Reported(cm, k, n, Cardinality(MappedIn(RowsOf(files, l))), by)
  BY <1>4, <1>5, <1>6, ReportFacts
<1>8. Cardinality(Those("memory_summary", cm)) <= 1
  <2>1. PICK i \in Nat : Those("memory_summary", cm) \subseteq {i}
    BY <1>7 DEF Reported
  <2>2. PICK S : S = Those("memory_summary", cm)
    OBVIOUS
  <2>3. S = {} \/ S = {i}
    BY <2>1, <2>2
  <2>4. Cardinality({}) = 0 /\ Cardinality({i}) = 1
    BY FS_EmptySet, FS_Singleton
  <2>5. CASE S = {}
    BY <2>2, <2>4, <2>5
  <2>6. CASE S = {i}
    BY <2>2, <2>4, <2>6
  <2>7. QED
    BY <2>3, <2>5, <2>6
<1>9. ASSUME NEW i \in DOMAIN cm, cm[i].name = "operator_count"
      PROVE  NotEmpty(l) # << >> /\ cm[i].by = files[NotEmpty(l)[1]][1].by
  <2>1. i \in k + 1 .. k + n
    BY <1>7, <1>9 DEF Reported, Those
  <2>2. n # 0
    BY <2>1
  <2>3. cm[i].by = by
    BY <1>7, <2>1, <2>2 DEF Reported
  <2>4. l # ""
    <3>1. RowsOf(files, l) # << >>
      BY <1>5, <2>2, ListOfNone
    <3>2. QED
      BY <3>1 DEF RowsOf, IsRead
  <2>5. NotEmpty(l) = <<l>>
    BY <2>4 DEF NotEmpty
  <2>6. <<l>> # << >> /\ <<l>>[1] = l
    BY ListOfOne, ListOfNone
  <2>7. QED
    BY <1>6, <2>3, <2>5, <2>6
<1>10. QED
  BY <1>2, <1>3, <1>4, <1>8, <1>9 DEF LogIsListedOnce

\* Operators built from the rows of a table are those rows.
LEMMA BuiltRows ==
  ASSUME NEW fs, ~HasGraph(fs), NEW rows, IsTable(rows), NEW ops, ops = BuiltModel(fs, rows)
  PROVE  /\ Len(ops) = Len(rows)
         /\ {i \in DOMAIN ops : ops[i].stage_tag = "edgetpu"} = MappedIn(rows)
<1>1. PICK n \in Nat : n = Len(rows) /\ DOMAIN rows = 1 .. n
  BY TableFacts
<1>2. ops = [i \in DOMAIN rows |-> [type |-> rows[i].type, stage_tag |-> Tag(~rows[i].mapped)]]
  BY DEF BuiltModel, BuildModelFromOperators
<1>3. ops = [i \in 1 .. n |-> ops[i]]
  BY <1>1, <1>2
<1>4. Len(ops) = n /\ DOMAIN ops = 1 .. n
  BY <1>3, FunctionIsList
<1>5. \A i \in DOMAIN rows : ops[i].stage_tag = "edgetpu" <=> rows[i].mapped
  BY <1>2 DEF Tag
<1>6. QED
  BY <1>1, <1>4, <1>5 DEF MappedIn

\* The invariant implies that the counts add up.
LEMMA EdgeCounts ==
  ASSUME EdgeInv
  PROVE  CountsAddUp
<1>1. SUFFICES ASSUME Compiled, clean
               PROVE  CountsAddUp
  BY DEF CountsAddUp
<1>2. PICK l : l = log_resolved
  OBVIOUS
<1>3. PICK cm : cm = compile_metrics
  OBVIOUS
<1>4. PICK rows : rows = RowsOf(files, l)
  OBVIOUS
<1>5. PICK ops : ops = metadata_ops
  OBVIOUS
<1>6. /\ IsLog(files, l) /\ AreFiles(files) /\ IsTable(rows)
      /\ cm = Report(given, session, files, l) /\ ops = BuiltModel(files, rows)
      /\ ("source" \in ToSet(outputs) <=> HasGraph(files))
  BY <1>1, <1>2, <1>3, <1>4, <1>5, ListedRowsAre DEF EdgeInv, EdgeStage
<1>7. PICK n \in Nat : n = Len(rows)
  BY <1>6, TableFacts
<1>8. PICK mapped \in 0 .. n : mapped = Cardinality(MappedIn(rows))
  BY <1>6, <1>7, TableFacts
<1>9. PICK by : by = files[l][1].by
  OBVIOUS
<1>10. PICK k \in Nat : Reported(cm, k, n, mapped, by)
  BY <1>4, <1>6, <1>7, <1>8, <1>9, ReportFacts
<1>11. PICK R : R = Those("operator_count", cm)
  OBVIOUS
<1>12. R = k + 1 .. k + n /\ Cardinality(R) = n
  BY <1>10, <1>11, CardOfRange DEF Reported
<1>13. PICK placed : placed = {i \in DOMAIN ops : ops[i].stage_tag = "edgetpu"}
  OBVIOUS
<1>14. ASSUME "source" \notin ToSet(outputs)
       PROVE  Len(ops) = n /\ placed = MappedIn(rows)
  <2>1. ~HasGraph(files)
    BY <1>6, <1>14
  <2>2. QED
    BY <1>6, <1>7, <1>13, <2>1, BuiltRows
<1>15. ASSUME R # {}
       PROVE  \E m, j \in DOMAIN cm :
                /\ Those("ops_mapped_to_tpu", cm) = {m}
                /\ Those("ops_fallback_to_cpu", cm) = {j}
                /\ cm[m].value + cm[j].value = Cardinality(R)
                /\ "source" \notin ToSet(outputs) => cm[m].value = Cardinality(placed)
  <2>1. n # 0
    BY <1>12, <1>15
  <2>2. PICK m \in Nat, j \in Nat : m = k + n + 1 /\ j = k + n + 2
    OBVIOUS
  <2>3. /\ Those("ops_mapped_to_tpu", cm) = {m} /\ Those("ops_fallback_to_cpu", cm) = {j}
        /\ cm[m].value = mapped /\ cm[j].value = n - mapped
    BY <1>10, <2>1, <2>2 DEF Reported
  <2>4. m \in DOMAIN cm /\ j \in DOMAIN cm
    BY <2>3 DEF Those
  <2>5. mapped + (n - mapped) = n
    OBVIOUS
  <2>6. QED
    BY <1>8, <1>12, <1>14, <2>3, <2>4, <2>5
<1>16. ASSUME at \in {"RunBegin", "RunEnd", "Shutdown"}
       PROVE  \E i \in DOMAIN runtime_metrics :
                /\ Those("graph_nodes", runtime_metrics) = {i}
                /\ runtime_metrics[i].value = Len(ops)
  <2>1. /\ Those("graph_nodes", runtime_metrics) = {1}
        /\ runtime_metrics[1].value = Len(ops)
    BY <1>5, <1>16 DEF EdgeInv, EdgeMetrics
  <2>2. 1 \in DOMAIN runtime_metrics
    BY <2>1 DEF Those
  <2>3. QED
    BY <2>1, <2>2
<1>17. QED
  BY <1>3, <1>5, <1>11, <1>12, <1>13, <1>14, <1>15, <1>16 DEF CountsAddUp

-----------------------------------------------------------------------------
(* The theorems about the Edge TPU. *)

\* What the driver or a caller does with a process is a step of the adapter or
\* leaves it alone.
LEMMA EdgeActions ==
  ASSUME [SessionsNext]_sessionsVars
  PROVE  EdgeAction \/ UNCHANGED vars
<1>1. CASE UNCHANGED sessionsVars
  BY <1>1 DEF sessionsVars
<1>2. ASSUME NEW options, NEW project, Open(options, project)
      PROVE  EdgeAction \/ UNCHANGED vars
  BY <1>2 DEF Open, EdgeAction
<1>3. CASE DriverStarts
  <2>1. PICK options \in OptionSet, project \in ProjectsHere :
           Serve(options, project) \/ Refused("driver")
    BY <1>3 DEF DriverStarts
  <2>2. Open(options, project) \/ UNCHANGED vars
    BY <2>1 DEF Serve, Refused
  <2>3. QED
    BY <1>2, <2>2
<1>4. CASE CallerStarts
  BY <1>4 DEF CallerStarts, EdgeAction
<1>5. CASE EdgeTpuStep
  BY <1>5 DEF EdgeTpuStep, EdgeAction
<1>6. CASE GpuStep
  BY <1>6 DEF GpuStep
<1>7. QED
  BY <1>1, <1>3, <1>4, <1>5, <1>6 DEF SessionsNext

\* It is an invariant: the log resolved is there, and it is the one that is
\* listed, read and reported, in every session of a process.
THEOREM EdgeInvariant == SessionsSpec => []EdgeInv
<1>1. SessionsInit => EdgeInv
  BY EdgeInit, EdgeTpuAssumption DEF SessionsInit
<1>2. ASSUME EdgeInv, [SessionsNext]_sessionsVars
      PROVE  EdgeInv'
  <2>1. CASE EdgeAction
    BY <1>2, <2>1, EdgeStep, EdgeTpuAssumption
  <2>2. CASE UNCHANGED vars
    <3>1. UNCHANGED <<session, at, given, clean, files, log_resolved, runtime_log_resolved,
                      outputs, compile_metrics, runtime_inputs, runtime_metrics, metadata_ops,
                      model_, operators_>>
      BY <2>2 DEF vars, settingVars, resolvedVars, compileVars, runtimeVars, adapterVars
    <3>2. EdgeTypes'
      BY <1>2, <3>1 DEF EdgeInv, EdgeTypes, EdgeTpuTypeOK
    <3>3. EdgeStage' /\ EdgeMetrics'
      BY <1>2, <3>1 DEF EdgeInv, EdgeStage, EdgeMetrics, Compiled
    <3>4. QED
      BY <3>2, <3>3 DEF EdgeInv
  <2>3. QED
    BY <1>2, <2>1, <2>2, EdgeActions
<1>3. QED
  BY <1>1, <1>2, PTL DEF SessionsSpec

\* On an adapter none of whose sessions was cut short the operators of the
\* context are placed as the log the session lists says, in every session.
THEOREM PlacementHolds == SessionsSpec => []PlacementIsFromListedLog
BY EdgeInvariant, EdgePlacement, PTL

\* What a session reports of its operators adds up, whatever log it found and
\* whenever it found it.
THEOREM CountsHold == SessionsSpec => []CountsAddUp
BY EdgeInvariant, EdgeCounts, PTL

\* A session lists the one log it resolved and takes its metrics from it.
THEOREM OneLogIsListed == SessionsSpec => []LogIsListedOnce
BY EdgeInvariant, EdgeOneLog, PTL

-----------------------------------------------------------------------------
(* Registering the built-in names. *)

\* What RegisterBuiltin leaves after each name, as it is defined.
RegistersTo(g, names, builtin, n) ==
  g = [i \in 0 .. n |->
         IF i = 0 THEN [ok |-> TRUE, names |-> names]
         ELSE IF ~g[i - 1].ok \/ builtin[i] \in g[i - 1].names THEN g[i - 1]
         ELSE Register(g[i - 1].names, builtin[i])]

Registers(names, builtin) == CHOOSE g : RegistersTo(g, names, builtin, Len(builtin))

\* The names after n of them, if none is empty.
After(names, builtin, n) == names \cup {builtin[i] : i \in 1 .. n}

\* What they leave, if no name is empty.
Left(names, builtin, k) == [i \in 0 .. k |-> [ok |-> TRUE, names |-> After(names, builtin, i)]]

NamesUpTo(builtin, k) == \A i \in 1 .. k : builtin[i] # ""

\* Before the first registration the names are as they were.
LEMMA AfterNone ==
  ASSUME NEW names, NEW builtin
  PROVE  After(names, builtin, 0) = names
<1>1. 1 .. 0 = {}
  OBVIOUS
<1>2. QED
  BY <1>1 DEF After

\* One registration adds one name.
LEMMA AfterOne ==
  ASSUME NEW names, NEW builtin, NEW i, NEW j \in Nat, i = j + 1
  PROVE  After(names, builtin, i) = After(names, builtin, j) \cup {builtin[i]}
<1>1. 1 .. i = (1 .. j) \cup {i}
  OBVIOUS
<1>2. QED
  BY <1>1 DEF After

\* Where the registrations leave the registry.
LEMMA LeftLast ==
  ASSUME NEW names, NEW builtin, NEW k \in Nat
  PROVE  Left(names, builtin, k)[k] = [ok |-> TRUE, names |-> After(names, builtin, k)]
<1>1. k \in 0 .. k
  OBVIOUS
<1>2. QED
  BY <1>1 DEF Left

\* One name: it is there already or can be registered.
LEMMA RegisterOne ==
  ASSUME NEW S, NEW name, name # "", NEW d, d = [ok |-> TRUE, names |-> S]
  PROVE  (IF ~d.ok \/ name \in d.names THEN d ELSE Register(d.names, name))
           = [ok |-> TRUE, names |-> S \cup {name}]
<1>1. d.ok = TRUE /\ d.names = S
  OBVIOUS
<1>2. CASE name \in S
  <2>1. S \cup {name} = S
    BY <1>2
  <2>2. QED
    BY <1>1, <1>2, <2>1
<1>3. CASE name \notin S
  <2>1. Register(S, name) = [ok |-> TRUE, names |-> S \cup {name}]
    BY <1>3 DEF Register
  <2>2. QED
    BY <1>1, <1>3, <2>1
<1>4. QED
  BY <1>2, <1>3

\* There is one.
LEMMA RegistersExist ==
  ASSUME NEW names, NEW builtin, NEW k \in Nat, NamesUpTo(builtin, k)
  PROVE  RegistersTo(Left(names, builtin, k), names, builtin, k)
<1>1. PICK g : g = Left(names, builtin, k)
  OBVIOUS
<1>2. \A i \in 0 .. k : g[i] = [ok |-> TRUE, names |-> After(names, builtin, i)]
  BY <1>1 DEF Left
<1>3. g[0] = [ok |-> TRUE, names |-> names]
  <2>1. 0 \in 0 .. k
    OBVIOUS
  <2>2. g[0] = [ok |-> TRUE, names |-> After(names, builtin, 0)]
    BY <1>2, <2>1
  <2>3. QED
    BY <2>2, AfterNone
<1>4. ASSUME NEW i \in 0 .. k, i # 0
      PROVE  g[i] = IF ~g[i - 1].ok \/ builtin[i] \in g[i - 1].names THEN g[i - 1]
                    ELSE Register(g[i - 1].names, builtin[i])
  <2>1. i \in 1 .. k /\ i - 1 \in 0 .. k /\ i - 1 \in Nat /\ (i - 1) + 1 = i
    BY <1>4
  <2>2. PICK j \in Nat : j = i - 1 /\ j + 1 = i /\ j \in 0 .. k
    BY <2>1
  <2>3. PICK S : S = After(names, builtin, j)
    OBVIOUS
  <2>4. PICK d : d = g[j]
    OBVIOUS
  <2>5. d = [ok |-> TRUE, names |-> S]
    BY <1>2, <2>2, <2>3, <2>4
  <2>6. builtin[i] # ""
    BY <2>1 DEF NamesUpTo
  <2>7. (IF ~d.ok \/ builtin[i] \in d.names THEN d ELSE Register(d.names, builtin[i]))
          = [ok |-> TRUE, names |-> S \cup {builtin[i]}]
    BY <2>5, <2>6, RegisterOne
  <2>8. After(names, builtin, i) = S \cup {builtin[i]}
    <3>1. i = j + 1
      BY <2>2
    <3>2. QED
      BY <2>3, <3>1, AfterOne
  <2>9. g[i] = [ok |-> TRUE, names |-> S \cup {builtin[i]}]
    BY <1>2, <1>4, <2>8
  <2>10. g[i - 1] = d
    BY <2>2, <2>4
  <2>11. QED
    BY <2>7, <2>9, <2>10
<1>5. g = [i \in 0 .. k |-> g[i]]
  BY <1>1 DEF Left
<1>6. g = [i \in 0 .. k |->
             IF i = 0 THEN [ok |-> TRUE, names |-> names]
             ELSE IF ~g[i - 1].ok \/ builtin[i] \in g[i - 1].names THEN g[i - 1]
             ELSE Register(g[i - 1].names, builtin[i])]
  BY <1>3, <1>4, <1>5
<1>7. RegistersTo(g, names, builtin, k)
  BY <1>6 DEF RegistersTo
<1>8. QED
  BY <1>1, <1>7

\* Any two of them agree.
LEMMA RegistersAgree ==
  ASSUME NEW names, NEW builtin, NEW k \in Nat,
         NEW g, RegistersTo(g, names, builtin, k), NEW h, RegistersTo(h, names, builtin, k)
  PROVE  g[k] = h[k]
<1> DEFINE P == {i \in Nat : i <= k => g[i] = h[i]}
<1>1. 0 \in P
  <2>1. 0 \in 0 .. k
    OBVIOUS
  <2>2. g[0] = [ok |-> TRUE, names |-> names] /\ h[0] = [ok |-> TRUE, names |-> names]
    BY <2>1 DEF RegistersTo
  <2>3. QED
    BY <2>2
<1>2. ASSUME NEW i \in Nat, i \in P
      PROVE  i + 1 \in P
  <2>1. SUFFICES ASSUME i + 1 <= k
                 PROVE  g[i + 1] = h[i + 1]
    OBVIOUS
  <2>2. i + 1 \in 0 .. k /\ i + 1 # 0 /\ (i + 1) - 1 = i /\ i <= k
    BY <2>1
  <2>3. g[i + 1] = IF ~g[i].ok \/ builtin[i + 1] \in g[i].names THEN g[i]
                   ELSE Register(g[i].names, builtin[i + 1])
    BY <2>2 DEF RegistersTo
  <2>4. h[i + 1] = IF ~h[i].ok \/ builtin[i + 1] \in h[i].names THEN h[i]
                   ELSE Register(h[i].names, builtin[i + 1])
    BY <2>2 DEF RegistersTo
  <2>5. g[i] = h[i]
    BY <1>2, <2>2
  <2>6. QED
    BY <2>3, <2>4, <2>5
<1>3. Nat \subseteq P
  <2> HIDE DEF P
  <2>1. QED
    BY <1>1, <1>2, NatSetInduction
<1>4. k <= k
  OBVIOUS
<1>5. QED
  BY <1>3, <1>4

\* RegisterBuiltin by one of them.
LEMMA RegisterIs ==
  ASSUME NEW names, NEW builtin
  PROVE  RegisterBuiltin(names, builtin) = Registers(names, builtin)[Len(builtin)]
BY DEF RegisterBuiltin, Registers, RegistersTo

\* The built-in names are registered, whether they were there or not.
LEMMA BuiltinRegistered ==
  ASSUME NEW names, NEW builtin, Len(builtin) \in Nat,
         DOMAIN builtin = 1 .. Len(builtin), "" \notin ToSet(builtin)
  PROVE  RegisterBuiltin(names, builtin) = [ok |-> TRUE, names |-> names \cup ToSet(builtin)]
<1>1. PICK k \in Nat : k = Len(builtin)
  OBVIOUS
<1>2. NamesUpTo(builtin, k)
  BY <1>1 DEF ToSet, NamesUpTo
<1>3. PICK g : g = Left(names, builtin, k)
  OBVIOUS
<1>4. PICK h : h = Registers(names, builtin)
  OBVIOUS
<1>5. RegistersTo(g, names, builtin, k)
  BY <1>2, <1>3, RegistersExist
<1>6. RegistersTo(h, names, builtin, k)
  BY <1>1, <1>4, <1>5 DEF Registers
<1>7. RegisterBuiltin(names, builtin) = h[k]
  BY <1>1, <1>4, RegisterIs
<1>8. h[k] = g[k]
  BY <1>5, <1>6, RegistersAgree, ZenonT(30)
<1>9. g[k] = [ok |-> TRUE, names |-> After(names, builtin, k)]
  BY <1>3, LeftLast
<1>10. After(names, builtin, k) = names \cup ToSet(builtin)
  <2>1. ToSet(builtin) = {builtin[i] : i \in 1 .. k}
    BY <1>1 DEF ToSet
  <2>2. QED
    BY <2>1 DEF After
<1>11. QED
  BY <1>7, <1>8, <1>9, <1>10

\* Sequences of four and of five.
LEMMA ListOfFour ==
  ASSUME NEW a, NEW b, NEW c, NEW d
  PROVE  LET s == <<a, b, c, d>>
         IN Len(s) \in Nat /\ DOMAIN s = 1 .. Len(s) /\ ToSet(s) = {a, b, c, d}
<1>1. PICK s : s = <<a, b, c, d>>
  OBVIOUS
<1>2. Len(s) = 4 /\ DOMAIN s = 1 .. 4 /\ s[1] = a /\ s[2] = b /\ s[3] = c /\ s[4] = d
  BY <1>1
<1>3. 1 .. 4 = {1, 2, 3, 4}
  OBVIOUS
<1>4. ToSet(s) = {a, b, c, d}
  BY <1>2, <1>3 DEF ToSet
<1>5. QED
  BY <1>1, <1>2, <1>4

\* A list of five and its elements.
LEMMA ListOfFive ==
  ASSUME NEW a, NEW b, NEW c, NEW d, NEW e
  PROVE  LET s == <<a, b, c, d, e>>
         IN Len(s) \in Nat /\ DOMAIN s = 1 .. Len(s) /\ ToSet(s) = {a, b, c, d, e}
<1>1. PICK s : s = <<a, b, c, d, e>>
  OBVIOUS
<1>2. /\ Len(s) = 5 /\ DOMAIN s = 1 .. 5
      /\ s[1] = a /\ s[2] = b /\ s[3] = c /\ s[4] = d /\ s[5] = e
  BY <1>1
<1>3. 1 .. 5 = {1, 2, 3, 4, 5}
  OBVIOUS
<1>4. ToSet(s) = {a, b, c, d, e}
  BY <1>2, <1>3 DEF ToSet
<1>5. QED
  BY <1>1, <1>2, <1>4

\* The back ends and tools that are built in.
LEMMA BuiltinNames ==
  /\ Len(BuiltinAdapters) \in Nat /\ DOMAIN BuiltinAdapters = 1 .. Len(BuiltinAdapters)
  /\ "" \notin ToSet(BuiltinAdapters) /\ {"edgetpu", "gpu_mlir"} \subseteq ToSet(BuiltinAdapters)
  /\ Len(BuiltinTools) \in Nat /\ DOMAIN BuiltinTools = 1 .. Len(BuiltinTools)
  /\ "" \notin ToSet(BuiltinTools)
<1>1. /\ Len(BuiltinAdapters) \in Nat /\ DOMAIN BuiltinAdapters = 1 .. Len(BuiltinAdapters)
      /\ ToSet(BuiltinAdapters) = {"gpu_mlir", "cerebras", "sambanova", "edgetpu"}
  BY ListOfFour DEF BuiltinAdapters
<1>2. /\ Len(BuiltinTools) \in Nat /\ DOMAIN BuiltinTools = 1 .. Len(BuiltinTools)
      /\ ToSet(BuiltinTools) = {"portability_report", "overhead_profiler",
                               "semantic_attribution", "dataflow_memory_proxy",
                               "program_analyzer"}
  BY ListOfFive DEF BuiltinTools
<1>3. QED
  BY <1>1, <1>2

-----------------------------------------------------------------------------
(* From the options to the adapter. *)

\* What the driver and its registries know: a session the driver has started
\* finds what it asks for.
ServedInv ==
  /\ backend \in {"edgetpu", "gpu_mlir"}
  /\ adapters \subseteq ToSet(BuiltinAdapters) /\ tool_names \subseteq ToSet(BuiltinTools)
  /\ outcome \in [by : {"nobody", "driver", "caller"},
                  result : {"none", "refused", "unprepared", "started"}]
  /\ outcome.by = "driver" => outcome.result # "unprepared"
  /\ outcome.by = "driver" /\ at = "PrepareArtifacts" => Exists(files, ModelName(given))
  /\ outcome.by = "driver" /\ gpu_at = "PrepareArtifacts" => "mlir" \in gpu_given

\* The registries serve every back end.
LEMMA AlwaysServed ==
  ASSUME ServedInv, NEW options, options.backend = backend, NEW project,
         Serve(options, project)
  PROVE  /\ adapters' \subseteq ToSet(BuiltinAdapters)
         /\ tool_names' \subseteq ToSet(BuiltinTools)
         /\ Open(options, project) /\ outcome' = Outcome("driver", "started")
         /\ UNCHANGED backend
<1>1. PICK a : a = RegisterBuiltin(adapters, BuiltinAdapters)
  OBVIOUS
<1>2. PICK t : t = RegisterBuiltin(tool_names, BuiltinTools)
  OBVIOUS
<1>3. PICK A : A = ToSet(BuiltinAdapters)
  OBVIOUS
<1>4. PICK B : B = ToSet(BuiltinTools)
  OBVIOUS
<1>5. /\ adapters \subseteq A /\ tool_names \subseteq B /\ backend \in A
  BY <1>3, <1>4, BuiltinNames DEF ServedInv
<1>6. a = [ok |-> TRUE, names |-> adapters \cup A]
  BY <1>1, <1>3, BuiltinNames, BuiltinRegistered
<1>7. t = [ok |-> TRUE, names |-> tool_names \cup B]
  BY <1>2, <1>4, BuiltinNames, BuiltinRegistered
<1>8. a.ok = TRUE /\ t.ok = TRUE /\ a.names = A /\ t.names = B
  BY <1>5, <1>6, <1>7
<1>9. CanCreate(a.names, options.backend)
  BY <1>5, <1>8 DEF CanCreate
<1>10. /\ adapters' = a.names
       /\ tool_names' = IF a.ok THEN t.names ELSE tool_names
       /\ IF a.ok /\ t.ok /\ CanCreate(a.names, options.backend)
          THEN Open(options, project) /\ outcome' = Outcome("driver", "started")
          ELSE outcome' = Outcome("driver", "not served") /\ UNCHANGED <<vars, gpuVars>>
       /\ UNCHANGED backend
  BY <1>1, <1>2 DEF Serve
<1>11. QED
  BY <1>3, <1>4, <1>8, <1>9, <1>10

\* Options that are accepted name a model that is there.
LEMMA ModelIsThere ==
  ASSUME NEW options, options.backend = "edgetpu",
         ValidateOptions(options, PresentToEdgeTpu(options))
  PROVE  Exists(files, ModelName(EdgeTpuInputs(options)))
<1>1. "model" \in options.given /\ "model" \in PresentToEdgeTpu(options)
  <2>1. options.given \cap RequiredOptions(options.backend) # {}
    BY DEF ValidateOptions
  <2>2. RequiredOptions("edgetpu") = {"model"}
    BY DEF RequiredOptions
  <2>3. options.given \cap {"model"} # {}
    BY <2>1, <2>2
  <2>4. "model" \in PresentToEdgeTpu(options)
    BY DEF ValidateOptions
  <2>5. QED
    BY <2>3, <2>4
<1>2. Exists(files, IF options.compiled THEN "compiled" ELSE "source")
  BY <1>1 DEF PresentToEdgeTpu
<1>3. "model" \in ConfigureContext(options)
  <2>1. "model" \in Honoured("edgetpu")
    BY DEF Honoured
  <2>2. QED
    BY <1>1, <2>1 DEF ConfigureContext
<1>4. PICK handed : handed = ConfigureContext(options)
  OBVIOUS
<1>5. EdgeTpuInputs(options) =
        (IF "model" \in handed /\ options.compiled THEN {"compiled"} ELSE {})
        \cup (IF "compile_report" \in handed THEN {"named log"} ELSE {})
        \cup (IF "runtime_log" \in handed THEN {"runtime log"} ELSE {})
        \cup (handed \cap {"compile_cmd"})
  BY <1>4 DEF EdgeTpuInputs
<1>6. "compiled" \in EdgeTpuInputs(options) <=> options.compiled
  BY <1>3, <1>4, <1>5
<1>7. QED
  BY <1>2, <1>6 DEF ModelName

\* Options that are accepted name a module, which is handed over.
LEMMA ModuleIsNamed ==
  ASSUME NEW options, options.backend = "gpu_mlir", NEW present,
         ValidateOptions(options, present)
  PROVE  "mlir" \in GpuInputs(options)
<1>1. options.given \cap RequiredOptions(options.backend) # {}
  BY DEF ValidateOptions
<1>2. RequiredOptions("gpu_mlir") = {"mlir"}
  BY DEF RequiredOptions
<1>3. "mlir" \in options.given
  BY <1>1, <1>2
<1>4. QED
  BY <1>3 DEF GpuInputs, ConfigureContext

\* The driver starts a session or refuses to.
LEMMA DriverServes ==
  ASSUME ServedInv, DriverStarts
  PROVE  ServedInv'
<1>1. PICK options \in OptionSet, project \in ProjectsHere :
        /\ options.backend = backend
        /\ IF ValidateOptions(options, Present(options, project))
           THEN Serve(options, project) ELSE Refused("driver")
  BY DEF DriverStarts
<1>2. at = "idle" /\ gpu_at = "idle"
  BY DEF DriverStarts, Idle
<1>3. /\ \A result \in {"none", "refused", "unprepared", "started"} :
           /\ Outcome("driver", result)
                \in [by : {"nobody", "driver", "caller"},
                     result : {"none", "refused", "unprepared", "started"}]
           /\ Outcome("driver", result).result = result
  BY DEF Outcome
<1>4. CASE Refused("driver")
  <2>1. /\ outcome' = Outcome("driver", "refused")
        /\ UNCHANGED <<backend, adapters, tool_names, at, gpu_at>>
    BY <1>4 DEF Refused, vars, gpuVars, processVars
  <2>2. QED
    BY <1>2, <1>3, <2>1 DEF ServedInv
<1>5. CASE /\ ValidateOptions(options, Present(options, project))
           /\ Serve(options, project)
  <2>1. /\ adapters' \subseteq ToSet(BuiltinAdapters)
        /\ tool_names' \subseteq ToSet(BuiltinTools)
        /\ Open(options, project) /\ outcome' = Outcome("driver", "started")
        /\ UNCHANGED backend
    BY <1>1, <1>5, AlwaysServed
  <2>2. CASE backend = "edgetpu" /\ InitializeSession(EdgeTpuInputs(options)) /\ UNCHANGED gpuVars
    <3>1. /\ at' = "PrepareArtifacts" /\ files' = files /\ given' = EdgeTpuInputs(options)
          /\ gpu_at' = "idle"
      BY <1>2, <2>2 DEF InitializeSession, gpuVars
    <3>2. Exists(files, ModelName(EdgeTpuInputs(options)))
      BY <1>1, <1>5, <2>2, ModelIsThere DEF Present
    <3>3. Exists(files', ModelName(given'))
      BY <3>1, <3>2
    <3>4. QED
      BY <1>3, <2>1, <3>1, <3>3 DEF ServedInv
  <2>3. CASE /\ backend = "gpu_mlir" /\ Gpu!InitializeSession(GpuInputs(options), project)
             /\ UNCHANGED vars
    <3>1. /\ gpu_at' = "PrepareArtifacts" /\ gpu_given' = GpuInputs(options) /\ at' = "idle"
      BY <1>2, <2>3 DEF Gpu!InitializeSession, vars
    <3>2. "mlir" \in GpuInputs(options)
      BY <1>1, <1>5, <2>3, ModuleIsNamed
    <3>3. QED
      BY <1>3, <2>1, <3>1, <3>2 DEF ServedInv
  <2>4. QED
    BY <2>1, <2>2, <2>3 DEF Open
<1>6. QED
  BY <1>1, <1>4, <1>5

\* Another caller starts one.
LEMMA CallerServes ==
  ASSUME ServedInv, CallerStarts
  PROVE  ServedInv'
<1>1. outcome' = Outcome("caller", "started") /\ UNCHANGED <<backend, adapters, tool_names>>
  BY DEF CallerStarts, processVars
<1>2. /\ Outcome("caller", "started")
           \in [by : {"nobody", "driver", "caller"},
                result : {"none", "refused", "unprepared", "started"}]
      /\ Outcome("caller", "started").by = "caller"
  BY DEF Outcome
<1>3. QED
  BY <1>1, <1>2 DEF ServedInv

\* A step of a session.
LEMMA StepServes ==
  ASSUME ServedInv, EdgeTpuStep \/ GpuStep
  PROVE  ServedInv'
<1>1. UNCHANGED <<backend, adapters, tool_names>>
  BY DEF EdgeTpuStep, GpuStep, processVars
<1>2. ASSUME outcome' = outcome,
             \/ at' # "PrepareArtifacts"
             \/ at' = at /\ files' = files /\ given' = given,
             \/ gpu_at' # "PrepareArtifacts"
             \/ gpu_at' = gpu_at /\ gpu_given' = gpu_given
      PROVE  ServedInv'
  BY <1>1, <1>2 DEF ServedInv
<1>3. ASSUME outcome.by # "driver", outcome' = [outcome EXCEPT !.result = "unprepared"]
      PROVE  ServedInv'
  <2>1. PICK b \in {"nobody", "driver", "caller"},
             r \in {"none", "refused", "unprepared", "started"} :
               outcome = [by |-> b, result |-> r]
    BY DEF ServedInv
  <2>2. outcome' = [by |-> b, result |-> "unprepared"] /\ b # "driver"
    BY <1>3, <2>1
  <2>3. QED
    BY <1>1, <2>1, <2>2 DEF ServedInv
<1>4. CASE EdgeTpuStep
  <2>1. gpu_at' = gpu_at /\ gpu_given' = gpu_given
    BY <1>4 DEF EdgeTpuStep, gpuVars
  <2>2. CASE PrepareArtifacts /\ Prepared(at')
    <3>1. /\ at = "PrepareArtifacts" /\ at' # "PrepareArtifacts"
          /\ at' = "idle" <=> ~Exists(files, ModelName(given))
      BY <2>2 DEF PrepareArtifacts
    <3>2. CASE at' = "idle"
      <4>1. outcome.by # "driver"
        BY <3>1, <3>2 DEF ServedInv
      <4>2. outcome' = [outcome EXCEPT !.result = "unprepared"]
        BY <2>2, <3>2 DEF Prepared
      <4>3. QED
        BY <1>3, <4>1, <4>2
    <3>3. CASE at' # "idle"
      BY <1>2, <2>1, <2>2, <3>1, <3>3 DEF Prepared
    <3>4. QED
      BY <3>2, <3>3
  <2>3. CASE /\ Begins \/ CompileEnd \/ LoadEnd \/ RunEnd \/ Shutdown \/ Abandon
             /\ UNCHANGED outcome
    <3>1. at' # "PrepareArtifacts"
      <4>1. CompileEnd => at' # "PrepareArtifacts"
        BY DEF CompileEnd
      <4>2. QED
        BY <2>3, <4>1 DEF Begins, LoadEnd, RunEnd, Shutdown, Abandon
    <3>2. QED
      BY <1>2, <2>1, <2>3, <3>1
  <2>4. QED
    BY <1>4, <2>2, <2>3 DEF EdgeTpuStep
<1>5. CASE GpuStep
  <2>1. at' = at /\ files' = files /\ given' = given
    BY <1>5 DEF GpuStep, vars, settingVars
  <2>2. CASE Gpu!PrepareArtifacts /\ Prepared(gpu_at')
    <3>1. /\ gpu_at = "PrepareArtifacts" /\ gpu_at' # "PrepareArtifacts"
          /\ gpu_at' = "idle" <=> "mlir" \notin gpu_given
      BY <2>2 DEF Gpu!PrepareArtifacts, Gpu!Fails
    <3>2. CASE gpu_at' = "idle"
      <4>1. outcome.by # "driver"
        BY <3>1, <3>2 DEF ServedInv
      <4>2. outcome' = [outcome EXCEPT !.result = "unprepared"]
        BY <2>2, <3>2 DEF Prepared
      <4>3. QED
        BY <1>3, <4>1, <4>2
    <3>3. CASE gpu_at' # "idle"
      BY <1>2, <2>1, <2>2, <3>1, <3>3 DEF Prepared
    <3>4. QED
      BY <3>2, <3>3
  <2>3. CASE /\ \/ Gpu!Begins \/ Gpu!CompileEndNoModule \/ Gpu!CompileEndNoFile \/ Gpu!CompileEnd
                \/ Gpu!LoadManifest \/ Gpu!LoadBegin \/ Gpu!LoadEnd
                \/ Gpu!RunEnd \/ Gpu!Shutdown \/ Gpu!Abandon
             /\ UNCHANGED outcome
    <3>1. gpu_at' # "PrepareArtifacts"
      BY <2>3 DEF Gpu!Begins, Gpu!CompileEndNoModule, Gpu!CompileEndNoFile, Gpu!CompileEnd,
           Gpu!LoadManifest, Gpu!LoadBegin, Gpu!LoadEnd, Gpu!RunEnd, Gpu!Shutdown,
           Gpu!Abandon, Gpu!Fails
    <3>2. QED
      BY <1>2, <2>1, <2>3, <3>1
  <2>4. QED
    BY <1>5, <2>2, <2>3 DEF GpuStep
<1>6. QED
  BY <1>4, <1>5

\* It is an invariant: what the driver accepts it can serve, in the first
\* session of a process and, its registries full, in every later one.
THEOREM ServedInvariant == SessionsSpec => []ServedInv
<1>1. SessionsInit => ServedInv
  <2>1. SUFFICES ASSUME SessionsInit
                 PROVE  ServedInv
    OBVIOUS
  <2>2. /\ Outcome("nobody", "none")
             \in [by : {"nobody", "driver", "caller"},
                  result : {"none", "refused", "unprepared", "started"}]
        /\ Outcome("nobody", "none").by = "nobody"
    BY DEF Outcome
  <2>3. QED
    BY <2>1, <2>2 DEF SessionsInit, ServedInv
<1>2. ASSUME ServedInv, [SessionsNext]_sessionsVars
      PROVE  ServedInv'
  <2>1. CASE UNCHANGED sessionsVars
    <3>1. UNCHANGED <<backend, adapters, tool_names, outcome, at, files, given, gpu_at, gpu_given>>
      BY <2>1 DEF sessionsVars, processVars, vars, gpuVars, settingVars
    <3>2. QED
      BY <1>2, <3>1 DEF ServedInv
  <2>2. QED
    BY <1>2, <2>1, DriverServes, CallerServes, StepServes DEF SessionsNext
<1>3. QED
  BY <1>1, <1>2, PTL DEF SessionsSpec

\* Options the driver accepts lead to a session that has all it asks for.
THEOREM RunsAreServed == SessionsSpec => []ValidRunsAreServed
<1>1. ServedInv => ValidRunsAreServed
  BY DEF ServedInv, ValidRunsAreServed
<1>2. QED
  BY <1>1, ServedInvariant, PTL

-----------------------------------------------------------------------------
(* The model the adapter of gpu_mlir builds, and its index. *)

\* The instance of the adapter speaks of the same lists, sets and numbers.
LEMMA GpuSame ==
  /\ \A s, S : Gpu!Among(s, S) = Among(s, S)
  /\ \A s : Gpu!ToSet(s) = ToSet(s) /\ (Gpu!IsList(s) <=> IsList(s))
  /\ \A S : Gpu!Max(S) = Max(S) /\ Gpu!Min(S) = Min(S)
  /\ \A S : Gpu!Cardinality(S) = Cardinality(S)
<1>1. \A s, S : Gpu!Among(s, S) = Among(s, S)
  BY DEF Gpu!Among, Among
<1>2. \A s : Gpu!ToSet(s) = ToSet(s)
  BY DEF Gpu!ToSet, ToSet
<1>3. \A s : Gpu!IsList(s) <=> IsList(s)
  BY DEF Gpu!IsList, IsList
<1>4. \A S : Gpu!Max(S) = Max(S) /\ Gpu!Min(S) = Min(S)
  BY DEF Gpu!Max, Max, Gpu!Min, Min
<1>5. \A S : Gpu!Cardinality(S) = Cardinality(S)
  BY DEF Gpu!Cardinality, Cardinality
<1>6. QED
  BY <1>1, <1>2, <1>3, <1>4, <1>5

Positions(lines) == [i \in DOMAIN lines |-> i]
TaggedLines(lines) == {i \in DOMAIN lines : Gpu!IsTagged(lines[i])}

\* The lines operators are read off, in order.
Tagged(lines) == Among(Positions(lines), TaggedLines(lines))

\* An operator has the name of the line it was read off, and its figures are
\* numbers.
IsReadOff(op, lines, i) ==
  /\ op.op_name = lines[i].name /\ op.op_name # ""
  /\ op.line = i /\ op.stable_id # Gpu!NoId /\ op.estimated_flops \in Nat

IsModelOf(ops, lines) ==
  /\ IsList(ops) /\ Len(ops) = Len(Tagged(lines))
  /\ \A k \in DOMAIN ops :
       Tagged(lines)[k] \in TaggedLines(lines) /\ IsReadOff(ops[k], lines, Tagged(lines)[k])

\* What a module can be.
IsModule(lines) == IsList(lines) /\ \A i \in DOMAIN lines : lines[i].elements \in Nat

\* The lines operators are read off are lines of the module.
LEMMA TaggedFacts ==
  ASSUME NEW lines, IsList(lines)
  PROVE  /\ IsList(Tagged(lines)) /\ Len(Tagged(lines)) \in Nat
         /\ DOMAIN Tagged(lines) = 1 .. Len(Tagged(lines))
         /\ \A k \in DOMAIN Tagged(lines) : Tagged(lines)[k] \in TaggedLines(lines)
<1>1. PICK n \in Nat : DOMAIN lines = 1 .. n
  BY ListFacts
<1>2. PICK s : s = Positions(lines)
  OBVIOUS
<1>3. s = [i \in 1 .. n |-> i]
  BY <1>1, <1>2 DEF Positions
<1>4. s \in Seq(1 .. n)
  BY <1>3
<1>5. PICK t : t = Tagged(lines)
  OBVIOUS
<1>6. /\ t \in Seq(1 .. n)
      /\ ToSet(t) = ToSet(s) \cap TaggedLines(lines)
  BY <1>2, <1>4, <1>5, AmongFacts DEF Tagged
<1>7. IsList(t) /\ Len(t) \in Nat /\ DOMAIN t = 1 .. Len(t)
  BY <1>6, SeqIsList, ListFacts
<1>8. \A k \in DOMAIN t : t[k] \in TaggedLines(lines)
  BY <1>6 DEF ToSet
<1>9. QED
  BY <1>5, <1>7, <1>8

\* The operators of the model are those read off the tagged lines, with an id
\* and figures.
LEMMA ModelBuilt ==
  ASSUME NEW lines, IsModule(lines)
  PROVE  IsModelOf(Gpu!BuildModel(lines), lines)
<1>1. PICK t : t = Tagged(lines)
  OBVIOUS
<1>2. IsList(lines)
  BY DEF IsModule
<1>3. PICK n \in Nat : n = Len(t)
  BY <1>1, <1>2, TaggedFacts
<1>4. DOMAIN t = 1 .. n /\ \A k \in 1 .. n : t[k] \in TaggedLines(lines)
  BY <1>1, <1>2, <1>3, TaggedFacts
<1>5. Gpu!Among([i \in DOMAIN lines |-> i], {i \in DOMAIN lines : Gpu!IsTagged(lines[i])}) = t
  BY <1>1, GpuSame DEF Tagged, Positions, TaggedLines
<1>6. PICK a : a = Gpu!BuildModelDescription(lines)
  OBVIOUS
<1>7. a = [k \in 1 .. n |->
             [op_name |-> lines[t[k]].name, elements |-> lines[t[k]].elements,
              line |-> t[k], stable_id |-> << >>,
              estimated_flops |-> 0, estimated_bytes |-> 0]]
  BY <1>4, <1>5, <1>6 DEF Gpu!BuildModelDescription
<1>8. PICK b : b = Gpu!TagStableIds(a)
  OBVIOUS
<1>9. b = [k \in 1 .. n |->
             [op_name |-> lines[t[k]].name, elements |-> lines[t[k]].elements,
              line |-> t[k], stable_id |-> Gpu!Assign(a[k]),
              estimated_flops |-> 0, estimated_bytes |-> 0]]
  BY <1>7, <1>8 DEF Gpu!TagStableIds
<1>10. \A op : Gpu!Assign(op) # Gpu!NoId
  BY DEF Gpu!Assign, Gpu!NoId
<1>11. PICK ops : ops = Gpu!PopulateAll(b)
  OBVIOUS
<1>12. ops = [k \in 1 .. n |-> Gpu!Populate(b[k])]
  BY <1>9, <1>11 DEF Gpu!PopulateAll
<1>13. IsList(ops) /\ Len(ops) = n /\ DOMAIN ops = 1 .. n
  <2>1. ops = [k \in 1 .. n |-> ops[k]]
    BY <1>12
  <2>2. QED
    BY <2>1, FunctionIsList
<1>14. ASSUME NEW k \in 1 .. n
       PROVE  IsReadOff(ops[k], lines, t[k])
  <2>1. PICK i \in DOMAIN lines : i = t[k] /\ Gpu!IsTagged(lines[i])
    BY <1>4 DEF TaggedLines
  <2>2. PICK e \in Nat : e = lines[i].elements
    BY DEF IsModule
  <2>3. PICK name : name = lines[i].name
    OBVIOUS
  <2>4. PICK id : id = Gpu!Assign(a[k])
    OBVIOUS
  <2>5. name # "" /\ id # Gpu!NoId
    BY <1>10, <2>1, <2>3, <2>4 DEF Gpu!IsTagged
  <2>6. b[k] = [op_name |-> name, elements |-> e, line |-> i, stable_id |-> id,
                estimated_flops |-> 0, estimated_bytes |-> 0]
    BY <1>9, <2>1, <2>2, <2>3, <2>4
  <2>7. ops[k] = Gpu!Populate(b[k])
    BY <1>12
  <2>8. /\ ops[k].op_name = name /\ ops[k].line = i /\ ops[k].stable_id = id
        /\ ops[k].estimated_flops = IF name \in Gpu!Convolutions THEN 2 * e ELSE e
    BY <2>6, <2>7 DEF Gpu!Populate
  <2>9. ops[k].estimated_flops \in Nat
    BY <2>8
  <2>10. QED
    BY <2>1, <2>3, <2>5, <2>8, <2>9 DEF IsReadOff
<1>15. Gpu!BuildModel(lines) = ops
  BY <1>6, <1>8, <1>11 DEF Gpu!BuildModel
<1>16. QED
  BY <1>1, <1>3, <1>4, <1>13, <1>14, <1>15 DEF IsModelOf

\* The index gives a name the id of an operator that has it, and no other name
\* an id; nothing is found by no name.
IsIndexOf(index, ops) ==
  /\ \A name \in DOMAIN index :
       index[name] # Gpu!NoId
       /\ \E k \in DOMAIN ops : ops[k].op_name = name /\ index[name] = ops[k].stable_id
  /\ \A k \in DOMAIN ops : ops[k].op_name \in DOMAIN index
  /\ "" \notin DOMAIN index

\* The adapter's index is one.
LEMMA IndexBuilt ==
  ASSUME NEW lines, NEW ops, IsModelOf(ops, lines)
  PROVE  IsIndexOf(Gpu!SymbolToId(ops), ops)
<1>1. PICK n \in Nat : DOMAIN ops = 1 .. n
  BY ListFacts DEF IsModelOf
<1>2. \A k \in 1 .. n : ops[k].op_name # "" /\ ops[k].stable_id # Gpu!NoId
  BY <1>1 DEF IsModelOf, IsReadOff
<1>3. PICK index : index = Gpu!SymbolToId(ops)
  OBVIOUS
<1>4. DOMAIN index = {ops[k].op_name : k \in 1 .. n}
  BY <1>1, <1>3 DEF Gpu!SymbolToId, Gpu!OpNames
<1>5. ASSUME NEW name \in DOMAIN index
      PROVE  \E k \in 1 .. n : ops[k].op_name = name /\ index[name] = ops[k].stable_id
  <2>1. PICK S : S = {k \in 1 .. n : ops[k].op_name = name}
    OBVIOUS
  <2>2. S \in SUBSET (1 .. n) /\ S # {}
    BY <1>4, <2>1
  <2>3. PICK m : m = Max(S)
    OBVIOUS
  <2>4. m \in S
    BY <2>2, <2>3, GreatestIs
  <2>5. Gpu!Max({k \in DOMAIN ops : ops[k].op_name = name}) = m
    BY <1>1, <2>1, <2>3, GpuSame
  <2>6. index[name] = ops[m].stable_id
    BY <1>3, <2>5 DEF Gpu!SymbolToId, Gpu!IdOf
  <2>7. QED
    BY <2>1, <2>4, <2>6
<1>6. "" \notin DOMAIN index
  BY <1>2, <1>4
<1>7. ASSUME NEW name \in DOMAIN index
      PROVE  index[name] # Gpu!NoId
  <2>1. PICK k \in 1 .. n : index[name] = ops[k].stable_id
    BY <1>5
  <2>2. ops[k].stable_id # Gpu!NoId
    BY <1>2
  <2>3. QED
    BY <2>1, <2>2
<1>8. \A k \in DOMAIN ops : ops[k].op_name \in DOMAIN index
  BY <1>1, <1>4
<1>9. \A name \in DOMAIN index :
        \E k \in DOMAIN ops : ops[k].op_name = name /\ index[name] = ops[k].stable_id
  BY <1>1, <1>5
<1>10. IsIndexOf(index, ops)
  BY <1>6, <1>7, <1>8, <1>9 DEF IsIndexOf
<1>11. QED
  BY <1>3, <1>10

-----------------------------------------------------------------------------
(* The launch observer, event by event. *)

Nothing == [begin_ns |-> << >>, out |-> << >>]

\* What a log leaves the observer with, after each of its first n events.
ObservesTo(g, index, events, n) ==
  g = [i \in 0 .. n |-> IF i = 0 THEN Nothing ELSE Gpu!Observe(g[i - 1], index, events[i])]

Observing(index, events) == CHOOSE g : ObservesTo(g, index, events, Len(events))

Observed(index, events) == Observing(index, events)[Len(events)]

\* There is such a history.
LEMMA ObservesExist ==
  ASSUME NEW index, NEW events, NEW n \in Nat
  PROVE  \E g : ObservesTo(g, index, events, n)
<1> DEFINE P == {m \in Nat : \E g : ObservesTo(g, index, events, m)}
<1>1. 0 \in P
  <2>1. 0 .. 0 = {0}
    OBVIOUS
  <2>2. ObservesTo([i \in 0 .. 0 |-> Nothing], index, events, 0)
    BY <2>1 DEF ObservesTo
  <2>3. QED
    BY <2>2
<1>2. ASSUME NEW m \in Nat, m \in P
      PROVE  m + 1 \in P
  <2>1. PICK g : ObservesTo(g, index, events, m)
    BY <1>2
  <2>2. PICK h : h = [i \in 0 .. m + 1 |->
                       IF i = 0 THEN Nothing ELSE Gpu!Observe(g[i - 1], index, events[i])]
    OBVIOUS
  <2>3. ASSUME NEW i \in 0 .. m
        PROVE  h[i] = g[i]
    <3>1. i \in 0 .. m + 1
      OBVIOUS
    <3>2. g[i] = IF i = 0 THEN Nothing ELSE Gpu!Observe(g[i - 1], index, events[i])
      BY <2>1 DEF ObservesTo
    <3>3. QED
      BY <2>2, <3>1, <3>2
  <2>4. \A i \in 0 .. m + 1 : i # 0 => i - 1 \in 0 .. m
    OBVIOUS
  <2>5. \A i \in 0 .. m + 1 : i # 0 => h[i - 1] = g[i - 1]
    BY <2>3, <2>4
  <2>6. h = [i \in 0 .. m + 1 |->
               IF i = 0 THEN Nothing ELSE Gpu!Observe(h[i - 1], index, events[i])]
    BY <2>2, <2>5
  <2>7. QED
    BY <2>6 DEF ObservesTo
<1>3. Nat \subseteq P
  <2> HIDE DEF P
  <2>1. QED
    BY <1>1, <1>2, NatSetInduction
<1>4. QED
  BY <1>3

\* Two histories agree as far as the logs do.
LEMMA ObservesAgree ==
  ASSUME NEW index, NEW s, NEW n \in Nat, NEW g, ObservesTo(g, index, s, n),
         NEW t, NEW m \in Nat, NEW h, ObservesTo(h, index, t, m),
         n <= m, \A i \in 1 .. n : s[i] = t[i]
  PROVE  g[n] = h[n]
<1> DEFINE P == {i \in Nat : i <= n => g[i] = h[i]}
<1>1. 0 \in P
  <2>1. 0 \in 0 .. n /\ 0 \in 0 .. m
    OBVIOUS
  <2>2. g[0] = Nothing /\ h[0] = Nothing
    BY <2>1 DEF ObservesTo
  <2>3. QED
    BY <2>2
<1>2. ASSUME NEW i \in Nat, i \in P
      PROVE  i + 1 \in P
  <2>1. SUFFICES ASSUME i + 1 <= n
                 PROVE  g[i + 1] = h[i + 1]
    OBVIOUS
  <2>2. /\ i + 1 \in 0 .. n /\ i + 1 \in 0 .. m /\ i + 1 \in 1 .. n
        /\ i + 1 # 0 /\ (i + 1) - 1 = i /\ i <= n
    BY <2>1
  <2>3. g[i + 1] = Gpu!Observe(g[i], index, s[i + 1])
    BY <2>2 DEF ObservesTo
  <2>4. h[i + 1] = Gpu!Observe(h[i], index, t[i + 1])
    BY <2>2 DEF ObservesTo
  <2>5. g[i] = h[i] /\ s[i + 1] = t[i + 1]
    BY <1>2, <2>2
  <2>6. QED
    BY <2>3, <2>4, <2>5
<1>3. Nat \subseteq P
  <2> HIDE DEF P
  <2>1. QED
    BY <1>1, <1>2, NatSetInduction
<1>4. n <= n
  OBVIOUS
<1>5. QED
  BY <1>3, <1>4

\* The history of a log.
LEMMA ObservingHolds ==
  ASSUME NEW index, NEW events, Len(events) \in Nat
  PROVE  ObservesTo(Observing(index, events), index, events, Len(events))
<1>1. \E g : ObservesTo(g, index, events, Len(events))
  BY ObservesExist
<1>2. QED
  BY <1>1 DEF Observing

\* The metrics of a log are those the observer ends with.
LEMMA CorrelatedIsObserved ==
  ASSUME NEW ops, NEW events
  PROVE  Gpu!CorrelateEvents(ops, events) = Observed(Gpu!SymbolToId(ops), events).out
BY DEF Gpu!CorrelateEvents, Observed, Observing, ObservesTo, Nothing

\* An empty log leaves nothing.
LEMMA ObservedNone == \A index : Observed(index, << >>) = Nothing
<1>1. SUFFICES ASSUME NEW index
               PROVE  Observed(index, << >>) = Nothing
  OBVIOUS
<1>2. Len(<< >>) = 0 /\ 0 \in 0 .. 0
  OBVIOUS
<1>3. PICK g : g = Observing(index, << >>)
  OBVIOUS
<1>4. ObservesTo(g, index, << >>, 0)
  BY <1>2, <1>3, ObservingHolds
<1>5. g[0] = Nothing
  BY <1>2, <1>4 DEF ObservesTo
<1>6. QED
  BY <1>2, <1>3, <1>5 DEF Observed

\* One event more.
LEMMA ObservedAppend ==
  ASSUME NEW T, NEW s \in Seq(T), NEW e \in T, NEW index
  PROVE  Observed(index, Append(s, e)) = Gpu!Observe(Observed(index, s), index, e)
<1>1. PICK t : t = Append(s, e)
  OBVIOUS
<1>2. PICK n \in Nat : n = Len(s)
  BY AppendFacts
<1>3. Len(t) = n + 1 /\ t[n + 1] = e /\ \A i \in 1 .. n : s[i] = t[i]
  BY <1>1, <1>2, AppendFacts
<1>4. PICK g : g = Observing(index, s)
  OBVIOUS
<1>5. PICK h : h = Observing(index, t)
  OBVIOUS
<1>6. ObservesTo(g, index, s, n) /\ Observed(index, s) = g[n]
  BY <1>2, <1>4, ObservingHolds DEF Observed
<1>7. PICK m \in Nat : m = n + 1
  OBVIOUS
<1>8. ObservesTo(h, index, t, m) /\ Observed(index, t) = h[m]
  <2>1. Len(t) \in Nat /\ Len(t) = m
    BY <1>3, <1>7
  <2>2. QED
    BY <1>5, <2>1, ObservingHolds DEF Observed
<1>9. g[n] = h[n]
  <2>1. n <= m
    BY <1>7
  <2>2. QED
    BY <1>3, <1>6, <1>8, <2>1, ObservesAgree
<1>10. h[m] = Gpu!Observe(h[n], index, t[m])
  <2>1. m \in 0 .. m /\ m # 0 /\ m - 1 = n
    BY <1>7
  <2>2. QED
    BY <1>8, <2>1 DEF ObservesTo
<1>11. QED
  BY <1>1, <1>3, <1>6, <1>7, <1>8, <1>9, <1>10

-----------------------------------------------------------------------------
(* What an event does to the observer. *)

IsDone(d) == d = [begin_ns |-> d.begin_ns, out |-> d.out]

Ended(begin_ns, e) == e.type = "end" /\ Gpu!Key(e) \in DOMAIN begin_ns /\ e.ns

LaunchOf(begin_ns, index, e) ==
  [kind |-> "launch", symbol |-> e.symbol, stage |-> e.stage,
   stable_id |-> Gpu!Lookup(index, e.symbol), value |-> e.value - begin_ns[Gpu!Key(e)]]

EventOf(index, e) == Gpu!Sample("event", e, Gpu!Lookup(index, e.symbol), e.value)

\* A begin is remembered, a measured end and a metric are put out, and nothing
\* else happens.
LEMMA ObserveSteps ==
  ASSUME NEW d, IsDone(d), NEW index, NEW e, NEW o, o = Gpu!Observe(d, index, e)
  PROVE  /\ IsDone(o)
         /\ e.type = "begin" =>
              o.out = d.out /\ o.begin_ns = Gpu!Set(d.begin_ns, Gpu!Key(e), e.value)
         /\ e.type # "begin" => o.begin_ns = d.begin_ns
         /\ Ended(d.begin_ns, e) => o.out = Append(d.out, LaunchOf(d.begin_ns, index, e))
         /\ e.type = "metric" => o.out = Append(d.out, EventOf(index, e))
         /\ e.type \notin {"begin", "metric"} /\ ~Ended(d.begin_ns, e) => o.out = d.out
<1>1. PICK b, u : d = [begin_ns |-> b, out |-> u] /\ d.begin_ns = b /\ d.out = u
  BY DEF IsDone
<1>2. CASE e.type = "begin"
  <2>1. o = [d EXCEPT !.begin_ns = Gpu!Set(b, Gpu!Key(e), e.value)]
    BY <1>1, <1>2 DEF Gpu!Observe
  <2>2. PICK a : a = Gpu!Set(b, Gpu!Key(e), e.value)
    OBVIOUS
  <2>3. o = [begin_ns |-> a, out |-> u]
    BY <1>1, <2>1, <2>2
  <2>4. QED
    BY <1>1, <1>2, <2>2, <2>3 DEF IsDone, Ended
<1>3. CASE Ended(b, e)
  <2>1. e.type = "end"
    BY <1>3 DEF Ended
  <2>2. o = [d EXCEPT !.out = Append(u, LaunchOf(b, index, e))]
    BY <1>1, <1>3 DEF Gpu!Observe, Ended, LaunchOf
  <2>3. PICK a : a = Append(u, LaunchOf(b, index, e))
    OBVIOUS
  <2>4. o = [begin_ns |-> b, out |-> a]
    BY <1>1, <2>2, <2>3
  <2>5. QED
    BY <1>1, <1>3, <2>1, <2>3, <2>4 DEF IsDone
<1>4. CASE e.type = "metric"
  <2>1. o = [d EXCEPT !.out = Append(u, EventOf(index, e))]
    BY <1>1, <1>4 DEF Gpu!Observe, EventOf
  <2>2. PICK a : a = Append(u, EventOf(index, e))
    OBVIOUS
  <2>3. o = [begin_ns |-> b, out |-> a]
    BY <1>1, <2>1, <2>2
  <2>4. QED
    BY <1>1, <1>4, <2>2, <2>3 DEF IsDone, Ended
<1>5. CASE e.type \notin {"begin", "metric"} /\ ~Ended(b, e)
  <2>1. o = d
    BY <1>1, <1>5 DEF Gpu!Observe, Ended
  <2>2. QED
    BY <1>1, <1>5, <2>1
<1>6. QED
  BY <1>1, <1>2, <1>3, <1>4, <1>5

-----------------------------------------------------------------------------
(* Whom the metrics of a run are about. *)

\* A metric has the id the index has for its symbol.
Told(index, m) ==
  m.stable_id = Gpu!Lookup(index, m.symbol) /\ m.kind \in {"record", "launch", "event"}

AllTold(index, s) == IsList(s) /\ \A i \in DOMAIN s : Told(index, s[i])

\* One more.
LEMMA ToldAppend ==
  ASSUME NEW index, NEW s, AllTold(index, s), NEW m, Told(index, m)
  PROVE  AllTold(index, Append(s, m))
<1>1. PICK T : s \in Seq(T)
  BY ListFacts DEF AllTold
<1>2. PICK U : U = T \cup {m}
  OBVIOUS
<1>3. s \in Seq(U) /\ m \in U
  BY <1>1, <1>2
<1>4. PICK t : t = Append(s, m)
  OBVIOUS
<1>5. PICK n \in Nat : n = Len(s)
  BY <1>3, LenProperties
<1>6. /\ t \in Seq(U) /\ DOMAIN t = 1 .. n + 1 /\ DOMAIN s = 1 .. n
      /\ t[n + 1] = m /\ \A i \in 1 .. n : t[i] = s[i]
  BY <1>3, <1>4, <1>5, AppendFacts
<1>7. IsList(t)
  BY <1>6, SeqIsList
<1>8. ASSUME NEW i \in 1 .. n + 1
      PROVE  Told(index, t[i])
  <2>1. i \in 1 .. n \/ i = n + 1
    OBVIOUS
  <2>2. QED
    BY <1>6, <2>1 DEF AllTold
<1>9. QED
  BY <1>4, <1>6, <1>7, <1>8 DEF AllTold

\* What the correlator reports of records.
LEMMA RecordsTold ==
  ASSUME NEW index, NEW records, IsList(records)
  PROVE  /\ AllTold(index, Gpu!CorrelateRecords(index, records))
         /\ \A i \in DOMAIN Gpu!CorrelateRecords(index, records) :
              Gpu!CorrelateRecords(index, records)[i].kind = "record"
<1>1. PICK n \in Nat : DOMAIN records = 1 .. n
  BY ListFacts
<1>2. PICK s : s = Gpu!CorrelateRecords(index, records)
  OBVIOUS
<1>3. s = [i \in 1 .. n |->
             Gpu!Sample("record", records[i], Gpu!Lookup(index, records[i].symbol),
                        records[i].value)]
  BY <1>1, <1>2 DEF Gpu!CorrelateRecords
<1>4. IsList(s) /\ DOMAIN s = 1 .. n
  <2>1. s = [i \in 1 .. n |-> s[i]]
    BY <1>3
  <2>2. QED
    BY <2>1, FunctionIsList
<1>5. ASSUME NEW i \in 1 .. n
      PROVE  Told(index, s[i]) /\ s[i].kind = "record"
  <2>1. PICK id : id = Gpu!Lookup(index, records[i].symbol)
    OBVIOUS
  <2>2. s[i] = [kind |-> "record", symbol |-> records[i].symbol, stable_id |-> id,
                value |-> records[i].value]
    BY <1>3, <2>1 DEF Gpu!Sample
  <2>3. QED
    BY <2>1, <2>2 DEF Told
<1>6. QED
  BY <1>2, <1>4, <1>5 DEF AllTold

\* What the observer reports of events.
LEMMA EventsTold ==
  ASSUME NEW index, NEW events, IsList(events)
  PROVE  IsDone(Observed(index, events)) /\ AllTold(index, Observed(index, events).out)
<1>1. PICK T : events \in Seq(T)
  BY ListFacts
<1> DEFINE P == {s \in Seq(T) : /\ IsDone(Observed(index, s))
                                /\ AllTold(index, Observed(index, s).out)}
<1>2. << >> \in P
  <2>1. << >> \in Seq(T)
    OBVIOUS
  <2>2. IsDone(Nothing) /\ Nothing.out = << >>
    BY DEF Nothing, IsDone
  <2>3. AllTold(index, << >>)
    BY ListOfNone DEF AllTold
  <2>4. QED
    BY <2>1, <2>2, <2>3, ObservedNone
<1>3. ASSUME NEW s \in Seq(T), s \in P, NEW e \in T
      PROVE  Append(s, e) \in P
  <2>1. PICK d : d = Observed(index, s)
    OBVIOUS
  <2>2. PICK o : o = Observed(index, Append(s, e))
    OBVIOUS
  <2>3. IsDone(d) /\ AllTold(index, d.out) /\ o = Gpu!Observe(d, index, e)
    BY <1>3, <2>1, <2>2, ObservedAppend
  <2>4. IsDone(o)
    BY <2>3, ObserveSteps
  <2>5. Told(index, LaunchOf(d.begin_ns, index, e))
    BY DEF Told, LaunchOf
  <2>6. Told(index, EventOf(index, e))
    BY DEF Told, EventOf, Gpu!Sample
  <2>7. AllTold(index, o.out)
    <3>1. CASE Ended(d.begin_ns, e)
      <4>1. o.out = Append(d.out, LaunchOf(d.begin_ns, index, e))
        BY <2>3, <3>1, ObserveSteps
      <4>2. AllTold(index, Append(d.out, LaunchOf(d.begin_ns, index, e)))
        BY <2>3, <2>5, ToldAppend
      <4>3. QED
        BY <4>1, <4>2
    <3>2. CASE e.type = "metric"
      <4>1. o.out = Append(d.out, EventOf(index, e))
        BY <2>3, <3>2, ObserveSteps
      <4>2. AllTold(index, Append(d.out, EventOf(index, e)))
        BY <2>3, <2>6, ToldAppend
      <4>3. QED
        BY <4>1, <4>2
    <3>3. CASE ~Ended(d.begin_ns, e) /\ e.type # "metric"
      BY <2>3, <3>3, ObserveSteps
    <3>4. QED
      BY <3>1, <3>2, <3>3
  <2>8. Append(s, e) \in Seq(T)
    BY AppendFacts
  <2>9. QED
    BY <2>2, <2>4, <2>7, <2>8
<1>4. Seq(T) \subseteq P
  <2> HIDE DEF P
  <2>1. QED
    BY <1>2, <1>3, SeqSetInduction
<1>5. QED
  BY <1>1, <1>4

-----------------------------------------------------------------------------
(* What the adapter of gpu_mlir knows at every call. *)

BuiltStages == {"LoadManifest", "LoadBegin", "LoadEnd", "RunBegin", "RunEnd", "Shutdown"}
PreparedStages == {"CompileBegin", "CompileEnd"} \cup BuiltStages

RunInputs == <<"runtime_log", "runtime_events">>

\* What a run reports of records and events.
RecordsPart(inputs, contents, index) ==
  IF "runtime_log" \in inputs /\ contents.records # << >>
  THEN Gpu!CorrelateRecords(index, contents.records[1]) ELSE << >>

EventsPart(inputs, contents, ops) ==
  IF "runtime_events" \in inputs THEN Gpu!CorrelateEvents(ops, contents.events[1]) ELSE << >>

\* And of the operators of the model first.
LoadReport(ops) == <<Gpu!OpCount(Len(ops))>>

RunReport(inputs, contents, ops) ==
  (LoadReport(ops) \o RecordsPart(inputs, contents, Gpu!SymbolToId(ops)))
    \o EventsPart(inputs, contents, ops)

GpuFiles ==
  /\ Gpu!IsProject(gpu_project)
  /\ Len(gpu_manifest) <= 1 /\ Len(gpu_instrumented) <= 1

GpuLists ==
  /\ gpu_session \in 0 .. MaxSessions
  /\ gpu_at \in {"idle", "PrepareArtifacts"} \cup PreparedStages
  /\ ToSet(gpu_outputs) \subseteq {"manifest", "original", "instrumented"}
  /\ ToSet(gpu_runtime_inputs) \subseteq {"runtime_log", "runtime_events"}
  /\ gpu_at \in {"CompileBegin", "CompileEnd"} => gpu_outputs = <<"manifest">>

\* The adapter has no model, one of some module, or one and an index of it.
GpuKnows ==
  /\ \A k \in DOMAIN gpu_model_ : gpu_model_[k].estimated_flops \in Nat
  /\ \A name \in DOMAIN gpu_symbol_to_id_ : gpu_symbol_to_id_[name] # Gpu!NoId

\* From the end of the compile on all is of the session's module.
GpuBuilt ==
  gpu_at \in BuiltStages =>
    /\ gpu_project.mlir # << >>
    /\ gpu_model_ = Gpu!BuildModel(gpu_project.mlir[1])
    /\ gpu_metadata_ops = gpu_model_
    /\ gpu_manifest = <<gpu_model_>>
    /\ gpu_symbol_to_id_ = Gpu!SymbolToId(gpu_model_)
    /\ gpu_instrumented = <<Gpu!Instrument(gpu_project.mlir[1], gpu_model_)>>

\* What the session has been given to read and what it has reported.
GpuReports ==
  /\ gpu_at \in PreparedStages => gpu_runtime_inputs = Among(RunInputs, gpu_given)
  /\ gpu_at \in {"CompileBegin", "CompileEnd", "LoadManifest", "LoadBegin", "LoadEnd"} =>
       gpu_runtime_metrics = << >>
  /\ gpu_at \in {"RunBegin", "RunEnd"} => gpu_runtime_metrics = LoadReport(gpu_model_)
  /\ gpu_at = "Shutdown" =>
       /\ gpu_runtime_metrics = RunReport(gpu_given, gpu_project, gpu_model_)
       /\ "runtime_events" \in gpu_given => gpu_project.events # << >>

GpuInv == GpuFiles /\ GpuLists /\ GpuKnows /\ GpuBuilt /\ GpuReports

\* A session starts on a new adapter or on the one before.
GpuStarts ==
  \E inputs, contents :
    /\ Gpu!IsProject(contents)
    /\ Gpu!InitializeSession(inputs, contents)
    /\ Gpu!NewAdapter \/ Gpu!SameAdapter

GpuAction ==
  \/ GpuStarts
  \/ Gpu!PrepareArtifacts \/ Gpu!Begins
  \/ Gpu!CompileEndNoModule \/ Gpu!CompileEndNoFile \/ Gpu!CompileEnd
  \/ Gpu!LoadManifest \/ Gpu!LoadBegin \/ Gpu!LoadEnd
  \/ Gpu!RunEnd \/ Gpu!Shutdown \/ Gpu!Abandon

\* The inputs of a run are those of the two that are given.
LEMMA RunInputsAre ==
  ASSUME NEW inputs, NEW s, s = Among(RunInputs, inputs)
  PROVE  /\ ToSet(s) \subseteq {"runtime_log", "runtime_events"}
         /\ "runtime_log" \in ToSet(s) <=> "runtime_log" \in inputs
         /\ "runtime_events" \in ToSet(s) <=> "runtime_events" \in inputs
<1>1. PICK T : T = {"runtime_log", "runtime_events"}
  OBVIOUS
<1>2. RunInputs \in Seq(T)
  BY <1>1 DEF RunInputs
<1>3. ToSet(RunInputs) = T
  <2>1. PICK u : u = RunInputs
    OBVIOUS
  <2>2. u = <<"runtime_log", "runtime_events">>
    BY <2>1 DEF RunInputs
  <2>3. DOMAIN u = {1, 2} /\ u[1] = "runtime_log" /\ u[2] = "runtime_events"
    BY <2>2
  <2>4. ToSet(u) = T
    BY <1>1, <2>3 DEF ToSet
  <2>5. QED
    BY <2>1, <2>4
<1>4. ToSet(s) = T \cap inputs
  BY <1>2, <1>3, AmongFacts
<1>5. QED
  BY <1>1, <1>4

\* The files stay what they may be.
LEMMA GpuFilesKept ==
  ASSUME GpuFiles, GpuAction
  PROVE  GpuFiles'
<1>1. \A a : Len(<<a>>) <= 1
  BY ListOfOne
<1>2. CASE GpuStarts
  <2>1. PICK inputs, contents : /\ Gpu!IsProject(contents)
                                /\ Gpu!InitializeSession(inputs, contents)
    BY <1>2 DEF GpuStarts
  <2>2. gpu_project' = contents /\ gpu_manifest' = gpu_manifest
          /\ gpu_instrumented' = gpu_instrumented
    BY <2>1 DEF Gpu!InitializeSession, Gpu!fileVars
  <2>3. QED
    BY <2>1, <2>2 DEF GpuFiles
<1>3. CASE Gpu!CompileEnd
  <2>1. PICK a, b : gpu_manifest' = <<a>> /\ gpu_instrumented' = <<b>>
    BY <1>3 DEF Gpu!CompileEnd
  <2>2. gpu_project' = gpu_project
    BY <1>3 DEF Gpu!CompileEnd, Gpu!settingVars
  <2>3. QED
    BY <1>1, <2>1, <2>2 DEF GpuFiles
<1>4. CASE Gpu!CompileEndNoFile
  <2>1. gpu_manifest' = gpu_manifest \/ \E a : gpu_manifest' = <<a>>
    BY <1>4 DEF Gpu!CompileEndNoFile
  <2>2. gpu_project' = gpu_project /\ gpu_instrumented' = gpu_instrumented
    BY <1>4 DEF Gpu!CompileEndNoFile, Gpu!settingVars
  <2>3. Len(gpu_manifest)' <= 1
    BY <1>1, <2>1 DEF GpuFiles
  <2>4. QED
    BY <2>2, <2>3 DEF GpuFiles
<1>5. CASE \/ Gpu!PrepareArtifacts \/ Gpu!Begins \/ Gpu!CompileEndNoModule
           \/ Gpu!LoadManifest \/ Gpu!LoadBegin \/ Gpu!LoadEnd
           \/ Gpu!RunEnd \/ Gpu!Shutdown \/ Gpu!Abandon
  <2>1. UNCHANGED <<gpu_project, gpu_manifest, gpu_instrumented>>
    BY <1>5 DEF Gpu!PrepareArtifacts, Gpu!Begins, Gpu!CompileEndNoModule, Gpu!LoadManifest,
         Gpu!LoadBegin, Gpu!LoadEnd, Gpu!RunEnd, Gpu!Shutdown, Gpu!Abandon,
         Gpu!settingVars, Gpu!fileVars
  <2>2. QED
    BY <2>1 DEF GpuFiles
<1>6. QED
  BY <1>2, <1>3, <1>4, <1>5 DEF GpuAction

\* The lists and counters stay what they may be.
LEMMA GpuListsKept ==
  ASSUME GpuLists, GpuAction
  PROVE  GpuLists'
<1>1. MaxSessions \in Nat
  BY EdgeTpuAssumption DEF EdgeTpuAssumption
<1>2. ToSet(<< >>) = {} /\ ToSet(<<"manifest">>) = {"manifest"}
  BY NoneIn, OneIn
<1>3. CASE GpuStarts
  <2>1. PICK inputs, contents : Gpu!InitializeSession(inputs, contents)
    BY <1>3 DEF GpuStarts
  <2>2. /\ gpu_session < MaxSessions /\ gpu_session' = gpu_session + 1
        /\ gpu_at' = "PrepareArtifacts"
        /\ gpu_outputs' = << >> /\ gpu_runtime_inputs' = << >>
    BY <2>1 DEF Gpu!InitializeSession
  <2>3. gpu_session' \in 0 .. MaxSessions
    BY <1>1, <2>2 DEF GpuLists
  <2>4. ToSet(gpu_outputs)' = {} /\ ToSet(gpu_runtime_inputs)' = {}
    BY <1>2, <2>2
  <2>5. QED
    BY <2>2, <2>3, <2>4 DEF GpuLists
<1>4. CASE Gpu!PrepareArtifacts
  <2>1. gpu_session' = gpu_session
    BY <1>4 DEF Gpu!PrepareArtifacts, Gpu!settingVars
  <2>2. CASE "mlir" \notin gpu_given
    <3>1. gpu_at' = "idle" /\ UNCHANGED <<gpu_outputs, gpu_runtime_inputs>>
      BY <1>4, <2>2 DEF Gpu!PrepareArtifacts, Gpu!Fails, Gpu!runtimeVars
    <3>2. QED
      BY <2>1, <3>1 DEF GpuLists
  <2>3. CASE "mlir" \in gpu_given
    <3>1. /\ gpu_at' = "CompileBegin" /\ gpu_outputs' = <<"manifest">>
          /\ gpu_runtime_inputs' = Among(RunInputs, gpu_given)
      BY <1>4, <2>3, GpuSame DEF Gpu!PrepareArtifacts, RunInputs
    <3>2. ToSet(gpu_runtime_inputs)' \subseteq {"runtime_log", "runtime_events"}
      BY <3>1, RunInputsAre
    <3>3. ToSet(gpu_outputs)' = {"manifest"}
      BY <1>2, <3>1
    <3>4. QED
      BY <2>1, <3>1, <3>2, <3>3 DEF GpuLists, PreparedStages
  <2>4. QED
    BY <2>2, <2>3
<1>5. CASE Gpu!Begins
  <2>1. /\ UNCHANGED <<gpu_session, gpu_outputs, gpu_runtime_inputs>>
        /\ \/ gpu_at = "CompileBegin" /\ gpu_at' = "CompileEnd"
           \/ gpu_at = "RunBegin" /\ gpu_at' = "RunEnd"
    BY <1>5 DEF Gpu!Begins, Gpu!settingVars, Gpu!runtimeVars
  <2>2. QED
    BY <2>1 DEF GpuLists, PreparedStages, BuiltStages
<1>6. CASE Gpu!CompileEnd
  <2>1. /\ gpu_at = "CompileEnd" /\ gpu_at' = "LoadManifest"
        /\ gpu_outputs' = gpu_outputs \o <<"original", "instrumented">>
        /\ UNCHANGED <<gpu_session, gpu_runtime_inputs>>
    BY <1>6 DEF Gpu!CompileEnd, Gpu!settingVars, Gpu!runtimeVars
  <2>2. gpu_outputs' = <<"manifest">> \o <<"original", "instrumented">>
    BY <2>1 DEF GpuLists
  <2>3. PICK u : u = <<"original", "instrumented">>
    OBVIOUS
  <2>4. IsList(u) /\ ToSet(u) = {"original", "instrumented"}
    <3>1. u \in Seq({"original", "instrumented"})
      BY <2>3
    <3>2. DOMAIN u = {1, 2} /\ u[1] = "original" /\ u[2] = "instrumented"
      BY <2>3
    <3>3. QED
      BY <3>1, <3>2, SeqIsList DEF ToSet
  <2>5. ToSet(gpu_outputs)' = {"manifest", "original", "instrumented"}
    <3>1. IsList(<<"manifest">>)
      BY ListOfOne
    <3>2. ToSet(<<"manifest">> \o u) = {"manifest"} \cup {"original", "instrumented"}
      BY <1>2, <2>4, <3>1, ConcatSet
    <3>3. QED
      BY <2>2, <2>3, <3>2
  <2>6. QED
    BY <2>1, <2>5 DEF GpuLists, PreparedStages, BuiltStages
<1>7. CASE \/ Gpu!CompileEndNoModule \/ Gpu!CompileEndNoFile
           \/ Gpu!LoadManifest \/ Gpu!LoadBegin \/ Gpu!LoadEnd
           \/ Gpu!RunEnd \/ Gpu!Shutdown \/ Gpu!Abandon
  <2>1. UNCHANGED <<gpu_session, gpu_outputs, gpu_runtime_inputs>>
    BY <1>7 DEF Gpu!CompileEndNoModule, Gpu!CompileEndNoFile, Gpu!LoadManifest, Gpu!LoadBegin,
         Gpu!LoadEnd, Gpu!RunEnd, Gpu!Shutdown, Gpu!Abandon, Gpu!settingVars, Gpu!runtimeVars
  <2>2. gpu_at' = "idle" \/ gpu_at' \in BuiltStages
    BY <1>7 DEF Gpu!CompileEndNoModule, Gpu!CompileEndNoFile, Gpu!LoadManifest, Gpu!LoadBegin,
         Gpu!LoadEnd, Gpu!RunEnd, Gpu!Shutdown, Gpu!Abandon, Gpu!Fails, BuiltStages
  <2>3. QED
    BY <2>1, <2>2 DEF GpuLists, PreparedStages, BuiltStages
<1>8. QED
  BY <1>3, <1>4, <1>5, <1>6, <1>7 DEF GpuAction

\* What the adapter makes of a module.
LEMMA ModuleIsBuilt ==
  ASSUME NEW contents, Gpu!IsProject(contents), contents.mlir # << >>,
         NEW lines, lines = contents.mlir[1], NEW ops, ops = Gpu!BuildModel(lines)
  PROVE  /\ IsModule(lines) /\ IsModelOf(ops, lines) /\ IsIndexOf(Gpu!SymbolToId(ops), ops)
         /\ \A k \in DOMAIN ops : ops[k].estimated_flops \in Nat
<1>1. IsModule(lines)
  BY GpuSame DEF Gpu!IsProject, IsModule
<1>2. IsModelOf(ops, lines)
  BY <1>1, ModelBuilt
<1>3. IsIndexOf(Gpu!SymbolToId(ops), ops)
  BY <1>2, IndexBuilt
<1>4. \A k \in DOMAIN ops : ops[k].estimated_flops \in Nat
  BY <1>2 DEF IsModelOf, IsReadOff
<1>5. QED
  BY <1>1, <1>2, <1>3, <1>4

\* The model and the index of the adapter are those of some module or none.
LEMMA GpuKnowsKept ==
  ASSUME GpuFiles, GpuKnows, GpuAction
  PROVE  GpuKnows'
<1>1. DOMAIN << >> = {}
  BY ListOfNone
<1>2. ASSUME gpu_model_' = << >>, gpu_symbol_to_id_' = << >>
      PROVE  GpuKnows'
  BY <1>1, <1>2 DEF GpuKnows
<1>3. ASSUME UNCHANGED <<gpu_model_, gpu_symbol_to_id_>>
      PROVE  GpuKnows'
  BY <1>3 DEF GpuKnows
<1>4. CASE GpuStarts
  <2>1. Gpu!NewAdapter \/ Gpu!SameAdapter
    BY <1>4 DEF GpuStarts
  <2>2. CASE Gpu!NewAdapter
    BY <1>2, <2>2 DEF Gpu!NewAdapter
  <2>3. CASE Gpu!SameAdapter
    BY <1>3, <2>3 DEF Gpu!SameAdapter, Gpu!adapterVars
  <2>4. QED
    BY <2>1, <2>2, <2>3
<1>5. CASE Gpu!CompileEnd \/ Gpu!CompileEndNoFile
  <2>1. PICK contents : contents = gpu_project
    OBVIOUS
  <2>2. PICK ops : ops = Gpu!BuildModel(contents.mlir[1])
    OBVIOUS
  <2>3. /\ contents.mlir # << >> /\ gpu_model_' = ops
        /\ gpu_symbol_to_id_' = gpu_symbol_to_id_ \/ gpu_symbol_to_id_' = Gpu!SymbolToId(ops)
    BY <1>5, <2>1, <2>2 DEF Gpu!CompileEnd, Gpu!CompileEndNoFile, Gpu!IndexModel
  <2>4. Gpu!IsProject(contents)
    BY <2>1 DEF GpuFiles
  <2>5. PICK index : index = Gpu!SymbolToId(ops)
    OBVIOUS
  <2>6. /\ IsIndexOf(index, ops)
        /\ \A k \in DOMAIN ops : ops[k].estimated_flops \in Nat
    BY <2>2, <2>3, <2>4, <2>5, ModuleIsBuilt
  <2>7. \A name \in DOMAIN index : index[name] # Gpu!NoId
    BY <2>6 DEF IsIndexOf
  <2>8. (\A k \in DOMAIN gpu_model_ : gpu_model_[k].estimated_flops \in Nat)'
    BY <2>3, <2>6
  <2>9. (\A name \in DOMAIN gpu_symbol_to_id_ : gpu_symbol_to_id_[name] # Gpu!NoId)'
    BY <2>3, <2>5, <2>7 DEF GpuKnows
  <2>10. QED
    BY <2>8, <2>9 DEF GpuKnows
<1>6. CASE Gpu!Shutdown
  BY <1>2, <1>6 DEF Gpu!Shutdown
<1>7. CASE \/ Gpu!PrepareArtifacts \/ Gpu!Begins \/ Gpu!CompileEndNoModule
           \/ Gpu!LoadManifest \/ Gpu!LoadBegin \/ Gpu!LoadEnd \/ Gpu!RunEnd \/ Gpu!Abandon
  <2>1. UNCHANGED <<gpu_model_, gpu_symbol_to_id_>>
    BY <1>7 DEF Gpu!PrepareArtifacts, Gpu!Begins, Gpu!CompileEndNoModule, Gpu!LoadManifest,
         Gpu!LoadBegin, Gpu!LoadEnd, Gpu!RunEnd, Gpu!Abandon, Gpu!adapterVars
  <2>2. QED
    BY <1>3, <2>1
<1>8. QED
  BY <1>4, <1>5, <1>6, <1>7 DEF GpuAction

\* The end of the compile makes all of one module, and nothing but the next
\* session parts it.
LEMMA GpuBuiltKept ==
  ASSUME GpuBuilt, GpuAction
  PROVE  GpuBuilt'
<1>1. CASE gpu_at' \notin BuiltStages
  BY <1>1 DEF GpuBuilt
<1>2. CASE GpuStarts
  <2>1. PICK inputs, contents : Gpu!InitializeSession(inputs, contents)
    BY <1>2 DEF GpuStarts
  <2>2. QED
    BY <1>1, <2>1 DEF Gpu!InitializeSession, BuiltStages
<1>3. CASE Gpu!CompileEnd
  <2>1. PICK lines, ops : lines = gpu_project.mlir[1] /\ ops = Gpu!BuildModel(lines)
    OBVIOUS
  <2>2. /\ gpu_project.mlir # << >> /\ gpu_project' = gpu_project
        /\ gpu_model_' = ops /\ gpu_manifest' = <<ops>>
        /\ gpu_instrumented' = <<Gpu!Instrument(lines, ops)>>
        /\ gpu_symbol_to_id_' = Gpu!SymbolToId(ops) /\ gpu_metadata_ops' = ops
    BY <1>3, <2>1 DEF Gpu!CompileEnd, Gpu!IndexModel, Gpu!settingVars
  <2>3. QED
    BY <2>1, <2>2 DEF GpuBuilt
<1>4. CASE Gpu!Begins /\ gpu_at' \in BuiltStages
  <2>1. gpu_at \in BuiltStages
    BY <1>4 DEF Gpu!Begins, BuiltStages
  <2>2. UNCHANGED <<gpu_project, gpu_model_, gpu_metadata_ops, gpu_manifest, gpu_symbol_to_id_,
                    gpu_instrumented>>
    BY <1>4 DEF Gpu!Begins, Gpu!settingVars, Gpu!fileVars, Gpu!adapterVars
  <2>3. QED
    BY <2>1, <2>2 DEF GpuBuilt
<1>5. CASE (Gpu!LoadManifest \/ Gpu!LoadBegin \/ Gpu!LoadEnd \/ Gpu!RunEnd)
  <2>1. gpu_at \in BuiltStages
    BY <1>5 DEF Gpu!LoadManifest, Gpu!LoadBegin, Gpu!LoadEnd, Gpu!RunEnd, BuiltStages
  <2>2. UNCHANGED <<gpu_project, gpu_model_, gpu_metadata_ops, gpu_manifest, gpu_symbol_to_id_,
                    gpu_instrumented>>
    BY <1>5 DEF Gpu!LoadManifest, Gpu!LoadBegin, Gpu!LoadEnd, Gpu!RunEnd, Gpu!settingVars,
         Gpu!fileVars, Gpu!adapterVars
  <2>3. QED
    BY <2>1, <2>2 DEF GpuBuilt
<1>6. CASE \/ Gpu!PrepareArtifacts \/ Gpu!CompileEndNoModule \/ Gpu!CompileEndNoFile
           \/ Gpu!Shutdown \/ Gpu!Abandon
  <2>1. gpu_at' \in {"idle", "CompileBegin"}
    BY <1>6 DEF Gpu!PrepareArtifacts, Gpu!CompileEndNoModule, Gpu!CompileEndNoFile,
         Gpu!Shutdown, Gpu!Abandon, Gpu!Fails
  <2>2. QED
    BY <1>1, <2>1 DEF BuiltStages
<1>7. QED
  BY <1>1, <1>2, <1>3, <1>4, <1>5, <1>6 DEF GpuAction

\* What a session reports of its load and its records are lists.
LEMMA PartsAreLists ==
  ASSUME NEW contents, Gpu!IsProject(contents), NEW inputs, NEW index
  PROVE  /\ \A ops : IsList(LoadReport(ops))
         /\ IsList(RecordsPart(inputs, contents, index))
<1>1. \A ops : IsList(LoadReport(ops))
  BY ListOfOne DEF LoadReport
<1>2. CASE "runtime_log" \in inputs /\ contents.records # << >>
  <2>1. IsList(contents.records[1])
    BY <1>2, GpuSame DEF Gpu!IsProject
  <2>2. PICK records : records = contents.records[1]
    OBVIOUS
  <2>3. AllTold(index, Gpu!CorrelateRecords(index, records))
    BY <2>1, <2>2, RecordsTold
  <2>4. QED
    BY <1>1, <1>2, <2>2, <2>3 DEF AllTold, RecordsPart
<1>3. CASE ~("runtime_log" \in inputs /\ contents.records # << >>)
  BY <1>1, <1>3, ListOfNone DEF RecordsPart
<1>4. QED
  BY <1>2, <1>3

\* Each call adds to the metrics what it reports.
LEMMA GpuReportsKept ==
  ASSUME GpuFiles, GpuBuilt, GpuReports, GpuAction
  PROVE  GpuReports'
<1>1. CASE gpu_at' \in {"idle", "PrepareArtifacts"}
  BY <1>1 DEF GpuReports, PreparedStages, BuiltStages
<1>2. CASE GpuStarts
  <2>1. PICK inputs, contents : Gpu!InitializeSession(inputs, contents)
    BY <1>2 DEF GpuStarts
  <2>2. QED
    BY <1>1, <2>1 DEF Gpu!InitializeSession
<1>3. CASE Gpu!PrepareArtifacts
  <2>1. CASE "mlir" \notin gpu_given
    BY <1>1, <1>3, <2>1 DEF Gpu!PrepareArtifacts, Gpu!Fails
  <2>2. CASE "mlir" \in gpu_given
    <3>1. /\ gpu_at' = "CompileBegin" /\ gpu_runtime_inputs' = Among(RunInputs, gpu_given)
          /\ gpu_given' = gpu_given /\ gpu_runtime_metrics' = << >>
      BY <1>3, <2>2, GpuSame DEF Gpu!PrepareArtifacts, Gpu!settingVars, RunInputs
    <3>2. QED
      BY <3>1 DEF GpuReports, PreparedStages, BuiltStages
  <2>3. QED
    BY <2>1, <2>2
<1>4. CASE Gpu!Begins
  <2>1. /\ UNCHANGED <<gpu_runtime_inputs, gpu_runtime_metrics, gpu_given, gpu_model_>>
        /\ \/ gpu_at = "CompileBegin" /\ gpu_at' = "CompileEnd"
           \/ gpu_at = "RunBegin" /\ gpu_at' = "RunEnd"
    BY <1>4 DEF Gpu!Begins, Gpu!settingVars, Gpu!runtimeVars, Gpu!adapterVars
  <2>2. QED
    BY <2>1 DEF GpuReports, PreparedStages, BuiltStages
<1>5. CASE Gpu!CompileEnd
  <2>1. /\ gpu_at = "CompileEnd" /\ gpu_at' = "LoadManifest"
        /\ UNCHANGED <<gpu_runtime_inputs, gpu_runtime_metrics, gpu_given>>
    BY <1>5 DEF Gpu!CompileEnd, Gpu!settingVars, Gpu!runtimeVars
  <2>2. QED
    BY <2>1 DEF GpuReports, PreparedStages, BuiltStages
<1>6. CASE (Gpu!LoadManifest \/ Gpu!LoadBegin) /\ gpu_at' # "idle"
  <2>1. /\ UNCHANGED <<gpu_runtime_inputs, gpu_runtime_metrics, gpu_given>>
        /\ gpu_at \in {"LoadManifest", "LoadBegin"} /\ gpu_at' \in {"LoadBegin", "LoadEnd"}
    BY <1>6 DEF Gpu!LoadManifest, Gpu!LoadBegin, Gpu!Fails, Gpu!settingVars, Gpu!runtimeVars
  <2>2. QED
    BY <2>1 DEF GpuReports, PreparedStages, BuiltStages
<1>7. CASE Gpu!LoadEnd
  <2>1. /\ UNCHANGED <<gpu_runtime_inputs, gpu_given, gpu_model_>>
        /\ gpu_at = "LoadEnd" /\ gpu_at' = "RunBegin"
        /\ gpu_runtime_metrics' = Append(gpu_runtime_metrics, Gpu!OpCount(Len(gpu_model_)))
    BY <1>7 DEF Gpu!LoadEnd, Gpu!settingVars, Gpu!adapterVars
  <2>2. \A m : Append(<< >>, m) = <<m>>
    OBVIOUS
  <2>3. gpu_runtime_metrics = << >>
    BY <2>1 DEF GpuReports
  <2>4. gpu_runtime_metrics' = LoadReport(gpu_model_')
    BY <2>1, <2>2, <2>3 DEF LoadReport
  <2>5. QED
    BY <2>1, <2>4 DEF GpuReports, PreparedStages, BuiltStages
<1>8. CASE Gpu!RunEnd /\ gpu_at' # "idle"
  <2>1. PICK ops, inputs, contents :
           ops = gpu_model_ /\ inputs = gpu_given /\ contents = gpu_project
    OBVIOUS
  <2>2. /\ UNCHANGED <<gpu_runtime_inputs, gpu_given, gpu_project, gpu_model_>>
        /\ gpu_at = "RunEnd"
    BY <1>8 DEF Gpu!RunEnd, Gpu!settingVars, Gpu!adapterVars
  <2>3. /\ gpu_runtime_metrics = LoadReport(ops)
        /\ gpu_runtime_inputs = Among(RunInputs, inputs)
        /\ gpu_symbol_to_id_ = Gpu!SymbolToId(ops)
    BY <2>1, <2>2 DEF GpuReports, GpuBuilt, PreparedStages, BuiltStages
  <2>4. /\ "runtime_log" \in Gpu!ToSet(gpu_runtime_inputs) <=> "runtime_log" \in inputs
        /\ "runtime_events" \in Gpu!ToSet(gpu_runtime_inputs) <=> "runtime_events" \in inputs
    BY <2>3, RunInputsAre, GpuSame
  <2>5. Gpu!RecordMetrics = RecordsPart(inputs, contents, Gpu!SymbolToId(ops))
    BY <2>1, <2>3, <2>4 DEF Gpu!RecordMetrics, RecordsPart
  <2>6. PICK l, r : l = LoadReport(ops) /\ r = RecordsPart(inputs, contents, Gpu!SymbolToId(ops))
    OBVIOUS
  <2>7. /\ gpu_at' = "Shutdown"
        /\ gpu_runtime_metrics' = RunReport(inputs, contents, ops)
        /\ "runtime_events" \in inputs => contents.events # << >>
    <3>1. CASE "runtime_events" \notin inputs
      <4>1. gpu_at' = "Shutdown" /\ gpu_runtime_metrics' = l \o r
        BY <1>8, <2>3, <2>4, <2>5, <2>6, <3>1 DEF Gpu!RunEnd
      <4>2. EventsPart(inputs, contents, ops) = << >>
        BY <3>1 DEF EventsPart
      <4>3. IsList(l \o r)
        BY <2>1, <2>6, PartsAreLists, ListConcat DEF GpuFiles
      <4>4. (l \o r) \o << >> = l \o r
        BY <4>3, NothingAfter
      <4>5. QED
        BY <2>6, <3>1, <4>1, <4>2, <4>4 DEF RunReport
    <3>2. CASE "runtime_events" \in inputs
      <4>1. /\ contents.events # << >> /\ gpu_at' = "Shutdown"
            /\ gpu_runtime_metrics' = (l \o r) \o Gpu!CorrelateEvents(ops, contents.events[1])
        BY <1>8, <2>1, <2>3, <2>4, <2>5, <2>6, <3>2 DEF Gpu!RunEnd, Gpu!Fails
      <4>2. QED
        BY <2>6, <3>2, <4>1 DEF RunReport, EventsPart
    <3>3. QED
      BY <3>1, <3>2
  <2>8. QED
    BY <2>1, <2>2, <2>3, <2>7 DEF GpuReports, PreparedStages, BuiltStages
<1>9. CASE \/ Gpu!CompileEndNoModule \/ Gpu!CompileEndNoFile \/ Gpu!Shutdown \/ Gpu!Abandon
           \/ (Gpu!LoadManifest \/ Gpu!LoadBegin \/ Gpu!RunEnd) /\ gpu_at' = "idle"
  <2>1. gpu_at' = "idle"
    BY <1>9 DEF Gpu!CompileEndNoModule, Gpu!CompileEndNoFile, Gpu!Shutdown, Gpu!Abandon,
         Gpu!Fails
  <2>2. QED
    BY <1>1, <2>1
<1>10. QED
  BY <1>2, <1>3, <1>4, <1>5, <1>6, <1>7, <1>8, <1>9 DEF GpuAction

\* The invariant holds at first.
LEMMA GpuInit ==
  ASSUME Gpu!Init
  PROVE  GpuInv
<1>1. Len(<< >>) <= 1 /\ DOMAIN << >> = {} /\ ToSet(<< >>) = {}
  BY NoneIn, ListOfNone
<1>2. /\ gpu_session = 0 /\ gpu_at = "idle"
      /\ gpu_project = [mlir |-> << >>, records |-> << >>, events |-> << >>]
      /\ gpu_manifest = << >> /\ gpu_instrumented = << >>
      /\ gpu_outputs = << >> /\ gpu_runtime_inputs = << >>
      /\ gpu_model_ = << >> /\ gpu_symbol_to_id_ = << >>
  BY DEF Gpu!Init
<1>3. Gpu!IsProject(gpu_project)
  BY <1>2 DEF Gpu!IsProject
<1>4. MaxSessions \in Nat
  BY EdgeTpuAssumption DEF EdgeTpuAssumption
<1>5. GpuFiles
  BY <1>1, <1>2, <1>3 DEF GpuFiles
<1>6. GpuLists
  <2>1. 0 \in 0 .. MaxSessions
    BY <1>4
  <2>2. QED
    BY <1>1, <1>2, <2>1 DEF GpuLists
<1>7. GpuKnows
  BY <1>1, <1>2 DEF GpuKnows
<1>8. GpuBuilt /\ GpuReports
  BY <1>2 DEF GpuBuilt, GpuReports, PreparedStages, BuiltStages
<1>9. QED
  BY <1>5, <1>6, <1>7, <1>8 DEF GpuInv

\* What the driver or a caller does with a process is a step of the adapter or
\* leaves it alone.
LEMMA GpuActions ==
  ASSUME [SessionsNext]_sessionsVars
  PROVE  GpuAction \/ UNCHANGED gpuVars
<1>1. CASE UNCHANGED sessionsVars
  BY <1>1 DEF sessionsVars
<1>2. ASSUME NEW options, NEW project \in ProjectsHere, Open(options, project)
      PROVE  GpuAction \/ UNCHANGED gpuVars
  <2>1. CASE backend = "gpu_mlir"
    <3>1. project \in GpuProjects
      BY <2>1 DEF ProjectsHere
    <3>2. Gpu!IsProject(project)
      BY <3>1, BackendsAssumption DEF BackendsAssumption
    <3>3. \/ \E inputs : Gpu!InitializeSession(inputs, project) /\ Gpu!NewAdapter
          \/ UNCHANGED gpuVars
      BY <1>2 DEF Open
    <3>4. QED
      BY <3>2, <3>3 DEF GpuAction, GpuStarts
  <2>2. CASE backend # "gpu_mlir"
    BY <1>2, <2>2 DEF Open
  <2>3. QED
    BY <2>1, <2>2
<1>3. CASE DriverStarts
  <2>1. PICK options \in OptionSet, project \in ProjectsHere :
           Serve(options, project) \/ Refused("driver")
    BY <1>3 DEF DriverStarts
  <2>2. Open(options, project) \/ UNCHANGED gpuVars
    BY <2>1 DEF Serve, Refused
  <2>3. QED
    BY <1>2, <2>2
<1>4. CASE CallerStarts
  <2>1. \/ UNCHANGED gpuVars
        \/ /\ \E inputs \in GpuSettings, project \in GpuProjects :
                Gpu!InitializeSession(inputs, project)
           /\ Gpu!NewAdapter \/ Gpu!SameAdapter
    BY <1>4 DEF CallerStarts
  <2>2. ASSUME NEW inputs \in GpuSettings, NEW project \in GpuProjects,
               Gpu!InitializeSession(inputs, project), Gpu!NewAdapter \/ Gpu!SameAdapter
        PROVE  GpuStarts
    <3>1. Gpu!IsProject(project)
      BY BackendsAssumption DEF BackendsAssumption
    <3>2. QED
      BY <2>2, <3>1 DEF GpuStarts
  <2>3. QED
    BY <2>1, <2>2 DEF GpuAction
<1>5. CASE EdgeTpuStep
  BY <1>5 DEF EdgeTpuStep
<1>6. CASE GpuStep
  BY <1>6 DEF GpuStep, GpuAction
<1>7. QED
  BY <1>1, <1>3, <1>4, <1>5, <1>6 DEF SessionsNext

\* It is an invariant: from the end of the compile to the end of the session
\* the files, the context, the adapter and its index are of one module.
THEOREM GpuInvariant == SessionsSpec => []GpuInv
<1>1. SessionsInit => GpuInv
  BY GpuInit DEF SessionsInit
<1>2. ASSUME GpuInv, [SessionsNext]_sessionsVars
      PROVE  GpuInv'
  <2>1. CASE GpuAction
    BY <1>2, <2>1, GpuFilesKept, GpuListsKept, GpuKnowsKept, GpuBuiltKept, GpuReportsKept
       DEF GpuInv
  <2>2. CASE UNCHANGED gpuVars
    <3>1. UNCHANGED <<gpu_session, gpu_at, gpu_given, gpu_project, gpu_manifest,
                      gpu_instrumented, gpu_outputs, gpu_runtime_inputs, gpu_runtime_metrics,
                      gpu_metadata_ops, gpu_model_, gpu_symbol_to_id_>>
      BY <2>2 DEF gpuVars
    <3>2. GpuFiles' /\ GpuLists' /\ GpuKnows'
      BY <1>2, <3>1 DEF GpuInv, GpuFiles, GpuLists, GpuKnows
    <3>3. GpuBuilt' /\ GpuReports'
      BY <1>2, <3>1 DEF GpuInv, GpuBuilt, GpuReports
    <3>4. QED
      BY <3>2, <3>3 DEF GpuInv
  <2>3. QED
    BY <1>2, <2>1, <2>2, GpuActions
<1>3. QED
  BY <1>1, <1>2, PTL DEF SessionsSpec

-----------------------------------------------------------------------------
(* One model for everyone. *)

\* A metric tells the number of operators, or is about the operator its symbol
\* names.
Fits(index, n, m) ==
  \/ m.kind = "op_count" /\ m.value = n /\ m.symbol = "" /\ m.stable_id = Gpu!NoId
  \/ Told(index, m)

\* So do all a session has reported.
LEMMA MetricsFit ==
  ASSUME GpuInv, gpu_at \in BuiltStages, NEW ops, ops = gpu_metadata_ops
  PROVE  \A i \in DOMAIN gpu_runtime_metrics :
           Fits(Gpu!SymbolToId(ops), Len(ops), gpu_runtime_metrics[i])
<1>1. PICK index : index = Gpu!SymbolToId(ops)
  OBVIOUS
<1>2. PICK n : n = Len(ops)
  OBVIOUS
<1>3. gpu_model_ = ops
  BY DEF GpuInv, GpuBuilt
<1>4. PICK contents, inputs : contents = gpu_project /\ inputs = gpu_given
  OBVIOUS
<1>5. Gpu!IsProject(contents)
  BY <1>4 DEF GpuInv, GpuFiles
<1>6. PICK l : l = LoadReport(ops)
  OBVIOUS
<1>7. PICK r : r = RecordsPart(inputs, contents, index)
  OBVIOUS
<1>8. PICK e : e = EventsPart(inputs, contents, ops)
  OBVIOUS
<1>9. IsList(l) /\ IsList(r)
  BY <1>5, <1>6, <1>7, PartsAreLists
<1>10. \A m \in ToSet(l) : Fits(index, n, m)
  <2>1. l = <<Gpu!OpCount(n)>>
    BY <1>2, <1>6 DEF LoadReport
  <2>2. ToSet(l) = {Gpu!OpCount(n)}
    BY <2>1, ListOfOne DEF ToSet
  <2>3. Fits(index, n, Gpu!OpCount(n))
    BY DEF Fits, Gpu!OpCount
  <2>4. QED
    BY <2>2, <2>3
<1>11. \A s : AllTold(index, s) => \A m \in ToSet(s) : Fits(index, n, m)
  BY DEF AllTold, Fits, ToSet
<1>12. AllTold(index, << >>)
  BY ListOfNone DEF AllTold
<1>13. AllTold(index, r)
  <2>1. CASE "runtime_log" \in inputs /\ contents.records # << >>
    <3>1. PICK records : records = contents.records[1]
      OBVIOUS
    <3>2. IsList(records)
      BY <1>5, <2>1, <3>1, GpuSame DEF Gpu!IsProject
    <3>3. QED
      BY <1>7, <2>1, <3>1, <3>2, RecordsTold DEF RecordsPart
  <2>2. CASE ~("runtime_log" \in inputs /\ contents.records # << >>)
    BY <1>7, <1>12, <2>2 DEF RecordsPart
  <2>3. QED
    BY <2>1, <2>2
<1>14. ASSUME gpu_at = "Shutdown"
       PROVE  AllTold(index, e)
  <2>1. CASE "runtime_events" \in inputs
    <3>1. PICK events : events = contents.events[1]
      OBVIOUS
    <3>2. IsList(events)
      BY <1>4, <1>5, <1>14, <2>1, <3>1, GpuSame DEF Gpu!IsProject, GpuInv, GpuReports
    <3>3. e = Observed(index, events).out
      BY <1>1, <1>8, <2>1, <3>1, CorrelatedIsObserved DEF EventsPart
    <3>4. QED
      BY <3>2, <3>3, EventsTold
  <2>2. CASE "runtime_events" \notin inputs
    BY <1>8, <1>12, <2>2 DEF EventsPart
  <2>3. QED
    BY <2>1, <2>2
<1>15. \A m \in ToSet(gpu_runtime_metrics) : Fits(index, n, m)
  <2>1. CASE gpu_at = "Shutdown"
    <3>1. gpu_runtime_metrics = (l \o r) \o e
      BY <1>1, <1>3, <1>4, <1>6, <1>7, <1>8, <2>1 DEF GpuInv, GpuReports, RunReport
    <3>2. IsList(l \o r) /\ ToSet(l \o r) = ToSet(l) \cup ToSet(r)
      BY <1>9, ListConcat, ConcatSet
    <3>3. IsList(e)
      BY <1>14, <2>1 DEF AllTold
    <3>4. ToSet((l \o r) \o e) = (ToSet(l) \cup ToSet(r)) \cup ToSet(e)
      BY <3>2, <3>3, ConcatSet
    <3>5. \A m \in ToSet(r) : Fits(index, n, m)
      BY <1>11, <1>13
    <3>6. \A m \in ToSet(e) : Fits(index, n, m)
      BY <1>11, <1>14, <2>1
    <3>7. QED
      BY <1>10, <3>1, <3>4, <3>5, <3>6
  <2>2. CASE gpu_at \in {"RunBegin", "RunEnd"}
    BY <1>3, <1>6, <1>10, <2>2 DEF GpuInv, GpuReports
  <2>3. CASE gpu_at \in {"LoadManifest", "LoadBegin", "LoadEnd"}
    <3>1. gpu_runtime_metrics = << >>
      BY <2>3 DEF GpuInv, GpuReports
    <3>2. QED
      BY <1>11, <1>12, <3>1
  <2>4. QED
    BY <2>1, <2>2, <2>3 DEF BuiltStages
<1>16. QED
  BY <1>1, <1>2, <1>15 DEF ToSet

\* A metric that fits has the id the index has for its symbol, and one that
\* does not tell the number of operators has an operator of that name if there
\* is one.
LEMMA FitsMeans ==
  ASSUME NEW index, NEW ops, IsIndexOf(index, ops), NEW n, NEW m, Fits(index, n, m)
  PROVE  /\ m.stable_id = Gpu!Lookup(index, m.symbol)
         /\ m.kind = "op_count" => m.value = n
         /\ m.kind # "op_count" /\ {k \in DOMAIN ops : ops[k].op_name = m.symbol} = {}
              => m.stable_id = Gpu!NoId
         /\ m.kind # "op_count" /\ {k \in DOMAIN ops : ops[k].op_name = m.symbol} # {}
              => \E k \in {j \in DOMAIN ops : ops[j].op_name = m.symbol} :
                   m.stable_id = ops[k].stable_id
<1>1. Gpu!Lookup(index, "") = Gpu!NoId
  BY DEF Gpu!Lookup, IsIndexOf
<1>2. m.stable_id = Gpu!Lookup(index, m.symbol)
  BY <1>1 DEF Fits, Told
<1>3. m.kind = "op_count" => m.value = n
  BY DEF Fits, Told
<1>4. PICK name : name = m.symbol
  OBVIOUS
<1>5. CASE name \in DOMAIN index
  <2>1. PICK k \in DOMAIN ops : ops[k].op_name = name /\ index[name] = ops[k].stable_id
    BY <1>5 DEF IsIndexOf
  <2>2. m.stable_id = ops[k].stable_id
    BY <1>2, <1>4, <1>5, <2>1 DEF Gpu!Lookup
  <2>3. k \in {j \in DOMAIN ops : ops[j].op_name = name}
    BY <2>1
  <2>4. QED
    BY <1>2, <1>3, <1>4, <2>2, <2>3
<1>6. CASE name \notin DOMAIN index
  <2>1. {j \in DOMAIN ops : ops[j].op_name = name} = {}
    BY <1>6 DEF IsIndexOf
  <2>2. m.stable_id = Gpu!NoId
    BY <1>2, <1>4, <1>6 DEF Gpu!Lookup
  <2>3. QED
    BY <1>2, <1>3, <1>4, <2>1, <2>2
<1>7. QED
  BY <1>5, <1>6

\* Whatever sessions came before on the adapter, manifest, context and metrics
\* speak of the operators of the session's module.
THEOREM ModelIsOne == SessionsSpec => []OneModel
<1>1. ASSUME GpuInv, gpu_at \in BuiltStages
      PROVE  Gpu!OneModel
  <2>1. PICK ops : ops = gpu_metadata_ops
    OBVIOUS
  <2>2. PICK contents : contents = gpu_project
    OBVIOUS
  <2>3. /\ ops = Gpu!BuildModel(contents.mlir[1]) /\ contents.mlir # << >>
        /\ Gpu!IsProject(contents)
    BY <1>1, <2>1, <2>2 DEF GpuInv, GpuBuilt, GpuFiles
  <2>4. PICK index : index = Gpu!SymbolToId(ops)
    OBVIOUS
  <2>5. IsIndexOf(index, ops)
    BY <2>3, <2>4, ModuleIsBuilt
  <2>6. PICK metrics : metrics = gpu_runtime_metrics
    OBVIOUS
  <2>7. PICK n : n = Len(ops)
    OBVIOUS
  <2>8. \A i \in DOMAIN metrics : Fits(index, n, metrics[i])
    BY <1>1, <2>1, <2>4, <2>6, <2>7, MetricsFit
  <2>9. gpu_manifest = <<ops>>
    BY <1>1, <2>1 DEF GpuInv, GpuBuilt
  <2>10. ASSUME NEW i \in DOMAIN metrics
         PROVE  LET m == metrics[i]
                    named == {k \in DOMAIN ops : ops[k].op_name = m.symbol}
                IN IF m.kind = "op_count" THEN m.value = n
                   ELSE IF named = {} THEN m.stable_id = Gpu!NoId
                   ELSE \E k \in named : m.stable_id = ops[k].stable_id
    <3>1. PICK m : m = metrics[i]
      OBVIOUS
    <3>2. Fits(index, n, m)
      BY <2>8, <3>1
    <3>3. PICK named : named = {k \in DOMAIN ops : ops[k].op_name = m.symbol}
      OBVIOUS
    <3>4. /\ m.kind = "op_count" => m.value = n
          /\ m.kind # "op_count" /\ named = {} => m.stable_id = Gpu!NoId
          /\ m.kind # "op_count" /\ named # {} => \E k \in named : m.stable_id = ops[k].stable_id
      BY <2>5, <3>2, <3>3, FitsMeans
    <3>5. QED
      BY <3>1, <3>3, <3>4
  <2>11. ASSUME NEW i \in DOMAIN metrics, NEW j \in DOMAIN metrics,
                metrics[i].symbol = metrics[j].symbol
         PROVE  metrics[i].stable_id = metrics[j].stable_id
    <3>1. \A k \in DOMAIN metrics :
            metrics[k].stable_id = Gpu!Lookup(index, metrics[k].symbol)
      BY <2>5, <2>8, FitsMeans
    <3>2. QED
      BY <2>11, <3>1
  <2>12. QED
    BY <2>1, <2>6, <2>7, <2>9, <2>10, <2>11 DEF Gpu!OneModel
<1>2. GpuInv => OneModel
  <2>1. gpu_at \notin BuiltStages => Gpu!OneModel
    BY DEF Gpu!OneModel, BuiltStages
  <2>2. QED
    BY <1>1, <2>1 DEF OneModel
<1>3. QED
  BY <1>2, GpuInvariant, PTL

-----------------------------------------------------------------------------
(* The launches of one symbol and stage. *)

\* Among events or metrics that are all in U.
MineOf(U, symbol, stage) ==
  {e \in U : e.symbol = symbol /\ e.stage = stage /\ e.type \in {"begin", "end"}}

LaunchesIn(U, symbol, stage) ==
  {m \in U : m.kind = "launch" /\ m.symbol = symbol /\ m.stage = stage}

\* The launches so far are measured by the events so far, and a begin whose end
\* is to come is remembered.
Measured(events, launches, begin_ns, key) ==
  Gpu!TakeTurns(events) =>
    /\ Len(launches) = Len(events) \div 2
    /\ \A i \in 1 .. Len(launches) :
         launches[i].value = events[2 * i].value - events[2 * i - 1].value
    /\ Len(events) % 2 = 1 =>
         key \in DOMAIN begin_ns /\ begin_ns[key] = events[Len(events)].value

\* Turns are taken up to any point.
LEMMA TurnsBefore ==
  ASSUME NEW T, NEW events \in Seq(T), NEW e \in T, Gpu!TakeTurns(Append(events, e))
  PROVE  /\ Gpu!TakeTurns(events)
         /\ e.type = IF (Len(events) + 1) % 2 = 1 THEN "begin" ELSE "end"
         /\ e.type = "end" => e.ns
<1>1. PICK n \in Nat : n = Len(events)
  BY LenProperties
<1>2. PICK t : t = Append(events, e)
  OBVIOUS
<1>3. /\ DOMAIN events = 1 .. n /\ DOMAIN t = 1 .. n + 1
      /\ t[n + 1] = e /\ \A i \in 1 .. n : t[i] = events[i]
  BY <1>1, <1>2, AppendFacts
<1>4. \A i \in 1 .. n + 1 : /\ t[i].type = IF i % 2 = 1 THEN "begin" ELSE "end"
                            /\ t[i].type = "end" => t[i].ns
  BY <1>2, <1>3 DEF Gpu!TakeTurns
<1>5. \A i \in 1 .. n : i \in 1 .. n + 1
  OBVIOUS
<1>6. Gpu!TakeTurns(events)
  BY <1>3, <1>4, <1>5 DEF Gpu!TakeTurns
<1>7. n + 1 \in 1 .. n + 1
  OBVIOUS
<1>8. QED
  BY <1>1, <1>3, <1>4, <1>6, <1>7

\* A begin is remembered.
LEMMA MeasuredBegin ==
  ASSUME NEW T, NEW events \in Seq(T), NEW e \in T, e.type = "begin",
         NEW launches, NEW b, NEW key, Measured(events, launches, b, key),
         NEW c, key \in DOMAIN c, c[key] = e.value, IsList(launches)
  PROVE  Measured(Append(events, e), launches, c, key)
<1>1. PICK n \in Nat : n = Len(events)
  BY LenProperties
<1>2. PICK t : t = Append(events, e)
  OBVIOUS
<1>3. /\ Len(t) = n + 1 /\ t[n + 1] = e /\ \A i \in 1 .. n : t[i] = events[i]
  BY <1>1, <1>2, AppendFacts
<1>4. SUFFICES ASSUME Gpu!TakeTurns(t)
               PROVE  Measured(t, launches, c, key)
  BY <1>2 DEF Measured
<1>5. Gpu!TakeTurns(events) /\ (n + 1) % 2 = 1
  BY <1>1, <1>2, <1>4, TurnsBefore
<1>6. PICK l \in Nat : l = Len(launches)
  BY ListFacts
<1>7. /\ l = n \div 2
      /\ \A i \in 1 .. l : launches[i].value = events[2 * i].value - events[2 * i - 1].value
  BY <1>1, <1>5, <1>6 DEF Measured
<1>8. l = (n + 1) \div 2 /\ \A i \in 1 .. l : 2 * i \in 1 .. n /\ 2 * i - 1 \in 1 .. n
  BY <1>5, <1>7
<1>9. \A i \in 1 .. l : launches[i].value = t[2 * i].value - t[2 * i - 1].value
  BY <1>3, <1>7, <1>8
<1>10. t[Len(t)] = e
  BY <1>3
<1>11. QED
  BY <1>3, <1>6, <1>8, <1>9, <1>10 DEF Measured

\* An end whose begin is remembered is measured, and an end in its turn has one.
LEMMA MeasuredEnd ==
  ASSUME NEW T, NEW events \in Seq(T), NEW e \in T, e.type = "end",
         NEW launches, NEW b, NEW key, Measured(events, launches, b, key), IsList(launches),
         NEW after, IsList(after),
         key \in DOMAIN b /\ e.ns =>
           /\ Len(after) = Len(launches) + 1
           /\ \A i \in 1 .. Len(launches) : after[i] = launches[i]
           /\ after[Len(launches) + 1].value = e.value - b[key]
  PROVE  Measured(Append(events, e), after, b, key)
<1>1. PICK n \in Nat : n = Len(events)
  BY LenProperties
<1>2. PICK t : t = Append(events, e)
  OBVIOUS
<1>3. /\ Len(t) = n + 1 /\ t[n + 1] = e /\ \A i \in 1 .. n : t[i] = events[i]
  BY <1>1, <1>2, AppendFacts
<1>4. SUFFICES ASSUME Gpu!TakeTurns(t)
               PROVE  Measured(t, after, b, key)
  BY <1>2 DEF Measured
<1>5. Gpu!TakeTurns(events) /\ e.ns /\ (n + 1) % 2 # 1
  BY <1>1, <1>2, <1>4, TurnsBefore
<1>6. n % 2 = 1
  BY <1>5
<1>7. PICK l \in Nat : l = Len(launches)
  BY ListFacts
<1>8. /\ l = n \div 2
      /\ \A i \in 1 .. l : launches[i].value = events[2 * i].value - events[2 * i - 1].value
      /\ key \in DOMAIN b /\ b[key] = events[n].value
  BY <1>1, <1>5, <1>6, <1>7 DEF Measured
<1>9. /\ Len(after) = l + 1 /\ \A i \in 1 .. l : after[i] = launches[i]
      /\ after[l + 1].value = e.value - events[n].value
  BY <1>5, <1>7, <1>8
<1>10. /\ l + 1 = (n + 1) \div 2 /\ 2 * (l + 1) = n + 1 /\ 2 * (l + 1) - 1 = n /\ n \in 1 .. n
       /\ \A i \in 1 .. l : 2 * i \in 1 .. n /\ 2 * i - 1 \in 1 .. n
       /\ (n + 1) % 2 # 1
  BY <1>5, <1>6, <1>8
<1>11. ASSUME NEW i \in 1 .. l + 1
       PROVE  after[i].value = t[2 * i].value - t[2 * i - 1].value
  <2>1. CASE i \in 1 .. l
    BY <1>3, <1>8, <1>9, <1>10, <2>1
  <2>2. CASE i = l + 1
    <3>1. t[2 * i] = e /\ t[2 * i - 1] = events[n]
      BY <1>3, <1>10, <2>2
    <3>2. QED
      BY <1>9, <2>2, <3>1
  <2>3. QED
    BY <2>1, <2>2
<1>12. QED
  BY <1>3, <1>9, <1>10, <1>11 DEF Measured

\* What is remembered by a key.
LEMMA SetFacts ==
  ASSUME NEW map, NEW key, NEW value, NEW c, c = Gpu!Set(map, key, value)
  PROVE  /\ key \in DOMAIN c /\ c[key] = value
         /\ \A k \in DOMAIN map : k # key => k \in DOMAIN c /\ c[k] = map[k]
BY DEF Gpu!Set

\* One event more leaves the launches measured, whosever it is.
LEMMA MeasuredNext ==
  ASSUME NEW T, NEW s \in Seq(T), NEW e \in T, NEW symbol, NEW stage,
         NEW key, key = <<symbol, stage>>,
         NEW index, NEW d, IsDone(d), IsList(d.out),
         NEW o, o = Gpu!Observe(d, index, e), IsList(o.out),
         NEW U, ToSet(d.out) \subseteq U, ToSet(o.out) \subseteq U,
         NEW M, M = MineOf(T, symbol, stage), NEW L, L = LaunchesIn(U, symbol, stage),
         Measured(Among(s, M), Among(d.out, L), d.begin_ns, key)
  PROVE  Measured(Among(Append(s, e), M), Among(o.out, L), o.begin_ns, key)
<1>1. PICK events : events = Among(s, M)
  OBVIOUS
<1>2. events \in Seq(T) /\ Among(Append(s, e), M) = IF e \in M THEN Append(events, e) ELSE events
  <2>1. Among(s, M) \in Seq(T)
    BY AmongFacts
  <2>2. Among(Append(s, e), M) = IF e \in M THEN Append(Among(s, M), e) ELSE Among(s, M)
    BY AmongAppend
  <2>3. QED
    BY <1>1, <2>1, <2>2
<1>3. PICK launches : launches = Among(d.out, L)
  OBVIOUS
<1>4. d.out \in Seq(U)
  BY ListIn
<1>5. launches \in Seq(U) /\ IsList(launches)
  BY <1>3, <1>4, AmongFacts, SeqIsList
<1>6. Measured(events, launches, d.begin_ns, key)
  BY <1>1, <1>3
<1>7. ASSUME NEW m, o.out = Append(d.out, m)
      PROVE  /\ m \in U
             /\ Among(o.out, L) = IF m \in L THEN Append(launches, m) ELSE launches
  <2>1. PICK V : V = U \cup {m}
    OBVIOUS
  <2>2. d.out \in Seq(V) /\ m \in V
    BY <1>4, <2>1
  <2>3. ToSet(Append(d.out, m)) = ToSet(d.out) \cup {m}
    BY <2>2, AppendFacts
  <2>4. m \in U
    BY <1>7, <2>3
  <2>5. Among(Append(d.out, m), L)
          = IF m \in L THEN Append(Among(d.out, L), m) ELSE Among(d.out, L)
    <3>1. PICK u \in Seq(U) : u = d.out
      BY <1>4
    <3>2. Among(Append(u, m), L) = IF m \in L THEN Append(Among(u, L), m) ELSE Among(u, L)
      BY <2>4, AmongAppend
    <3>3. QED
      BY <3>1, <3>2
  <2>6. QED
    BY <1>3, <1>7, <2>4, <2>5
<1>8. (Gpu!Key(e) = key) <=> (e.symbol = symbol /\ e.stage = stage)
  BY DEF Gpu!Key
<1>9. CASE e.type = "begin"
  <2>1. o.out = d.out /\ o.begin_ns = Gpu!Set(d.begin_ns, Gpu!Key(e), e.value)
    BY <1>9, ObserveSteps
  <2>2. CASE Gpu!Key(e) = key
    <3>1. e \in M
      BY <1>8, <1>9, <2>2 DEF MineOf
    <3>2. key \in DOMAIN o.begin_ns /\ o.begin_ns[key] = e.value
      BY <2>1, <2>2, SetFacts
    <3>3. Measured(Append(events, e), launches, o.begin_ns, key)
      BY <1>2, <1>5, <1>6, <1>9, <3>2, MeasuredBegin
    <3>4. QED
      BY <1>2, <1>3, <2>1, <3>1, <3>3
  <2>3. CASE Gpu!Key(e) # key
    <3>1. e \notin M
      BY <1>8, <2>3 DEF MineOf
    <3>2. key \in DOMAIN d.begin_ns =>
            key \in DOMAIN o.begin_ns /\ o.begin_ns[key] = d.begin_ns[key]
      BY <2>1, <2>3, SetFacts
    <3>3. Measured(events, launches, o.begin_ns, key)
      BY <1>6, <3>2 DEF Measured
    <3>4. QED
      BY <1>2, <1>3, <2>1, <3>1, <3>3
  <2>4. QED
    BY <2>2, <2>3
<1>10. CASE e.type # "begin"
  <2>1. o.begin_ns = d.begin_ns
    BY <1>10, ObserveSteps
  <2>2. PICK m : m = LaunchOf(d.begin_ns, index, e)
    OBVIOUS
  <2>3. /\ m.kind = "launch" /\ m.symbol = e.symbol /\ m.stage = e.stage
        /\ m.value = e.value - d.begin_ns[Gpu!Key(e)]
    BY <2>2 DEF LaunchOf
  <2>4. CASE Gpu!Key(e) = key /\ e.type = "end"
    <3>1. e \in M
      BY <1>8, <2>4 DEF MineOf
    <3>2. PICK after : after = Among(o.out, L)
      OBVIOUS
    <3>3. after \in Seq(U) /\ IsList(after)
      <4>1. o.out \in Seq(U)
        BY ListIn
      <4>2. QED
        BY <3>2, <4>1, AmongFacts, SeqIsList
    <3>4. ASSUME key \in DOMAIN d.begin_ns, e.ns
          PROVE  /\ Len(after) = Len(launches) + 1
                 /\ \A i \in 1 .. Len(launches) : after[i] = launches[i]
                 /\ after[Len(launches) + 1].value = e.value - d.begin_ns[key]
      <4>1. o.out = Append(d.out, m)
        BY <2>2, <2>4, <3>4, ObserveSteps DEF Ended
      <4>2. m \in U
        BY <1>7, <4>1
      <4>3. m \in L
        BY <1>8, <2>3, <2>4, <4>2 DEF LaunchesIn
      <4>4. after = Append(launches, m)
        BY <1>7, <3>2, <4>1, <4>3
      <4>5. /\ Len(after) = Len(launches) + 1
            /\ \A i \in 1 .. Len(launches) : after[i] = launches[i]
            /\ after[Len(launches) + 1] = m
        BY <1>5, <4>2, <4>4, AppendFacts
      <4>6. QED
        BY <2>3, <2>4, <4>5
    <3>5. Measured(Append(events, e), after, d.begin_ns, key)
      BY <1>2, <1>5, <1>6, <2>4, <3>3, <3>4, MeasuredEnd
    <3>6. QED
      BY <1>2, <2>1, <3>1, <3>2, <3>5
  <2>5. CASE ~(Gpu!Key(e) = key /\ e.type = "end")
    <3>1. e \notin M
      BY <1>8, <1>10, <2>5 DEF MineOf
    <3>2. Among(o.out, L) = launches
      <4>1. CASE Ended(d.begin_ns, e)
        <5>1. o.out = Append(d.out, m)
          BY <2>2, <4>1, ObserveSteps
        <5>2. m \notin L
          BY <1>8, <2>3, <2>5, <4>1 DEF LaunchesIn, Ended
        <5>3. QED
          BY <1>7, <5>1, <5>2
      <4>2. CASE e.type = "metric"
        <5>1. PICK x : x = EventOf(index, e)
          OBVIOUS
        <5>2. o.out = Append(d.out, x)
          BY <4>2, <5>1, ObserveSteps
        <5>3. x.kind = "event"
          BY <5>1 DEF EventOf, Gpu!Sample
        <5>4. x \notin L
          BY <5>3 DEF LaunchesIn
        <5>5. QED
          BY <1>7, <5>2, <5>4
      <4>3. CASE ~Ended(d.begin_ns, e) /\ e.type # "metric"
        <5>1. o.out = d.out
          BY <1>10, <4>3, ObserveSteps
        <5>2. QED
          BY <1>3, <5>1
      <4>4. QED
        BY <4>1, <4>2, <4>3
    <3>3. QED
      BY <1>2, <1>6, <2>1, <3>1, <3>2
  <2>6. QED
    BY <2>4, <2>5
<1>11. QED
  BY <1>9, <1>10

\* What a log of events is measured as, whatever else its metrics are among.
LogMeasured(index, T, symbol, stage, s) ==
  \A U : ToSet(Observed(index, s).out) \subseteq U =>
    Measured(Among(s, MineOf(T, symbol, stage)),
             Among(Observed(index, s).out, LaunchesIn(U, symbol, stage)),
             Observed(index, s).begin_ns, <<symbol, stage>>)

\* Every log is measured.
LEMMA LogsMeasured ==
  ASSUME NEW T, NEW events \in Seq(T), NEW index, NEW symbol, NEW stage
  PROVE  LogMeasured(index, T, symbol, stage, events)
<1> DEFINE P == {s \in Seq(T) : LogMeasured(index, T, symbol, stage, s)}
<1>1. << >> \in P
  <2>1. SUFFICES ASSUME NEW U
                 PROVE  Measured(Among(<< >>, MineOf(T, symbol, stage)),
                                 Among(Observed(index, << >>).out, LaunchesIn(U, symbol, stage)),
                                 Observed(index, << >>).begin_ns, <<symbol, stage>>)
    BY DEF LogMeasured
  <2>2. Observed(index, << >>).out = << >>
    BY ObservedNone DEF Nothing
  <2>3. PICK b, key : b = Observed(index, << >>).begin_ns /\ key = <<symbol, stage>>
    OBVIOUS
  <2>4. Measured(<< >>, << >>, b, key)
    <3>1. PICK n \in Nat : n = Len(<< >>) /\ n = 0
      BY ListOfNone
    <3>2. n = n \div 2 /\ n % 2 # 1 /\ 1 .. n = {}
      BY <3>1
    <3>3. QED
      BY <3>1, <3>2 DEF Measured
  <2>5. QED
    BY <2>2, <2>3, <2>4, AmongNone
<1>2. ASSUME NEW s \in Seq(T), s \in P, NEW e \in T
      PROVE  Append(s, e) \in P
  <2>1. PICK t : t = Append(s, e)
    OBVIOUS
  <2>2. t \in Seq(T)
    BY <2>1, AppendFacts
  <2>3. PICK d : d = Observed(index, s)
    OBVIOUS
  <2>4. PICK o : o = Observed(index, t)
    OBVIOUS
  <2>5. o = Gpu!Observe(d, index, e)
    BY <2>1, <2>3, <2>4, ObservedAppend
  <2>6. IsDone(d) /\ IsList(d.out)
    <3>1. IsList(s)
      BY SeqIsList
    <3>2. QED
      BY <2>3, <3>1, EventsTold DEF AllTold
  <2>7. IsDone(o) /\ IsList(o.out)
    <3>1. IsList(t)
      BY <2>2, SeqIsList
    <3>2. QED
      BY <2>4, <3>1, EventsTold DEF AllTold
  <2>8. PICK key, M : key = <<symbol, stage>> /\ M = MineOf(T, symbol, stage)
    OBVIOUS
  <2>9. ASSUME NEW U, ToSet(o.out) \subseteq U
        PROVE  Measured(Among(t, M), Among(o.out, LaunchesIn(U, symbol, stage)), o.begin_ns, key)
    <3>1. ToSet(d.out) \subseteq U
      <4>1. PICK u : u = d.out
        OBVIOUS
      <4>2. o.out = u \/ \E m : o.out = Append(u, m)
        <5>1. CASE Ended(d.begin_ns, e)
          <6>1. o.out = Append(u, LaunchOf(d.begin_ns, index, e))
            BY <2>5, <2>6, <4>1, <5>1, ObserveSteps
          <6>2. QED
            BY <6>1
        <5>2. CASE e.type = "metric"
          <6>1. o.out = Append(u, EventOf(index, e))
            BY <2>5, <2>6, <4>1, <5>2, ObserveSteps
          <6>2. QED
            BY <6>1
        <5>3. CASE e.type = "begin"
          BY <2>5, <2>6, <4>1, <5>3, ObserveSteps
        <5>4. CASE ~Ended(d.begin_ns, e) /\ e.type \notin {"begin", "metric"}
          BY <2>5, <2>6, <4>1, <5>4, ObserveSteps
        <5>5. QED
          BY <5>1, <5>2, <5>3, <5>4
      <4>3. ASSUME NEW m, o.out = Append(u, m)
            PROVE  ToSet(u) \subseteq ToSet(o.out)
        <5>1. PICK V : V = ToSet(u) \cup {m}
          OBVIOUS
        <5>2. u \in Seq(V) /\ m \in V
          BY <2>6, <4>1, <5>1, ListIn
        <5>3. ToSet(Append(u, m)) = ToSet(u) \cup {m}
          BY <5>2, AppendFacts
        <5>4. QED
          BY <4>3, <5>3
      <4>4. QED
        BY <2>9, <4>1, <4>2, <4>3
    <3>2. PICK L : L = LaunchesIn(U, symbol, stage)
      OBVIOUS
    <3>3. Measured(Among(s, M), Among(d.out, L), d.begin_ns, key)
      BY <1>2, <2>3, <2>8, <3>1, <3>2 DEF LogMeasured
    <3>4. Measured(Among(Append(s, e), M), Among(o.out, L), o.begin_ns, key)
      BY <2>5, <2>6, <2>7, <2>8, <2>9, <3>1, <3>2, <3>3, MeasuredNext
    <3>5. QED
      BY <2>1, <3>2, <3>4
  <2>10. LogMeasured(index, T, symbol, stage, t)
    BY <2>4, <2>8, <2>9 DEF LogMeasured
  <2>11. QED
    BY <2>1, <2>2, <2>10
<1>3. Seq(T) \subseteq P
  <2> HIDE DEF P
  <2>1. QED
    BY <1>1, <1>2, SeqSetInduction
<1>4. QED
  BY <1>3

\* The launches of a session are those of its log.
LEMMA LaunchesAre ==
  ASSUME GpuInv, gpu_at = "Shutdown", "runtime_events" \in gpu_given,
         NEW U, U = ToSet(gpu_runtime_metrics), NEW symbol, NEW stage,
         NEW L, L = LaunchesIn(U, symbol, stage),
         NEW events, events = gpu_project.events[1],
         NEW index, index = Gpu!SymbolToId(gpu_model_)
  PROVE  /\ IsList(events) /\ ToSet(Observed(index, events).out) \subseteq U
         /\ Among(gpu_runtime_metrics, L) = Among(Observed(index, events).out, L)
<1>1. PICK ops, contents, inputs :
         ops = gpu_model_ /\ contents = gpu_project /\ inputs = gpu_given
  OBVIOUS
<1>2. Gpu!IsProject(contents) /\ contents.events # << >>
  BY <1>1 DEF GpuInv, GpuFiles, GpuReports
<1>3. IsList(events)
  BY <1>1, <1>2, GpuSame DEF Gpu!IsProject
<1>4. PICK e : e = Observed(index, events).out
  OBVIOUS
<1>5. IsList(e)
  BY <1>3, <1>4, EventsTold DEF AllTold
<1>6. PICK l : l = LoadReport(ops)
  OBVIOUS
<1>7. PICK r : r = RecordsPart(inputs, contents, index)
  OBVIOUS
<1>8. IsList(l) /\ IsList(r)
  BY <1>2, <1>6, <1>7, PartsAreLists
<1>9. EventsPart(inputs, contents, ops) = e
  BY <1>1, <1>4, CorrelatedIsObserved DEF EventsPart
<1>10. gpu_runtime_metrics = (l \o r) \o e
  BY <1>1, <1>6, <1>7, <1>9 DEF GpuInv, GpuReports, RunReport
<1>11. PICK a : a = l \o r
  OBVIOUS
<1>12. IsList(a) /\ ToSet(a) = ToSet(l) \cup ToSet(r)
  BY <1>8, <1>11, ListConcat, ConcatSet
<1>13. U = ToSet(a) \cup ToSet(e)
  BY <1>5, <1>10, <1>11, <1>12, ConcatSet
<1>14. \A m \in ToSet(l) : m.kind = "op_count"
  <2>1. l = <<Gpu!OpCount(Len(ops))>>
    BY <1>6 DEF LoadReport
  <2>2. ToSet(l) = {Gpu!OpCount(Len(ops))}
    BY <2>1, ListOfOne DEF ToSet
  <2>3. Gpu!OpCount(Len(ops)).kind = "op_count"
    BY DEF Gpu!OpCount
  <2>4. QED
    BY <2>2, <2>3
<1>15. \A m \in ToSet(r) : m.kind = "record"
  <2>1. CASE "runtime_log" \in inputs /\ contents.records # << >>
    <3>1. PICK records : records = contents.records[1]
      OBVIOUS
    <3>2. IsList(records)
      BY <1>2, <2>1, <3>1, GpuSame DEF Gpu!IsProject
    <3>3. r = Gpu!CorrelateRecords(index, records)
      BY <1>7, <2>1, <3>1 DEF RecordsPart
    <3>4. \A i \in DOMAIN r : r[i].kind = "record"
      BY <3>2, <3>3, RecordsTold
    <3>5. QED
      BY <3>4 DEF ToSet
  <2>2. CASE ~("runtime_log" \in inputs /\ contents.records # << >>)
    <3>1. r = << >>
      BY <1>7, <2>2 DEF RecordsPart
    <3>2. QED
      BY <3>1, ListOfNone DEF ToSet
  <2>3. QED
    BY <2>1, <2>2
<1>16. ToSet(a) \cap L = {}
  BY <1>12, <1>14, <1>15 DEF LaunchesIn
<1>17. a \in Seq(U) /\ e \in Seq(U)
  BY <1>5, <1>12, <1>13, ListIn
<1>18. Among(a \o e, L) = Among(e, L)
  BY <1>16, <1>17, AmongLast
<1>19. QED
  BY <1>3, <1>4, <1>10, <1>11, <1>13, <1>18

\* A symbol and stage whose begins and ends take turns has one duration for
\* each launch, in order, from its own begin to its own end.
THEOREM LaunchesHold == SessionsSpec => []LaunchesAreMeasured
<1>1. ASSUME GpuInv, gpu_at = "Shutdown", "runtime_events" \in gpu_given,
             NEW e \in Gpu!ToSet(gpu_project.events[1])
      PROVE  LET events == Gpu!EventsOf(e.symbol, e.stage)
                 launches == Gpu!Among(gpu_runtime_metrics,
                               {m \in Gpu!ToSet(gpu_runtime_metrics) :
                                  m.kind = "launch" /\ m.symbol = e.symbol /\ m.stage = e.stage})
             IN Gpu!TakeTurns(events) =>
                  /\ Len(launches) = Len(events) \div 2
                  /\ \A i \in DOMAIN launches :
                       launches[i].value = events[2 * i].value - events[2 * i - 1].value
  <2>1. PICK symbol, stage : symbol = e.symbol /\ stage = e.stage
    OBVIOUS
  <2>2. PICK log : log = gpu_project.events[1]
    OBVIOUS
  <2>3. PICK T : T = ToSet(log)
    OBVIOUS
  <2>4. PICK metrics : metrics = gpu_runtime_metrics
    OBVIOUS
  <2>5. PICK U : U = ToSet(metrics)
    OBVIOUS
  <2>6. PICK L : L = LaunchesIn(U, symbol, stage)
    OBVIOUS
  <2>7. PICK index : index = Gpu!SymbolToId(gpu_model_)
    OBVIOUS
  <2>8. PICK events : events = Among(log, MineOf(T, symbol, stage))
    OBVIOUS
  <2>9. PICK launches : launches = Among(metrics, L)
    OBVIOUS
  <2>10. /\ IsList(log) /\ ToSet(Observed(index, log).out) \subseteq U
         /\ launches = Among(Observed(index, log).out, L)
    BY <1>1, <2>2, <2>4, <2>5, <2>6, <2>7, <2>9, LaunchesAre
  <2>11. log \in Seq(T)
    BY <2>3, <2>10, ListIn
  <2>12. LogMeasured(index, T, symbol, stage, log)
    BY <2>11, LogsMeasured
  <2>13. Measured(events, launches, Observed(index, log).begin_ns, <<symbol, stage>>)
    BY <2>6, <2>8, <2>10, <2>12 DEF LogMeasured
  <2>14. Gpu!EventsOf(symbol, stage) = events
    BY <2>2, <2>3, <2>8, GpuSame DEF Gpu!EventsOf, MineOf
  <2>15. Gpu!Among(metrics, {m \in Gpu!ToSet(metrics) :
                               m.kind = "launch" /\ m.symbol = symbol /\ m.stage = stage})
           = launches
    BY <2>5, <2>6, <2>9, GpuSame DEF LaunchesIn
  <2>16. DOMAIN launches = 1 .. Len(launches)
    <3>1. PICK o : o = Observed(index, log).out
      OBVIOUS
    <3>2. IsList(o)
      BY <2>10, <3>1, EventsTold DEF AllTold
    <3>3. o \in Seq(U)
      BY <2>10, <3>1, <3>2, ListIn
    <3>4. launches \in Seq(U)
      BY <2>10, <3>1, <3>3, AmongFacts
    <3>5. QED
      BY <3>4
  <2>17. Gpu!TakeTurns(events) =>
           /\ Len(launches) = Len(events) \div 2
           /\ \A i \in DOMAIN launches :
                launches[i].value = events[2 * i].value - events[2 * i - 1].value
    BY <2>13, <2>16 DEF Measured
  <2>18. QED
    BY <2>1, <2>4, <2>14, <2>15, <2>17
<1>2. GpuInv => LaunchesAreMeasured
  BY <1>1 DEF LaunchesAreMeasured, Gpu!LaunchesAreMeasured
<1>3. QED
  BY <1>2, GpuInvariant, PTL

-----------------------------------------------------------------------------
(* The operators written back into the lines. *)

\* Operators are read off the lines in order, each at its place.
LEMMA TaggedInPlace ==
  ASSUME NEW lines, NEW n \in Nat, DOMAIN lines = 1 .. n
  PROVE  InPlace(Tagged(lines), TaggedLines(lines), n)
<1>1. Positions(lines) = Numbers(n)
  BY DEF Positions, Numbers
<1>2. InPlace(Among(Numbers(n), TaggedLines(lines)), TaggedLines(lines), n)
  BY AmongNumbers
<1>3. QED
  BY <1>1, <1>2 DEF Tagged

OpLines(lines) == {i \in DOMAIN lines : Gpu!LooksLikeOpLine(lines[i])}

\* What is written into a line that looks like an operator is the next one.
LEMMA NotesAre ==
  ASSUME NEW lines, NEW n \in Nat, DOMAIN lines = 1 .. n,
         NEW ops, NEW notes, notes = Gpu!Instrument(lines, ops)
  PROVE  /\ DOMAIN notes = 1 .. n
         /\ \A i \in 1 .. n :
              notes[i] = IF i \in OpLines(lines) /\ PlaceOf(OpLines(lines), i) <= Len(ops)
                         THEN <<ops[PlaceOf(OpLines(lines), i)]>> ELSE << >>
<1>1. PICK S : S = OpLines(lines)
  OBVIOUS
<1>2. ASSUME NEW i \in 1 .. n
      PROVE  Gpu!Cardinality(Gpu!OpLinesTo(lines, i)) = PlaceOf(S, i)
  <2>1. \A j \in 1 .. i : j \in 1 .. n
    OBVIOUS
  <2>2. Gpu!OpLinesTo(lines, i) = {j \in 1 .. i : j \in S}
    BY <1>1, <2>1 DEF Gpu!OpLinesTo, OpLines
  <2>3. QED
    BY <2>2, GpuSame DEF PlaceOf
<1>3. PICK place : place = [i \in 1 .. n |-> Gpu!Cardinality(Gpu!OpLinesTo(lines, i))]
  OBVIOUS
<1>4. notes = [i \in 1 .. n |->
                 IF Gpu!LooksLikeOpLine(lines[i]) /\ place[i] <= Len(ops)
                 THEN <<ops[place[i]]>> ELSE << >>]
  BY <1>3 DEF Gpu!Instrument
<1>5. \A i \in 1 .. n : place[i] = PlaceOf(S, i)
  BY <1>2, <1>3
<1>6. \A i \in 1 .. n : i \in S <=> Gpu!LooksLikeOpLine(lines[i])
  BY <1>1 DEF OpLines
<1>7. \A i \in 1 .. n : notes[i] = IF i \in S /\ PlaceOf(S, i) <= Len(ops)
                                   THEN <<ops[PlaceOf(S, i)]>> ELSE << >>
  BY <1>4, <1>5, <1>6
<1>8. QED
  BY <1>1, <1>4, <1>7

\* The places of a number in two sets that have the same up to it.
LEMMA SamePlace ==
  ASSUME NEW S, NEW R, NEW i, \A j \in 1 .. i : j \in S <=> j \in R
  PROVE  PlaceOf(S, i) = PlaceOf(R, i)
<1>1. {j \in 1 .. i : j \in S} = {j \in 1 .. i : j \in R}
  OBVIOUS
<1>2. QED
  BY <1>1 DEF PlaceOf

\* In a module each line up to the first that tagger and instrumentor disagree
\* about carries what was read off it, and the order is kept everywhere.
LEMMA NotesInStep ==
  ASSUME NEW lines, NEW n \in Nat, DOMAIN lines = 1 .. n,
         NEW ops, IsModelOf(ops, lines),
         NEW notes, notes = Gpu!Instrument(lines, ops)
  PROVE  /\ DOMAIN notes = 1 .. n
         /\ \A i \in 1 .. n :
              (\A j \in 1 .. i : j \in TaggedLines(lines) <=> j \in OpLines(lines)) =>
                IF i \in TaggedLines(lines)
                THEN \E k \in DOMAIN ops : ops[k].line = i /\ notes[i] = <<ops[k]>>
                ELSE notes[i] = << >>
         /\ \A i, j \in 1 .. n :
              i < j /\ notes[i] # << >> /\ notes[j] # << >> =>
                notes[i][1].line < notes[j][1].line
<1>1. PICK S : S = OpLines(lines)
  OBVIOUS
<1>2. PICK R : R = TaggedLines(lines)
  OBVIOUS
<1>3. PICK t : t = Tagged(lines)
  OBVIOUS
<1>4. PICK size \in Nat : size = PlaceOf(R, n)
  BY PlaceFacts
<1>5. /\ Len(t) = size
      /\ \A k, l \in 1 .. size : k < l => t[k] < t[l]
      /\ \A i \in 1 .. n : i \in R => PlaceOf(R, i) \in 1 .. size /\ t[PlaceOf(R, i)] = i
  BY <1>2, <1>3, <1>4, TaggedInPlace DEF InPlace
<1>6. Len(ops) = size /\ DOMAIN ops = 1 .. size
  BY <1>3, <1>5, ListFacts DEF IsModelOf
<1>7. \A k \in 1 .. size : ops[k].line = t[k]
  BY <1>3, <1>6 DEF IsModelOf, IsReadOff
<1>8. /\ DOMAIN notes = 1 .. n
      /\ \A i \in 1 .. n : notes[i] = IF i \in S /\ PlaceOf(S, i) <= size
                                      THEN <<ops[PlaceOf(S, i)]>> ELSE << >>
  <2>1. DOMAIN notes = 1 .. n
    BY NotesAre
  <2>2. \A i \in 1 .. n :
          notes[i] = IF i \in OpLines(lines) /\ PlaceOf(OpLines(lines), i) <= Len(ops)
                     THEN <<ops[PlaceOf(OpLines(lines), i)]>> ELSE << >>
    BY NotesAre
  <2>3. QED
    BY <1>1, <1>6, <2>1, <2>2
<1>9. ASSUME NEW i \in 1 .. n, \A j \in 1 .. i : j \in R <=> j \in S
      PROVE  IF i \in R
             THEN \E k \in DOMAIN ops : ops[k].line = i /\ notes[i] = <<ops[k]>>
             ELSE notes[i] = << >>
  <2>1. i \in R <=> i \in S
    BY <1>9
  <2>2. CASE i \notin R
    BY <1>8, <2>1, <2>2
  <2>3. CASE i \in R
    <3>1. PICK k : k = PlaceOf(R, i)
      OBVIOUS
    <3>2. PlaceOf(S, i) = k
      BY <1>9, <3>1, SamePlace
    <3>3. k \in 1 .. size /\ t[k] = i
      BY <1>5, <2>3, <3>1
    <3>4. notes[i] = <<ops[k]>>
      BY <1>8, <2>1, <2>3, <3>2, <3>3
    <3>5. QED
      BY <1>6, <1>7, <2>3, <3>3, <3>4
  <2>4. QED
    BY <2>2, <2>3
<1>10. ASSUME NEW i \in 1 .. n, notes[i] # << >>
       PROVE  /\ i \in S /\ PlaceOf(S, i) \in 1 .. size
              /\ notes[i][1].line = t[PlaceOf(S, i)]
  <2>1. PICK k : k = PlaceOf(S, i)
    OBVIOUS
  <2>2. i \in S /\ k <= size /\ notes[i] = <<ops[k]>>
    BY <1>8, <1>10, <2>1
  <2>3. k \in Nat /\ 0 < k
    <3>1. 0 < i /\ i \in Nat
      OBVIOUS
    <3>2. PlaceOf(S, 0) < PlaceOf(S, i)
      BY <2>2, <3>1, PlaceFacts
    <3>3. PlaceOf(S, 0) = 0 /\ PlaceOf(S, i) \in Nat
      BY <3>1, PlaceFacts
    <3>4. QED
      BY <2>1, <3>2, <3>3
  <2>4. k \in 1 .. size
    BY <2>2, <2>3
  <2>5. notes[i][1] = ops[k]
    BY <2>2
  <2>6. QED
    BY <1>7, <2>1, <2>2, <2>4, <2>5
<1>11. ASSUME NEW i \in 1 .. n, NEW j \in 1 .. n, i < j, notes[i] # << >>, notes[j] # << >>
       PROVE  notes[i][1].line < notes[j][1].line
  <2>1. PICK k, l : k = PlaceOf(S, i) /\ l = PlaceOf(S, j)
    OBVIOUS
  <2>2. /\ k \in 1 .. size /\ notes[i][1].line = t[k]
        /\ l \in 1 .. size /\ notes[j][1].line = t[l] /\ j \in S
    BY <1>10, <1>11, <2>1
  <2>3. k < l
    <3>1. i \in Nat /\ j \in Nat
      OBVIOUS
    <3>2. QED
      BY <1>11, <2>1, <2>2, <3>1, PlaceFacts
  <2>4. t[k] < t[l]
    BY <1>5, <2>2, <2>3
  <2>5. QED
    BY <2>2, <2>4
<1>12. QED
  BY <1>1, <1>2, <1>8, <1>9, <1>11

\* In the instrumented module a line carries the operator read off it up to the
\* first line tagger and instrumentor disagree about, and the operators keep
\* their order everywhere.
THEOREM AnnotationHolds == SessionsSpec => []AnnotatedInStep
<1>1. ASSUME GpuInv, gpu_at = "LoadManifest"
      PROVE  Gpu!AnnotatedInStep
  <2>1. PICK contents : contents = gpu_project
    OBVIOUS
  <2>2. PICK lines : lines = contents.mlir[1]
    OBVIOUS
  <2>3. PICK ops : ops = gpu_metadata_ops
    OBVIOUS
  <2>4. PICK notes : notes = gpu_instrumented[1]
    OBVIOUS
  <2>5. /\ contents.mlir # << >> /\ Gpu!IsProject(contents)
        /\ ops = Gpu!BuildModel(lines)
        /\ gpu_instrumented = <<Gpu!Instrument(lines, ops)>>
    BY <1>1, <2>1, <2>2, <2>3 DEF GpuInv, GpuBuilt, GpuFiles, BuiltStages
  <2>6. notes = Gpu!Instrument(lines, ops)
    BY <2>4, <2>5
  <2>7. IsModule(lines) /\ IsModelOf(ops, lines)
    BY <2>2, <2>5, ModuleIsBuilt
  <2>8. PICK n \in Nat : DOMAIN lines = 1 .. n
    BY <2>7, ListFacts DEF IsModule
  <2>9. PICK odd : odd = {i \in DOMAIN lines :
                            Gpu!IsTagged(lines[i]) # Gpu!LooksLikeOpLine(lines[i])}
    OBVIOUS
  <2>10. PICK in_step : in_step = IF odd = {} THEN DOMAIN lines ELSE 1 .. Gpu!Min(odd) - 1
    OBVIOUS
  <2>11. ASSUME NEW i \in in_step
         PROVE  i \in 1 .. n /\ \A j \in 1 .. i : j \in 1 .. n /\ j \notin odd
    <3>1. CASE odd = {}
      BY <2>8, <2>10, <3>1
    <3>2. CASE odd # {}
      <4>1. odd \in SUBSET (1 .. n)
        BY <2>8, <2>9
      <4>2. PICK m : m = Min(odd)
        OBVIOUS
      <4>3. m \in odd /\ \A j \in odd : m <= j
        BY <3>2, <4>1, <4>2, LeastIs
      <4>4. m \in 1 .. n
        BY <4>1, <4>3
      <4>5. i \in 1 .. m - 1
        BY <2>10, <3>2, <4>2, GpuSame
      <4>6. \A j \in 1 .. i : j \in 1 .. n /\ ~(m <= j)
        BY <4>4, <4>5
      <4>7. i \in 1 .. n
        BY <4>4, <4>5
      <4>8. QED
        BY <4>3, <4>6, <4>7
    <3>3. QED
      BY <3>1, <3>2
  <2>12. \A j \in 1 .. n : j \notin odd => (j \in TaggedLines(lines) <=> j \in OpLines(lines))
    BY <2>8, <2>9 DEF TaggedLines, OpLines, Gpu!IsTagged, Gpu!LooksLikeOpLine
  <2>13. \A i \in 1 .. n : i \in TaggedLines(lines) <=> Gpu!IsTagged(lines[i])
    BY <2>8 DEF TaggedLines
  <2>14. /\ DOMAIN notes = 1 .. n
         /\ \A i \in 1 .. n :
              (\A j \in 1 .. i : j \in TaggedLines(lines) <=> j \in OpLines(lines)) =>
                IF i \in TaggedLines(lines)
                THEN \E k \in DOMAIN ops : ops[k].line = i /\ notes[i] = <<ops[k]>>
                ELSE notes[i] = << >>
         /\ \A i, j \in 1 .. n :
              i < j /\ notes[i] # << >> /\ notes[j] # << >> =>
                notes[i][1].line < notes[j][1].line
    BY <2>6, <2>7, <2>8, NotesInStep
  <2>15. ASSUME NEW i \in in_step
         PROVE  IF Gpu!IsTagged(lines[i])
                THEN \E k \in DOMAIN ops : ops[k].line = i /\ notes[i] = <<ops[k]>>
                ELSE notes[i] = << >>
    <3>1. i \in 1 .. n /\ \A j \in 1 .. i : j \in TaggedLines(lines) <=> j \in OpLines(lines)
      BY <2>11, <2>12
    <3>2. IF i \in TaggedLines(lines)
          THEN \E k \in DOMAIN ops : ops[k].line = i /\ notes[i] = <<ops[k]>>
          ELSE notes[i] = << >>
      BY <2>14, <3>1
    <3>3. i \in TaggedLines(lines) <=> Gpu!IsTagged(lines[i])
      BY <2>13, <3>1
    <3>4. QED
      BY <3>2, <3>3
  <2>16. DOMAIN notes = DOMAIN lines
    BY <2>8, <2>14
  <2>17. \A i, j \in DOMAIN notes :
           i < j /\ notes[i] # << >> /\ notes[j] # << >> =>
             notes[i][1].line < notes[j][1].line
    BY <2>14
  <2>18. QED
    BY <2>1, <2>2, <2>3, <2>4, <2>9, <2>10, <2>15, <2>16, <2>17 DEF Gpu!AnnotatedInStep
<1>2. GpuInv => AnnotatedInStep
  <2>1. gpu_at # "LoadManifest" => Gpu!AnnotatedInStep
    BY DEF Gpu!AnnotatedInStep
  <2>2. QED
    BY <1>1, <2>1 DEF AnnotatedInStep
<1>3. QED
  BY <1>2, GpuInvariant, PTL

\* The state of both adapters, the registries and the outcome are what they
\* may be.
THEOREM SessionsTypeCorrect == SessionsSpec => []BackendsTypeOK
<1>1. GpuInv => Gpu!GpuTypeOK
  <2>1. SUFFICES ASSUME GpuInv
                 PROVE  Gpu!GpuTypeOK
    OBVIOUS
  <2>2. /\ Gpu!ToSet(gpu_outputs) \subseteq {"manifest", "original", "instrumented"}
        /\ Gpu!ToSet(gpu_runtime_inputs) \subseteq {"runtime_log", "runtime_events"}
    BY <2>1, GpuSame DEF GpuInv, GpuLists
  <2>3. /\ gpu_session \in 0 .. MaxSessions
        /\ gpu_at \in {"idle", "PrepareArtifacts", "CompileBegin", "CompileEnd", "LoadManifest",
                       "LoadBegin", "LoadEnd", "RunBegin", "RunEnd", "Shutdown"}
    BY <2>1 DEF GpuInv, GpuLists, PreparedStages, BuiltStages
  <2>4. QED
    BY <2>1, <2>2, <2>3 DEF GpuInv, GpuFiles, GpuKnows, Gpu!GpuTypeOK
<1>2. EdgeInv => EdgeTpuTypeOK
  BY DEF EdgeInv, EdgeTypes
<1>3. ServedInv => /\ adapters \subseteq ToSet(BuiltinAdapters)
                   /\ tool_names \subseteq ToSet(BuiltinTools)
                   /\ outcome.by \in {"nobody", "driver", "caller"}
                   /\ outcome.result \in {"none", "refused", "not served", "unprepared", "started"}
  <2>1. SUFFICES ASSUME ServedInv
                 PROVE  /\ adapters \subseteq ToSet(BuiltinAdapters)
                        /\ tool_names \subseteq ToSet(BuiltinTools)
                        /\ outcome.by \in {"nobody", "driver", "caller"}
                        /\ outcome.result \in {"none", "refused", "not served", "unprepared",
                                               "started"}
    OBVIOUS
  <2>2. /\ adapters \subseteq ToSet(BuiltinAdapters)
        /\ tool_names \subseteq ToSet(BuiltinTools)
    BY <2>1 DEF ServedInv
  <2>3. PICK b \in {"nobody", "driver", "caller"},
             r \in {"none", "refused", "unprepared", "started"} :
               outcome = [by |-> b, result |-> r]
    BY <2>1 DEF ServedInv
  <2>4. outcome.by = b /\ outcome.result = r
    BY <2>3
  <2>5. QED
    BY <2>2, <2>4
<1>4. EdgeInv /\ GpuInv /\ ServedInv => BackendsTypeOK
  BY <1>1, <1>2, <1>3 DEF BackendsTypeOK
<1>5. QED
  BY <1>4, EdgeInvariant, GpuInvariant, ServedInvariant, PTL

=============================================================================
