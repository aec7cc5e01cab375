----------------------------- MODULE ListProofs -----------------------------
(***************************************************************************)
(* What the other proofs need of lists, of the part Among keeps of one,    *)
(* and of sums over finite sets.  Nothing here is about the program.       *)
(*                                                                         *)
(* Induction is by sets: a set that has the least case and, with a case,   *)
(* the next has all of them.  The library's induction theorems take an     *)
(* operator, which the provers cannot instantiate; well-foundedness, from  *)
(* which the lemmas here follow, is about sets.                            *)
(***************************************************************************)
EXTENDS Lists, Integers, SequencesExt, FiniteSetsExt, SequenceTheorems, FiniteSetTheorems,
        WellFoundedInduction, TLAPS

\* A set that has 0 and the successor of each of its numbers has them all.
LEMMA NatSetInduction ==
  ASSUME NEW P, 0 \in P, \A n \in Nat : n \in P => n + 1 \in P
  PROVE  Nat \subseteq P
<1> DEFINE Bad == Nat \ P
<1>1. SUFFICES ASSUME Bad # {}
               PROVE  FALSE
  OBVIOUS
<1>2. Bad \subseteq Nat
  OBVIOUS
<1> HIDE DEF Bad
<1>3. \E m \in Bad : \A k \in Bad : ~(<<k, m>> \in OpToRel(<, Nat))
  BY <1>1, <1>2, WFMin, NatLessThanWellFounded
<1>4. PICK m \in Bad : \A k \in Bad : ~(<<k, m>> \in OpToRel(<, Nat))
  BY <1>3
<1>5. \A k \in Bad : ~(k < m)
  BY <1>2, <1>4 DEF OpToRel
<1>6. m \in Nat /\ m \notin P /\ m # 0
  BY <1>4 DEF Bad
<1>7. PICK k \in Nat : k < m /\ k + 1 = m
  <2>1. m - 1 \in Nat /\ m - 1 < m /\ (m - 1) + 1 = m
    BY <1>6
  <2>2. QED
    BY <2>1
<1>8. k \in P
  BY <1>5, <1>7 DEF Bad
<1>9. QED
  BY <1>6, <1>7, <1>8

-----------------------------------------------------------------------------
(* Lists. *)

\* A list has a length, and its positions count from 1 to it.
LEMMA ListFacts ==
  ASSUME NEW s, IsList(s)
  PROVE  /\ Len(s) \in Nat /\ DOMAIN s = 1 .. Len(s)
         /\ s # << >> => 1 \in DOMAIN s
         /\ \E T : s \in Seq(T) /\ T = {s[k] : k \in DOMAIN s}
<1>1. PICK S : S = {s[k] : k \in DOMAIN s}
  OBVIOUS
<1>2. s \in Seq(S)
  BY <1>1 DEF IsList
<1>3. Len(s) \in Nat /\ DOMAIN s = 1 .. Len(s)
  BY <1>2, LenProperties
<1>4. s # << >> => Len(s) \in Nat \ {0}
  BY <1>2, EmptySeq
<1>5. QED
  BY <1>1, <1>2, <1>3, <1>4

\* A sequence over any set is a list.
LEMMA SeqIsList ==
  ASSUME NEW T, NEW s \in Seq(T)
  PROVE  IsList(s)
<1>1. Len(s) \in Nat /\ DOMAIN s = 1 .. Len(s) /\ s \in [1 .. Len(s) -> T]
  BY LenProperties
<1>2. PICK S : S = {s[k] : k \in DOMAIN s}
  OBVIOUS
<1>3. s \in [1 .. Len(s) -> S]
  BY <1>1, <1>2
<1>4. s \in Seq(S)
  BY <1>1, <1>3
<1>5. QED
  BY <1>2, <1>4 DEF IsList

\* A set that has the empty sequence and, with each of its sequences, those of
\* one element more has all sequences.
LEMMA SeqSetInduction ==
  ASSUME NEW T, NEW P, << >> \in P,
         \A s \in Seq(T) : s \in P => \A e \in T : Append(s, e) \in P
  PROVE  Seq(T) \subseteq P
<1> DEFINE Q == {n \in Nat : \A s \in Seq(T) : Len(s) = n => s \in P}
<1>1. 0 \in Q
  <2>1. \A s \in Seq(T) : Len(s) = 0 => s = << >>
    BY EmptySeq
  <2>2. QED
    BY <2>1
<1>2. ASSUME NEW n \in Nat, n \in Q
      PROVE  n + 1 \in Q
  <2>1. ASSUME NEW s \in Seq(T), Len(s) = n + 1
        PROVE  s \in P
    <3>1. s \in [1 .. n + 1 -> T] /\ DOMAIN s = 1 .. n + 1
      BY <2>1, LenProperties
    <3>2. PICK f : f = [i \in 1 .. n |-> s[i]]
      OBVIOUS
    <3>3. n + 1 \in 1 .. n + 1 /\ \A i \in 1 .. n : i \in 1 .. n + 1
      BY <1>2
    <3>4. f \in Seq(T) /\ Len(f) = n /\ s[n + 1] \in T
      BY <1>2, <3>1, <3>2, <3>3
    <3>5. PICK e \in T : e = s[n + 1]
      BY <3>4
    <3>6. PICK t : t = Append(f, e)
      OBVIOUS
    <3>7. /\ t \in Seq(T) /\ Len(t) = n + 1 /\ t[n + 1] = e
          /\ \A i \in 1 .. n : t[i] = f[i]
      BY <3>4, <3>5, <3>6, AppendProperties
    <3>8. \A i \in 1 .. n + 1 : i \in 1 .. n \/ i = n + 1
      BY <1>2
    <3>9. \A i \in 1 .. n + 1 : t[i] = s[i]
      BY <3>2, <3>5, <3>7, <3>8
    <3>10. t \in [1 .. n + 1 -> T]
      BY <3>7, LenProperties
    <3>11. t = s
      BY <3>1, <3>9, <3>10
    <3>12. f \in P
      BY <1>2, <3>4
    <3>13. QED
      BY <3>4, <3>6, <3>11, <3>12
  <2>2. n + 1 \in Nat
    BY <1>2
  <2>3. QED
    BY <2>1, <2>2
<1>3. Nat \subseteq Q
  <2> HIDE DEF Q
  <2>1. QED
    BY <1>1, <1>2, NatSetInduction
<1>4. \A s \in Seq(T) : Len(s) \in Nat
  BY LenProperties
<1>5. QED
  BY <1>3, <1>4

\* The recursive function Among is defined by.
KeepsTo(g, s, S, n) ==
  g = [i \in 0 .. n |->
         IF i = 0 THEN << >>
         ELSE IF s[i] \in S THEN Append(g[i - 1], s[i]) ELSE g[i - 1]]

Keeps(s, S) == CHOOSE g : KeepsTo(g, s, S, Len(s))

\* There is one.
LEMMA KeepsExist ==
  ASSUME NEW s, NEW S, NEW n \in Nat
  PROVE  \E g : KeepsTo(g, s, S, n)
<1> DEFINE P == {m \in Nat : \E g : KeepsTo(g, s, S, m)}
<1>1. 0 \in P
  <2>1. 0 .. 0 = {0}
    OBVIOUS
  <2>2. KeepsTo([i \in 0 .. 0 |-> << >>], s, S, 0)
    BY <2>1 DEF KeepsTo
  <2>3. QED
    BY <2>2
<1>2. ASSUME NEW m \in Nat, m \in P
      PROVE  m + 1 \in P
  <2>1. PICK g : KeepsTo(g, s, S, m)
    BY <1>2
  <2> DEFINE h == [i \in 0 .. m + 1 |->
                     IF i = 0 THEN << >>
                     ELSE IF s[i] \in S THEN Append(g[i - 1], s[i]) ELSE g[i - 1]]
  <2>2. ASSUME NEW i \in 0 .. m
        PROVE  h[i] = g[i]
    <3>1. i \in 0 .. m + 1
      BY <1>2
    <3>2. g[i] = IF i = 0 THEN << >>
                 ELSE IF s[i] \in S THEN Append(g[i - 1], s[i]) ELSE g[i - 1]
      BY <2>1 DEF KeepsTo
    <3>3. QED
      BY <3>1, <3>2
  <2>3. \A i \in 0 .. m + 1 : i # 0 => i - 1 \in 0 .. m
    BY <1>2
  <2>4. \A i \in 0 .. m + 1 : i # 0 => h[i - 1] = g[i - 1]
    <3> HIDE DEF h
    <3>1. QED
      BY <2>2, <2>3
  <2>5. h = [i \in 0 .. m + 1 |->
               IF i = 0 THEN << >>
               ELSE IF s[i] \in S THEN Append(h[i - 1], s[i]) ELSE h[i - 1]]
    <3>1. PICK k : k = h
      OBVIOUS
    <3>2. \A i \in 0 .. m + 1 : i # 0 => k[i - 1] = g[i - 1]
      BY <2>4, <3>1
    <3>3. k = [i \in 0 .. m + 1 |->
               IF i = 0 THEN << >>
               ELSE IF s[i] \in S THEN Append(g[i - 1], s[i]) ELSE g[i - 1]]
      BY <3>1
    <3>4. k = [i \in 0 .. m + 1 |->
               IF i = 0 THEN << >>
               ELSE IF s[i] \in S THEN Append(k[i - 1], s[i]) ELSE k[i - 1]]
      BY <3>2, <3>3
    <3>5. QED
      BY <3>1, <3>4
  <2>6. m + 1 \in Nat
    BY <1>2
  <2> HIDE DEF h
  <2>7. QED
    BY <2>5, <2>6 DEF KeepsTo
<1>3. Nat \subseteq P
  <2> HIDE DEF P
  <2>1. QED
    BY <1>1, <1>2, NatSetInduction
<1>4. QED
  BY <1>3

\* Two of them agree as far as the sequences do.
LEMMA KeepsAgree ==
  ASSUME NEW S, NEW s, NEW n \in Nat, NEW g, KeepsTo(g, s, S, n),
         NEW t, NEW m \in Nat, NEW h, KeepsTo(h, t, S, m),
         n <= m, \A i \in 1 .. n : s[i] = t[i]
  PROVE  g[n] = h[n]
<1> DEFINE P == {i \in Nat : i <= n => g[i] = h[i]}
<1>1. 0 \in P
  <2>1. 0 \in 0 .. n /\ 0 \in 0 .. m
    OBVIOUS
  <2>2. g[0] = << >> /\ h[0] = << >>
    BY <2>1 DEF KeepsTo
  <2>3. QED
    BY <2>2
<1>2. ASSUME NEW i \in Nat, i \in P
      PROVE  i + 1 \in P
  <2>1. SUFFICES ASSUME i + 1 <= n
                 PROVE  g[i + 1] = h[i + 1]
    OBVIOUS
  <2>2. i + 1 \in 0 .. n /\ i + 1 \in 0 .. m /\ i + 1 \in 1 .. n /\ i + 1 # 0 /\ (i + 1) - 1 = i /\ i <= n
    BY <2>1
  <2>3. g[i + 1] = IF s[i + 1] \in S THEN Append(g[i], s[i + 1]) ELSE g[i]
    BY <2>2 DEF KeepsTo
  <2>4. h[i + 1] = IF t[i + 1] \in S THEN Append(h[i], t[i + 1]) ELSE h[i]
    BY <2>2 DEF KeepsTo
  <2>5. g[i] = h[i] /\ s[i + 1] = t[i + 1]
    BY <1>2, <2>2
  <2>6. QED
    BY <2>3, <2>4, <2>5
<1>3. Nat \subseteq P
  <2> HIDE DEF P
  <2>1. QED
    BY <1>1, <1>2, NatSetInduction
<1>4. n <= n
  OBVIOUS
<1>5. QED
  BY <1>3, <1>4

\* Among by one of them.
LEMMA AmongIs ==
  ASSUME NEW s, NEW S, Len(s) \in Nat
  PROVE  KeepsTo(Keeps(s, S), s, S, Len(s)) /\ Among(s, S) = Keeps(s, S)[Len(s)]
<1>1. \E g : KeepsTo(g, s, S, Len(s))
  BY KeepsExist
<1>2. KeepsTo(Keeps(s, S), s, S, Len(s))
  BY <1>1 DEF Keeps
<1>3. Among(s, S) = Keeps(s, S)[Len(s)]
  BY DEF Among, Keeps, KeepsTo
<1>4. QED
  BY <1>2, <1>3

\* Nothing is among nothing.
LEMMA AmongNone == \A S : Among(<< >>, S) = << >>
<1> SUFFICES ASSUME NEW S
             PROVE  Among(<< >>, S) = << >>
  OBVIOUS
<1>1. Len(<< >>) = 0
  OBVIOUS
<1>2. KeepsTo(Keeps(<< >>, S), << >>, S, 0) /\ Among(<< >>, S) = Keeps(<< >>, S)[0]
  BY <1>1, AmongIs
<1>3. 0 \in 0 .. 0
  OBVIOUS
<1>4. QED
  BY <1>2, <1>3 DEF KeepsTo

\* One element more.
LEMMA AmongAppend ==
  ASSUME NEW T, NEW s \in Seq(T), NEW e \in T, NEW S
  PROVE  Among(Append(s, e), S) = IF e \in S THEN Append(Among(s, S), e) ELSE Among(s, S)
<1>1. PICK t : t = Append(s, e)
  OBVIOUS
<1>2. /\ t \in Seq(T) /\ Len(t) = Len(s) + 1 /\ Len(s) \in Nat
      /\ \A i \in 1 .. Len(s) : t[i] = s[i]
      /\ t[Len(s) + 1] = e
  BY <1>1, AppendProperties, LenProperties
<1>3. PICK n \in Nat : n = Len(s)
  BY <1>2
<1>4. PICK g : g = Keeps(s, S)
  OBVIOUS
<1>5. PICK h : h = Keeps(t, S)
  OBVIOUS
<1>6. KeepsTo(g, s, S, n) /\ Among(s, S) = g[n]
  BY <1>3, <1>4, AmongIs
<1>7. KeepsTo(h, t, S, n + 1) /\ Among(t, S) = h[n + 1]
  <2>1. Len(t) \in Nat /\ Len(t) = n + 1
    BY <1>2, <1>3
  <2>2. QED
    BY <1>5, <2>1, AmongIs
<1>8. g[n] = h[n]
  <2>1. n + 1 \in Nat /\ n <= n + 1 /\ \A i \in 1 .. n : s[i] = t[i]
    BY <1>2, <1>3
  <2>2. PICK m \in Nat : m = n + 1
    BY <2>1
  <2>3. QED
    BY <1>6, <1>7, <2>1, <2>2, KeepsAgree
<1>9. h[n + 1] = IF t[n + 1] \in S THEN Append(h[n], t[n + 1]) ELSE h[n]
  <2>1. n + 1 \in 0 .. n + 1 /\ n + 1 # 0 /\ (n + 1) - 1 = n
    OBVIOUS
  <2>2. QED
    BY <1>7, <2>1 DEF KeepsTo
<1>10. t[n + 1] = e
  BY <1>2, <1>3
<1>11. QED
  BY <1>1, <1>6, <1>7, <1>8, <1>9, <1>10

\* A sequence and one element more.
LEMMA AppendFacts ==
  ASSUME NEW T, NEW s \in Seq(T), NEW e \in T
  PROVE  /\ Append(s, e) \in Seq(T) /\ Len(s) \in Nat /\ Len(Append(s, e)) = Len(s) + 1
         /\ DOMAIN s = 1 .. Len(s) /\ DOMAIN Append(s, e) = 1 .. Len(s) + 1
         /\ \A k \in 1 .. Len(s) : Append(s, e)[k] = s[k]
         /\ Append(s, e)[Len(s) + 1] = e
         /\ ToSet(Append(s, e)) = ToSet(s) \cup {e}
<1>1. PICK t : t = Append(s, e)
  OBVIOUS
<1>2. /\ t \in Seq(T) /\ Len(t) = Len(s) + 1 /\ Len(s) \in Nat
      /\ \A k \in 1 .. Len(s) : t[k] = s[k]
      /\ t[Len(s) + 1] = e
      /\ DOMAIN s = 1 .. Len(s) /\ DOMAIN t = 1 .. Len(t)
  BY <1>1, AppendProperties, LenProperties
<1>3. PICK n \in Nat : n = Len(s)
  BY <1>2
<1>4. \A k \in 1 .. n + 1 : k \in 1 .. n \/ k = n + 1
  OBVIOUS
<1>5. n + 1 \in 1 .. n + 1 /\ \A k \in 1 .. n : k \in 1 .. n + 1
  OBVIOUS
<1>6. ToSet(t) = ToSet(s) \cup {e}
  <2>1. /\ DOMAIN t = 1 .. n + 1 /\ DOMAIN s = 1 .. n
        /\ \A k \in 1 .. n : t[k] = s[k]
        /\ t[n + 1] = e
    BY <1>2, <1>3
  <2>2. \A x : x \in ToSet(t) => x \in ToSet(s) \cup {e}
    BY <1>4, <2>1 DEF ToSet
  <2>3. \A x : x \in ToSet(s) \cup {e} => x \in ToSet(t)
    BY <1>5, <2>1 DEF ToSet
  <2>4. QED
    BY <2>2, <2>3
<1>7. QED
  BY <1>1, <1>2, <1>3, <1>6

\* The positions that count.
LEMMA PositionsAppend ==
  ASSUME NEW T, NEW s \in Seq(T), NEW e \in T, NEW S
  PROVE  /\ IsFiniteSet({k \in DOMAIN s : s[k] \in S})
         /\ Len(s) + 1 \notin {k \in DOMAIN s : s[k] \in S}
         /\ {k \in DOMAIN Append(s, e) : Append(s, e)[k] \in S}
              = IF e \in S THEN {k \in DOMAIN s : s[k] \in S} \cup {Len(s) + 1}
                ELSE {k \in DOMAIN s : s[k] \in S}
<1>1. PICK t : t = Append(s, e)
  OBVIOUS
<1>2. PICK n : n = Len(s)
  OBVIOUS
<1>3. /\ n \in Nat /\ DOMAIN s = 1 .. n /\ DOMAIN t = 1 .. n + 1
      /\ \A k \in 1 .. n : t[k] = s[k]
      /\ t[n + 1] = e
  BY <1>1, <1>2, AppendFacts
<1>4. \A k \in 1 .. n + 1 : k \in 1 .. n \/ k = n + 1
  BY <1>3
<1>5. n + 1 \in 1 .. n + 1 /\ n + 1 \notin 1 .. n /\ \A k \in 1 .. n : k \in 1 .. n + 1
  BY <1>3
<1>6. \A k : k \in {j \in DOMAIN t : t[j] \in S}
               <=> (k \in {j \in DOMAIN s : s[j] \in S} \/ (e \in S /\ k = n + 1))
  BY <1>3, <1>4, <1>5
<1>7. IsFiniteSet({k \in DOMAIN s : s[k] \in S})
  <2>1. PICK D : D = DOMAIN s
    OBVIOUS
  <2>2. IsFiniteSet(D)
    BY <1>3, <2>1, FS_Interval
  <2>3. PICK U : U = {k \in D : s[k] \in S}
    OBVIOUS
  <2>4. IsFiniteSet(U)
    BY <2>2, <2>3, FS_Subset
  <2>5. QED
    BY <2>1, <2>3, <2>4
<1>8. {k \in DOMAIN t : t[k] \in S}
        = IF e \in S THEN {k \in DOMAIN s : s[k] \in S} \cup {n + 1}
          ELSE {k \in DOMAIN s : s[k] \in S}
  <2>1. CASE e \in S
    <3>1. \A k : k \in {j \in DOMAIN t : t[j] \in S}
                   <=> k \in {j \in DOMAIN s : s[j] \in S} \cup {n + 1}
      BY <1>6, <2>1
    <3>2. QED
      BY <2>1, <3>1
  <2>2. CASE e \notin S
    <3>1. \A k : k \in {j \in DOMAIN t : t[j] \in S} <=> k \in {j \in DOMAIN s : s[j] \in S}
      BY <1>6, <2>2
    <3>2. QED
      BY <2>2, <3>1
  <2>3. QED
    BY <2>1, <2>2
<1>9. n + 1 \notin {k \in DOMAIN s : s[k] \in S}
  BY <1>3, <1>5
<1>10. QED
  BY <1>1, <1>2, <1>7, <1>8, <1>9

\* What is among a set: its elements, as often as they occur, and all of them
\* if there are no others.
LEMMA AmongFacts ==
  ASSUME NEW T, NEW s \in Seq(T), NEW S
  PROVE  /\ Among(s, S) \in Seq(T)
         /\ ToSet(Among(s, S)) = ToSet(s) \cap S
         /\ Len(Among(s, S)) = Cardinality({k \in DOMAIN s : s[k] \in S})
         /\ Len(Among(s, S)) <= Len(s)
         /\ ToSet(s) \subseteq S => Among(s, S) = s
<1> DEFINE Holds(t) ==
             /\ Among(t, S) \in Seq(T)
             /\ ToSet(Among(t, S)) = ToSet(t) \cap S
             /\ Len(Among(t, S)) = Cardinality({k \in DOMAIN t : t[k] \in S})
             /\ Len(Among(t, S)) <= Len(t)
             /\ ToSet(t) \subseteq S => Among(t, S) = t
           P == {t \in Seq(T) : Holds(t)}
<1>1. << >> \in P
  <2>1. Among(<< >>, S) = << >> /\ << >> \in Seq(T) /\ Len(<< >>) = 0
    BY AmongNone, EmptySeq
  <2>2. DOMAIN << >> = {}
    OBVIOUS
  <2>3. ToSet(<< >>) = {}
    BY <2>2 DEF ToSet
  <2>4. PICK z : z = << >>
    OBVIOUS
  <2>5. {k \in DOMAIN z : z[k] \in S} = {}
    BY <2>2, <2>4
  <2>6. Cardinality({}) = 0
    BY FS_EmptySet
  <2>7. Holds(z)
    <3>1. Among(z, S) = z /\ z \in Seq(T) /\ Len(z) = 0 /\ ToSet(z) = {}
      BY <2>1, <2>3, <2>4
    <3>2. ToSet(z) = ToSet(z) \cap S /\ Len(z) <= Len(z)
      BY <3>1
    <3>3. Len(z) = Cardinality({k \in DOMAIN z : z[k] \in S})
      BY <2>5, <2>6, <3>1
    <3>4. QED
      BY <3>1, <3>2, <3>3
  <2>8. QED
    BY <2>1, <2>4, <2>7
<1>2. ASSUME NEW t \in Seq(T), t \in P, NEW e \in T
      PROVE  Append(t, e) \in P
  <2>1. PICK u : u = Append(t, e)
    OBVIOUS
  <2>2. PICK a : a = Among(t, S)
    OBVIOUS
  <2>3. Holds(t)
    BY <1>2
  <2>4. /\ a \in Seq(T) /\ ToSet(a) = ToSet(t) \cap S
        /\ Len(a) = Cardinality({k \in DOMAIN t : t[k] \in S})
        /\ Len(a) <= Len(t) /\ (ToSet(t) \subseteq S => a = t)
    BY <2>2, <2>3
  <2>5. u \in Seq(T) /\ Len(t) \in Nat /\ Len(u) = Len(t) + 1 /\ ToSet(u) = ToSet(t) \cup {e}
    BY <2>1, AppendFacts
  <2>6. Among(u, S) = IF e \in S THEN Append(a, e) ELSE a
    BY <2>1, <2>2, AmongAppend
  <2>7. PICK K : K = {k \in DOMAIN t : t[k] \in S}
    OBVIOUS
  <2>8. /\ IsFiniteSet(K) /\ Len(t) + 1 \notin K
        /\ {k \in DOMAIN u : u[k] \in S} = IF e \in S THEN K \cup {Len(t) + 1} ELSE K
    BY <2>1, <2>7, PositionsAppend
  <2>9. Len(a) \in Nat /\ Len(a) = Cardinality(K)
    BY <2>4, <2>7, LenProperties
  <2>10. Holds(u)
    <3>1. CASE e \in S
      <4>1. Among(u, S) = Append(a, e)
        BY <2>6, <3>1
      <4>2. /\ Append(a, e) \in Seq(T) /\ Len(Append(a, e)) = Len(a) + 1
            /\ ToSet(Append(a, e)) = ToSet(a) \cup {e}
        BY <2>4, AppendFacts
      <4>3. Cardinality(K \cup {Len(t) + 1}) = Cardinality(K) + 1
        BY <2>8, FS_AddElement
      <4>4. Len(a) + 1 = Cardinality({k \in DOMAIN u : u[k] \in S})
        BY <2>8, <2>9, <3>1, <4>3
      <4>5. Len(a) + 1 <= Len(u)
        BY <2>4, <2>5, <2>9
      <4>6. ToSet(Append(a, e)) = ToSet(u) \cap S
        BY <2>4, <2>5, <3>1, <4>2
      <4>7. ToSet(u) \subseteq S => Append(a, e) = u
        BY <2>1, <2>4, <2>5
      <4>8. QED
        BY <4>1, <4>2, <4>4, <4>5, <4>6, <4>7
    <3>2. CASE e \notin S
      <4>1. Among(u, S) = a
        BY <2>6, <3>2
      <4>2. Len(a) = Cardinality({k \in DOMAIN u : u[k] \in S})
        BY <2>8, <2>9, <3>2
      <4>3. Len(a) <= Len(u)
        BY <2>4, <2>5, <2>9
      <4>4. ToSet(a) = ToSet(u) \cap S
        BY <2>4, <2>5, <3>2
      <4>5. ~(ToSet(u) \subseteq S)
        BY <2>5, <3>2
      <4>6. QED
        BY <2>4, <4>1, <4>2, <4>3, <4>4, <4>5
    <3>3. QED
      BY <3>1, <3>2
  <2> HIDE DEF Holds
  <2>11. QED
    BY <2>1, <2>5, <2>10
<1> HIDE DEF P
<1>3. Seq(T) \subseteq P
  BY <1>1, <1>2, SeqSetInduction
<1>4. s \in P
  BY <1>3
<1>5. QED
  BY <1>4 DEF P

\* A list is a sequence of any set that has its elements.
LEMMA ListIn ==
  ASSUME NEW s, IsList(s), NEW U, ToSet(s) \subseteq U
  PROVE  s \in Seq(U)
<1>1. PICK n \in Nat : n = Len(s) /\ DOMAIN s = 1 .. n
  BY ListFacts
<1>2. \A i \in 1 .. n : s[i] \in U
  BY <1>1 DEF ToSet
<1>3. PICK T : s \in Seq(T)
  BY ListFacts
<1>4. s = [i \in 1 .. n |-> s[i]]
  BY <1>1, <1>3
<1>5. QED
  BY <1>2, <1>4

\* A list of one element.
LEMMA ListOfOne ==
  ASSUME NEW a
  PROVE  IsList(<<a>>) /\ Len(<<a>>) = 1 /\ DOMAIN <<a>> = {1} /\ <<a>>[1] = a
<1>1. <<a>> \in Seq({a})
  OBVIOUS
<1>2. IsList(<<a>>)
  BY <1>1, SeqIsList
<1>3. Len(<<a>>) = 1 /\ <<a>>[1] = a
  OBVIOUS
<1>4. DOMAIN <<a>> = {1}
  <2>1. DOMAIN <<a>> = 1 .. 1
    BY <1>1, <1>3, LenProperties
  <2>2. 1 .. 1 = {1}
    OBVIOUS
  <2>3. QED
    BY <2>1, <2>2
<1>5. QED
  BY <1>2, <1>3, <1>4

\* The empty list.
LEMMA ListOfNone == IsList(<< >>) /\ Len(<< >>) = 0 /\ DOMAIN << >> = {}
<1>1. << >> \in Seq({})
  OBVIOUS
<1>2. IsList(<< >>)
  BY <1>1, SeqIsList
<1>3. Len(<< >>) = 0
  OBVIOUS
<1>4. DOMAIN << >> = 1 .. 0
  BY <1>1, <1>3, LenProperties
<1>5. QED
  BY <1>2, <1>3, <1>4

\* A nonempty set of numbers that are not above a bound has a greatest one.
LEMMA GreatestIs ==
  ASSUME NEW n \in Nat, NEW S \in SUBSET (1 .. n), S # {}
  PROVE  Max(S) \in S /\ \A j \in S : j <= Max(S)
<1> DEFINE T == {n - x : x \in S}
<1>1. T \subseteq Nat /\ T # {}
  <2>1. \A x \in S : n - x \in Nat
    OBVIOUS
  <2>2. QED
    BY <2>1
<1> HIDE DEF T
<1>2. \E t \in T : \A u \in T : ~(<<u, t>> \in OpToRel(<, Nat))
  BY <1>1, WFMin, NatLessThanWellFounded
<1>3. PICK t \in T : \A u \in T : ~(<<u, t>> \in OpToRel(<, Nat))
  BY <1>2
<1>4. \A u \in T : ~(u < t)
  BY <1>1, <1>3 DEF OpToRel
<1>5. PICK i \in S : t = n - i
  BY <1>3 DEF T
<1>6. ASSUME NEW j \in S
      PROVE  i >= j
  <2>1. ~(n - j < n - i)
    BY <1>4, <1>5 DEF T
  <2>2. QED
    BY <2>1
<1>7. \E x \in S : \A y \in S : x >= y
  BY <1>6
<1>8. PICK m : m = Max(S)
  OBVIOUS
<1>9. m \in S /\ \A y \in S : m >= y
  BY <1>7, <1>8 DEF Max
<1>10. m \in Nat /\ \A y \in S : y \in Nat
  BY <1>9
<1>11. \A y \in S : y <= m
  BY <1>9, <1>10
<1>12. QED
  BY <1>8, <1>9, <1>11

\* And a least one.
LEMMA LeastIs ==
  ASSUME NEW n \in Nat, NEW S \in SUBSET (1 .. n), S # {}
  PROVE  Min(S) \in S /\ \A j \in S : Min(S) <= j
<1>1. S \subseteq Nat
  OBVIOUS
<1>2. \E t \in S : \A u \in S : ~(<<u, t>> \in OpToRel(<, Nat))
  BY <1>1, WFMin, NatLessThanWellFounded
<1>3. PICK t \in S : \A u \in S : ~(<<u, t>> \in OpToRel(<, Nat))
  BY <1>2
<1>4. \A u \in S : ~(u < t)
  BY <1>1, <1>3 DEF OpToRel
<1>5. \A u \in S : t <= u
  BY <1>1, <1>4
<1>6. \E x \in S : \A y \in S : x <= y
  BY <1>5
<1>7. PICK m : m = Min(S)
  OBVIOUS
<1>8. m \in S /\ \A y \in S : m <= y
  BY <1>6, <1>7 DEF Min
<1>9. QED
  BY <1>7, <1>8

\* A function on 1 .. n is a list of n elements.
LEMMA FunctionIsList ==
  ASSUME NEW n \in Nat, NEW s, s = [i \in 1 .. n |-> s[i]]
  PROVE  IsList(s) /\ Len(s) = n /\ DOMAIN s = 1 .. n
<1>1. PICK S : S = {s[k] : k \in 1 .. n}
  OBVIOUS
<1>2. s \in [1 .. n -> S]
  BY <1>1
<1>3. s \in Seq(S)
  BY <1>2
<1>4. IsList(s)
  BY <1>3, SeqIsList
<1>5. DOMAIN s = 1 .. n /\ Len(s) = n
  BY <1>2
<1>6. QED
  BY <1>4, <1>5

\* Two lists of the same elements are the same.
LEMMA ListsEqual ==
  ASSUME NEW s, NEW t, IsList(s), IsList(t), Len(s) = Len(t),
         \A i \in 1 .. Len(s) : s[i] = t[i]
  PROVE  s = t
<1>1. PICK S : s \in Seq(S)
  BY ListFacts
<1>2. PICK T : t \in Seq(T)
  BY ListFacts
<1>3. s \in [1 .. Len(s) -> S] /\ t \in [1 .. Len(t) -> T]
  BY <1>1, <1>2, LenProperties
<1>4. QED
  BY <1>3

\* One list after another.
LEMMA ListConcat ==
  ASSUME NEW s, NEW t, IsList(s), IsList(t)
  PROVE  /\ IsList(s \o t) /\ Len(s \o t) = Len(s) + Len(t)
         /\ Len(s) \in Nat /\ Len(t) \in Nat
         /\ DOMAIN s = 1 .. Len(s) /\ DOMAIN t = 1 .. Len(t)
         /\ DOMAIN (s \o t) = 1 .. Len(s) + Len(t)
         /\ \A i \in 1 .. Len(s) : (s \o t)[i] = s[i]
         /\ \A i \in 1 .. Len(t) : (s \o t)[Len(s) + i] = t[i]
<1>1. PICK S : s \in Seq(S)
  BY ListFacts
<1>2. PICK T : t \in Seq(T)
  BY ListFacts
<1>3. PICK U : U = S \cup T
  OBVIOUS
<1>4. s \in Seq(U) /\ t \in Seq(U)
  BY <1>1, <1>2, <1>3, SeqMonotonic
<1>5. PICK m \in Nat : m = Len(s)
  BY <1>4, LenProperties
<1>6. PICK n \in Nat : n = Len(t)
  BY <1>4, LenProperties
<1>7. PICK c : c = s \o t
  OBVIOUS
<1>8. /\ c \in Seq(U) /\ Len(c) = m + n
      /\ \A i \in 1 .. m + n : c[i] = IF i <= m THEN s[i] ELSE t[i - m]
  BY <1>4, <1>5, <1>6, <1>7, ConcatProperties
<1>9. \A i \in 1 .. m : i \in 1 .. m + n /\ i <= m
  OBVIOUS
<1>10. \A i \in 1 .. n : m + i \in 1 .. m + n /\ ~(m + i <= m) /\ (m + i) - m = i
  OBVIOUS
<1>11. \A i \in 1 .. m : c[i] = s[i]
  BY <1>8, <1>9
<1>12. \A i \in 1 .. n : c[m + i] = t[i]
  BY <1>8, <1>10
<1>13. IsList(c) /\ DOMAIN c = 1 .. m + n
  BY <1>8, SeqIsList, LenProperties
<1>14. DOMAIN s = 1 .. m /\ DOMAIN t = 1 .. n
  BY <1>4, <1>5, <1>6, LenProperties
<1>15. QED
  BY <1>5, <1>6, <1>7, <1>8, <1>11, <1>12, <1>13, <1>14

\* What there is in a concatenation.
LEMMA ConcatSet ==
  ASSUME NEW s, NEW t, IsList(s), IsList(t)
  PROVE  ToSet(s \o t) = ToSet(s) \cup ToSet(t)
<1>1. PICK c : c = s \o t
  OBVIOUS
<1>2. PICK m \in Nat : m = Len(s)
  BY ListConcat
<1>3. PICK n \in Nat : n = Len(t)
  BY ListConcat
<1>4. /\ DOMAIN s = 1 .. m /\ DOMAIN t = 1 .. n /\ DOMAIN c = 1 .. m + n
      /\ \A i \in 1 .. m : c[i] = s[i]
      /\ \A i \in 1 .. n : c[m + i] = t[i]
  BY <1>1, <1>2, <1>3, ListConcat
<1>5. \A i \in 1 .. m : i \in 1 .. m + n
  OBVIOUS
<1>6. \A i \in 1 .. n : m + i \in 1 .. m + n
  OBVIOUS
<1>7. \A i \in 1 .. m + n : i \in 1 .. m \/ \E k \in 1 .. n : i = m + k
  <2>1. SUFFICES ASSUME NEW i \in 1 .. m + n, i \notin 1 .. m
                 PROVE  \E k \in 1 .. n : i = m + k
    OBVIOUS
  <2>2. i - m \in 1 .. n /\ i = m + (i - m)
    BY <2>1
  <2>3. QED
    BY <2>2
<1>8. ToSet(s) \cup ToSet(t) \subseteq ToSet(c)
  <2>1. \A i \in 1 .. m : s[i] \in {c[k] : k \in 1 .. m + n}
    BY <1>4, <1>5
  <2>2. \A i \in 1 .. n : t[i] \in {c[k] : k \in 1 .. m + n}
    BY <1>4, <1>6
  <2>3. QED
    BY <1>4, <2>1, <2>2 DEF ToSet
<1>9. ToSet(c) \subseteq ToSet(s) \cup ToSet(t)
  <2>1. \A i \in 1 .. m + n : c[i] \in {s[k] : k \in 1 .. m} \cup {t[k] : k \in 1 .. n}
    BY <1>4, <1>7
  <2>2. QED
    BY <1>4, <2>1 DEF ToSet
<1>10. QED
  BY <1>1, <1>8, <1>9

\* Of a concatenation, the parts of both.
LEMMA AmongConcat ==
  ASSUME NEW T, NEW s \in Seq(T), NEW t \in Seq(T), NEW S
  PROVE  Among(s \o t, S) = Among(s, S) \o Among(t, S)
<1> DEFINE P == {u \in Seq(T) : Among(s \o u, S) = Among(s, S) \o Among(u, S)}
<1>1. << >> \in P
  <2>1. << >> \in Seq(T) /\ Among(s, S) \in Seq(T)
    BY EmptySeq, AmongFacts
  <2>2. s \o << >> = s /\ Among(s, S) \o << >> = Among(s, S)
    BY <2>1, ConcatEmptySeq
  <2>3. QED
    BY <2>1, <2>2, AmongNone
<1>2. ASSUME NEW u \in Seq(T), u \in P, NEW e \in T
      PROVE  Append(u, e) \in P
  <2>1. Append(u, e) \in Seq(T)
    BY AppendProperties
  <2>2. s \o Append(u, e) = Append(s \o u, e)
    <3>1. <<e>> \in Seq(T)
      OBVIOUS
    <3>2. Append(u, e) = u \o <<e>>
      BY AppendIsConcat
    <3>3. s \o u \in Seq(T)
      BY ConcatProperties
    <3>4. Append(s \o u, e) = (s \o u) \o <<e>>
      BY <3>3, AppendIsConcat
    <3>5. (s \o u) \o <<e>> = s \o (u \o <<e>>)
      BY <3>1, ConcatAssociative
    <3>6. QED
      BY <3>2, <3>4, <3>5
  <2>3. s \o u \in Seq(T)
    BY ConcatProperties
  <2>4. PICK a : a = Among(s, S)
    OBVIOUS
  <2>5. PICK b : b = Among(u, S)
    OBVIOUS
  <2>6. a \in Seq(T) /\ b \in Seq(T)
    BY <2>4, <2>5, AmongFacts
  <2>7. Among(s \o u, S) = a \o b
    BY <1>2, <2>4, <2>5
  <2>8. Among(Append(s \o u, e), S)
          = IF e \in S THEN Append(Among(s \o u, S), e) ELSE Among(s \o u, S)
    BY <2>3, AmongAppend
  <2>9. Among(Append(u, e), S) = IF e \in S THEN Append(b, e) ELSE b
    BY <2>5, AmongAppend
  <2>10. Append(a \o b, e) = a \o Append(b, e)
    <3>1. <<e>> \in Seq(T)
      OBVIOUS
    <3>2. Append(b, e) = b \o <<e>>
      BY <2>6, AppendIsConcat
    <3>3. a \o b \in Seq(T)
      BY <2>6, ConcatProperties
    <3>4. Append(a \o b, e) = (a \o b) \o <<e>>
      BY <3>3, AppendIsConcat
    <3>5. (a \o b) \o <<e>> = a \o (b \o <<e>>)
      BY <2>6, <3>1, ConcatAssociative, SMTT(30)
    <3>6. QED
      BY <3>2, <3>4, <3>5
  <2>11. Among(s \o Append(u, e), S) = a \o Among(Append(u, e), S)
    BY <2>2, <2>7, <2>8, <2>9, <2>10
  <2>12. QED
    BY <2>1, <2>4, <2>11
<1> HIDE DEF P
<1>3. Seq(T) \subseteq P
  BY <1>1, <1>2, SeqSetInduction
<1>4. QED
  BY <1>3 DEF P

\* Nothing is left of a list without any of the elements.
LEMMA AmongOthers ==
  ASSUME NEW s, IsList(s), NEW S, ToSet(s) \cap S = {}
  PROVE  Among(s, S) = << >>
<1>1. PICK T : s \in Seq(T)
  BY ListFacts
<1>2. {k \in DOMAIN s : s[k] \in S} = {}
  BY DEF ToSet
<1>3. Among(s, S) \in Seq(T) /\ Len(Among(s, S)) = 0
  BY <1>1, <1>2, AmongFacts, FS_EmptySet
<1>4. QED
  BY <1>3, EmptySeq

\* Of two lists the first of which has none.
LEMMA AmongLast ==
  ASSUME NEW T, NEW s \in Seq(T), NEW t \in Seq(T), NEW S, ToSet(s) \cap S = {}
  PROVE  Among(s \o t, S) = Among(t, S)
<1>1. Among(s \o t, S) = Among(s, S) \o Among(t, S)
  BY AmongConcat
<1>2. Among(s, S) = << >>
  BY SeqIsList, AmongOthers
<1>3. PICK u \in Seq(T) : u = Among(t, S)
  BY AmongFacts
<1>4. << >> \o u = u
  OBVIOUS
<1>5. QED
  BY <1>1, <1>2, <1>3, <1>4

\* Of a list of one element.
LEMMA AmongOne ==
  ASSUME NEW a, NEW S
  PROVE  Among(<<a>>, S) = IF a \in S THEN <<a>> ELSE << >>
<1>1. << >> \in Seq({a}) /\ a \in {a}
  OBVIOUS
<1>2. Append(<< >>, a) = <<a>>
  OBVIOUS
<1>3. Among(Append(<< >>, a), S)
        = IF a \in S THEN Append(Among(<< >>, S), a) ELSE Among(<< >>, S)
  BY <1>1, AmongAppend
<1>4. QED
  BY <1>2, <1>3, AmongNone

\* A list without repetitions stays so when something new is added.
LEMMA AppendKeepsDistinct ==
  ASSUME NEW T, NEW s \in Seq(T), NEW e \in T, IsInjective(s), e \notin ToSet(s)
  PROVE  IsInjective(Append(s, e))
<1>1. PICK t : t = Append(s, e)
  OBVIOUS
<1>2. /\ Len(s) \in Nat /\ DOMAIN s = 1 .. Len(s) /\ DOMAIN t = 1 .. Len(s) + 1
      /\ \A k \in 1 .. Len(s) : t[k] = s[k]
      /\ t[Len(s) + 1] = e
  BY <1>1, AppendFacts
<1>3. \A k \in 1 .. Len(s) : s[k] # e
  BY <1>2 DEF ToSet
<1>4. ASSUME NEW i \in DOMAIN t, NEW j \in DOMAIN t, t[i] = t[j]
      PROVE  i = j
  <2>1. i \in 1 .. Len(s) \/ i = Len(s) + 1
    BY <1>2
  <2>2. j \in 1 .. Len(s) \/ j = Len(s) + 1
    BY <1>2
  <2>3. CASE i \in 1 .. Len(s) /\ j \in 1 .. Len(s)
    BY <1>2, <1>4, <2>3 DEF IsInjective
  <2>4. QED
    BY <1>2, <1>3, <1>4, <2>1, <2>2, <2>3
<1>5. QED
  BY <1>1, <1>4 DEF IsInjective

\* A part of a list without repetitions has none.
LEMMA AmongKeepsDistinct ==
  ASSUME NEW T, NEW s \in Seq(T), NEW S, IsInjective(s)
  PROVE  IsInjective(Among(s, S))
<1> DEFINE P == {t \in Seq(T) : IsInjective(t) => IsInjective(Among(t, S))}
<1>1. << >> \in P
  <2>1. Among(<< >>, S) = << >>
    BY AmongNone
  <2>2. QED
    BY <2>1, EmptySeq
<1>2. ASSUME NEW t \in Seq(T), t \in P, NEW e \in T
      PROVE  Append(t, e) \in P
  <2>1. PICK u : u = Append(t, e)
    OBVIOUS
  <2>2. /\ u \in Seq(T) /\ Len(t) \in Nat
        /\ DOMAIN t = 1 .. Len(t) /\ DOMAIN u = 1 .. Len(t) + 1
        /\ \A k \in 1 .. Len(t) : u[k] = t[k]
        /\ u[Len(t) + 1] = e
    BY <2>1, AppendFacts
  <2>3. ASSUME IsInjective(u)
        PROVE  IsInjective(Among(u, S))
    <3>1. DOMAIN t \subseteq DOMAIN u /\ Len(t) + 1 \in DOMAIN u /\ Len(t) + 1 \notin DOMAIN t
      BY <2>2
    <3>2. IsInjective(t)
      BY <2>2, <2>3, <3>1 DEF IsInjective
    <3>3. e \notin ToSet(t)
      BY <2>2, <2>3, <3>1 DEF IsInjective, ToSet
    <3>4. IsInjective(Among(t, S))
      BY <1>2, <3>2
    <3>5. Among(t, S) \in Seq(T) /\ ToSet(Among(t, S)) = ToSet(t) \cap S
      BY AmongFacts
    <3>6. IsInjective(Append(Among(t, S), e))
      BY <3>3, <3>4, <3>5, AppendKeepsDistinct
    <3>7. Among(u, S) = IF e \in S THEN Append(Among(t, S), e) ELSE Among(t, S)
      BY <2>1, AmongAppend
    <3>8. QED
      BY <3>4, <3>6, <3>7
  <2>4. QED
    BY <2>1, <2>2, <2>3
<1> HIDE DEF P
<1>3. Seq(T) \subseteq P
  BY <1>1, <1>2, SeqSetInduction
<1>4. QED
  BY <1>3 DEF P

\* The place of a number among those of a set.
PlaceOf(S, i) == Cardinality({j \in 1 .. i : j \in S})

\* Each number of the set takes one place.
LEMMA PlaceFacts ==
  /\ \A S : PlaceOf(S, 0) = 0
  /\ \A S : \A i \in Nat : PlaceOf(S, i) \in Nat
  /\ \A S : \A i \in Nat : PlaceOf(S, i + 1) = IF i + 1 \in S THEN PlaceOf(S, i) + 1 ELSE PlaceOf(S, i)
  /\ \A S : \A i, k \in Nat : k \in S /\ i < k => PlaceOf(S, i) < PlaceOf(S, k)
<1>1. ASSUME NEW S, NEW i \in Nat
      PROVE  IsFiniteSet({j \in 1 .. i : j \in S})
  <2>1. i \in Int /\ 1 \in Int
    OBVIOUS
  <2>2. IsFiniteSet(1 .. i)
    BY <2>1, FS_Interval
  <2>3. QED
    BY <2>2, FS_Subset
<1>2. ASSUME NEW S
      PROVE  PlaceOf(S, 0) = 0
  <2>1. {j \in 1 .. 0 : j \in S} = {}
    OBVIOUS
  <2>2. QED
    BY <2>1, FS_EmptySet DEF PlaceOf
<1>3. \A S : \A i \in Nat : PlaceOf(S, i) \in Nat
  BY <1>1, FS_CardinalityType DEF PlaceOf
<1>4. ASSUME NEW S, NEW i \in Nat
      PROVE  PlaceOf(S, i + 1) = IF i + 1 \in S THEN PlaceOf(S, i) + 1 ELSE PlaceOf(S, i)
  <2>1. PICK A : A = {j \in 1 .. i : j \in S}
    OBVIOUS
  <2>2. PICK B : B = {j \in 1 .. i + 1 : j \in S}
    OBVIOUS
  <2>3. PICK n : n = i + 1
    OBVIOUS
  <2>4. 1 .. n = (1 .. i) \cup {n} /\ n \notin 1 .. i
    BY <2>3
  <2>5. B = IF n \in S THEN A \cup {n} ELSE A
    BY <2>1, <2>2, <2>3, <2>4
  <2>6. IsFiniteSet(A) /\ n \notin A
    BY <1>1, <2>1, <2>4
  <2>7. Cardinality(A \cup {n}) = Cardinality(A) + 1
    BY <2>6, FS_AddElement
  <2>8. Cardinality(B) = IF n \in S THEN Cardinality(A) + 1 ELSE Cardinality(A)
    BY <2>5, <2>7
  <2>9. QED
    BY <2>1, <2>2, <2>3, <2>8 DEF PlaceOf
<1>5. ASSUME NEW S, NEW i \in Nat, NEW k \in Nat, k \in S, i < k
      PROVE  PlaceOf(S, i) < PlaceOf(S, k)
  <2>1. PICK n \in Nat : k = n + 1 /\ i <= n
    <3>1. k - 1 \in Nat /\ k = (k - 1) + 1 /\ i <= k - 1
      BY <1>5
    <3>2. QED
      BY <3>1
  <2>2. PICK a, b : a = {j \in 1 .. i : j \in S} /\ b = {j \in 1 .. n : j \in S}
    OBVIOUS
  <2>3. a \subseteq b
    BY <2>1, <2>2
  <2>4. IsFiniteSet(b)
    BY <1>1, <2>2
  <2>5. Cardinality(a) <= Cardinality(b)
    BY <2>3, <2>4, FS_Subset
  <2>6. PlaceOf(S, i) <= PlaceOf(S, n)
    BY <2>2, <2>5 DEF PlaceOf
  <2>7. PlaceOf(S, k) = PlaceOf(S, n) + 1
    BY <1>4, <1>5, <2>1
  <2>8. PlaceOf(S, i) \in Nat /\ PlaceOf(S, n) \in Nat
    BY <1>3
  <2>9. QED
    BY <2>6, <2>7, <2>8
<1>6. QED
  BY <1>2, <1>3, <1>4, <1>5

Numbers(n) == [i \in 1 .. n |-> i]

\* What is among the numbers up to n is in their order, each at its place.
InPlace(t, S, n) ==
  /\ Len(t) = PlaceOf(S, n)
  /\ \A k \in 1 .. PlaceOf(S, n) : t[k] \in 1 .. n /\ t[k] \in S
  /\ \A k, l \in 1 .. PlaceOf(S, n) : k < l => t[k] < t[l]
  /\ \A i \in 1 .. n : i \in S => PlaceOf(S, i) \in 1 .. PlaceOf(S, n) /\ t[PlaceOf(S, i)] = i

\* Among keeps the numbers in place.
LEMMA AmongNumbers ==
  ASSUME NEW S, NEW size \in Nat
  PROVE  InPlace(Among(Numbers(size), S), S, size)
<1> DEFINE P == {m \in Nat : InPlace(Among(Numbers(m), S), S, m)}
<1>1. 0 \in P
  <2>1. Numbers(0) = << >> /\ 1 .. 0 = {}
    BY DEF Numbers
  <2>2. Among(Numbers(0), S) = << >>
    BY <2>1, AmongNone
  <2>3. PlaceOf(S, 0) = 0
    BY PlaceFacts
  <2>4. InPlace(<< >>, S, 0)
    BY <2>1, <2>3, ListOfNone DEF InPlace
  <2>5. QED
    BY <2>2, <2>4
<1>2. ASSUME NEW m \in Nat, m \in P
      PROVE  m + 1 \in P
  <2>1. PICK t : t = Among(Numbers(m), S)
    OBVIOUS
  <2>2. PICK r \in Nat : r = PlaceOf(S, m)
    BY PlaceFacts
  <2>3. PICK n \in Nat : n = m + 1
    OBVIOUS
  <2>4. /\ Len(t) = r
        /\ \A k \in 1 .. r : t[k] \in 1 .. m /\ t[k] \in S
        /\ \A k, l \in 1 .. r : k < l => t[k] < t[l]
        /\ \A i \in 1 .. m : i \in S => PlaceOf(S, i) \in 1 .. r /\ t[PlaceOf(S, i)] = i
    BY <1>2, <2>1, <2>2 DEF InPlace
  <2>5. Numbers(m) \in Seq(Nat) /\ Numbers(n) = Append(Numbers(m), n)
    <3>1. PICK u : u = Numbers(m)
      OBVIOUS
    <3>2. u = [i \in 1 .. m |-> i]
      BY <3>1 DEF Numbers
    <3>3. u \in Seq(Nat) /\ Len(u) = m
      BY <3>2
    <3>4. PICK v : v = Append(u, n)
      OBVIOUS
    <3>5. v \in Seq(Nat) /\ Len(v) = n /\ v[n] = n /\ \A i \in 1 .. m : v[i] = i
      BY <2>3, <3>2, <3>3, <3>4, AppendFacts
    <3>6. \A i \in 1 .. n : v[i] = i
      BY <2>3, <3>5
    <3>7. v = [i \in 1 .. n |-> i]
      <4>1. v = [i \in 1 .. n |-> v[i]]
        BY <3>5
      <4>2. QED
        BY <3>6, <4>1
    <3>8. QED
      BY <3>1, <3>3, <3>4, <3>7 DEF Numbers
  <2>6. Among(Numbers(n), S) = IF n \in S THEN Append(t, n) ELSE t
    <3>1. PICK u \in Seq(Nat) : u = Numbers(m)
      BY <2>5
    <3>2. Among(Append(u, n), S) = IF n \in S THEN Append(Among(u, S), n) ELSE Among(u, S)
      BY AmongAppend
    <3>3. QED
      BY <2>1, <2>5, <3>1, <3>2
  <2>7. t \in Seq(Nat)
    BY <2>1, <2>5, AmongFacts
  <2>8. \A i \in 1 .. n : i \in 1 .. m \/ i = n
    BY <2>3
  <2>9. CASE n \notin S
    <3>1. PlaceOf(S, n) = r
      BY <2>2, <2>3, <2>9, PlaceFacts
    <3>2. \A i \in 1 .. n : i \in S => i \in 1 .. m
      BY <2>8, <2>9
    <3>3. \A i \in 1 .. m : i \in 1 .. n
      BY <2>3
    <3>4. InPlace(t, S, n)
      BY <2>4, <3>1, <3>2, <3>3 DEF InPlace
    <3>5. QED
      BY <2>3, <2>6, <2>9, <3>4
  <2>10. CASE n \in S
    <3>1. PlaceOf(S, n) = r + 1
      BY <2>2, <2>3, <2>10, PlaceFacts
    <3>2. PICK u : u = Append(t, n)
      OBVIOUS
    <3>3. Len(u) = r + 1 /\ u[r + 1] = n /\ \A k \in 1 .. r : u[k] = t[k]
      BY <2>4, <2>7, <3>2, AppendFacts
    <3>4. \A k \in 1 .. r + 1 : k \in 1 .. r \/ k = r + 1
      OBVIOUS
    <3>5. \A k \in 1 .. r + 1 : u[k] \in 1 .. n /\ u[k] \in S
      <4>1. \A i \in 1 .. m : i \in 1 .. n
        BY <2>3
      <4>2. n \in 1 .. n
        BY <2>3
      <4>3. QED
        BY <2>4, <2>10, <3>3, <3>4, <4>1, <4>2
    <3>6. ASSUME NEW k \in 1 .. r + 1, NEW l \in 1 .. r + 1, k < l
          PROVE  u[k] < u[l]
      <4>1. k \in 1 .. r
        BY <3>6
      <4>2. CASE l \in 1 .. r
        BY <2>4, <3>3, <3>6, <4>1, <4>2
      <4>3. CASE l = r + 1
        <5>1. t[k] \in 1 .. m
          BY <2>4, <4>1
        <5>2. u[k] = t[k] /\ u[l] = n
          BY <3>3, <4>1, <4>3
        <5>3. QED
          BY <2>3, <5>1, <5>2
      <4>4. QED
        BY <3>4, <4>2, <4>3
    <3>7. ASSUME NEW i \in 1 .. n, i \in S
          PROVE  PlaceOf(S, i) \in 1 .. r + 1 /\ u[PlaceOf(S, i)] = i
      <4>1. CASE i \in 1 .. m
        <5>1. PICK k : k = PlaceOf(S, i)
          OBVIOUS
        <5>2. k \in 1 .. r /\ t[k] = i
          BY <2>4, <3>7, <4>1, <5>1
        <5>3. QED
          BY <3>3, <5>1, <5>2
      <4>2. CASE i = n
        BY <3>1, <3>3, <4>2
      <4>3. QED
        BY <2>8, <4>1, <4>2
    <3>8. InPlace(u, S, n)
      BY <3>1, <3>3, <3>5, <3>6, <3>7 DEF InPlace
    <3>9. QED
      BY <2>3, <2>6, <2>10, <3>2, <3>8
  <2>11. QED
    BY <2>9, <2>10
<1>3. Nat \subseteq P
  <2> HIDE DEF P
  <2>1. QED
    BY <1>1, <1>2, NatSetInduction
<1>4. QED
  BY <1>3

-----------------------------------------------------------------------------
(* Sums over finite sets.  The library defines them by a recursive         *)
(* function that takes the elements in an order of its own; that the order *)
(* does not matter is shown by induction over the subsets.                 *)

\* What holds of a set when it holds of all its proper subsets holds of every
\* finite set.
LEMMA SubsetInduction ==
  ASSUME NEW S, IsFiniteSet(S), NEW P,
         \A T \in SUBSET S : (\A U \in SUBSET T : U # T => U \in P) => T \in P
  PROVE  S \in P
<1> DEFINE Bad == {T \in SUBSET S : T \notin P}
<1>1. SUFFICES ASSUME S \notin P
               PROVE  FALSE
  OBVIOUS
<1>2. IsWellFoundedOn(StrictSubsetOrdering(S), SUBSET S)
  BY FS_StrictSubsetOrderingWellFounded, FS_FiniteSubsetsOfFinite
<1>3. Bad \subseteq SUBSET S /\ Bad # {}
  BY <1>1
<1> HIDE DEF Bad
<1>4. \E T \in Bad : \A U \in Bad : ~(<<U, T>> \in StrictSubsetOrdering(S))
  BY <1>2, <1>3, WFMin
<1>5. PICK T \in Bad : \A U \in Bad : ~(<<U, T>> \in StrictSubsetOrdering(S))
  BY <1>4
<1>6. T \in SUBSET S /\ T \notin P
  BY <1>5 DEF Bad
<1>7. ASSUME NEW U \in SUBSET T, U # T
      PROVE  U \in P
  <2>1. U \in SUBSET S /\ U \subseteq T
    BY <1>6, <1>7
  <2>2. <<U, T>> \in StrictSubsetOrdering(S)
    BY <1>6, <1>7, <2>1 DEF StrictSubsetOrdering
  <2>3. U \notin Bad
    BY <1>5, <2>2
  <2>4. QED
    BY <2>1, <2>3 DEF Bad
<1>8. QED
  BY <1>6, <1>7

Picked(S) == CHOOSE x \in S : TRUE

\* The recursive function a sum over S is defined by.
SumsTo(g, f, S) ==
  g = [T \in SUBSET S |-> IF T = {} THEN 0 ELSE f[Picked(T)] + g[T \ {Picked(T)}]]

Sums(f, S) == CHOOSE g : SumsTo(g, f, S)

SumOver(f, S) == Sums(f, S)[S]

\* The element picked is one.
LEMMA PickedIn == \A S : S # {} => Picked(S) \in S
  BY DEF Picked

\* Such functions agree on the sets they have in common, if their summands do.
LEMMA SumsAgree ==
  ASSUME NEW S, IsFiniteSet(S), NEW g, NEW f, NEW A, S \in SUBSET A, SumsTo(g, f, A),
         NEW h, NEW e, NEW B, S \in SUBSET B, SumsTo(h, e, B),
         \A x \in S : f[x] = e[x]
  PROVE  g[S] = h[S]
<1> DEFINE P == {T \in SUBSET S : g[T] = h[T]}
<1>1. ASSUME NEW T \in SUBSET S, \A U \in SUBSET T : U # T => U \in P
      PROVE  T \in P
  <2>1. T \in SUBSET A /\ T \in SUBSET B
    OBVIOUS
  <2>2. /\ g[T] = IF T = {} THEN 0 ELSE f[Picked(T)] + g[T \ {Picked(T)}]
        /\ h[T] = IF T = {} THEN 0 ELSE e[Picked(T)] + h[T \ {Picked(T)}]
    BY <2>1 DEF SumsTo
  <2>3. CASE T = {}
    BY <2>2, <2>3
  <2>4. CASE T # {}
    <3>1. Picked(T) \in T
      BY <2>4, PickedIn
    <3>2. T \ {Picked(T)} \in P
      BY <1>1, <3>1
    <3>3. f[Picked(T)] = e[Picked(T)]
      BY <3>1
    <3>4. QED
      BY <2>2, <2>4, <3>2, <3>3
  <2>5. QED
    BY <2>3, <2>4
<1> HIDE DEF P
<1>2. S \in P
  BY <1>1, SubsetInduction
<1>3. QED
  BY <1>2 DEF P

\* There is one such function: it is made for sets of one element more at a
\* time.
LEMMA SumsExist ==
  ASSUME NEW S, IsFiniteSet(S), NEW f
  PROVE  \E g : SumsTo(g, f, S)
<1> DEFINE Small(n) == {T \in SUBSET S : Cardinality(T) <= n}
           Upto(g, n) == g = [T \in Small(n) |->
                                IF T = {} THEN 0 ELSE f[Picked(T)] + g[T \ {Picked(T)}]]
           P == {n \in Nat : \E g : Upto(g, n)}
<1>1. \A T \in SUBSET S : IsFiniteSet(T) /\ Cardinality(T) \in Nat
  BY FS_Subset, FS_CardinalityType
<1>2. 0 \in P
  <2>1. \A T \in Small(0) : T = {}
    <3>1. \A T \in SUBSET S : Cardinality(T) <= 0 => Cardinality(T) = 0
      BY <1>1
    <3>2. QED
      BY <1>1, <3>1, FS_EmptySet
  <2>2. Upto([T \in Small(0) |-> 0], 0)
    BY <2>1
  <2>3. QED
    BY <2>2
<1>3. ASSUME NEW n \in Nat, n \in P
      PROVE  n + 1 \in P
  <2>1. PICK g : Upto(g, n)
    BY <1>3
  <2> DEFINE h == [T \in Small(n + 1) |->
                     IF T = {} THEN 0 ELSE f[Picked(T)] + g[T \ {Picked(T)}]]
  <2>2. ASSUME NEW T \in Small(n)
        PROVE  T \in Small(n + 1) /\ h[T] = g[T]
    <3>1. T \in Small(n + 1)
      <4>1. Cardinality(T) <= n /\ Cardinality(T) \in Nat
        BY <1>1
      <4>2. Cardinality(T) <= n + 1
        BY <1>3, <4>1
      <4>3. QED
        BY <4>2
    <3>2. g[T] = IF T = {} THEN 0 ELSE f[Picked(T)] + g[T \ {Picked(T)}]
      <4> HIDE DEF Small
      <4>1. QED
        BY <2>1
    <3>3. h[T] = IF T = {} THEN 0 ELSE f[Picked(T)] + g[T \ {Picked(T)}]
      <4> HIDE DEF Small
      <4>1. QED
        BY <3>1
    <3>4. QED
      BY <3>1, <3>2, <3>3
  <2>3. ASSUME NEW T \in Small(n + 1), T # {}
        PROVE  T \ {Picked(T)} \in Small(n)
    <3>1. Picked(T) \in T
      BY <2>3, PickedIn
    <3>2. Cardinality(T \ {Picked(T)}) = Cardinality(T) - 1
      BY <1>1, <3>1, FS_RemoveElement
    <3>3. Cardinality(T) <= n + 1 /\ Cardinality(T) \in Nat
      BY <1>1
    <3>4. Cardinality(T) - 1 <= n
      BY <1>3, <3>3
    <3>5. QED
      BY <3>2, <3>4
  <2>4. Upto(h, n + 1)
    <3> HIDE DEF Small
    <3>1. \A T \in Small(n + 1) :
            (IF T = {} THEN 0 ELSE f[Picked(T)] + g[T \ {Picked(T)}])
              = (IF T = {} THEN 0 ELSE f[Picked(T)] + h[T \ {Picked(T)}])
      <4> HIDE DEF h
      <4>1. QED
        BY <2>2, <2>3
    <3>2. QED
      BY <3>1
  <2>5. n + 1 \in Nat
    BY <1>3
  <2> HIDE DEF Upto, h
  <2>6. QED
    BY <2>4, <2>5
<1>4. Nat \subseteq P
  <2> HIDE DEF P
  <2>1. QED
    BY <1>2, <1>3, NatSetInduction
<1>5. PICK g : Upto(g, Cardinality(S))
  BY <1>1, <1>4
<1>6. Small(Cardinality(S)) = SUBSET S
  <2>1. \A T \in SUBSET S : Cardinality(T) <= Cardinality(S)
    BY FS_Subset
  <2>2. QED
    BY <2>1
<1>7. SumsTo(g, f, S)
  BY <1>5, <1>6 DEF SumsTo
<1>8. QED
  BY <1>7

\* The function chosen is one.
LEMMA SumsHold ==
  ASSUME NEW S, IsFiniteSet(S), NEW f
  PROVE  SumsTo(Sums(f, S), f, S)
<1>1. \E g : SumsTo(g, f, S)
  BY SumsExist
<1>2. QED
  BY <1>1 DEF Sums

\* The sum depends on the summands only.
LEMMA SumCongruent ==
  ASSUME NEW S, IsFiniteSet(S), NEW f, NEW e, \A x \in S : f[x] = e[x]
  PROVE  SumOver(f, S) = SumOver(e, S)
<1>1. S \in SUBSET S
  OBVIOUS
<1>2. SumsTo(Sums(f, S), f, S) /\ SumsTo(Sums(e, S), e, S)
  BY SumsHold
<1>3. QED
  BY <1>1, <1>2, SumsAgree DEF SumOver

\* The sum over nothing.
LEMMA SumOfNone == \A f : SumOver(f, {}) = 0
<1> SUFFICES ASSUME NEW f
             PROVE  SumOver(f, {}) = 0
  OBVIOUS
<1>1. SumsTo(Sums(f, {}), f, {})
  BY FS_EmptySet, SumsHold
<1>2. {} \in SUBSET {}
  OBVIOUS
<1>3. QED
  BY <1>1, <1>2 DEF SumsTo, SumOver

\* The element picked and the others.
LEMMA SumPicked ==
  ASSUME NEW S, IsFiniteSet(S), S # {}, NEW f
  PROVE  SumOver(f, S) = f[Picked(S)] + SumOver(f, S \ {Picked(S)})
<1> DEFINE T == S \ {Picked(S)}
<1>1. IsFiniteSet(T)
  BY FS_Subset
<1>2. SumsTo(Sums(f, S), f, S) /\ SumsTo(Sums(f, T), f, T)
  BY <1>1, SumsHold
<1>3. T \in SUBSET S /\ S \in SUBSET S /\ T \in SUBSET T
  OBVIOUS
<1>4. Sums(f, S)[S] = f[Picked(S)] + Sums(f, S)[T]
  BY <1>2, <1>3 DEF SumsTo
<1>5. Sums(f, S)[T] = Sums(f, T)[T]
  <2> HIDE DEF T
  <2>1. QED
    BY <1>1, <1>2, <1>3, SumsAgree
<1>6. QED
  BY <1>4, <1>5 DEF SumOver

\* Sums of integers are integers.
LEMMA SumIsInt ==
  ASSUME NEW S, IsFiniteSet(S), NEW f, \A x \in S : f[x] \in Int
  PROVE  SumOver(f, S) \in Int
<1> DEFINE P == {T \in SUBSET S : SumOver(f, T) \in Int}
<1>1. ASSUME NEW T \in SUBSET S, \A U \in SUBSET T : U # T => U \in P
      PROVE  T \in P
  <2>1. CASE T = {}
    BY <2>1, SumOfNone
  <2>2. CASE T # {}
    <3>1. Picked(T) \in T /\ IsFiniteSet(T)
      BY <2>2, PickedIn, FS_Subset
    <3>2. SumOver(f, T) = f[Picked(T)] + SumOver(f, T \ {Picked(T)})
      BY <2>2, <3>1, SumPicked
    <3>3. T \ {Picked(T)} \in P
      BY <1>1, <3>1
    <3>4. f[Picked(T)] \in Int /\ SumOver(f, T \ {Picked(T)}) \in Int
      BY <3>1, <3>3
    <3>5. QED
      BY <3>2, <3>4
  <2>3. QED
    BY <2>1, <2>2
<1> HIDE DEF P
<1>2. S \in P
  BY <1>1, SubsetInduction
<1>3. QED
  BY <1>2 DEF P

\* Any element and the others: the order does not matter.
LEMMA SumRemove ==
  ASSUME NEW S, IsFiniteSet(S), NEW f, \A x \in S : f[x] \in Int, NEW x \in S
  PROVE  SumOver(f, S) = f[x] + SumOver(f, S \ {x})
<1> DEFINE P == {T \in SUBSET S :
                   \A y \in T : SumOver(f, T) = f[y] + SumOver(f, T \ {y})}
<1>1. ASSUME NEW T \in SUBSET S, \A U \in SUBSET T : U # T => U \in P,
             NEW y \in T
      PROVE  SumOver(f, T) = f[y] + SumOver(f, T \ {y})
  <2> DEFINE p == Picked(T)
  <2>1. p \in T /\ T # {} /\ IsFiniteSet(T)
    BY PickedIn, FS_Subset
  <2> HIDE DEF p
  <2>2. SumOver(f, T) = f[p] + SumOver(f, T \ {p})
    BY <2>1, SumPicked DEF p
  <2>3. CASE y = p
    BY <2>2, <2>3
  <2>4. CASE y # p
    <3>1. y \in T \ {p} /\ p \in T \ {y} /\ T \ {p} \in P /\ T \ {y} \in P
      BY <1>1, <2>1, <2>4
    <3>2. SumOver(f, T \ {p}) = f[y] + SumOver(f, (T \ {p}) \ {y})
      BY <3>1
    <3>3. SumOver(f, T \ {y}) = f[p] + SumOver(f, (T \ {y}) \ {p})
      BY <3>1
    <3>4. (T \ {p}) \ {y} = (T \ {y}) \ {p}
      OBVIOUS
    <3>5. PICK U : U = (T \ {p}) \ {y}
      OBVIOUS
    <3>6. IsFiniteSet(U) /\ \A z \in U : f[z] \in Int
      BY <2>1, <3>5, FS_Subset
    <3>7. f[p] \in Int /\ f[y] \in Int /\ SumOver(f, U) \in Int
      BY <2>1, <3>6, SumIsInt
    <3>8. SumOver(f, T) = f[p] + (f[y] + SumOver(f, U))
      BY <2>2, <3>2, <3>5
    <3>9. SumOver(f, T \ {y}) = f[p] + SumOver(f, U)
      BY <3>3, <3>4, <3>5
    <3>10. QED
      BY <3>7, <3>8, <3>9
  <2>5. QED
    BY <2>3, <2>4
<1>2. \A T \in SUBSET S : (\A U \in SUBSET T : U # T => U \in P) => T \in P
  BY <1>1
<1> HIDE DEF P
<1>3. S \in P
  BY <1>2, SubsetInduction
<1>4. QED
  BY <1>3 DEF P

\* One element more.
LEMMA SumAdd ==
  ASSUME NEW S, IsFiniteSet(S), NEW f, NEW x, x \notin S,
         \A y \in S \cup {x} : f[y] \in Int
  PROVE  SumOver(f, S \cup {x}) = f[x] + SumOver(f, S)
<1>1. IsFiniteSet(S \cup {x}) /\ x \in S \cup {x} /\ (S \cup {x}) \ {x} = S
  BY FS_AddElement
<1>2. PICK T : T = S \cup {x}
  OBVIOUS
<1>3. SumOver(f, T) = f[x] + SumOver(f, T \ {x})
  BY <1>1, <1>2, SumRemove
<1>4. QED
  BY <1>1, <1>2, <1>3

\* Sums over two sets without a common element add up.
LEMMA SumUnion ==
  ASSUME NEW S, IsFiniteSet(S), NEW B, IsFiniteSet(B), S \cap B = {},
         NEW f, \A x \in S \cup B : f[x] \in Int
  PROVE  SumOver(f, S \cup B) = SumOver(f, S) + SumOver(f, B)
<1> DEFINE P == {T \in SUBSET B : SumOver(f, S \cup T) = SumOver(f, S) + SumOver(f, T)}
<1>1. SumOver(f, S) \in Int
  BY SumIsInt
<1>2. ASSUME NEW T \in SUBSET B, \A U \in SUBSET T : U # T => U \in P
      PROVE  T \in P
  <2>1. CASE T = {}
    <3>1. S \cup T = S /\ SumOver(f, T) = 0
      BY <2>1, SumOfNone
    <3>2. SumOver(f, S \cup T) = SumOver(f, S) + 0
      BY <1>1, <3>1
    <3>3. QED
      BY <3>1, <3>2
  <2>2. CASE T # {}
    <3> DEFINE x == Picked(T)
               U == T \ {x}
    <3>1. x \in T /\ x \notin S
      BY <2>2, PickedIn
    <3>2. U \in P /\ IsFiniteSet(U) /\ U \cup {x} = T /\ x \notin U
      BY <1>2, <3>1, FS_Subset
    <3>3. IsFiniteSet(S \cup U) /\ x \notin S \cup U /\ (S \cup U) \cup {x} = S \cup T
      BY <3>1, <3>2, FS_Union
    <3>4. f[x] \in Int /\ (\A y \in U : f[y] \in Int) /\ \A y \in (S \cup U) \cup {x} : f[y] \in Int
      BY <3>1, <3>2
    <3> HIDE DEF x, U
    <3>5. SumOver(f, T) = f[x] + SumOver(f, U)
      <4>1. \A y \in U \cup {x} : f[y] \in Int
        BY <3>4
      <4>2. SumOver(f, U \cup {x}) = f[x] + SumOver(f, U)
        BY <3>2, <4>1, SumAdd
      <4>3. QED
        BY <3>2, <4>2
    <3>6. SumOver(f, S \cup T) = f[x] + SumOver(f, S \cup U)
      <4>1. PICK V : V = S \cup U
        OBVIOUS
      <4>2. SumOver(f, V \cup {x}) = f[x] + SumOver(f, V)
        BY <3>3, <3>4, <4>1, SumAdd
      <4>3. QED
        BY <3>3, <4>1, <4>2
    <3>7. SumOver(f, S \cup U) = SumOver(f, S) + SumOver(f, U)
      BY <3>2
    <3>8. SumOver(f, U) \in Int
      BY <3>2, <3>4, SumIsInt
    <3>9. SumOver(f, S \cup T) = SumOver(f, S) + SumOver(f, T)
      BY <1>1, <3>4, <3>5, <3>6, <3>7, <3>8
    <3>10. QED
      BY <3>9
  <2>3. QED
    BY <2>1, <2>2
<1> HIDE DEF P
<1>3. B \in P
  BY <1>2, SubsetInduction
<1>4. QED
  BY <1>3 DEF P

\* A sum of zeros.
LEMMA SumOfZeros ==
  ASSUME NEW S, IsFiniteSet(S), NEW f, \A x \in S : f[x] = 0
  PROVE  SumOver(f, S) = 0
<1> DEFINE P == {T \in SUBSET S : SumOver(f, T) = 0}
<1>1. ASSUME NEW T \in SUBSET S, \A U \in SUBSET T : U # T => U \in P
      PROVE  T \in P
  <2>1. CASE T = {}
    BY <2>1, SumOfNone
  <2>2. CASE T # {}
    <3>1. Picked(T) \in T /\ IsFiniteSet(T)
      BY <2>2, PickedIn, FS_Subset
    <3>2. SumOver(f, T) = f[Picked(T)] + SumOver(f, T \ {Picked(T)})
      BY <2>2, <3>1, SumPicked
    <3>3. T \ {Picked(T)} \in P
      BY <1>1, <3>1
    <3>4. f[Picked(T)] = 0 /\ SumOver(f, T \ {Picked(T)}) = 0
      BY <3>1, <3>3
    <3>5. QED
      BY <3>2, <3>4
  <2>3. QED
    BY <2>1, <2>2
<1> HIDE DEF P
<1>2. S \in P
  BY <1>1, SubsetInduction
<1>3. QED
  BY <1>2 DEF P

\* Sums of natural numbers are natural numbers.
LEMMA SumIsNat ==
  ASSUME NEW S, IsFiniteSet(S), NEW f, \A x \in S : f[x] \in Nat
  PROVE  SumOver(f, S) \in Nat
<1> DEFINE P == {T \in SUBSET S : SumOver(f, T) \in Nat}
<1>1. ASSUME NEW T \in SUBSET S, \A U \in SUBSET T : U # T => U \in P
      PROVE  T \in P
  <2>1. CASE T = {}
    BY <2>1, SumOfNone
  <2>2. CASE T # {}
    <3>1. Picked(T) \in T /\ IsFiniteSet(T)
      BY <2>2, PickedIn, FS_Subset
    <3>2. SumOver(f, T) = f[Picked(T)] + SumOver(f, T \ {Picked(T)})
      BY <2>2, <3>1, SumPicked
    <3>3. T \ {Picked(T)} \in P
      BY <1>1, <3>1
    <3>4. f[Picked(T)] \in Nat /\ SumOver(f, T \ {Picked(T)}) \in Nat
      BY <3>1, <3>3
    <3>5. QED
      BY <3>2, <3>4
  <2>3. QED
    BY <2>1, <2>2
<1> HIDE DEF P
<1>2. S \in P
  BY <1>1, SubsetInduction
<1>3. QED
  BY <1>2 DEF P

\* Greater summands have a greater sum.
LEMMA SumMonotone ==
  ASSUME NEW S, IsFiniteSet(S), NEW f, NEW g,
         \A x \in S : f[x] \in Int /\ g[x] \in Int /\ f[x] <= g[x]
  PROVE  SumOver(f, S) <= SumOver(g, S)
<1> DEFINE P == {T \in SUBSET S : SumOver(f, T) <= SumOver(g, T)}
<1>1. ASSUME NEW T \in SUBSET S, \A U \in SUBSET T : U # T => U \in P
      PROVE  T \in P
  <2>1. CASE T = {}
    <3>1. SumOver(f, {}) = 0 /\ SumOver(g, {}) = 0
      BY SumOfNone
    <3>2. QED
      BY <2>1, <3>1
  <2>2. CASE T # {}
    <3>1. PICK y \in T : y = Picked(T)
      BY <2>2, PickedIn
    <3>2. PICK U : U = T \ {y}
      OBVIOUS
    <3>3. U \in SUBSET T /\ U # T /\ U \in SUBSET S /\ y \in S /\ IsFiniteSet(T) /\ IsFiniteSet(U)
      BY <3>1, <3>2, FS_Subset
    <3>4. SumOver(f, T) = f[y] + SumOver(f, U) /\ SumOver(g, T) = g[y] + SumOver(g, U)
      BY <2>2, <3>1, <3>2, <3>3, SumPicked
    <3>5. SumOver(f, U) \in Int /\ SumOver(g, U) \in Int
      BY <3>3, SumIsInt
    <3>6. SumOver(f, U) <= SumOver(g, U)
      BY <1>1, <3>3
    <3>7. SumOver(f, T) <= SumOver(g, T)
      BY <3>3, <3>4, <3>5, <3>6
    <3>8. QED
      BY <3>7
  <2>3. QED
    BY <2>1, <2>2
<1> HIDE DEF P
<1>2. S \in P
  BY <1>1, SubsetInduction
<1>3. QED
  BY <1>2 DEF P

\* Sums over sets whose elements correspond, with their summands.
LEMMA SumMapped ==
  ASSUME NEW S, IsFiniteSet(S), NEW f, \A x \in S : f[x] \in Int,
         NEW h, \A x, y \in S : h[x] = h[y] => x = y,
         NEW B, B = {h[x] : x \in S}, NEW e, \A x \in S : e[h[x]] = f[x]
  PROVE  SumOver(f, S) = SumOver(e, B)
<1> DEFINE Image(T) == {h[x] : x \in T}
           P == {T \in SUBSET S : SumOver(f, T) = SumOver(e, Image(T))}
<1>1. ASSUME NEW T \in SUBSET S, \A U \in SUBSET T : U # T => U \in P
      PROVE  T \in P
  <2>1. CASE T = {}
    <3>1. Image(T) = {}
      BY <2>1
    <3>2. QED
      BY <2>1, <3>1, SumOfNone
  <2>2. CASE T # {}
    <3> DEFINE x == Picked(T)
               U == T \ {x}
    <3>1. x \in T /\ IsFiniteSet(T)
      BY <2>2, PickedIn, FS_Subset
    <3>2. U \in P /\ U \subseteq T /\ IsFiniteSet(U)
      BY <1>1, <3>1, FS_Subset
    <3>3. SumOver(f, T) = f[x] + SumOver(f, U)
      BY <2>2, <3>1, SumPicked
    <3>4. Image(T) = Image(U) \cup {h[x]} /\ h[x] \notin Image(U)
      BY <3>1
    <3>5. IsFiniteSet(Image(U))
      <4>1. PICK V : V = U
        OBVIOUS
      <4>2. [y \in V |-> h[y]] \in Surjection(V, {h[y] : y \in V})
        BY DEF Surjection
      <4>3. IsFiniteSet(V)
        BY <3>2, <4>1
      <4>4. IsFiniteSet({h[y] : y \in V})
        BY <4>2, <4>3, FS_Surjection
      <4>5. QED
        BY <4>1, <4>4
    <3>6. \A z \in Image(U) \cup {h[x]} : e[z] \in Int
      BY <3>1, <3>2
    <3>7. SumOver(f, U) = SumOver(e, Image(U))
      BY <3>2
    <3>8. e[h[x]] = f[x]
      BY <3>1
    <3> HIDE DEF x, U, Image
    <3>9. SumOver(e, Image(T)) = e[h[x]] + SumOver(e, Image(U))
      <4>1. PICK V : V = Image(U)
        OBVIOUS
      <4>2. PICK z : z = h[x]
        OBVIOUS
      <4>3. SumOver(e, V \cup {z}) = e[z] + SumOver(e, V)
        BY <3>4, <3>5, <3>6, <4>1, <4>2, SumAdd
      <4>4. QED
        BY <3>4, <4>1, <4>2, <4>3
    <3>10. QED
      BY <3>3, <3>7, <3>8, <3>9
  <2>3. QED
    BY <2>1, <2>2
<1> HIDE DEF P
<1>2. S \in P
  BY <1>1, SubsetInduction
<1>3. QED
  BY <1>2 DEF P

\* The sum of positive numbers is positive.
LEMMA SumIsPositive ==
  ASSUME NEW S, IsFiniteSet(S), S # {}, NEW f, \A x \in S : f[x] \in Int /\ f[x] > 0
  PROVE  SumOver(f, S) > 0
<1>1. PICK x \in S : TRUE
  OBVIOUS
<1>2. SumOver(f, S) = f[x] + SumOver(f, S \ {x})
  BY SumRemove
<1>3. IsFiniteSet(S \ {x})
  BY FS_Subset
<1>4. \A y \in S \ {x} : f[y] \in Nat
  OBVIOUS
<1>5. PICK rest \in Nat : rest = SumOver(f, S \ {x})
  BY <1>3, <1>4, SumIsNat
<1>6. f[x] \in Int /\ f[x] > 0
  OBVIOUS
<1>7. QED
  BY <1>2, <1>5, <1>6

\* A set has as many members as the sum of a one for each.
LEMMA SumOfOnes ==
  ASSUME NEW S, IsFiniteSet(S), NEW f, \A x \in S : f[x] = 1
  PROVE  SumOver(f, S) = Cardinality(S)
<1> DEFINE P == {T \in SUBSET S : SumOver(f, T) = Cardinality(T)}
<1>1. ASSUME NEW T \in SUBSET S, \A U \in SUBSET T : U # T => U \in P
      PROVE  T \in P
  <2>1. CASE T = {}
    BY <2>1, SumOfNone, FS_EmptySet
  <2>2. CASE T # {}
    <3>1. PICK x \in T : TRUE
      BY <2>2
    <3>2. PICK U : U = T \ {x}
      OBVIOUS
    <3>3. IsFiniteSet(T) /\ U \in SUBSET T /\ U # T
      BY <3>2, FS_Subset
    <3>4. SumOver(f, U) = Cardinality(U)
      BY <1>1, <3>3
    <3>5. SumOver(f, T) = f[x] + SumOver(f, U)
      <4>1. \A y \in T : f[y] \in Int
        OBVIOUS
      <4>2. QED
        BY <3>2, <3>3, <4>1, SumRemove
    <3>6. Cardinality(U) = Cardinality(T) - 1 /\ Cardinality(T) \in Nat
      BY <3>2, <3>3, FS_RemoveElement, FS_CardinalityType
    <3>7. f[x] = 1
      OBVIOUS
    <3>8. SumOver(f, T) = Cardinality(T)
      BY <3>4, <3>5, <3>6, <3>7
    <3>9. QED
      BY <3>8
  <2>3. QED
    BY <2>1, <2>2
<1> HIDE DEF P
<1>2. S \in P
  BY <1>1, SubsetInduction
<1>3. QED
  BY <1>2 DEF P

\* A multiple of f less a multiple of g.
Linear(S, f, g, c, d) == [x \in S |-> c * f[x] - d * g[x]]

\* The sum of a multiple less a multiple.
LEMMA SumLinear ==
  ASSUME NEW S, IsFiniteSet(S), NEW f, NEW g, \A x \in S : f[x] \in Int /\ g[x] \in Int,
         NEW c \in Int, NEW d \in Int
  PROVE  SumOver(Linear(S, f, g, c, d), S) = c * SumOver(f, S) - d * SumOver(g, S)
<1>0. PICK h : h = Linear(S, f, g, c, d) /\ h = [x \in S |-> c * f[x] - d * g[x]]
  BY DEF Linear
<1> DEFINE P == {T \in SUBSET S : SumOver(h, T) = c * SumOver(f, T) - d * SumOver(g, T)}
<1>1. ASSUME NEW T \in SUBSET S, \A U \in SUBSET T : U # T => U \in P
      PROVE  T \in P
  <2>1. CASE T = {}
    <3>1. c * 0 - d * 0 = 0
      OBVIOUS
    <3>2. SumOver(h, {}) = 0 /\ SumOver(f, {}) = 0 /\ SumOver(g, {}) = 0
      BY SumOfNone
    <3>3. QED
      BY <2>1, <3>1, <3>2
  <2>2. CASE T # {}
    <3>1. PICK x \in T : TRUE
      BY <2>2
    <3>2. PICK U : U = T \ {x}
      OBVIOUS
    <3>3. IsFiniteSet(T) /\ U \in SUBSET T /\ U # T /\ IsFiniteSet(U)
      BY <3>2, FS_Subset
    <3>4. SumOver(h, U) = c * SumOver(f, U) - d * SumOver(g, U)
      BY <1>1, <3>3
    <3>5. \A y \in T : f[y] \in Int /\ g[y] \in Int /\ h[y] \in Int
      BY <1>0
    <3>6. /\ SumOver(f, T) = f[x] + SumOver(f, U) /\ SumOver(g, T) = g[x] + SumOver(g, U)
          /\ SumOver(h, T) = h[x] + SumOver(h, U)
      BY <3>2, <3>3, <3>5, SumRemove
    <3>7. \A y \in U : f[y] \in Int /\ g[y] \in Int
      BY <3>3
    <3>8. PICK F \in Int : F = SumOver(f, U)
      BY <3>3, <3>7, SumIsInt
    <3>9. PICK G \in Int : G = SumOver(g, U)
      BY <3>3, <3>7, SumIsInt
    <3>10. PICK u \in Int : u = f[x]
      OBVIOUS
    <3>11. PICK v \in Int : v = g[x]
      OBVIOUS
    <3>12. h[x] = c * u - d * v
      BY <1>0, <3>10, <3>11
    <3>13. (c * u - d * v) + (c * F - d * G) = c * (u + F) - d * (v + G)
      BY Z3
    <3>14. SumOver(h, T) = c * SumOver(f, T) - d * SumOver(g, T)
      BY <3>4, <3>6, <3>8, <3>9, <3>10, <3>11, <3>12, <3>13
    <3>15. QED
      BY <3>14
  <2>3. QED
    BY <2>1, <2>2
<1> HIDE DEF P
<1>2. S \in P
  BY <1>1, SubsetInduction
<1>3. SumOver(h, S) = c * SumOver(f, S) - d * SumOver(g, S)
  BY <1>2 DEF P
<1>4. QED
  BY <1>0, <1>3

\* A sum is that of the sums over the classes of its summands.
LEMMA SumByClass ==
  ASSUME NEW S, IsFiniteSet(S), NEW f, \A x \in S : f[x] \in Int,
         NEW K, IsFiniteSet(K), NEW class, \A x \in S : class[x] \in K,
         NEW part, \A k \in K : part[k] = {x \in S : class[x] = k},
         NEW e, \A k \in K : e[k] = SumOver(f, part[k])
  PROVE  SumOver(e, K) = SumOver(f, S)
<1> DEFINE Of(T) == {x \in S : class[x] \in T}
           P == {T \in SUBSET K : SumOver(e, T) = SumOver(f, Of(T))}
<1>1. ASSUME NEW k \in K
      PROVE  e[k] \in Int
  <2>1. PICK R : R = part[k] /\ R = {x \in S : class[x] = k}
    OBVIOUS
  <2>2. R \in SUBSET S /\ IsFiniteSet(R)
    BY <2>1, FS_Subset
  <2>3. \A x \in R : f[x] \in Int
    BY <2>2
  <2>4. SumOver(f, R) \in Int
    BY <2>2, <2>3, SumIsInt
  <2>5. QED
    BY <2>1, <2>4
<1>2. ASSUME NEW T \in SUBSET K, \A U \in SUBSET T : U # T => U \in P
      PROVE  T \in P
  <2>1. CASE T = {}
    <3>1. Of(T) = {}
      BY <2>1
    <3>2. QED
      BY <2>1, <3>1, SumOfNone
  <2>2. CASE T # {}
    <3>1. PICK k \in T : TRUE
      BY <2>2
    <3>2. PICK U : U = T \ {k}
      OBVIOUS
    <3>3. IsFiniteSet(T) /\ U \in SUBSET T /\ U # T
      BY <3>2, FS_Subset
    <3>4. SumOver(e, U) = SumOver(f, Of(U))
      BY <1>2, <3>3
    <3>5. PICK A : A = Of(U)
      OBVIOUS
    <3>6. PICK B : B = part[k] /\ B = {x \in S : class[x] = k}
      OBVIOUS
    <3>7. A \cap B = {} /\ A \cup B = Of(T) /\ A \subseteq S /\ B \subseteq S
      BY <3>1, <3>2, <3>5, <3>6
    <3>8. IsFiniteSet(A) /\ IsFiniteSet(B) /\ \A x \in A \cup B : f[x] \in Int
      BY <3>7, FS_Subset
    <3>9. SumOver(f, A \cup B) = SumOver(f, A) + SumOver(f, B)
      BY <3>7, <3>8, SumUnion
    <3>10. e[k] = SumOver(f, B)
      BY <3>1, <3>6
    <3>11. \A j \in T : e[j] \in Int
      BY <1>1
    <3>12. SumOver(e, T) = e[k] + SumOver(e, U)
      BY <3>1, <3>2, <3>3, <3>11, SumRemove
    <3>13. SumOver(f, A) \in Int /\ SumOver(f, B) \in Int
      BY <3>8, SumIsInt
    <3>14. SumOver(e, T) = SumOver(f, A \cup B)
      BY <3>4, <3>5, <3>9, <3>10, <3>12, <3>13
    <3>15. SumOver(e, T) = SumOver(f, Of(T))
      BY <3>7, <3>14
    <3>16. QED
      BY <3>15
  <2>3. QED
    BY <2>1, <2>2
<1> HIDE DEF P
<1>3. K \in P
  BY <1>2, SubsetInduction
<1>4. Of(K) = S
  OBVIOUS
<1>5. SumOver(e, K) = SumOver(f, Of(K))
  BY <1>3 DEF P
<1>6. QED
  BY <1>4, <1>5
=============================================================================
