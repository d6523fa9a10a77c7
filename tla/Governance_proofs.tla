-------------------------- MODULE Governance_proofs --------------------------
(***************************************************************************)
(* Proofs about the gates, for any supports, attestations and verdicts in  *)
(* circulation, any policy the gates accept, and any bounds on time and on *)
(* what a caller collects.                                                 *)
(***************************************************************************)
EXTENDS Governance, FiniteSetTheorems, SequenceTheorems, TLAPS

-----------------------------------------------------------------------------
(* Numbers: intervals, least and greatest members, and the induction over  *)
(* 0 .. n that every loop below needs.                                     *)

LEMMA WithoutGapIsInterval ==
  ASSUME NEW n \in Nat, NEW S \in SUBSET Nat, IsFiniteSet(S),
         \A s \in S : s >= n /\ n .. s \subseteq S
  PROVE  S = n .. n + Cardinality(S) - 1
<1> DEFINE c == Cardinality(S)
<1>1. c \in Nat
  BY FS_CardinalityType
<1> HIDE DEF c
<1>2. PICK k \in n .. n + c : k \notin S
  <2>1. Cardinality(n .. n + c) = c + 1
    BY <1>1, FS_Interval
  <2>2. n .. n + c \subseteq S => Cardinality(n .. n + c) <= c
    BY FS_Subset DEF c
  <2> QED
    BY <1>1, <2>1, <2>2
<1>3. ASSUME NEW s \in S
      PROVE  s \in n .. n + c - 1
  <2>1. s \in Nat /\ s >= n /\ (k <= s => k \in S)
    OBVIOUS
  <2> QED
    BY <1>1, <1>2, <2>1
<1>4. IsFiniteSet(n .. n + c - 1) /\ Cardinality(n .. n + c - 1) = c
  BY <1>1, FS_Interval
<1>5. S \in SUBSET (n .. n + c - 1)
  BY <1>3
<1> QED
  BY <1>4, <1>5, FS_Subset DEF c

LEMMA UpToN ==
  ASSUME NEW n \in Nat, NEW S, 0 \in S, \A k \in 0 .. n - 1 : k \in S => k + 1 \in S
  PROVE  \A k \in 0 .. n : k \in S
<1> DEFINE D == {k \in 0 .. n : 0 .. k \subseteq S}
           c == Cardinality(D)
<1>1. D \in SUBSET (0 .. n) /\ D \in SUBSET Nat /\ IsFiniteSet(D) /\ c \in Nat
  <2>1. IsFiniteSet(0 .. n) /\ D \in SUBSET (0 .. n)
    BY FS_Interval
  <2> HIDE DEF D
  <2>2. IsFiniteSet(D)
    BY <2>1, FS_Subset
  <2>3. c \in Nat
    BY <2>2, FS_CardinalityType
  <2> QED BY <2>1, <2>2, <2>3
<1>2. D = 0 .. 0 + c - 1
  <2>1. \A k \in D : k >= 0 /\ 0 .. k \subseteq D
    OBVIOUS
  <2> HIDE DEF D
  <2> QED BY <1>1, <2>1, WithoutGapIsInterval
<1>3. 0 \in D
  OBVIOUS
<1>4. c >= 1
  <2> HIDE DEF D, c
  <2> QED BY <1>1, <1>2, <1>3
<1>5. ASSUME c <= n PROVE FALSE
  <2>1. c - 1 \in D /\ c \notin D
    <3> HIDE DEF D, c
    <3> QED BY <1>1, <1>2, <1>4
  <2>2. c - 1 \in 0 .. n - 1 /\ 0 .. c - 1 \subseteq S
    <3>1. 0 .. c - 1 \subseteq S
      BY <2>1
    <3> HIDE DEF D, c
    <3> QED BY <1>1, <1>4, <1>5, <3>1
  <2> HIDE DEF c
  <2>3. c - 1 \in S
    BY <1>1, <1>4, <2>2
  <2>4. c \in S
    BY <1>1, <2>2, <2>3
  <2>5. 0 .. c \subseteq S
    BY <1>1, <2>2, <2>4
  <2> QED BY <1>1, <1>5, <2>1, <2>5
<1>6. n \in D
  <2> HIDE DEF D, c
  <2> QED BY <1>1, <1>2, <1>5
<1> QED BY <1>6

-----------------------------------------------------------------------------
(* Finite orders.  R is a strict order, as a set of pairs.                 *)

StrictOrder(R, S) ==
  /\ \A x \in S : <<x, x>> \notin R
  /\ \A x, y, z \in S : <<x, y>> \in R /\ <<y, z>> \in R => <<x, z>> \in R
  /\ \A x, y \in S : x = y \/ <<x, y>> \in R \/ <<y, x>> \in R

Before(R, S, x) == {y \in S : <<y, x>> \in R}

\* In a finite order every place is taken, by one element.
LEMMA Places ==
  ASSUME NEW S, IsFiniteSet(S), NEW R, StrictOrder(R, S)
  PROVE  /\ Cardinality(S) \in Nat
         /\ \A k \in 0 .. Cardinality(S) - 1 : \E x \in S : Cardinality(Before(R, S, x)) = k
         /\ \A x \in S : IsFiniteSet(Before(R, S, x))
                         /\ Cardinality(Before(R, S, x)) \in 0 .. Cardinality(S) - 1
         /\ \A x, y \in S : Cardinality(Before(R, S, x)) = Cardinality(Before(R, S, y)) => x = y
<1> DEFINE n == Cardinality(S)
           place(x) == Cardinality(Before(R, S, x))
<1>1. n \in Nat
  BY FS_CardinalityType
<1>2. ASSUME NEW x \in S
      PROVE  IsFiniteSet(Before(R, S, x)) /\ place(x) \in 0 .. n - 1
  <2>1. Before(R, S, x) \in SUBSET S /\ x \notin Before(R, S, x)
    BY DEF Before, StrictOrder
  <2>2. /\ IsFiniteSet(Before(R, S, x)) /\ place(x) \in Nat /\ place(x) <= n
        /\ n # place(x)
    BY <2>1, FS_Subset, FS_CardinalityType
  <2> HIDE DEF n, place
  <2> QED BY <1>1, <2>2
<1>3. ASSUME NEW x \in S, NEW y \in S, <<x, y>> \in R PROVE place(x) < place(y)
  <2>1. /\ Before(R, S, x) \in SUBSET Before(R, S, y)
        /\ x \in Before(R, S, y) /\ x \notin Before(R, S, x)
    BY <1>3 DEF Before, StrictOrder
  <2>2. place(x) <= place(y) /\ place(x) # place(y)
    BY <1>2, <2>1, FS_Subset
  <2>3. place(x) \in Nat /\ place(y) \in Nat
    BY <1>2, FS_CardinalityType
  <2> HIDE DEF place
  <2> QED BY <2>2, <2>3
<1>4. \A x, y \in S : place(x) = place(y) => x = y
  <2> SUFFICES ASSUME NEW x \in S, NEW y \in S, place(x) = place(y) PROVE x = y
    OBVIOUS
  <2>1. place(x) \in Nat
    BY <1>2, FS_CardinalityType
  <2>2. (<<x, y>> \in R => place(x) < place(y)) /\ (<<y, x>> \in R => place(y) < place(x))
    BY <1>3
  <2> HIDE DEF place
  <2>3. <<x, y>> \notin R /\ <<y, x>> \notin R
    BY <2>1, <2>2
  <2> QED BY <2>3 DEF StrictOrder
<1>5. \A k \in 0 .. n - 1 : \E x \in S : place(x) = k
  <2> DEFINE places == [x \in S |-> place(x)]
  <2>1. \A x \in S : place(x) \in 0 .. n - 1
    BY <1>2
  <2> HIDE DEF place, n
  <2>2. places \in Injection(S, 0 .. n - 1)
    BY <1>4, <2>1 DEF Injection, IsInjective
  <2>3. IsFiniteSet(0 .. n - 1) /\ Cardinality(0 .. n - 1) = n
    BY <1>1, FS_Interval
  <2>4. places \in Surjection(S, 0 .. n - 1)
    BY <2>2, <2>3, FS_Injection DEF n
  <2> QED BY <2>4 DEF Surjection
<1> QED BY <1>1, <1>2, <1>4, <1>5

\* A finite order that is not empty has a first element.
LEMMA FirstOf ==
  ASSUME NEW S, IsFiniteSet(S), S # {}, NEW R, StrictOrder(R, S)
  PROVE  \E m \in S : \A x \in S \ {m} : <<m, x>> \in R
<1>1. Cardinality(S) \in Nat /\ Cardinality(S) # 0
  BY FS_CardinalityType, FS_EmptySet
<1>2. PICK m \in S : Cardinality(Before(R, S, m)) = 0
  BY <1>1, Places
<1>3. Before(R, S, m) = {}
  BY <1>2, Places, FS_EmptySet
<1> QED BY <1>3 DEF Before, StrictOrder

LEMMA LeastNumber ==
  ASSUME NEW S \in SUBSET Int, IsFiniteSet(S), S # {}
  PROVE  Min(S) \in S /\ \A x \in S : Min(S) <= x
<1> DEFINE R == {p \in S \X S : p[1] < p[2]}
<1>1. StrictOrder(R, S)
  BY DEF StrictOrder
<1> HIDE DEF R
<1>2. PICK m \in S : \A x \in S \ {m} : <<m, x>> \in R
  BY <1>1, FirstOf
<1>3. \A x \in S \ {m} : <<m, x>>[1] < <<m, x>>[2]
  BY <1>2 DEF R
<1>4. \A x \in S : m <= x
  BY <1>3
<1> QED BY <1>4 DEF Min

LEMMA GreatestNumber ==
  ASSUME NEW S \in SUBSET Int, IsFiniteSet(S), S # {}
  PROVE  Max(S) \in S /\ \A x \in S : x <= Max(S)
<1> DEFINE R == {p \in S \X S : p[2] < p[1]}
<1>1. StrictOrder(R, S)
  BY DEF StrictOrder
<1> HIDE DEF R
<1>2. PICK m \in S : \A x \in S \ {m} : <<m, x>> \in R
  BY <1>1, FirstOf
<1>3. \A x \in S \ {m} : <<m, x>>[2] < <<m, x>>[1]
  BY <1>2 DEF R
<1>4. \A x \in S : x <= m
  BY <1>3
<1> QED BY <1>4 DEF Max
-----------------------------------------------------------------------------
(* Loops: f[k] is what a loop has after k rounds.                          *)

Runs(f, S, a, n, step) ==
  /\ f \in [0 .. n -> S] /\ f[0] = a
  /\ \A k \in 1 .. n : f[k] = step[k][f[k - 1]]

LEMMA LoopRuns ==
  ASSUME NEW S, NEW a \in S, NEW n \in Nat, NEW step \in [1 .. n -> [S -> S]]
  PROVE  \E f : Runs(f, S, a, n, step)
<1> DEFINE D == {k \in 0 .. n : \E f : Runs(f, S, a, k, step)}
<1>1. 0 \in D
  <2>1. Runs([k \in 0 .. 0 |-> a], S, a, 0, step)
    BY DEF Runs
  <2> QED BY <2>1
<1>2. ASSUME NEW k \in 0 .. n - 1, k \in D PROVE k + 1 \in D
  <2>1. PICK f : Runs(f, S, a, k, step)
    BY <1>2
  <2> DEFINE last == step[k + 1][f[k]]
             more == [i \in 0 .. k + 1 |-> IF i = k + 1 THEN last ELSE f[i]]
  <2>2. k \in Nat /\ k + 1 \in 1 .. n /\ k + 1 \in 0 .. n
    OBVIOUS
  <2>3. /\ \A i \in 0 .. k : f[i] \in S
        /\ f[0] = a /\ \A i \in 1 .. k : f[i] = step[i][f[i - 1]]
    BY <2>1 DEF Runs
  <2>4. last \in S
    BY <2>2, <2>3
  <2> HIDE DEF last
  <2>5. more \in [0 .. k + 1 -> S]
    BY <2>2, <2>3, <2>4
  <2>6. (\A i \in 0 .. k : more[i] = f[i]) /\ more[k + 1] = last
    BY <2>2
  <2> HIDE DEF more
  <2>7. ASSUME NEW i \in 1 .. k + 1 PROVE more[i] = step[i][more[i - 1]]
    <3>1. CASE i = k + 1
      <4>1. more[i - 1] = f[k]
        BY <2>2, <2>6, <3>1
      <4> QED BY <2>6, <3>1, <4>1 DEF last
    <3>2. CASE i # k + 1
      <4>1. i \in 1 .. k /\ i \in 0 .. k /\ i - 1 \in 0 .. k
        BY <2>2, <3>2
      <4> QED BY <2>3, <2>6, <4>1
    <3> QED BY <3>1, <3>2
  <2>8. more[0] = a
    BY <2>2, <2>3, <2>6
  <2>9. Runs(more, S, a, k + 1, step)
    BY <2>5, <2>7, <2>8 DEF Runs
  <2> QED BY <2>2, <2>9
<1> HIDE DEF D
<1>3. \A k \in 0 .. n : k \in D
  BY <1>1, <1>2, UpToN
<1> QED BY <1>3 DEF D
-----------------------------------------------------------------------------
(* Effective support.                                                      *)

Supporters == [agentId : Nat, sourceIds : SUBSET STRING, lineage : ModelLineage]

\* A list of supporters, as a function of numbers that stand for its order.
ListOf(supports, T) ==
  /\ IsFiniteSet(DOMAIN supports) /\ DOMAIN supports \subseteq Nat
  /\ \A i \in DOMAIN supports : supports[i] \in T

LEMMA SharedSourcesBounds ==
  ASSUME NEW a, NEW b, IsFiniteSet(a.sourceIds), IsFiniteSet(b.sourceIds)
  PROVE  SharedSources(a, b) \in Nat
<1> DEFINE n == Cardinality(a.sourceIds \cup b.sourceIds)
           m == Cardinality(a.sourceIds \cap b.sourceIds)
<1>1. IsFiniteSet(a.sourceIds \cup b.sourceIds)
  BY FS_Union
<1>2. n \in Nat /\ m \in Nat
  BY <1>1, FS_CardinalityType, FS_Intersection
<1>3. CASE a.sourceIds \cup b.sourceIds # {}
  <2>1. n # 0
    BY <1>1, <1>3, FS_EmptySet
  <2>2. SharedSources(a, b) = (180 * m) \div n
    BY <1>3 DEF SharedSources, SourceJaccard
  <2> HIDE DEF n, m
  <2>3. n \in Nat \ {0} /\ 180 * m \in Nat
    BY <1>2, <2>1
  <2>4. \A x \in Nat, y \in Nat \ {0} : x \div y \in Nat
    OBVIOUS
  <2> QED BY <2>2, <2>3, <2>4
<1> QED BY <1>3 DEF SharedSources

LEMMA PairBounds ==
  ASSUME NEW a, NEW b, IsFiniteSet(a.sourceIds), IsFiniteSet(b.sourceIds)
  PROVE  /\ PairIndependence(a, b) \in 0 .. Whole
         /\ a.lineage.modelId = b.lineage.modelId => PairIndependence(a, b) = 0
<1> DEFINE same(field, weight) == IF a.lineage[field] = b.lineage[field] THEN weight ELSE 0
           penalty == same("provider", SameProvider) + same("arch", SameArch)
                      + same("sizeClass", SameSize)
                      + (IF a.lineage.accuracyBand = NoBand THEN 0
                         ELSE same("accuracyBand", SameAccuracyBand))
                      + SharedSources(a, b)
<1>1. penalty \in Nat
  <2>1. SharedSources(a, b) \in Nat
    BY SharedSourcesBounds
  <2>2. \A f : same(f, SameProvider) \in Nat /\ same(f, SameArch) \in Nat
              /\ same(f, SameSize) \in Nat /\ same(f, SameAccuracyBand) \in Nat
    BY DEF SameProvider, SameArch, SameSize, SameAccuracyBand
  <2> HIDE DEF same
  <2> QED BY <2>1, <2>2
<1>2. PairIndependence(a, b) = IF a.lineage.modelId = b.lineage.modelId THEN 0
                               ELSE Max({0, Whole - penalty})
  BY DEF PairIndependence
<1> HIDE DEF penalty
<1>3. Max({0, Whole - penalty}) \in 0 .. Whole
  <2> DEFINE S == {0, Whole - penalty}
  <2>1. S \in SUBSET Int /\ S # {} /\ 0 \in S
    BY <1>1 DEF Whole
  <2>2. IsFiniteSet({0}) /\ S = {0} \cup {Whole - penalty}
    BY FS_Singleton
  <2>3. IsFiniteSet(S)
    BY <2>2, FS_AddElement
  <2>4. Max(S) \in S /\ 0 <= Max(S)
    <3> HIDE DEF S
    <3> QED BY <2>1, <2>3, GreatestNumber
  <2> QED BY <1>1, <2>4 DEF Whole
<1> QED BY <1>2, <1>3 DEF Whole

LEMMA GainBounds ==
  ASSUME NEW supports, \A i \in DOMAIN supports : IsFiniteSet(supports[i].sourceIds),
         NEW chosen \in SUBSET DOMAIN supports, NEW i \in DOMAIN supports
  PROVE  /\ Gain(supports, chosen, i) \in 0 .. Whole
         /\ \A j \in chosen : supports[i].lineage.modelId = supports[j].lineage.modelId =>
              Gain(supports, chosen, i) = 0
<1>1. CASE chosen = {}
  BY <1>1 DEF Gain, Whole
<1>2. CASE chosen # {}
  <2> DEFINE S == {PairIndependence(supports[i], supports[j]) : j \in chosen}
  <2>1. \A j \in chosen :
          /\ PairIndependence(supports[i], supports[j]) \in 0 .. Whole
          /\ supports[i].lineage.modelId = supports[j].lineage.modelId =>
               PairIndependence(supports[i], supports[j]) = 0
    BY PairBounds
  <2>2. S \in SUBSET (0 .. Whole) /\ S # {}
    BY <1>2, <2>1
  <2>3. Whole \in Int
    BY DEF Whole
  <2>0. IsFiniteSet(0 .. Whole) /\ 0 .. Whole \subseteq Int
    BY <2>3, FS_Interval
  <2>4. Gain(supports, chosen, i) = Min(S)
    BY <1>2 DEF Gain
  <2>5. \A j \in chosen : supports[i].lineage.modelId = supports[j].lineage.modelId => 0 \in S
    BY <2>1
  <2> HIDE DEF S
  <2>6. IsFiniteSet(S) /\ S \in SUBSET Int
    BY <2>0, <2>2, FS_Subset
  <2>7. Min(S) \in S /\ \A x \in S : Min(S) <= x
    BY <2>2, <2>6, LeastNumber
  <2>8. Min(S) \in 0 .. Whole
    BY <2>2, <2>7
  <2>9. 0 \in S => Min(S) = 0
    BY <2>3, <2>7, <2>8
  <2> QED BY <2>4, <2>5, <2>8, <2>9
<1> QED BY <1>1, <1>2

\* Agent ids and positions order a list.
LEMMA PrecedesOrders ==
  ASSUME NEW supports, NEW D, D \subseteq Nat, \A i \in D : supports[i].agentId \in Nat
  PROVE  /\ \A i \in D : ~Precedes(supports, i, i)
         /\ \A i, j, k \in D : Precedes(supports, i, j) /\ Precedes(supports, j, k) =>
              Precedes(supports, i, k)
         /\ \A i, j \in D : i = j \/ Precedes(supports, i, j) \/ Precedes(supports, j, i)
<1>1. \A i \in D : ~Precedes(supports, i, i)
  BY DEF Precedes
<1>2. ASSUME NEW i \in D, NEW j \in D, NEW k \in D,
             Precedes(supports, i, j), Precedes(supports, j, k)
      PROVE  Precedes(supports, i, k)
  <2>1. /\ supports[i].agentId \in Nat /\ supports[j].agentId \in Nat /\ supports[k].agentId \in Nat
        /\ i \in Nat /\ j \in Nat /\ k \in Nat
    OBVIOUS
  <2> QED BY <1>2, <2>1 DEF Precedes
<1>3. ASSUME NEW i \in D, NEW j \in D, i # j
      PROVE  Precedes(supports, i, j) \/ Precedes(supports, j, i)
  <2>1. supports[i].agentId \in Nat /\ supports[j].agentId \in Nat /\ i \in Nat /\ j \in Nat
    OBVIOUS
  <2> QED BY <1>3, <2>1 DEF Precedes
<1> QED BY <1>1, <1>2, <1>3

LEMMA NextIsThere ==
  ASSUME NEW supports, IsFiniteSet(DOMAIN supports), DOMAIN supports \subseteq Nat,
         \A i \in DOMAIN supports : supports[i].agentId \in Nat /\ IsFiniteSet(supports[i].sourceIds),
         NEW chosen \in SUBSET DOMAIN supports, chosen # DOMAIN supports
  PROVE  NextSupporter(supports, chosen) \in DOMAIN supports \ chosen
<1> DEFINE rest == DOMAIN supports \ chosen
           gain(i) == Gain(supports, chosen, i)
           R == {p \in rest \X rest : \/ gain(p[1]) > gain(p[2])
                                      \/ gain(p[1]) = gain(p[2]) /\ Precedes(supports, p[1], p[2])}
<1>1. rest # {} /\ IsFiniteSet(rest) /\ rest \subseteq Nat
  BY FS_Difference
<1>2. \A i \in rest : gain(i) \in Int
  BY GainBounds DEF Whole
<1>3. /\ \A i \in rest : ~Precedes(supports, i, i)
      /\ \A i, j, k \in rest : Precedes(supports, i, j) /\ Precedes(supports, j, k) =>
           Precedes(supports, i, k)
      /\ \A i, j \in rest : i = j \/ Precedes(supports, i, j) \/ Precedes(supports, j, i)
  BY PrecedesOrders
<1>4. \A i, j \in rest : <<i, j>> \in R <=>
        gain(i) > gain(j) \/ (gain(i) = gain(j) /\ Precedes(supports, i, j))
  OBVIOUS
<1>5. NextSupporter(supports, chosen) = CHOOSE i \in rest : \A j \in rest \ {i} :
        gain(i) > gain(j) \/ (gain(i) = gain(j) /\ Precedes(supports, i, j))
  BY DEF NextSupporter
<1> HIDE DEF R, rest, gain
<1>6. StrictOrder(R, rest)
  <2>1. \A i \in rest : <<i, i>> \notin R
    BY <1>2, <1>3, <1>4
  <2>2. \A i, j, k \in rest : <<i, j>> \in R /\ <<j, k>> \in R => <<i, k>> \in R
    <3> SUFFICES ASSUME NEW i \in rest, NEW j \in rest, NEW k \in rest,
                        <<i, j>> \in R, <<j, k>> \in R
                 PROVE  <<i, k>> \in R
      OBVIOUS
    <3>1. gain(i) \in Int /\ gain(j) \in Int /\ gain(k) \in Int
      BY <1>2
    <3>2. /\ gain(i) > gain(j) \/ (gain(i) = gain(j) /\ Precedes(supports, i, j))
          /\ gain(j) > gain(k) \/ (gain(j) = gain(k) /\ Precedes(supports, j, k))
      BY <1>4
    <3>3. Precedes(supports, i, j) /\ Precedes(supports, j, k) => Precedes(supports, i, k)
      BY <1>3
    <3>4. gain(i) > gain(k) \/ (gain(i) = gain(k) /\ Precedes(supports, i, k))
      BY <3>1, <3>2, <3>3
    <3> QED BY <1>4, <3>4
  <2>3. \A i, j \in rest : i = j \/ <<i, j>> \in R \/ <<j, i>> \in R
    <3> SUFFICES ASSUME NEW i \in rest, NEW j \in rest, i # j
                 PROVE  <<i, j>> \in R \/ <<j, i>> \in R
      OBVIOUS
    <3>1. gain(i) \in Int /\ gain(j) \in Int
          /\ (Precedes(supports, i, j) \/ Precedes(supports, j, i))
      BY <1>2, <1>3
    <3> QED BY <1>4, <3>1
  <2> QED BY <2>1, <2>2, <2>3 DEF StrictOrder
<1>7. PICK i \in rest : \A j \in rest \ {i} : <<i, j>> \in R
  <2>1. rest # {} /\ IsFiniteSet(rest)
    BY <1>1
  <2> QED BY <1>6, <2>1, FirstOf
<1>8. \E k \in rest : \A j \in rest \ {k} :
        gain(k) > gain(j) \/ (gain(k) = gain(j) /\ Precedes(supports, k, j))
  BY <1>4, <1>7
<1>9. NextSupporter(supports, chosen) \in rest
  BY <1>5, <1>8, Zenon
<1> QED BY <1>9 DEF rest

LEMMA ImageOf ==
  ASSUME NEW S, IsFiniteSet(S), NEW g
  PROVE  /\ IsFiniteSet({g[x] : x \in S})
         /\ Cardinality({g[x] : x \in S}) \in 0 .. Cardinality(S)
<1> DEFINE T == {g[x] : x \in S}
           h == [x \in S |-> g[x]]
<1>1. h \in Surjection(S, T)
  BY DEF Surjection
<1> HIDE DEF T, h
<1>2. IsFiniteSet(T) /\ Cardinality(T) <= Cardinality(S)
  BY <1>1, FS_Surjection
<1>3. Cardinality(T) \in Nat /\ Cardinality(S) \in Nat
  BY <1>2, FS_CardinalityType
<1>4. Cardinality(T) \in 0 .. Cardinality(S)
  BY <1>2, <1>3
<1> QED BY <1>2, <1>4 DEF T

\* The models that some of the supporters run.
ModelsOf(supports, some) == {supports[i].lineage.modelId : i \in some}

LEMMA ModelsFinite ==
  ASSUME NEW supports, NEW some, IsFiniteSet(some)
  PROVE  /\ IsFiniteSet(ModelsOf(supports, some))
         /\ Cardinality(ModelsOf(supports, some)) \in 0 .. Cardinality(some)
<1> DEFINE g == [i \in some |-> supports[i].lineage.modelId]
<1>1. ModelsOf(supports, some) = {g[i] : i \in some}
  BY DEF ModelsOf
<1> HIDE DEF g
<1> QED BY <1>1, ImageOf

\* One more round of effectiveSupport: who is chosen, and the total.
Round(supports, prior) ==
  [chosen |-> prior.chosen \cup {NextSupporter(supports, prior.chosen)},
   total |-> prior.total + Gain(supports, prior.chosen, NextSupporter(supports, prior.chosen))]

\* After k rounds k supporters are chosen, and each model counts once.
Counting(supports, prior, k) ==
  /\ prior.chosen \in SUBSET DOMAIN supports /\ Cardinality(prior.chosen) = k
  /\ prior.total \in 0 .. Whole * Cardinality(ModelsOf(supports, prior.chosen))

LEMMA AnotherRound ==
  ASSUME NEW supports, IsFiniteSet(DOMAIN supports), DOMAIN supports \subseteq Nat,
         \A i \in DOMAIN supports : supports[i].agentId \in Nat /\ IsFiniteSet(supports[i].sourceIds),
         NEW k \in 0 .. Cardinality(DOMAIN supports) - 1, NEW prior, Counting(supports, prior, k)
  PROVE  Counting(supports, Round(supports, prior), k + 1)
<1> DEFINE next == NextSupporter(supports, prior.chosen)
           models == ModelsOf(supports, prior.chosen)
           more == ModelsOf(supports, prior.chosen \cup {next})
           gain == Gain(supports, prior.chosen, next)
<1>1. /\ prior.chosen \in SUBSET DOMAIN supports /\ IsFiniteSet(prior.chosen)
      /\ Cardinality(prior.chosen) = k /\ k \in Nat /\ k # Cardinality(DOMAIN supports)
  <2>1. Cardinality(DOMAIN supports) \in Nat
    BY FS_CardinalityType
  <2>2. prior.chosen \in SUBSET DOMAIN supports /\ Cardinality(prior.chosen) = k
    BY DEF Counting
  <2>3. IsFiniteSet(prior.chosen)
    BY <2>2, FS_Subset
  <2>4. k \in Nat /\ k # Cardinality(DOMAIN supports)
    BY <2>1
  <2> QED BY <2>2, <2>3, <2>4
<1>2. next \in DOMAIN supports \ prior.chosen
  BY <1>1, NextIsThere
<1>3. /\ gain \in 0 .. Whole
      /\ (\E j \in prior.chosen : supports[next].lineage.modelId = supports[j].lineage.modelId) =>
           gain = 0
  BY <1>1, <1>2, GainBounds
<1> HIDE DEF next
<1>4. more = models \cup {supports[next].lineage.modelId}
  BY DEF ModelsOf
<1>5. supports[next].lineage.modelId \in models => gain = 0
  BY <1>3 DEF ModelsOf
<1>6. IsFiniteSet(models)
  BY <1>1, ModelsFinite
<1>7. Cardinality(models) \in Nat
  BY <1>6, FS_CardinalityType
<1>8. Cardinality(more) = IF supports[next].lineage.modelId \in models THEN Cardinality(models)
                          ELSE Cardinality(models) + 1
  BY <1>4, <1>6, FS_AddElement
<1>9. prior.total \in 0 .. Whole * Cardinality(models)
  BY DEF Counting
<1> HIDE DEF gain, models, more
<1>10. prior.total + gain \in 0 .. Whole * Cardinality(more)
  <2>1. Whole \in Nat
    BY DEF Whole
  <2> DEFINE m == Cardinality(models)
  <2>2. 1200 * (m + 1) = 1200 * m + 1200
    BY <1>7
  <2>3. prior.total \in 0 .. 1200 * m /\ gain \in 0 .. 1200
    BY <1>3, <1>9 DEF Whole
  <2> HIDE DEF m
  <2>4. prior.total + gain \in 0 .. 1200 * m + 1200
    BY <1>7, <2>3 DEF m
  <2>5. gain = 0 => prior.total + gain \in 0 .. 1200 * m
    BY <2>3
  <2> QED BY <1>5, <1>8, <2>2, <2>4, <2>5 DEF Whole, m
<1>11. Cardinality(prior.chosen \cup {next}) = k + 1
  BY <1>1, <1>2, FS_AddElement
<1> QED BY <1>1, <1>2, <1>10, <1>11 DEF Counting, Round, next, gain, more

LEMMA SupportCounted ==
  ASSUME NEW supports, IsFiniteSet(DOMAIN supports), DOMAIN supports \subseteq Nat,
         \A i \in DOMAIN supports : supports[i].agentId \in Nat /\ IsFiniteSet(supports[i].sourceIds)
  PROVE  EffectiveSupport(supports)
           \in 0 .. Whole * Cardinality(ModelsOf(supports, DOMAIN supports))
<1> DEFINE D == DOMAIN supports
           n == Cardinality(D)
           start == [chosen |-> {}, total |-> 0]
           eqn(f, k) == IF k = 0 THEN [chosen |-> {}, total |-> 0]
                        ELSE LET prior == f[k - 1]
                                 next == NextSupporter(supports, prior.chosen)
                             IN [chosen |-> prior.chosen \cup {next},
                                 total |-> prior.total + Gain(supports, prior.chosen, next)]
           after == CHOOSE f : f = [k \in 0 .. n |-> eqn(f, k)]
           States == [chosen : SUBSET D, total : Int]
           go(st) == IF Cardinality(st.chosen) \in 0 .. n - 1 THEN Round(supports, st) ELSE st
           step == [k \in 1 .. n |-> [st \in States |-> go(st)]]
<1>1. n \in Nat
  BY FS_CardinalityType
<1>2. EffectiveSupport(supports) = after[n].total
  BY DEF EffectiveSupport
<1>3. start \in States
  OBVIOUS
<1>4. \A st \in States : go(st) \in States
  <2> SUFFICES ASSUME NEW st \in States, Cardinality(st.chosen) \in 0 .. n - 1
               PROVE  Round(supports, st) \in States
    OBVIOUS
  <2>1. st.chosen \in SUBSET D /\ st.total \in Int
    OBVIOUS
  <2>2. st.chosen # D
    BY <1>1
  <2>3. NextSupporter(supports, st.chosen) \in D \ st.chosen
    BY <2>1, <2>2, NextIsThere
  <2>4. Gain(supports, st.chosen, NextSupporter(supports, st.chosen)) \in Int
    <3> DEFINE next == NextSupporter(supports, st.chosen)
    <3>1. next \in DOMAIN supports /\ st.chosen \in SUBSET DOMAIN supports
      BY <2>1, <2>3
    <3> HIDE DEF next
    <3>2. Gain(supports, st.chosen, next) \in 0 .. Whole
      BY <3>1, GainBounds
    <3> QED BY <3>2 DEF Whole, next
  <2> QED BY <2>1, <2>3, <2>4 DEF Round
<1> HIDE DEF go, States, start
<1>5. step \in [1 .. n -> [States -> States]]
  BY <1>4
<1> HIDE DEF step, n
<1>6. PICK f : Runs(f, States, start, n, step)
  BY <1>1, <1>3, <1>5, LoopRuns
<1>7. /\ f[0] = start /\ \A k \in 0 .. n : f[k] \in States
      /\ f = [k \in 0 .. n |-> f[k]]
      /\ \A k \in 0 .. n - 1 : f[k + 1] = go(f[k])
  <2>1. f \in [0 .. n -> States] /\ f[0] = start /\ \A k \in 1 .. n : f[k] = step[k][f[k - 1]]
    BY <1>6 DEF Runs
  <2>2. \A k \in 0 .. n - 1 : k \in 0 .. n /\ k + 1 \in 1 .. n /\ (k + 1) - 1 = k
    BY <1>1
  <2>3. \A k \in 1 .. n, st \in States : step[k][st] = go(st)
    BY DEF step
  <2>4. ASSUME NEW k \in 0 .. n - 1 PROVE f[k + 1] = go(f[k])
    <3>1. f[k + 1] = step[k + 1][f[k]] /\ f[k] \in States /\ k + 1 \in 1 .. n
      BY <2>1, <2>2
    <3> QED BY <2>3, <3>1
  <2> QED BY <2>1, <2>4
<1>8. \A k \in 0 .. n : Counting(supports, f[k], k)
  <2> DEFINE T == {k \in 0 .. n : Counting(supports, f[k], k)}
  <2>1. 0 \in T
    <3>1. f[0].chosen = {} /\ f[0].total = 0
      BY <1>7 DEF start
    <3>2. Cardinality({}) = 0 /\ IsFiniteSet({})
      BY FS_EmptySet
    <3>3. Cardinality(ModelsOf(supports, {})) = 0
      BY <3>2 DEF ModelsOf
    <3>4. Whole * 0 = 0
      BY DEF Whole
    <3>5. 0 \in 0 .. 0
      OBVIOUS
    <3>6. Counting(supports, f[0], 0)
      BY <3>1, <3>2, <3>3, <3>4, <3>5 DEF Counting
    <3> QED BY <1>1, <3>6
  <2>2. ASSUME NEW k \in 0 .. n - 1, k \in T PROVE k + 1 \in T
    <3>1. Cardinality(f[k].chosen) = k
      BY <2>2 DEF Counting
    <3>2. f[k + 1] = Round(supports, f[k])
      BY <1>7, <3>1 DEF go
    <3>3. Counting(supports, Round(supports, f[k]), k + 1)
      BY <2>2, AnotherRound DEF n
    <3>4. k + 1 \in 0 .. n
      BY <1>1
    <3> QED BY <3>2, <3>3, <3>4
  <2> HIDE DEF T
  <2>3. \A k \in 0 .. n : k \in T
    BY <1>1, <2>1, <2>2, UpToN
  <2> QED BY <2>3 DEF T
<1>9. \A k \in 0 .. n : f[k] = eqn(f, k)
  <2> SUFFICES ASSUME NEW k \in 0 .. n PROVE f[k] = eqn(f, k)
    OBVIOUS
  <2>1. CASE k = 0
    BY <1>7, <2>1 DEF start
  <2>2. CASE k # 0
    <3>1. k - 1 \in 0 .. n - 1 /\ k - 1 \in 0 .. n /\ (k - 1) + 1 = k
      BY <1>1, <2>2
    <3>2. f[k] = go(f[k - 1]) /\ Cardinality(f[k - 1].chosen) = k - 1
      BY <1>7, <1>8, <3>1 DEF Counting
    <3>3. f[k] = Round(supports, f[k - 1])
      BY <3>1, <3>2 DEF go
    <3> QED BY <2>2, <3>3 DEF Round
  <2> QED BY <2>1, <2>2
<1> HIDE DEF eqn
<1>10. f = [k \in 0 .. n |-> eqn(f, k)]
  BY <1>7, <1>9
<1>11. after = [k \in 0 .. n |-> eqn(after, k)]
  BY <1>10
<1> HIDE DEF after
<1>12. \A k \in 0 .. n : after[k] = f[k]
  <2> DEFINE T == {k \in 0 .. n : after[k] = f[k]}
  <2>0. \A k \in 0 .. n : after[k] = eqn(after, k)
    BY <1>11
  <2>1. 0 \in T
    <3>1. after[0] = eqn(after, 0) /\ f[0] = eqn(f, 0) /\ 0 \in 0 .. n
      BY <1>1, <1>9, <2>0
    <3> QED BY <3>1 DEF eqn
  <2>2. ASSUME NEW k \in 0 .. n - 1, k \in T PROVE k + 1 \in T
    <3>1. k + 1 \in 0 .. n /\ k + 1 # 0 /\ (k + 1) - 1 = k
      BY <1>1
    <3>2. after[k + 1] = eqn(after, k + 1) /\ f[k + 1] = eqn(f, k + 1) /\ after[k] = f[k]
      BY <1>9, <2>0, <2>2, <3>1
    <3>3. eqn(after, k + 1) = eqn(f, k + 1)
      BY <3>1, <3>2 DEF eqn
    <3> QED BY <3>1, <3>2, <3>3
  <2> HIDE DEF T
  <2>3. \A k \in 0 .. n : k \in T
    BY <1>1, <2>1, <2>2, UpToN
  <2> QED BY <2>3 DEF T
<1>13. n \in 0 .. n
  BY <1>1
<1>14. Counting(supports, after[n], n)
  BY <1>8, <1>12, <1>13
<1>15. after[n].chosen = D
  <2>1. after[n].chosen \in SUBSET D /\ Cardinality(after[n].chosen) = n
    BY <1>14 DEF Counting
  <2> QED BY <2>1, FS_Subset DEF n
<1> QED BY <1>2, <1>14, <1>15 DEF Counting
-----------------------------------------------------------------------------
(* Branch and bound.                                                       *)

\* X comes before Y, as sets of agent ids.
Earlier(X, Y) == SymDiff(X, Y) # {} /\ Min(SymDiff(X, Y)) \in X

LEMMA EarlierIs ==
  ASSUME NEW X \in SUBSET Nat, NEW Y \in SUBSET Nat, IsFiniteSet(X), IsFiniteSet(Y)
  PROVE  Earlier(X, Y) <=> \E d \in X \ Y : \A e \in Nat : e < d => (e \in X <=> e \in Y)
<1> DEFINE D == SymDiff(X, Y)
<1>1. \A e : e \in D <=> (e \in X <=> e \notin Y) /\ (e \in X \/ e \in Y)
  BY DEF SymDiff
<1>2. D \in SUBSET Nat /\ D \in SUBSET (X \cup Y)
  BY DEF SymDiff
<1>3. IsFiniteSet(X \cup Y)
  BY FS_Union
<1> HIDE DEF D
<1>4. IsFiniteSet(D) /\ D \in SUBSET Int
  <2>1. IsFiniteSet(D)
    BY <1>2, <1>3, FS_Subset
  <2> QED BY <1>2, <2>1
<1>5. D # {} => Min(D) \in D /\ \A x \in D : Min(D) <= x
  BY <1>4, LeastNumber
<1>6. ASSUME D # {}, Min(D) \in X
      PROVE  \E d \in X \ Y : \A e \in Nat : e < d => (e \in X <=> e \in Y)
  <2>1. Min(D) \in X \ Y
    BY <1>1, <1>5, <1>6
  <2>2. ASSUME NEW e \in Nat, e < Min(D) PROVE e \in X <=> e \in Y
    <3>1. e \notin D
      <4>1. Min(D) \in Nat /\ \A x \in D : Min(D) <= x
        BY <1>2, <1>5, <1>6
      <4> QED BY <2>2, <4>1
    <3> QED BY <1>1, <3>1
  <2> QED BY <2>1, <2>2
<1>7. ASSUME NEW d \in X \ Y, \A e \in Nat : e < d => (e \in X <=> e \in Y)
      PROVE  D # {} /\ Min(D) \in X
  <2>1. d \in D /\ d \in Nat
    BY <1>1
  <2>2. Min(D) \in Nat /\ Min(D) <= d /\ Min(D) \in D
    BY <1>2, <1>5, <2>1
  <2>3. Min(D) < d => FALSE
    BY <1>1, <1>7, <2>2
  <2>4. Min(D) = d
    BY <2>1, <2>2, <2>3
  <2> QED BY <2>1, <2>4
<1> QED BY <1>6, <1>7 DEF Earlier, D

LEMMA EarlierOrders ==
  ASSUME NEW N \in SUBSET Nat, IsFiniteSet(N)
  PROVE  /\ \A X \in SUBSET N : ~Earlier(X, X)
         /\ \A X, Y \in SUBSET N : Earlier(X, Y) => ~Earlier(Y, X)
         /\ \A X, Y \in SUBSET N : X = Y \/ Earlier(X, Y) \/ Earlier(Y, X)
         /\ \A X, Y, Z \in SUBSET N : ~Earlier(X, Y) /\ ~Earlier(Y, Z) => ~Earlier(X, Z)
<1>0. \A X, Y \in SUBSET N :
        Earlier(X, Y) <=> \E d \in X \ Y : \A e \in Nat : e < d => (e \in X <=> e \in Y)
  <2> SUFFICES ASSUME NEW X \in SUBSET N, NEW Y \in SUBSET N
               PROVE  Earlier(X, Y) <=> \E d \in X \ Y : \A e \in Nat : e < d => (e \in X <=> e \in Y)
    OBVIOUS
  <2>1. IsFiniteSet(X) /\ IsFiniteSet(Y) /\ X \in SUBSET Nat /\ Y \in SUBSET Nat
    BY FS_Subset
  <2> QED BY <2>1, EarlierIs
<1>1. \A X \in SUBSET N : ~Earlier(X, X)
  BY <1>0
<1>2. \A X, Y \in SUBSET N : Earlier(X, Y) => ~Earlier(Y, X)
  <2> SUFFICES ASSUME NEW X \in SUBSET N, NEW Y \in SUBSET N, Earlier(X, Y), Earlier(Y, X) PROVE FALSE
    OBVIOUS
  <2>1. PICK d \in X \ Y : \A e \in Nat : e < d => (e \in X <=> e \in Y)
    BY <1>0
  <2>2. PICK c \in Y \ X : \A e \in Nat : e < c => (e \in X <=> e \in Y)
    BY <1>0
  <2>3. c \in Nat /\ d \in Nat /\ c # d
    BY <2>1, <2>2
  <2> QED BY <2>1, <2>2, <2>3
<1>3. \A X, Y \in SUBSET N : X = Y \/ Earlier(X, Y) \/ Earlier(Y, X)
  <2> SUFFICES ASSUME NEW X \in SUBSET N, NEW Y \in SUBSET N, X # Y
               PROVE  Earlier(X, Y) \/ Earlier(Y, X)
    OBVIOUS
  <2>1. SymDiff(X, Y) # {} /\ SymDiff(X, Y) \in SUBSET Int /\ SymDiff(X, Y) \in SUBSET N
        /\ SymDiff(X, Y) = SymDiff(Y, X) /\ SymDiff(X, Y) \subseteq X \cup Y
    BY DEF SymDiff
  <2>2. Min(SymDiff(X, Y)) \in SymDiff(X, Y)
    BY <2>1, FS_Subset, LeastNumber
  <2> QED BY <2>1, <2>2 DEF Earlier
<1>4. \A X, Y, Z \in SUBSET N : Earlier(Y, X) /\ Earlier(Z, Y) => Earlier(Z, X)
  <2> SUFFICES ASSUME NEW X \in SUBSET N, NEW Y \in SUBSET N, NEW Z \in SUBSET N,
                      Earlier(Y, X), Earlier(Z, Y)
               PROVE  Earlier(Z, X)
    OBVIOUS
  <2>1. PICK d \in Y \ X : \A e \in Nat : e < d => (e \in X <=> e \in Y)
    BY <1>0
  <2>2. PICK c \in Z \ Y : \A e \in Nat : e < c => (e \in Z <=> e \in Y)
    BY <1>0
  <2>3. c \in Nat /\ d \in Nat /\ c # d
    BY <2>1, <2>2
  <2>4. CASE c < d
    <3>1. c \in Z \ X
      BY <2>1, <2>2, <2>3, <2>4
    <3>2. \A e \in Nat : e < c => (e \in Z <=> e \in X)
      BY <2>1, <2>2, <2>3, <2>4
    <3> QED BY <1>0, <3>1, <3>2
  <2>5. CASE d < c
    <3>1. d \in Z \ X
      BY <2>1, <2>2, <2>3, <2>5
    <3>2. \A e \in Nat : e < d => (e \in Z <=> e \in X)
      BY <2>1, <2>2, <2>3, <2>5
    <3> QED BY <1>0, <3>1, <3>2
  <2> QED BY <2>3, <2>4, <2>5
<1>5. \A X, Y, Z \in SUBSET N : ~Earlier(X, Y) /\ ~Earlier(Y, Z) => ~Earlier(X, Z)
  <2> SUFFICES ASSUME NEW X \in SUBSET N, NEW Y \in SUBSET N, NEW Z \in SUBSET N,
                      ~Earlier(X, Y), ~Earlier(Y, Z), Earlier(X, Z)
               PROVE  FALSE
    OBVIOUS
  <2>1. X = Y \/ Earlier(Y, X)
    BY <1>3
  <2>2. Y = Z \/ Earlier(Z, Y)
    BY <1>3
  <2>3. X = Z \/ Earlier(Z, X)
    BY <1>4, <2>1, <2>2
  <2> QED BY <1>1, <1>2, <2>3
<1> QED BY <1>1, <1>2, <1>3, <1>5

\* Supports a gate can choose from.
Electorate(T) == IsFiniteSet(T) /\ \A s \in T : s.agentId \in Nat

LEMMA ScoreIsNumber ==
  ASSUME NEW X, IsFiniteSet(X)
  PROVE  Cardinality(X) \in Nat /\ Score(X) \in Nat
<1> DEFINE P == {p \in X \X (1 .. 100) : p[2] <= p[1].calibration}
<1>1. IsFiniteSet(1 .. 100)
  <2> DEFINE a == 1
             b == 100
  <2>1. a \in Int /\ b \in Int
    OBVIOUS
  <2> HIDE DEF a, b
  <2>2. IsFiniteSet(a .. b)
    BY <2>1, FS_Interval
  <2> QED BY <2>2 DEF a, b
<1>2. IsFiniteSet(X \X (1 .. 100))
  BY <1>1, FS_Product
<1>3. P \in SUBSET (X \X (1 .. 100))
  OBVIOUS
<1> HIDE DEF P
<1>4. IsFiniteSet(P)
  BY <1>2, <1>3, FS_Subset
<1>5. Cardinality(P) \in Nat /\ Cardinality(X) \in Nat
  BY <1>4, FS_CardinalityType
<1> QED BY <1>5 DEF Score, P

LEMMA BetterOrders ==
  ASSUME NEW T, Electorate(T)
  PROVE  /\ \A X, Y \in SUBSET T : Better(X, Y) => ~Better(Y, X)
         /\ \A X, Y, Z \in SUBSET T : ~Better(X, Y) /\ ~Better(Y, Z) => ~Better(X, Z)
<1>1. \A X \in SUBSET T : Cardinality(X) \in Nat /\ Score(X) \in Nat
  BY FS_Subset, ScoreIsNumber DEF Electorate
<1>2. \A X, Y \in SUBSET T : Better(X, Y) <=>
        \/ Cardinality(X) > Cardinality(Y)
        \/ /\ Cardinality(X) = Cardinality(Y)
           /\ \/ Score(X) > Score(Y)
              \/ Score(X) = Score(Y) /\ Earlier(AgentsOf(X), AgentsOf(Y))
  BY DEF Better, Earlier
<1>3. /\ AgentsOf(T) \in SUBSET Nat /\ IsFiniteSet(AgentsOf(T))
      /\ \A X \in SUBSET T : AgentsOf(X) \in SUBSET AgentsOf(T)
  <2> DEFINE g == [s \in T |-> s.agentId]
  <2>1. AgentsOf(T) = {g[s] : s \in T}
    BY DEF AgentsOf
  <2>2. IsFiniteSet(T)
    BY DEF Electorate
  <2> HIDE DEF g
  <2>3. IsFiniteSet(AgentsOf(T))
    BY <2>1, <2>2, ImageOf
  <2> QED BY <2>3 DEF AgentsOf, Electorate
<1>4. /\ \A X, Y \in SUBSET T : Earlier(AgentsOf(X), AgentsOf(Y)) => ~Earlier(AgentsOf(Y), AgentsOf(X))
      /\ \A X, Y, Z \in SUBSET T :
           ~Earlier(AgentsOf(X), AgentsOf(Y)) /\ ~Earlier(AgentsOf(Y), AgentsOf(Z)) =>
             ~Earlier(AgentsOf(X), AgentsOf(Z))
  BY <1>3, EarlierOrders
<1>5. ASSUME NEW X \in SUBSET T, NEW Y \in SUBSET T, Better(X, Y) PROVE ~Better(Y, X)
  <2>1. Cardinality(X) \in Nat /\ Score(X) \in Nat /\ Cardinality(Y) \in Nat /\ Score(Y) \in Nat
    BY <1>1
  <2> QED BY <1>2, <1>4, <1>5, <2>1
<1>6. ASSUME NEW X \in SUBSET T, NEW Y \in SUBSET T, NEW Z \in SUBSET T,
             ~Better(X, Y), ~Better(Y, Z)
      PROVE  ~Better(X, Z)
  <2>1. /\ Cardinality(X) \in Nat /\ Score(X) \in Nat /\ Cardinality(Y) \in Nat /\ Score(Y) \in Nat
        /\ Cardinality(Z) \in Nat /\ Score(Z) \in Nat
    BY <1>1
  <2> QED BY <1>2, <1>4, <1>6, <2>1
<1> QED BY <1>5, <1>6

\* The supports that are left when the last `left` have not been looked at.
Remaining(supports, left) ==
  {Candidate(supports, Cardinality(DOMAIN supports) + 1 - k) : k \in 1 .. left}

\* The supports in the order of agent ids.
LEMMA CandidatesCover ==
  ASSUME NEW supports, IsFiniteSet(DOMAIN supports), DOMAIN supports \subseteq Nat,
         \A i \in DOMAIN supports : supports[i].agentId \in Nat
  PROVE  /\ \A k \in 1 .. Cardinality(DOMAIN supports) : Candidate(supports, k) \in Range(supports)
         /\ Range(supports) \subseteq Remaining(supports, Cardinality(DOMAIN supports))
<1> DEFINE D == DOMAIN supports
           n == Cardinality(D)
           R == {p \in D \X D : Precedes(supports, p[1], p[2])}
           at(k) == CHOOSE i \in D : Cardinality({j \in D : Precedes(supports, j, i)}) = k - 1
<1>1. \A i, j \in D : <<i, j>> \in R <=> Precedes(supports, i, j)
  OBVIOUS
<1>2. StrictOrder(R, D)
  <2>1. /\ \A i \in D : ~Precedes(supports, i, i)
        /\ \A i, j, k \in D : Precedes(supports, i, j) /\ Precedes(supports, j, k) =>
             Precedes(supports, i, k)
        /\ \A i, j \in D : i = j \/ Precedes(supports, i, j) \/ Precedes(supports, j, i)
    BY PrecedesOrders
  <2> HIDE DEF R, D
  <2> QED BY <1>1, <2>1 DEF StrictOrder
<1>3. \A i \in D : Before(R, D, i) = {j \in D : Precedes(supports, j, i)}
  BY DEF Before
<1>4. /\ n \in Nat
      /\ \A k \in 0 .. n - 1 : \E i \in D : Cardinality(Before(R, D, i)) = k
      /\ \A i \in D : Cardinality(Before(R, D, i)) \in 0 .. n - 1
      /\ \A i, j \in D : Cardinality(Before(R, D, i)) = Cardinality(Before(R, D, j)) => i = j
  <2> HIDE DEF R
  <2> QED BY <1>2, Places
<1>5. \A k : Candidate(supports, k) = supports[at(k)]
  BY DEF Candidate
<1> HIDE DEF R, n
<1>6. ASSUME NEW k \in 1 .. n
      PROVE  at(k) \in D /\ Cardinality(Before(R, D, at(k))) = k - 1
  <2>1. k - 1 \in 0 .. n - 1
    BY <1>4
  <2>2. \E i \in D : Cardinality({j \in D : Precedes(supports, j, i)}) = k - 1
    BY <1>3, <1>4, <2>1
  <2>3. at(k) \in D /\ Cardinality({j \in D : Precedes(supports, j, at(k))}) = k - 1
    BY <2>2, Zenon
  <2> HIDE DEF at
  <2> QED BY <1>3, <2>3
<1> HIDE DEF at
<1>7. \A k \in 1 .. n : Candidate(supports, k) \in Range(supports)
  BY <1>5, <1>6 DEF Range
<1>8. ASSUME NEW i \in D PROVE supports[i] \in Remaining(supports, n)
  <2> DEFINE b == Cardinality(Before(R, D, i))
  <2>1. b \in 0 .. n - 1
    BY <1>4
  <2> HIDE DEF b
  <2>2. b + 1 \in 1 .. n /\ (b + 1) - 1 = b /\ n - b \in 1 .. n /\ n + 1 - (n - b) = b + 1
    BY <1>4, <2>1
  <2>3. at(b + 1) = i
    BY <1>4, <1>6, <2>2 DEF b
  <2>4. Candidate(supports, b + 1) = supports[i]
    BY <1>5, <2>3
  <2>5. \E k \in 1 .. n : Candidate(supports, n + 1 - k) = supports[i]
    BY <2>2, <2>4
  <2> QED BY <2>5 DEF Remaining, n
<1> QED BY <1>7, <1>8 DEF Range, n

\* What visit does with one more support to look at.
Visiting(supports, before, left, chosen, best) ==
  LET candidate == Candidate(supports, Cardinality(DOMAIN supports) + 1 - left)
      taken == IF \A other \in chosen : SupportsAreIndependent(candidate, other)
               THEN before[chosen \cup {candidate}][best]
               ELSE best
  IN IF Cut(Cardinality(chosen), left, Cardinality(best)) THEN best ELSE before[chosen][taken]

\* f[left] is what visit does when `left` supports are left.
VisitRun(supports, f) ==
  \A left \in 0 .. Cardinality(DOMAIN supports),
    chosen \in SUBSET Range(supports), best \in SUBSET Range(supports) :
      /\ f[left][chosen][best] \in SUBSET Range(supports)
      /\ f[left][chosen][best] =
           IF left # 0 THEN Visiting(supports, f[left - 1], left, chosen, best)
           ELSE IF ~Cut(Cardinality(chosen), 0, Cardinality(best)) /\ Better(chosen, best)
           THEN chosen ELSE best

LEMMA VisitsByLoop ==
  ASSUME NEW supports, IsFiniteSet(DOMAIN supports), DOMAIN supports \subseteq Nat,
         \A i \in DOMAIN supports : supports[i].agentId \in Nat
  PROVE  \E f : /\ VisitRun(supports, f)
               /\ IndependentSupportSet(supports) = f[Cardinality(DOMAIN supports)][{}][{}]
<1> DEFINE n == Cardinality(DOMAIN supports)
           all == Range(supports)
           States == [SUBSET all -> [SUBSET all -> SUBSET all]]
           leaf == [chosen \in SUBSET all |-> [best \in SUBSET all |->
                     IF Cut(Cardinality(chosen), 0, Cardinality(best)) THEN best
                     ELSE IF Better(chosen, best) THEN chosen ELSE best]]
           step == [k \in 1 .. n |-> [before \in States |->
                     [chosen \in SUBSET all |-> [best \in SUBSET all |->
                        Visiting(supports, before, k, chosen, best)]]]]
           eqn(visit, left) ==
             [chosen \in SUBSET all |-> [best \in SUBSET all |->
               IF Cut(Cardinality(chosen), left, Cardinality(best)) THEN best
               ELSE IF left = 0 THEN IF Better(chosen, best) THEN chosen ELSE best
               ELSE LET candidate == Candidate(supports, n + 1 - left)
                        taken == IF \A other \in chosen : SupportsAreIndependent(candidate, other)
                                 THEN visit[left - 1][chosen \cup {candidate}][best]
                                 ELSE best
                    IN visit[left - 1][chosen][taken]]]
           visits == CHOOSE visit : visit = [left \in 0 .. n |-> eqn(visit, left)]
<1>1. n \in Nat
  BY FS_CardinalityType
<1>2. IndependentSupportSet(supports) = visits[n][{}][{}]
  BY DEF IndependentSupportSet
<1>3. \A k \in 1 .. n : Candidate(supports, k) \in all
  BY CandidatesCover
<1>4. leaf \in States
  OBVIOUS
<1>5. ASSUME NEW k \in 1 .. n, NEW before \in States,
             NEW chosen \in SUBSET all, NEW best \in SUBSET all
      PROVE  Visiting(supports, before, k, chosen, best) \in SUBSET all
  <2>1. n + 1 - k \in 1 .. n
    BY <1>1
  <2>2. chosen \cup {Candidate(supports, n + 1 - k)} \in SUBSET all
    BY <1>3, <2>1
  <2>3. \A c, b \in SUBSET all : before[c][b] \in SUBSET all
    OBVIOUS
  <2> HIDE DEF States, all
  <2> QED BY <2>2, <2>3 DEF Visiting
<1>6. step \in [1 .. n -> [States -> States]]
  <2> HIDE DEF n, all
  <2> QED BY <1>5
<1> HIDE DEF leaf, step, States, n, all
<1>7. PICK f : Runs(f, States, leaf, n, step)
  BY <1>1, <1>4, <1>6, LoopRuns
<1>8. /\ f[0] = leaf /\ \A left \in 0 .. n : f[left] \in States
      /\ f = [left \in 0 .. n |-> f[left]]
      /\ \A left \in 1 .. n : left - 1 \in 0 .. n /\ f[left] = step[left][f[left - 1]]
  <2>1. \A left \in 1 .. n : left - 1 \in 0 .. n
    BY <1>1
  <2> QED BY <1>7, <2>1 DEF Runs
<1>9. ASSUME NEW left \in 1 .. n
      PROVE  /\ f[left] = [chosen \in SUBSET all |-> [best \in SUBSET all |->
                             Visiting(supports, f[left - 1], left, chosen, best)]]
             /\ left # 0 /\ left - 1 \in 0 .. n
  <2>1. f[left - 1] \in States /\ left # 0
    BY <1>1, <1>8
  <2> QED BY <1>8, <2>1 DEF step
<1>10. \A left \in 0 .. n : left = 0 \/ left \in 1 .. n
  BY <1>1
<1>11. \A left \in 0 .. n : f[left] = eqn(f, left)
  <2> SUFFICES ASSUME NEW left \in 0 .. n PROVE f[left] = eqn(f, left)
    OBVIOUS
  <2>1. CASE left = 0
    BY <1>8, <2>1 DEF leaf
  <2>2. CASE left \in 1 .. n
    <3>1. left # 0 /\ f[left] = [chosen \in SUBSET all |-> [best \in SUBSET all |->
                                  Visiting(supports, f[left - 1], left, chosen, best)]]
      BY <1>9, <2>2
    <3> QED BY <3>1 DEF Visiting, n
  <2> QED BY <1>10, <2>1, <2>2
<1> HIDE DEF eqn
<1>12. f = [left \in 0 .. n |-> eqn(f, left)]
  BY <1>8, <1>11
<1>13. visits = [left \in 0 .. n |-> eqn(visits, left)]
  BY <1>12
<1> HIDE DEF visits
<1>14. visits[n] = f[n]
  <2> DEFINE T == {k \in 0 .. n : visits[k] = f[k]}
  <2>0. \A k \in 0 .. n : visits[k] = eqn(visits, k)
    BY <1>13
  <2>1. 0 \in T
    <3>1. visits[0] = eqn(visits, 0) /\ f[0] = eqn(f, 0) /\ 0 \in 0 .. n
      BY <1>1, <1>11, <2>0
    <3> QED BY <3>1 DEF eqn
  <2>2. ASSUME NEW k \in 0 .. n - 1, k \in T PROVE k + 1 \in T
    <3>1. k + 1 \in 0 .. n /\ k + 1 # 0 /\ (k + 1) - 1 = k
      BY <1>1
    <3>2. visits[k + 1] = eqn(visits, k + 1) /\ f[k + 1] = eqn(f, k + 1) /\ visits[k] = f[k]
      BY <1>11, <2>0, <2>2, <3>1
    <3>3. eqn(visits, k + 1) = eqn(f, k + 1)
      BY <3>1, <3>2 DEF eqn
    <3> QED BY <3>1, <3>2, <3>3
  <2> HIDE DEF T
  <2>3. \A k \in 0 .. n : k \in T
    BY <1>1, <2>1, <2>2, UpToN
  <2> QED BY <1>1, <2>3 DEF T
<1>15. ASSUME NEW left \in 0 .. n, NEW chosen \in SUBSET all, NEW best \in SUBSET all
       PROVE  /\ f[left][chosen][best] \in SUBSET all
              /\ f[left][chosen][best] =
                   IF left # 0 THEN Visiting(supports, f[left - 1], left, chosen, best)
                   ELSE IF ~Cut(Cardinality(chosen), 0, Cardinality(best)) /\ Better(chosen, best)
                   THEN chosen ELSE best
  <2>1. f[left][chosen][best] \in SUBSET all
    BY <1>8 DEF States
  <2>2. CASE left = 0
    BY <1>8, <2>1, <2>2 DEF leaf
  <2>3. CASE left \in 1 .. n
    <3>1. /\ f[left] = [c \in SUBSET all |-> [b \in SUBSET all |->
                          Visiting(supports, f[left - 1], left, c, b)]]
          /\ left # 0
      BY <1>9, <2>3
    <3>2. f[left][chosen] = [b \in SUBSET all |-> Visiting(supports, f[left - 1], left, chosen, b)]
      BY <3>1
    <3>3. f[left][chosen][best] = Visiting(supports, f[left - 1], left, chosen, best)
      BY <3>2
    <3> QED BY <2>1, <3>1, <3>3
  <2> QED BY <1>10, <2>2, <2>3
<1>16. VisitRun(supports, f)
  BY <1>15 DEF VisitRun, n, all
<1>17. IndependentSupportSet(supports) = f[n][{}][{}]
  BY <1>2, <1>14
<1> QED BY <1>16, <1>17 DEF n

\* The independent sets that can be reached from those chosen.
Reachable(supports, left, chosen) ==
  {set \in SUBSET Range(supports) :
     /\ chosen \subseteq set /\ set \subseteq chosen \cup Remaining(supports, left)
     /\ PairwiseIndependent(set)}

\* What visit returns is no worse than the best so far and than any set in reach.
Bound(supports, left, chosen, best, found) ==
  /\ found = best \/ found \in Reachable(supports, left, chosen)
  /\ ~Better(best, found)
  /\ \A set \in Reachable(supports, left, chosen) : ~Better(set, found)

LEMMA IndependentSets ==
  ASSUME NEW c, NEW S, PairwiseIndependent(S)
  PROVE  /\ (\A other \in S : SupportsAreIndependent(c, other)) => PairwiseIndependent(S \cup {c})
         /\ \A T : c \in T /\ S \subseteq T /\ c \notin S /\ PairwiseIndependent(T) =>
              \A other \in S : SupportsAreIndependent(c, other)
BY DEF PairwiseIndependent, SupportsAreIndependent

LEMMA ReachIsBounded ==
  ASSUME NEW supports, IsFiniteSet(Range(supports)), NEW left \in Nat,
         NEW chosen \in SUBSET Range(supports)
  PROVE  /\ Cardinality(chosen) \in Nat
         /\ \A set \in Reachable(supports, left, chosen) :
              Cardinality(set) \in Nat /\ Cardinality(set) <= Cardinality(chosen) + left
<1> DEFINE n == Cardinality(DOMAIN supports)
           g == [k \in 1 .. left |-> Candidate(supports, n + 1 - k)]
<1>1. Remaining(supports, left) = {g[k] : k \in 1 .. left}
  BY DEF Remaining
<1>2. IsFiniteSet(1 .. left) /\ Cardinality(1 .. left) = left
  <2> DEFINE a == 1
  <2>1. a \in Int /\ left \in Int
    OBVIOUS
  <2> HIDE DEF a
  <2>2. IsFiniteSet(a .. left) /\ Cardinality(a .. left) = IF a > left THEN 0 ELSE left - a + 1
    BY <2>1, FS_Interval
  <2> QED BY <2>2 DEF a
<1> HIDE DEF g
<1>3. IsFiniteSet(Remaining(supports, left)) /\ Cardinality(Remaining(supports, left)) \in 0 .. left
  BY <1>1, <1>2, ImageOf
<1>4. IsFiniteSet(chosen) /\ Cardinality(chosen) \in Nat
  BY FS_Subset, FS_CardinalityType
<1> DEFINE reach == chosen \cup Remaining(supports, left)
<1>5. IsFiniteSet(reach) /\ Cardinality(reach) <= Cardinality(chosen) + left /\ Cardinality(reach) \in Nat
  <2>1. /\ IsFiniteSet(reach)
        /\ Cardinality(reach) = Cardinality(chosen) + Cardinality(Remaining(supports, left))
                                - Cardinality(chosen \cap Remaining(supports, left))
    BY <1>3, <1>4, FS_Union
  <2>2. IsFiniteSet(chosen \cap Remaining(supports, left))
    BY <1>4, FS_Intersection
  <2>3. Cardinality(chosen \cap Remaining(supports, left)) \in Nat /\ Cardinality(reach) \in Nat
    BY <2>1, <2>2, FS_CardinalityType
  <2> QED BY <1>3, <1>4, <2>1, <2>3
<1>6. ASSUME NEW set \in Reachable(supports, left, chosen)
      PROVE  Cardinality(set) \in Nat /\ Cardinality(set) <= Cardinality(chosen) + left
  <2>1. set \in SUBSET reach
    BY DEF Reachable
  <2> HIDE DEF reach
  <2>2. IsFiniteSet(set) /\ Cardinality(set) <= Cardinality(reach)
    BY <1>5, <2>1, FS_Subset
  <2>3. Cardinality(set) \in Nat
    BY <2>2, FS_CardinalityType
  <2> QED BY <1>4, <1>5, <2>2, <2>3
<1> QED BY <1>4, <1>6

\* A set in reach has the next candidate, or it is in reach without it.
SplitBy(supports, k, chosen, c) ==
  /\ Reachable(supports, k, chosen) \subseteq Reachable(supports, k + 1, chosen)
  /\ Reachable(supports, k, chosen \cup {c}) \subseteq Reachable(supports, k + 1, chosen)
  /\ \A set \in Reachable(supports, k + 1, chosen) :
       \/ set \in Reachable(supports, k, chosen)
       \/ set \in Reachable(supports, k, chosen \cup {c}) /\ c \notin chosen

LEMMA ReachSplits ==
  ASSUME NEW supports, NEW k \in Nat, NEW chosen \in SUBSET Range(supports),
         NEW c, c = Candidate(supports, Cardinality(DOMAIN supports) + 1 - (k + 1)),
         c \in Range(supports)
  PROVE  SplitBy(supports, k, chosen, c)
<1>1. Remaining(supports, k + 1) = Remaining(supports, k) \cup {c}
  <2>1. 1 .. k + 1 = (1 .. k) \cup {k + 1}
    OBVIOUS
  <2> QED BY <2>1 DEF Remaining
<1>2. Remaining(supports, k) \subseteq Remaining(supports, k + 1) /\ c \in Remaining(supports, k + 1)
  BY <1>1
<1>3. ASSUME NEW set \in Reachable(supports, k + 1, chosen),
             set \notin Reachable(supports, k, chosen)
      PROVE  set \in Reachable(supports, k, chosen \cup {c}) /\ c \notin chosen
  <2>1. /\ set \in SUBSET Range(supports) /\ chosen \subseteq set /\ PairwiseIndependent(set)
        /\ set \subseteq chosen \cup Remaining(supports, k + 1)
    BY DEF Reachable
  <2>2. ~(set \subseteq chosen \cup Remaining(supports, k))
    BY <1>3, <2>1 DEF Reachable
  <2>3. c \in set /\ c \notin chosen
    BY <1>1, <2>1, <2>2
  <2>4. set \subseteq (chosen \cup {c}) \cup Remaining(supports, k)
    BY <1>1, <2>1
  <2>5. chosen \cup {c} \subseteq set
    BY <2>1, <2>3
  <2> QED BY <2>1, <2>3, <2>4, <2>5 DEF Reachable
<1>4. Reachable(supports, k, chosen) \subseteq Reachable(supports, k + 1, chosen)
  BY <1>2 DEF Reachable
<1>5. Reachable(supports, k, chosen \cup {c}) \subseteq Reachable(supports, k + 1, chosen)
  BY <1>2 DEF Reachable
<1> QED BY <1>3, <1>4, <1>5 DEF SplitBy

LEMMA VisitFindsBest ==
  ASSUME NEW supports, IsFiniteSet(DOMAIN supports), DOMAIN supports \subseteq Nat,
         \A i \in DOMAIN supports : supports[i].agentId \in Nat
  PROVE  LET found == IndependentSupportSet(supports)
             rivals == {set \in SUBSET Range(supports) : PairwiseIndependent(set)}
         IN found \in rivals /\ \A set \in rivals : ~Better(set, found)
<1> DEFINE n == Cardinality(DOMAIN supports)
           all == Range(supports)
<1>1. n \in Nat
  BY FS_CardinalityType
<1>0. PICK f : VisitRun(supports, f) /\ IndependentSupportSet(supports) = f[n][{}][{}]
  BY VisitsByLoop
<1>2. /\ IndependentSupportSet(supports) = f[n][{}][{}]
      /\ \A left \in 0 .. n, chosen \in SUBSET all, best \in SUBSET all :
           /\ f[left][chosen][best] \in SUBSET all
           /\ f[left][chosen][best] =
                IF left # 0 THEN Visiting(supports, f[left - 1], left, chosen, best)
                ELSE IF ~Cut(Cardinality(chosen), 0, Cardinality(best)) /\ Better(chosen, best)
                THEN chosen ELSE best
  BY <1>0 DEF VisitRun
<1>3. IsFiniteSet(all) /\ \A s \in all : s.agentId \in Nat
  <2>1. IsFiniteSet({supports[i] : i \in DOMAIN supports})
    BY ImageOf
  <2> QED BY <2>1 DEF Range
<1>4. Electorate(all)
  BY <1>3 DEF Electorate
<1>5. /\ \A X, Y \in SUBSET all : Better(X, Y) => ~Better(Y, X)
      /\ \A X, Y, Z \in SUBSET all : ~Better(X, Y) /\ ~Better(Y, Z) => ~Better(X, Z)
  BY <1>4, BetterOrders
<1>6. (\A k \in 1 .. n : Candidate(supports, k) \in all) /\ all \subseteq Remaining(supports, n)
  BY CandidatesCover
<1> HIDE DEF n, all
<1>7. \A left, chosen : Reachable(supports, left, chosen) \subseteq SUBSET all
  BY DEF Reachable, all
<1> DEFINE Holds(left) ==
             \A chosen, best \in SUBSET all :
               PairwiseIndependent(chosen) =>
                 Bound(supports, left, chosen, best, f[left][chosen][best])
           T == {left \in 0 .. n : Holds(left)}
<1>8. ASSUME NEW left \in 0 .. n, NEW chosen \in SUBSET all, NEW best \in SUBSET all,
             Cut(Cardinality(chosen), left, Cardinality(best))
      PROVE  Bound(supports, left, chosen, best, best)
  <2>1. /\ Cardinality(chosen) \in Nat
        /\ \A set \in Reachable(supports, left, chosen) :
             Cardinality(set) \in Nat /\ Cardinality(set) <= Cardinality(chosen) + left
    BY <1>1, <1>3, ReachIsBounded DEF all
  <2>2. Cardinality(best) \in Nat
    BY <1>3, FS_Subset, FS_CardinalityType
  <2>3. \A set \in Reachable(supports, left, chosen) : ~Better(set, best)
    <3>1. \A set \in Reachable(supports, left, chosen) : Cardinality(set) < Cardinality(best)
      BY <1>8, <2>1, <2>2 DEF Cut
    <3>2. \A set \in Reachable(supports, left, chosen) :
            ~(Cardinality(set) > Cardinality(best)) /\ Cardinality(set) # Cardinality(best)
      BY <2>1, <2>2, <3>1
    <3> QED BY <3>2 DEF Better
  <2>4. ~Better(best, best)
    BY <1>5
  <2> QED BY <2>3, <2>4 DEF Bound
<1>9. 0 \in T
  <2> SUFFICES ASSUME NEW chosen \in SUBSET all, NEW best \in SUBSET all, PairwiseIndependent(chosen)
               PROVE  Bound(supports, 0, chosen, best, f[0][chosen][best])
    BY <1>1
  <2>1. 0 \in 0 .. n
    BY <1>1
  <2>2. CASE Cut(Cardinality(chosen), 0, Cardinality(best))
    <3>1. f[0][chosen][best] = best
      BY <1>2, <2>1, <2>2
    <3> QED BY <1>8, <2>1, <2>2, <3>1
  <2>3. CASE ~Cut(Cardinality(chosen), 0, Cardinality(best))
    <3>1. f[0][chosen][best] = IF Better(chosen, best) THEN chosen ELSE best
      BY <1>2, <2>1, <2>3
    <3>2. Reachable(supports, 0, chosen) = {chosen}
      <4>1. Remaining(supports, 0) = {}
        BY DEF Remaining
      <4> QED BY <4>1 DEF Reachable, all
    <3>3. ~Better(chosen, chosen) /\ ~Better(best, best) /\ (Better(chosen, best) => ~Better(best, chosen))
      BY <1>5
    <3> QED BY <3>1, <3>2, <3>3 DEF Bound
  <2> QED BY <2>2, <2>3
<1>10. ASSUME NEW k \in 0 .. n - 1, k \in T PROVE k + 1 \in T
  <2>1. k + 1 \in 0 .. n /\ k + 1 # 0 /\ (k + 1) - 1 = k /\ k \in 0 .. n /\ k \in Nat
        /\ k + 1 \in Nat \ {0} /\ n + 1 - (k + 1) \in 1 .. n
    BY <1>1
  <2>2. Holds(k)
    BY <1>10
  <2> SUFFICES ASSUME NEW chosen \in SUBSET all, NEW best \in SUBSET all, PairwiseIndependent(chosen)
               PROVE  Bound(supports, k + 1, chosen, best, f[k + 1][chosen][best])
    BY <2>1
  <2>3. f[k + 1][chosen][best] = Visiting(supports, f[k], k + 1, chosen, best)
    BY <1>2, <2>1
  <2>4. CASE Cut(Cardinality(chosen), k + 1, Cardinality(best))
    <3>1. f[k + 1][chosen][best] = best
      BY <2>3, <2>4 DEF Visiting
    <3> QED BY <1>8, <2>1, <2>4, <3>1
  <2>5. CASE ~Cut(Cardinality(chosen), k + 1, Cardinality(best))
    <3> DEFINE c == Candidate(supports, n + 1 - (k + 1))
               with == f[k][chosen \cup {c}][best]
               fits == \A other \in chosen : SupportsAreIndependent(c, other)
               taken == IF fits THEN with ELSE best
               found == f[k][chosen][taken]
    <3>1. c \in all
      BY <1>6, <2>1
    <3>2. f[k + 1][chosen][best] = found
      BY <2>3, <2>5 DEF Visiting, n
    <3>3. /\ Reachable(supports, k, chosen) \subseteq Reachable(supports, k + 1, chosen)
          /\ Reachable(supports, k, chosen \cup {c}) \subseteq Reachable(supports, k + 1, chosen)
          /\ \A set \in Reachable(supports, k + 1, chosen) :
               \/ set \in Reachable(supports, k, chosen)
               \/ set \in Reachable(supports, k, chosen \cup {c}) /\ c \notin chosen
      <4>1. k \in Nat /\ c = Candidate(supports, Cardinality(DOMAIN supports) + 1 - (k + 1))
        BY <2>1 DEF n
      <4>2. c \in Range(supports) /\ chosen \in SUBSET Range(supports)
        BY <3>1 DEF all
      <4> HIDE DEF c
      <4>3. SplitBy(supports, k, chosen, c)
        BY <4>1, <4>2, ReachSplits
      <4> QED BY <4>3 DEF SplitBy
    <3> HIDE DEF c
    <3>4. chosen \cup {c} \in SUBSET all
      BY <3>1
    <3>5. with \in SUBSET all
      BY <1>2, <2>1, <3>4
    <3>6. fits => Bound(supports, k, chosen \cup {c}, best, with)
      BY <2>2, <3>4, IndependentSets
    <3>7. ASSUME NEW set \in Reachable(supports, k, chosen \cup {c}), c \notin chosen PROVE fits
      <4>1. c \in set /\ chosen \subseteq set /\ PairwiseIndependent(set)
        BY DEF Reachable
      <4> QED BY <3>7, <4>1, IndependentSets
    <3> HIDE DEF with, fits
    <3>8. taken \in SUBSET all
      BY <3>5
    <3>9. Bound(supports, k, chosen, taken, found)
      BY <2>2, <3>8
    <3>10. found \in SUBSET all
      BY <1>2, <2>1, <3>8
    <3> HIDE DEF found
    <3>11. found = best \/ found \in Reachable(supports, k + 1, chosen)
      BY <3>3, <3>6, <3>9 DEF Bound
    <3>12. ~Better(best, taken)
      BY <1>5, <3>6 DEF Bound
    <3>13. ~Better(best, found)
      BY <1>5, <3>8, <3>9, <3>10, <3>12 DEF Bound
    <3>14. ASSUME NEW set \in Reachable(supports, k + 1, chosen) PROVE ~Better(set, found)
      <4>1. CASE set \in Reachable(supports, k, chosen)
        BY <3>9, <4>1 DEF Bound
      <4>2. CASE set \in Reachable(supports, k, chosen \cup {c}) /\ c \notin chosen
        <5>1. fits
          BY <3>7, <4>2
        <5>2. ~Better(set, taken)
          BY <3>6, <4>2, <5>1 DEF Bound
        <5>3. ~Better(taken, found)
          BY <3>9 DEF Bound
        <5>4. set \in SUBSET all
          BY <1>7
        <5> HIDE DEF taken
        <5> QED BY <1>5, <3>8, <3>10, <5>2, <5>3, <5>4
      <4> QED BY <3>3, <4>1, <4>2
    <3> QED BY <3>2, <3>11, <3>13, <3>14 DEF Bound
  <2> QED BY <2>4, <2>5
<1> HIDE DEF T
<1>11. \A left \in 0 .. n : left \in T
  BY <1>1, <1>9, <1>10, UpToN
<1>12. n \in T
  BY <1>1, <1>11
<1>13. {} \in SUBSET all /\ PairwiseIndependent({})
  BY DEF PairwiseIndependent
<1>14. Bound(supports, n, {}, {}, f[n][{}][{}])
  BY <1>12, <1>13 DEF T
<1>15. {set \in SUBSET all : PairwiseIndependent(set)} = Reachable(supports, n, {})
  <2> HIDE DEF Holds
  <2> QED BY <1>6 DEF Reachable, all
<1> QED BY <1>2, <1>13, <1>14, <1>15 DEF Bound, all
-----------------------------------------------------------------------------
(* The action gate.                                                        *)

\* What a call that has not thrown knows, and an accepted one was told.
CallOK ==
  \/ call.state \in {"none", "thrown"}
  \/ /\ DOMAIN call = {"state", "action", "at", "base", "rejection"}
     /\ call.state \in {"awaiting", "decided"}
     /\ call.action \in Actions /\ call.at \in 0 .. now
     /\ ~Throws(SupportsOf(proposed), call.at)
     /\ call.base = Assess(call.action, SupportsOf(proposed))
     /\ call.state = "decided" /\ call.rejection = "none" => Rejection(call.base, TRUE) = "none"

\* Records that can be passed on, and the verdicts in them.
Minted == [agentId : Contributors, outcomeHash : Outcomes,
           verdicts : UNION {[told -> OutcomeVerdict] : told \in SUBSET Nat}]

RecordsOK ==
  /\ records \in Seq(Minted) /\ Len(records) <= MaxRecords
  /\ \A i \in DOMAIN records :
       LET verdicts == records[i].verdicts IN
       /\ IsFiniteSet(DOMAIN verdicts)
       /\ \A j \in DOMAIN verdicts : \E n \in ToSet(inbox) : verdicts[j] = Verdict[n]

IInv ==
  /\ now \in 0 .. MaxTime
  /\ stage \in {"action", "completion", "outcome"}
  /\ proposed \in Seq(Supports) /\ Len(proposed) <= MaxSupports + 1
  /\ CallOK
  /\ attestations \in Seq(Attestations) /\ inbox \in Seq(Verdicts)
  /\ RecordsOK

LEMMA InitOK == Init => IInv
<1> SUFFICES ASSUME Init PROVE IInv
  OBVIOUS
<1> USE DEF Init
<1>1. now \in 0 .. MaxTime /\ stage \in {"action", "completion", "outcome"}
  BY RecordAssumption
<1>2. proposed \in Seq(Supports) /\ Len(proposed) <= MaxSupports + 1
  BY PolicyAssumption
<1>3. CallOK
  BY DEF CallOK, NoCall
<1>4. attestations \in Seq(Attestations) /\ inbox \in Seq(Verdicts)
  OBVIOUS
<1>5. RecordsOK
  <2>1. records \in Seq(Minted) /\ Len(records) = 0 /\ DOMAIN records = {}
    OBVIOUS
  <2> QED BY <2>1, RecordAssumption DEF RecordsOK
<1> QED BY <1>1, <1>2, <1>3, <1>4, <1>5 DEF IInv

\* A longer inbox holds what the records rest on.
LEMMA RecordsKept ==
  ASSUME RecordsOK, UNCHANGED records, ToSet(inbox) \subseteq ToSet(inbox')
  PROVE  RecordsOK'
BY DEF RecordsOK

LEMMA AppendHolds ==
  ASSUME NEW S, NEW s \in Seq(S), NEW x \in S
  PROVE  /\ Append(s, x) \in Seq(S) /\ Len(Append(s, x)) = Len(s) + 1
         /\ ToSet(Append(s, x)) = ToSet(s) \cup {x}
<1>1. /\ Append(s, x) \in Seq(S) /\ Len(Append(s, x)) = Len(s) + 1 /\ Len(s) \in Nat
      /\ \A i \in 1 .. Len(s) : Append(s, x)[i] = s[i]
      /\ Append(s, x)[Len(s) + 1] = x
      /\ DOMAIN s = 1 .. Len(s) /\ DOMAIN Append(s, x) = 1 .. Len(s) + 1
  OBVIOUS
<1> DEFINE n == Len(s)
           t == Append(s, x)
<1> HIDE DEF n, t
<1>2. \A i \in 1 .. n + 1 : i \in 1 .. n \/ i = n + 1
  BY <1>1 DEF n
<1>3. n + 1 \in 1 .. n + 1 /\ 1 .. n \subseteq 1 .. n + 1
  BY <1>1 DEF n
<1>4. ToSet(t) = ToSet(s) \cup {x}
  <2>1. /\ \A i \in 1 .. n : t[i] = s[i]
        /\ t[n + 1] = x /\ DOMAIN s = 1 .. n /\ DOMAIN t = 1 .. n + 1
    BY <1>1 DEF n, t
  <2> QED BY <1>2, <1>3, <2>1 DEF ToSet
<1> QED BY <1>1, <1>4 DEF t

LEMMA StepOK == IInv /\ [Next]_vars => IInv'
<1> SUFFICES ASSUME IInv, [Next]_vars PROVE IInv'
  OBVIOUS
<1>0. /\ now \in 0 .. MaxTime /\ stage \in {"action", "completion", "outcome"}
      /\ proposed \in Seq(Supports) /\ Len(proposed) <= MaxSupports + 1
      /\ CallOK /\ RecordsOK /\ attestations \in Seq(Attestations) /\ inbox \in Seq(Verdicts)
      /\ MaxTime \in Nat /\ MaxRecords \in Nat
  BY RecordAssumption DEF IInv
<1>1. CASE Propose
  <2>1. PICK s \in Supports : proposed' = Append(proposed, s)
    BY <1>1 DEF Propose
  <2>2. /\ stage = "action" /\ call.state = "none" /\ Len(proposed) <= MaxSupports
        /\ now' = now /\ call' = call /\ stage' = stage /\ attestations' = attestations
        /\ inbox' = inbox /\ records' = records
    BY <1>1 DEF Propose, gathered
  <2>3. proposed' \in Seq(Supports) /\ Len(proposed') <= MaxSupports + 1
    <3>1. proposed' \in Seq(Supports) /\ Len(proposed') = Len(proposed) + 1 /\ Len(proposed) \in Nat
      BY <1>0, <2>1, AppendHolds
    <3> QED BY <2>2, <3>1, PolicyAssumption
  <2>4. CallOK'
    BY <2>2 DEF CallOK
  <2>5. RecordsOK'
    BY <1>0, <2>2, RecordsKept
  <2> QED BY <1>0, <2>2, <2>3, <2>4, <2>5 DEF IInv
<1>2. CASE Tick
  <2>1. /\ now < MaxTime /\ now' = now + 1
        /\ proposed' = proposed /\ call' = call /\ stage' = stage /\ attestations' = attestations
        /\ inbox' = inbox /\ records' = records
    BY <1>2 DEF Tick, gathered
  <2>2. now' \in 0 .. MaxTime /\ 0 .. now \subseteq 0 .. now'
    BY <1>0, <2>1
  <2>3. CallOK'
    BY <1>0, <2>1, <2>2 DEF CallOK, SupportsOf
  <2>4. RecordsOK'
    BY <1>0, <2>1, RecordsKept
  <2> QED BY <1>0, <2>1, <2>2, <2>3, <2>4 DEF IInv
<1>3. CASE Evaluate
  <2>1. /\ now' = now /\ proposed' = proposed /\ stage' = stage /\ attestations' = attestations
        /\ inbox' = inbox /\ records' = records
    BY <1>3 DEF Evaluate, gathered
  <2> DEFINE supports == SupportsOf(proposed)
  <2>2. PICK action \in Actions :
          LET base == Assess(action, supports)
          IN call' = IF Throws(supports, now)
                     THEN [state |-> "thrown", at |-> now]
                     ELSE [state |-> IF ActionMismatch(base) THEN "decided" ELSE "awaiting",
                           action |-> action, at |-> now, base |-> base,
                           rejection |-> IF ActionMismatch(base) THEN "action-mismatch" ELSE "none"]
    BY <1>3 DEF Evaluate
  <2>3. SupportsOf(proposed)' = supports
    BY <2>1 DEF SupportsOf
  <2>4. CallOK'
    <3>1. CASE Throws(supports, now)
      <4>1. call'.state = "thrown"
        BY <2>2, <3>1
      <4> QED BY <4>1 DEF CallOK
    <3>2. CASE ~Throws(supports, now)
      <4> DEFINE base == Assess(action, supports)
      <4>1. /\ call'.state = IF ActionMismatch(base) THEN "decided" ELSE "awaiting"
            /\ call'.action = action /\ call'.at = now /\ call'.base = base
            /\ call'.rejection = IF ActionMismatch(base) THEN "action-mismatch" ELSE "none"
            /\ DOMAIN call' = {"state", "action", "at", "base", "rejection"}
        <5> HIDE DEF base, supports
        <5>1. call' = [state |-> IF ActionMismatch(base) THEN "decided" ELSE "awaiting",
                       action |-> action, at |-> now, base |-> base,
                       rejection |-> IF ActionMismatch(base) THEN "action-mismatch" ELSE "none"]
          BY <2>2, <3>2 DEF base
        <5> QED BY <5>1
      <4>2. now \in 0 .. now'
        BY <1>0, <2>1
      <4> HIDE DEF base, supports
      <4>3. call'.state \in {"awaiting", "decided"}
            /\ ~(call'.state = "decided" /\ call'.rejection = "none")
        BY <4>1
      <4>4. call'.base = Assess(call'.action, SupportsOf(proposed)')
        BY <2>3, <4>1 DEF base
      <4>5. ~Throws(SupportsOf(proposed)', call'.at)
        BY <2>3, <3>2, <4>1
      <4> QED BY <4>1, <4>2, <4>3, <4>4, <4>5 DEF CallOK
    <3> QED BY <3>1, <3>2
  <2>5. RecordsOK'
    BY <1>0, <2>1, RecordsKept
  <2> QED BY <1>0, <2>1, <2>4, <2>5 DEF IInv
<1>4. CASE Answer
  <2>1. /\ now' = now /\ proposed' = proposed /\ stage' = stage /\ attestations' = attestations
        /\ inbox' = inbox /\ records' = records /\ call.state = "awaiting"
    BY <1>4 DEF Answer, gathered
  <2>2. PICK admissible \in BOOLEAN :
          call' = [call EXCEPT !.state = "decided", !.rejection = Rejection(call.base, admissible)]
    BY <1>4 DEF Answer
  <2>3. SupportsOf(proposed)' = SupportsOf(proposed)
    BY <2>1 DEF SupportsOf
  <2>4. CallOK'
    <3>1. /\ call.action \in Actions /\ call.at \in 0 .. now
          /\ ~Throws(SupportsOf(proposed), call.at)
          /\ call.base = Assess(call.action, SupportsOf(proposed))
          /\ DOMAIN call = {"state", "action", "at", "base", "rejection"}
      BY <1>0, <2>1 DEF CallOK
    <3>2. /\ DOMAIN call' = DOMAIN call
          /\ call'.action = call.action /\ call'.at = call.at /\ call'.base = call.base
          /\ call'.state = "decided" /\ call'.rejection = Rejection(call.base, admissible)
      BY <2>2, <3>1
    <3>3. Rejection(call.base, admissible) = "none" => Rejection(call.base, TRUE) = "none"
      BY DEF Rejection
    <3> QED BY <2>1, <2>3, <3>1, <3>2, <3>3 DEF CallOK
  <2>5. RecordsOK'
    BY <1>0, <2>1, RecordsKept
  <2> QED BY <1>0, <2>1, <2>4, <2>5 DEF IInv
<1>5. CASE Retry
  <2>1. /\ now' = now /\ proposed' = proposed /\ stage' = stage /\ attestations' = attestations
        /\ inbox' = inbox /\ records' = records /\ call' = NoCall
    BY <1>5 DEF Retry, gathered
  <2>2. CallOK'
    BY <2>1 DEF CallOK, NoCall
  <2>3. RecordsOK'
    BY <1>0, <2>1, RecordsKept
  <2> QED BY <1>0, <2>1, <2>2, <2>3 DEF IInv
<1>6. CASE Release
  <2>1. /\ now' = 0 /\ proposed' = <<>> /\ stage' = "completion" /\ attestations' = attestations
        /\ inbox' = inbox /\ records' = records /\ call' = NoCall
    BY <1>6 DEF Release
  <2>2. CallOK'
    BY <2>1 DEF CallOK, NoCall
  <2>3. RecordsOK'
    BY <1>0, <2>1, RecordsKept
  <2>4. proposed' \in Seq(Supports) /\ Len(proposed') <= MaxSupports + 1 /\ now' \in 0 .. MaxTime
    BY <1>0, <2>1, PolicyAssumption
  <2> QED BY <1>0, <2>1, <2>2, <2>3, <2>4 DEF IInv
<1>7. CASE Attest
  <2>1. /\ now' = now /\ proposed' = proposed /\ stage' = stage /\ call' = call
        /\ inbox' = inbox /\ records' = records
        /\ \E a \in Attestations : attestations' = Append(attestations, a)
    BY <1>7 DEF Attest
  <2>2. CallOK'
    BY <1>0, <2>1 DEF CallOK, SupportsOf
  <2>3. RecordsOK'
    BY <1>0, <2>1, RecordsKept
  <2>4. attestations' \in Seq(Attestations)
    BY <1>0, <2>1
  <2> QED BY <1>0, <2>1, <2>2, <2>3, <2>4 DEF IInv
<1>8. CASE Complete
  <2>1. /\ now' = now /\ proposed' = proposed /\ stage' = "outcome" /\ call' = call
        /\ inbox' = inbox /\ records' = records /\ attestations' = <<>>
    BY <1>8 DEF Complete
  <2>2. CallOK'
    BY <1>0, <2>1 DEF CallOK, SupportsOf
  <2>3. RecordsOK'
    BY <1>0, <2>1, RecordsKept
  <2>4. attestations' \in Seq(Attestations)
    BY <1>0, <2>1
  <2> QED BY <1>0, <2>1, <2>2, <2>3, <2>4 DEF IInv
<1>9. CASE GiveVerdict
  <2>1. /\ now' = now /\ proposed' = proposed /\ stage' = stage /\ call' = call
        /\ attestations' = attestations /\ records' = records
    BY <1>9 DEF GiveVerdict
  <2>2. PICK v \in Verdicts : inbox' = Append(inbox, v)
    BY <1>9 DEF GiveVerdict
  <2>3. inbox' \in Seq(Verdicts) /\ ToSet(inbox) \subseteq ToSet(inbox')
    <3>1. ToSet(inbox') = ToSet(inbox) \cup {v} /\ inbox' \in Seq(Verdicts)
      BY <1>0, <2>2, AppendHolds
    <3> QED BY <3>1
  <2>4. CallOK'
    BY <1>0, <2>1 DEF CallOK, SupportsOf
  <2>5. RecordsOK'
    BY <1>0, <2>1, <2>3, RecordsKept
  <2> QED BY <1>0, <2>1, <2>3, <2>4, <2>5 DEF IInv
<1> DEFINE Recorded(r) ==
             /\ r \in Minted /\ IsFiniteSet(DOMAIN r.verdicts)
             /\ \A j \in DOMAIN r.verdicts : \E n \in ToSet(inbox) : r.verdicts[j] = Verdict[n]
<1>10. ASSUME NEW r, Recorded(r), records' = Append(records, r), inbox' = inbox,
              Len(records) < MaxRecords
       PROVE  RecordsOK'
  <2>1. /\ records \in Seq(Minted) /\ r \in Minted
        /\ \A i \in DOMAIN records : Recorded(records[i])
    BY <1>0, <1>10 DEF RecordsOK
  <2>2. /\ records' \in Seq(Minted) /\ Len(records') = Len(records) + 1 /\ Len(records) \in Nat
        /\ ToSet(records') = ToSet(records) \cup {r}
    BY <1>10, <2>1, AppendHolds
  <2> HIDE DEF Recorded
  <2>3. \A x \in ToSet(records') : Recorded(x)
    BY <1>10, <2>1, <2>2 DEF ToSet
  <2>4. \A i \in DOMAIN records' : Recorded(records'[i])
    BY <2>3 DEF ToSet
  <2>5. Len(records') <= MaxRecords
    BY <1>0, <1>10, <2>2
  <2> QED BY <1>10, <2>2, <2>4, <2>5 DEF RecordsOK, Recorded
<1>11. CASE Mint
  <2>1. /\ now' = now /\ proposed' = proposed /\ stage' = stage /\ call' = call
        /\ attestations' = attestations /\ inbox' = inbox /\ Len(records) < MaxRecords
    BY <1>11 DEF Mint
  <2>2. PICK agent \in Contributors, hash \in Outcomes, told \in SUBSET DOMAIN inbox :
          records' = Append(records, PerformanceRecord(agent, hash, VerdictsOf(Restrict(inbox, told))))
    BY <1>11 DEF Mint
  <2> DEFINE verdicts == VerdictsOf(Restrict(inbox, told))
             r == PerformanceRecord(agent, hash, verdicts)
  <2>3. verdicts = [i \in told |-> Verdict[inbox[i]]]
    BY DEF VerdictsOf, Restrict
  <2>4. told \in SUBSET Nat /\ IsFiniteSet(told) /\ \A i \in told : inbox[i] \in ToSet(inbox) /\ inbox[i] \in Verdicts
    <3>1. DOMAIN inbox = 1 .. Len(inbox) /\ Len(inbox) \in Nat /\ \A i \in 1 .. Len(inbox) : inbox[i] \in Verdicts
      BY <1>0
    <3>2. IsFiniteSet(DOMAIN inbox)
      <4> DEFINE n == Len(inbox)
                 a == 1
      <4>1. n \in Int /\ a \in Int
        BY <3>1
      <4> HIDE DEF n, a
      <4>2. IsFiniteSet(a .. n)
        BY <4>1, FS_Interval
      <4> QED BY <3>1, <4>2 DEF n, a
    <3>3. IsFiniteSet(told)
      BY <3>2, FS_Subset
    <3> QED BY <3>1, <3>3 DEF ToSet
  <2>5. verdicts \in [told -> OutcomeVerdict]
    BY <2>3, <2>4, RecordAssumption
  <2>6. DOMAIN verdicts = told /\ \A j \in told : verdicts[j] = Verdict[inbox[j]]
    BY <2>3
  <2> HIDE DEF verdicts
  <2>7. r \in Minted /\ r.verdicts = verdicts
    <3>1. verdicts \in UNION {[t -> OutcomeVerdict] : t \in SUBSET Nat}
      BY <2>4, <2>5
    <3> QED BY <3>1 DEF PerformanceRecord, Minted
  <2> HIDE DEF r
  <2>8. Recorded(r)
    BY <2>4, <2>6, <2>7
  <2>9. records' = Append(records, r)
    BY <2>2 DEF r, verdicts
  <2>10. RecordsOK'
    BY <1>10, <2>1, <2>8, <2>9
  <2>11. CallOK'
    BY <1>0, <2>1 DEF CallOK, SupportsOf
  <2> QED BY <1>0, <2>1, <2>10, <2>11 DEF IInv
<1>12. CASE Replay
  <2>1. /\ now' = now /\ proposed' = proposed /\ stage' = stage /\ call' = call
        /\ attestations' = attestations /\ inbox' = inbox
        /\ Len(records) \in 1 .. MaxRecords - 1 /\ records' = Append(records, Last(records))
    BY <1>12 DEF Replay
  <2>2. Len(records) \in DOMAIN records /\ Len(records) < MaxRecords
    <3>1. records \in Seq(Minted)
      BY <1>0 DEF RecordsOK
    <3> QED BY <1>0, <2>1, <3>1
  <2>3. Recorded(Last(records))
    <3>1. \A i \in DOMAIN records : Recorded(records[i])
      <4>1. records \in Seq(Minted)
        BY <1>0 DEF RecordsOK
      <4> QED BY <1>0, <4>1 DEF RecordsOK
    <3> HIDE DEF Recorded
    <3> QED BY <2>2, <3>1 DEF Last
  <2> HIDE DEF Recorded
  <2>4. RecordsOK'
    BY <1>10, <2>1, <2>2, <2>3
  <2>5. CallOK'
    BY <1>0, <2>1 DEF CallOK, SupportsOf
  <2> QED BY <1>0, <2>1, <2>4, <2>5 DEF IInv
<1>13. CASE UNCHANGED vars
  <2>1. /\ now' = now /\ proposed' = proposed /\ stage' = stage /\ call' = call
        /\ attestations' = attestations /\ inbox' = inbox /\ records' = records
    BY <1>13 DEF vars
  <2>2. RecordsOK'
    BY <1>0, <2>1, RecordsKept
  <2>3. CallOK'
    BY <1>0, <2>1 DEF CallOK, SupportsOf
  <2> QED BY <1>0, <2>1, <2>2, <2>3 DEF IInv
<1> QED
  BY <1>1, <1>2, <1>3, <1>4, <1>5, <1>6, <1>7, <1>8, <1>9, <1>11, <1>12, <1>13 DEF Next

LEMMA Invariance == Spec => []IInv
<1> QED BY InitOK, StepOK, PTL DEF Spec

\* The supports a call assesses, when it has not thrown.
Assessed == call.state \in {"awaiting", "decided"}

Matches == {i \in DOMAIN proposed : Support[proposed[i]].action = call.action}

LEMMA AssessedSupports ==
  ASSUME IInv, Assessed
  PROVE  LET supports == Restrict(SupportsOf(proposed), Matches) IN
         /\ IsFiniteSet(Matches) /\ Matches \subseteq Nat /\ Cardinality(Matches) \in 0 .. MaxSupports
         /\ DOMAIN supports = Matches
         /\ \A i \in Matches : /\ supports[i] = Support[proposed[i]]
                               /\ supports[i] \in ActionSupport
                               /\ IsFiniteSet(supports[i].sourceIds)
         /\ Range(supports) = Matching
         /\ ~Throws(SupportsOf(proposed), call.at)
         /\ call.base = Assess(call.action, SupportsOf(proposed))
         /\ call.base.independent = IndependentSupportSet(supports)
         /\ call.base.risk = IF Matches = {} THEN 100 ELSE Max({s.risk : s \in Matching})
         /\ call.base.matching = Cardinality(Matches)
         /\ call.base.effective =
              IF MinimumEffective = 0 THEN NoEffective
              ELSE EffectiveSupport([i \in Matches |-> LineageSupport(supports[i])])
<1> DEFINE listed == SupportsOf(proposed)
           supports == Restrict(listed, Matches)
<1>1. /\ proposed \in Seq(Supports) /\ Len(proposed) \in Nat /\ DOMAIN proposed = 1 .. Len(proposed)
      /\ \A i \in DOMAIN proposed : proposed[i] \in Supports
  BY DEF IInv
<1>2. /\ ~Throws(listed, call.at) /\ call.base = Assess(call.action, listed)
  BY DEF IInv, CallOK, Assessed
<1>3. /\ listed = [i \in 1 .. Len(proposed) |-> Support[proposed[i]]]
      /\ \A i \in DOMAIN proposed : listed[i] = Support[proposed[i]] /\ listed[i] \in ActionSupport
      /\ listed \in Seq(ActionSupport) /\ Len(listed) = Len(proposed)
  BY <1>1, RecordAssumption DEF SupportsOf
<1>4. Len(proposed) <= MaxSupports
  BY <1>1, <1>2, <1>3, PolicyAssumption DEF Throws
<1> DEFINE n == Len(proposed)
           a == 1
<1>5. IsFiniteSet(DOMAIN proposed) /\ Cardinality(DOMAIN proposed) = Len(proposed)
  <2>1. n \in Nat /\ a \in Int /\ DOMAIN proposed = a .. n /\ a = 1
    BY <1>1
  <2> HIDE DEF n, a
  <2>2. IsFiniteSet(a .. n) /\ Cardinality(a .. n) = IF a > n THEN 0 ELSE n - a + 1
    BY <2>1, FS_Interval
  <2> QED BY <2>1, <2>2 DEF n
<1>6. IsFiniteSet(Matches) /\ Matches \subseteq Nat /\ Cardinality(Matches) \in 0 .. MaxSupports
  <2>1. Matches \in SUBSET DOMAIN proposed /\ Matches \subseteq Nat
    BY <1>1 DEF Matches
  <2>2. IsFiniteSet(Matches) /\ Cardinality(Matches) <= Len(proposed)
    BY <1>5, <2>1, FS_Subset
  <2>3. Cardinality(Matches) \in Nat
    BY <2>2, FS_CardinalityType
  <2> QED BY <1>1, <1>4, <2>1, <2>2, <2>3, PolicyAssumption
<1>7. /\ DOMAIN supports = Matches
      /\ \A i \in Matches : /\ supports[i] = Support[proposed[i]]
                            /\ supports[i] \in ActionSupport
                            /\ IsFiniteSet(supports[i].sourceIds)
  <2>1. \A i \in Matches : i \in DOMAIN proposed
    BY DEF Matches
  <2>2. \A i \in Matches : IsFiniteSet(Support[proposed[i]].sourceIds)
    BY <1>1, <2>1, RecordAssumption
  <2> QED BY <1>3, <2>1, <2>2 DEF Restrict
<1>8. Range(supports) = Matching
  <2>1. Range(supports) = {Support[proposed[i]] : i \in Matches}
    BY <1>7 DEF Range
  <2> QED BY <2>1 DEF Matches, Matching, ToSet
<1>9. Matches = {i \in DOMAIN listed : listed[i].action = call.action}
  BY <1>1, <1>3 DEF Matches
<1>10. /\ call.base.independent = IndependentSupportSet(supports)
       /\ call.base.risk = IF Matches = {} THEN 100 ELSE Max({s.risk : s \in Range(supports)})
       /\ call.base.matching = Cardinality(Matches)
       /\ call.base.effective =
            IF MinimumEffective = 0 THEN NoEffective
            ELSE EffectiveSupport([i \in Matches |-> LineageSupport(supports[i])])
  <2> HIDE DEF listed
  <2> QED BY <1>2, <1>9 DEF Assess
<1> HIDE DEF supports, listed
<1> QED BY <1>2, <1>6, <1>7, <1>8, <1>10 DEF supports, listed

\* Each model behind the supports that match counts once.
LEMMA AssessedEffective ==
  ASSUME IInv, Assessed, MinimumEffective # 0
  PROVE  /\ call.base.effective
              \in 0 .. Whole * Cardinality({LineageSupport(s).lineage.modelId : s \in Matching})
         /\ call.base.effective \in 0 .. Whole * MaxSupports
<1> DEFINE supports == Restrict(SupportsOf(proposed), Matches)
           lineages == [i \in Matches |-> LineageSupport(supports[i])]
           models == {LineageSupport(s).lineage.modelId : s \in Matching}
<1>1. /\ IsFiniteSet(Matches) /\ Matches \subseteq Nat /\ Cardinality(Matches) \in 0 .. MaxSupports
      /\ DOMAIN supports = Matches /\ Range(supports) = Matching
      /\ \A i \in Matches : supports[i] \in ActionSupport /\ IsFiniteSet(supports[i].sourceIds)
      /\ call.base.effective = EffectiveSupport(lineages)
  BY AssessedSupports
<1> HIDE DEF supports
<1>2. /\ DOMAIN lineages = Matches
      /\ \A i \in Matches : lineages[i] = LineageSupport(supports[i])
  OBVIOUS
<1>3. \A i \in Matches : lineages[i].agentId \in Nat /\ IsFiniteSet(lineages[i].sourceIds)
  BY <1>1, <1>2 DEF LineageSupport, ActionSupport
<1>4. ModelsOf(lineages, Matches) = models
  BY <1>1, <1>2 DEF ModelsOf, Range
<1> HIDE DEF lineages, models
<1>5. EffectiveSupport(lineages) \in 0 .. Whole * Cardinality(ModelsOf(lineages, Matches))
  BY <1>1, <1>2, <1>3, SupportCounted
<1>6. Cardinality(ModelsOf(lineages, Matches)) \in 0 .. Cardinality(Matches)
  BY <1>1, ModelsFinite
<1>7. Cardinality(models) \in 0 .. MaxSupports /\ MaxSupports \in Nat
  BY <1>1, <1>4, <1>6, PolicyAssumption
<1>8. call.base.effective \in 0 .. Whole * Cardinality(models)
  BY <1>1, <1>4, <1>5
<1> DEFINE m == Cardinality(models)
<1>9. call.base.effective \in 0 .. Whole * MaxSupports
  <2> HIDE DEF m
  <2>1. 1200 * m <= 1200 * MaxSupports
    BY <1>7 DEF m
  <2> QED BY <1>7, <1>8, <2>1 DEF Whole, m
<1> QED BY <1>8, <1>9 DEF models

\* The state stays within its types and the numbers of a call within the
\* gate's bounds (action-gate.ts:237-288).
THEOREM TypeCorrectness == Spec => []TypeOK
<1>1. IInv => TypeOK
  <2> SUFFICES ASSUME IInv PROVE TypeOK
    OBVIOUS
  <2>1. call.state \in {"none", "awaiting", "decided", "thrown"}
    BY DEF IInv, CallOK
  <2>2. ASSUME Assessed
        PROVE  /\ call.action \in Actions /\ call.at \in 0 .. now
               /\ call.base.matching \in 0 .. MaxSupports
               /\ call.base.effective \in {NoEffective} \cup 0 .. Whole * MaxSupports
    <3>1. call.action \in Actions /\ call.at \in 0 .. now
      BY <2>2 DEF IInv, CallOK, Assessed
    <3>2. call.base.matching \in 0 .. MaxSupports
      BY <2>2, AssessedSupports
    <3>3. CASE MinimumEffective = 0
      <4>1. call.base.effective = NoEffective
        BY <2>2, <3>3, AssessedSupports
      <4> QED BY <3>1, <3>2, <4>1
    <3>4. CASE MinimumEffective # 0
      BY <2>2, <3>1, <3>2, <3>4, AssessedEffective
    <3> QED BY <3>3, <3>4
  <2> QED BY <2>1, <2>2 DEF IInv, RecordsOK, TypeOK, Assessed
<1> QED BY <1>1, Invariance, PTL

LEMMA SelectedAreBest ==
  ASSUME IInv, Assessed
  PROVE  /\ call.base.independent \in SUBSET Matching
         /\ PairwiseIndependent(call.base.independent)
         /\ \A set \in SUBSET Matching :
              PairwiseIndependent(set) => ~Better(set, call.base.independent)
         /\ IsFiniteSet(Matching) /\ \A s \in Matching : s \in ActionSupport
<1> DEFINE supports == Restrict(SupportsOf(proposed), Matches)
<1>1. /\ IsFiniteSet(DOMAIN supports) /\ DOMAIN supports \subseteq Nat
      /\ DOMAIN supports = Matches
      /\ \A i \in DOMAIN supports : supports[i].agentId \in Nat /\ supports[i] \in ActionSupport
      /\ Range(supports) = Matching
      /\ call.base.independent = IndependentSupportSet(supports)
  BY AssessedSupports DEF ActionSupport
<1> HIDE DEF supports
<1>2. LET found == IndependentSupportSet(supports)
          rivals == {set \in SUBSET Range(supports) : PairwiseIndependent(set)}
      IN found \in rivals /\ \A set \in rivals : ~Better(set, found)
  BY <1>1, VisitFindsBest
<1>3. IsFiniteSet({supports[i] : i \in DOMAIN supports})
  BY <1>1, ImageOf
<1> QED BY <1>1, <1>2, <1>3 DEF Range

\* Branch and bound finds a largest, best calibrated and first independent set
\* of supports (action-gate.ts:169-196, 367-373).
THEOREM SelectionOptimal == Spec => []SelectionIsBest
<1>1. IInv => SelectionIsBest
  <2> SUFFICES ASSUME IInv, Assessed
               PROVE  LET chosen == call.base.independent
                          rivals == {set \in SUBSET Matching : PairwiseIndependent(set)}
                      IN /\ chosen \in rivals
                         /\ \A set \in rivals :
                              /\ Cardinality(set) <= Cardinality(chosen)
                              /\ Cardinality(set) = Cardinality(chosen) =>
                                   /\ Score(set) <= Score(chosen)
                                   /\ Score(set) = Score(chosen) /\ AgentsOf(set) # AgentsOf(chosen) =>
                                        Min(SymDiff(AgentsOf(set), AgentsOf(chosen))) \in AgentsOf(chosen)
    BY DEF SelectionIsBest, Assessed
  <2> DEFINE chosen == call.base.independent
  <2>1. /\ chosen \in SUBSET Matching /\ PairwiseIndependent(chosen)
        /\ \A set \in SUBSET Matching : PairwiseIndependent(set) => ~Better(set, chosen)
        /\ IsFiniteSet(Matching) /\ \A s \in Matching : s.agentId \in Nat
    BY SelectedAreBest DEF ActionSupport
  <2> HIDE DEF chosen
  <2>2. ASSUME NEW set \in SUBSET Matching, PairwiseIndependent(set)
        PROVE  /\ Cardinality(set) <= Cardinality(chosen)
               /\ Cardinality(set) = Cardinality(chosen) =>
                    /\ Score(set) <= Score(chosen)
                    /\ Score(set) = Score(chosen) /\ AgentsOf(set) # AgentsOf(chosen) =>
                         Min(SymDiff(AgentsOf(set), AgentsOf(chosen))) \in AgentsOf(chosen)
    <3>1. /\ Cardinality(set) \in Nat /\ Score(set) \in Nat
          /\ Cardinality(chosen) \in Nat /\ Score(chosen) \in Nat
      BY <2>1, FS_Subset, ScoreIsNumber
    <3> DEFINE only == SymDiff(AgentsOf(set), AgentsOf(chosen))
    <3>2. only # {} => Min(only) \in only
      <4>1. only \in SUBSET Int /\ only \in SUBSET AgentsOf(Matching)
        BY <2>1 DEF SymDiff, AgentsOf
      <4> DEFINE g == [s \in Matching |-> s.agentId]
      <4>2. AgentsOf(Matching) = {g[s] : s \in Matching}
        BY DEF AgentsOf
      <4> HIDE DEF g, only
      <4>3. IsFiniteSet(AgentsOf(Matching))
        BY <2>1, <4>2, ImageOf
      <4>4. IsFiniteSet(only)
        BY <4>1, <4>3, FS_Subset
      <4> QED BY <4>1, <4>4, LeastNumber
    <3>3. only # {} \/ AgentsOf(set) = AgentsOf(chosen)
      BY DEF SymDiff
    <3>4. \A x \in only : x \in AgentsOf(set) \/ x \in AgentsOf(chosen)
      BY DEF SymDiff
    <3>5. ~ \/ Cardinality(set) > Cardinality(chosen)
            \/ /\ Cardinality(set) = Cardinality(chosen)
               /\ \/ Score(set) > Score(chosen)
                  \/ /\ Score(set) = Score(chosen)
                     /\ only # {} /\ Min(only) \in AgentsOf(set)
      BY <2>1, <2>2 DEF Better
    <3> HIDE DEF only
    <3> QED BY <3>1, <3>2, <3>3, <3>4, <3>5 DEF only
  <2> QED BY <2>1, <2>2 DEF chosen
<1> QED BY <1>1, Invariance, PTL

\* An action is executed only on a quorum that is independent, authentic, free
\* of risk and backed by enough models (action-gate.ts:237-288).
THEOREM QuorumBehindExecution == Spec => []ExecutesOnQuorum
<1>1. IInv => ExecutesOnQuorum
  <2> SUFFICES ASSUME IInv, Executes
               PROVE  /\ \A n \in ToSet(proposed) :
                           LET s == Support[n] IN
                           /\ s.signed /\ s.agentId \in TrustedSigners
                           /\ s.issuedAt - ClockSkew <= call.at /\ call.at < s.expiresAt
                      /\ \E quorum \in SUBSET Matching :
                           Cardinality(quorum) >= MinimumQuorum /\ PairwiseIndependent(quorum)
                      /\ \A s \in Matching : s.risk < RiskThreshold
                      /\ Whole * Cardinality({LineageSupport(s).lineage.modelId : s \in Matching})
                           >= MinimumEffective
    BY DEF ExecutesOnQuorum
  <2>1. Assessed
    BY DEF Executes, Assessed
  <2>2. Rejection(call.base, TRUE) = "none" /\ call.at \in Nat
    <3>1. call.at \in 0 .. now /\ now \in 0 .. MaxTime /\ Rejection(call.base, TRUE) = "none"
      BY DEF IInv, CallOK, Executes
    <3>2. now \in Nat
      BY <3>1, RecordAssumption
    <3>3. \A t \in 0 .. now : t \in Nat
      BY <3>2
    <3> QED BY <3>1, <3>3, Zenon
  <2>3. /\ ~(Cardinality(call.base.independent) < MinimumQuorum)
        /\ ~(call.base.risk >= RiskThreshold)
        /\ ~(MinimumEffective # 0 /\ call.base.effective < MinimumEffective)
    BY <2>2 DEF Rejection
  <2>4. ASSUME NEW n \in ToSet(proposed)
        PROVE  LET s == Support[n] IN
               /\ s.signed /\ s.agentId \in TrustedSigners
               /\ s.issuedAt - ClockSkew <= call.at /\ call.at < s.expiresAt
    <3> DEFINE s == Support[n]
    <3>1. s \in ToSet(SupportsOf(proposed)) /\ n \in Supports
      BY DEF SupportsOf, ToSet, IInv
    <3>2. ~Throws(SupportsOf(proposed), call.at)
      BY <2>1, AssessedSupports
    <3>3. Authentic(s, call.at)
      BY <3>1, <3>2 DEF Throws
    <3>4. s.issuedAt \in Int /\ ClockSkew \in Nat
      BY <3>1, RecordAssumption, PolicyAssumption DEF ActionSupport
    <3>5. s.signed /\ s.agentId \in TrustedSigners /\ s.issuedAt <= call.at + ClockSkew /\ call.at < s.expiresAt
      BY <3>3 DEF Authentic
    <3> HIDE DEF s
    <3>6. s.issuedAt - ClockSkew <= call.at
      BY <2>2, <3>4, <3>5
    <3> QED BY <3>5, <3>6 DEF s
  <2>5. \E quorum \in SUBSET Matching :
          Cardinality(quorum) >= MinimumQuorum /\ PairwiseIndependent(quorum)
    <3> DEFINE quorum == call.base.independent
    <3>1. quorum \in SUBSET Matching /\ PairwiseIndependent(quorum) /\ IsFiniteSet(Matching)
      BY <2>1, SelectedAreBest
    <3>2. Cardinality(quorum) \in Nat
      BY <3>1, FS_Subset, FS_CardinalityType
    <3>3. Cardinality(quorum) >= MinimumQuorum
      BY <2>3, <3>2, PolicyAssumption
    <3> HIDE DEF quorum
    <3> QED BY <3>1, <3>3
  <2>6. ASSUME NEW s \in Matching PROVE s.risk < RiskThreshold
    <3> DEFINE risks == {t.risk : t \in Matching}
               g == [t \in Matching |-> t.risk]
    <3>1. IsFiniteSet(Matching) /\ \A t \in Matching : t.risk \in Nat
      BY <2>1, SelectedAreBest DEF ActionSupport
    <3>2. risks = {g[t] : t \in Matching} /\ risks \in SUBSET Int /\ s.risk \in risks
      BY <3>1
    <3>3. Matches # {}
      BY DEF Matching, Matches, ToSet
    <3>4. call.base.risk = Max(risks)
      BY <2>1, <3>3, AssessedSupports
    <3> HIDE DEF risks, g
    <3>5. IsFiniteSet(risks)
      BY <3>1, <3>2, ImageOf
    <3>6. s.risk <= Max(risks) /\ Max(risks) \in Int
      BY <3>2, <3>5, GreatestNumber
    <3> QED BY <2>3, <3>1, <3>4, <3>6, PolicyAssumption
  <2>7. Whole * Cardinality({LineageSupport(s).lineage.modelId : s \in Matching}) >= MinimumEffective
    <3> DEFINE models == {LineageSupport(s).lineage.modelId : s \in Matching}
               g == [s \in Matching |-> LineageSupport(s).lineage.modelId]
    <3>1. IsFiniteSet(Matching)
      BY <2>1, SelectedAreBest
    <3>2. models = {g[s] : s \in Matching}
      OBVIOUS
    <3> HIDE DEF g
    <3>3. IsFiniteSet(models)
      BY <3>1, <3>2, ImageOf
    <3>4. Cardinality(models) \in Nat
      BY <3>3, FS_CardinalityType
    <3>5. MinimumEffective # 0 => call.base.effective \in 0 .. Whole * Cardinality(models)
      BY <2>1, AssessedEffective
    <3> HIDE DEF models
    <3>6. MinimumEffective \in Nat
      BY PolicyAssumption DEF Whole
    <3>7. Whole * Cardinality(models) \in Nat
      BY <3>4 DEF Whole
    <3>8. Whole * Cardinality(models) >= MinimumEffective
      BY <2>3, <3>5, <3>6, <3>7
    <3> QED BY <3>8 DEF models
  <2> QED BY <2>4, <2>5, <2>6, <2>7
<1> QED BY <1>1, Invariance, PTL
-----------------------------------------------------------------------------
(* The completion certificate.                                             *)

\* A longer list of attestations has every counted one of the shorter.
LEMMA CertKept ==
  ASSUME NEW short \in Seq(CompletionAttestation), NEW long \in Seq(CompletionAttestation),
         Len(short) <= Len(long), \A i \in 1 .. Len(short) : long[i] = short[i],
         VerifyCert(short), Len(long) <= MaxCertSigners
  PROVE  VerifyCert(long)
<1>1. PICK chosen \in kSubset(CertK, Counted(short)) : Independent(short, chosen)
  BY DEF VerifyCert
<1>2. /\ chosen \in SUBSET Counted(short) /\ Cardinality(chosen) = CertK
      /\ Counted(short) \subseteq 1 .. Len(short)
      /\ Len(short) \in Nat /\ Len(long) \in Nat
      /\ DOMAIN short = 1 .. Len(short) /\ DOMAIN long = 1 .. Len(long)
  BY <1>1 DEF kSubset, Counted
<1> DEFINE n == Len(short)
           m == Len(long)
<1>3. /\ n \in Nat /\ m \in Nat /\ n <= m /\ DOMAIN short = 1 .. n /\ DOMAIN long = 1 .. m
      /\ \A i \in 1 .. n : long[i] = short[i]
  BY <1>2
<1> HIDE DEF n, m
<1>4. ASSUME NEW i \in Counted(short) PROVE i \in Counted(long)
  <2>1. /\ i \in 1 .. n /\ short[i].signed
        /\ \A j \in 1 .. i - 1 : short[j].signed => short[j].signer # short[i].signer
    BY <1>3 DEF Counted
  <2>2. i \in 1 .. m /\ \A j \in 1 .. i - 1 : j \in 1 .. n
    BY <1>3, <2>1
  <2>3. long[i] = short[i] /\ \A j \in 1 .. i - 1 : long[j] = short[j]
    BY <1>3, <2>1, <2>2
  <2> QED BY <1>3, <2>1, <2>2, <2>3 DEF Counted
<1>5. chosen \in kSubset(CertK, Counted(long))
  BY <1>2, <1>4 DEF kSubset
<1>6. \A i \in chosen : long[i] = short[i]
  BY <1>2, <1>3 DEF n
<1>7. Independent(long, chosen)
  BY <1>1, <1>6 DEF Independent
<1> QED BY <1>5, <1>7 DEF VerifyCert

LEMMA CertSigners ==
  ASSUME NEW names \in Seq(Attestations), CertHolds(names)
  PROVE  Cardinality({Attestation[a].signer : a \in ToSet(names)}) >= CertK
<1> DEFINE list == [i \in DOMAIN names |-> Attestation[names[i]]]
           signers == {Attestation[a].signer : a \in ToSet(names)}
           n == Len(names)
           one == 1
<1>1. PICK chosen \in kSubset(CertK, Counted(list)) : TRUE
  BY DEF CertHolds, VerifyCert
<1>2. /\ chosen \in SUBSET Counted(list) /\ Cardinality(chosen) = CertK
      /\ Counted(list) \subseteq DOMAIN names
  BY DEF kSubset, Counted
<1>3. n \in Nat /\ one = 1 /\ DOMAIN names = one .. n
  OBVIOUS
<1>4. \A i \in DOMAIN names : list[i] = Attestation[names[i]] /\ names[i] \in ToSet(names)
  BY DEF ToSet
<1>5. \A i, j \in Counted(list) : i # j => list[i].signer # list[j].signer
  <2> SUFFICES ASSUME NEW i \in Counted(list), NEW j \in Counted(list), i < j
               PROVE  list[i].signer # list[j].signer
    <3>1. \A i \in Counted(list) : i \in Nat
      BY <1>2
    <3> HIDE DEF list
    <3> QED BY <3>1
  <2>1. i \in 1 .. j - 1
    BY <1>2, <1>3
  <2> HIDE DEF list
  <2> QED BY <2>1 DEF Counted
<1> DEFINE f == [i \in chosen |-> list[i].signer]
           g == [i \in DOMAIN names |-> list[i].signer]
<1>6. signers = {g[i] : i \in DOMAIN names}
  BY <1>4 DEF ToSet
<1>7. IsFiniteSet(DOMAIN names)
  <2> HIDE DEF n, one
  <2> QED BY <1>3, FS_Interval
<1> HIDE DEF list
<1>8. f \in Injection(chosen, signers)
  <2>1. \A i \in chosen : list[i].signer \in signers
    BY <1>2, <1>6
  <2> HIDE DEF signers
  <2> QED BY <1>2, <1>5, <2>1 DEF Injection, IsInjective
<1> HIDE DEF f, g, signers
<1>9. IsFiniteSet(signers)
  BY <1>6, <1>7, ImageOf
<1>10. Cardinality(chosen) <= Cardinality(signers)
  BY <1>8, <1>9, FS_Injection
<1>11. Cardinality(signers) \in Nat /\ CertK \in Nat
  BY <1>9, FS_CardinalityType, OutcomePolicyAssumption
<1> QED BY <1>2, <1>10, <1>11 DEF signers

\* Counter-signatures only add to a certificate (lineage-independence.ts:178-183).
THEOREM CertGrows == Spec => CertGrowsSafely
<1>1. IInv /\ [Next]_vars =>
        [stage' = "completion" /\ CertHolds(attestations) /\ Len(attestations') <= MaxCertSigners =>
           /\ CertHolds(attestations')
           /\ Cardinality({Attestation[a].signer : a \in ToSet(attestations)}) >= CertK]_vars
  <2> SUFFICES ASSUME IInv, Next, stage' = "completion", CertHolds(attestations),
                      Len(attestations') <= MaxCertSigners
               PROVE  /\ CertHolds(attestations')
                      /\ Cardinality({Attestation[a].signer : a \in ToSet(attestations)}) >= CertK
    OBVIOUS
  <2>1. attestations \in Seq(Attestations)
    BY DEF IInv
  <2>2. Cardinality({Attestation[a].signer : a \in ToSet(attestations)}) >= CertK
    BY <2>1, CertSigners
  <2>3. attestations' = attestations \/ \E a \in Attestations : attestations' = Append(attestations, a)
    BY DEF Next, Propose, Tick, Evaluate, Answer, Retry, Release, Attest, Complete, GiveVerdict,
           Mint, Replay, gathered
  <2>4. CASE attestations' = attestations
    BY <2>2, <2>4
  <2>5. ASSUME NEW a \in Attestations, attestations' = Append(attestations, a)
        PROVE  CertHolds(attestations')
    <3> DEFINE listed(names) == [i \in DOMAIN names |-> Attestation[names[i]]]
               n == Len(attestations)
               longer == Append(attestations, a)
    <3>1. /\ n \in Nat /\ DOMAIN attestations = 1 .. n
          /\ longer \in Seq(Attestations) /\ DOMAIN longer = 1 .. n + 1 /\ Len(longer) = n + 1
          /\ \A i \in 1 .. n : longer[i] = attestations[i]
      BY <2>1
    <3>2. \A names \in Seq(Attestations) :
            /\ listed(names) \in Seq(CompletionAttestation) /\ Len(listed(names)) = Len(names)
            /\ \A i \in 1 .. Len(names) : listed(names)[i] = Attestation[names[i]]
      BY RecordAssumption
    <3> DEFINE short == listed(attestations)
               long == listed(longer)
    <3>3. /\ short \in Seq(CompletionAttestation) /\ long \in Seq(CompletionAttestation)
          /\ Len(short) = n /\ Len(long) = n + 1
          /\ \A i \in 1 .. n : long[i] = short[i]
      <4>1. /\ short \in Seq(CompletionAttestation) /\ long \in Seq(CompletionAttestation)
            /\ Len(short) = n /\ Len(long) = n + 1
            /\ \A i \in 1 .. n : short[i] = Attestation[attestations[i]]
            /\ \A i \in 1 .. n + 1 : long[i] = Attestation[longer[i]]
        <5> HIDE DEF listed, longer
        <5> QED BY <2>1, <3>1, <3>2
      <4>2. \A i \in 1 .. n : i \in 1 .. n + 1
        BY <3>1
      <4> HIDE DEF short, long, n, longer
      <4> QED BY <3>1, <4>1, <4>2
    <3>4. VerifyCert(short) /\ Len(long) <= MaxCertSigners
      <4>1. VerifyCert(short)
        BY DEF CertHolds
      <4>2. Len(attestations') = n + 1
        BY <2>5, <3>1
      <4> HIDE DEF n, long, short
      <4> QED BY <3>3, <4>1, <4>2
    <3>5. VerifyCert(long)
      <4> HIDE DEF short, long, n
      <4>1. n <= n + 1
        BY <3>1
      <4> QED BY <3>3, <3>4, <4>1, CertKept
    <3> QED BY <2>5, <3>5 DEF CertHolds
  <2> QED BY <2>2, <2>3, <2>4, <2>5
<1> QED BY <1>1, Invariance, PTL DEF Spec, CertGrowsSafely
-----------------------------------------------------------------------------
(* Verdicts and reputation.                                                *)

\* A list of verdicts, as a function of numbers that stand for its order.
VerdictList(verdicts) == IsFiniteSet(DOMAIN verdicts) /\ DOMAIN verdicts \subseteq Nat

\* The verdict of a verifier that came last is one of its external verdicts.
LEMMA LastIsExternal ==
  ASSUME NEW verdicts, VerdictList(verdicts), NEW external \in SUBSET DOMAIN verdicts,
         NEW i \in external
  PROVE  \E j \in external :
           /\ LastVerdict(verdicts, external, verdicts[i].verifierId) = verdicts[j]
           /\ verdicts[j].verifierId = verdicts[i].verifierId
<1> DEFINE S == {j \in external : verdicts[j].verifierId = verdicts[i].verifierId}
<1>1. S \in SUBSET DOMAIN verdicts /\ S # {} /\ S \in SUBSET Int
  BY DEF VerdictList
<1> HIDE DEF S
<1>2. IsFiniteSet(S)
  BY <1>1, FS_Subset DEF VerdictList
<1>3. Max(S) \in S
  BY <1>1, <1>2, GreatestNumber
<1> QED BY <1>3 DEF LastVerdict, S

\* The verifiers that gave a stance, among those that count.
Gave(verdicts, external, stance) ==
  {verdicts[i].verifierId : i \in {j \in external : verdicts[j].stance = stance}}

LEMMA VerifiersGave ==
  ASSUME NEW verdicts, VerdictList(verdicts), NEW external \in SUBSET DOMAIN verdicts, NEW stance
  PROVE  /\ Verifiers(verdicts, external, stance) \subseteq Gave(verdicts, external, stance)
         /\ ~Equivocation(verdicts, external) =>
              Verifiers(verdicts, external, stance) = Gave(verdicts, external, stance)
<1>1. \A i \in external : \E j \in external :
        /\ LastVerdict(verdicts, external, verdicts[i].verifierId) = verdicts[j]
        /\ verdicts[j].verifierId = verdicts[i].verifierId
  BY LastIsExternal
<1>2. Verifiers(verdicts, external, stance) \subseteq Gave(verdicts, external, stance)
  BY <1>1 DEF Verifiers, Gave
<1>3. ASSUME ~Equivocation(verdicts, external), NEW i \in external, verdicts[i].stance = stance
      PROVE  verdicts[i].verifierId \in Verifiers(verdicts, external, stance)
  <2>1. PICK j \in external :
          /\ LastVerdict(verdicts, external, verdicts[i].verifierId) = verdicts[j]
          /\ verdicts[j].verifierId = verdicts[i].verifierId
    BY <1>1
  <2>2. verdicts[j].stance = stance
    BY <1>3, <2>1 DEF Equivocation
  <2> QED BY <2>1, <2>2 DEF Verifiers
<1> QED BY <1>2, <1>3 DEF Gave

\* What admitDurableWrite decides depends on the verdicts, not on their list.
LEMMA AdmissionBySet ==
  ASSUME NEW hash, NEW vs, NEW ws, VerdictList(vs), VerdictList(ws), Range(vs) = Range(ws)
  PROVE  Admission(hash, vs) = Admission(hash, ws)
<1> DEFINE E(l) == External(l, hash)
<1>1. ASSUME NEW l, NEW m, Range(l) = Range(m), NEW i \in E(l)
      PROVE  \E j \in E(m) : m[j] = l[i]
  <2>1. i \in DOMAIN l /\ \E j \in DOMAIN m : m[j] = l[i]
    BY <1>1 DEF External, Range
  <2> QED BY <2>1 DEF External
<1>2. (\A i \in E(vs) : \E j \in E(ws) : ws[j] = vs[i]) /\ (\A i \in E(ws) : \E j \in E(vs) : vs[j] = ws[i])
  BY <1>1
<1>3. E(vs) \in SUBSET DOMAIN vs /\ E(ws) \in SUBSET DOMAIN ws
  BY DEF External
<1> HIDE DEF E
<1>4. Equivocation(vs, E(vs)) <=> Equivocation(ws, E(ws))
  <2>1. Equivocation(vs, E(vs)) => Equivocation(ws, E(ws))
    BY <1>2 DEF Equivocation
  <2>2. Equivocation(ws, E(ws)) => Equivocation(vs, E(vs))
    BY <1>2 DEF Equivocation
  <2> QED BY <2>1, <2>2
<1>5. E(vs) = {} <=> E(ws) = {}
  BY <1>2
<1>6. CASE Equivocation(vs, E(vs))
  BY <1>4, <1>6 DEF Admission, E
<1>7. CASE ~Equivocation(vs, E(vs))
  <2>1. ASSUME NEW stance PROVE Verifiers(vs, E(vs), stance) = Verifiers(ws, E(ws), stance)
    <3>1. Verifiers(vs, E(vs), stance) = Gave(vs, E(vs), stance)
      BY <1>3, <1>7, VerifiersGave
    <3>2. Verifiers(ws, E(ws), stance) = Gave(ws, E(ws), stance)
      BY <1>3, <1>4, <1>7, VerifiersGave
    <3> QED BY <1>2, <3>1, <3>2 DEF Gave
  <2>2. Verifiers(vs, E(vs), "affirm") = Verifiers(ws, E(ws), "affirm")
        /\ Verifiers(vs, E(vs), "refute") = Verifiers(ws, E(ws), "refute")
    BY <2>1
  <2> QED BY <1>4, <1>5, <1>7, <2>2 DEF Admission, E
<1> QED BY <1>6, <1>7

LEMMA InboxVerdicts ==
  ASSUME NEW names \in Seq(Verdicts)
  PROVE  /\ VerdictList(VerdictsOf(names))
         /\ Range(VerdictsOf(names)) = {Verdict[n] : n \in ToSet(names)}
<1> DEFINE n == Len(names)
           one == 1
<1>1. n \in Nat /\ one \in Int /\ DOMAIN names = one .. n /\ DOMAIN names \subseteq Nat
  OBVIOUS
<1> HIDE DEF n, one
<1>2. IsFiniteSet(DOMAIN names)
  BY <1>1, FS_Interval
<1>3. DOMAIN VerdictsOf(names) = DOMAIN names
      /\ \A i \in DOMAIN names : VerdictsOf(names)[i] = Verdict[names[i]]
  BY DEF VerdictsOf
<1> QED BY <1>1, <1>2, <1>3 DEF VerdictList, Range, ToSet

\* A write is decided alike in whichever order the verdicts come
\* (outcome-verifier.ts:117-120).
THEOREM OrderOfVerdicts == Spec => []VerdictOrderIrrelevant
<1>1. IInv => VerdictOrderIrrelevant
  <2> SUFFICES ASSUME IInv, NEW hash \in Outcomes, NEW order \in SetToSeqs(ToSet(inbox))
               PROVE  Admission(hash, VerdictsOf(order)) = Admission(hash, VerdictsOf(inbox))
    BY DEF VerdictOrderIrrelevant
  <2> DEFINE S == ToSet(inbox)
             n == Cardinality(S)
             one == 1
  <2>1. inbox \in Seq(Verdicts) /\ S \subseteq Verdicts
    BY DEF IInv, ToSet
  <2>2. IsFiniteSet(S)
    <3>1. IsFiniteSet(DOMAIN inbox)
      <4> DEFINE m == Len(inbox)
      <4>1. m \in Nat /\ one \in Int /\ DOMAIN inbox = one .. m
        BY <2>1
      <4> HIDE DEF m, one
      <4> QED BY <4>1, FS_Interval
    <3> QED BY <3>1, ImageOf DEF ToSet
  <2>3. n \in Nat
    BY <2>2, FS_CardinalityType
  <2>4. order \in [1 .. n -> S] /\ \A i, j \in 1 .. n : i # j => order[i] # order[j]
    BY DEF SetToSeqs
  <2> HIDE DEF S, n
  <2>5. order \in Injection(1 .. n, S)
    BY <2>4 DEF Injection, IsInjective
  <2>6. IsFiniteSet(1 .. n) /\ Cardinality(1 .. n) = n
    <3>1. one \in Int /\ n \in Int /\ one = 1
      BY <2>3
    <3> HIDE DEF one
    <3>2. IsFiniteSet(one .. n) /\ Cardinality(one .. n) = IF one > n THEN 0 ELSE n - one + 1
      BY <3>1, FS_Interval
    <3> QED BY <2>3, <3>1, <3>2
  <2>7. order \in Surjection(1 .. n, S)
    BY <2>2, <2>5, <2>6, FS_Injection DEF n
  <2>8. order \in Seq(Verdicts) /\ ToSet(order) = S
    <3>1. DOMAIN order = 1 .. n /\ \A i \in 1 .. n : order[i] \in Verdicts
      BY <2>1, <2>4
    <3>2. order \in Seq(Verdicts)
      BY <2>3, <2>4, <3>1
    <3>3. ToSet(order) = S
      BY <2>4, <2>7, <3>1 DEF ToSet, Surjection
    <3> QED BY <3>2, <3>3
  <2>9. /\ VerdictList(VerdictsOf(order)) /\ VerdictList(VerdictsOf(inbox))
        /\ Range(VerdictsOf(order)) = Range(VerdictsOf(inbox))
    <3>1. /\ VerdictList(VerdictsOf(order)) /\ Range(VerdictsOf(order)) = {Verdict[v] : v \in S}
      BY <2>8, InboxVerdicts
    <3>2. /\ VerdictList(VerdictsOf(inbox)) /\ Range(VerdictsOf(inbox)) = {Verdict[v] : v \in S}
      BY <2>1, InboxVerdicts DEF S
    <3> QED BY <3>1, <3>2
  <2> QED BY <2>9, AdmissionBySet
<1> QED BY <1>1, Invariance, PTL

\* A contributor is credited for affirmed outcomes only, and once for each
\* (reputation.ts:113-124).
THEOREM CreditIsEarned == Spec => []ReputationIsEarned
<1> DEFINE said(hash) == {w \in {Verdict[n] : n \in ToSet(inbox)} :
                            w.outcomeHash = hash /\ w.stance = "affirm"}
           affirmed(hash) == {v.verifierId : v \in said(hash)} \ Contributors
           earned == {hash \in Outcomes : Cardinality(affirmed(hash)) >= MinAffirmations}
<1>1. IInv => ReputationIsEarned
  <2> SUFFICES ASSUME IInv, NEW agent \in Contributors
               PROVE  VerifiedContributions(records, ValidRecords(agent, records)) <= Cardinality(earned)
    BY DEF ReputationIsEarned
  <2> DEFINE valid == ValidRecords(agent, records)
             credited == {records[i].outcomeHash : i \in valid}
  <2>1. ASSUME NEW hash PROVE IsFiniteSet(affirmed(hash))
    <3> DEFINE g == [i \in DOMAIN inbox |-> Verdict[inbox[i]].verifierId]
               n == Len(inbox)
               one == 1
    <3>1. n \in Nat /\ one \in Int /\ DOMAIN inbox = one .. n
      BY DEF IInv
    <3>2. affirmed(hash) \in SUBSET {g[i] : i \in DOMAIN inbox}
      BY DEF ToSet
    <3> HIDE DEF n, one, g, affirmed
    <3>3. IsFiniteSet(DOMAIN inbox)
      BY <3>1, FS_Interval
    <3>4. IsFiniteSet({g[i] : i \in DOMAIN inbox})
      BY <3>3, ImageOf
    <3> QED BY <3>2, <3>4, FS_Subset
  <2>2. ASSUME NEW i \in valid PROVE records[i].outcomeHash \in earned
    <3> DEFINE r == records[i]
               verdicts == r.verdicts
               hash == r.outcomeHash
               external == External(verdicts, hash)
               affirmers == Verifiers(verdicts, external, "affirm")
    <3>1. i \in DOMAIN records /\ Admission(hash, verdicts) = "none"
      BY DEF ValidRecords, VerifyPerformanceRecord, MayMint
    <3>2. ~(Cardinality(affirmers) < MinAffirmations)
      BY <3>1 DEF Admission
    <3>3. /\ r \in Minted /\ IsFiniteSet(DOMAIN verdicts)
          /\ \A j \in DOMAIN verdicts : \E n \in ToSet(inbox) : verdicts[j] = Verdict[n]
      <4>1. records \in Seq(Minted)
        BY DEF IInv, RecordsOK
      <4>2. r \in Minted
        BY <3>1, <4>1
      <4> QED BY <3>1, <4>2 DEF IInv, RecordsOK
    <3>4. hash \in Outcomes /\ DOMAIN verdicts \subseteq Nat
      BY <3>3 DEF Minted
    <3> HIDE DEF r, verdicts, hash
    <3>5. external \in SUBSET DOMAIN verdicts
      BY DEF External
    <3>6. affirmers \subseteq Gave(verdicts, external, "affirm")
      <4>1. VerdictList(verdicts)
        BY <3>3, <3>4 DEF VerdictList
      <4> HIDE DEF external
      <4> QED BY <3>5, <4>1, VerifiersGave
    <3>7. \A j \in external :
            verdicts[j].verifierId \notin Contributors /\ verdicts[j].outcomeHash = hash
      BY DEF External
    <3> HIDE DEF external, affirmers
    <3>8. affirmers \subseteq affirmed(hash)
      BY <3>3, <3>5, <3>6, <3>7 DEF Gave
    <3> HIDE DEF affirmed
    <3>9. IsFiniteSet(affirmed(hash)) /\ Cardinality(affirmed(hash)) \in Nat
      BY <2>1, FS_CardinalityType
    <3>10. IsFiniteSet(affirmers) /\ Cardinality(affirmers) <= Cardinality(affirmed(hash))
      BY <3>8, <3>9, FS_Subset
    <3>11. Cardinality(affirmers) \in Nat
      BY <3>10, FS_CardinalityType
    <3>12. Cardinality(affirmed(hash)) >= MinAffirmations
      BY <3>2, <3>9, <3>10, <3>11, OutcomePolicyAssumption DEF affirmers
    <3> QED BY <3>4, <3>12 DEF r, hash
  <2> HIDE DEF affirmed, valid
  <2>3. earned \in SUBSET Outcomes /\ credited \in SUBSET earned
    BY <2>2
  <2> HIDE DEF earned, credited
  <2>4. IsFiniteSet(earned)
    BY <2>3, RecordAssumption, FS_Subset
  <2>5. Cardinality(credited) <= Cardinality(earned)
    BY <2>3, <2>4, FS_Subset
  <2> QED BY <2>5 DEF VerifiedContributions, credited, valid
<1> QED BY <1>1, Invariance, PTL
=============================================================================
