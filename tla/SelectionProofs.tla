-------------------------- MODULE SelectionProofs --------------------------
(***************************************************************************)
(* What Select returns, for every sequence and set, by induction on the    *)
(* length of a prefix.  The induction theorems of the library have an      *)
(* operator as parameter; the one here speaks of a set of numbers.         *)
(***************************************************************************)
EXTENDS Selection, FiniteSetTheorems, TLAPS

(* A set of numbers has a least element: among the finite sets of its      *)
(* numbers up to one of them, there is a smallest.                         *)
LEMMA LeastNumber ==
    ASSUME NEW T \in SUBSET Nat, T # {}
    PROVE  \E x \in T : \A y \in T : x <= y
<1> DEFINE UpTo(x) == T \cap (0..x)
<1>1. PICK n \in T : TRUE
  OBVIOUS
<1> DEFINE Family == {UpTo(x) : x \in UpTo(n)}
<1>2. IsFiniteSet(0..n)
  BY FS_Interval
<1>3. IsWellFoundedOn(StrictSubsetOrdering(0..n), SUBSET (0..n))
  BY <1>2, FS_StrictSubsetOrderingWellFounded, FS_FiniteSubsetsOfFinite
<1>4. Family \subseteq SUBSET (0..n) /\ Family # {}
  <2>1. \A x \in UpTo(n) : UpTo(x) \subseteq 0..n
    BY <1>1
  <2>2. n \in UpTo(n)
    BY <1>1
  <2>3. QED BY <2>1, <2>2
<1>5. PICK F \in Family : \A G \in Family : <<G, F>> \notin StrictSubsetOrdering(0..n)
  BY <1>3, <1>4, WFMin
<1>6. PICK x \in UpTo(n) : F = UpTo(x)
  BY <1>5
<1>7. ASSUME NEW y \in T, y < x PROVE FALSE
  <2>1. y \in UpTo(n) /\ x \notin UpTo(y) /\ x \in UpTo(x) /\ UpTo(y) \subseteq UpTo(x)
    BY <1>6, <1>7
  <2>2. UpTo(y) \in Family /\ UpTo(x) \in Family
    BY <2>1, <1>6
  <2>3. <<UpTo(y), UpTo(x)>> \in StrictSubsetOrdering(0..n)
    BY <2>1, <2>2, <1>4 DEF StrictSubsetOrdering
  <2>4. QED BY <2>2, <2>3, <1>5, <1>6
<1>8. QED BY <1>6, <1>7

(* Induction up to a bound, over a set of numbers. *)
LEMMA CountingUp ==
    ASSUME NEW m \in Nat, NEW S, 0 \in S,
           \A n \in 0..m : n \in S /\ n < m => n + 1 \in S
    PROVE  0..m \subseteq S
<1>1. SUFFICES ASSUME (0..m) \ S # {} PROVE FALSE
  OBVIOUS
<1>2. PICK x \in (0..m) \ S : \A y \in (0..m) \ S : x <= y
  <2>1. (0..m) \ S \in SUBSET Nat
    OBVIOUS
  <2>2. QED BY <1>1, <2>1, LeastNumber
<1>3. x # 0 /\ x - 1 \in 0..m /\ x - 1 \in S
  BY <1>2
<1>4. QED BY <1>2, <1>3

Step(kept, s, S, i) == IF s[i] \in S THEN Append(kept, s[i]) ELSE kept

(* The recursion has a solution, so that SelectedUpTo is one.              *)
LEMMA SelectionIsDefined ==
    ASSUME NEW s, NEW S, Len(s) \in Nat
    PROVE  SelectedUpTo(s, S) =
             [i \in 0..Len(s) |-> IF i = 0 THEN <<>> ELSE Step(SelectedUpTo(s, S)[i - 1], s, S, i)]
<1> DEFINE Solves(f, n) == f = [i \in 0..n |-> IF i = 0 THEN <<>> ELSE Step(f[i - 1], s, S, i)]
           Solvable == {n \in 0..Len(s) : \E f : Solves(f, n)}
<1>1. 0 \in Solvable
  <2>1. Solves([i \in 0..0 |-> <<>>], 0)
    OBVIOUS
  <2>2. \E f : Solves(f, 0)
    BY <2>1
  <2> HIDE DEF Solves
  <2>3. QED BY <2>2
<1>2. ASSUME NEW n \in 0..Len(s), n \in Solvable, n < Len(s)
      PROVE  n + 1 \in Solvable
  <2>1. PICK h : Solves(h, n)
    BY <1>2
  <2> DEFINE g == [i \in 0..(n + 1) |-> IF i = n + 1 THEN Step(h[n], s, S, i) ELSE h[i]]
  <2>2. \A i \in 0..(n + 1) : g[i] = IF i = 0 THEN <<>> ELSE Step(g[i - 1], s, S, i)
    <3>1. ASSUME NEW i \in 0..n PROVE g[i] = h[i]
      OBVIOUS
    <3>2. ASSUME NEW i \in 0..n
          PROVE  h[i] = IF i = 0 THEN <<>> ELSE Step(h[i - 1], s, S, i)
      BY <2>1
    <3>3. g[n + 1] = Step(h[n], s, S, n + 1) /\ n + 1 # 0 /\ g[n] = h[n]
      OBVIOUS
    <3> HIDE DEF g
    <3>4. ASSUME NEW i \in 0..n, i # 0 PROVE i - 1 \in 0..n
      BY <3>4
    <3>5. QED BY <3>1, <3>2, <3>3, <3>4
  <2>3. Solves(g, n + 1)
    <3>1. g = [i \in 0..(n + 1) |-> g[i]]
      OBVIOUS
    <3> HIDE DEF g
    <3>2. QED BY <2>2, <3>1
  <2>4. \E f : Solves(f, n + 1)
    BY <2>3
  <2> HIDE DEF Solves
  <2>5. QED BY <2>4, <1>2
<1>3. 0..Len(s) \subseteq Solvable
  <2> HIDE DEF Solvable
  <2>1. QED BY <1>1, <1>2, CountingUp
<1>4. PICK f : Solves(f, Len(s))
  BY <1>3
<1>5. QED BY <1>4 DEF SelectedUpTo, Step

(* A longer prefix adds its last element, if it is selected.               *)
LEMMA SelectionSteps ==
    ASSUME NEW s, NEW S, Len(s) \in Nat
    PROVE  /\ SelectedUpTo(s, S)[0] = <<>>
           /\ \A i \in 1..Len(s) :
                 SelectedUpTo(s, S)[i] = Step(SelectedUpTo(s, S)[i - 1], s, S, i)
<1> DEFINE kept == SelectedUpTo(s, S)
<1>1. kept = [i \in 0..Len(s) |-> IF i = 0 THEN <<>> ELSE Step(kept[i - 1], s, S, i)]
  BY SelectionIsDefined
<1> HIDE DEF kept
<1>2. 0 \in 0..Len(s) /\ \A i \in 1..Len(s) : i \in 0..Len(s) /\ i # 0
  OBVIOUS
<1>3. kept[0] = <<>> /\ \A i \in 1..Len(s) : kept[i] = Step(kept[i - 1], s, S, i)
  BY <1>1, <1>2
<1>4. QED BY <1>3 DEF kept

Listed(s, S, n) == {i \in 1..n : s[i] \in S}
Rank(s, S, i) == Cardinality(Listed(s, S, i))

(* Ranks grow by one with each listed index. *)
LEMMA Ranks ==
    ASSUME NEW s, NEW S, NEW n \in Nat
    PROVE  /\ IsFiniteSet(Listed(s, S, n)) /\ Rank(s, S, n) \in Nat
           /\ Rank(s, S, 0) = 0
           /\ Rank(s, S, n) <= n
           /\ \A i \in Listed(s, S, n) : Rank(s, S, i) \in 1..Rank(s, S, n)
           /\ Rank(s, S, n + 1) = Rank(s, S, n) + (IF s[n + 1] \in S THEN 1 ELSE 0)
<1>1. \A m \in Nat : IsFiniteSet(Listed(s, S, m)) /\ Rank(s, S, m) \in Nat /\ Rank(s, S, m) <= m
  <2>1. ASSUME NEW m \in Nat
        PROVE  IsFiniteSet(Listed(s, S, m)) /\ Rank(s, S, m) \in Nat /\ Rank(s, S, m) <= m
    <3>1. IsFiniteSet(1..m) /\ Cardinality(1..m) = IF 1 > m THEN 0 ELSE m - 1 + 1
      BY FS_Interval
    <3>2. Cardinality(1..m) = m
      BY <3>1
    <3>3. Listed(s, S, m) \in SUBSET (1..m)
      BY DEF Listed
    <3>4. IsFiniteSet(Listed(s, S, m)) /\ Rank(s, S, m) <= Cardinality(1..m)
      BY <3>1, <3>3, FS_Subset DEF Rank
    <3>5. QED BY <3>2, <3>4, FS_CardinalityType DEF Rank
  <2>2. QED BY <2>1
<1>2. Rank(s, S, 0) = 0
  <2>1. Listed(s, S, 0) = {} BY DEF Listed
  <2>2. QED BY <2>1, FS_EmptySet DEF Rank
<1>3. ASSUME NEW i \in Listed(s, S, n) PROVE Rank(s, S, i) \in 1..Rank(s, S, n)
  <2>1. i \in 1..n /\ i \in Listed(s, S, i) /\ Listed(s, S, i) \in SUBSET Listed(s, S, n)
    BY <1>3 DEF Listed
  <2>2. Rank(s, S, i) <= Rank(s, S, n)
    BY <1>1, <2>1, FS_Subset DEF Rank
  <2>3. Rank(s, S, i) # 0
    BY <1>1, <2>1, FS_EmptySet DEF Rank
  <2>4. QED BY <1>1, <2>1, <2>2, <2>3
<1>4. Rank(s, S, n + 1) = Rank(s, S, n) + (IF s[n + 1] \in S THEN 1 ELSE 0)
  <2>1. CASE s[n + 1] \in S
    <3>1. Listed(s, S, n + 1) = Listed(s, S, n) \cup {n + 1} /\ n + 1 \notin Listed(s, S, n)
      BY <2>1 DEF Listed
    <3>2. Cardinality(Listed(s, S, n) \cup {n + 1}) = Cardinality(Listed(s, S, n)) + 1
      BY <3>1, <1>1, FS_AddElement
    <3>3. QED BY <2>1, <3>1, <3>2 DEF Rank
  <2>2. CASE s[n + 1] \notin S
    <3>1. Listed(s, S, n + 1) = Listed(s, S, n)
      BY <2>2 DEF Listed
    <3>2. QED BY <2>2, <3>1, <1>1 DEF Rank
  <2>3. QED BY <2>1, <2>2
<1>5. QED BY <1>1, <1>2, <1>3, <1>4

(* Of each prefix the listed elements are selected, each at its rank.      *)
LEMMA SelectedAtRank ==
    ASSUME NEW G, NEW s \in Seq(G), NEW S, NEW n \in 0..Len(s)
    PROVE  /\ SelectedUpTo(s, S)[n] \in Seq(G \cap S)
           /\ Len(SelectedUpTo(s, S)[n]) = Rank(s, S, n)
           /\ \A i \in Listed(s, S, n) : SelectedUpTo(s, S)[n][Rank(s, S, i)] = s[i]
<1> DEFINE kept == SelectedUpTo(s, S)
           Good(m) == /\ kept[m] \in Seq(G \cap S)
                      /\ Len(kept[m]) = Rank(s, S, m)
                      /\ \A i \in Listed(s, S, m) : kept[m][Rank(s, S, i)] = s[i]
           Goods == {m \in 0..Len(s) : Good(m)}
<1>1. Len(s) \in Nat /\ kept[0] = <<>> /\ \A i \in 1..Len(s) : kept[i] = Step(kept[i - 1], s, S, i)
  BY SelectionSteps
<1> HIDE DEF kept
<1>2. Good(0)
  <2>1. Listed(s, S, 0) = {} BY DEF Listed
  <2>2. Rank(s, S, 0) = 0 BY Ranks
  <2>3. QED BY <1>1, <2>1, <2>2
<1>3. ASSUME NEW m \in 0..Len(s), Good(m), m < Len(s) PROVE Good(m + 1)
  <2>0. m \in Nat /\ m + 1 \in 1..Len(s) /\ s[m + 1] \in G /\ (m + 1) - 1 = m
    BY <1>1, <1>3
  <2>1. kept[m + 1] = Step(kept[m], s, S, m + 1)
    BY <1>1, <2>0
  <2>2. /\ Rank(s, S, m + 1) = Rank(s, S, m) + (IF s[m + 1] \in S THEN 1 ELSE 0)
        /\ Rank(s, S, m) \in Nat
        /\ \A i \in Listed(s, S, m) : Rank(s, S, i) \in 1..Rank(s, S, m)
    BY <2>0, Ranks
  <2>3. CASE s[m + 1] \in S
    <3>1. kept[m + 1] = Append(kept[m], s[m + 1])
      BY <2>1, <2>3 DEF Step
    <3>2. kept[m + 1] \in Seq(G \cap S) /\ Len(kept[m + 1]) = Rank(s, S, m + 1)
      BY <3>1, <2>0, <2>2, <2>3, <1>3
    <3>3. Listed(s, S, m + 1) = Listed(s, S, m) \cup {m + 1}
      BY <2>0, <2>3 DEF Listed
    <3>4. ASSUME NEW i \in Listed(s, S, m) PROVE kept[m + 1][Rank(s, S, i)] = s[i]
      <4>1. Rank(s, S, i) \in 1..Len(kept[m]) /\ kept[m][Rank(s, S, i)] = s[i]
        BY <2>2, <1>3
      <4>2. QED BY <3>1, <4>1, <1>3, <2>0, <2>3
    <3>5. kept[m + 1][Rank(s, S, m + 1)] = s[m + 1]
      BY <3>1, <2>0, <2>2, <2>3, <1>3
    <3>6. QED BY <3>2, <3>3, <3>4, <3>5
  <2>4. CASE s[m + 1] \notin S
    <3>1. kept[m + 1] = kept[m]
      BY <2>1, <2>4 DEF Step
    <3>2. Listed(s, S, m + 1) = Listed(s, S, m) /\ Rank(s, S, m + 1) = Rank(s, S, m)
      BY <2>0, <2>2, <2>4 DEF Listed
    <3>3. QED BY <3>1, <3>2, <1>3
  <2>5. QED BY <2>3, <2>4
<1>4. 0..Len(s) \subseteq Goods
  <2>1. 0 \in Goods
    <3>1. Good(0) /\ 0 \in 0..Len(s) BY <1>1, <1>2
    <3> HIDE DEF Good
    <3>2. QED BY <3>1
  <2>2. ASSUME NEW m \in 0..Len(s), m \in Goods, m < Len(s) PROVE m + 1 \in Goods
    <3>1. Good(m) BY <2>2
    <3>2. m + 1 \in 0..Len(s) BY <2>2, <1>1
    <3> HIDE DEF Good
    <3>3. QED BY <3>1, <3>2, <2>2, <1>3
  <2> HIDE DEF Goods
  <2>3. QED BY <2>1, <2>2, <1>1, CountingUp
<1>5. Good(n)
  BY <1>4
<1>6. QED BY <1>5 DEF kept
=============================================================================
