----------------------------- MODULE FiniteFacts -----------------------------
(***************************************************************************)
(* Facts about finite sets, the orders of their members and sequences that *)
(* the proofs of several modules need.                                     *)
(***************************************************************************)
EXTENDS SequencesExt, FiniteSetTheorems, SequenceTheorems, TLAPS

\* A finite set of numbers has a greatest one: of the sets of greater numbers, one
\* for each member, a smallest one is empty (WFMin).
LEMMA GreatestExists ==
  ASSUME NEW S \in SUBSET Nat, IsFiniteSet(S), S # {}
  PROVE  \E m \in S : \A y \in S : y <= m
<1> DEFINE Above(m) == {y \in S : y > m}
           T == {Above(m) : m \in S}
<1>1. T \subseteq FiniteSubsetsOf(S) /\ T # {}
  <2>1. FiniteSubsetsOf(S) = SUBSET S
    BY FS_FiniteSubsetsOfFinite
  <2>2. \A m \in S : Above(m) \in SUBSET S
    OBVIOUS
  <2>3. \E m : m \in S
    OBVIOUS
  <2>4. T # {}
    BY <2>3
  <2>5. T \subseteq SUBSET S
    BY <2>2
  <2> QED
    BY <2>1, <2>4, <2>5
<1>2. IsWellFoundedOn(StrictSubsetOrdering(S), FiniteSubsetsOf(S))
  BY FS_StrictSubsetOrderingWellFounded
<1>3. \E A \in T : \A B \in T : <<B, A>> \notin StrictSubsetOrdering(S)
  <2> HIDE DEF T
  <2> QED
    BY <1>1, <1>2, WFMin
<1>4. PICK m \in S : \A B \in T : <<B, Above(m)>> \notin StrictSubsetOrdering(S)
  BY <1>3
<1>5. SUFFICES ASSUME NEW y \in S, y > m PROVE FALSE
  BY <1>4
<1>6. Above(y) \subseteq Above(m) /\ Above(y) # Above(m)
  <2>1. y \in Above(m) /\ y \notin Above(y)
    BY <1>5
  <2>2. \A x \in S : x > y => x > m
    BY <1>5
  <2> QED
    BY <2>1, <2>2
<1>7. <<Above(y), Above(m)>> \in StrictSubsetOrdering(S)
  BY <1>6 DEF StrictSubsetOrdering
<1> QED
  BY <1>4, <1>7

\* There are only finitely many ways through the systems: a function is known by
\* the set of its pairs.
LEMMA FunctionsFinite ==
  ASSUME NEW S, IsFiniteSet(S), NEW k \in Nat
  PROVE  IsFiniteSet([1..k -> S])
<1> DEFINE pairs == [f \in [1..k -> S] |-> {<<i, f[i]>> : i \in 1..k}]
           targets == SUBSET ((1..k) \X S)
<1>1. IsFiniteSet(targets)
  <2>1. IsFiniteSet(1..k)
    BY FS_Interval
  <2>2. IsFiniteSet((1..k) \X S)
    BY <2>1, FS_Product
  <2> QED
    BY <2>2, FS_SUBSET
<1>2. pairs \in [[1..k -> S] -> targets]
  OBVIOUS
<1>3. ASSUME NEW f \in [1..k -> S], NEW g \in [1..k -> S], pairs[f] = pairs[g]
      PROVE  f = g
  <2>1. ASSUME NEW i \in 1..k PROVE f[i] = g[i]
    <3>1. <<i, f[i]>> \in pairs[f]
      OBVIOUS
    <3>2. \E j \in 1..k : <<i, f[i]>> = <<j, g[j]>>
      BY <1>3, <3>1
    <3> QED
      BY <3>2
  <2> QED
    BY <2>1
<1>4. pairs \in Injection([1..k -> S], targets)
  BY <1>2, <1>3 DEF Injection, IsInjective
<1> QED
  <2> HIDE DEF pairs, targets
  <2> QED
    BY <1>1, <1>4, FS_Injection

\* SetToSeqs: every member of a finite set has exactly one place.
LEMMA OrderOfSet ==
  ASSUME NEW S, IsFiniteSet(S), NEW order \in SetToSeqs(S)
  PROVE  /\ order \in Seq(S)
         /\ \A i, j \in DOMAIN order : order[i] = order[j] => i = j
         /\ \A x \in S : \E i \in DOMAIN order : order[i] = x
<1> DEFINE D == 1..Cardinality(S)
<1>1. Cardinality(S) \in Nat
  BY FS_CardinalityType
<1>2. order \in [D -> S] /\ \A i, j \in D : i # j => order[i] # order[j]
  BY DEF SetToSeqs
<1>3. order \in Injection(D, S)
  BY <1>2 DEF Injection, IsInjective
<1>4. IsFiniteSet(D) /\ Cardinality(D) = Cardinality(S)
  BY <1>1, FS_Interval
<1>5. order \in Surjection(D, S)
  <2> HIDE DEF D
  <2> QED
    BY <1>3, <1>4, FS_Injection
<1> QED
  BY <1>1, <1>2, <1>5 DEF Surjection

-----------------------------------------------------------------------------
\* A place of a sequence that has grown by one.
LEMMA Places ==
  ASSUME NEW S, NEW seq \in Seq(S), NEW x \in S
  PROVE  /\ DOMAIN Append(seq, x) = 1..Len(seq) + 1
         /\ \A i \in DOMAIN Append(seq, x) :
              \/ i \in DOMAIN seq /\ Append(seq, x)[i] = seq[i]
              \/ i = Len(seq) + 1 /\ Append(seq, x)[i] = x
<1>1. /\ Append(seq, x) \in Seq(S) /\ Len(Append(seq, x)) = Len(seq) + 1
      /\ \A i \in 1..Len(seq) : Append(seq, x)[i] = seq[i]
      /\ Append(seq, x)[Len(seq) + 1] = x
  BY AppendProperties
<1>2. DOMAIN Append(seq, x) = 1..Len(seq) + 1 /\ DOMAIN seq = 1..Len(seq) /\ Len(seq) \in Nat
  BY <1>1, LenProperties
<1> QED
  BY <1>1, <1>2

LEMMA NoPlaces == \A seq : seq = <<>> => DOMAIN seq = {}
OBVIOUS

-----------------------------------------------------------------------------
(***************************************************************************)
(* Sorting by counting: under a strict total order of a finite set, given  *)
(* by its pairs, each member has its own rank, the number of those before  *)
(* it, and every rank is taken.                                            *)
(***************************************************************************)
StrictOrder(R, S) ==
  /\ \A x \in S : <<x, x>> \notin R
  /\ \A x, y, z \in S : <<x, y>> \in R /\ <<y, z>> \in R => <<x, z>> \in R
  /\ \A x, y \in S : x = y \/ <<x, y>> \in R \/ <<y, x>> \in R

Rank(R, S, x) == Cardinality({y \in S : <<y, x>> \in R})

LEMMA SmallerRank ==
  ASSUME NEW S, IsFiniteSet(S), NEW R, StrictOrder(R, S), NEW x \in S, NEW y \in S,
         <<x, y>> \in R
  PROVE  Rank(R, S, x) < Rank(R, S, y)
<1> DEFINE A == {z \in S : <<z, x>> \in R}
           B == {z \in S : <<z, y>> \in R}
<1>1. A \subseteq B /\ x \in B /\ x \notin A
  BY DEF StrictOrder
<1>2. IsFiniteSet(A) /\ IsFiniteSet(B)
  BY FS_Subset
<1>3. Cardinality(A) \in Nat /\ Cardinality(B) \in Nat
  BY <1>2, FS_CardinalityType
<1>4. Cardinality(A) < Cardinality(B)
  <2> HIDE DEF A, B
  <2>1. A # B
    BY <1>1
  <2>2. Cardinality(A) <= Cardinality(B) /\ (Cardinality(A) = Cardinality(B) => A = B)
    BY <1>1, <1>2, FS_Subset
  <2> QED
    BY <1>3, <2>1, <2>2
<1> QED
  BY <1>4 DEF Rank

LEMMA RanksTaken ==
  ASSUME NEW S, IsFiniteSet(S), NEW R, StrictOrder(R, S)
  PROVE  /\ \A x \in S : Rank(R, S, x) \in 0..Cardinality(S) - 1
         /\ \A x, y \in S : Rank(R, S, x) = Rank(R, S, y) => x = y
         /\ \A n \in 0..Cardinality(S) - 1 : \E x \in S : Rank(R, S, x) = n
<1> DEFINE N == Cardinality(S)
           rank == [x \in S |-> Rank(R, S, x)]
<1>1. N \in Nat
  BY FS_CardinalityType
<1>2. ASSUME NEW x \in S PROVE Rank(R, S, x) \in 0..N - 1
  <2> DEFINE A == {y \in S : <<y, x>> \in R}
  <2>1. A \subseteq S /\ A # S
    BY DEF StrictOrder
  <2>2. IsFiniteSet(A) /\ Cardinality(A) \in Nat
    BY <2>1, FS_Subset, FS_CardinalityType
  <2> HIDE DEF A
  <2>3. Cardinality(A) <= N /\ Cardinality(A) # N
    BY <2>1, FS_Subset
  <2>4. Cardinality(A) \in 0..N - 1
    BY <1>1, <2>2, <2>3
  <2> QED
    BY <2>4 DEF A, Rank
<1>3. ASSUME NEW x \in S, NEW y \in S, Rank(R, S, x) = Rank(R, S, y) PROVE x = y
  <2>1. Rank(R, S, x) \in Nat /\ Rank(R, S, y) \in Nat
    BY <1>1, <1>2
  <2>2. <<x, y>> \notin R
    BY <1>3, <2>1, SmallerRank
  <2>3. <<y, x>> \notin R
    BY <1>3, <2>1, SmallerRank
  <2> QED
    BY <2>2, <2>3 DEF StrictOrder
<1>4. rank \in Injection(S, 0..N - 1)
  BY <1>2, <1>3 DEF Injection, IsInjective
<1>5. IsFiniteSet(0..N - 1) /\ Cardinality(0..N - 1) = N
  BY <1>1, FS_Interval
<1>6. rank \in Surjection(S, 0..N - 1)
  <2> HIDE DEF rank
  <2> QED
    BY <1>4, <1>5, FS_Injection
<1>7. \A n \in 0..N - 1 : \E x \in S : Rank(R, S, x) = n
  BY <1>6 DEF Surjection
<1> QED
  BY <1>2, <1>3, <1>7

-----------------------------------------------------------------------------
\* One after the other: a sequence that has each member of a set in one place.
EachOnce(seq, S) ==
  /\ seq \in Seq(S)
  /\ \A i, j \in DOMAIN seq : seq[i] = seq[j] => i = j
  /\ \A x \in S : \E i \in DOMAIN seq : seq[i] = x

LEMMA Concatenated ==
  ASSUME NEW S, NEW T, S \cap T = {}, NEW s, NEW t, EachOnce(s, S), EachOnce(t, T)
  PROVE  EachOnce(s \o t, S \cup T)
<1> DEFINE m == Len(s)
           n == Len(t)
           c == s \o t
<1>1. s \in Seq(S \cup T) /\ t \in Seq(S \cup T)
  <2>1. s \in Seq(S) /\ t \in Seq(T)
    BY DEF EachOnce
  <2> QED
    BY <2>1, SeqMonotonic
<1>2. /\ c \in Seq(S \cup T) /\ Len(c) = m + n
      /\ \A i \in 1..m + n : c[i] = IF i <= m THEN s[i] ELSE t[i - m]
  BY <1>1, ConcatProperties
<1>3. /\ DOMAIN s = 1..m /\ DOMAIN t = 1..n /\ DOMAIN c = 1..m + n
      /\ m \in Nat /\ n \in Nat
  BY <1>1, <1>2, LenProperties
<1>4. (\A i \in 1..m : s[i] \in S) /\ (\A i \in 1..n : t[i] \in T)
  BY <1>3, ElementOfSeq DEF EachOnce
<1> HIDE DEF m, n, c
<1>5. ASSUME NEW i \in DOMAIN c, NEW j \in DOMAIN c, c[i] = c[j] PROVE i = j
  <2>1. i \in 1..m + n /\ j \in 1..m + n
    BY <1>3
  <2>2. CASE i <= m /\ j <= m
    <3>1. i \in 1..m /\ j \in 1..m
      BY <1>3, <2>1, <2>2
    <3> QED
      BY <1>2, <1>3, <1>5, <2>1, <2>2, <3>1 DEF EachOnce
  <2>3. CASE i > m /\ j > m
    <3>1. i - m \in 1..n /\ j - m \in 1..n
      BY <1>3, <2>1, <2>3
    <3>2. t[i - m] = t[j - m]
      BY <1>2, <1>3, <1>5, <2>1, <2>3
    <3>3. i - m = j - m
      BY <1>3, <3>1, <3>2 DEF EachOnce
    <3> QED
      BY <1>3, <2>1, <3>3
  <2>4. CASE i <= m /\ j > m
    <3>1. i \in 1..m /\ j - m \in 1..n
      BY <1>3, <2>1, <2>4
    <3>2. c[i] = s[i] /\ c[j] = t[j - m]
      BY <1>2, <1>3, <2>1, <2>4
    <3> QED
      BY <1>4, <1>5, <3>1, <3>2
  <2>5. CASE i > m /\ j <= m
    <3>1. j \in 1..m /\ i - m \in 1..n
      BY <1>3, <2>1, <2>5
    <3>2. c[j] = s[j] /\ c[i] = t[i - m]
      BY <1>2, <1>3, <2>1, <2>5
    <3> QED
      BY <1>4, <1>5, <3>1, <3>2
  <2> QED
    BY <1>3, <2>1, <2>2, <2>3, <2>4, <2>5
<1>6. ASSUME NEW x \in S \cup T PROVE \E i \in DOMAIN c : c[i] = x
  <2>1. CASE x \in S
    <3>1. PICK i \in 1..m : s[i] = x
      BY <1>3, <2>1 DEF EachOnce
    <3>2. i \in 1..m + n /\ i <= m
      BY <1>3
    <3> QED
      BY <1>2, <1>3, <3>1, <3>2
  <2>2. CASE x \in T
    <3>1. PICK i \in 1..n : t[i] = x
      BY <1>3, <2>2 DEF EachOnce
    <3>2. PICK k : k = i + m
      OBVIOUS
    <3>3. k \in 1..m + n /\ ~(k <= m) /\ k - m = i
      BY <1>3, <3>2
    <3>4. c[k] = t[k - m]
      BY <1>2, <3>3
    <3> QED
      BY <1>3, <3>1, <3>3, <3>4
  <2> QED
    BY <2>1, <2>2
<1>7. EachOnce(c, S \cup T)
  BY <1>2, <1>5, <1>6 DEF EachOnce
<1> QED
  BY <1>7 DEF c
=============================================================================
