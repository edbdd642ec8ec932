---------------------------- MODULE SharedLemmas ----------------------------
(***************************************************************************)
(* Facts about numbers, finite sets and sequences that the proofs of       *)
(* several modules use.                                                    *)
(***************************************************************************)
EXTENDS Integers, Sequences, SequencesExt, FiniteSetTheorems,
        WellFoundedInduction, TLAPS

\* A set of naturals that is not empty has a least element.
LEMMA LeastNatural ==
    ASSUME NEW S, S \subseteq Nat, S # {}
    PROVE  \E n \in S : \A m \in S : n <= m
<1>1. PICK n \in S : \A m \in S : ~ (<<m, n>> \in OpToRel(<, Nat))
  BY NatLessThanWellFounded, WFMin
<1>2. ASSUME NEW m \in S PROVE n <= m
  <2>1. n \in Nat /\ m \in Nat
    OBVIOUS
  <2>2. m < n => <<m, n>> \in OpToRel(<, Nat)
    BY <2>1 DEF OpToRel
  <2>3. ~ (m < n)
    BY <1>1, <2>2
  <2> QED
    BY <2>1, <2>3
<1> QED
  BY <1>2

\* Induction: a set that has each natural all of whose predecessors it has is
\* the set of all naturals.
LEMMA StrongInduction ==
    ASSUME NEW S, \A n \in Nat : (\A m \in 0 .. n - 1 : m \in S) => n \in S
    PROVE  \A n \in Nat : n \in S
<1> DEFINE Bad == Nat \ S
<1>1. SUFFICES ASSUME Bad # {} PROVE FALSE
  OBVIOUS
<1>2. PICK n \in Bad : \A m \in Bad : n <= m
  BY <1>1, LeastNatural
<1>3. \A m \in 0 .. n - 1 : m \in S
  BY <1>2
<1> QED
  BY <1>3

\* A finite set of numbers that is not empty has a greatest element.
LEMMA FiniteHasGreatest ==
    ASSUME NEW S, IsFiniteSet(S), S \subseteq Int, S # {}
    PROVE  \E n \in S : \A m \in S : m <= n
<1> DEFINE HasOne(T) == \E n \in T : \A m \in T : m <= n
           Bad == {T \in SUBSET S : T # {} /\ ~HasOne(T)}
           Sizes == {Cardinality(T) : T \in Bad}
<1>1. SUFFICES ASSUME Bad # {} PROVE FALSE
  OBVIOUS
<1>2. Sizes \subseteq Nat /\ Sizes # {}
  <2>1. \A T \in Bad : Cardinality(T) \in Nat
    BY FS_Subset, FS_CardinalityType
  <2> QED
    BY <1>1, <2>1
<1>3. PICK k \in Sizes : \A j \in Sizes : k <= j
  BY <1>2, LeastNatural
<1>4. PICK T \in Bad : Cardinality(T) = k
  BY <1>3
<1>5. PICK x \in T : TRUE
  OBVIOUS
<1> DEFINE U == T \ {x}
<1>6. Cardinality(U) = k - 1 /\ k \in Nat
  BY <1>2, <1>3, <1>4, <1>5, FS_Subset, FS_RemoveElement
<1>7. U \notin Bad
  <2>1. U \in Bad => Cardinality(U) \in Sizes
    OBVIOUS
  <2> HIDE DEF Bad, Sizes, U
  <2> QED
    BY <1>2, <1>3, <1>6, <2>1
<1>8. U # {} 
  <2>1. SUFFICES ASSUME U = {} PROVE FALSE
    OBVIOUS
  <2>2. T = {x} /\ x \in Int
    BY <1>5, <2>1
  <2> QED
    BY <2>2
<1>9. PICK y \in U : \A m \in U : m <= y
  BY <1>7, <1>8
<1>10. x \in Int /\ y \in Int /\ T \subseteq Int /\ T = U \cup {x}
  BY <1>5, <1>9
<1>11. CASE x <= y
  BY <1>9, <1>10, <1>11
<1>12. CASE y <= x
  <2>1. \A m \in T : m <= x
    BY <1>9, <1>10, <1>12
  <2> QED
    BY <1>5, <2>1
<1> QED
  BY <1>10, <1>11, <1>12

\* ... which is what Max chooses.
LEMMA MaxOfFinite ==
    ASSUME NEW S, IsFiniteSet(S), S \subseteq Int, S # {}
    PROVE  Max(S) \in S /\ \A m \in S : m <= Max(S)
<1>1. \E n \in S : \A m \in S : n >= m
  BY FiniteHasGreatest
<1> QED
  BY <1>1 DEF Max

\* The elements of a sequence are finitely many.
LEMMA RangeFinite ==
    ASSUME NEW S, NEW s \in Seq(S)
    PROVE  IsFiniteSet(Range(s)) /\ Range(s) \subseteq S
<1>1. IsFiniteSet(1 .. Len(s))
  BY FS_Interval
<1>2. s \in Surjection(1 .. Len(s), Range(s))
  BY DEF Surjection, Range
<1> QED
  BY <1>1, <1>2, FS_Surjection DEF Range

\* What two sequences put together are.
LEMMA ConcatFacts ==
    ASSUME NEW S, NEW s \in Seq(S), NEW t \in Seq(S)
    PROVE  /\ s \o t \in Seq(S) /\ Len(s \o t) = Len(s) + Len(t)
           /\ \A j \in 1 .. Len(s) + Len(t) :
                  (s \o t)[j] = IF j <= Len(s) THEN s[j] ELSE t[j - Len(s)]
OBVIOUS

\* What is left of a sequence without its i-th element.
LEMMA RemoveAtFacts ==
    ASSUME NEW S, NEW s \in Seq(S), NEW i \in 1 .. Len(s)
    PROVE  /\ RemoveAt(s, i) \in Seq(S)
           /\ Len(RemoveAt(s, i)) = Len(s) - 1
           /\ \A j \in 1 .. Len(s) - 1 :
                  RemoveAt(s, i)[j] = IF j < i THEN s[j] ELSE s[j + 1]
<1> DEFINE a == SubSeq(s, 1, i - 1)
           b == SubSeq(s, i + 1, Len(s))
<1>1. /\ a \in Seq(S) /\ Len(a) = i - 1
      /\ \A j \in 1 .. i - 1 : a[j] = s[j]
  OBVIOUS
<1>2. /\ b \in Seq(S) /\ Len(b) = Len(s) - i
      /\ \A j \in 1 .. Len(s) - i : b[j] = s[i + j]
  OBVIOUS
<1>3. RemoveAt(s, i) = a \o b
  BY DEF RemoveAt
<1> HIDE DEF a, b
<1>4. /\ a \o b \in Seq(S) /\ Len(a \o b) = Len(a) + Len(b)
      /\ \A j \in 1 .. Len(a) + Len(b) :
            (a \o b)[j] = IF j <= Len(a) THEN a[j] ELSE b[j - Len(a)]
  BY <1>1, <1>2, ConcatFacts
<1>5. /\ Len(s) \in Nat /\ i \in Nat /\ i >= 1 /\ i <= Len(s)
      /\ Len(a) + Len(b) = Len(s) - 1
  BY <1>1, <1>2
<1>6. ASSUME NEW j \in 1 .. Len(s) - 1
      PROVE  RemoveAt(s, i)[j] = IF j < i THEN s[j] ELSE s[j + 1]
  <2>1. CASE j < i
    <3>1. j \in 1 .. i - 1 /\ j <= Len(a) /\ j \in 1 .. Len(a) + Len(b)
      BY <1>1, <1>5, <2>1
    <3> QED
      BY <1>1, <1>3, <1>4, <2>1, <3>1
  <2>2. CASE ~ (j < i)
    <3>1. /\ j - (i - 1) \in 1 .. Len(s) - i /\ ~ (j <= Len(a))
          /\ j \in 1 .. Len(a) + Len(b) /\ i + (j - (i - 1)) = j + 1
      BY <1>1, <1>5, <2>2
    <3>2. RemoveAt(s, i)[j] = b[j - (i - 1)]
      BY <1>1, <1>3, <1>4, <3>1
    <3>3. b[j - (i - 1)] = s[i + (j - (i - 1))]
      BY <1>2, <3>1
    <3> QED
      BY <2>2, <3>1, <3>2, <3>3
  <2> QED
    BY <2>1, <2>2
<1> QED
  BY <1>3, <1>4, <1>5, <1>6

=============================================================================
