---------------------------- MODULE NumberLemmas ----------------------------
(***************************************************************************)
(* Sets of numbers, as the proofs about the components need them.          *)
(***************************************************************************)
EXTENDS Integers, FiniteSetTheorems, TLAPS

\* Every nonempty set of naturals has a least member: the sets 0..n are finite,
\* and strict inclusion of finite sets is well-founded.
LEMMA LeastNumber ==
  ASSUME NEW S, S \subseteq Nat, S # {}
  PROVE  \E m \in S : \A n \in S : m <= n
<1> DEFINE I == {0..n : n \in S}
<1>1. I \subseteq FiniteSubsetsOf(Nat)
  <2> SUFFICES ASSUME NEW n \in S PROVE 0..n \in FiniteSubsetsOf(Nat)
    OBVIOUS
  <2>1. IsFiniteSet(0..n)
    BY FS_Interval
  <2> QED BY <2>1 DEF FiniteSubsetsOf
<1>2. I # {}
  OBVIOUS
<1>3. PICK x \in I : \A y \in I : <<y, x>> \notin StrictSubsetOrdering(Nat)
  <2> HIDE DEF I
  <2> QED BY <1>1, <1>2, WFMin, FS_StrictSubsetOrderingWellFounded
<1>4. PICK m \in S : x = 0..m
  OBVIOUS
<1>5. ASSUME NEW n \in S, n < m PROVE FALSE
  <2>1. 0..n \in I
    BY <1>5
  <2>2. <<0..n, 0..m>> \notin StrictSubsetOrdering(Nat)
    BY <1>3, <1>4, <2>1
  <2>3. 0..n \subseteq 0..m /\ 0..n # 0..m
    BY <1>5
  <2> QED BY <2>2, <2>3, <1>5 DEF StrictSubsetOrdering
<1> QED BY <1>5

\* A bounded one has a greatest.
LEMMA GreatestNumber ==
  ASSUME NEW S, S \subseteq Nat, S # {}, NEW b \in Nat, \A n \in S : n <= b
  PROVE  \E m \in S : \A n \in S : n <= m
<1> DEFINE R == {b - n : n \in S}
<1>1. R \subseteq Nat /\ R # {}
  <2>1. \A n \in S : b - n \in Nat
    OBVIOUS
  <2> QED BY <2>1
<1>2. PICK r \in R : \A n \in R : r <= n
  <2> HIDE DEF R
  <2> QED BY <1>1, LeastNumber
<1>3. PICK m \in S : r = b - m
  OBVIOUS
<1>4. ASSUME NEW n \in S PROVE n <= m
  <2>1. b - n \in R
    OBVIOUS
  <2> QED BY <2>1, <1>2, <1>3
<1> QED BY <1>4

\* A finite one has a greatest member.
LEMMA GreatestOfFinite ==
  ASSUME NEW S, S \subseteq Nat, IsFiniteSet(S), S # {}
  PROVE  \E m \in S : \A n \in S : n <= m
<1> DEFINE Has(T) == \E m \in T : \A n \in T : n <= m
           B == {T \in SUBSET S : T # {} /\ ~Has(T)}
<1>1. \A T \in SUBSET S : IsFiniteSet(T)
  BY FS_Subset
<1>2. SUFFICES B = {}
  OBVIOUS
<1>3. SUFFICES ASSUME B # {} PROVE FALSE
  OBVIOUS
<1>4. B \subseteq FiniteSubsetsOf(S)
  BY <1>1 DEF FiniteSubsetsOf
<1>5. PICK T \in B : \A U \in B : <<U, T>> \notin StrictSubsetOrdering(S)
  <2> HIDE DEF B
  <2> QED BY <1>3, <1>4, WFMin, FS_StrictSubsetOrderingWellFounded
<1>6. PICK x \in T : TRUE
  OBVIOUS
<1>7. T \ {x} \notin B
  BY <1>5 DEF StrictSubsetOrdering
<1>8. CASE T \ {x} = {}
  <2>1. T = {x} /\ x \in Nat
    BY <1>8
  <2> QED BY <2>1
<1>9. CASE T \ {x} # {}
  <2>1. PICK m \in T \ {x} : \A n \in T \ {x} : n <= m
    BY <1>7, <1>9
  <2>2. \A n \in T : n \in Nat
    OBVIOUS
  <2>3. CASE x <= m
    <3>1. \A n \in T : n <= m
      BY <2>1, <2>3
    <3> QED BY <3>1, <2>1
  <2>4. CASE m < x
    <3>1. \A n \in T : n <= x
      BY <2>1, <2>2, <2>4
    <3> QED BY <3>1, <1>6
  <2> QED BY <2>1, <2>2, <2>3, <2>4
<1> QED BY <1>8, <1>9

\* For each k up to its size, a finite set of numbers has a k-th member.
LEMMA KthMember ==
  ASSUME NEW S, S \subseteq Nat, IsFiniteSet(S), NEW k \in 1..Cardinality(S)
  PROVE  \E x \in S : Cardinality({y \in S : y <= x}) = k
<1> DEFINE Has(T) == \A j \in 1..Cardinality(T) :
                       \E x \in T : Cardinality({y \in T : y <= x}) = j
           B == {T \in SUBSET S : ~Has(T)}
<1>1. \A T \in SUBSET S : IsFiniteSet(T) /\ Cardinality(T) \in Nat
  BY FS_Subset, FS_CardinalityType
<1>2. SUFFICES ASSUME B # {} PROVE FALSE
  OBVIOUS
<1>3. B \subseteq FiniteSubsetsOf(S)
  BY <1>1 DEF FiniteSubsetsOf
<1>4. PICK T \in B : \A U \in B : <<U, T>> \notin StrictSubsetOrdering(S)
  <2> HIDE DEF B
  <2> QED BY <1>2, <1>3, WFMin, FS_StrictSubsetOrderingWellFounded
<1>5. PICK j \in 1..Cardinality(T) :
        ~ \E x \in T : Cardinality({y \in T : y <= x}) = j
  OBVIOUS
<1>6. T \subseteq Nat /\ IsFiniteSet(T) /\ T # {} /\ Cardinality(T) \in Nat
  BY <1>1, <1>5, FS_EmptySet
<1>7. PICK m \in T : \A n \in T : n <= m
  BY <1>6, GreatestOfFinite
<1>8. {y \in T : y <= m} = T
  BY <1>7
<1>9. j # Cardinality(T)
  BY <1>5, <1>7, <1>8
<1>10. Has(T \ {m})
  <2>1. <<T \ {m}, T>> \in StrictSubsetOrdering(S)
    BY <1>7 DEF StrictSubsetOrdering
  <2> QED BY <1>4, <2>1
<1>11. Cardinality(T \ {m}) = Cardinality(T) - 1
  BY <1>6, <1>7, FS_RemoveElement
<1>12. j \in 1..Cardinality(T \ {m})
  BY <1>6, <1>9, <1>11
<1>13. PICK x \in T \ {m} : Cardinality({y \in T \ {m} : y <= x}) = j
  BY <1>10, <1>12
<1>14. {y \in T : y <= x} = {y \in T \ {m} : y <= x}
  <2>1. ~ (m <= x)
    BY <1>6, <1>7
  <2> QED BY <2>1
<1> QED BY <1>5, <1>13, <1>14

=============================================================================
