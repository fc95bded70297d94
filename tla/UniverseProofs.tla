--------------------------- MODULE UniverseProofs ---------------------------
(***************************************************************************)
(* Proofs about Universe and its Selector, for every exchange, evidence    *)
(* and policy: the files hold complete decisions, the published ones are   *)
(* numbered without gap or repetition, and they keep the change limits and *)
(* the minimum stays, whatever the operator asks for and a crash leaves    *)
(* behind.                                                                 *)
(*                                                                         *)
(* The argument. A ranking is a row, a sequence that has no symbol twice,  *)
(* and so is every pool that is taken from it. The loops of the selection  *)
(* are folds over a row: what one turn keeps, all turns keep (FoldsTurns). *)
(* The weekly loop keeps the size of the core and takes out no more        *)
(* members than it counts (WeeklyLoop), the daily one the same for a role  *)
(* (DailyLoop), and SelectionRespects puts them together.                  *)
(*                                                                         *)
(* Inv: the store in memory is the active file, and what a crash has left  *)
(* in pending.json carries no higher number than the active decision or    *)
(* follows it. Full adds that the history of the published memberships     *)
(* agrees with the memory and membership-state.json until a crash has torn *)
(* them (Times), and that a pending decision which may still be applied    *)
(* keeps the limits and the stays measured at the active one (Planning):   *)
(* it was planned for these, and an override that is published in between  *)
(* takes its number, so apply_due passes over it.                          *)
(***************************************************************************)
EXTENDS Universe, NumberLemmas, FunctionTheorems, SequenceTheorems

-----------------------------------------------------------------------------
\* Rows: sequences of symbols that have no symbol twice.

Row(s) == s \in Seq(Symbol) /\ IsInjective(s)

\* Sorted lists every member of a finite set of numbers once.
LEMMA SortedFacts ==
  ASSUME NEW S, S \subseteq Nat, IsFiniteSet(S)
  PROVE  /\ Cardinality(S) \in Nat
         /\ Sorted(S) \in [1..Cardinality(S) -> S]
         /\ IsInjective(Sorted(S))
         /\ ToSet(Sorted(S)) = S
<1> DEFINE n == Cardinality(S)
           At(x) == Cardinality({y \in S : y <= x})
           f == Sorted(S)
<1>1. n \in Nat
  BY FS_CardinalityType
<1>2. ASSUME NEW k \in 1..n PROVE f[k] \in S /\ At(f[k]) = k
  <2>1. \E x \in S : At(x) = k
    BY KthMember
  <2>2. f[k] = CHOOSE x \in S : At(x) = k
    BY DEF Sorted
  <2> HIDE DEF At, f
  <2> QED BY <2>1, <2>2
<1>3. f \in [1..n -> S]
  BY <1>2 DEF Sorted
<1>4. IsInjective(f)
  <2> SUFFICES ASSUME NEW i \in 1..n, NEW j \in 1..n, f[i] = f[j] PROVE i = j
    BY <1>3 DEF IsInjective
  <2>1. At(f[i]) = At(f[j])
    OBVIOUS
  <2> HIDE DEF At, f, n
  <2> QED BY <2>1, <1>2
<1>5. f \in Injection(1..n, S)
  <2> HIDE DEF f, n
  <2> QED BY <1>3, <1>4, Fun_IsInj DEF IsInjective
<1>6. Cardinality(1..n) = n
  BY <1>1, FS_Interval
<1>7. f \in Surjection(1..n, S)
  <2> HIDE DEF f
  <2> QED BY <1>5, <1>6, FS_Injection
<1>8. ToSet(f) = S
  <2>1. \A y \in S : \E i \in 1..n : f[i] = y
    <3> HIDE DEF f, n
    <3> QED BY <1>7 DEF Surjection
  <2> HIDE DEF f, n
  <2> QED BY <1>3, <2>1 DEF ToSet
<1> QED BY <1>1, <1>3, <1>4, <1>8

LEMMA RowFacts ==
  ASSUME NEW s, Row(s)
  PROVE  /\ Len(s) \in Nat /\ DOMAIN s = 1..Len(s)
         /\ ToSet(s) \subseteq Symbol /\ IsFiniteSet(ToSet(s))
         /\ Cardinality(ToSet(s)) = Len(s)
<1>1. Len(s) \in Nat /\ DOMAIN s = 1..Len(s) /\ s \in [1..Len(s) -> Symbol]
  BY LenProperties DEF Row
<1>2. ToSet(s) \subseteq Symbol
  BY <1>1 DEF ToSet
<1>3. IsFiniteSet(ToSet(s))
  BY <1>2, FS_Subset, SelectorAssumption
<1>4. s \in [1..Len(s) -> ToSet(s)]
  BY <1>1 DEF ToSet
<1>5. s \in Injection(1..Len(s), ToSet(s))
  BY <1>1, <1>4, Fun_IsInj DEF Row, IsInjective
<1>6. s \in Surjection(1..Len(s), ToSet(s))
  BY <1>1, <1>4, Fun_IsSurj DEF ToSet
<1>7. Cardinality(1..Len(s)) = Len(s) /\ IsFiniteSet(1..Len(s))
  BY <1>1, FS_Interval
<1>8. Cardinality(ToSet(s)) = Cardinality(1..Len(s))
  BY <1>3, <1>5, <1>6, FS_Injection
<1> QED BY <1>1, <1>2, <1>3, <1>7, <1>8

\* A function on 1..n into the symbols, no value twice, is a row.
LEMMA RowFrom ==
  ASSUME NEW n \in Nat, NEW f \in [1..n -> Symbol],
         \A i, j \in 1..n : f[i] = f[j] => i = j
  PROVE  Row(f) /\ Len(f) = n
<1>1. f \in Seq(Symbol)
  BY SeqDef
<1>2. DOMAIN f = 1..n
  OBVIOUS
<1>3. Len(f) = n
  BY <1>1, <1>2, LenProperties
<1> QED BY <1>1, <1>2, <1>3 DEF Row, IsInjective

LEMMA AmongFacts ==
  ASSUME NEW s, Row(s), NEW T
  PROVE  Row(Among(s, T)) /\ ToSet(Among(s, T)) = ToSet(s) \cap T
<1> DEFINE D == {i \in DOMAIN s : s[i] \in T}
           at == Sorted(D)
           m == Cardinality(D)
<1>1. DOMAIN s = 1..Len(s) /\ Len(s) \in Nat /\ s \in [1..Len(s) -> Symbol]
  BY LenProperties DEF Row
<1>2. D \subseteq Nat /\ IsFiniteSet(D)
  <2>1. D \subseteq 1..Len(s)
    BY <1>1
  <2>2. IsFiniteSet(1..Len(s)) /\ 1..Len(s) \subseteq Nat
    BY <1>1, FS_Interval
  <2> HIDE DEF D
  <2> QED BY <2>1, <2>2, FS_Subset
<1>3. m \in Nat /\ at \in [1..m -> D] /\ IsInjective(at) /\ ToSet(at) = D
  <2> HIDE DEF D
  <2> QED BY <1>2, SortedFacts
<1>4. DOMAIN at = 1..m /\ \A i, j \in 1..m : at[i] = at[j] => i = j
  <2> HIDE DEF at, m, D
  <2> QED BY <1>3 DEF IsInjective
<1>5. Among(s, T) = [k \in 1..m |-> s[at[k]]]
  BY <1>4 DEF Among, Picked
<1>6. \A k \in 1..m : at[k] \in 1..Len(s) /\ s[at[k]] \in T
  <2>1. \A k \in 1..m : at[k] \in D
    <3> HIDE DEF at, m, D
    <3> QED BY <1>3
  <2> HIDE DEF at, m
  <2> QED BY <1>1, <2>1
<1>7. \A d \in D : \E k \in 1..m : at[k] = d
  <2> HIDE DEF D, at, m
  <2> QED BY <1>3, <1>4 DEF ToSet
<1>8. \A i, j \in 1..Len(s) : s[i] = s[j] => i = j
  BY <1>1 DEF Row, IsInjective
<1>9. Row(Among(s, T))
  <2> DEFINE f == Among(s, T)
  <2>1. f \in [1..m -> Symbol] /\ \A k \in 1..m : f[k] = s[at[k]]
    <3> HIDE DEF at, m
    <3> QED BY <1>1, <1>5, <1>6
  <2>2. \A i, j \in 1..m : f[i] = f[j] => i = j
    <3> HIDE DEF at, m, f
    <3> QED BY <2>1, <1>4, <1>6, <1>8
  <2>3. Row(f)
    <3> HIDE DEF at, m, f
    <3> QED BY <1>3, <2>1, <2>2, RowFrom
  <2> QED BY <2>3
<1>10. ToSet(Among(s, T)) = {s[at[k]] : k \in 1..m}
  <2> HIDE DEF at, m
  <2> QED BY <1>5 DEF ToSet
<1>11. {s[at[k]] : k \in 1..m} = ToSet(s) \cap T
  <2>1. ASSUME NEW k \in 1..m PROVE s[at[k]] \in ToSet(s) \cap T
    <3> HIDE DEF at, m
    <3> QED BY <1>1, <1>6 DEF ToSet
  <2>2. ASSUME NEW x \in ToSet(s) \cap T PROVE \E k \in 1..m : x = s[at[k]]
    <3>1. PICK i \in DOMAIN s : x = s[i]
      BY DEF ToSet
    <3>2. i \in D
      BY <3>1
    <3> HIDE DEF at, m, D
    <3> QED BY <3>1, <3>2, <1>7
  <2> HIDE DEF at, m
  <2> QED BY <2>1, <2>2
<1> QED BY <1>9, <1>10, <1>11

LEMMA OutsideFacts ==
  ASSUME NEW s, Row(s), NEW T
  PROVE  Row(Outside(s, T)) /\ ToSet(Outside(s, T)) = ToSet(s) \ T
<1>1. ToSet(s) \cap (ToSet(s) \ T) = ToSet(s) \ T
  OBVIOUS
<1> QED BY <1>1, AmongFacts DEF Outside

LEMMA FirstOfFacts ==
  ASSUME NEW s, Row(s), NEW n \in Nat
  PROVE  /\ Row(FirstOf(n, s))
         /\ ToSet(FirstOf(n, s)) \subseteq ToSet(s)
         /\ Len(FirstOf(n, s)) = IF n < Len(s) THEN n ELSE Len(s)
<1> DEFINE m == IF n < Len(s) THEN n ELSE Len(s)
           t == SubSeq(s, 1, m)
<1>1. DOMAIN s = 1..Len(s) /\ Len(s) \in Nat /\ s \in [1..Len(s) -> Symbol]
  BY LenProperties DEF Row
<1>2. m \in 0..Len(s)
  BY <1>1
<1>3. \A i \in 1..m : s[i] \in Symbol
  <2> HIDE DEF m
  <2> QED BY <1>1, <1>2
<1>4. t \in Seq(Symbol) /\ Len(t) = m /\ \A i \in 1..m : t[i] = s[i]
  <2> HIDE DEF m
  <2>1. /\ t \in Seq(Symbol)
        /\ Len(t) = IF 1 <= m THEN m - 1 + 1 ELSE 0
        /\ \A i \in 1..(m - 1 + 1) : t[i] = s[1 + i - 1]
    BY <1>2, <1>3, SubSeqProperties
  <2> HIDE DEF t
  <2>2. m - 1 + 1 = m /\ \A i \in 1..m : 1 + i - 1 = i
    BY <1>1, <1>2
  <2> QED BY <1>1, <1>2, <2>1, <2>2
<1>5. t \in [1..m -> Symbol]
  <2> HIDE DEF t, m
  <2> QED BY <1>4, LenProperties
<1>6. \A i, j \in 1..m : t[i] = t[j] => i = j
  <2>1. \A i, j \in 1..Len(s) : s[i] = s[j] => i = j
    BY <1>1 DEF Row, IsInjective
  <2> HIDE DEF t, m
  <2> QED BY <2>1, <1>1, <1>2, <1>4
<1>7. Row(t)
  <2> HIDE DEF t, m
  <2> QED BY <1>1, <1>2, <1>5, <1>6, RowFrom
<1>8. ToSet(t) \subseteq ToSet(s)
  <2> HIDE DEF t, m
  <2> QED BY <1>1, <1>2, <1>4, <1>5 DEF ToSet
<1>9. FirstOf(n, s) = t
  BY DEF FirstOf
<1> HIDE DEF t
<1> QED BY <1>4, <1>7, <1>8, <1>9

\* Two rows without a common symbol, one behind the other.
LEMMA ConcatFacts ==
  ASSUME NEW s, Row(s), NEW t, Row(t), ToSet(s) \cap ToSet(t) = {}
  PROVE  /\ Row(s \o t) /\ Len(s \o t) = Len(s) + Len(t)
         /\ ToSet(s \o t) = ToSet(s) \cup ToSet(t)
<1> DEFINE u == s \o t
           n == Len(s) + Len(t)
<1>1. /\ DOMAIN s = 1..Len(s) /\ Len(s) \in Nat
      /\ DOMAIN t = 1..Len(t) /\ Len(t) \in Nat
  BY LenProperties DEF Row
<1>2. /\ u \in Seq(Symbol) /\ Len(u) = n
      /\ \A i \in 1..n : u[i] = IF i <= Len(s) THEN s[i] ELSE t[i - Len(s)]
  BY ConcatProperties DEF Row
<1>3. u \in [1..n -> Symbol] /\ DOMAIN u = 1..n
  <2> HIDE DEF u, n
  <2> QED BY <1>2, LenProperties
<1>4. \A i \in 1..n : i <= Len(s) => i \in 1..Len(s) /\ u[i] = s[i]
  <2> HIDE DEF u
  <2> QED BY <1>1, <1>2
<1>5. \A i \in 1..n : ~(i <= Len(s)) => i - Len(s) \in 1..Len(t) /\ u[i] = t[i - Len(s)]
  <2> HIDE DEF u
  <2> QED BY <1>1, <1>2
<1>6. ASSUME NEW i \in 1..n, NEW j \in 1..n, u[i] = u[j] PROVE i = j
  <2>1. \A k \in 1..Len(s), l \in 1..Len(t) : s[k] # t[l]
    BY <1>1 DEF ToSet
  <2>2. CASE i <= Len(s) /\ j <= Len(s)
    <3> HIDE DEF u
    <3> QED BY <1>1, <1>4, <1>6, <2>2 DEF Row, IsInjective
  <2>3. CASE ~(i <= Len(s)) /\ ~(j <= Len(s))
    <3> HIDE DEF u
    <3>1. i - Len(s) = j - Len(s)
      BY <1>1, <1>5, <1>6, <2>3 DEF Row, IsInjective
    <3> QED BY <3>1, <1>1
  <2> HIDE DEF u, n
  <2> QED BY <1>4, <1>5, <1>6, <2>1, <2>2, <2>3
<1>7. Row(u)
  <2>1. n \in Nat
    BY <1>1
  <2> HIDE DEF u, n
  <2> QED BY <2>1, <1>3, <1>6, RowFrom
<1>8. ToSet(u) \subseteq ToSet(s) \cup ToSet(t)
  <2> HIDE DEF u
  <2> QED BY <1>1, <1>3, <1>4, <1>5 DEF ToSet
<1>9. ToSet(s) \subseteq ToSet(u)
  <2>1. \A i \in 1..Len(s) : i \in 1..n /\ u[i] = s[i]
    <3> HIDE DEF u
    <3> QED BY <1>1, <1>4
  <2> HIDE DEF u, n
  <2> QED BY <1>1, <1>3, <2>1 DEF ToSet
<1>10. ToSet(t) \subseteq ToSet(u)
  <2>1. \A i \in 1..Len(t) : i + Len(s) \in 1..n /\ u[i + Len(s)] = t[i]
    <3>1. ASSUME NEW i \in 1..Len(t)
          PROVE i + Len(s) \in 1..n /\ ~(i + Len(s) <= Len(s)) /\ (i + Len(s)) - Len(s) = i
      BY <1>1
    <3> HIDE DEF u, n
    <3> QED BY <3>1, <1>5
  <2> HIDE DEF u, n
  <2> QED BY <1>1, <1>3, <2>1 DEF ToSet
<1>11. ToSet(u) = ToSet(s) \cup ToSet(t)
  BY <1>8, <1>9, <1>10
<1> QED BY <1>2, <1>7, <1>11

\* Append keeps a row one if the symbol is new.
LEMMA AppendFacts ==
  ASSUME NEW s, Row(s), NEW x \in Symbol, x \notin ToSet(s)
  PROVE  /\ Row(Append(s, x)) /\ Len(Append(s, x)) = Len(s) + 1
         /\ ToSet(Append(s, x)) = ToSet(s) \cup {x}
<1>1. <<x>> \in [1..1 -> Symbol] /\ <<x>>[1] = x /\ DOMAIN <<x>> = 1..1
  OBVIOUS
<1>2. Row(<<x>>) /\ Len(<<x>>) = 1
  <2>1. \A i, j \in 1..1 : <<x>>[i] = <<x>>[j] => i = j
    OBVIOUS
  <2> QED BY <1>1, <2>1, RowFrom
<1>4. ToSet(<<x>>) = {x}
  BY <1>1 DEF ToSet
<1>3. Append(s, x) = s \o <<x>>
  BY AppendIsConcat DEF Row
<1> QED BY <1>2, <1>3, <1>4, ConcatFacts

-----------------------------------------------------------------------------
\* Folds. FoldLeft is a recursive function on the sets of indices of a row: a
\* set takes its turn after the set without its greatest member.

LEMMA MaxFacts ==
  ASSUME NEW n \in Nat, NEW t \in SUBSET (1..n), t # {}
  PROVE  Max(t) \in t /\ \A k \in t : k <= Max(t)
<1>1. t \subseteq Nat /\ \A k \in t : k <= n
  OBVIOUS
<1>2. PICK m \in t : \A k \in t : k <= m
  BY <1>1, GreatestNumber
<1>3. \A x, y \in t : x >= y <=> y <= x
  BY <1>1
<1> QED BY <1>2, <1>3 DEF Max

\* What holds before the first turn and is kept by each holds after the last.
LEMMA TurnByTurn ==
  ASSUME NEW n \in Nat, NEW G, {} \in G,
         \A t \in SUBSET (1..n) : t # {} /\ t \ {Max(t)} \in G => t \in G
  PROVE  1..n \in G
<1> DEFINE B == {t \in SUBSET (1..n) : t \notin G}
<1> SUFFICES ASSUME 1..n \notin G PROVE FALSE
  OBVIOUS
<1>1. IsFiniteSet(1..n)
  BY FS_Interval
<1>2. B \subseteq FiniteSubsetsOf(1..n) /\ B # {}
  BY <1>1, FS_FiniteSubsetsOfFinite
<1>3. PICK t \in B : \A u \in B : <<u, t>> \notin StrictSubsetOrdering(1..n)
  <2> HIDE DEF B
  <2> QED BY <1>2, WFMin, FS_StrictSubsetOrderingWellFounded
<1>4. t # {} /\ t \in SUBSET (1..n) /\ t \notin G
  OBVIOUS
<1>5. Max(t) \in t
  BY <1>4, MaxFacts
<1>6. <<t \ {Max(t)}, t>> \in StrictSubsetOrdering(1..n)
  BY <1>4, <1>5 DEF StrictSubsetOrdering
<1>7. t \ {Max(t)} \in G
  BY <1>3, <1>4, <1>6
<1> QED BY <1>4, <1>7

\* A loop whose turns stay in P has a fold, with values in P.
FoldsTurns(it, n, base, turn) ==
  \A t \in SUBSET (1..n) :
    it[t] = IF t = {} THEN base ELSE turn[Max(t)][it[t \ {Max(t)}]]

LEMMA FoldExists ==
  ASSUME NEW n \in Nat, NEW P, NEW base \in P, NEW turn \in [1..n -> [P -> P]]
  PROVE  \E it \in [SUBSET (1..n) -> P] : FoldsTurns(it, n, base, turn)
<1> USE DEF FoldsTurns
<1> DEFINE Folds(it, m) == FoldsTurns(it, m, base, turn)
           Has(m) == \E it \in [SUBSET (1..m) -> P] : Folds(it, m)
           B == {m \in 0..n : ~Has(m)}
<1> SUFFICES ASSUME B # {} PROVE FALSE
  <2>1. n \in 0..n
    OBVIOUS
  <2>2. Has(n)
    <3> HIDE DEF Has
    <3> QED BY <2>1
  <2> QED BY <2>2
<1>1. B \subseteq Nat
  OBVIOUS
<1>2. PICK m \in B : \A k \in B : m <= k
  <2> HIDE DEF B
  <2> QED BY <1>1, LeastNumber
<1>3. m \in 0..n /\ ~Has(m)
  OBVIOUS
<1>4. m # 0
  <2> DEFINE it == [t \in SUBSET (1..0) |-> base]
  <2>1. SUBSET (1..0) = {{}}
    OBVIOUS
  <2>2. it \in [SUBSET (1..0) -> P] /\ Folds(it, 0)
    BY <2>1
  <2>3. Has(0)
    <3> HIDE DEF it, Folds
    <3> QED BY <2>2
  <2> HIDE DEF Has
  <2> QED BY <1>3, <2>3
<1>5. m - 1 \in 0..n /\ m \in 1..n /\ m \notin 1..(m - 1) /\ 1..(m - 1) \subseteq 1..m
  BY <1>3, <1>4
<1>6. Has(m - 1)
  <2>1. m - 1 \notin B
    <3> HIDE DEF B
    <3> QED BY <1>2, <1>3, <1>5
  <2> HIDE DEF Has
  <2> QED BY <1>5, <2>1
<1>7. PICK f \in [SUBSET (1..(m - 1)) -> P] : Folds(f, m - 1)
  <2> HIDE DEF Folds
  <2> QED BY <1>6
<1> DEFINE g == [t \in SUBSET (1..m) |->
                   IF m \in t THEN turn[m][f[t \ {m}]] ELSE f[t]]
<1>8. ASSUME NEW t \in SUBSET (1..m) PROVE t \ {m} \in SUBSET (1..(m - 1))
  BY <1>3
<1>9. ASSUME NEW t \in SUBSET (1..m), m \notin t PROVE t \in SUBSET (1..(m - 1))
  BY <1>8, <1>9
<1>10. g \in [SUBSET (1..m) -> P]
  <2> SUFFICES ASSUME NEW t \in SUBSET (1..m)
               PROVE (IF m \in t THEN turn[m][f[t \ {m}]] ELSE f[t]) \in P
    OBVIOUS
  <2>1. CASE m \in t
    <3>1. f[t \ {m}] \in P
      BY <1>8
    <3> QED BY <2>1, <3>1, <1>5
  <2>2. CASE m \notin t
    BY <2>2, <1>9
  <2> QED BY <2>1, <2>2
<1>11. ASSUME NEW t \in SUBSET (1..m)
       PROVE  g[t] = IF t = {} THEN base ELSE turn[Max(t)][g[t \ {Max(t)}]]
  <2>1. CASE m \in t
    <3>0. m \in Nat /\ t # {}
      BY <2>1, <1>3
    <3>1. Max(t) \in t /\ \A k \in t : k <= Max(t)
      BY <3>0, MaxFacts
    <3>2. Max(t) \in 1..m /\ m <= Max(t)
      BY <2>1, <3>1
    <3>5. Max(t) = m
      BY <3>0, <3>2
    <3>3. g[t] = turn[m][f[t \ {m}]]
      BY <2>1
    <3>4. g[t \ {m}] = f[t \ {m}]
      BY <1>8, <1>5
    <3> HIDE DEF g
    <3> QED BY <2>1, <3>3, <3>4, <3>5
  <2>2. CASE m \notin t
    <3>1. t \in SUBSET (1..(m - 1))
      BY <2>2, <1>9
    <3>2. g[t] = f[t]
      BY <2>2
    <3>3. f[t] = IF t = {} THEN base ELSE turn[Max(t)][f[t \ {Max(t)}]]
      BY <1>7, <3>1
    <3>4. g[t \ {Max(t)}] = f[t \ {Max(t)}]
      BY <2>2
    <3> HIDE DEF g
    <3> QED BY <3>2, <3>3, <3>4
  <2> QED BY <2>1, <2>2
<1>12. Has(m)
  <2> HIDE DEF g
  <2> QED BY <1>10, <1>11
<1> QED BY <1>3, <1>12

-----------------------------------------------------------------------------
\* The weekly loop.

LEMMA RankFacts ==
  ASSUME NEW s, Row(s), NEW x
  PROVE  Rank(s, x) \in Nat /\ Rank(s, x) <= Len(s) + Unranked
<1>1. DOMAIN s = 1..Len(s) /\ Len(s) \in Nat
  BY LenProperties DEF Row
<1>2. CASE x \in ToSet(s)
  <2>1. \E i \in DOMAIN s : s[i] = x
    BY <1>2 DEF ToSet
  <2>2. Rank(s, x) \in DOMAIN s
    BY <1>2, <2>1 DEF Rank
  <2> QED BY <1>1, <2>2 DEF Unranked
<1>3. CASE x \notin ToSet(s)
  BY <1>1, <1>3 DEF Rank, Unranked
<1> QED BY <1>2, <1>3

\* Of the members that may go there is a worst: the lowest in rank, then the
\* first by name.
LEMMA WorstExists ==
  ASSUME NEW pool, Row(pool), NEW R, R \subseteq Symbol, R # {}
  PROVE  \E m \in R : \A k \in R : \/ Rank(pool, k) < Rank(pool, m)
                                   \/ Rank(pool, k) = Rank(pool, m) /\ m <= k
<1> DEFINE ranks == {Rank(pool, m) : m \in R}
<1>1. Len(pool) + Unranked \in Nat
  BY RowFacts DEF Unranked
<1>2. ranks \subseteq Nat /\ ranks # {} /\ \A r \in ranks : r <= Len(pool) + Unranked
  BY RankFacts
<1>3. PICK r \in ranks : \A k \in ranks : k <= r
  <2> HIDE DEF ranks
  <2> QED BY <1>1, <1>2, GreatestNumber
<1> DEFINE T == {m \in R : Rank(pool, m) = r}
<1>4. T # {} /\ T \subseteq Nat
  BY SelectorAssumption
<1>5. PICK m \in T : \A k \in T : m <= k
  <2> HIDE DEF T
  <2> QED BY <1>4, LeastNumber
<1>6. m \in R /\ Rank(pool, m) = r
  OBVIOUS
<1>7. ASSUME NEW k \in R PROVE \/ Rank(pool, k) < Rank(pool, m)
                               \/ Rank(pool, k) = Rank(pool, m) /\ m <= k
  <2>1. Rank(pool, k) <= r /\ Rank(pool, k) \in Nat /\ r \in Nat
    BY <1>2, <1>3
  <2>2. Rank(pool, k) = r => m <= k
    BY <1>5
  <2>3. CASE Rank(pool, k) = r
    BY <2>2, <2>3, <1>6
  <2>4. CASE Rank(pool, k) < r
    BY <2>4, <1>6
  <2> QED BY <2>1, <2>3, <2>4
<1> QED BY <1>6, <1>7

\* The symbols that have been in their role for the minimum stay.
Stayed(since, default, effective, required) ==
  {x \in Symbol : DwellComplete(SinceOr(since, x, default), effective, required)}

Contest == [core : SUBSET Symbol, changes : Nat, over : BOOLEAN]

\* After the challengers X: the core has its size and is made of the forced core F
\* and of X; of the old core C without the inactive I, those that have left had
\* stayed long enough, and are no more than the changes and the weekly limit.
WeeklyKept(p, C, I, F, X, May) ==
  /\ p \in Contest
  /\ Cardinality(p.core) = CoreSize
  /\ p.core \subseteq F \cup X
  /\ C \ (p.core \cup I) \subseteq May
  /\ Cardinality(C \ (p.core \cup I)) <= p.changes
  /\ Cardinality(C \ (p.core \cup I)) <= WeeklyLimit

LEMMA FiniteSymbols ==
  ASSUME NEW S, S \subseteq Symbol
  PROVE  IsFiniteSet(S) /\ Cardinality(S) \in Nat
BY FS_Subset, FS_CardinalityType, SelectorAssumption

\* A turn changes nothing, ends the loop, or puts the challenger in the place of
\* a member that has been in the core for the minimum stay.
Outcome(p, q, x, May) ==
  \/ q = p
  \/ q = [p EXCEPT !.over = TRUE]
  \/ /\ p.changes < WeeklyLimit
     /\ \E w \in p.core \cap May :
          q = [p EXCEPT !.core = (@ \ {w}) \cup {x}, !.changes = @ + 1]

LEMMA ChallengeOutcome ==
  ASSUME NEW p \in Contest, NEW pool, Row(pool),
         NEW x, NEW effective, NEW since, NEW default
  PROVE  Outcome(p, Challenge(p, x, pool, effective, since, default), x,
                 Stayed(since, default, effective, CoreDwell))
<1> DEFINE q == Challenge(p, x, pool, effective, since, default)
           R == {m \in p.core :
                   /\ Rank(pool, m) > RetainRank
                   /\ DwellComplete(SinceOr(since, m, default), effective, CoreDwell)}
           Lowest(m) == \A k \in R : \/ Rank(pool, k) < Rank(pool, m)
                                     \/ Rank(pool, k) = Rank(pool, m) /\ m <= k
           worst == CHOOSE m \in R : Lowest(m)
<1> USE DEF Outcome
<1>1. p.core \subseteq Symbol /\ p.changes \in Nat /\ p.over \in BOOLEAN
  BY DEF Contest
<1>2. WeeklyLimit \in Nat
  BY SelectorAssumption
<1>3. CASE p.over \/ p.changes >= WeeklyLimit
  <2>1. q = p
    BY <1>1, <1>2, <1>3 DEF Challenge
  <2> QED BY <2>1
<1>4. CASE ~p.over /\ p.changes < WeeklyLimit /\ R = {}
  <2>1. q = [p EXCEPT !.over = TRUE]
    BY <1>1, <1>2, <1>4 DEF Challenge
  <2> QED BY <2>1
<1>5. CASE ~p.over /\ p.changes < WeeklyLimit /\ R # {}
  <2>1. q = IF Rank(pool, x) >= Rank(pool, worst) THEN [p EXCEPT !.over = TRUE]
            ELSE [p EXCEPT !.core = (@ \ {worst}) \cup {x}, !.changes = @ + 1]
    BY <1>1, <1>2, <1>5 DEF Challenge
  <2>2. \E m \in R : Lowest(m)
    <3>1. R \subseteq Symbol
      BY <1>1
    <3> HIDE DEF R
    <3> QED BY <1>5, <3>1, WorstExists
  <2>3. worst \in R
    <3> HIDE DEF R, Lowest
    <3> QED BY <2>2
  <2>4. worst \in p.core \cap Stayed(since, default, effective, CoreDwell)
    <3> HIDE DEF worst
    <3> QED BY <2>3, <1>1 DEF Stayed
  <2> HIDE DEF worst, q
  <2>5. \/ q = [p EXCEPT !.over = TRUE]
        \/ q = [p EXCEPT !.core = (@ \ {worst}) \cup {x}, !.changes = @ + 1]
    BY <2>1
  <2> QED BY <1>5, <2>4, <2>5 DEF q
<1>6. p.changes >= WeeklyLimit \/ p.changes < WeeklyLimit
  BY <1>1, <1>2
<1> HIDE DEF Outcome, R
<1> QED BY <1>3, <1>4, <1>5, <1>6

LEMMA ContestType ==
  ASSUME NEW p \in Contest, NEW x \in Symbol, NEW w
  PROVE  /\ [p EXCEPT !.over = TRUE] \in Contest
         /\ [p EXCEPT !.core = (@ \ {w}) \cup {x}, !.changes = @ + 1] \in Contest
<1>1. p.core \subseteq Symbol /\ p.changes \in Nat
  BY DEF Contest
<1>2. (p.core \ {w}) \cup {x} \in SUBSET Symbol /\ p.changes + 1 \in Nat
  BY <1>1
<1> QED BY <1>2 DEF Contest

LEMMA ChallengeKeeps ==
  ASSUME NEW C, C \subseteq Symbol, NEW I, NEW F, NEW X,
         NEW pool, Row(pool), NEW effective, NEW since, NEW default,
         NEW x \in Symbol, x \notin F \cup X, NEW p,
         WeeklyKept(p, C, I, F, X, Stayed(since, default, effective, CoreDwell))
  PROVE  WeeklyKept(Challenge(p, x, pool, effective, since, default), C, I, F,
                    X \cup {x}, Stayed(since, default, effective, CoreDwell))
<1> DEFINE May == Stayed(since, default, effective, CoreDwell)
           q == Challenge(p, x, pool, effective, since, default)
<1>1. p \in Contest /\ p.core \subseteq Symbol /\ p.changes \in Nat
  BY DEF WeeklyKept, Contest
<1>2. Outcome(p, q, x, May)
  BY <1>1, ChallengeOutcome
<1> HIDE DEF q, May
<1> SUFFICES WeeklyKept(q, C, I, F, X \cup {x}, May)
  BY DEF q, May
<1>3. WeeklyKept(p, C, I, F, X, May)
  BY DEF May
<1>4. CASE q = p \/ q = [p EXCEPT !.over = TRUE]
  <2>1. q \in Contest /\ q.core = p.core /\ q.changes = p.changes
    <3>1. CASE q = p
      BY <3>1, <1>1
    <3>2. CASE q = [p EXCEPT !.over = TRUE]
      <4>1. q \in Contest
        BY <1>1, <3>2, ContestType
      <4>2. q.core = p.core /\ q.changes = p.changes
        BY <1>1, <3>2 DEF Contest
      <4> QED BY <4>1, <4>2
    <3> QED BY <1>4, <3>1, <3>2
  <2> QED BY <2>1, <1>3 DEF WeeklyKept
<1>5. ASSUME p.changes < WeeklyLimit, NEW w \in p.core \cap May,
             q = [p EXCEPT !.core = (@ \ {w}) \cup {x}, !.changes = @ + 1]
      PROVE  WeeklyKept(q, C, I, F, X \cup {x}, May)
  <2>1. q \in Contest
    BY <1>1, <1>5, ContestType
  <2>2. q.core = (p.core \ {w}) \cup {x} /\ q.changes = p.changes + 1
    BY <1>1, <1>5 DEF Contest
  <2>3. x \notin p.core \ {w}
    BY <1>3 DEF WeeklyKept
  <2>4. Cardinality(q.core) = CoreSize
    <3>1. IsFiniteSet(p.core) /\ Cardinality(p.core) = CoreSize /\ CoreSize \in Nat
      BY <1>1, <1>3, FiniteSymbols DEF WeeklyKept
    <3>2. IsFiniteSet(p.core \ {w}) /\ Cardinality(p.core \ {w}) = CoreSize - 1
      BY <3>1, FS_RemoveElement
    <3>3. Cardinality((p.core \ {w}) \cup {x}) = CoreSize - 1 + 1
      BY <2>3, <3>2, FS_AddElement
    <3> QED BY <2>2, <3>1, <3>3
  <2>5. q.core \subseteq F \cup (X \cup {x})
    BY <1>3, <2>2 DEF WeeklyKept
  <2> DEFINE left == C \ (p.core \cup I)
             gone == C \ (q.core \cup I)
  <2>6. gone \subseteq left \cup {w}
    BY <2>2
  <2>7. gone \subseteq May
    BY <1>3, <2>6 DEF WeeklyKept
  <2>8. IsFiniteSet(left) /\ Cardinality(left) \in Nat /\ Cardinality(gone) \in Nat
    BY FiniteSymbols
  <2>9. Cardinality(gone) <= Cardinality(left) + 1
    <3> HIDE DEF left, gone
    <3>1. /\ IsFiniteSet(left \cup {w})
          /\ Cardinality(left \cup {w}) = IF w \in left THEN Cardinality(left)
                                         ELSE Cardinality(left) + 1
      BY <2>8, FS_AddElement
    <3>2. /\ Cardinality(gone) <= Cardinality(left \cup {w})
          /\ Cardinality(left \cup {w}) \in Nat
      BY <2>6, <3>1, FS_Subset, FS_CardinalityType
    <3> QED BY <2>8, <3>1, <3>2
  <2>10. Cardinality(gone) <= q.changes /\ Cardinality(gone) <= WeeklyLimit
    <3>1. Cardinality(left) <= p.changes
      BY <1>3 DEF WeeklyKept
    <3>2. WeeklyLimit \in Nat
      BY SelectorAssumption
    <3> HIDE DEF left, gone
    <3> QED BY <1>1, <1>5, <2>2, <2>8, <2>9, <3>1, <3>2
  <2> QED BY <2>1, <2>4, <2>5, <2>7, <2>10 DEF WeeklyKept
<1> QED BY <1>2, <1>4, <1>5 DEF Outcome

WeeklyFold(open, start, pool, effective, since, default) ==
  FoldLeft(LAMBDA p, x : Challenge(p, x, pool, effective, since, default), start, open)

LEMMA WeeklyLoop ==
  ASSUME NEW C, C \subseteq Symbol, NEW I, NEW F,
         NEW pool, Row(pool), NEW effective, NEW since, NEW default,
         NEW open, Row(open), ToSet(open) \cap F = {}, NEW start,
         WeeklyKept(start, C, I, F, {}, Stayed(since, default, effective, CoreDwell))
  PROVE  WeeklyKept(WeeklyFold(open, start, pool, effective, since, default),
                    C, I, F, ToSet(open), Stayed(since, default, effective, CoreDwell))
<1> DEFINE n == Len(open)
           May == Stayed(since, default, effective, CoreDwell)
           Turn(p, x) == Challenge(p, x, pool, effective, since, default)
           IsFold(it) == it = [t \in SUBSET DOMAIN open |->
                                 IF t = {} THEN start
                                 ELSE Turn(it[t \ {Max(t)}], open[Max(t)])]
           h == CHOOSE it : IsFold(it)
<1>1. n \in Nat /\ DOMAIN open = 1..n /\ open \in [1..n -> Symbol]
  BY LenProperties DEF Row
<1>2. start \in Contest
  BY DEF WeeklyKept
<1>3. \A p \in Contest, x \in Symbol : Turn(p, x) \in Contest
  <2> SUFFICES ASSUME NEW p \in Contest, NEW x \in Symbol PROVE Turn(p, x) \in Contest
    OBVIOUS
  <2>1. Outcome(p, Turn(p, x), x, May)
    BY ChallengeOutcome
  <2>2. \A w : /\ [p EXCEPT !.over = TRUE] \in Contest
               /\ [p EXCEPT !.core = (@ \ {w}) \cup {x}, !.changes = @ + 1] \in Contest
    BY ContestType
  <2> HIDE DEF Turn, May
  <2> QED BY <2>1, <2>2, Zenon DEF Outcome
<1>4. \E it : IsFold(it)
  <2> DEFINE turn == [i \in 1..n |-> [p \in Contest |-> Turn(p, open[i])]]
  <2>1. turn \in [1..n -> [Contest -> Contest]]
    <3> HIDE DEF Turn
    <3> QED BY <1>1, <1>3
  <2>2. PICK it \in [SUBSET (1..n) -> Contest] : FoldsTurns(it, n, start, turn)
    <3> HIDE DEF turn, n
    <3>1. n \in Nat
      BY <1>1
    <3> QED BY <1>2, <2>1, <3>1, FoldExists
  <2>3. ASSUME NEW t \in SUBSET (1..n), t # {}
        PROVE  turn[Max(t)][it[t \ {Max(t)}]] = Turn(it[t \ {Max(t)}], open[Max(t)])
    <3>1. Max(t) \in 1..n /\ t \ {Max(t)} \in SUBSET (1..n)
      BY <1>1, <2>3, MaxFacts
    <3>2. it[t \ {Max(t)}] \in Contest
      BY <3>1
    <3> HIDE DEF Turn, n
    <3> QED BY <3>1, <3>2
  <2>4. \A t \in SUBSET (1..n) :
          it[t] = IF t = {} THEN start ELSE Turn(it[t \ {Max(t)}], open[Max(t)])
    <3> HIDE DEF turn, Turn, n
    <3> QED BY <2>2, <2>3 DEF FoldsTurns
  <2> HIDE DEF Turn, turn, n
  <2>5. IsFold(it)
    BY <1>1, <2>2, <2>4
  <2> HIDE DEF IsFold
  <2> QED BY <2>5
<1>5. IsFold(h)
  <2> HIDE DEF IsFold
  <2> QED BY <1>4
<1>6. \A t \in SUBSET (1..n) :
        h[t] = IF t = {} THEN start ELSE Turn(h[t \ {Max(t)}], open[Max(t)])
  <2> HIDE DEF h, Turn, n
  <2> QED BY <1>1, <1>5
<1> DEFINE Seen(t) == {open[i] : i \in t}
           G == {t \in SUBSET (1..n) : WeeklyKept(h[t], C, I, F, Seen(t), May)}
<1>7. {} \in G
  <2>1. h[{}] = start /\ Seen({}) = {}
    <3> HIDE DEF h, Turn
    <3> QED BY <1>6
  <2>2. WeeklyKept(h[{}], C, I, F, Seen({}), May)
    <3> HIDE DEF h, Seen
    <3> QED BY <2>1
  <2> HIDE DEF h, Seen, May
  <2> QED BY <2>2
<1>8. ASSUME NEW t \in SUBSET (1..n), t # {}, t \ {Max(t)} \in G PROVE t \in G
  <2> DEFINE m == Max(t)
  <2>1. m \in t /\ m \in 1..n
    BY <1>1, <1>8, MaxFacts
  <2>2. WeeklyKept(h[t \ {m}], C, I, F, Seen(t \ {m}), May)
    <3> HIDE DEF h, Seen, May
    <3> QED BY <1>8
  <2>3. h[t] = Turn(h[t \ {m}], open[m])
    <3> HIDE DEF h, Turn
    <3> QED BY <1>6, <1>8
  <2>4. open[m] \in Symbol /\ open[m] \notin F /\ open[m] \notin Seen(t \ {m})
    <3>1. open[m] \in Symbol /\ open[m] \in ToSet(open)
      BY <1>1, <2>1 DEF ToSet
    <3>2. \A i \in t \ {m} : open[i] # open[m]
      BY <1>1, <2>1 DEF Row, IsInjective
    <3> HIDE DEF m
    <3> QED BY <3>1, <3>2
  <2>5. Seen(t \ {m}) \cup {open[m]} = Seen(t)
    BY <2>1
  <2>6. WeeklyKept(Turn(h[t \ {m}], open[m]), C, I, F, Seen(t \ {m}) \cup {open[m]}, May)
    <3> HIDE DEF h, Seen, m
    <3> QED BY <2>2, <2>4, ChallengeKeeps
  <2>7. WeeklyKept(h[t], C, I, F, Seen(t), May)
    <3> HIDE DEF h, Seen, m, May, Turn
    <3> QED BY <2>3, <2>5, <2>6
  <2> HIDE DEF h, Seen, May
  <2> QED BY <2>7
<1>9. 1..n \in G
  <2> HIDE DEF G, n
  <2> QED BY <1>1, <1>7, <1>8, TurnByTurn
<1>10. WeeklyKept(h[1..n], C, I, F, Seen(1..n), May)
  <2> HIDE DEF h, Seen, May
  <2> QED BY <1>9
<1>11. Seen(1..n) = ToSet(open)
  BY <1>1 DEF ToSet
<1>12. WeeklyFold(open, start, pool, effective, since, default) = h[DOMAIN open]
  BY DEF WeeklyFold, FoldLeft, MapThenFoldSet
<1> HIDE DEF h, Seen, May
<1>13. WeeklyKept(h[DOMAIN open], C, I, F, ToSet(open), May)
  BY <1>1, <1>10, <1>11
<1> QED BY <1>12, <1>13 DEF May

-----------------------------------------------------------------------------
\* The daily loop of a candidate role.

\* After some turns: the role has its size and is made of D; of the members A it
\* began with, those that have left had stayed long enough, and are no more than
\* the changes, which are no more than the limit.
DailyKept(b, A, D, limit, May) ==
  /\ b \in [members : Seq(Symbol), changes : Nat]
  /\ Row(b.members) /\ Len(b.members) = Slots /\ ToSet(b.members) \subseteq D
  /\ A \ ToSet(b.members) \subseteq May
  /\ Cardinality(A \ ToSet(b.members)) <= b.changes
  /\ b.changes <= limit

LEMMA ExchangedKeeps ==
  ASSUME NEW A, A \subseteq Symbol, NEW D, NEW limit \in Nat, NEW top,
         NEW effective, NEW since, NEW x \in Symbol, x \in D, NEW b,
         DailyKept(b, A, D, limit, Stayed(since, effective, effective, Dwell))
  PROVE  DailyKept(Exchanged(b, x, top, limit, effective, since), A, D, limit,
                   Stayed(since, effective, effective, Dwell))
<1> DEFINE May == Stayed(since, effective, effective, Dwell)
           c == Exchanged(b, x, top, limit, effective, since)
           M == {m \in ToSet(b.members) \ top :
                   DwellComplete(SinceOr(since, m, effective), effective, Dwell)}
           removable == Among(b.members, M)
           w == Last(removable)
           rest == Outside(b.members, {w})
<1>1. /\ Row(b.members) /\ Len(b.members) = Slots /\ ToSet(b.members) \subseteq D
      /\ A \ ToSet(b.members) \subseteq May
      /\ Cardinality(A \ ToSet(b.members)) <= b.changes
      /\ b.changes <= limit /\ b.changes \in Nat
  BY DEF DailyKept
<1>2. Row(removable) /\ ToSet(removable) \subseteq M
  <2> HIDE DEF M
  <2> QED BY <1>1, AmongFacts
<1>3. CASE x \in ToSet(b.members) \/ b.changes >= limit \/ removable = <<>>
  <2>1. c = b
    BY <1>3 DEF Exchanged
  <2> QED BY <2>1
<1>4. CASE ~(x \in ToSet(b.members) \/ b.changes >= limit \/ removable = <<>>)
  <2>1. c = [members |-> Append(rest, x), changes |-> b.changes + 1]
    BY <1>4 DEF Exchanged
  <2>2. w \in ToSet(removable)
    <3> HIDE DEF removable
    <3>1. Len(removable) \in Nat \ {0} /\ DOMAIN removable = 1..Len(removable)
      BY <1>2, <1>4, EmptySeq, LenProperties DEF Row
    <3> QED BY <3>1 DEF ToSet, Last
  <2>3. w \in ToSet(b.members) /\ w \in May
    <3>1. w \in M
      <4> HIDE DEF w, removable, M
      <4> QED BY <1>2, <2>2
    <3>2. ToSet(b.members) \subseteq Symbol
      BY <1>1, RowFacts
    <3> HIDE DEF w, removable
    <3> QED BY <3>1, <3>2 DEF Stayed
  <2>4. Row(rest) /\ ToSet(rest) = ToSet(b.members) \ {w}
    <3> HIDE DEF w
    <3> QED BY <1>1, OutsideFacts
  <2> HIDE DEF rest, w, removable, M, c, May
  <2>5. x \notin ToSet(rest)
    BY <1>4, <2>4
  <2>6. /\ Row(Append(rest, x)) /\ Len(Append(rest, x)) = Len(rest) + 1
        /\ ToSet(Append(rest, x)) = (ToSet(b.members) \ {w}) \cup {x}
    BY <2>4, <2>5, AppendFacts
  <2>7. Len(rest) = Slots - 1
    <3>1. /\ IsFiniteSet(ToSet(b.members)) /\ Cardinality(ToSet(b.members)) = Slots
      BY <1>1, RowFacts
    <3>2. Cardinality(ToSet(b.members) \ {w}) = Slots - 1
      BY <2>3, <3>1, FS_RemoveElement
    <3>3. Cardinality(ToSet(rest)) = Len(rest)
      BY <2>4, RowFacts
    <3> QED BY <2>4, <3>2, <3>3
  <2>8. Len(c.members) = Slots /\ Row(c.members) /\ ToSet(c.members) \subseteq D
        /\ c.changes = b.changes + 1
    <3>1. Slots \in Nat /\ Slots - 1 + 1 = Slots
      BY SelectorAssumption
    <3> QED BY <1>1, <2>1, <2>6, <2>7, <3>1
  <2> DEFINE left == A \ ToSet(b.members)
             gone == A \ ToSet(c.members)
  <2>9. gone \subseteq left \cup {w}
    BY <2>1, <2>6
  <2>10. gone \subseteq May
    BY <1>1, <2>3, <2>9
  <2>11. IsFiniteSet(left) /\ Cardinality(left) \in Nat /\ Cardinality(gone) \in Nat
    BY FiniteSymbols
  <2>12. Cardinality(gone) <= Cardinality(left) + 1
    <3> HIDE DEF left, gone
    <3>1. /\ IsFiniteSet(left \cup {w})
          /\ Cardinality(left \cup {w}) = IF w \in left THEN Cardinality(left)
                                          ELSE Cardinality(left) + 1
      BY <2>11, FS_AddElement
    <3>2. /\ Cardinality(gone) <= Cardinality(left \cup {w})
          /\ Cardinality(left \cup {w}) \in Nat
      BY <2>9, <3>1, FS_Subset, FS_CardinalityType
    <3> QED BY <2>11, <3>1, <3>2
  <2>13. Cardinality(gone) <= c.changes /\ c.changes <= limit
    <3>1. Cardinality(left) <= b.changes
      BY <1>1
    <3>2. b.changes < limit
      BY <1>1, <1>4
    <3> HIDE DEF left, gone
    <3> QED BY <1>1, <2>8, <2>11, <2>12, <3>1, <3>2
  <2>14. c \in [members : Seq(Symbol), changes : Nat]
    <3>1. Append(rest, x) \in Seq(Symbol) /\ b.changes + 1 \in Nat
      BY <1>1, <2>6 DEF Row
    <3> QED BY <2>1, <3>1
  <2>15. DailyKept(c, A, D, limit, May)
    BY <2>8, <2>10, <2>13, <2>14 DEF DailyKept
  <2> QED BY <2>15 DEF c, May
<1> HIDE DEF c, removable
<1> QED BY <1>3, <1>4

DailyFold(row, start, top, limit, effective, since) ==
  FoldLeft(LAMBDA b, x : Exchanged(b, x, top, limit, effective, since), start, row)

LEMMA DailyLoop ==
  ASSUME NEW A, A \subseteq Symbol, NEW D, NEW limit \in Nat, NEW top,
         NEW effective, NEW since, NEW row, Row(row), ToSet(row) \subseteq D,
         NEW start,
         DailyKept(start, A, D, limit, Stayed(since, effective, effective, Dwell))
  PROVE  DailyKept(DailyFold(row, start, top, limit, effective, since),
                   A, D, limit, Stayed(since, effective, effective, Dwell))
<1> DEFINE n == Len(row)
           May == Stayed(since, effective, effective, Dwell)
           Turn(b, x) == Exchanged(b, x, top, limit, effective, since)
           P == {b \in [members : Seq(Symbol), changes : Nat] :
                   DailyKept(b, A, D, limit, May)}
           IsFold(it) == it = [t \in SUBSET DOMAIN row |->
                                 IF t = {} THEN start
                                 ELSE Turn(it[t \ {Max(t)}], row[Max(t)])]
           h == CHOOSE it : IsFold(it)
<1>1. n \in Nat /\ DOMAIN row = 1..n /\ row \in [1..n -> Symbol]
  BY LenProperties DEF Row
<1>2. \A i \in 1..n : row[i] \in D
  BY <1>1 DEF ToSet
<1>3. start \in P
  BY DEF DailyKept
<1>4. \A b \in P, i \in 1..n : Turn(b, row[i]) \in P
  <2> SUFFICES ASSUME NEW b \in P, NEW i \in 1..n PROVE Turn(b, row[i]) \in P
    OBVIOUS
  <2>1. row[i] \in Symbol /\ row[i] \in D /\ DailyKept(b, A, D, limit, May)
    BY <1>1, <1>2
  <2>2. DailyKept(Turn(b, row[i]), A, D, limit, May)
    BY <2>1, ExchangedKeeps
  <2> HIDE DEF Turn, May
  <2> QED BY <2>2 DEF DailyKept
<1>5. \E it : IsFold(it)
  <2> DEFINE turn == [i \in 1..n |-> [b \in P |-> Turn(b, row[i])]]
  <2>1. turn \in [1..n -> [P -> P]]
    <3> HIDE DEF Turn, P
    <3> QED BY <1>4
  <2>2. PICK it \in [SUBSET (1..n) -> P] : FoldsTurns(it, n, start, turn)
    <3> HIDE DEF turn, n, P
    <3> QED BY <1>1, <1>3, <2>1, FoldExists
  <2> HIDE DEF P
  <2>3. ASSUME NEW t \in SUBSET (1..n), t # {}
        PROVE  turn[Max(t)][it[t \ {Max(t)}]] = Turn(it[t \ {Max(t)}], row[Max(t)])
    <3>1. Max(t) \in 1..n /\ t \ {Max(t)} \in SUBSET (1..n)
      BY <1>1, <2>3, MaxFacts
    <3>2. it[t \ {Max(t)}] \in P
      BY <3>1
    <3> HIDE DEF Turn, n
    <3> QED BY <3>1, <3>2
  <2>4. \A t \in SUBSET (1..n) :
          it[t] = IF t = {} THEN start ELSE Turn(it[t \ {Max(t)}], row[Max(t)])
    <3> HIDE DEF turn, Turn, n
    <3> QED BY <2>2, <2>3 DEF FoldsTurns
  <2> HIDE DEF Turn, turn, n
  <2>5. IsFold(it)
    BY <1>1, <2>2, <2>4
  <2> HIDE DEF IsFold
  <2> QED BY <2>5
<1>6. IsFold(h)
  <2> HIDE DEF IsFold
  <2> QED BY <1>5
<1>7. \A t \in SUBSET (1..n) :
        h[t] = IF t = {} THEN start ELSE Turn(h[t \ {Max(t)}], row[Max(t)])
  <2> HIDE DEF h, Turn, n
  <2> QED BY <1>1, <1>6
<1> DEFINE G == {t \in SUBSET (1..n) : h[t] \in P}
<1> HIDE DEF h, P, Turn, n
<1>8. {} \in G
  BY <1>3, <1>7
<1>9. ASSUME NEW t \in SUBSET (1..n), t # {}, t \ {Max(t)} \in G PROVE t \in G
  <2>1. Max(t) \in 1..n
    BY <1>1, <1>9, MaxFacts
  <2>2. h[t] = Turn(h[t \ {Max(t)}], row[Max(t)])
    BY <1>7, <1>9
  <2> QED BY <1>4, <1>9, <2>1, <2>2
<1>10. 1..n \in G
  <2> HIDE DEF G
  <2> QED BY <1>1, <1>8, <1>9, TurnByTurn
<1>11. DailyKept(h[DOMAIN row], A, D, limit, May)
  BY <1>1, <1>10 DEF P
<1>12. DailyFold(row, start, top, limit, effective, since) = h[DOMAIN row]
  BY DEF DailyFold, FoldLeft, MapThenFoldSet, h, Turn
<1> QED BY <1>11, <1>12

\* What _reconcile_bucket makes of a role: it has its size again and nobody who is
\* forbidden; of the members that may stay, those that leave have stayed long
\* enough and are no more than the limit.
RoleKept(role, current, forbidden, inactive, limit, May) ==
  /\ role \subseteq Symbol /\ Cardinality(role) = Slots
  /\ role \cap forbidden = {}
  /\ current \ (role \cup forbidden \cup inactive) \subseteq May
  /\ Cardinality(current \ (role \cup forbidden \cup inactive)) <= limit

LEMMA ReconciledFacts ==
  ASSUME NEW current, current \subseteq Symbol, Cardinality(current) = Slots,
         NEW preferred, Row(preferred), Len(preferred) >= Slots,
         NEW forbidden, ToSet(preferred) \cap forbidden = {},
         NEW inactive, NEW since, NEW effective, NEW limit \in Nat
  PROVE  RoleKept(Reconciled(current, preferred, forbidden, inactive, since, effective,
                             limit),
                  current, forbidden, inactive, limit,
                  Stayed(since, effective, effective, Dwell))
<1> DEFINE May    == Stayed(since, effective, effective, Dwell)
           kept   == Outside(Sorted(current), forbidden \cup inactive)
           A      == current \ (forbidden \cup inactive)
           others == Outside(preferred, ToSet(kept))
           more   == FirstOf(Slots - Len(kept), others)
           filled == kept \o more
           top    == ToSet(FirstOf(Slots, preferred))
           start  == [members |-> filled, changes |-> 0]
           last   == DailyFold(preferred, start, top, limit, effective, since)
           D      == A \cup ToSet(preferred)
<1>1. Row(Sorted(current)) /\ ToSet(Sorted(current)) = current
  <2>1. IsFiniteSet(current) /\ current \subseteq Nat
    BY FiniteSymbols, SelectorAssumption
  <2> DEFINE c == Cardinality(current)
             f == Sorted(current)
  <2>2. /\ c \in Nat /\ f \in [1..c -> current] /\ IsInjective(f)
        /\ ToSet(f) = current
    BY <2>1, SortedFacts
  <2>3. f \in [1..c -> Symbol] /\ \A i, j \in 1..c : f[i] = f[j] => i = j
    <3> HIDE DEF c, f
    <3> QED BY <2>2 DEF IsInjective
  <2>4. Row(f)
    <3> HIDE DEF c, f
    <3> QED BY <2>2, <2>3, RowFrom
  <2> QED BY <2>2, <2>4
<1>2. Row(kept) /\ ToSet(kept) = A
  BY <1>1, OutsideFacts
<1> HIDE DEF kept
<1>3. /\ Len(kept) \in Nat /\ IsFiniteSet(A) /\ Cardinality(A) = Len(kept)
      /\ Len(kept) <= Slots /\ Slots - Len(kept) \in Nat
  <2>1. Len(kept) \in Nat /\ IsFiniteSet(A) /\ Cardinality(A) = Len(kept)
    BY <1>2, RowFacts
  <2>2. Cardinality(A) <= Slots
    BY FiniteSymbols, FS_Subset
  <2>3. Slots \in Nat
    BY SelectorAssumption
  <2> HIDE DEF A
  <2> QED BY <2>1, <2>2, <2>3
<1>4. Row(others) /\ ToSet(others) = ToSet(preferred) \ A
  BY <1>2, OutsideFacts
<1> HIDE DEF others
<1>5. Len(others) \in Nat /\ Len(others) >= Slots - Len(kept)
  <2>1. /\ IsFiniteSet(ToSet(preferred)) /\ Cardinality(ToSet(preferred)) = Len(preferred)
        /\ Len(preferred) \in Nat
    BY RowFacts
  <2>2. Len(others) \in Nat /\ Len(others) = Cardinality(ToSet(others))
    BY <1>4, RowFacts
  <2> HIDE DEF A
  <2>3. Cardinality(ToSet(preferred) \ A)
          = Cardinality(ToSet(preferred)) - Cardinality(ToSet(preferred) \cap A)
    BY <2>1, FS_Difference
  <2>4. /\ Cardinality(ToSet(preferred) \cap A) <= Cardinality(A)
        /\ Cardinality(ToSet(preferred) \cap A) \in Nat
    BY <1>3, <2>1, FS_Intersection, FS_CardinalityType
  <2>5. Slots \in Nat
    BY SelectorAssumption
  <2>6. Len(others) = Len(preferred) - Cardinality(ToSet(preferred) \cap A)
    BY <1>4, <2>1, <2>2, <2>3
  <2> QED BY <1>3, <2>1, <2>2, <2>4, <2>5, <2>6
<1>6. /\ Row(more) /\ ToSet(more) \subseteq ToSet(preferred) \ A
      /\ Len(more) = Slots - Len(kept)
  <2>1. /\ Row(more) /\ ToSet(more) \subseteq ToSet(others)
        /\ Len(more) = IF Slots - Len(kept) < Len(others) THEN Slots - Len(kept)
                       ELSE Len(others)
    BY <1>3, <1>4, FirstOfFacts
  <2> HIDE DEF more
  <2> QED BY <1>3, <1>4, <1>5, <2>1
<1> HIDE DEF more
<1>7. Row(filled) /\ Len(filled) = Slots /\ ToSet(filled) = A \cup ToSet(more)
  <2>1. ToSet(kept) \cap ToSet(more) = {}
    BY <1>2, <1>6
  <2>2. Slots \in Nat
    BY SelectorAssumption
  <2>3. Row(filled) /\ Len(filled) = Len(kept) + Len(more)
        /\ ToSet(filled) = ToSet(kept) \cup ToSet(more)
    BY <1>2, <1>6, <2>1, ConcatFacts
  <2> HIDE DEF filled
  <2> QED BY <1>2, <1>3, <1>6, <2>2, <2>3
<1> HIDE DEF filled
<1>8. DailyKept(start, A, D, limit, May)
  <2>1. A \ ToSet(filled) = {} /\ ToSet(filled) \subseteq D
    BY <1>6, <1>7
  <2>2. Cardinality({}) = 0
    BY FS_EmptySet
  <2>3. start \in [members : Seq(Symbol), changes : Nat]
    BY <1>7 DEF Row
  <2>4. start.members = filled /\ start.changes = 0
    OBVIOUS
  <2> HIDE DEF A, D, start, May
  <2>5. A \ ToSet(start.members) = {} /\ {} \subseteq May
    BY <2>1, <2>4
  <2>6. Cardinality(A \ ToSet(start.members)) <= start.changes /\ start.changes <= limit
    BY <2>2, <2>4, <2>5
  <2> QED BY <1>7, <2>1, <2>3, <2>4, <2>5, <2>6 DEF DailyKept
<1>9. DailyKept(last, A, D, limit, May)
  <2>1. A \subseteq Symbol
    OBVIOUS
  <2>2. ToSet(preferred) \subseteq D
    OBVIOUS
  <2> HIDE DEF A, D, start, top
  <2> QED BY <1>8, <2>1, <2>2, DailyLoop
<1> DEFINE role == ToSet(last.members)
<1>10. Reconciled(current, preferred, forbidden, inactive, since, effective, limit) = role
  BY DEF Reconciled, DailyFold, kept, others, more, filled
<1> HIDE DEF last, May, start
<1>11. /\ role \subseteq Symbol /\ Cardinality(role) = Slots /\ role \subseteq D
       /\ A \ role \subseteq May /\ Cardinality(A \ role) <= limit
  <2>1. /\ Row(last.members) /\ Len(last.members) = Slots
        /\ ToSet(last.members) \subseteq D /\ A \ role \subseteq May
        /\ Cardinality(A \ role) <= last.changes /\ last.changes <= limit
        /\ last.changes \in Nat
    BY <1>9 DEF DailyKept
  <2>2. role \subseteq Symbol /\ Cardinality(role) = Slots
    BY <2>1, RowFacts
  <2>3. Cardinality(A \ role) \in Nat
    BY FiniteSymbols
  <2> HIDE DEF role, A, D
  <2> QED BY <2>1, <2>2, <2>3 DEF role
<1>12. D \cap forbidden = {}
  OBVIOUS
<1>13. current \ (role \cup forbidden \cup inactive) = A \ role
  OBVIOUS
<1> HIDE DEF role, A, D
<1>14. RoleKept(role, current, forbidden, inactive, limit, May)
  BY <1>11, <1>12, <1>13 DEF RoleKept
<1> QED BY <1>10, <1>14 DEF May

-----------------------------------------------------------------------------
\* The selection.

Found(e) == Row(e.order) /\ Row(e.newest)

LEMMA PoolRows ==
  ASSUME NEW e, Found(e)
  PROVE  Row(StablePool(e)) /\ Row(ProbePool(e)) /\ Row(FormalProbePool(e))
BY AmongFacts DEF Found, StablePool, ProbePool, FormalProbePool

\* Three roles without a common member are whole if each has its size.
LEMMA WholeFrom ==
  ASSUME NEW d, Members(d) \subseteq Symbol, Cardinality(d.core) = CoreSize,
         Cardinality(d.boundary) = Slots, Cardinality(d.probe) = Slots,
         d.core \cap d.boundary = {}, (d.core \cup d.boundary) \cap d.probe = {}
  PROVE  WholeRoles(d)
<1>1. IsFiniteSet(d.core) /\ IsFiniteSet(d.boundary) /\ IsFiniteSet(d.probe)
  BY FiniteSymbols DEF Members
<1>2. CoreSize \in Nat /\ Slots \in Nat /\ Cardinality({}) = 0
  BY SelectorAssumption, FS_EmptySet
<1>3. /\ IsFiniteSet(d.core \cup d.boundary)
      /\ Cardinality(d.core \cup d.boundary)
           = Cardinality(d.core) + Cardinality(d.boundary)
             - Cardinality(d.core \cap d.boundary)
  BY <1>1, FS_Union
<1>4. Cardinality((d.core \cup d.boundary) \cup d.probe)
        = Cardinality(d.core \cup d.boundary) + Cardinality(d.probe)
          - Cardinality((d.core \cup d.boundary) \cap d.probe)
  BY <1>1, <1>3, FS_Union
<1>5. Cardinality(d.core \cup d.boundary) = CoreSize + Slots
  <2>1. Cardinality(d.core \cap d.boundary) = 0
    BY <1>2
  <2> QED BY <1>2, <1>3, <2>1
<1>6. Cardinality((d.core \cup d.boundary) \cup d.probe) = CoreSize + 2 * Slots
  BY <1>2, <1>4, <1>5
<1> QED BY <1>6 DEF WholeRoles, Members

\* The roles that are whole have no common member.
LEMMA WholeApart ==
  ASSUME NEW d, WholeRoles(d)
  PROVE  /\ d.core \subseteq Symbol /\ d.boundary \subseteq Symbol
         /\ d.probe \subseteq Symbol
         /\ d.core \cap d.boundary = {} /\ (d.core \cup d.boundary) \cap d.probe = {}
<1> DEFINE one == d.core \cap d.boundary
           two == (d.core \cup d.boundary) \cap d.probe
<1>1. /\ IsFiniteSet(d.core) /\ IsFiniteSet(d.boundary) /\ IsFiniteSet(d.probe)
      /\ IsFiniteSet(one) /\ IsFiniteSet(two)
      /\ Cardinality(one) \in Nat /\ Cardinality(two) \in Nat
  BY FiniteSymbols DEF WholeRoles, Members
<1>2. CoreSize \in Nat /\ Slots \in Nat
  BY SelectorAssumption
<1>3. /\ IsFiniteSet(d.core \cup d.boundary)
      /\ Cardinality(d.core \cup d.boundary)
           = Cardinality(d.core) + Cardinality(d.boundary) - Cardinality(one)
  BY <1>1, FS_Union
<1>4. Cardinality((d.core \cup d.boundary) \cup d.probe)
        = Cardinality(d.core \cup d.boundary) + Cardinality(d.probe) - Cardinality(two)
  BY <1>1, <1>3, FS_Union
<1>5. /\ Cardinality(d.core) = CoreSize /\ Cardinality(d.boundary) = Slots
      /\ Cardinality(d.probe) = Slots
      /\ Cardinality((d.core \cup d.boundary) \cup d.probe) = CoreSize + 2 * Slots
  BY DEF WholeRoles, Members
<1>6. Cardinality(one) = 0 /\ Cardinality(two) = 0
  <2> HIDE DEF one, two
  <2>1. Cardinality(d.core \cup d.boundary) = CoreSize + Slots - Cardinality(one)
    BY <1>3, <1>5
  <2>2. CoreSize + 2 * Slots
          = Cardinality(d.core \cup d.boundary) + Slots - Cardinality(two)
    BY <1>4, <1>5
  <2>3. ASSUME NEW u \in Nat, NEW v \in Nat, NEW c \in Nat, NEW k \in Nat,
               c + 2 * k = c + k - u + k - v
        PROVE  u = 0 /\ v = 0
    BY <2>3
  <2> QED BY <1>1, <1>2, <2>1, <2>2, <2>3
<1>7. one = {} /\ two = {}
  <2> HIDE DEF one, two
  <2> QED BY <1>1, <1>6, FS_EmptySet
<1> QED BY <1>7 DEF WholeRoles, Members

\* The configured roles are whole (selector.py:144-173).
LEMMA BootstrapFacts ==
  ASSUME NEW e, Found(e), CanBootstrap(e)
  PROVE  WholeRoles(BootstrapRoles(e))
<1> DEFINE formals == FormalProbePool(e)
           probe   == ToSet(FirstOf(Slots, formals))
           pool    == Outside(StablePool(e), probe)
           stable  == FirstOf(CoreSize + Slots, pool)
           core    == ToSet(FirstOf(CoreSize, stable))
           d == [core |-> core, boundary |-> ToSet(stable) \ core, probe |-> probe]
<1>1. CoreSize \in Nat /\ Slots \in Nat /\ CoreSize + Slots \in Nat
      /\ CoreSize < CoreSize + Slots /\ CoreSize + Slots - CoreSize = Slots
  BY SelectorAssumption
<1>2. Row(formals) /\ Row(pool) /\ ToSet(pool) = ToSet(StablePool(e)) \ probe
  <2> HIDE DEF probe
  <2> QED BY PoolRows, OutsideFacts
<1>3. Len(formals) >= Slots /\ Len(pool) >= CoreSize + Slots
      /\ Len(formals) \in Nat /\ Len(pool) \in Nat
  BY <1>2, RowFacts DEF CanBootstrap
<1> HIDE DEF formals
<1>4. probe \subseteq Symbol /\ Cardinality(probe) = Slots
  <2>1. Row(FirstOf(Slots, formals)) /\ Len(FirstOf(Slots, formals)) = Slots
    BY <1>1, <1>2, <1>3, FirstOfFacts
  <2> QED BY <2>1, RowFacts
<1> HIDE DEF pool
<1>5. Row(stable) /\ Len(stable) = CoreSize + Slots /\ ToSet(stable) \subseteq ToSet(pool)
  BY <1>1, <1>2, <1>3, FirstOfFacts
<1> HIDE DEF stable
<1>6. /\ IsFiniteSet(ToSet(stable)) /\ Cardinality(ToSet(stable)) = CoreSize + Slots
      /\ ToSet(stable) \subseteq Symbol
  BY <1>5, RowFacts
<1>7. core \subseteq ToSet(stable) /\ Cardinality(core) = CoreSize
  <2>1. /\ Row(FirstOf(CoreSize, stable)) /\ Len(FirstOf(CoreSize, stable)) = CoreSize
        /\ core \subseteq ToSet(stable)
    BY <1>1, <1>5, FirstOfFacts
  <2> QED BY <2>1, RowFacts
<1> HIDE DEF core, probe
<1>8. Cardinality(ToSet(stable) \ core) = Slots
  <2>1. Cardinality(ToSet(stable) \ core)
          = Cardinality(ToSet(stable)) - Cardinality(ToSet(stable) \cap core)
    BY <1>6, FS_Difference
  <2>2. ToSet(stable) \cap core = core
    BY <1>7
  <2> QED BY <1>1, <1>6, <1>7, <2>1, <2>2
<1>9. Members(d) \subseteq Symbol
  BY <1>4, <1>6, <1>7 DEF Members
<1>10. d.core \cap d.boundary = {} /\ (d.core \cup d.boundary) \cap d.probe = {}
  BY <1>2, <1>5, <1>7
<1>11. WholeRoles(d)
  <2>1. d.core = core /\ d.boundary = ToSet(stable) \ core /\ d.probe = probe
    OBVIOUS
  <2> HIDE DEF d
  <2> QED BY <1>4, <1>7, <1>8, <1>9, <1>10, <2>1, WholeFrom
<1>12. BootstrapRoles(e) = d
  BY DEF BootstrapRoles, core, stable, pool, probe, formals
<1> QED BY <1>11, <1>12

\* The forced replacements give the core its size again.
LEMMA ReplacedFacts ==
  ASSUME NEW e, Found(e), NEW C, C \subseteq Symbol, Cardinality(C) = CoreSize,
         NEW I, CanReplace(e, C, I)
  PROVE  /\ Replaced(e, C, I) \subseteq Symbol
         /\ Cardinality(Replaced(e, C, I)) = CoreSize
         /\ C \ I \subseteq Replaced(e, C, I)
<1> DEFINE out  == Outside(StablePool(e), C)
           n    == Cardinality(C \cap I)
           more == ToSet(FirstOf(n, out))
<1>1. Row(out) /\ ToSet(out) \cap C = {} /\ Len(out) \in Nat
  <2>1. Row(out) /\ ToSet(out) = ToSet(StablePool(e)) \ C
    BY PoolRows, OutsideFacts
  <2> HIDE DEF out
  <2> QED BY <2>1, RowFacts
<1>2. n \in Nat /\ IsFiniteSet(C \cap I) /\ IsFiniteSet(C \ I) /\ IsFiniteSet(C)
      /\ CoreSize \in Nat
  BY FiniteSymbols, SelectorAssumption
<1>3. Len(out) >= n
  BY DEF CanReplace, Vacant
<1>4. more \subseteq Symbol /\ Cardinality(more) = n /\ more \cap C = {}
      /\ IsFiniteSet(more)
  <2> HIDE DEF out, n
  <2>1. /\ Row(FirstOf(n, out)) /\ Len(FirstOf(n, out)) = n /\ more \subseteq ToSet(out)
    BY <1>1, <1>2, <1>3, FirstOfFacts
  <2> QED BY <1>1, <2>1, RowFacts
<1>5. Replaced(e, C, I) = (C \ I) \cup more
  BY DEF Replaced, Vacant
<1> HIDE DEF more, out
<1>6. Cardinality(C \ I) = CoreSize - n
  BY <1>2, FS_Difference
<1>7. (C \ I) \cap more = {}
  BY <1>4
<1>8. Cardinality((C \ I) \cup more)
        = Cardinality(C \ I) + Cardinality(more) - Cardinality((C \ I) \cap more)
  BY <1>2, <1>4, FS_Union
<1>9. Cardinality((C \ I) \cap more) = 0
  BY <1>7, FS_EmptySet
<1> HIDE DEF n
<1>10. Cardinality((C \ I) \cup more) = CoreSize
  BY <1>2, <1>4, <1>6, <1>8, <1>9
<1> QED BY <1>4, <1>5, <1>10

\* What the selection makes of the core: it has its size; on a day that does not
\* begin a week only inactive members leave; those who leave otherwise have stayed
\* long enough and are no more than the weekly limit.
CoreKept(core, C, I, effective, May) ==
  /\ core \subseteq Symbol /\ Cardinality(core) = CoreSize
  /\ C \ (core \cup I) \subseteq May
  /\ Cardinality(C \ (core \cup I)) <= WeeklyLimit
  /\ effective % Week # 0 => C \ core \subseteq I

LEMMA CoreFacts ==
  ASSUME NEW e, Found(e), NEW a, a.core \subseteq Symbol, Cardinality(a.core) = CoreSize,
         NEW I, CanReplace(e, a.core, I), NEW effective, NEW since
  PROVE  CoreKept(Core(e, a, I, effective, since), a.core, I, effective,
                  Stayed(since, a.effective, effective, CoreDwell))
<1> DEFINE C      == a.core
           May    == Stayed(since, a.effective, effective, CoreDwell)
           forced == Replaced(e, C, I)
           pool   == StablePool(e)
           open   == Outside(FirstOf(EntryRank, pool), C \cup forced)
           start  == [core |-> forced, changes |-> Cardinality(C \ forced),
                      over |-> FALSE]
           last   == WeeklyFold(open, start, pool, effective, since, a.effective)
<1>1. forced \subseteq Symbol /\ Cardinality(forced) = CoreSize /\ C \ I \subseteq forced
  BY ReplacedFacts
<1>2. /\ C \ (forced \cup I) = {} /\ C \ forced \subseteq I
      /\ Cardinality({}) = 0 /\ Cardinality(C \ forced) \in Nat /\ WeeklyLimit \in Nat
  <2>1. Cardinality({}) = 0 /\ WeeklyLimit \in Nat
    BY FS_EmptySet, SelectorAssumption
  <2>2. Cardinality(C \ forced) \in Nat
    <3> HIDE DEF forced
    <3> QED BY FiniteSymbols
  <2> HIDE DEF forced
  <2> QED BY <1>1, <2>1, <2>2
<1>3. CASE effective % Week # 0
  <2>1. Core(e, a, I, effective, since) = forced
    BY <1>3 DEF Core
  <2> HIDE DEF forced, May
  <2>2. Cardinality(C \ (forced \cup I)) = 0
    BY <1>2
  <2>3. CoreKept(forced, C, I, effective, May)
    BY <1>1, <1>2, <2>2 DEF CoreKept
  <2> QED BY <2>1, <2>3 DEF May
<1>4. CASE ~(effective % Week # 0)
  <2>1. Core(e, a, I, effective, since) = last.core
    BY <1>4 DEF Core, WeeklyFold
  <2>2. Row(pool)
    BY PoolRows
  <2>3. Row(open) /\ ToSet(open) \cap forced = {}
    <3>1. EntryRank \in Nat
      BY SelectorAssumption
    <3>2. Row(FirstOf(EntryRank, pool))
      <4> HIDE DEF pool
      <4> QED BY <2>2, <3>1, FirstOfFacts
    <3>3. Row(open) /\ ToSet(open) = ToSet(FirstOf(EntryRank, pool)) \ (C \cup forced)
      <4> HIDE DEF pool, forced
      <4> QED BY <3>2, OutsideFacts
    <3> HIDE DEF open, forced, pool
    <3> QED BY <3>3
  <2> HIDE DEF forced, pool, open, May
  <2>4. WeeklyKept(start, C, I, forced, {}, May)
    <3>1. start \in Contest
      BY <1>1, <1>2 DEF Contest
    <3>2. start.core = forced /\ start.changes = Cardinality(C \ forced)
      OBVIOUS
    <3> HIDE DEF start
    <3>3. C \ (start.core \cup I) = {} /\ Cardinality(C \ (start.core \cup I)) = 0
      BY <1>2, <3>2
    <3>4. /\ Cardinality(C \ (start.core \cup I)) <= start.changes
          /\ Cardinality(C \ (start.core \cup I)) <= WeeklyLimit
      BY <1>2, <3>2, <3>3
    <3> QED BY <1>1, <3>1, <3>2, <3>3, <3>4 DEF WeeklyKept
  <2> HIDE DEF start
  <2>5. WeeklyKept(last, C, I, forced, ToSet(open), May)
    BY <2>2, <2>3, <2>4, WeeklyLoop DEF May
  <2> HIDE DEF last
  <2>6. last.core \subseteq Symbol
    BY <2>5 DEF WeeklyKept, Contest
  <2>7. CoreKept(last.core, C, I, effective, May)
    BY <1>4, <2>5, <2>6 DEF WeeklyKept, CoreKept
  <2> QED BY <2>1, <2>7 DEF May
<1> QED BY <1>3, <1>4

\* The boundary's preference: the stable symbols outside of core and probe, in
\* another order.
LEMMA PreferenceFacts ==
  ASSUME NEW e, Found(e), NEW a, NEW core, NEW probe, NEW I
  PROVE  LET s == BoundaryPreference(e, a, core, probe, I)
         IN  Row(s) /\ ToSet(s) = ToSet(StablePool(e)) \ (core \cup probe)
<1> DEFINE ranked    == Outside(StablePool(e), core \cup probe)
           protected == Among(FirstOf(BoundaryRetainRank, ranked), a.boundary \ I)
           others    == Outside(ranked, ToSet(protected))
<1>1. Row(ranked) /\ ToSet(ranked) = ToSet(StablePool(e)) \ (core \cup probe)
  BY PoolRows, OutsideFacts
<1> HIDE DEF ranked
<1>2. Row(protected) /\ ToSet(protected) \subseteq ToSet(ranked)
  <2> DEFINE near == FirstOf(BoundaryRetainRank, ranked)
  <2>1. BoundaryRetainRank \in Nat
    BY SelectorAssumption
  <2>2. Row(near) /\ ToSet(near) \subseteq ToSet(ranked)
    BY <1>1, <2>1, FirstOfFacts
  <2> HIDE DEF near
  <2>3. /\ Row(Among(near, a.boundary \ I))
        /\ ToSet(Among(near, a.boundary \ I)) = ToSet(near) \cap (a.boundary \ I)
    BY <2>2, AmongFacts
  <2> QED BY <2>2, <2>3 DEF near
<1> HIDE DEF protected
<1>3. Row(others) /\ ToSet(others) = ToSet(ranked) \ ToSet(protected)
  BY <1>1, OutsideFacts
<1> HIDE DEF others
<1>4. Row(protected \o others)
      /\ ToSet(protected \o others) = ToSet(protected) \cup ToSet(others)
  BY <1>2, <1>3, ConcatFacts
<1>5. BoundaryPreference(e, a, core, probe, I) = protected \o others
  BY DEF BoundaryPreference, protected, others, ranked
<1> QED BY <1>1, <1>2, <1>3, <1>4, <1>5

\* What a decision with the roles r respects after the decision a, when I have
\* stopped trading.
Respects(r, a, I, effective, memberSince, coreSince) ==
  /\ WholeRoles(r)
  /\ CoreKept(r.core, a.core, I, effective,
              Stayed(coreSince, a.effective, effective, CoreDwell))
  /\ LET left == (a.boundary \cup a.probe) \ (Members(r) \cup I)
     IN  /\ left \subseteq Stayed(memberSince, effective, effective, Dwell)
         /\ Cardinality(left) <= IF DailyLimit > 2 THEN DailyLimit ELSE 2

\* Whatever the evidence and the times of joining are, a selection that does not
\* raise has complete and disjoint roles, changes no more than the limits allow
\* and lets nobody go before the minimum stay who still trades
\* (selector.py:266-400). It has enough preferred symbols for both roles: the
\* checks at the end of _reconcile_bucket never raise (selector.py:740-743).
THEOREM SelectionRespects ==
  ASSUME NEW e, Found(e), NEW a, WholeRoles(a), ~Raises(e, a),
         NEW effective, NEW memberSince, NEW coreSince
  PROVE  Respects(SelectRolling(a, e, effective, memberSince, coreSince), a,
                  Inactive(e, Members(a)), effective, memberSince, coreSince)
<1> DEFINE I        == Inactive(e, Members(a))
           core     == Core(e, a, I, effective, coreSince)
           probes   == Outside(ProbePool(e), core)
           probe    == Reconciled(a.probe, probes, core, I, memberSince, effective, 1)
           stable   == Outside(StablePool(e), probe)
           limit    == IF DailyLimit > 2 THEN DailyLimit - 1 ELSE 1
           wanted   == BoundaryPreference(e, a, core, probe, I)
           boundary == Reconciled(a.boundary, wanted, core \cup probe, I, memberSince,
                                  effective, limit)
           short    == \/ Len(ProbePool(e)) < Slots
                       \/ Len(probes) < Slots
                       \/ Len(stable) < CoreSize + Slots
           May      == Stayed(memberSince, effective, effective, Dwell)
           CoreMay  == Stayed(coreSince, a.effective, effective, CoreDwell)
           r == [core |-> core, boundary |-> boundary, probe |-> probe]
           old == Roles(a)
<1>1. SelectRolling(a, e, effective, memberSince, coreSince)
        = IF short THEN old ELSE r
  BY DEF SelectRolling, WithCore, WithProbe, Members
<1>2. /\ {CoreSize, Slots, WeeklyLimit, DailyLimit} \subseteq Nat \ {0}
      /\ limit \in Nat /\ 1 \in Nat
      /\ 1 + limit <= IF DailyLimit > 2 THEN DailyLimit ELSE 2
  BY SelectorAssumption
<1>3. /\ Row(ProbePool(e)) /\ Len(ProbePool(e)) \in Nat
      /\ Row(StablePool(e)) /\ Len(StablePool(e)) \in Nat
  BY PoolRows, RowFacts
<1>4. /\ a.core \subseteq Symbol /\ a.boundary \subseteq Symbol /\ a.probe \subseteq Symbol
      /\ Cardinality(a.core) = CoreSize /\ Cardinality(a.boundary) = Slots
      /\ Cardinality(a.probe) = Slots
  BY WholeApart DEF WholeRoles
<1>5. CASE short
  <2>1. old.core = a.core /\ old.boundary = a.boundary /\ old.probe = a.probe
        /\ Members(old) = Members(a)
    BY DEF Roles, Members
  <2> HIDE DEF short, old, May, CoreMay, I
  <2>2. WholeRoles(old)
    BY <2>1 DEF WholeRoles
  <2>3. Cardinality({}) = 0
    BY FS_EmptySet
  <2>4. a.core \ (old.core \cup I) = {} /\ a.core \ old.core = {}
        /\ (a.boundary \cup a.probe) \ (Members(old) \cup I) = {}
    BY <2>1 DEF Members
  <2>5. CoreKept(old.core, a.core, I, effective, CoreMay)
    <3>1. Cardinality(a.core \ (old.core \cup I)) <= WeeklyLimit
      BY <1>2, <2>3, <2>4
    <3>2. a.core \ (old.core \cup I) \subseteq CoreMay /\ a.core \ old.core \subseteq I
      BY <2>4
    <3> QED BY <1>4, <2>1, <3>1, <3>2 DEF CoreKept
  <2> DEFINE left == (a.boundary \cup a.probe) \ (Members(old) \cup I)
  <2>6. left \subseteq May
    BY <2>4
  <2>7. Cardinality(left) <= IF DailyLimit > 2 THEN DailyLimit ELSE 2
    <3>1. Cardinality(left) = 0
      BY <2>3, <2>4
    <3> HIDE DEF left, limit
    <3> QED BY <1>2, <3>1
  <2>8. Respects(old, a, I, effective, memberSince, coreSince)
    BY <2>2, <2>5, <2>6, <2>7 DEF Respects, CoreMay, May
  <2> QED BY <1>1, <1>5, <2>8 DEF I
<1>6. CASE ~short
  <2>1. CanReplace(e, a.core, I)
    <3>1. CanReplace(e, a.core, Inactive(e, a.core))
      BY <1>2, <1>3, <1>6 DEF Raises
    <3>2. Vacant(a.core, Inactive(e, a.core)) = Vacant(a.core, I)
      BY DEF Vacant, Inactive, Members
    <3> HIDE DEF I
    <3> QED BY <3>1, <3>2 DEF CanReplace
  <2>2. CoreKept(core, a.core, I, effective, CoreMay)
    <3> HIDE DEF I
    <3> QED BY <1>4, <2>1, CoreFacts
  <2> HIDE DEF core, I
  <2>3. Row(probes) /\ ToSet(probes) = ToSet(ProbePool(e)) \ core /\ Len(probes) \in Nat
    <3>1. Row(probes) /\ ToSet(probes) = ToSet(ProbePool(e)) \ core
      BY <1>3, OutsideFacts
    <3> HIDE DEF probes
    <3> QED BY <3>1, RowFacts
  <2>4. Len(probes) >= Slots
    <3>1. ~(Len(probes) < Slots)
      BY <1>6
    <3> HIDE DEF probes
    <3> QED BY <1>2, <2>3, <3>1
  <2> HIDE DEF probes
  <2>5. RoleKept(probe, a.probe, core, I, 1, May)
    <3>1. ToSet(probes) \cap core = {}
      BY <2>3
    <3> QED BY <1>2, <1>4, <2>3, <2>4, <3>1, ReconciledFacts
  <2> HIDE DEF probe
  <2>6. /\ Row(wanted) /\ ToSet(wanted) = ToSet(StablePool(e)) \ (core \cup probe)
        /\ Len(wanted) \in Nat /\ Cardinality(ToSet(wanted)) = Len(wanted)
    <3>1. Row(wanted) /\ ToSet(wanted) = ToSet(StablePool(e)) \ (core \cup probe)
      BY PreferenceFacts
    <3> HIDE DEF wanted
    <3> QED BY <3>1, RowFacts
  <2>7. Len(wanted) >= Slots
    <3> DEFINE s == ToSet(StablePool(e)) \ probe
    <3>1. ~(Len(stable) < CoreSize + Slots)
      BY <1>6
    <3>2. Row(stable) /\ ToSet(stable) = s
      BY <1>3, OutsideFacts
    <3> HIDE DEF stable, wanted
    <3>3. IsFiniteSet(s) /\ Cardinality(s) = Len(stable) /\ Len(stable) \in Nat
      BY <3>2, RowFacts
    <3>4. core \subseteq Symbol /\ Cardinality(core) = CoreSize
      BY <2>2 DEF CoreKept
    <3>5. Cardinality(s \ core) = Cardinality(s) - Cardinality(s \cap core)
      <4> HIDE DEF s
      <4> QED BY <3>3, FS_Difference
    <3>6. Cardinality(s \cap core) \in Nat /\ Cardinality(s \cap core) <= CoreSize
      <4> HIDE DEF s
      <4>1. IsFiniteSet(core)
        BY <3>4, FiniteSymbols
      <4> QED BY <3>3, <3>4, <4>1, FS_Intersection, FS_CardinalityType
    <3>7. ToSet(wanted) = s \ core
      BY <2>6
    <3>8. Len(wanted) = Cardinality(s) - Cardinality(s \cap core)
      <4> HIDE DEF s
      <4> QED BY <2>6, <3>5, <3>7
    <3> HIDE DEF s
    <3> QED BY <1>2, <3>1, <3>3, <3>6, <3>8
  <2> HIDE DEF wanted
  <2>8. RoleKept(boundary, a.boundary, core \cup probe, I, limit, May)
    <3>1. ToSet(wanted) \cap (core \cup probe) = {}
      BY <2>6
    <3> HIDE DEF limit
    <3> QED BY <1>2, <1>4, <2>6, <2>7, <3>1, ReconciledFacts
  <2> HIDE DEF boundary
  <2>9. r.core = core /\ r.boundary = boundary /\ r.probe = probe
        /\ Members(r) = core \cup boundary \cup probe
    BY DEF Members
  <2> HIDE DEF r
  <2>10. WholeRoles(r)
    <3>1. Members(r) \subseteq Symbol
      BY <2>2, <2>5, <2>8, <2>9 DEF CoreKept, RoleKept
    <3>2. /\ Cardinality(r.core) = CoreSize /\ Cardinality(r.boundary) = Slots
          /\ Cardinality(r.probe) = Slots
      BY <2>2, <2>5, <2>8, <2>9 DEF CoreKept, RoleKept
    <3>3. /\ r.core \cap r.boundary = {}
          /\ (r.core \cup r.boundary) \cap r.probe = {}
      BY <2>5, <2>8, <2>9 DEF RoleKept
    <3> QED BY <3>1, <3>2, <3>3, WholeFrom
  <2> DEFINE one  == a.probe \ (probe \cup core \cup I)
             two  == a.boundary \ (boundary \cup (core \cup probe) \cup I)
             left == (a.boundary \cup a.probe) \ (Members(r) \cup I)
  <2>11. left \subseteq one \cup two
    BY <2>9
  <2>12. /\ one \subseteq May /\ Cardinality(one) <= 1
         /\ two \subseteq May /\ Cardinality(two) <= limit
    BY <2>5, <2>8 DEF RoleKept
  <2>13. left \subseteq May
    BY <2>11, <2>12
  <2>14. IsFiniteSet(one) /\ Cardinality(one) \in Nat
         /\ IsFiniteSet(two) /\ Cardinality(two) \in Nat /\ Cardinality(left) \in Nat
    BY <1>4, FiniteSymbols
  <2>15. Cardinality(left) <= 1 + limit
    <3> HIDE DEF one, two, left, limit
    <3>1. /\ IsFiniteSet(one \cup two) /\ Cardinality(one \cap two) \in Nat
          /\ Cardinality(one \cup two)
               = Cardinality(one) + Cardinality(two) - Cardinality(one \cap two)
      BY <2>14, FS_Union, FS_Intersection, FS_CardinalityType
    <3>2. Cardinality(left) <= Cardinality(one \cup two)
      BY <2>11, <3>1, FS_Subset
    <3> QED BY <1>2, <2>12, <2>14, <3>1, <3>2
  <2>16. Cardinality(left) <= IF DailyLimit > 2 THEN DailyLimit ELSE 2
    <3> HIDE DEF left, limit
    <3> QED BY <1>2, <2>14, <2>15
  <2>17. Respects(r, a, I, effective, memberSince, coreSince)
    BY <2>2, <2>9, <2>10, <2>13, <2>16 DEF Respects
  <2> QED BY <1>1, <1>6, <2>17 DEF I, r, boundary, wanted, probe, probes, core
<1> QED BY <1>5, <1>6

-----------------------------------------------------------------------------
Numbered(d) == d.seq \in Nat

\* The number and the version that the decision after a has.
Follows(d, a) ==
  /\ d.seq = a.seq + 1
  /\ IF d.core = a.core THEN d.gen = a.gen /\ d.rev = a.rev + 1
     ELSE d.gen = a.gen + 1 /\ d.rev = 0

Files ==
  /\ DOMAIN disk = {"active", "state", "pending", "overrides"}
  /\ disk.active = {} \/ \E d : disk.active = {d} /\ Numbered(d)
  /\ disk.active = {} => disk.pending = {}

InMemory == pc \notin {"down", "failed"} => mem.active = disk.active /\ disk.active # {}

PendingFollows ==
  \A p \in disk.pending : /\ Numbered(p)
                          /\ p.seq > Old.seq => Follows(p, Old)

Inv == Files /\ InMemory /\ PendingFollows

-----------------------------------------------------------------------------
LEMMA OnlyOne == \A d : Only({d}) = d
  BY DEF Only

\* A decision that is due follows the active one (universe.py:190-253).
LEMMA DueFollows ==
  ASSUME Inv, pc = "due", NEW now, NEW c \in Due(now)
  PROVE  Numbered(c.decision) /\ Follows(c.decision, Old)
<1>1. Active = Old /\ Numbered(Old)
  BY OnlyOne DEF Inv, InMemory, Files, Active, Old
<1>2. CASE c.decision \in disk.pending /\ c.decision.seq > Active.seq
  BY <1>1, <1>2 DEF Inv, PendingFollows
<1>3. CASE \E o \in disk.overrides : c.decision = FromOverride(o)
  BY <1>1, <1>3 DEF FromOverride, Follows, Numbered
<1> QED BY <1>2, <1>3 DEF Due

\* What apply_due publishes is one decision, and it follows the active one.
LEMMA ApplyFollows ==
  ASSUME Inv, Apply
  PROVE  \E d : /\ mem'.active = {d} /\ disk'.active = {d}
                /\ disk'.pending = disk.pending
                /\ DOMAIN disk' = DOMAIN disk
                /\ Numbered(d) /\ Follows(d, Old)
<1>1. PICK c \in Selected(Due(day)) :
        /\ mem' = [active |-> {c.decision},
                   member |-> Joining(mem.member, Members(c.decision),
                                      c.decision.effective),
                   core |-> [x \in c.decision.core |->
                               IF x \in Active.core
                               THEN SinceOr(mem.core, x, c.decision.effective)
                               ELSE c.decision.effective]]
        /\ disk' = [disk EXCEPT !.active = {c.decision}, !.overrides = Accepted]
  BY Zenon DEF Apply
<1>2. c \in Due(day)
  BY <1>1 DEF Selected
<1>3. Numbered(c.decision) /\ Follows(c.decision, Old)
  BY <1>2, DueFollows DEF Apply
<1>4. DOMAIN disk = {"active", "state", "pending", "overrides"}
  BY DEF Inv, Files
<1> QED BY <1>1, <1>3, <1>4

LEMMA InvInit == Init => Inv
  BY DEF Init, Inv, Files, InMemory, PendingFollows

\* Every step of the process, the operator and the crash keeps the invariant.
LEMMA InvStep == Inv /\ [Next]_vars => Inv'
<1> SUFFICES ASSUME Inv, [Next]_vars PROVE Inv'
  OBVIOUS
<1> USE DEF Inv, Files, InMemory, store, process, history, bounds
<1>1. CASE FirstBoot
  <2>1. mem'.active = {Bootstrap} /\ disk'.active = {Bootstrap} /\ disk'.pending = {}
    BY <1>1 DEF FirstBoot
  <2>2. DOMAIN disk' = DOMAIN disk
    BY <1>1 DEF FirstBoot
  <2>3. Numbered(Bootstrap)
    BY DEF Bootstrap, Numbered
  <2> QED BY <2>1, <2>2, <2>3 DEF PendingFollows
<1>2. CASE BootstrapState \/ SaveState
  BY <1>2 DEF BootstrapState, SaveState, PendingFollows, Old
<1>3. CASE Boot
  BY <1>3 DEF Boot, PendingFollows, Old
<1>4. CASE Apply
  <2>1. PICK d : /\ mem'.active = {d} /\ disk'.active = {d}
                 /\ disk'.pending = disk.pending
                 /\ DOMAIN disk' = DOMAIN disk
                 /\ Numbered(d) /\ Follows(d, Old)
    BY <1>4, ApplyFollows
  <2>2. Old' = d
    BY <2>1, OnlyOne DEF Old
  <2>3. Numbered(Old)
    BY <1>4, OnlyOne DEF Apply, Old
  <2>4. ASSUME NEW p \in disk.pending PROVE Numbered(p) /\ ~(p.seq > d.seq)
    BY <2>1, <2>3 DEF PendingFollows, Follows, Numbered
  <2>5. PendingFollows'
    BY <2>1, <2>2, <2>4 DEF PendingFollows
  <2> QED BY <1>4, <2>1, <2>5 DEF Apply
<1>5. CASE NothingDue
  BY <1>5 DEF NothingDue, PendingFollows, Old
<1>6. CASE RemoveSource \/ RemovePending
  BY <1>6 DEF RemoveSource, RemovePending, PendingFollows, Old
<1>7. CASE Midnight \/ Observe \/ FormalStart
  BY <1>7 DEF Midnight, Observe, FormalStart, PendingFollows, Old
<1>8. CASE Verify
  BY <1>8 DEF Verify, NoMemory, PendingFollows, Old
<1>9. CASE Plan
  <2>1. Active = Old /\ Numbered(Old)
    BY <1>9, OnlyOne DEF Plan, Active, Old
  <2>2. Planned(Only(snapshot)).seq = Old.seq + 1
    BY <2>1 DEF Planned, Decided
  <2>3. Follows(Planned(Only(snapshot)), Old)
    BY <2>1 DEF Planned, Decided, NextVersion, Follows
  <2>4. disk'.pending = {} \/ disk'.pending = {Planned(Only(snapshot))}
    BY <1>9 DEF Plan, Pending
  <2>5. UNCHANGED <<mem, pc>> /\ disk'.active = disk.active /\ DOMAIN disk' = DOMAIN disk
    BY <1>9 DEF Plan, Pending
  <2> QED BY <1>9, <2>1, <2>2, <2>3, <2>4, <2>5
          DEF PendingFollows, Old, Numbered, Plan
<1>10. CASE PlanRaises \/ Restart \/ Crash
  BY <1>10 DEF PlanRaises, Restart, Crash, NoMemory, PendingFollows, Old
<1>11. CASE Override
  BY <1>11 DEF Override, PendingFollows, Old
<1>12. CASE UNCHANGED vars
  BY <1>12 DEF vars, PendingFollows, Old
<1> QED BY <1>1, <1>2, <1>3, <1>4, <1>5, <1>6, <1>7, <1>8, <1>9, <1>10, <1>11,
           <1>12 DEF Next

-----------------------------------------------------------------------------
\* The invariant that carries the types, the limits and the minimum stays.

\* The limits and the stays of ChangeLimits and DwellRespected, of a decision d
\* after the decision a.
Limited(d, a) ==
  /\ Cardinality((a.boundary \cup a.probe) \ (Members(d) \cup d.inactive))
       <= IF DailyLimit > 2 THEN DailyLimit ELSE 2
  /\ Cardinality(a.core \ (d.core \cup d.inactive)) <= WeeklyLimit
  /\ d.effective % Week # 0 => a.core \ d.core \subseteq d.inactive
Rested(d, a) ==
  /\ \A x \in Members(a) \ (Members(d) \cup d.inactive) :
       d.effective - joined.member[x] >= Dwell
  /\ \A x \in a.core \ (d.core \cup d.inactive) :
       d.effective - joined.core[x] >= CoreDwell

Requested(o) ==
  /\ \E p \in Proposal : o.boundary = p.boundary /\ o.probe = p.probe
  /\ o.created \in Int /\ o.effective \in Int
Waits(o) == o.evidence \in Evidence /\ o.day \in Int /\ o.late \in BOOLEAN

Shapes ==
  /\ WholeRoles(policy)
  /\ \A d \in disk.active \cup disk.pending : WholeRoles(d) /\ d.effective \in Int
  /\ disk.pending = {} \/ \E d : disk.pending = {d}
  /\ disk.state = {} \/ \E s : disk.state = {s}
  /\ snapshot = {} \/ \E o : snapshot = {o} /\ Waits(o)
  /\ \A o \in disk.overrides : Requested(o)
  /\ pc \in {"down", "bootstrap", "due", "state", "source", "pending", "up", "failed"}
  /\ pc \in {"down", "failed"} => mem = NoMemory /\ snapshot = {}
  /\ applying \subseteq disk.overrides \cup disk.pending
  /\ applying = {} \/ pc \in {"state", "source"}
  /\ {formal, ready, torn} \subseteq BOOLEAN
  /\ day \in 0..MaxDays /\ polled \in -1..MaxDays
  /\ crashes \in 0..MaxCrashes /\ overrides \in 0..MaxOverrides

\* The history of the published memberships: when no crash has left an old
\* membership-state.json, the memory and the file agree with it.
Times ==
  /\ disk.active = {} => disk.state = {}
  /\ disk.active # {} =>
       /\ joined.member \in [Members(Old) -> Int] /\ joined.core \in [Old.core -> Int]
       /\ \A x \in Old.core : joined.member[x] <= joined.core[x]
       /\ \A x \in Members(Old) : joined.member[x] <= day + 1
       /\ \A o \in snapshot : /\ day <= o.day + 1
                              /\ \A x \in Members(Old) : joined.member[x] <= o.day + 1
  /\ ~torn =>
       /\ pc \notin {"down", "failed"} =>
            mem.member = joined.member /\ mem.core = joined.core
       /\ pc # "state" =>
            disk.state \subseteq {[member |-> joined.member, core |-> joined.core]}

\* A planned decision that follows the active one keeps the limits, and the stays
\* if the memory was right when it was planned.
Planning ==
  \A p \in disk.pending :
    p.seq > Old.seq =>
      /\ Limited(p, Old)
      /\ \A x \in Members(Old) : joined.member[x] <= p.effective
      /\ ~torn /\ Dwell <= CoreDwell => Rested(p, Old)

Full == Inv /\ Shapes /\ Times /\ Planning

LEMMA Running ==
  ASSUME Inv, pc \notin {"down", "failed"}
  PROVE  /\ Active = Old /\ disk.active = {Old} /\ mem.active = {Old}
         /\ DOMAIN disk = {"active", "state", "pending", "overrides"}
BY OnlyOne DEF Inv, InMemory, Files, Active, Old

\* The decision that a discovery plans (universe.py:86-152).
LEMMA PlannedFacts ==
  ASSUME Full, pc = "up", NEW o, snapshot = {o}, ~Raises(o.evidence, Active)
  PROVE  /\ WholeRoles(Planned(o)) /\ Planned(o).effective \in Int
         /\ Limited(Planned(o), Old)
         /\ \A x \in Members(Old) : joined.member[x] <= Planned(o).effective
         /\ ~torn /\ Dwell <= CoreDwell => Rested(Planned(o), Old)
<1> DEFINE e == o.evidence
           effective == NextEffective(o)
           r == SelectRolling(Active, e, effective, mem.member, mem.core)
           d == Planned(o)
           I == Inactive(e, Members(Old))
<1>1. Active = Old /\ disk.active = {Old}
  BY Running DEF Full
<1>2. Waits(o) /\ WholeRoles(Old)
  BY <1>1 DEF Full, Shapes
<1>3. Found(e)
  BY <1>2, EvidenceAssumption DEF Waits, Found, Row
<1>4. Respects(r, Old, I, effective, mem.member, mem.core)
  BY <1>1, <1>2, <1>3, SelectionRespects
<1> HIDE DEF r
<1>5. /\ d.core = r.core /\ d.boundary = r.boundary /\ d.probe = r.probe
      /\ Members(d) = Members(r) /\ d.inactive = I /\ d.effective = effective
  BY <1>1 DEF Planned, Decided, r, Members
<1> HIDE DEF d, I
<1>6. effective \in Int /\ o.day + 1 <= effective
  BY <1>2 DEF NextEffective, Waits
<1> HIDE DEF effective
<1>7. WholeRoles(d)
  BY <1>4, <1>5 DEF Respects, WholeRoles
<1>8. Limited(d, Old)
  BY <1>4, <1>5 DEF Respects, CoreKept, Limited
<1>9. \A x \in Members(Old) : joined.member[x] \in Int /\ joined.member[x] <= d.effective
  <2>1. \A x \in Members(Old) : joined.member[x] \in Int /\ joined.member[x] <= o.day + 1
    BY <1>1 DEF Full, Times
  <2>2. o.day + 1 \in Int
    BY <1>2 DEF Waits
  <2> QED BY <1>5, <1>6, <2>1, <2>2
<1>10. ASSUME ~torn, Dwell <= CoreDwell PROVE Rested(d, Old)
  <2>1. mem.member = joined.member /\ mem.core = joined.core
    BY <1>10 DEF Full, Times
  <2>2. DOMAIN joined.member = Members(Old) /\ DOMAIN joined.core = Old.core
    BY <1>1 DEF Full, Times
  <2>3. \A x \in Old.core : /\ joined.core[x] \in Int /\ joined.member[x] \in Int
                            /\ joined.member[x] <= joined.core[x]
    BY <1>1, <1>9 DEF Full, Times, Members
  <2>4. Dwell \in Nat /\ CoreDwell \in Nat
    BY SelectorAssumption
  <2>5. ASSUME NEW x \in Old.core \ (d.core \cup I)
        PROVE  effective - joined.core[x] >= CoreDwell
    <3>1. x \in Stayed(mem.core, Old.effective, effective, CoreDwell)
      BY <1>4, <1>5, <2>5 DEF Respects, CoreKept
    <3>2. SinceOr(mem.core, x, Old.effective) = joined.core[x]
      BY <2>1, <2>2, <2>5 DEF SinceOr
    <3>3. joined.core[x] <= effective - CoreDwell
      BY <3>1, <3>2 DEF Stayed, DwellComplete
    <3> QED BY <1>6, <2>3, <2>4, <3>3
  <2>6. ASSUME NEW x \in Members(Old) \ (Members(d) \cup I)
        PROVE  effective - joined.member[x] >= Dwell
    <3>1. CASE x \in Old.core
      <4>1. x \in Old.core \ (d.core \cup I)
        BY <2>6, <3>1 DEF Members
      <4>2. effective - joined.core[x] >= CoreDwell
        BY <2>5, <4>1
      <4> QED BY <1>6, <1>10, <2>3, <2>4, <3>1, <4>2
    <3>2. CASE x \notin Old.core
      <4>1. x \in (Old.boundary \cup Old.probe) \ (Members(r) \cup I)
        BY <1>5, <2>6, <3>2 DEF Members
      <4>2. x \in Stayed(mem.member, effective, effective, Dwell)
        BY <1>4, <4>1 DEF Respects
      <4>3. SinceOr(mem.member, x, effective) = joined.member[x]
        BY <2>1, <2>2, <2>6 DEF SinceOr
      <4>4. joined.member[x] <= effective - Dwell
        BY <4>2, <4>3 DEF Stayed, DwellComplete
      <4> QED BY <1>6, <1>9, <2>4, <2>6, <4>4
    <3> QED BY <3>1, <3>2
  <2> QED BY <1>5, <2>5, <2>6 DEF Rested
<1> QED BY <1>5, <1>6, <1>7, <1>8, <1>9, <1>10 DEF d

\* An override that is accepted changes the candidates within the limits
\* (universe.py:255-286).
LEMMA OverrideFacts ==
  ASSUME Full, pc = "due", NEW o \in disk.overrides, Acceptable(o)
  PROVE  /\ WholeRoles(FromOverride(o)) /\ FromOverride(o).effective \in Int
         /\ FromOverride(o).core = Old.core
         /\ Limited(FromOverride(o), Old)
         /\ ~torn => Rested(FromOverride(o), Old)
<1> DEFINE d == FromOverride(o)
           proposed == o.boundary \cup o.probe
           current  == Old.boundary \cup Old.probe
<1>1. Active = Old /\ disk.active = {Old}
  BY Running DEF Full
<1>2. WholeRoles(Old) /\ Requested(o)
  BY <1>1 DEF Full, Shapes
<1>3. /\ proposed \subseteq Symbol /\ o.boundary \cap o.probe = {}
      /\ Cardinality(o.boundary) = Slots /\ Cardinality(o.probe) = Slots
  BY <1>2, ProposalAssumption DEF Requested
<1>4. /\ d.core = Old.core /\ d.boundary = o.boundary /\ d.probe = o.probe
      /\ d.effective = o.effective /\ d.inactive = {}
      /\ Members(d) = Old.core \cup proposed /\ d.effective \in Int
  BY <1>1, <1>2 DEF FromOverride, Members, Requested
<1> HIDE DEF d
<1>5. /\ Old.core \subseteq Symbol /\ current \subseteq Symbol
      /\ Old.boundary \cap Old.probe = {} /\ Old.core \cap current = {}
      /\ Cardinality(Old.core) = CoreSize /\ Cardinality(Old.boundary) = Slots
      /\ Cardinality(Old.probe) = Slots
  BY <1>2, WholeApart DEF WholeRoles
<1>6. /\ proposed \cap Old.core = {} /\ Cardinality(proposed \ current) <= DailyLimit
      /\ \A x \in current \ proposed :
           DwellComplete(SinceOr(mem.member, x, o.effective), o.effective, Dwell)
  BY <1>1 DEF Acceptable
<1>7. WholeRoles(d)
  BY <1>3, <1>4, <1>5, <1>6, WholeFrom
<1>8. Cardinality(current) = Cardinality(proposed)
  <2>1. /\ IsFiniteSet(o.boundary) /\ IsFiniteSet(o.probe)
        /\ IsFiniteSet(Old.boundary) /\ IsFiniteSet(Old.probe)
    BY <1>3, <1>5, FiniteSymbols
  <2>2. Cardinality(o.boundary \cap o.probe) = 0
        /\ Cardinality(Old.boundary \cap Old.probe) = 0
    BY <1>3, <1>5, FS_EmptySet
  <2>3. Cardinality(proposed)
          = Cardinality(o.boundary) + Cardinality(o.probe)
            - Cardinality(o.boundary \cap o.probe)
    BY <2>1, FS_Union
  <2>4. Cardinality(current)
          = Cardinality(Old.boundary) + Cardinality(Old.probe)
            - Cardinality(Old.boundary \cap Old.probe)
    BY <2>1, FS_Union
  <2> QED BY <1>3, <1>5, <2>2, <2>3, <2>4
<1> HIDE DEF proposed, current
<1>9. Cardinality(current \ proposed) = Cardinality(proposed \ current)
  <2>1. /\ IsFiniteSet(current) /\ IsFiniteSet(proposed)
        /\ Cardinality(current) \in Nat /\ Cardinality(current \cap proposed) \in Nat
    BY <1>3, <1>5, FiniteSymbols, FS_Intersection
  <2>2. Cardinality(current \ proposed)
          = Cardinality(current) - Cardinality(current \cap proposed)
    BY <2>1, FS_Difference
  <2>3. Cardinality(proposed \ current)
          = Cardinality(proposed) - Cardinality(proposed \cap current)
    BY <2>1, FS_Difference
  <2>4. proposed \cap current = current \cap proposed
    OBVIOUS
  <2> QED BY <1>8, <2>2, <2>3, <2>4
<1>10. Limited(d, Old)
  <2>1. /\ current \ (Members(d) \cup d.inactive) = current \ proposed
        /\ Old.core \ (d.core \cup d.inactive) = {} /\ Old.core \ d.core = {}
    BY <1>4, <1>5
  <2>2. Cardinality(current \ proposed) \in Nat
    BY <1>5, FiniteSymbols
  <2>3. DailyLimit \in Nat /\ WeeklyLimit \in Nat /\ Cardinality({}) = 0
    BY SelectorAssumption, FS_EmptySet
  <2>4. Cardinality(current \ proposed) <= IF DailyLimit > 2 THEN DailyLimit ELSE 2
    BY <1>6, <1>9, <2>2, <2>3
  <2>5. Cardinality(Old.core \ (d.core \cup d.inactive)) <= WeeklyLimit
    BY <2>1, <2>3
  <2> QED BY <2>1, <2>4, <2>5 DEF Limited, current
<1>11. ASSUME ~torn PROVE Rested(d, Old)
  <2>1. mem.member = joined.member
    BY <1>11 DEF Full, Times
  <2>2. joined.member \in [Members(Old) -> Int] /\ Dwell \in Nat
    BY <1>1, SelectorAssumption DEF Full, Times
  <2>3. ASSUME NEW x \in Members(Old) \ (Members(d) \cup d.inactive)
        PROVE  d.effective - joined.member[x] >= Dwell
    <3>1. x \in current \ proposed
      BY <1>4, <2>3 DEF Members, current
    <3>2. SinceOr(mem.member, x, o.effective) = joined.member[x]
      BY <2>1, <2>2, <2>3 DEF SinceOr
    <3>3. joined.member[x] <= d.effective - Dwell
      BY <1>4, <1>6, <3>1, <3>2 DEF DwellComplete
    <3> QED BY <1>4, <2>2, <2>3, <3>3
  <2>4. Old.core \ (d.core \cup d.inactive) = {}
    BY <1>4
  <2> QED BY <2>3, <2>4 DEF Rested
<1> QED BY <1>4, <1>7, <1>10, <1>11 DEF d

\* What is due keeps what is promised of it, wherever it comes from.
LEMMA DueFacts ==
  ASSUME Full, pc = "due", NEW c \in Due(day)
  PROVE  /\ WholeRoles(c.decision)
         /\ c.decision.effective \in Int /\ c.decision.effective <= day
         /\ Limited(c.decision, Old)
         /\ ~torn /\ Dwell <= CoreDwell => Rested(c.decision, Old)
         /\ \A x \in Members(Old) \ Old.core :
              x \in c.decision.core => joined.member[x] <= c.decision.effective
         /\ c.source \in disk.pending \cup Accepted
<1>1. Active = Old
  BY Running DEF Full
<1>2. CASE \E d \in {p \in disk.pending : p.seq > Active.seq /\ p.effective <= day} :
             c = [decision |-> d, source |-> d]
  <2>1. c.decision \in disk.pending /\ c.decision.seq > Old.seq /\ c.source \in disk.pending
        /\ c.decision.effective <= day
    BY <1>1, <1>2
  <2> QED BY <2>1 DEF Full, Shapes, Planning
<1>3. CASE \E o \in {x \in disk.overrides : Acceptable(x) /\ x.effective <= day} :
             c = [decision |-> FromOverride(o), source |-> o]
  <2>1. PICK o \in disk.overrides : /\ Acceptable(o) /\ o.effective <= day
                                    /\ c.decision = FromOverride(o) /\ c.source = o
    BY <1>3
  <2>2. c.decision.effective = o.effective
    BY <2>1 DEF FromOverride
  <2>3. c.source \in Accepted
    BY <2>1 DEF Accepted
  <2> QED BY <2>1, <2>2, <2>3, OverrideFacts
<1> QED BY <1>2, <1>3 DEF Due

\* What apply_due publishes, with the history it writes.
Becomes(d) ==
  /\ mem' = [active |-> {d}, member |-> Joining(mem.member, Members(d), d.effective),
             core |-> [x \in d.core |->
                         IF x \in Active.core THEN SinceOr(mem.core, x, d.effective)
                         ELSE d.effective]]
  /\ disk' = [disk EXCEPT !.active = {d}, !.overrides = Accepted]
  /\ joined' = [member |-> [x \in Members(d) |-> SinceOr(joined.member, x, d.effective)],
                core |-> [x \in d.core |-> SinceOr(joined.core, x, d.effective)]]

LEMMA ApplyFacts ==
  ASSUME Full, Apply
  PROVE  \E c \in Due(day) : Becomes(c.decision) /\ applying' = {c.source}
<1>1. PICK c \in Selected(Due(day)) : Becomes(c.decision) /\ applying' = {c.source}
  BY Zenon DEF Apply, Becomes
<1> QED BY <1>1 DEF Selected

LEMMA FullInit == Init => Full
<1> SUFFICES ASSUME Init PROVE Full
  OBVIOUS
<1>1. PICK e \in Evidence : CanBootstrap(e) /\ policy = BootstrapRoles(e)
  BY DEF Init
<1>2. WholeRoles(policy)
  BY <1>1, EvidenceAssumption, BootstrapFacts DEF Found, Row
<1>3. /\ disk.active = {} /\ disk.pending = {} /\ disk.state = {} /\ disk.overrides = {}
      /\ snapshot = {} /\ applying = {} /\ mem = NoMemory /\ pc = "down"
      /\ {formal, ready, torn} \subseteq BOOLEAN
      /\ day = 0 /\ polled = 0 /\ crashes = 0 /\ overrides = 0
  BY DEF Init
<1>4. Shapes
  <2>1. {MaxDays, MaxOverrides, MaxWait, MaxCrashes} \subseteq Nat
    BY UniverseAssumption
  <2> QED BY <1>2, <1>3, <2>1 DEF Shapes
<1>5. Times /\ Planning
  BY <1>3 DEF Times, Planning
<1> QED BY <1>4, <1>5, InvInit DEF Full

\* The shapes.
LEMMA ShapesStep ==
  ASSUME Full, [Next]_vars
  PROVE  Shapes'
<1> USE DEF Shapes
<1>1. Shapes /\ Inv
  BY DEF Full
<1>2. DOMAIN disk = {"active", "state", "pending", "overrides"}
  BY <1>1 DEF Inv, Files
<1>3. {MaxDays, MaxOverrides, MaxWait, MaxCrashes} \subseteq Nat
  BY UniverseAssumption
<1>4. CASE FirstBoot
  <2>1. Members(Bootstrap) = Members(policy) /\ Bootstrap.core = policy.core
        /\ Bootstrap.boundary = policy.boundary /\ Bootstrap.probe = policy.probe
        /\ Bootstrap.effective = day
    BY DEF Bootstrap, Members
  <2>2. WholeRoles(Bootstrap) /\ Bootstrap.effective \in Int
    BY <1>1, <2>1 DEF WholeRoles
  <2>3. /\ disk'.active = {Bootstrap} /\ UNCHANGED <<policy, formal, applying, snapshot>>
        /\ disk'.state = disk.state /\ disk'.pending = disk.pending
        /\ disk'.overrides = disk.overrides /\ pc' = "bootstrap" /\ polled' = day - 1
        /\ UNCHANGED <<ready, day, torn, crashes, overrides>> /\ pc = "down"
    BY <1>2, <1>4 DEF FirstBoot, bounds
  <2>4. polled' \in -1..MaxDays
    BY <1>1, <1>3, <2>3
  <2>5. \A d \in disk'.active \cup disk'.pending : WholeRoles(d) /\ d.effective \in Int
    BY <1>1, <2>2, <2>3
  <2> QED BY <1>1, <2>3, <2>4, <2>5 DEF Requested, Waits
<1>5. CASE BootstrapState \/ SaveState
  <2>1. /\ disk'.state = {SavedState} /\ disk'.active = disk.active
        /\ disk'.pending = disk.pending /\ disk'.overrides = disk.overrides
        /\ pc' \in {"due", "source"} /\ (pc' = "due" => pc = "bootstrap")
        /\ UNCHANGED <<policy, formal, mem, applying, snapshot, ready, polled, day, torn,
                       crashes, overrides>>
    BY <1>2, <1>5 DEF BootstrapState, SaveState, history, bounds
  <2> QED BY <1>1, <2>1 DEF Requested, Waits
<1>6. CASE Boot
  <2>1. /\ pc' = "due" /\ polled' = day - 1 /\ pc = "down"
        /\ UNCHANGED <<policy, disk, formal, applying, snapshot, ready, day, torn, crashes,
                       overrides>>
    BY <1>6 DEF Boot, history, bounds
  <2>2. polled' \in -1..MaxDays
    BY <1>1, <1>3, <2>1
  <2> QED BY <1>1, <2>1, <2>2 DEF Requested, Waits
<1>7. CASE Apply
  <2>1. PICK c \in Due(day) : Becomes(c.decision) /\ applying' = {c.source}
    BY <1>7, ApplyFacts
  <2>2. /\ WholeRoles(c.decision) /\ c.decision.effective \in Int
        /\ c.source \in disk.pending \cup Accepted
    BY <1>7, DueFacts DEF Apply
  <2>3. /\ disk'.active = {c.decision} /\ disk'.overrides = Accepted
        /\ disk'.pending = disk.pending /\ disk'.state = disk.state
    BY <1>2, <2>1 DEF Becomes
  <2>4. /\ pc' = "state" /\ Accepted \subseteq disk.overrides
        /\ UNCHANGED <<policy, formal, snapshot, ready, polled, day, torn, crashes, overrides>>
    BY <1>7 DEF Apply, bounds, Accepted
  <2>5. \A d \in disk'.active \cup disk'.pending : WholeRoles(d) /\ d.effective \in Int
    BY <1>1, <2>2, <2>3
  <2>6. applying' \subseteq disk'.overrides \cup disk'.pending
    BY <2>1, <2>2, <2>3
  <2> QED BY <1>1, <2>3, <2>4, <2>5, <2>6 DEF Requested, Waits
<1>8. CASE NothingDue
  <2>1. /\ disk'.active = disk.active /\ disk'.overrides = Accepted
        /\ disk'.pending = disk.pending /\ disk'.state = disk.state
        /\ pc' = "up" /\ pc = "due" /\ Accepted \subseteq disk.overrides
        /\ UNCHANGED <<policy, formal, mem, applying, snapshot, ready, polled, day, torn,
                       crashes, overrides>>
    BY <1>2, <1>8 DEF NothingDue, history, bounds, Accepted
  <2> QED BY <1>1, <2>1 DEF Requested, Waits
<1>9. CASE RemoveSource \/ RemovePending
  <2>1. /\ disk'.active = disk.active /\ disk'.overrides \subseteq disk.overrides
        /\ disk'.pending \subseteq disk.pending /\ disk'.state = disk.state
        /\ pc' \in {"pending", "up"} /\ pc \in {"source", "pending"} /\ applying' = {}
        /\ UNCHANGED <<policy, formal, mem, snapshot, ready, polled, day, torn, crashes,
                       overrides>>
    BY <1>1, <1>2, <1>9 DEF RemoveSource, RemovePending, history, bounds
  <2>2. disk'.pending = {} \/ \E d : disk'.pending = {d}
    <3>1. CASE disk.pending = {}
      BY <2>1, <3>1
    <3>2. CASE \E d : disk.pending = {d}
      <4>1. PICK d : disk.pending = {d}
        BY <3>2
      <4>2. disk'.pending = {} \/ disk'.pending = {d}
        BY <2>1, <4>1
      <4> QED BY <4>2
    <3> QED BY <1>1, <3>1, <3>2
  <2> QED BY <1>1, <2>1, <2>2 DEF Requested, Waits
<1>10. CASE Midnight
  <2>1. /\ day' = day + 1 /\ day < MaxDays
        /\ UNCHANGED <<policy, disk, formal, mem, applying, snapshot, ready, polled, torn,
                       crashes, overrides>>
        /\ \/ pc = "up" /\ pc' = "due"
           \/ pc = "down" /\ pc' = "down"
    BY <1>10 DEF Midnight, store, history, bounds
  <2>2. day' \in 0..MaxDays
    BY <1>1, <1>3, <2>1
  <2> QED BY <1>1, <2>1, <2>2 DEF Requested, Waits
<1>11. CASE Observe
  <2>1. PICK e \in Evidence, late \in BOOLEAN :
          snapshot' = {[evidence |-> e, day |-> day, late |-> late]}
    BY <1>11 DEF Observe
  <2> DEFINE o == [evidence |-> e, day |-> day, late |-> late]
  <2>2. Waits(o) /\ snapshot' = {o}
    BY <1>1, <2>1 DEF Waits
  <2> HIDE DEF o
  <2>3. /\ polled' \in {day, polled} /\ pc = "up"
        /\ UNCHANGED <<policy, disk, formal, mem, pc, applying, ready, day, torn, crashes,
                       overrides>>
    BY <1>11 DEF Observe, store, history, bounds
  <2>4. polled' \in -1..MaxDays
    BY <1>1, <1>3, <2>3
  <2> QED BY <1>1, <2>2, <2>3, <2>4 DEF Requested
<1>12. CASE Verify
  <2>1. mem.active = disk.active
    BY <1>1, <1>12, Running DEF Verify
  <2>2. /\ disk'.active = disk.active /\ disk'.pending = disk.pending
        /\ disk'.state = disk.state /\ disk'.overrides = disk.overrides
    BY <1>2, <1>12, <2>1 DEF Verify
  <2>3. /\ pc = "up"
        /\ \/ pc' = "up" /\ mem' = mem
           \/ pc' = "down" /\ mem' = NoMemory
    BY <1>12 DEF Verify
  <2>4. ready' \in BOOLEAN
    BY <1>12 DEF Verify, BootstrapHolds
  <2>5. /\ snapshot' = {}
        /\ UNCHANGED <<policy, formal, applying, polled, day, torn, crashes, overrides>>
    BY <1>12 DEF Verify, history, bounds
  <2> QED BY <1>1, <2>2, <2>3, <2>4, <2>5 DEF Requested
<1>13. CASE Plan
  <2>1. PICK o : snapshot = {o}
    BY <1>1, <1>13 DEF Plan
  <2>2. Only(snapshot) = o
    BY <2>1, OnlyOne
  <2>3. WholeRoles(Planned(o)) /\ Planned(o).effective \in Int
    BY <1>13, <2>1, <2>2, PlannedFacts DEF Plan
  <2>4. disk'.pending = {} \/ disk'.pending = {Planned(o)}
    BY <1>2, <1>13, <2>2 DEF Plan, Pending
  <2>5. /\ disk'.active = disk.active /\ disk'.state = disk.state
        /\ disk'.overrides = disk.overrides
        /\ snapshot' = {} /\ ready' = TRUE /\ pc = "up"
        /\ UNCHANGED <<policy, formal, mem, pc, applying, polled, day, torn, crashes,
                       overrides>>
    BY <1>2, <1>13 DEF Plan, history, bounds
  <2>6. \A d \in disk'.active \cup disk'.pending : WholeRoles(d) /\ d.effective \in Int
    BY <1>1, <2>3, <2>4, <2>5
  <2>7. applying = {}
    BY <1>1, <2>5
  <2> QED BY <1>1, <2>4, <2>5, <2>6, <2>7 DEF Requested
<1>14. CASE PlanRaises
  <2>1. /\ pc' = "failed" /\ mem' = NoMemory /\ snapshot' = {} /\ ready' = FALSE
        /\ pc = "up"
        /\ UNCHANGED <<policy, disk, formal, applying, polled, day, torn, crashes, overrides>>
    BY <1>14 DEF PlanRaises, history, bounds
  <2> QED BY <1>1, <2>1 DEF Requested
<1>15. CASE Restart
  <2>1. /\ pc' = "down" /\ pc = "failed"
        /\ UNCHANGED <<policy, disk, formal, mem, applying, snapshot, ready, polled, day,
                       torn, crashes, overrides>>
    BY <1>15 DEF Restart, store, history, bounds
  <2> QED BY <1>1, <2>1 DEF Requested, Waits
<1>16. CASE FormalStart
  <2>1. /\ formal' = TRUE
        /\ UNCHANGED <<policy, disk, mem, pc, applying, snapshot, ready, polled, day,
                       torn, crashes, overrides>>
    BY <1>16 DEF FormalStart, process, history, bounds
  <2> QED BY <1>1, <2>1 DEF Requested, Waits
<1>17. CASE Override
  <2>1. PICK p \in Proposal, wait \in 1..MaxWait :
          disk' = [disk EXCEPT !.overrides = @ \cup
                     {[boundary |-> p.boundary, probe |-> p.probe, created |-> day,
                       effective |-> day + wait]}]
    BY <1>17 DEF Override
  <2> DEFINE o == [boundary |-> p.boundary, probe |-> p.probe, created |-> day,
                   effective |-> day + wait]
  <2>2. Requested(o)
    BY <1>1 DEF Requested
  <2>3. /\ disk'.overrides = disk.overrides \cup {o} /\ disk'.active = disk.active
        /\ disk'.pending = disk.pending /\ disk'.state = disk.state
    BY <1>2, <2>1
  <2> HIDE DEF o
  <2>4. \A x \in disk'.overrides : Requested(x)
    BY <1>1, <2>2, <2>3
  <2>5. /\ overrides < MaxOverrides /\ overrides' = overrides + 1
        /\ UNCHANGED <<policy, formal, mem, pc, applying, snapshot, ready, polled, day,
                       torn, crashes>>
    BY <1>17 DEF Override, process, history
  <2>6. overrides' \in 0..MaxOverrides
    BY <1>1, <1>3, <2>5
  <2> QED BY <1>1, <2>3, <2>4, <2>5, <2>6 DEF Requested, Waits
<1>18. CASE Crash
  <2>1. /\ pc' = "down" /\ applying' = {} /\ snapshot' = {} /\ ready' = FALSE
        /\ mem' = NoMemory /\ crashes < MaxCrashes /\ crashes' = crashes + 1
        /\ UNCHANGED <<policy, disk, formal, polled, day, overrides>>
        /\ torn' = (torn \/ pc = "state")
    BY <1>18 DEF Crash
  <2>2. crashes' \in 0..MaxCrashes
    BY <1>1, <1>3, <2>1
  <2>3. torn' \in BOOLEAN
    BY <2>1
  <2> QED BY <1>1, <2>1, <2>2, <2>3 DEF Requested
<1>19. CASE UNCHANGED vars
  <2>1. UNCHANGED <<policy, disk, formal, mem, pc, applying, snapshot, ready, polled, day,
                    torn, crashes, overrides>>
    BY <1>19 DEF vars, store, process, history, bounds
  <2> QED BY <1>1, <2>1 DEF Requested, Waits
<1> QED BY <1>4, <1>5, <1>6, <1>7, <1>8, <1>9, <1>10, <1>11, <1>12, <1>13, <1>14, <1>15,
           <1>16, <1>17, <1>18, <1>19 DEF Next

\* The history while no decision is published and no day begins.
Steady ==
  /\ UNCHANGED <<joined, day>> /\ disk'.active = disk.active
  /\ snapshot' \subseteq snapshot
  /\ \/ disk'.state = disk.state
     \/ disk.active # {} /\ disk'.state = {SavedState}
  /\ disk'.pending \subseteq disk.pending

LEMMA SteadyHistory ==
  ASSUME Full, Steady
  PROVE  /\ disk'.active = {} => disk'.state = {}
         /\ disk'.active # {} =>
              /\ joined'.member \in [Members(Old') -> Int]
              /\ joined'.core \in [Old'.core -> Int]
              /\ \A x \in Old'.core : joined'.member[x] <= joined'.core[x]
              /\ \A x \in Members(Old') : joined'.member[x] <= day' + 1
              /\ \A o \in snapshot' :
                   /\ day' <= o.day + 1
                   /\ \A x \in Members(Old') : joined'.member[x] <= o.day + 1
<1>1. Old' = Old
  BY DEF Steady, Old
<1> QED BY <1>1 DEF Full, Times, Steady

LEMMA TimesStep ==
  ASSUME Full, [Next]_vars
  PROVE  Times'
<1>1. Inv /\ Shapes /\ Times
  BY DEF Full
<1>2. DOMAIN disk = {"active", "state", "pending", "overrides"}
  BY <1>1 DEF Inv, Files
<1>3. day \in Int
  BY <1>1 DEF Shapes
<1>4. CASE FirstBoot
  <2>1. Members(Bootstrap) = Members(policy) /\ Bootstrap.core = policy.core
    BY DEF Bootstrap, Members
  <2>2. /\ disk'.active = {Bootstrap} /\ disk'.state = disk.state /\ pc' = "bootstrap"
        /\ disk.active = {} /\ pc = "down" /\ snapshot' = snapshot /\ day' = day
        /\ joined' = [member |-> Since(Members(policy), day + 1),
                      core |-> Since(policy.core, day + 1)]
        /\ mem'.member = Since(Members(policy), day + 1)
        /\ mem'.core = Since(policy.core, day + 1)
    BY <1>2, <1>4 DEF FirstBoot
  <2>3. Old' = Bootstrap
    BY <2>2, OnlyOne DEF Old
  <2>4. snapshot' = {} /\ disk'.state = {}
    BY <1>1, <2>2 DEF Shapes, Times
  <2>5. /\ joined'.member \in [Members(Old') -> Int] /\ joined'.core \in [Old'.core -> Int]
        /\ \A x \in Old'.core : joined'.member[x] <= joined'.core[x]
        /\ \A x \in Members(Old') : joined'.member[x] <= day' + 1
    BY <1>3, <2>1, <2>2, <2>3 DEF Since, Members
  <2> HIDE DEF Since
  <2> QED BY <2>2, <2>4, <2>5 DEF Times
<1>5. CASE BootstrapState \/ SaveState
  <2>1. /\ disk'.state = {SavedState} /\ disk'.active = disk.active
        /\ disk'.pending = disk.pending /\ pc' \in {"due", "source"}
        /\ pc \notin {"down", "failed"}
        /\ UNCHANGED <<joined, torn, mem, day, snapshot>>
    BY <1>2, <1>5 DEF BootstrapState, SaveState, history
  <2>2. disk.active # {}
    BY <1>1, <2>1 DEF Inv, InMemory
  <2>3. ~torn => SavedState = [member |-> joined.member, core |-> joined.core]
    BY <1>1, <2>1 DEF Times, SavedState
  <2>4. Steady
    BY <2>1, <2>2 DEF Steady
  <2>5. ~torn => mem.member = joined.member /\ mem.core = joined.core
    BY <1>1, <2>1 DEF Times
  <2> HIDE DEF Steady
  <2> QED BY <2>1, <2>3, <2>4, <2>5, SteadyHistory DEF Times
<1>6. CASE Boot
  <2>1. /\ disk' = disk /\ UNCHANGED <<joined, torn, day, snapshot>> /\ pc' = "due"
        /\ pc = "down" /\ disk.state # {}
        /\ mem'.member = Only(disk.state).member /\ mem'.core = Only(disk.state).core
    BY <1>6 DEF Boot, history
  <2>2. ~torn => disk.state = {[member |-> joined.member, core |-> joined.core]}
    BY <1>1, <2>1 DEF Times
  <2>3. ~torn => Only(disk.state) = [member |-> joined.member, core |-> joined.core]
    BY <2>2, OnlyOne
  <2>4. ~torn => mem'.member = joined.member /\ mem'.core = joined.core
    BY <2>1, <2>3
  <2>5. Steady
    BY <2>1 DEF Steady
  <2> HIDE DEF Steady
  <2> QED BY <2>1, <2>2, <2>4, <2>5, SteadyHistory DEF Times
<1>7. CASE Apply
  <2>1. PICK c \in Due(day) : Becomes(c.decision) /\ applying' = {c.source}
    BY <1>7, ApplyFacts
  <2> DEFINE d == c.decision
  <2>2. /\ d.effective \in Int /\ d.effective <= day
        /\ \A x \in Members(Old) \ Old.core :
             x \in d.core => joined.member[x] <= d.effective
    BY <1>7, DueFacts DEF Apply
  <2> HIDE DEF d
  <2>3. /\ disk'.active = {d} /\ pc' = "state" /\ pc = "due"
        /\ UNCHANGED <<snapshot, day, torn>>
    BY <1>2, <1>7, <2>1 DEF Becomes, Apply, d
  <2>4. Old' = d /\ Active = Old /\ disk.active # {}
    BY <1>1, <2>3, OnlyOne, Running DEF Old
  <2>5. /\ joined.member \in [Members(Old) -> Int] /\ joined.core \in [Old.core -> Int]
        /\ \A x \in Old.core : joined.member[x] <= joined.core[x]
        /\ \A x \in Members(Old) : joined.member[x] <= day + 1
        /\ \A o \in snapshot : /\ day <= o.day + 1
                               /\ \A x \in Members(Old) : joined.member[x] <= o.day + 1
    BY <1>1, <2>4 DEF Times
  <2>6. /\ joined'.member = [x \in Members(d) |-> SinceOr(joined.member, x, d.effective)]
        /\ joined'.core = [x \in d.core |-> SinceOr(joined.core, x, d.effective)]
        /\ mem'.member = Joining(mem.member, Members(d), d.effective)
        /\ mem'.core = [x \in d.core |->
                          IF x \in Active.core THEN SinceOr(mem.core, x, d.effective)
                          ELSE d.effective]
    BY <2>1 DEF Becomes, d
  <2>7. \A x \in Members(d) :
          joined'.member[x] = IF x \in Members(Old) THEN joined.member[x] ELSE d.effective
    BY <2>5, <2>6 DEF SinceOr
  <2>8. \A x \in d.core :
          joined'.core[x] = IF x \in Old.core THEN joined.core[x] ELSE d.effective
    BY <2>5, <2>6 DEF SinceOr
  <2>9. joined'.member \in [Members(d) -> Int] /\ joined'.core \in [d.core -> Int]
    BY <2>2, <2>5, <2>6 DEF SinceOr
  <2>10. \A x \in d.core : joined'.member[x] <= joined'.core[x]
    <3> SUFFICES ASSUME NEW x \in d.core PROVE joined'.member[x] <= joined'.core[x]
      OBVIOUS
    <3>1. CASE x \in Old.core
      BY <2>5, <2>7, <2>8, <3>1 DEF Members
    <3>2. CASE x \in Members(Old) \ Old.core
      BY <2>2, <2>7, <2>8, <3>2 DEF Members
    <3>3. CASE x \notin Members(Old)
      BY <2>2, <2>7, <2>8, <3>3 DEF Members
    <3> QED BY <3>1, <3>2, <3>3
  <2>11. \A x \in Members(d) : joined'.member[x] <= day + 1
    BY <1>3, <2>2, <2>5, <2>7
  <2>12. \A o \in snapshot : /\ day <= o.day + 1
                             /\ \A x \in Members(d) : joined'.member[x] <= o.day + 1
    <3>1. \A o \in snapshot : o.day \in Int
      BY <1>1 DEF Shapes, Waits
    <3> QED BY <1>3, <2>2, <2>5, <2>7, <3>1
  <2>13. ~torn => mem'.member = joined'.member /\ mem'.core = joined'.core
    <3>1. ~torn => mem.member = joined.member /\ mem.core = joined.core
      BY <1>1, <2>3 DEF Times
    <3>2. \A x \in d.core :
            x \notin Old.core => SinceOr(joined.core, x, d.effective) = d.effective
      BY <2>5 DEF SinceOr
    <3> QED BY <2>4, <2>6, <3>1, <3>2 DEF Joining
  <2> QED BY <2>3, <2>4, <2>9, <2>10, <2>11, <2>12, <2>13 DEF Times
<1>8. CASE Midnight
  <2>1. /\ day' = day + 1 /\ UNCHANGED <<disk, mem, joined, torn, snapshot>>
        /\ \A o \in snapshot : o.day = day
        /\ \/ pc = "up" /\ pc' = "due"
           \/ pc = "down" /\ pc' = "down"
    BY <1>8 DEF Midnight, store, history
  <2>2. Old' = Old
    BY <2>1 DEF Old
  <2>3. disk.active # {} =>
          /\ \A x \in Members(Old) : joined.member[x] <= day' + 1
          /\ \A o \in snapshot : day' <= o.day + 1
    BY <1>1, <1>3, <2>1 DEF Times
  <2> QED BY <1>1, <2>1, <2>2, <2>3 DEF Times
<1>9. CASE Observe
  <2>1. PICK e \in Evidence, late \in BOOLEAN :
          snapshot' = {[evidence |-> e, day |-> day, late |-> late]}
    BY <1>9 DEF Observe
  <2>2. \A o \in snapshot' : o.day = day
    BY <2>1
  <2>3. UNCHANGED <<disk, mem, joined, torn, day, pc>>
    BY <1>9 DEF Observe, store, history
  <2>4. Old' = Old
    BY <2>3 DEF Old
  <2> QED BY <1>1, <1>3, <2>2, <2>3, <2>4 DEF Times
<1>10. ASSUME Steady, disk'.state = disk.state, torn' = torn, mem' = mem,
              pc' \notin {"down", "failed"} => pc \notin {"down", "failed"},
              pc # "state"
       PROVE  Times'
  <2>1. joined' = joined
    BY <1>10 DEF Steady
  <2> QED BY <1>1, <1>10, <2>1, SteadyHistory DEF Times
<1>11. CASE NothingDue \/ RemoveSource \/ RemovePending \/ FormalStart
  <2>1. /\ Steady /\ disk'.state = disk.state /\ torn' = torn /\ mem' = mem
        /\ pc \notin {"down", "failed", "state"}
    BY <1>2, <1>11 DEF NothingDue, RemoveSource, RemovePending, FormalStart, history,
       process, Steady
  <2> QED BY <1>10, <2>1
<1>12. CASE Verify
  <2>1. mem.active = disk.active
    BY <1>1, <1>12, Running DEF Verify
  <2>2. /\ Steady /\ disk'.state = disk.state /\ pc = "up" /\ UNCHANGED <<joined, torn>>
        /\ \/ pc' = "up" /\ mem' = mem
           \/ pc' = "down"
    BY <1>2, <1>12, <2>1 DEF Verify, history, Steady
  <2> QED BY <1>1, <2>2, SteadyHistory DEF Times
<1>13. CASE Plan
  <2>1. /\ disk'.active = disk.active /\ disk'.state = disk.state /\ snapshot' = {}
        /\ UNCHANGED <<joined, day, torn, mem, pc>>
    BY <1>2, <1>13 DEF Plan, history
  <2>2. Old' = Old
    BY <2>1 DEF Old
  <2> QED BY <1>1, <2>1, <2>2 DEF Times
<1>14. CASE PlanRaises \/ Restart
  <2>1. /\ Steady /\ disk' = disk /\ pc' \in {"down", "failed"} /\ pc # "state"
        /\ UNCHANGED <<joined, torn>>
    BY <1>14 DEF PlanRaises, Restart, history, store, Steady
  <2> QED BY <1>1, <2>1, SteadyHistory DEF Times
<1>15. CASE Override
  <2>1. /\ disk'.active = disk.active /\ disk'.state = disk.state
        /\ UNCHANGED <<joined, day, torn, mem, pc, snapshot>>
    BY <1>2, <1>15 DEF Override, history, process
  <2>2. Old' = Old
    BY <2>1 DEF Old
  <2> QED BY <1>1, <2>1, <2>2 DEF Times
<1>16. CASE Crash
  <2>1. /\ Steady /\ disk' = disk /\ joined' = joined /\ pc' = "down"
        /\ ~torn' => ~torn /\ pc # "state"
    BY <1>16 DEF Crash, Steady
  <2> QED BY <1>1, <2>1, SteadyHistory DEF Times
<1>17. CASE UNCHANGED vars
  <2>1. UNCHANGED <<joined, day, torn, mem, pc, snapshot, disk>>
    BY <1>17 DEF vars, store, process, history
  <2>2. Old' = Old
    BY <2>1 DEF Old
  <2> QED BY <1>1, <2>1, <2>2 DEF Times
<1> QED BY <1>4, <1>5, <1>6, <1>7, <1>8, <1>9, <1>11, <1>12, <1>13, <1>14, <1>15,
           <1>16, <1>17 DEF Next

LEMMA PlanningStep ==
  ASSUME Full, [Next]_vars
  PROVE  Planning'
<1>1. Inv /\ Shapes /\ Times /\ Planning
  BY DEF Full
<1>2. DOMAIN disk = {"active", "state", "pending", "overrides"}
  BY <1>1 DEF Inv, Files
<1>3. ASSUME disk'.active = disk.active, disk'.pending \subseteq disk.pending,
             joined' = joined, ~torn' => ~torn
      PROVE  Planning'
  <2>1. Old' = Old
    BY <1>3 DEF Old
  <2> QED BY <1>1, <1>3, <2>1 DEF Planning, Limited, Rested
<1>4. CASE FirstBoot
  <2>1. disk.active = {} /\ disk'.pending = disk.pending
    BY <1>2, <1>4 DEF FirstBoot
  <2>2. disk.pending = {}
    BY <1>1, <2>1 DEF Inv, Files
  <2> QED BY <2>1, <2>2 DEF Planning
<1>5. CASE Apply
  <2>1. PICK d : /\ disk'.active = {d} /\ disk'.pending = disk.pending
                 /\ Numbered(d) /\ Follows(d, Old)
    BY <1>1, <1>5, ApplyFollows
  <2>2. Old' = d /\ disk.active # {}
    BY <1>1, <1>5, <2>1, OnlyOne DEF Old, Inv, InMemory, Apply
  <2>3. Numbered(Old)
    BY <1>1, <2>2, OnlyOne DEF Old, Inv, Files
  <2>4. \A p \in disk.pending : Numbered(p) /\ (p.seq > Old.seq => p.seq = Old.seq + 1)
    BY <1>1 DEF Inv, PendingFollows, Follows
  <2>5. \A p \in disk'.pending : ~(p.seq > Old'.seq)
    BY <2>1, <2>2, <2>3, <2>4 DEF Numbered, Follows
  <2> QED BY <2>5 DEF Planning
<1>6. CASE Plan
  <2>1. PICK o : snapshot = {o}
    BY <1>1, <1>6 DEF Plan, Shapes
  <2>2. Only(snapshot) = o
    BY <2>1, OnlyOne
  <2> DEFINE d == Planned(o)
  <2>3. /\ Limited(d, Old)
        /\ \A x \in Members(Old) : joined.member[x] <= d.effective
        /\ ~torn /\ Dwell <= CoreDwell => Rested(d, Old)
    BY <1>6, <2>1, <2>2, PlannedFacts DEF Plan
  <2>4. disk'.pending \subseteq {d}
    BY <1>2, <1>6, <2>2 DEF Plan, Pending
  <2> HIDE DEF d
  <2>5. disk'.active = disk.active /\ UNCHANGED <<joined, torn>>
    BY <1>2, <1>6 DEF Plan, history
  <2>6. Old' = Old
    BY <2>5 DEF Old
  <2> QED BY <2>3, <2>4, <2>5, <2>6 DEF Planning, Limited, Rested
<1>7. CASE Verify
  <2>1. mem.active = disk.active
    BY <1>1, <1>7, Running DEF Verify
  <2>2. /\ disk'.active = disk.active /\ disk'.pending \subseteq disk.pending
        /\ joined' = joined /\ torn' = torn
    BY <1>2, <1>7, <2>1 DEF Verify, history
  <2> QED BY <1>3, <2>2
<1>8. CASE \/ BootstrapState \/ Boot \/ NothingDue \/ SaveState \/ RemoveSource
           \/ RemovePending \/ Midnight \/ Observe
  <2>1. /\ disk'.active = disk.active /\ disk'.pending \subseteq disk.pending
        /\ joined' = joined /\ torn' = torn
    BY <1>2, <1>8 DEF BootstrapState, Boot, NothingDue, SaveState, RemoveSource,
       RemovePending, Midnight, Observe, history, store
  <2> QED BY <1>3, <2>1
<1>9. CASE PlanRaises \/ Restart \/ FormalStart \/ Override
  <2>1. /\ disk'.active = disk.active /\ disk'.pending \subseteq disk.pending
        /\ joined' = joined /\ torn' = torn
    BY <1>2, <1>9 DEF PlanRaises, Restart, FormalStart, Override, history, store
  <2> QED BY <1>3, <2>1
<1>10. CASE Crash
  BY <1>3, <1>10 DEF Crash
<1>11. CASE UNCHANGED vars
  BY <1>3, <1>11 DEF vars, store, history
<1> QED BY <1>4, <1>5, <1>6, <1>7, <1>8, <1>9, <1>10, <1>11
       DEF Next

LEMMA FullStep == Full /\ [Next]_vars => Full'
BY InvStep, ShapesStep, TimesStep, PlanningStep DEF Full

-----------------------------------------------------------------------------
\* Only apply_due replaces a published decision (universe.py:190-253).
LEMMA PublishedByApply ==
  ASSUME Inv, [Next]_vars, Published
  PROVE  Apply
<1>1. DOMAIN disk = {"active", "state", "pending", "overrides"}
  BY DEF Inv, Files
<1> QED BY <1>1 DEF Next, Published, FirstBoot, BootstrapState, Boot, NothingDue,
           SaveState, RemoveSource, RemovePending, Midnight, Observe, Verify, Plan,
           PlanRaises, Restart, FormalStart, Override, Crash, vars, store, process,
           Inv, InMemory

LEMMA PublishedFacts ==
  ASSUME Full, [Next]_vars, Published
  PROVE  Limited(New, Old) /\ (~torn /\ Dwell <= CoreDwell => Rested(New, Old))
<1>1. Apply
  BY PublishedByApply DEF Full
<1>2. PICK c \in Due(day) : Becomes(c.decision)
  BY <1>1, ApplyFacts
<1>3. disk'.active = {c.decision}
  BY <1>2 DEF Becomes, Full, Inv, Files
<1>4. New = c.decision
  BY <1>3, OnlyOne DEF New
<1>5. pc = "due"
  BY <1>1 DEF Apply
<1> QED BY <1>4, <1>5, DueFacts

\* Every file holds at most one decision with complete and disjoint roles, and
\* the process has a decision in memory exactly while it runs, whatever crash
\* or restart comes between two file operations (universe.py:52-217).
THEOREM TypeCorrect == Spec => []TypeOK
<1>1. Full => TypeOK
  <2> SUFFICES ASSUME Full PROVE TypeOK
    OBVIOUS
  <2>1. Inv /\ Shapes
    BY DEF Full
  <2>2. \A S : S = {} \/ (\E x : S = {x}) => Cardinality(S) <= 1
    BY FS_EmptySet, FS_Singleton
  <2>3. /\ disk.active = {} \/ \E d : disk.active = {d}
        /\ disk.pending = {} \/ \E d : disk.pending = {d}
        /\ disk.state = {} \/ \E s : disk.state = {s}
        /\ snapshot = {} \/ \E o : snapshot = {o}
    BY <2>1 DEF Inv, Files, Shapes
  <2>4. /\ Cardinality(disk.active) <= 1 /\ Cardinality(disk.pending) <= 1
        /\ Cardinality(disk.state) <= 1 /\ Cardinality(snapshot) <= 1
    BY <2>2, <2>3
  <2>5. mem.active \subseteq disk.active
    BY <2>1 DEF Inv, InMemory, Shapes, NoMemory
  <2>6. pc \in {"down", "failed"} <=> mem = NoMemory
    BY <2>1 DEF Inv, InMemory, Shapes, NoMemory
  <2> QED BY <2>1, <2>4, <2>5, <2>6 DEF TypeOK, Shapes
<1> QED BY <1>1, FullInit, FullStep, PTL DEF Spec

\* A decision replaces no more members than the limits allow and the core only
\* with a week, whoever asked for it (selector.py:266-400, universe.py:255-286).
\* A discovery may exchange one probe and one boundary member even where the
\* configuration allows one replacement (selector.py:340-391), hence the assumption.
THEOREM LimitsAreKept ==
  ASSUME DailyLimit >= 2
  PROVE  Spec => ChangeLimits
<1>1. Full /\ [Next]_vars =>
        [Published =>
           /\ Cardinality((Old.boundary \cup Old.probe)
                          \ (Members(New) \cup New.inactive)) <= DailyLimit
           /\ Cardinality(Old.core \ (New.core \cup New.inactive)) <= WeeklyLimit
           /\ New.effective % Week # 0 =>
                Old.core \ New.core \subseteq New.inactive]_vars
  <2> SUFFICES ASSUME Full, [Next]_vars, Published
               PROVE  /\ Cardinality((Old.boundary \cup Old.probe)
                                     \ (Members(New) \cup New.inactive)) <= DailyLimit
                      /\ Cardinality(Old.core \ (New.core \cup New.inactive))
                           <= WeeklyLimit
                      /\ New.effective % Week # 0 =>
                           Old.core \ New.core \subseteq New.inactive
    OBVIOUS
  <2>1. Limited(New, Old)
    BY PublishedFacts
  <2>2. (IF DailyLimit > 2 THEN DailyLimit ELSE 2) = DailyLimit
    BY SelectorAssumption
  <2> QED BY <2>1, <2>2 DEF Limited
<1> QED BY <1>1, FullInit, FullStep, PTL DEF Spec, ChangeLimits

\* A member that still trades leaves only after the minimum stay, also with an
\* override, after restarts and when several decisions follow one another,
\* unless a crash has left an old membership-state.json (universe.py:190-217,
\* 255-286, selector.py:307-316, 723-739). A core member is asked for the stay of the core
\* alone, which the configuration may set below that of a member.
THEOREM StaysAreRespected ==
  ASSUME Dwell <= CoreDwell
  PROVE  Spec => DwellRespected
<1>1. Full /\ [Next]_vars =>
        [Published /\ ~torn =>
           /\ \A x \in Members(Old) \ (Members(New) \cup New.inactive) :
                New.effective - joined.member[x] >= Dwell
           /\ \A x \in Old.core \ (New.core \cup New.inactive) :
                New.effective - joined.core[x] >= CoreDwell]_vars
  <2> SUFFICES ASSUME Full, [Next]_vars, Published, ~torn
               PROVE  /\ \A x \in Members(Old) \ (Members(New) \cup New.inactive) :
                           New.effective - joined.member[x] >= Dwell
                      /\ \A x \in Old.core \ (New.core \cup New.inactive) :
                           New.effective - joined.core[x] >= CoreDwell
    OBVIOUS
  <2>1. Rested(New, Old)
    BY PublishedFacts
  <2> QED BY <2>1 DEF Rested
<1> QED BY <1>1, FullInit, FullStep, PTL DEF Spec, DwellRespected

\* Published decisions are numbered without gap or repetition and their version
\* says whether the core changed (universe.py:116-150, 255-286, 365-368).
THEOREM DecisionsAreNumbered == Spec => SequenceExact
<1>1. Inv /\ [Next]_vars => (Published => Follows(New, Old))
  <2> SUFFICES ASSUME Inv, [Next]_vars, Published PROVE Follows(New, Old)
    OBVIOUS
  <2>1. Apply
    BY PublishedByApply
  <2> QED BY <2>1, ApplyFollows, OnlyOne DEF New
<1>2. Inv /\ [Next]_vars =>
        [Published => /\ New.seq = Old.seq + 1
                      /\ IF New.core = Old.core
                         THEN New.gen = Old.gen /\ New.rev = Old.rev + 1
                         ELSE New.gen = Old.gen + 1 /\ New.rev = 0]_vars
  BY <1>1 DEF Follows
<1> QED BY <1>2, InvInit, InvStep, PTL DEF Spec, SequenceExact
=============================================================================
