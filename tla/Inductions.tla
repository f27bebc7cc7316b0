----------------------------- MODULE Inductions -----------------------------
(***************************************************************************)
(* Induction over numbers and finite sets, and the recursive functions that*)
(* folds and LETs define, stated with sets in the place of predicates and  *)
(* functions in the place of operators: what the proof modules need to say *)
(* something of cancelChainBehind, of a fold over the targets or over the  *)
(* journal.  All of it goes back to the well-founded order of the numbers. *)
(***************************************************************************)
EXTENDS Integers, FiniteSets, FiniteSetTheorems, WellFoundedInduction, TLAPS

(* A set of numbers that is not empty has a least element.                 *)
LEMMA LeastElement ==
  ASSUME NEW T, T \subseteq Nat, T # {}
  PROVE  \E n \in T : \A m \in T : n <= m
<1> DEFINE R == OpToRel(<, Nat)
<1>1. IsWellFoundedOn(R, Nat)
  BY NatLessThanWellFounded
<1>2. \A m, n \in Nat : <<m, n>> \in R <=> m < n
  BY DEF OpToRel
<1> HIDE DEF R
<1>3. PICK n \in T : \A m \in T : <<m, n>> \notin R
  BY <1>1, WFMin
<1>4. \A m \in T : ~ (m < n)
  BY <1>2, <1>3
<1> QED
  BY <1>4

(* What holds of 0, and of n + 1 whenever it does of n, holds of all.      *)
LEMMA NumberInduction ==
  ASSUME NEW T, 0 \in T, \A n \in Nat : n \in T => n + 1 \in T
  PROVE  Nat \subseteq T
<1> SUFFICES ASSUME Nat \ T # {} PROVE FALSE
  OBVIOUS
<1>1. PICK n \in Nat \ T : \A m \in Nat \ T : n <= m
  BY LeastElement
<1>2. n # 0 /\ n - 1 \in Nat /\ n - 1 \in T
  BY <1>1
<1> QED
  BY <1>1, <1>2

(* What holds of the empty set, and of a set whenever it does of the set   *)
(* without the element chosen from it, holds of every part of a finite one.*)
LEMMA SubsetInduction ==
  ASSUME NEW S, IsFiniteSet(S), NEW T, {} \in T,
         NEW choose, \A s \in SUBSET S : s # {} => choose[s] \in s,
         \A s \in SUBSET S : s # {} /\ s \ {choose[s]} \in T => s \in T
  PROVE  SUBSET S \subseteq T
<1> DEFINE N == {n \in Nat : \A s \in SUBSET S : Cardinality(s) <= n => s \in T}
<1>1. 0 \in N
  <2>1. \A s \in SUBSET S : Cardinality(s) <= 0 => s = {}
    BY FS_Subset, FS_EmptySet, FS_CardinalityType
  <2> QED
    BY <2>1
<1>2. ASSUME NEW n \in Nat, n \in N
      PROVE  n + 1 \in N
  <2>1. ASSUME NEW s \in SUBSET S, Cardinality(s) <= n + 1, s # {}
        PROVE  s \in T
    <3>1. /\ choose[s] \in s /\ s \ {choose[s]} \in SUBSET S
          /\ Cardinality(s \ {choose[s]}) <= n
      BY <2>1, FS_Subset, FS_RemoveElement, FS_CardinalityType
    <3> QED
      BY <1>2, <2>1, <3>1
  <2> QED
    BY <2>1
<1>3. Nat \subseteq N
  <2> HIDE DEF N
  <2> QED
    BY <1>1, <1>2, NumberInduction
<1> QED
  BY <1>3, FS_Subset, FS_CardinalityType

-----------------------------------------------------------------------------
(* Functions that are defined by recursion exist.  First over the numbers  *)
(* up to a bound: f[n] is made from f[n - 1] by h.                         *)
Iterates(f, N, G, base, h) ==
  /\ f \in [0 .. N -> G]
  /\ \A n \in 0 .. N : f[n] = IF n = 0 THEN base ELSE h[f[n - 1]]

LEMMA NumberRecursion ==
  ASSUME NEW N \in Nat, NEW G, NEW base \in G, NEW h \in [G -> G]
  PROVE  \E f : Iterates(f, N, G, base, h)
<1> DEFINE Good(f, n) == f[n] = IF n = 0 THEN base ELSE h[f[n - 1]]
           T == {k \in Nat : \E f \in [0 .. N -> G] : \A n \in 0 .. N : n <= k => Good(f, n)}
<1>1. 0 \in T
  <2> DEFINE f == [n \in 0 .. N |-> base]
  <2>1. f \in [0 .. N -> G] /\ \A n \in 0 .. N : n <= 0 => Good(f, n)
    OBVIOUS
  <2> HIDE DEF f, Good
  <2> QED
    BY <2>1
<1>2. ASSUME NEW k \in Nat, k \in T
      PROVE  k + 1 \in T
  <2>1. PICK f \in [0 .. N -> G] : \A n \in 0 .. N : n <= k => Good(f, n)
    BY <1>2
  <2> DEFINE g == [n \in 0 .. N |-> IF n = k + 1 THEN h[f[k]] ELSE f[n]]
  <2>2. g \in [0 .. N -> G]
    <3>1. k + 1 \in 0 .. N => k \in 0 .. N
      OBVIOUS
    <3> QED
      BY <3>1
  <2>3. ASSUME NEW n \in 0 .. N, n <= k + 1
        PROVE  Good(g, n)
    <3>1. CASE n = k + 1
      BY <3>1
    <3>2. CASE n # k + 1
      BY <2>1, <2>3, <3>2
    <3> QED
      BY <3>1, <3>2
  <2> HIDE DEF g, Good
  <2> QED
    BY <2>2, <2>3
<1>3. N \in T
  <2>1. Nat \subseteq T
    <3> HIDE DEF T
    <3> QED
      BY <1>1, <1>2, NumberInduction
  <2> QED
    BY <2>1
<1>4. PICK f \in [0 .. N -> G] : \A n \in 0 .. N : Good(f, n)
  BY <1>3
<1> QED
  BY <1>4 DEF Iterates

(* Then over the parts of a finite set, as a fold goes: f[s] is made by h  *)
(* from an element chosen from s and from f of the rest.                   *)
FoldsOver(f, S, G, base, h, choose) ==
  /\ f \in [SUBSET S -> G]
  /\ \A s \in SUBSET S : f[s] = IF s = {} THEN base ELSE h[choose[s], f[s \ {choose[s]}]]

LEMMA SubsetRecursion ==
  ASSUME NEW S, IsFiniteSet(S), NEW G, NEW base \in G, NEW h \in [S \X G -> G],
         NEW choose, \A s \in SUBSET S : s # {} => choose[s] \in s
  PROVE  \E f : FoldsOver(f, S, G, base, h, choose)
<1> DEFINE Good(f, s) == f[s] = IF s = {} THEN base ELSE h[choose[s], f[s \ {choose[s]}]]
           T == {n \in Nat : \E f \in [SUBSET S -> G] :
                   \A s \in SUBSET S : Cardinality(s) <= n => Good(f, s)}
<1>1. 0 \in T
  <2> DEFINE f == [s \in SUBSET S |-> base]
  <2>1. f \in [SUBSET S -> G]
    OBVIOUS
  <2>2. \A s \in SUBSET S : Cardinality(s) <= 0 => s = {}
    BY FS_Subset, FS_EmptySet, FS_CardinalityType
  <2>3. \A s \in SUBSET S : Cardinality(s) <= 0 => Good(f, s)
    BY <2>2
  <2> HIDE DEF f
  <2> QED
    BY <2>1, <2>3
<1>2. ASSUME NEW n \in Nat, n \in T
      PROVE  n + 1 \in T
  <2>1. PICK f \in [SUBSET S -> G] : \A s \in SUBSET S : Cardinality(s) <= n => Good(f, s)
    BY <1>2
  <2> DEFINE g == [s \in SUBSET S |-> IF Cardinality(s) <= n \/ s = {} THEN f[s]
                                      ELSE h[choose[s], f[s \ {choose[s]}]]]
  <2>2. g \in [SUBSET S -> G]
    BY <2>1
  <2>3. ASSUME NEW s \in SUBSET S, Cardinality(s) <= n + 1
        PROVE  Good(g, s)
    <3>1. CASE s = {}
      <4>1. g[s] = f[s] /\ Cardinality(s) <= n
        BY <3>1, FS_EmptySet
      <4> QED
        BY <2>1, <3>1, <4>1
    <3>2. CASE s # {}
      <4>1. /\ choose[s] \in s /\ s \ {choose[s]} \in SUBSET S
            /\ Cardinality(s \ {choose[s]}) <= n /\ Cardinality(s) \in Nat
        BY <2>3, <3>2, FS_Subset, FS_RemoveElement, FS_CardinalityType
      <4>2. g[s \ {choose[s]}] = f[s \ {choose[s]}]
        BY <4>1
      <4>3. g[s] = h[choose[s], f[s \ {choose[s]}]]
        BY <2>1, <3>2
      <4> QED
        BY <3>2, <4>2, <4>3
    <3> QED
      BY <3>1, <3>2
  <2> HIDE DEF g, Good
  <2> QED
    BY <2>2, <2>3
<1>3. Cardinality(S) \in T
  <2>1. Nat \subseteq T
    <3> HIDE DEF T
    <3> QED
      BY <1>1, <1>2, NumberInduction
  <2> QED
    BY <2>1, FS_CardinalityType
<1>4. PICK f \in [SUBSET S -> G] : \A s \in SUBSET S : Cardinality(s) <= Cardinality(S) => Good(f, s)
  BY <1>3
<1> QED
  BY <1>4, FS_Subset DEF FoldsOver

-----------------------------------------------------------------------------
(* A part of a finite set that grows by one rule grows no more after as    *)
(* many rounds as the set has elements.                                    *)
LEMMA GrowthEnds ==
  ASSUME NEW P, IsFiniteSet(P), NEW grow \in [SUBSET P -> SUBSET P],
         \A X \in SUBSET P : X \subseteq grow[X],
         NEW f \in [0 .. Cardinality(P) -> SUBSET P],
         \A n \in 1 .. Cardinality(P) : f[n] = grow[f[n - 1]]
  PROVE  grow[f[Cardinality(P)]] = f[Cardinality(P)]
<1> DEFINE N == Cardinality(P)
           T == {n \in Nat : n <= N => n <= Cardinality(f[n]) \/ grow[f[n]] = f[n]}
<1>1. N \in Nat /\ \A X \in SUBSET P : IsFiniteSet(X) /\ Cardinality(X) \in Nat
  BY FS_CardinalityType, FS_Subset
<1>2. 0 \in T
  BY <1>1
<1>3. ASSUME NEW n \in Nat, n \in T
      PROVE  n + 1 \in T
  <2> SUFFICES ASSUME n + 1 <= N
               PROVE  n + 1 <= Cardinality(f[n + 1]) \/ grow[f[n + 1]] = f[n + 1]
    OBVIOUS
  <2>1. n \in 0 .. N /\ n + 1 \in 1 .. N /\ f[n + 1] = grow[f[n]] /\ f[n] \in SUBSET P
    BY <1>1
  <2>2. CASE grow[f[n]] = f[n]
    BY <2>1, <2>2
  <2>3. CASE n <= Cardinality(f[n]) /\ grow[f[n]] # f[n]
    <3>1. f[n + 1] \in SUBSET P /\ f[n] \subseteq f[n + 1] /\ f[n] # f[n + 1]
      BY <2>1, <2>3
    <3>2. Cardinality(f[n]) < Cardinality(f[n + 1])
      BY <1>1, <3>1, FS_Subset
    <3> QED
      BY <1>1, <2>1, <2>3, <3>1, <3>2
  <2> QED
    BY <1>1, <1>3, <2>2, <2>3
<1>4. N \in T
  <2>1. Nat \subseteq T
    <3> HIDE DEF T
    <3> QED
      BY <1>2, <1>3, NumberInduction
  <2> QED
    BY <1>1, <2>1
<1>5. CASE N <= Cardinality(f[N])
  <2>1. f[N] \in SUBSET P
    BY <1>1
  <2>2. f[N] = P
    BY <1>1, <1>5, <2>1, FS_Subset
  <2>3. P \subseteq grow[P] /\ grow[P] \in SUBSET P
    OBVIOUS
  <2> QED
    BY <2>2, <2>3
<1>6. N <= Cardinality(f[N]) \/ grow[f[N]] = f[N]
  BY <1>1, <1>4
<1> QED
  BY <1>5, <1>6
=============================================================================
