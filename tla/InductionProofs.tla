---------------------------- MODULE InductionProofs ----------------------------
(***************************************************************************)
(* Induction over the natural numbers and definition by recursion, as      *)
(* facts about sets and functions: the theorems of the library about them  *)
(* take operators as parameters.  Both rest on the inclusion of finite     *)
(* sets, which is well-founded.                                            *)
(***************************************************************************)
EXTENDS Integers, FiniteSetTheorems, WellFoundedInduction, TLAPS

\* A set of natural numbers with 0 and with the successor of each of its
\* elements has all of them.
LEMMA Induction ==
  ASSUME NEW S \in SUBSET Nat, 0 \in S, \A n \in S : n + 1 \in S
  PROVE  S = Nat
  <1> SUFFICES ASSUME NEW x \in Nat, x \notin S
               PROVE  FALSE
    OBVIOUS
  <1> DEFINE Up == {0..n : n \in Nat \ S}
  <1>1. Up \subseteq FiniteSubsetsOf(Nat)
    <2>1. \A n \in Nat : 0..n \in SUBSET Nat /\ IsFiniteSet(0..n)
      BY FS_Interval
    <2> QED
      BY <2>1 DEF FiniteSubsetsOf
  <1>2. Up # {}
    OBVIOUS
  <1>3. PICK m \in Up : \A T \in Up : <<T, m>> \notin StrictSubsetOrdering(Nat)
    <2> HIDE DEF Up
    <2> QED
      BY <1>1, <1>2, WFMin, FS_StrictSubsetOrderingWellFounded, Zenon
  <1>4. PICK n \in Nat \ S : m = 0..n
    BY <1>3
  <1>5. n # 0 /\ n - 1 \in Nat \ S
    BY <1>4
  <1>6. 0..n - 1 \in Up
    BY <1>5
  <1>7. <<0..n - 1, m>> \in StrictSubsetOrdering(Nat)
    <2>1. 0..n - 1 \in SUBSET Nat /\ 0..n \in SUBSET Nat
      BY <1>4, <1>5
    <2>2. 0..n - 1 \subseteq 0..n /\ n \in 0..n /\ n \notin 0..n - 1
      BY <1>4, <1>5
    <2> QED
      BY <1>4, <2>1, <2>2 DEF StrictSubsetOrdering
  <1> QED
    BY <1>3, <1>6, <1>7

\* The same up to a bound.
LEMMA InductionUpTo ==
  ASSUME NEW S, NEW N \in Nat, 0 \in S, \A n \in 0..N - 1 : n \in S => n + 1 \in S
  PROVE  0..N \subseteq S
  <1> DEFINE T == {n \in Nat : n <= N => n \in S}
  <1>1. 0 \in T
    OBVIOUS
  <1>2. \A n \in T : n + 1 \in T
    OBVIOUS
  <1>3. T = Nat
    <2>1. T \in SUBSET Nat
      OBVIOUS
    <2> HIDE DEF T
    <2> QED
      BY <1>1, <1>2, <2>1, Induction
  <1> QED
    BY <1>3

\* Each argument in D has an equation, step[d], which looks only at the values
\* for arguments of a lower rank.
Ranked(D, V, N, rank, step) ==
  /\ V # {} /\ N \in Nat
  /\ rank \in [D -> 0..N]
  /\ step \in [D -> [[D -> V] -> V]]
  /\ \A d \in D : \A g, h \in [D -> V] :
       (\A e \in D : rank[e] < rank[d] => g[e] = h[e]) => step[d][g] = step[d][h]

Solves(f, D, step) == \A d \in D : f[d] = step[d][f]

\* Such equations have a solution.
LEMMA Recursion ==
  ASSUME NEW D, NEW V, NEW N, NEW rank, NEW step, Ranked(D, V, N, rank, step)
  PROVE  \E f \in [D -> V] : Solves(f, D, step)
  <1> USE DEF Ranked, Solves
  <1> DEFINE Good(f, n) == \A d \in D : rank[d] < n => f[d] = step[d][f]
             S == {n \in Nat : \E f \in [D -> V] : Good(f, n)}
  <1>1. 0 \in S
    <2>1. PICK v : v \in V
      OBVIOUS
    <2>2. [d \in D |-> v] \in [D -> V]
      BY <2>1
    <2>3. Good([d \in D |-> v], 0)
      OBVIOUS
    <2> QED
      BY <2>2, <2>3
  <1>2. ASSUME NEW n \in S PROVE n + 1 \in S
    <2>1. PICK f \in [D -> V] : Good(f, n)
      OBVIOUS
    <2> DEFINE g == [d \in D |-> IF rank[d] <= n THEN step[d][f] ELSE f[d]]
    <2>2. g \in [D -> V]
      BY <2>1
    <2>3. \A e \in D : rank[e] < n => g[e] = f[e]
      BY <2>1
    <2>4. ASSUME NEW d \in D, rank[d] < n + 1 PROVE g[d] = step[d][g]
      <3>1. rank[d] <= n /\ rank[d] \in Nat
        BY <2>4
      <3>2. \A e \in D : rank[e] < rank[d] => g[e] = f[e]
        BY <2>3, <3>1
      <3> HIDE DEF g
      <3>3. step[d][g] = step[d][f]
        BY <2>1, <2>2, <3>2
      <3>4. g[d] = step[d][f]
        BY <3>1 DEF g
      <3> QED
        BY <3>3, <3>4
    <2>5. Good(g, n + 1)
      BY <2>4
    <2> HIDE DEF g, Good
    <2> QED
      BY <2>2, <2>5
  <1>3. S = Nat
    <2> HIDE DEF S
    <2>1. S \in SUBSET Nat
      BY DEF S
    <2> QED
      BY <1>1, <1>2, <2>1, Induction
  <1>4. PICK f \in [D -> V] : Good(f, N + 1)
    <2>1. N + 1 \in S
      <3> HIDE DEF S
      <3> QED
        BY <1>3
    <2> HIDE DEF Good
    <2> QED
      BY <2>1
  <1> QED
    BY <1>4
=============================================================================
