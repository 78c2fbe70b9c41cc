------------------------------- MODULE Induction -------------------------------
(***************************************************************************)
(* Induction over numbers and what it gives for recursive functions, for   *)
(* the proofs about FAT chains, table walks and directory scans.  The      *)
(* principles are stated over sets, so that every prover can use them.     *)
(***************************************************************************)
EXTENDS Integers, FiniteSets, FiniteSetTheorems, WellFoundedInduction, TLAPS

(* A set of numbers has a least one: of the intervals from 0 to a member,  *)
(* one has no other inside it.                                             *)
LEMMA LeastNumber ==
    ASSUME NEW T, T \subseteq Nat, T # {}
    PROVE  \E x \in T : \A y \in T : x <= y
<1>. DEFINE U == {0..x : x \in T}
<1>1. \A x \in T : 0..x \in FiniteSubsetsOf(Nat)
  BY FS_Interval DEF FiniteSubsetsOf
<1>2. U \subseteq FiniteSubsetsOf(Nat) /\ U # {}
  BY <1>1
<1>. HIDE DEF U
<1>3. \E u \in U : \A v \in U : <<v, u>> \notin StrictSubsetOrdering(Nat)
  BY <1>2, WFMin, FS_StrictSubsetOrderingWellFounded
<1>4. PICK x \in T : \A y \in T : <<0..y, 0..x>> \notin StrictSubsetOrdering(Nat)
  BY <1>3 DEF U
<1>5. SUFFICES ASSUME NEW y \in T, y < x PROVE FALSE
  OBVIOUS
<1>6. 0..y \in SUBSET Nat /\ 0..x \in SUBSET Nat /\ 0..y \subseteq 0..x /\ 0..y # 0..x
  <2>1. x \in 0..x /\ x \notin 0..y
    BY <1>5
  <2>. QED
    BY <1>5, <2>1
<1>7. <<0..y, 0..x>> \in StrictSubsetOrdering(Nat)
  BY <1>6 DEF StrictSubsetOrdering
<1>. QED
  BY <1>4, <1>7

(* A set that has the first number of an interval and with each number the *)
(* next one has them all.                                                  *)
LEMMA IntervalInduction ==
    ASSUME NEW n \in Nat, NEW T, 0 \in T, \A i \in 1..n : i - 1 \in T => i \in T
    PROVE  \A i \in 0..n : i \in T
<1>. DEFINE rest == {i \in 0..n : i \notin T}
<1>1. SUFFICES ASSUME rest # {} PROVE FALSE
  OBVIOUS
<1>2. rest \subseteq Nat
  OBVIOUS
<1>. HIDE DEF rest
<1>3. PICK x \in rest : \A y \in rest : x <= y
  BY <1>1, <1>2, LeastNumber
<1>4. x \in 1..n /\ x - 1 \in 0..n /\ x - 1 \notin rest
  BY <1>3 DEF rest
<1>. QED
  BY <1>3, <1>4 DEF rest

(* f starts with a, and each further value comes from the one before.      *)
Iterates(f, n, S, a, step) ==
    f \in [0..n -> S] /\ f[0] = a /\ \A i \in 1..n : f[i] = step[i][f[i - 1]]

(* There is such a function on every interval.                             *)
LEMMA Iteration ==
    ASSUME NEW n \in Nat, NEW S, NEW a \in S, NEW step \in [1..n -> [S -> S]]
    PROVE  \E f : Iterates(f, n, S, a, step)
<1>. DEFINE T == {m \in 0..n : \E f : Iterates(f, m, S, a, step)}
<1>1. \E f : Iterates(f, 0, S, a, step)
  <2>. DEFINE f == [j \in 0..0 |-> a]
  <2>1. Iterates(f, 0, S, a, step)
    BY DEF Iterates
  <2>. QED
    BY <2>1
<1>2. ASSUME NEW m \in 1..n, NEW f, Iterates(f, m - 1, S, a, step)
      PROVE  \E g : Iterates(g, m, S, a, step)
  <2>. DEFINE g == [j \in 0..m |-> IF j = m THEN step[m][f[m - 1]] ELSE f[j]]
  <2>1. /\ f \in [0..(m - 1) -> S] /\ f[0] = a /\ \A i \in 1..(m - 1) : f[i] = step[i][f[i - 1]]
    BY <1>2 DEF Iterates
  <2>2. \A j \in 0..m : j = m \/ j \in 0..(m - 1)
    OBVIOUS
  <2>3. step[m][f[m - 1]] \in S
    BY <2>1
  <2>4. g \in [0..m -> S] /\ g[0] = a
    BY <2>1, <2>2, <2>3
  <2>5. ASSUME NEW i \in 1..m PROVE g[i] = step[i][g[i - 1]]
    <3>1. g[i - 1] = f[i - 1]
      OBVIOUS
    <3>. QED
      BY <2>1, <3>1
  <2>6. Iterates(g, m, S, a, step)
    BY <2>4, <2>5 DEF Iterates
  <2>. QED
    BY <2>6
<1>3. 0 \in T
  BY <1>1
<1>4. \A m \in 1..n : m - 1 \in T => m \in T
  BY <1>2
<1>. HIDE DEF T
<1>5. \A m \in 0..n : m \in T
  BY <1>3, <1>4, IntervalInduction
<1>6. n \in T
  BY <1>5
<1>. QED
  BY <1>6 DEF T
=============================================================================
