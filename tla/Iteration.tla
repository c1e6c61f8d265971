------------------------------ MODULE Iteration ------------------------------
(***************************************************************************)
(* What the proofs about loops rest on: induction up to a bound, and that  *)
(* a function defined step by step exists.                                 *)
(***************************************************************************)
EXTENDS Integers, WellFoundedInduction, TLAPS

\* Induction up to a bound, of the members of a set.
LEMMA Induct ==
    ASSUME NEW N \in Nat, NEW T,
           0 \in T,
           \A n \in 0 .. N - 1 : n \in T => n + 1 \in T
    PROVE  \A n \in 0 .. N : n \in T
<1> SUFFICES ASSUME NEW n \in 0 .. N, n \notin T
             PROVE  FALSE
  OBVIOUS
<1> DEFINE D == {k \in 0 .. N : k \notin T}
<1>1. PICK x \in D : \A y \in D : <<y, x>> \notin OpToRel(<, Nat)
  <2>1. D \subseteq Nat /\ D # {}
    OBVIOUS
  <2> HIDE DEF D
  <2> QED
    BY <2>1, NatLessThanWellFounded, WFMin
<1>2. x \in 0 .. N /\ x # 0
  OBVIOUS
<1>3. <<x - 1, x>> \in OpToRel(<, Nat)
  BY <1>2 DEF OpToRel
<1>4. x - 1 \notin D
  BY <1>1, <1>3
<1> QED
  BY <1>2, <1>4

\* A set of numbers has a least member.
LEMMA LeastMember ==
    ASSUME NEW S, S \subseteq Nat, S # {}
    PROVE  \E x \in S : \A y \in S : x <= y
<1>1. PICK x \in S : \A y \in S : <<y, x>> \notin OpToRel(<, Nat)
  BY NatLessThanWellFounded, WFMin
<1>2. ASSUME NEW y \in S PROVE x <= y
  <2>1. ASSUME y < x PROVE <<y, x>> \in OpToRel(<, Nat)
    BY <2>1 DEF OpToRel
  <2>2. ~(y < x)
    BY <1>1, <2>1, Zenon
  <2>3. x \in Nat /\ y \in Nat
    OBVIOUS
  <2> QED
    BY <2>2, <2>3
<1> QED
  BY <1>2

\* g[n] is what n steps make of base.
Computes(g, N, base, step) == g[0] = base /\ \A n \in 1 .. N : g[n] = step[n][g[n - 1]]

\* What is computed step by step is a function of the number of steps.
LEMMA Recursion ==
    ASSUME NEW N \in Nat, NEW S, NEW base \in S, NEW step \in [1 .. N -> [S -> S]]
    PROVE  \E g \in [0 .. N -> S] : Computes(g, N, base, step)
<1> DEFINE T == {k \in 0 .. N : \E g \in [0 .. k -> S] : Computes(g, k, base, step)}
<1> USE DEF Computes
<1>1. 0 \in T
  <2>1. [n \in 0 .. 0 |-> base] \in [0 .. 0 -> S] /\ Computes([n \in 0 .. 0 |-> base], 0, base, step)
    OBVIOUS
  <2>2. \E g \in [0 .. 0 -> S] : Computes(g, 0, base, step)
    BY <2>1
  <2> QED
    BY <2>2
<1>2. ASSUME NEW k \in 0 .. N - 1, k \in T
      PROVE  k + 1 \in T
  <2>1. PICK g \in [0 .. k -> S] : Computes(g, k, base, step)
    BY <1>2
  <2> DEFINE h == [n \in 0 .. k + 1 |-> IF n = k + 1 THEN step[k + 1][g[k]] ELSE g[n]]
  <2>2. h \in [0 .. k + 1 -> S]
    OBVIOUS
  <2>3. h[0] = base
    BY <2>1
  <2>4. \A n \in 0 .. k : h[n] = g[n]
    OBVIOUS
  <2>5. h[k + 1] = step[k + 1][g[k]]
    OBVIOUS
  <2> HIDE DEF h
  <2>6. ASSUME NEW n \in 1 .. k + 1
        PROVE  h[n] = step[n][h[n - 1]]
    <3>1. n - 1 \in 0 .. k /\ h[n - 1] = g[n - 1]
      BY <2>4
    <3>2. CASE n = k + 1
      BY <2>5, <3>1, <3>2
    <3>3. CASE n # k + 1
      <4>1. n \in 1 .. k
        BY <3>3
      <4>2. g[n] = step[n][g[n - 1]]
        BY <2>1, <4>1
      <4>3. h[n] = g[n]
        BY <2>4, <4>1
      <4> QED
        BY <3>1, <4>2, <4>3
    <3> QED
      BY <3>2, <3>3
  <2>7. \E f \in [0 .. k + 1 -> S] : Computes(f, k + 1, base, step)
    BY <2>2, <2>3, <2>6
  <2> QED
    BY <2>7
<1>3. \A n \in 0 .. N : n \in T
  <2> HIDE DEF T
  <2> QED
    BY <1>1, <1>2, Induct
<1> QED
  BY <1>3
=============================================================================
