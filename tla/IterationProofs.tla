-------------------------- MODULE IterationProofs --------------------------
(***************************************************************************)
(* Induction over the naturals, and what it says of functions defined by   *)
(* recursion.  The loops of the kernel are such functions in the models:   *)
(* f[n] is the state after n rounds.                                       *)
(***************************************************************************)
EXTENDS Integers, WellFoundedInduction, TLAPS

\* A set of natural numbers that is not empty has a least element.
LEMMA Least ==
    ASSUME NEW T, T \subseteq Nat, T # {}
    PROVE  \E x \in T : \A y \in T : x <= y
<1> DEFINE R == OpToRel(<, Nat)
<1>1. IsWellFoundedOn(R, Nat)
  BY NatLessThanWellFounded
<1>2. \A x, y \in Nat : x < y => <<x, y>> \in R
  BY DEF OpToRel
<1> HIDE DEF R
<1>3. PICK x \in T : \A y \in T : ~ (<<y, x>> \in R)
  BY <1>1, WFMin
<1>4. ASSUME NEW y \in T PROVE x <= y
  <2>1. x \in Nat /\ y \in Nat
    OBVIOUS
  <2>2. ~ (y < x)
    BY <1>2, <1>3, <2>1
  <2>3. QED BY <2>1, <2>2
<1>5. QED BY <1>4

\* Induction up to a bound: the set T of the good numbers contains all of 0 .. L.
Inductive(L, T) ==
    /\ L \in Nat
    /\ 0 \in T
    /\ \A n \in 1 .. L : n - 1 \in T => n \in T

\* Every number up to L is good.
LEMMA Induction ==
    ASSUME NEW L, NEW T, Inductive(L, T)
    PROVE  \A n \in 0 .. L : n \in T
<1> USE DEF Inductive
<1> DEFINE B == {n \in 0 .. L : n \notin T}
<1> SUFFICES ASSUME B # {} PROVE FALSE
  OBVIOUS
<1>0. B \subseteq Nat
  OBVIOUS
<1> HIDE DEF B
<1>1. PICK m \in B : \A k \in B : m <= k
  BY <1>0, Least
<1>2. m \in 1 .. L /\ m - 1 \in 0 .. L /\ m - 1 \notin B
  BY <1>1 DEF B
<1> QED
  BY <1>1, <1>2 DEF B

\* The states of a loop of L rounds that starts in a, where round n takes the
\* state d of D to g[<<n, d>>], are a function.
Loop(L, D, a, g) ==
    /\ L \in Nat
    /\ a \in D
    /\ \A n \in 1 .. L, d \in D : g[<<n, d>>] \in D

\* f[n] is the state after n rounds.
Trace(L, D, a, g, f) ==
    /\ f \in [0 .. L -> D]
    /\ f[0] = a
    /\ \A n \in 1 .. L : f[n] = g[<<n, f[n - 1]>>]

\* A loop has a trace.
LEMMA Iteration ==
    ASSUME NEW L, NEW D, NEW a, NEW g, Loop(L, D, a, g)
    PROVE  \E f : Trace(L, D, a, g, f)
<1> USE DEF Loop
<1> DEFINE Upto(m, f) == f[0] = a /\ \A n \in 1 .. m : f[n] = g[<<n, f[n - 1]>>]
           T == {m \in 0 .. L : \E f \in [0 .. L -> D] : Upto(m, f)}
<1>1. 0 \in T
  <2> DEFINE f == [n \in 0 .. L |-> a]
  <2>1. f \in [0 .. L -> D] /\ Upto(0, f)
    OBVIOUS
  <2> HIDE DEF f
  <2> QED
    BY <2>1
<1>2. ASSUME NEW m \in 1 .. L, m - 1 \in T PROVE m \in T
  <2>1. PICK f \in [0 .. L -> D] : Upto(m - 1, f)
    BY <1>2
  <2>2. f[m - 1] \in D /\ g[<<m, f[m - 1]>>] \in D
    OBVIOUS
  <2> DEFINE h == [f EXCEPT ![m] = g[<<m, f[m - 1]>>]]
  <2>3. h \in [0 .. L -> D]
    BY <2>2
  <2>4. \A n \in 0 .. m - 1 : h[n] = f[n]
    OBVIOUS
  <2>5. h[m] = g[<<m, h[m - 1]>>]
    <3>1. h[m] = g[<<m, f[m - 1]>>]
      OBVIOUS
    <3>2. h[m - 1] = f[m - 1]
      BY <2>4
    <3> HIDE DEF h
    <3> QED
      BY <3>1, <3>2
  <2> HIDE DEF h
  <2>6. ASSUME NEW n \in 1 .. m PROVE h[n] = g[<<n, h[n - 1]>>]
    <3>1. CASE n = m
      BY <2>5, <3>1
    <3>2. CASE n # m
      <4>1. n \in 1 .. m - 1 /\ n - 1 \in 0 .. m - 1 /\ n \in 0 .. m - 1
        BY <3>2
      <4> QED
        BY <2>1, <2>4, <4>1
    <3> QED
      BY <3>1, <3>2
  <2>7. h[0] = a
    BY <2>1, <2>4
  <2> QED
    BY <2>3, <2>6, <2>7
<1> HIDE DEF T
<1>3. L \in T
  <2>1. Inductive(L, T)
    BY <1>1, <1>2 DEF Inductive
  <2> QED
    BY <2>1, Induction
<1> QED
  BY <1>3 DEF T, Trace
=============================================================================
