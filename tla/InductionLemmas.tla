-------------------------- MODULE InductionLemmas --------------------------
(***************************************************************************)
(* Induction and recursion over the naturals, with sets and functions in   *)
(* place of predicates: a set of naturals that is not empty has a least    *)
(* element, so what holds of 0 and is inherited by the next number holds   *)
(* of all, and a step function can be iterated.                            *)
(***************************************************************************)
EXTENDS Integers, WellFoundedInduction, TLAPS

\* Every set of naturals that is not empty has a least element.
LEMMA LeastNat ==
  ASSUME NEW T, T \subseteq Nat, T # {}
  PROVE  \E n \in T : \A m \in T : n <= m
  <1>1. PICK n \in T : \A m \in T : <<m, n>> \notin OpToRel(<, Nat)
    BY NatLessThanWellFounded, WFMin
  <1>2. \A m \in T : m < n => <<m, n>> \in OpToRel(<, Nat)
    BY DEF OpToRel
  <1>3. \A m \in T : ~(m < n)
    BY <1>1, <1>2
  <1> QED
    BY <1>3

\* Induction: a set that holds 0, and with every natural the next, holds them all.
LEMMA SetInduction ==
  ASSUME NEW T, 0 \in T, \A n \in Nat : n \in T => n + 1 \in T
  PROVE  \A n \in Nat : n \in T
  <1> SUFFICES ASSUME Nat \ T # {} PROVE FALSE
    OBVIOUS
  <1>1. PICK n \in Nat \ T : \A m \in Nat \ T : n <= m
    BY LeastNat
  <1>2. n - 1 \in Nat /\ n - 1 \in T
    BY <1>1
  <1> QED
    BY <1>2

\* f is the sequence of the values that the step function takes from s0.
IsIteration(f, S, s0, step) ==
  f \in [Nat -> S] /\ f[0] = s0 /\ \A n \in Nat : f[n+1] = step[f[n]]

\* Iteration: a step function can be iterated from every start.
LEMMA Iteration ==
  ASSUME NEW S, NEW s0 \in S, NEW step \in [S -> S]
  PROVE  \E f : IsIteration(f, S, s0, step)
  <1> DEFINE Upto(m) == {g \in [0..m -> S] :
                           g[0] = s0 /\ \A i \in 0..(m-1) : g[i+1] = step[g[i]]}
             E == {m \in Nat : Upto(m) # {}}
  <1>1. \A m \in Nat : m \in E
    <2>1. 0 \in E
      <3>1. [i \in 0..0 |-> s0] \in Upto(0)
        OBVIOUS
      <3> QED
        BY <3>1
    <2>2. ASSUME NEW m \in Nat, m \in E PROVE m + 1 \in E
      <3>1. PICK g \in [0..m -> S] :
              g[0] = s0 /\ \A i \in 0..(m-1) : g[i+1] = step[g[i]]
        BY <2>2
      <3> DEFINE h == [i \in 0..(m+1) |-> IF i = m + 1 THEN step[g[m]] ELSE g[i]]
      <3>2. h \in [0..(m+1) -> S]
        OBVIOUS
      <3>3. h[0] = s0 /\ \A i \in 0..m : h[i+1] = step[h[i]]
        BY <3>1
      <3>4. h \in Upto(m+1)
        BY <3>2, <3>3
      <3> QED
        BY <3>4
    <2> HIDE DEF E
    <2> QED
      BY <2>1, <2>2, SetInduction
  <1>2. ASSUME NEW m \in Nat, NEW k \in Nat, m <= k, NEW g \in Upto(m), NEW h \in Upto(k)
        PROVE  \A i \in 0..m : g[i] = h[i]
    <2> DEFINE T == {i \in Nat : i <= m => g[i] = h[i]}
    <2>1. 0 \in T
      OBVIOUS
    <2>2. ASSUME NEW i \in Nat, i \in T PROVE i + 1 \in T
      BY <1>2, <2>2
    <2> HIDE DEF T
    <2>3. \A i \in Nat : i \in T
      BY <2>1, <2>2, SetInduction
    <2> QED
      BY <2>3 DEF T
  <1> DEFINE c == [m \in Nat |-> CHOOSE g \in Upto(m) : TRUE]
             f == [m \in Nat |-> c[m][m]]
  <1>3. \A m \in Nat : c[m] \in Upto(m)
    BY <1>1
  <1> HIDE DEF c
  <1>4. f \in [Nat -> S]
    BY <1>3
  <1>5. f[0] = s0
    BY <1>3
  <1>6. ASSUME NEW n \in Nat PROVE f[n+1] = step[f[n]]
    <2>1. c[n+1] \in Upto(n+1) /\ c[n] \in Upto(n)
      BY <1>3
    <2>2. c[n+1][n+1] = step[c[n+1][n]]
      BY <2>1
    <2> HIDE DEF Upto
    <2>3. n + 1 \in Nat /\ n <= n + 1 /\ n \in 0..n
      OBVIOUS
    <2>4. c[n][n] = c[n+1][n]
      BY <2>1, <2>3, <1>2
    <2> QED
      BY <2>2, <2>4
  <1> QED
    BY <1>4, <1>5, <1>6 DEF IsIteration

=============================================================================
