------------------------- MODULE StabilityPoolLemmas -------------------------
(***************************************************************************)
(* The StabilityPool for every number of users, every amount and every     *)
(* length of the history: what its formulas return, and the invariant that *)
(* every call keeps.                                                       *)
(*                                                                         *)
(* SPInv is SnapshotsBehindPool with the type invariant; P <= 1 after a    *)
(* scale change rests on SCALE_FACTOR * SCALE_FACTOR <= DECIMAL_PRECISION. *)
(* The pool is used in two specifications, on its own (StabilityPoolSpec)  *)
(* and in the protocol (Liquity); the lemmas are about its actions, and    *)
(* both proofs cite them.                                                  *)
(***************************************************************************)
EXTENDS StabilityPool, InductionLemmas

-----------------------------------------------------------------------------
(* Totals over the users: what they are and how they change with one entry. *)

\* The recursive definition of the prefix sums has a solution.
LEMMA PrefixSumsExist ==
  ASSUME NEW n \in Nat, NEW f \in [1..n -> Int]
  PROVE  \E p \in [0..n -> Int] : p[0] = 0 /\ \A i \in 1..n : p[i] = p[i-1] + f[i]
  <1> DEFINE Sol(m) == {p \in [0..m -> Int] :
                          p[0] = 0 /\ \A i \in 1..m : p[i] = p[i-1] + f[i]}
             T == {m \in Nat : m <= n => Sol(m) # {}}
  <1>1. 0 \in T
    <2>1. [i \in 0..0 |-> 0] \in Sol(0)
      OBVIOUS
    <2> QED
      BY <2>1
  <1>2. ASSUME NEW m \in Nat, m \in T PROVE m + 1 \in T
    <2>0. ASSUME m + 1 <= n PROVE Sol(m+1) # {}
      <3>0. m <= n
        BY <2>0
      <3>1. PICK p \in [0..m -> Int] : p[0] = 0 /\ \A i \in 1..m : p[i] = p[i-1] + f[i]
        BY <1>2, <3>0
      <3> DEFINE q == [i \in 0..(m+1) |-> IF i = m + 1 THEN p[m] + f[m+1] ELSE p[i]]
      <3>2. q \in [0..(m+1) -> Int]
        BY <2>0
      <3>3. q[0] = 0 /\ \A i \in 1..(m+1) : q[i] = q[i-1] + f[i]
        <4>1. ASSUME NEW i \in 1..m PROVE q[i] = q[i-1] + f[i]
          BY <3>1
        <4>2. q[m+1] = q[(m+1)-1] + f[m+1]
          OBVIOUS
        <4> HIDE DEF q
        <4>3. \A i \in 1..(m+1) : i = m + 1 \/ i \in 1..m
          OBVIOUS
        <4>4. q[0] = 0
          BY <3>1 DEF q
        <4> QED
          BY <4>1, <4>2, <4>3, <4>4
      <3>4. q \in Sol(m+1)
        BY <3>2, <3>3
      <3> QED
        BY <3>4
    <2> HIDE DEF Sol
    <2> QED
      BY <2>0
  <1> HIDE DEF T
  <1>3. \A m \in Nat : m \in T
    BY <1>1, <1>2, SetInduction
  <1>4. Sol(n) # {}
    <2> HIDE DEF Sol
    <2> QED
      BY <1>3 DEF T
  <1> QED
    BY <1>4

\* The prefix sums are what their recursive definition says.
LEMMA PrefixSumsDef ==
  ASSUME NEW n \in Nat, NEW f \in [1..n -> Int]
  PROVE  /\ PrefixSums(f, n) \in [0..n -> Int]
         /\ PrefixSums(f, n)[0] = 0
         /\ \A i \in 1..n : PrefixSums(f, n)[i] = PrefixSums(f, n)[i-1] + f[i]
  <1> DEFINE Def(p) == [i \in 0..n |-> IF i = 0 THEN 0 ELSE p[i-1] + f[i]]
  <1>1. \E q : q = Def(q)
    <2>1. PICK q \in [0..n -> Int] : q[0] = 0 /\ \A i \in 1..n : q[i] = q[i-1] + f[i]
      BY PrefixSumsExist
    <2>2. \A i \in 0..n : q[i] = IF i = 0 THEN 0 ELSE q[i-1] + f[i]
      BY <2>1
    <2>3. q = Def(q)
      BY <2>2
    <2> QED
      BY <2>3
  <1>2. PrefixSums(f, n) = CHOOSE p : p = Def(p)
    BY DEF PrefixSums
  <1> HIDE DEF Def
  <1>3. PICK p : p = Def(p) /\ p = PrefixSums(f, n)
    BY <1>1, <1>2
  <1>4. p = [i \in 0..n |-> IF i = 0 THEN 0 ELSE p[i-1] + f[i]]
    BY <1>3 DEF Def
  <1>5. p[0] = 0 /\ \A i \in 1..n : p[i] = p[i-1] + f[i]
    BY <1>4
  <1> DEFINE T == {k \in Nat : k <= n => p[k] \in Int}
  <1>6. 0 \in T
    BY <1>5
  <1>7. ASSUME NEW k \in Nat, k \in T PROVE k + 1 \in T
    BY <1>5, <1>7
  <1> HIDE DEF T
  <1>8. \A k \in Nat : k \in T
    BY <1>6, <1>7, SetInduction
  <1>9. \A k \in 0..n : p[k] \in Int
    BY <1>8 DEF T
  <1>10. p \in [0..n -> Int]
    BY <1>4, <1>9
  <1> QED
    BY <1>3, <1>5, <1>10

\* A total of integers is an integer, and one of naturals a natural.
LEMMA SumType ==
  ASSUME NEW n \in Nat, NEW f \in [1..n -> Int]
  PROVE  /\ SumOf(f, n) \in Int
         /\ (\A i \in 1..n : f[i] \in Nat) => SumOf(f, n) \in Nat
  <1> DEFINE p == PrefixSums(f, n)
  <1> HIDE DEF p
  <1>1. p \in [0..n -> Int] /\ p[0] = 0 /\ \A i \in 1..n : p[i] = p[i-1] + f[i]
    BY PrefixSumsDef DEF p
  <1>2. SumOf(f, n) = p[n]
    BY DEF SumOf, p
  <1>3. ASSUME \A i \in 1..n : f[i] \in Nat PROVE p[n] \in Nat
    <2> DEFINE T == {k \in Nat : k <= n => p[k] \in Nat}
    <2>1. 0 \in T
      BY <1>1
    <2>2. ASSUME NEW k \in Nat, k \in T PROVE k + 1 \in T
      BY <1>1, <1>3, <2>2
    <2> HIDE DEF T
    <2>3. \A k \in Nat : k \in T
      BY <2>1, <2>2, SetInduction
    <2> QED
      BY <2>3 DEF T
  <1> QED
    BY <1>1, <1>2, <1>3

\* Totals are compared entry by entry.
LEMMA SumMono ==
  ASSUME NEW n \in Nat, NEW f \in [1..n -> Int], NEW g \in [1..n -> Int],
         \A i \in 1..n : f[i] <= g[i]
  PROVE  SumOf(f, n) <= SumOf(g, n)
  <1> DEFINE p == PrefixSums(f, n)
             q == PrefixSums(g, n)
  <1> HIDE DEF p, q
  <1>1. p \in [0..n -> Int] /\ p[0] = 0 /\ \A i \in 1..n : p[i] = p[i-1] + f[i]
    BY PrefixSumsDef DEF p
  <1>2. q \in [0..n -> Int] /\ q[0] = 0 /\ \A i \in 1..n : q[i] = q[i-1] + g[i]
    BY PrefixSumsDef DEF q
  <1> DEFINE T == {k \in Nat : k <= n => p[k] <= q[k]}
  <1>3. 0 \in T
    BY <1>1, <1>2
  <1>4. ASSUME NEW k \in Nat, k \in T PROVE k + 1 \in T
    <2>1. ASSUME k + 1 <= n PROVE p[k+1] <= q[k+1]
      <3>1. /\ p[k+1] = p[k] + f[k+1] /\ q[k+1] = q[k] + g[k+1]
            /\ p[k] \in Int /\ q[k] \in Int /\ f[k+1] \in Int /\ g[k+1] \in Int
        <4>1. k + 1 \in 1..n /\ k \in 0..n /\ (k + 1) - 1 = k
          BY <2>1
        <4>2. p[k+1] = p[(k+1)-1] + f[k+1] /\ q[k+1] = q[(k+1)-1] + g[k+1]
          BY <1>1, <1>2, <4>1
        <4> QED
          BY <1>1, <1>2, <4>1, <4>2
      <3> QED
        BY <1>4, <2>1, <3>1
    <2> QED
      BY <2>1
  <1> HIDE DEF T
  <1>5. \A k \in Nat : k \in T
    BY <1>3, <1>4, SetInduction
  <1> QED
    BY <1>5 DEF T, SumOf, p, q

\* Entries that are equal have equal totals, whatever lies outside 1..n.
LEMMA SumEqual ==
  ASSUME NEW n \in Nat, NEW f \in [1..n -> Int], NEW g \in [1..n -> Int],
         \A i \in 1..n : f[i] = g[i]
  PROVE  SumOf(f, n) = SumOf(g, n)
  <1>1. f = g
    OBVIOUS
  <1> QED
    BY <1>1

\* Changing one entry changes the total by as much.
LEMMA SumUpdate ==
  ASSUME NEW n \in Nat, NEW f \in [1..n -> Int], NEW u \in 1..n, NEW v \in Int
  PROVE  SumOf([f EXCEPT ![u] = v], n) = SumOf(f, n) - f[u] + v
  <1> DEFINE g == [f EXCEPT ![u] = v]
             p == PrefixSums(f, n)
             q == PrefixSums(g, n)
  <1>0. g \in [1..n -> Int] /\ g[u] = v /\ \A i \in 1..n : i # u => g[i] = f[i]
    OBVIOUS
  <1> HIDE DEF p, q, g
  <1>1. p \in [0..n -> Int] /\ p[0] = 0 /\ \A i \in 1..n : p[i] = p[i-1] + f[i]
    BY PrefixSumsDef DEF p
  <1>2. q \in [0..n -> Int] /\ q[0] = 0 /\ \A i \in 1..n : q[i] = q[i-1] + g[i]
    BY <1>0, PrefixSumsDef DEF q
  <1> DEFINE T == {k \in Nat : k <= n => q[k] = IF k < u THEN p[k] ELSE p[k] - f[u] + v}
  <1>3. 0 \in T
    BY <1>1, <1>2
  <1>4. ASSUME NEW k \in Nat, k \in T PROVE k + 1 \in T
    <2>1. ASSUME k + 1 <= n
          PROVE  q[k+1] = IF k + 1 < u THEN p[k+1] ELSE p[k+1] - f[u] + v
      <3>1. /\ p[k+1] = p[k] + f[k+1] /\ q[k+1] = q[k] + g[k+1]
            /\ p[k] \in Int /\ q[k] \in Int /\ f[k+1] \in Int /\ f[u] \in Int
        <4>1. k + 1 \in 1..n /\ k \in 0..n /\ (k + 1) - 1 = k
          BY <2>1
        <4>2. p[k+1] = p[(k+1)-1] + f[k+1] /\ q[k+1] = q[(k+1)-1] + g[k+1]
          BY <1>1, <1>2, <4>1
        <4> QED
          BY <1>1, <1>2, <4>1, <4>2
      <3>2. q[k] = IF k < u THEN p[k] ELSE p[k] - f[u] + v
        BY <1>4, <2>1
      <3>3. CASE k + 1 = u
        <4>1. g[k+1] = v /\ f[k+1] = f[u] /\ k < u /\ ~(k + 1 < u)
          BY <1>0, <3>3
        <4>2. q[k] = p[k]
          BY <3>2, <4>1
        <4> QED
          BY <3>1, <4>1, <4>2
      <3>4. CASE k + 1 # u
        <4>1. g[k+1] = f[k+1] /\ (k < u <=> k + 1 < u)
          BY <1>0, <2>1, <3>4
        <4>2. CASE k < u
          BY <3>1, <3>2, <4>1, <4>2
        <4>3. CASE ~(k < u)
          BY <3>1, <3>2, <4>1, <4>3
        <4> QED
          BY <4>2, <4>3
      <3> QED
        BY <3>3, <3>4
    <2> QED
      BY <2>1
  <1> HIDE DEF T
  <1>5. \A k \in Nat : k \in T
    BY <1>3, <1>4, SetInduction
  <1>6. q[n] = p[n] - f[u] + v
    BY <1>5 DEF T
  <1> QED
    BY <1>6 DEF SumOf, p, q, g

\* A total is additive in its entries.
LEMMA SumAdd ==
  ASSUME NEW n \in Nat, NEW f \in [1..n -> Int], NEW g \in [1..n -> Int],
         NEW h \in [1..n -> Int], \A i \in 1..n : h[i] = f[i] + g[i]
  PROVE  SumOf(h, n) = SumOf(f, n) + SumOf(g, n)
  <1> DEFINE p == PrefixSums(f, n)
             q == PrefixSums(g, n)
             r == PrefixSums(h, n)
  <1> HIDE DEF p, q, r
  <1>1. p \in [0..n -> Int] /\ p[0] = 0 /\ \A i \in 1..n : p[i] = p[i-1] + f[i]
    BY PrefixSumsDef DEF p
  <1>2. q \in [0..n -> Int] /\ q[0] = 0 /\ \A i \in 1..n : q[i] = q[i-1] + g[i]
    BY PrefixSumsDef DEF q
  <1>3. r \in [0..n -> Int] /\ r[0] = 0 /\ \A i \in 1..n : r[i] = r[i-1] + h[i]
    BY PrefixSumsDef DEF r
  <1> DEFINE T == {k \in Nat : k <= n => r[k] = p[k] + q[k]}
  <1>4. 0 \in T
    BY <1>1, <1>2, <1>3
  <1>5. ASSUME NEW k \in Nat, k \in T PROVE k + 1 \in T
    BY <1>1, <1>2, <1>3, <1>5
  <1> HIDE DEF T
  <1>6. \A k \in Nat : k \in T
    BY <1>4, <1>5, SetInduction
  <1> QED
    BY <1>6 DEF T, SumOf, p, q, r

\* A common factor of the entries is one of the total.
LEMMA SumScale ==
  ASSUME NEW n \in Nat, NEW f \in [1..n -> Int], NEW h \in [1..n -> Int],
         NEW c \in Int, \A i \in 1..n : h[i] = f[i] * c
  PROVE  SumOf(h, n) = SumOf(f, n) * c
  <1> DEFINE p == PrefixSums(f, n)
             r == PrefixSums(h, n)
  <1> HIDE DEF p, r
  <1>1. p \in [0..n -> Int] /\ p[0] = 0 /\ \A i \in 1..n : p[i] = p[i-1] + f[i]
    BY PrefixSumsDef DEF p
  <1>2. r \in [0..n -> Int] /\ r[0] = 0 /\ \A i \in 1..n : r[i] = r[i-1] + h[i]
    BY PrefixSumsDef DEF r
  <1> DEFINE T == {k \in Nat : k <= n => r[k] = p[k] * c}
  <1>3. 0 \in T
    BY <1>1, <1>2
  <1>4. ASSUME NEW k \in Nat, k \in T PROVE k + 1 \in T
    <2>1. ASSUME k + 1 <= n PROVE r[k+1] = p[k+1] * c
      <3>1. k + 1 \in 1..n /\ k \in 0..n /\ (k + 1) - 1 = k
        BY <2>1
      <3>2. p[k+1] = p[k] + f[k+1] /\ r[k+1] = r[k] + h[k+1]
        <4>1. p[k+1] = p[(k+1)-1] + f[k+1] /\ r[k+1] = r[(k+1)-1] + h[k+1]
          BY <1>1, <1>2, <3>1
        <4> QED
          BY <3>1, <4>1
      <3>3. p[k] \in Int /\ f[k+1] \in Int /\ h[k+1] = f[k+1] * c
        BY <1>1, <3>1
      <3>4. r[k] = p[k] * c
        BY <1>4, <2>1
      <3>5. (p[k] + f[k+1]) * c = p[k] * c + f[k+1] * c
        BY <3>3
      <3> QED
        BY <3>2, <3>3, <3>4, <3>5
    <2> QED
      BY <2>1
  <1> HIDE DEF T
  <1>5. \A k \in Nat : k \in T
    BY <1>3, <1>4, SetInduction
  <1> QED
    BY <1>5 DEF T, SumOf, p, r

-----------------------------------------------------------------------------
(* Facts about products and floor division that the proofs cite. *)

\* The product of two naturals is a natural.
LEMMA MulNat ==
  ASSUME NEW a \in Nat, NEW b \in Nat
  PROVE  a * b \in Nat
OBVIOUS

\* Multiplication by a natural preserves the order.
LEMMA MulMono ==
  ASSUME NEW a \in Nat, NEW b \in Nat, NEW c \in Nat, a <= b
  PROVE  a * c <= b * c
OBVIOUS

\* Solidity's division of naturals gives a natural.
LEMMA DivNat ==
  ASSUME NEW a \in Nat, NEW b \in Nat \ {0}
  PROVE  a \div b \in Nat
OBVIOUS

\* Floor division loses less than one divisor.
LEMMA DivBounds ==
  ASSUME NEW a \in Nat, NEW b \in Nat \ {0}
  PROVE  /\ (a \div b) * b <= a
         /\ a < (a \div b) * b + b
OBVIOUS

\* A quotient is bounded by what the dividend is bounded by.
LEMMA DivLeq ==
  ASSUME NEW a \in Nat, NEW b \in Nat \ {0}, NEW c \in Nat, a <= c * b
  PROVE  a \div b <= c
BY DivBounds, DivNat

\* A strict bound on a quotient is a strict bound on the dividend.
LEMMA DivLess ==
  ASSUME NEW a \in Nat, NEW b \in Nat \ {0}, NEW c \in Nat, a \div b < c
  PROVE  a < c * b
BY DivBounds, DivNat

\* A product divided by one factor is the other.
LEMMA DivExact ==
  ASSUME NEW a \in Nat, NEW b \in Nat \ {0}
  PROVE  (a * b) \div b = a
<1>1. a * b \in Nat /\ (a * b) \div b \in Nat
  BY MulNat, DivNat
<1>2. (a * b) \div b <= a
  BY <1>1, DivLeq
<1>3. a <= (a * b) \div b
  <2>1. a * b < ((a * b) \div b) * b + b
    BY <1>1, DivBounds
  <2> SUFFICES ASSUME (a * b) \div b + 1 <= a PROVE FALSE
    BY <1>1
  <2>2. ((a * b) \div b + 1) * b <= a * b
    BY <1>1, MulMono
  <2>3. ((a * b) \div b + 1) * b = ((a * b) \div b) * b + b
    BY <1>1
  <2>4. ((a * b) \div b) * b \in Nat
    BY <1>1, MulNat
  <2> QED
    BY <1>1, <2>1, <2>2, <2>3, <2>4
<1> QED
  BY <1>1, <1>2, <1>3

-----------------------------------------------------------------------------
SPInv == SPTypeOK /\ SnapshotsBehindPool

-----------------------------------------------------------------------------
(* The product P. *)

\* A scale change multiplies P by at most SCALE_FACTOR and leaves it <= 1.
LEMMA ScaledProduct ==
  ASSUME NEW p \in Nat, NEW f \in Nat, NEW dp \in Nat \ {0},
         NEW sf \in Nat \ {0},
         f <= dp, (p * f) \div dp < sf, sf * sf <= dp
  PROVE  /\ (p * f * sf) \div dp <= p * sf
         /\ (p * f * sf) \div dp <= dp
<1>1. /\ p * f \in Nat /\ p * sf \in Nat /\ sf * sf \in Nat
      /\ p * f * sf \in Nat
  BY MulNat
<1>2. p * f * sf <= (p * sf) * dp
  <2>1. p * f <= p * dp
    BY MulMono
  <2>2. (p * f) * sf <= (p * dp) * sf
    BY <2>1, <1>1, MulMono, MulNat
  <2>3. QED
    BY <2>2
<1>3. p * f * sf <= dp * dp
  <2>1. p * f < sf * dp
    BY <1>1, DivLess
  <2>2. (p * f) * sf <= (sf * dp) * sf
    BY <2>1, <1>1, MulMono, MulNat
  <2>3. (sf * dp) * sf = (sf * sf) * dp
    OBVIOUS
  <2>4. (sf * sf) * dp <= dp * dp
    BY <1>1, MulMono
  <2>5. QED
    BY <2>2, <2>3, <2>4, <1>1, MulNat
<1>4. QED
  BY <1>1, <1>2, <1>3, DivLeq

\* What _updateRewardSumAndProduct does to P: without a scale change P does
\* not grow, with one it grows by at most SCALE_FACTOR; it never exceeds 1.
LEMMA NewPBounds ==
  ASSUME P \in 1..DECIMAL_PRECISION,
         currentScale \in Nat,
         NEW f \in 0..DECIMAL_PRECISION
  PROVE  /\ NewP(f) \in Nat
         /\ NewP(f) <= DECIMAL_PRECISION
         /\ f # 0 /\ NewScale(f) = currentScale => NewP(f) <= P
         /\ f # 0 => NewP(f) <= P * SCALE_FACTOR
<1> USE BaseAssumption, PoolAssumption
<1>0. /\ P \in Nat /\ f \in Nat /\ f <= DECIMAL_PRECISION
      /\ SCALE_FACTOR * SCALE_FACTOR <= DECIMAL_PRECISION
  OBVIOUS
<1>1. /\ P * f \in Nat /\ P * f * SCALE_FACTOR \in Nat
      /\ (P * f) \div DECIMAL_PRECISION \in Nat
      /\ (P * f * SCALE_FACTOR) \div DECIMAL_PRECISION \in Nat
  BY MulNat, DivNat
<1>2. P * f <= P * DECIMAL_PRECISION
  BY MulMono
<1>3. (P * f) \div DECIMAL_PRECISION <= P
  BY <1>1, <1>2, DivLeq
<1>4. P <= P * SCALE_FACTOR
  OBVIOUS
<1>5. CASE f = 0
  BY <1>5 DEF NewP
<1>6. CASE f # 0 /\ (P * f) \div DECIMAL_PRECISION < SCALE_FACTOR
  <2>1. /\ (P * f * SCALE_FACTOR) \div DECIMAL_PRECISION <= P * SCALE_FACTOR
        /\ (P * f * SCALE_FACTOR) \div DECIMAL_PRECISION <= DECIMAL_PRECISION
    BY <1>0, <1>6, ScaledProduct, Zenon
  <2>2. NewScale(f) # currentScale
    BY <1>6 DEF NewScale
  <2>3. QED
    BY <1>1, <1>6, <2>1, <2>2 DEF NewP
<1>7. CASE f # 0 /\ ~((P * f) \div DECIMAL_PRECISION < SCALE_FACTOR)
  BY <1>1, <1>3, <1>4, <1>7 DEF NewP
<1>8. QED
  BY <1>5, <1>6, <1>7

-----------------------------------------------------------------------------
(* Gains and compounded deposits. *)

\* Gains are naturals.
LEMMA GainNat ==
  ASSUME SPInv, NEW u \in Users
  PROVE  getDepositorCollateralGain(u) \in Nat
<1> USE BaseAssumption, PoolAssumption
<1>1. CASE deposits[u] = 0
  BY <1>1 DEF getDepositorCollateralGain
<1>2. CASE deposits[u] > 0
  <2> DEFINE snap   == depositSnapshots[u]
             first  == epochToScaleToSum[<<snap.epoch, snap.scale>>] - snap.S
             second == epochToScaleToSum[<<snap.epoch, snap.scale + 1>>]
                         \div SCALE_FACTOR
  <2>1. /\ deposits[u] \in Nat
        /\ snap.P \in Nat \ {0}
        /\ snap.S \in Nat
        /\ snap.S <= epochToScaleToSum[<<snap.epoch, snap.scale>>]
        /\ epochToScaleToSum[<<snap.epoch, snap.scale>>] \in Nat
        /\ epochToScaleToSum[<<snap.epoch, snap.scale + 1>>] \in Nat
    BY <1>2 DEF SPInv, SPTypeOK, SnapshotsBehindPool, BehindPool,
                Scales, Epochs
  <2>2. first + second \in Nat
    <3>1. first \in Nat
      BY <2>1
    <3>2. second \in Nat
      <4> DEFINE later == epochToScaleToSum[<<snap.epoch, snap.scale + 1>>]
      <4>1. later \in Nat
        BY <2>1
      <4> HIDE DEF later
      <4>2. later \div SCALE_FACTOR \in Nat
        BY <4>1, DivNat
      <4>3. QED
        BY <4>2 DEF later
    <3> HIDE DEF first, second
    <3>3. QED
      BY <3>1, <3>2
  <2> HIDE DEF snap, first, second
  <2>3. (deposits[u] * (first + second)) \div snap.P \in Nat
    BY <2>1, <2>2, DivNat, MulNat
  <2>4. ((deposits[u] * (first + second)) \div snap.P)
          \div DECIMAL_PRECISION \in Nat
    BY <2>3, DivNat
  <2>5. QED
    BY <1>2, <2>4 DEF getDepositorCollateralGain,
                      getCollateralGainFromSnapshots, snap, first, second
<1>3. QED
  BY <1>1, <1>2 DEF SPInv, SPTypeOK

\* A compounded deposit is a natural and never exceeds the recorded deposit.
LEMMA CompoundedBounds ==
  ASSUME SPInv, NEW u \in Users
  PROVE  /\ getCompoundedTHUSDDeposit(u) \in Nat
         /\ getCompoundedTHUSDDeposit(u) <= deposits[u]
<1> USE BaseAssumption, PoolAssumption
<1>1. CASE deposits[u] = 0
  BY <1>1 DEF getCompoundedTHUSDDeposit
<1>2. CASE deposits[u] > 0
  <2> DEFINE snap == depositSnapshots[u]
             d    == deposits[u]
  <2>1. /\ d \in Nat
        /\ snap.P \in Nat \ {0}
        /\ P \in Nat
        /\ snap.scale \in Nat /\ snap.epoch \in Nat
        /\ currentScale \in Nat /\ currentEpoch \in Nat
        /\ BehindPool(snap)
    BY <1>2 DEF SPInv, SPTypeOK, SnapshotsBehindPool, BehindPool,
                Scales, Epochs
  <2> HIDE DEF snap, d
  <2>2. d * P \in Nat /\ (d * P) \div snap.P \in Nat
    BY <2>1, MulNat, DivNat
  <2>3. snap.epoch >= currentEpoch =>
          ScaledStake(d, snap) \in Nat /\ ScaledStake(d, snap) <= d
    <3>1. CASE snap.epoch = currentEpoch /\ snap.scale = currentScale
      <4>1. d * P <= d * snap.P
        <5>1. P <= snap.P
          BY <2>1, <3>1 DEF BehindPool
        <5>2. P * d <= snap.P * d
          BY <2>1, <5>1, MulMono
        <5>3. QED
          BY <2>1, <5>2
      <4>2. (d * P) \div snap.P <= d
        BY <2>1, <2>2, <4>1, DivLeq
      <4>3. QED
        BY <2>1, <2>2, <3>1, <4>2 DEF ScaledStake
    <3>2. CASE snap.epoch = currentEpoch /\ snap.scale + 1 = currentScale
      <4>1. d * P <= d * (snap.P * SCALE_FACTOR)
        BY <2>1, <3>2, MulMono, MulNat DEF BehindPool
      <4>2. d * (snap.P * SCALE_FACTOR) = (d * SCALE_FACTOR) * snap.P
        BY <2>1
      <4>3. (d * P) \div snap.P <= d * SCALE_FACTOR
        BY <2>1, <2>2, <4>1, <4>2, MulNat, DivLeq
      <4>4. /\ ((d * P) \div snap.P) \div SCALE_FACTOR <= d
            /\ ((d * P) \div snap.P) \div SCALE_FACTOR \in Nat
        BY <2>1, <2>2, <4>3, DivLeq, DivNat
      <4>5. QED
        BY <2>1, <2>2, <3>2, <4>4 DEF ScaledStake
    <3>3. CASE /\ currentScale - snap.scale # 0
               /\ currentScale - snap.scale # 1
      BY <2>1, <3>3 DEF ScaledStake
    <3>4. QED
      BY <2>1, <3>1, <3>2, <3>3 DEF BehindPool
  <2>4. QED
    BY <1>2, <2>1, <2>3 DEF getCompoundedTHUSDDeposit,
         getCompoundedStakeFromSnapshots, snap, d
<1>3. QED
  BY <1>1, <1>2 DEF SPInv, SPTypeOK

-----------------------------------------------------------------------------
(* The invariant of the pool is preserved by what changes its state. *)

\* A pool without deposits satisfies the invariant.
LEMMA InitSPInv == SPInit => SPInv
BY BaseAssumption, PoolAssumption
   DEF SPInit, SPInv, SPTypeOK, SnapshotsBehindPool, NoSnapshots, Scales,
       Epochs, Users

\* A depositor's call that records newValue as u's deposit and pays out u's
\* gain preserves the invariant: it leaves P, S, scale and epoch alone.
LEMMA RecordPreservesSPInv ==
  ASSUME SPInv, NEW u \in Users, NEW newValue \in Nat,
         PayOutGain(u),
         updateDepositAndSnapshots(u, newValue),
         totalTHUSDDeposits' \in Nat,
         UNCHANGED <<P, currentScale, currentEpoch, epochToScaleToSum,
                     lastCollateralError_Offset, lastTHUSDLossError_Offset>>
  PROVE  SPInv'
<1> USE BaseAssumption, PoolAssumption
<1> DEFINE new == IF newValue = 0
                  THEN NoSnapshots
                  ELSE [S |-> currentS, P |-> P,
                        scale |-> currentScale, epoch |-> currentEpoch]
<1>1. collateral' \in Nat
  BY GainNat DEF PayOutGain, SPInv, SPTypeOK
<1>2. /\ new \in [S : Nat, P : Nat, scale : Scales, epoch : Epochs]
      /\ newValue > 0 => BehindPool(new)
  BY DEF SPInv, SPTypeOK, NoSnapshots, currentS, Scales, Epochs,
         BehindPool
<1>3. /\ deposits' = [deposits EXCEPT ![u] = newValue]
      /\ depositSnapshots' = [depositSnapshots EXCEPT ![u] = new]
  BY DEF updateDepositAndSnapshots
<1> HIDE DEF new
<1>4. SPTypeOK'
  BY <1>1, <1>2, <1>3 DEF SPInv, SPTypeOK
<1>5. SnapshotsBehindPool'
  <2> SUFFICES ASSUME NEW v \in Users, deposits'[v] > 0
               PROVE  BehindPool(depositSnapshots[v])'
    BY DEF SnapshotsBehindPool
  <2>1. CASE v = u
    <3>1. depositSnapshots'[v] = new /\ newValue > 0
      BY <2>1, <1>3 DEF SPInv, SPTypeOK
    <3>2. QED
      BY <3>1, <1>2 DEF BehindPool
  <2>2. CASE v # u
    <3>1. /\ depositSnapshots'[v] = depositSnapshots[v]
          /\ BehindPool(depositSnapshots[v])
      BY <2>2, <1>3 DEF SPInv, SPTypeOK, SnapshotsBehindPool
    <3>2. QED
      BY <3>1 DEF BehindPool
  <2>3. QED
    BY <2>1, <2>2
<1>6. QED
  BY <1>4, <1>5 DEF SPInv

\* What the per-unit loss and the error terms of an offset are.
LEMMA RewardsTyped ==
  ASSUME SPInv, NEW debt \in Nat, NEW coll \in Nat,
         totalTHUSDDeposits > 0,
         computeRewardsPerUnitStaked(coll, debt)
  PROVE  /\ THUSDLossPerUnitStaked(debt) \in Nat
         /\ CollateralGainPerUnitStaked(coll) \in Nat
         /\ lastTHUSDLossError_Offset' \in Nat
         /\ lastCollateralError_Offset' \in Nat
<1> USE BaseAssumption, PoolAssumption
<1> DEFINE num  == THUSDLossNumerator(debt)
           cnum == CollateralNumerator(coll)
<1>1. totalTHUSDDeposits \in Nat \ {0} /\ cnum \in Nat
  <2>1. coll * DECIMAL_PRECISION \in Nat
    BY MulNat
  <2>2. totalTHUSDDeposits \in Nat /\ lastCollateralError_Offset \in Nat
    BY DEF SPInv, SPTypeOK
  <2>3. cnum = coll * DECIMAL_PRECISION + lastCollateralError_Offset
    BY DEF CollateralNumerator
  <2>4. QED
    BY <2>1, <2>2, <2>3
<1>2. debt # totalTHUSDDeposits => num \in Nat
  BY MulNat DEF SPInv, SPTypeOK, computeRewardsPerUnitStaked,
                THUSDLossNumerator
<1> HIDE DEF num, cnum
<1>3. /\ cnum \div totalTHUSDDeposits \in Nat
      /\ cnum - (cnum \div totalTHUSDDeposits) * totalTHUSDDeposits \in Nat
  BY <1>1, DivNat, DivBounds, MulNat
<1>4. debt # totalTHUSDDeposits =>
        /\ num \div totalTHUSDDeposits + 1 \in Nat
        /\ (num \div totalTHUSDDeposits + 1) * totalTHUSDDeposits - num \in Nat
  <2> SUFFICES ASSUME debt # totalTHUSDDeposits
               PROVE  /\ num \div totalTHUSDDeposits + 1 \in Nat
                      /\ (num \div totalTHUSDDeposits + 1)
                            * totalTHUSDDeposits - num \in Nat
    OBVIOUS
  <2>1. num \div totalTHUSDDeposits \in Nat
    BY <1>1, <1>2, DivNat
  <2>2. num < (num \div totalTHUSDDeposits) * totalTHUSDDeposits
                + totalTHUSDDeposits
    BY <1>1, <1>2, DivBounds
  <2>3. (num \div totalTHUSDDeposits + 1) * totalTHUSDDeposits
          = (num \div totalTHUSDDeposits) * totalTHUSDDeposits
              + totalTHUSDDeposits
    BY <1>1, <2>1
  <2>4. QED
    BY <1>1, <1>2, <2>1, <2>2, <2>3, MulNat
<1>5. QED
  BY <1>3, <1>4 DEF computeRewardsPerUnitStaked, THUSDLossPerUnitStaked,
       THUSDLossError, CollateralGainPerUnitStaked, num, cnum

\* An offset preserves the invariant, through scale and epoch changes.
LEMMA OffsetPreservesSPInv ==
  ASSUME SPInv, NEW debt \in Nat, NEW coll \in Nat,
         offset(debt, coll)
  PROVE  SPInv'
<1> USE BaseAssumption, PoolAssumption
<1>1. CASE UNCHANGED spVars
  BY <1>1 DEF SPInv, SPTypeOK, SnapshotsBehindPool, BehindPool, spVars
<1>2. CASE /\ totalTHUSDDeposits > 0
           /\ computeRewardsPerUnitStaked(coll, debt)
           /\ updateRewardSumAndProduct(CollateralGainPerUnitStaked(coll),
                                        THUSDLossPerUnitStaked(debt))
           /\ totalTHUSDDeposits' = totalTHUSDDeposits - debt
           /\ collateral' = collateral + coll
           /\ UNCHANGED <<deposits, depositSnapshots>>
  <2> DEFINE f == DECIMAL_PRECISION - THUSDLossPerUnitStaked(debt)
             g == CollateralGainPerUnitStaked(coll)
  <2>1. /\ THUSDLossPerUnitStaked(debt) \in Nat
        /\ g \in Nat
        /\ lastTHUSDLossError_Offset' \in Nat
        /\ lastCollateralError_Offset' \in Nat
    BY <1>2, RewardsTyped
  <2>2. f \in 0..DECIMAL_PRECISION
    BY <1>2, <2>1 DEF updateRewardSumAndProduct
  <2>3. /\ P \in 1..DECIMAL_PRECISION
        /\ currentScale \in Nat /\ currentEpoch \in Nat
        /\ currentScale <= MaxScale /\ currentEpoch <= MaxEpoch
        /\ epochToScaleToSum \in [Epochs \X (0..MaxScale + 1) -> Nat]
        /\ <<currentEpoch, currentScale>> \in Epochs \X (0..MaxScale + 1)
    BY DEF SPInv, SPTypeOK, Scales, Epochs
  <2>4. /\ NewP(f) > 0
        /\ NewScale(f) <= MaxScale
        /\ NewEpoch(f) <= MaxEpoch
        /\ P' = NewP(f)
        /\ currentScale' = NewScale(f)
        /\ currentEpoch' = NewEpoch(f)
        /\ epochToScaleToSum' =
             [epochToScaleToSum EXCEPT ![<<currentEpoch, currentScale>>] =
                @ + g * P]
    BY <1>2 DEF updateRewardSumAndProduct
  <2> HIDE DEF f, g
  <2>5. /\ NewP(f) \in Nat
        /\ NewP(f) <= DECIMAL_PRECISION
        /\ f # 0 /\ NewScale(f) = currentScale => NewP(f) <= P
        /\ f # 0 => NewP(f) <= P * SCALE_FACTOR
    BY <2>2, <2>3, NewPBounds
  <2>6. /\ NewScale(f) \in Nat /\ NewEpoch(f) \in Nat
        /\ f = 0 => NewEpoch(f) = currentEpoch + 1
        /\ f # 0 => /\ NewEpoch(f) = currentEpoch
                    /\ \/ NewScale(f) = currentScale
                       \/ NewScale(f) = currentScale + 1
    BY <2>2, <2>3 DEF NewScale, NewEpoch
  <2>7. /\ epochToScaleToSum' \in [Epochs \X (0..MaxScale + 1) -> Nat]
        /\ \A es \in Epochs \X (0..MaxScale + 1) :
             epochToScaleToSum[es] <= epochToScaleToSum'[es]
    <3>1. g * P \in Nat
      BY <2>1, <2>3, MulNat
    <3>2. QED
      BY <2>3, <2>4, <3>1
  <2>8. SPTypeOK'
    <3>1. totalTHUSDDeposits' \in Nat
      BY <1>2 DEF SPInv, SPTypeOK, computeRewardsPerUnitStaked
    <3>2. collateral' \in Nat
      BY <1>2 DEF SPInv, SPTypeOK
    <3>3. /\ P' \in 1..DECIMAL_PRECISION
          /\ currentScale' \in Scales /\ currentEpoch' \in Epochs
      BY <2>4, <2>5, <2>6 DEF Scales, Epochs
    <3>4. QED
      BY <1>2, <2>1, <2>7, <3>1, <3>2, <3>3 DEF SPInv, SPTypeOK
  <2>9. SnapshotsBehindPool'
    <3> SUFFICES ASSUME NEW v \in Users, deposits'[v] > 0
                 PROVE  BehindPool(depositSnapshots[v])'
      BY DEF SnapshotsBehindPool
    <3> DEFINE snap == depositSnapshots[v]
    <3>1. /\ snap' = snap
          /\ BehindPool(snap)
          /\ snap \in [S : Nat, P : Nat, scale : Scales, epoch : Epochs]
      BY <1>2 DEF SPInv, SPTypeOK, SnapshotsBehindPool
    <3> HIDE DEF snap
    <3>2. /\ snap.P \in Nat /\ snap.S \in Nat
          /\ snap.scale \in Nat /\ snap.epoch \in Nat
          /\ <<snap.epoch, snap.scale>> \in Epochs \X (0..MaxScale + 1)
      BY <3>1 DEF Scales, Epochs
    <3>3. snap.S <= epochToScaleToSum'[<<snap.epoch, snap.scale>>]
      BY <2>3, <2>7, <3>1, <3>2 DEF BehindPool
    <3>4. CASE f = 0
      BY <2>3, <2>4, <2>6, <3>1, <3>2, <3>3, <3>4 DEF BehindPool, snap
    <3>5. CASE f # 0 /\ NewScale(f) = currentScale
      <4>1. P' <= P /\ currentScale' = currentScale
            /\ currentEpoch' = currentEpoch /\ P' \in Nat
        BY <2>4, <2>5, <2>6, <3>5
      <4>2. snap.P * SCALE_FACTOR \in Nat
        BY <3>2, MulNat
      <4>3. /\ P <= snap.P => P' <= snap.P
            /\ P <= snap.P * SCALE_FACTOR => P' <= snap.P * SCALE_FACTOR
        BY <2>3, <3>2, <4>1, <4>2
      <4>4. QED
        BY <3>1, <3>3, <4>1, <4>3 DEF BehindPool, snap
    <3>6. CASE f # 0 /\ NewScale(f) = currentScale + 1
      <4>1. /\ P' <= P * SCALE_FACTOR /\ currentScale' = currentScale + 1
            /\ currentEpoch' = currentEpoch /\ P' \in Nat
        BY <2>4, <2>5, <2>6, <3>6
      <4>2. snap.epoch = currentEpoch /\ snap.scale = currentScale
              => P' <= snap.P * SCALE_FACTOR
        <5>1. P <= snap.P => P * SCALE_FACTOR <= snap.P * SCALE_FACTOR
          BY <2>3, <3>2, MulMono
        <5>2. QED
          BY <2>3, <3>1, <3>2, <4>1, <5>1, MulNat DEF BehindPool
      <4>3. QED
        <5>1. snap.epoch = currentEpoch => snap.scale <= currentScale
          BY <3>1 DEF BehindPool
        <5>2. /\ snap.epoch = currentEpoch => snap.scale <= currentScale'
              /\ ~(snap.epoch = currentEpoch /\ snap.scale = currentScale')
              /\ snap.scale + 1 = currentScale' => snap.scale = currentScale
          BY <2>3, <3>2, <4>1, <5>1
        <5>3. QED
          BY <3>1, <3>3, <4>1, <4>2, <5>2 DEF BehindPool, snap
    <3>7. QED
      BY <2>6, <3>4, <3>5, <3>6
  <2>10. QED
    BY <2>8, <2>9 DEF SPInv
<1>3. QED
  BY <1>1, <1>2 DEF offset

=============================================================================
