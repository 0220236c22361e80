------------------------ MODULE StabilityPoolProofs -------------------------
(***************************************************************************)
(* What the StabilityPool promises its depositors, proved: its reward      *)
(* formulas never underflow, it owes at most a bounded rest more than it   *)
(* holds, and a deposit earns what falls due after it was made.            *)
(*                                                                         *)
(* RewardFormulasNeverUnderflow is not inductive: it needs to know how the *)
(* snapshots relate to the pool's P, S, scale and epoch (SPInv of module   *)
(* StabilityPoolLemmas).                                                   *)
(***************************************************************************)
EXTENDS StabilityPoolSpec, StabilityPoolLemmas

-----------------------------------------------------------------------------
\* Every step preserves the invariant.
LEMMA NextSPInv == SPInv /\ [Next]_vars => SPInv'
<1> SUFFICES ASSUME SPInv, [Next]_vars
             PROVE  SPInv'
  OBVIOUS
<1> USE BaseAssumption, PoolAssumption, InputAssumption
<1>1. ASSUME NEW u \in Users, NEW amount \in Amounts, Provide(u, amount)
      PROVE  SPInv'
  <2>1. getCompoundedTHUSDDeposit(u) + amount \in Nat
    BY CompoundedBounds
  <2>2. totalTHUSDDeposits' \in Nat
    BY <1>1 DEF Provide, provideToSP, SPInv, SPTypeOK
  <2>3. QED
    BY <1>1, <2>1, <2>2, RecordPreservesSPInv DEF Provide, provideToSP
<1>2. ASSUME NEW u \in Users, NEW amount \in Amounts, Withdraw(u, amount)
      PROVE  SPInv'
  <2>1. /\ getCompoundedTHUSDDeposit(u) \in Nat
        /\ Withdrawable(u, amount) \in Nat
        /\ Withdrawable(u, amount) <= getCompoundedTHUSDDeposit(u)
    BY CompoundedBounds DEF Withdrawable, MinOf
  <2>2. PICK lowestICR \in {MCR - 1, MCR} : withdrawFromSP(u, amount, lowestICR)
    BY <1>2 DEF Withdraw
  <2>3. totalTHUSDDeposits' \in Nat
    BY <2>1, <2>2 DEF withdrawFromSP, SPInv, SPTypeOK
  <2>4. QED
    BY <2>1, <2>2, <2>3, RecordPreservesSPInv DEF withdrawFromSP
<1>3. ASSUME NEW u \in Users, GainToTrove(u)
      PROVE  SPInv'
  <2>1. getCompoundedTHUSDDeposit(u) \in Nat
    BY CompoundedBounds
  <2>2. PICK hasTrove \in BOOLEAN : withdrawCollateralGainToTrove(u, hasTrove)
    BY <1>3 DEF GainToTrove
  <2>3. totalTHUSDDeposits' \in Nat
    BY <2>2 DEF withdrawCollateralGainToTrove, SPInv, SPTypeOK
  <2>4. QED
    BY <2>1, <2>2, <2>3, RecordPreservesSPInv
       DEF withdrawCollateralGainToTrove
<1>4. ASSUME NEW o \in Offsets, Offset(o[1], o[2])
      PROVE  SPInv'
  <2>1. o[1] \in Nat /\ o[2] \in Nat
    OBVIOUS
  <2>2. QED
    BY <1>4, <2>1, OffsetPreservesSPInv DEF Offset
<1>5. CASE UNCHANGED vars
  BY <1>5 DEF SPInv, SPTypeOK, SnapshotsBehindPool, BehindPool,
              vars, spVars
<1>6. QED
  BY <1>1, <1>2, <1>3, <1>4, <1>5 DEF Next

\* The inductive invariant holds in every reachable state.
LEMMA SpecSPInv == Spec => []SPInv
BY InitSPInv, NextSPInv, PTL DEF Spec, Init

-----------------------------------------------------------------------------
(* The pool's debt to its depositors.                                      *)
(*                                                                         *)
(* What a deposit is worth before rounding is the fraction d * P / snap.P. *)
(* The fractions of different depositors have no common denominator, so    *)
(* the invariant says that there are a denominator M and shares w with     *)
(* w[u] / M at least what u's deposit is worth, and that the shares        *)
(* together exceed what the pool holds by at most                          *)
(* (MaxTHUSD - lastTHUSDLossError_Offset) / DECIMAL_PRECISION.  An offset  *)
(* multiplies M by DECIMAL_PRECISION and every share by the product        *)
(* factor; the error that it carries to the next offset is what keeps the  *)
(* excess within the bound.                                                *)

\* The share w / M is at least what the deposit d recorded at snap is worth.
Covers(w, M, d, snap) ==
  /\ snap.epoch = currentEpoch /\ snap.scale = currentScale
       => (d * P) * M <= w * snap.P
  /\ snap.epoch = currentEpoch /\ snap.scale + 1 = currentScale
       => (d * P) * M <= w * (snap.P * SCALE_FACTOR)

\* What the shares add up to at most, as a multiple of M / DECIMAL_PRECISION.
Cover == (totalTHUSDDeposits * DECIMAL_PRECISION - lastTHUSDLossError_Offset) + MaxTHUSD

CoveredBy(w, M) ==
  /\ w \in [Users -> Nat]
  /\ M \in Nat \ {0}
  /\ \A u \in Users : deposits[u] > 0 => Covers(w[u], M, deposits[u], depositSnapshots[u])
  /\ SumOf(w, NumUsers) * DECIMAL_PRECISION <= M * Cover

DepositsCovered ==
  /\ totalTHUSDDeposits <= MaxTHUSD
  /\ lastTHUSDLossError_Offset <= MaxTHUSD
  /\ \E w, M : CoveredBy(w, M)

\* A positive factor can be dropped from both sides.
LEMMA MulCancel ==
  ASSUME NEW a \in Nat, NEW b \in Nat, NEW c \in Nat \ {0}, a * c <= b * c
  PROVE  a <= b
<1> SUFFICES ASSUME b + 1 <= a PROVE FALSE
  OBVIOUS
<1>1. (b + 1) * c <= a * c
  BY MulMono
<1>2. (b + 1) * c = b * c + c
  OBVIOUS
<1>3. a * c \in Nat /\ b * c \in Nat
  BY MulNat
<1> QED
  BY <1>1, <1>2, <1>3

\* A quotient q of x / y is covered by a share that covers x / y.
LEMMA QuotientCovered ==
  ASSUME NEW x \in Nat, NEW y \in Nat \ {0}, NEW q \in Nat, q * y <= x,
         NEW M \in Nat \ {0}, NEW w \in Nat, x * M <= w * y
  PROVE  q * M <= w
<1>1. q * y \in Nat /\ q * M \in Nat /\ x * M \in Nat /\ w * y \in Nat
  BY MulNat
<1>2. (q * y) * M <= x * M
  BY <1>1, MulMono
<1>3. (q * M) * y = (q * y) * M
  OBVIOUS
<1>4. (q * M) * y <= w * y
  <2>1. (q * y) * M \in Nat
    BY <1>1, MulNat
  <2> QED
    BY <1>1, <1>2, <1>3, <2>1
<1> QED
  BY <1>1, <1>4, MulCancel

\* What getCompoundedTHUSDDeposit returns is within the depositor's share.
LEMMA CompoundedCovered ==
  ASSUME SPInv, NEW w, NEW M, CoveredBy(w, M), NEW u \in Users
  PROVE  getCompoundedTHUSDDeposit(u) * M <= w[u]
<1> USE BaseAssumption, PoolAssumption
<1>0. w[u] \in Nat /\ M \in Nat \ {0}
  BY DEF CoveredBy
<1>1. CASE getCompoundedTHUSDDeposit(u) = 0
  BY <1>0, <1>1
<1>2. CASE getCompoundedTHUSDDeposit(u) # 0
  <2> DEFINE snap == depositSnapshots[u]
             d    == deposits[u]
  <2>1. /\ d \in Nat \ {0}
        /\ snap.P \in Nat \ {0}
        /\ P \in Nat
        /\ snap.scale \in Nat /\ snap.epoch \in Nat
        /\ currentScale \in Nat /\ currentEpoch \in Nat
        /\ snap.epoch <= currentEpoch
        /\ Covers(w[u], M, d, snap)
    <3>1. deposits[u] # 0 /\ deposits[u] \in Nat
      BY <1>2 DEF getCompoundedTHUSDDeposit, SPInv, SPTypeOK
    <3>2. deposits[u] > 0
      BY <3>1
    <3>3. Covers(w[u], M, d, snap)
      BY <3>2 DEF CoveredBy
    <3>4. /\ snap.P \in Nat
          /\ P \in Nat
          /\ snap.scale \in Nat /\ snap.epoch \in Nat
          /\ currentScale \in Nat /\ currentEpoch \in Nat
          /\ BehindPool(snap)
      BY <3>2 DEF SPInv, SPTypeOK, SnapshotsBehindPool, Scales, Epochs
    <3>5. d \in Nat \ {0}
      BY <3>1
    <3> HIDE DEF snap, d
    <3> QED
      BY <3>3, <3>4, <3>5 DEF BehindPool
  <2>2. /\ ~(snap.epoch < currentEpoch)
        /\ getCompoundedTHUSDDeposit(u) = ScaledStake(d, snap)
        /\ ScaledStake(d, snap) # 0
    BY <1>2 DEF getCompoundedTHUSDDeposit, getCompoundedStakeFromSnapshots
  <2> HIDE DEF snap, d
  <2>3. snap.epoch = currentEpoch
    BY <2>1, <2>2
  <2>4. d * P \in Nat /\ (d * P) \div snap.P \in Nat
    BY <2>1, MulNat, DivNat
  <2>5. ((d * P) \div snap.P) * snap.P <= d * P
    BY <2>1, <2>4, DivBounds
  <2>6. CASE snap.scale = currentScale
    <3>1. ScaledStake(d, snap) = (d * P) \div snap.P
      BY <2>1, <2>6 DEF ScaledStake
    <3>2. (d * P) * M <= w[u] * snap.P
      BY <2>1, <2>3, <2>6 DEF Covers
    <3>3. ((d * P) \div snap.P) * M <= w[u]
      BY <1>0, <2>1, <2>4, <2>5, <3>2, QuotientCovered
    <3> QED
      BY <2>2, <3>1, <3>3
  <2>7. CASE snap.scale + 1 = currentScale
    <3> DEFINE q == ((d * P) \div snap.P) \div SCALE_FACTOR
               y == snap.P * SCALE_FACTOR
    <3>1. ScaledStake(d, snap) = q
      BY <2>1, <2>7 DEF ScaledStake
    <3>2. (d * P) * M <= w[u] * y
      BY <2>1, <2>3, <2>7 DEF Covers
    <3>3. q \in Nat /\ q * SCALE_FACTOR <= (d * P) \div snap.P
      BY <2>4, DivNat, DivBounds
    <3>4. y \in Nat \ {0}
      BY <2>1, MulNat
    <3> HIDE DEF q
    <3>5. q * y <= d * P
      <4>1. q * SCALE_FACTOR \in Nat
        BY <3>3, MulNat
      <4>2. (q * SCALE_FACTOR) * snap.P <= ((d * P) \div snap.P) * snap.P
        BY <2>1, <2>4, <3>3, <4>1, MulMono
      <4>3. q * y = (q * SCALE_FACTOR) * snap.P
        BY <2>1, <3>3
      <4>4. q * y \in Nat /\ ((d * P) \div snap.P) * snap.P \in Nat
        BY <2>1, <2>4, <3>3, <3>4, MulNat
      <4> QED
        BY <2>4, <2>5, <4>2, <4>3, <4>4
    <3> HIDE DEF y
    <3>6. q * M <= w[u]
      BY <1>0, <2>4, <3>2, <3>3, <3>4, <3>5, QuotientCovered
    <3> QED
      BY <2>2, <3>1, <3>6
  <2>8. CASE currentScale - snap.scale # 0 /\ currentScale - snap.scale # 1
    BY <2>2, <2>8 DEF ScaledStake
  <2> QED
    BY <2>1, <2>6, <2>7, <2>8
<1> QED
  BY <1>1, <1>2

\* Initially there is nothing to cover.
LEMMA InitCovered == Init => DepositsCovered
<1> SUFFICES ASSUME Init PROVE DepositsCovered
  OBVIOUS
<1> USE BaseAssumption, PoolAssumption, InputAssumption
<1> DEFINE w == [u \in Users |-> 0]
<1>1. w \in [1..NumUsers -> Int] /\ \A u \in 1..NumUsers : w[u] = w[u] * 0
  BY DEF Users
<1>2. \A u \in Users : ~(deposits[u] > 0)
  BY DEF Init, SPInit
<1>3. w \in [Users -> Nat]
  OBVIOUS
<1> HIDE DEF w
<1>4. SumOf(w, NumUsers) = 0
  <2>1. SumOf(w, NumUsers) = SumOf(w, NumUsers) * 0
    BY <1>1, SumScale
  <2>2. SumOf(w, NumUsers) \in Int
    BY <1>1, SumType
  <2> QED
    BY <2>1, <2>2
<1>5. Cover = MaxTHUSD
  BY DEF Cover, Init, SPInit
<1>6. CoveredBy(w, 1)
  BY <1>2, <1>3, <1>4, <1>5 DEF CoveredBy
<1> QED
  BY <1>6 DEF DepositsCovered, Init, SPInit

\* A depositor's call keeps the deposits covered: what is recorded differs
\* from the compounded deposit by what the pool's total changes by.
LEMMA RecordCovered ==
  ASSUME SPInv, DepositsCovered, NEW u \in Users, NEW newValue \in Nat,
         updateDepositAndSnapshots(u, newValue),
         totalTHUSDDeposits' \in Nat, totalTHUSDDeposits' <= MaxTHUSD,
         newValue - getCompoundedTHUSDDeposit(u)
           = totalTHUSDDeposits' - totalTHUSDDeposits,
         UNCHANGED <<P, currentScale, currentEpoch, epochToScaleToSum,
                     lastCollateralError_Offset, lastTHUSDLossError_Offset>>
  PROVE  DepositsCovered'
<1> USE BaseAssumption, PoolAssumption, InputAssumption
<1>1. PICK w, M : CoveredBy(w, M)
  BY DEF DepositsCovered
<1>2. /\ w \in [Users -> Nat]
      /\ M \in Nat \ {0}
      /\ SumOf(w, NumUsers) * DECIMAL_PRECISION <= M * Cover
  BY <1>1 DEF CoveredBy
<1>3. M * newValue \in Nat
  BY <1>2, MulNat
<1> DEFINE nw == [w EXCEPT ![u] = M * newValue]
<1>4. nw \in [Users -> Nat] /\ nw[u] = M * newValue
      /\ \A v \in Users : v # u => nw[v] = w[v]
  BY <1>2, <1>3
<1>5. ASSUME NEW v \in Users, deposits'[v] > 0
      PROVE  Covers(nw[v], M, deposits[v], depositSnapshots[v])'
  <2>1. CASE v = u
    <3>1. /\ deposits'[u] = newValue
          /\ depositSnapshots'[u].P = P
          /\ P' = P /\ P \in Nat
          /\ depositSnapshots'[u].scale = currentScale
          /\ currentScale' = currentScale /\ currentScale \in Nat
      BY <1>5, <2>1 DEF updateDepositAndSnapshots, SPInv, SPTypeOK, Scales
    <3>2. (newValue * P) * M = (M * newValue) * P
      BY <1>2, <3>1
    <3>3. (newValue * P) * M \in Nat
      BY <1>2, <3>1, MulNat
    <3> HIDE DEF nw
    <3> QED
      BY <1>4, <2>1, <3>1, <3>2, <3>3 DEF Covers
  <2>2. CASE v # u
    <3>1. /\ deposits'[v] = deposits[v]
          /\ depositSnapshots'[v] = depositSnapshots[v]
      BY <2>2 DEF updateDepositAndSnapshots, SPInv, SPTypeOK
    <3>2. Covers(w[v], M, deposits[v], depositSnapshots[v])
      BY <1>1, <1>5, <3>1 DEF CoveredBy
    <3>3. nw[v] = w[v]
      BY <1>4, <2>2
    <3> HIDE DEF nw
    <3> QED
      BY <3>1, <3>2, <3>3 DEF Covers
  <2> QED
    BY <2>1, <2>2
<1>6. SumOf(nw, NumUsers) * DECIMAL_PRECISION <= M * Cover'
  <2> DEFINE c     == getCompoundedTHUSDDeposit(u)
             sum   == SumOf(w, NumUsers)
             delta == totalTHUSDDeposits' - totalTHUSDDeposits
  <2>1. c * M <= w[u] /\ c \in Nat
    BY <1>1, CompoundedCovered, CompoundedBounds
  <2>2. /\ sum \in Int
        /\ SumOf(nw, NumUsers) = sum - w[u] + M * newValue
    <3>1. w \in [1..NumUsers -> Int] /\ u \in 1..NumUsers
      BY <1>2 DEF Users
    <3>2. M * newValue \in Int /\ NumUsers \in Nat
      BY <1>3
    <3>3. SumOf([w EXCEPT ![u] = M * newValue], NumUsers)
            = SumOf(w, NumUsers) - w[u] + M * newValue
      BY <3>1, <3>2, SumUpdate
    <3> QED
      BY <3>1, <3>2, <3>3, SumType
  <2>3. w[u] \in Nat /\ totalTHUSDDeposits \in Nat /\ Cover \in Int
        /\ delta \in Int
    BY <1>2 DEF SPInv, SPTypeOK, Cover
  <2>4. newValue = c + delta
    BY <2>1, <2>3
  <2>5. Cover' = Cover + delta * DECIMAL_PRECISION
    <3>1. totalTHUSDDeposits \in Nat /\ lastTHUSDLossError_Offset \in Nat
      BY DEF SPInv, SPTypeOK
    <3>2. delta * DECIMAL_PRECISION = totalTHUSDDeposits' * DECIMAL_PRECISION
                                        - totalTHUSDDeposits * DECIMAL_PRECISION
      BY <3>1
    <3> QED
      BY <3>1, <3>2 DEF Cover
  <2> HIDE DEF c, sum, delta, nw
  <2>6. M * newValue = M * c + M * delta
    BY <1>2, <2>1, <2>3, <2>4
  <2>7. SumOf(nw, NumUsers) <= sum + M * delta
    BY <1>2, <2>1, <2>2, <2>3, <2>6
  <2>8. SumOf(nw, NumUsers) * DECIMAL_PRECISION <= (sum + M * delta) * DECIMAL_PRECISION
    <3>1. SumOf(nw, NumUsers) \in Int /\ sum + M * delta \in Int
      BY <1>2, <1>3, <2>2, <2>3
    <3> QED
      BY <2>7, <3>1
  <2>9. (sum + M * delta) * DECIMAL_PRECISION
          = sum * DECIMAL_PRECISION + M * (delta * DECIMAL_PRECISION)
    BY <1>2, <2>2, <2>3
  <2>10. M * Cover' = M * Cover + M * (delta * DECIMAL_PRECISION)
    BY <1>2, <2>3, <2>5
  <2>11. sum * DECIMAL_PRECISION <= M * Cover
    BY <1>2 DEF sum
  <2> QED
    <3>1. /\ SumOf(nw, NumUsers) * DECIMAL_PRECISION \in Int
          /\ sum * DECIMAL_PRECISION \in Int /\ M * Cover \in Int
          /\ M * (delta * DECIMAL_PRECISION) \in Int
      BY <1>2, <1>3, <2>2, <2>3
    <3> QED
      BY <2>8, <2>9, <2>10, <2>11, <3>1
<1> HIDE DEF nw
<1>7. CoveredBy(nw, M)'
  BY <1>2, <1>4, <1>5, <1>6 DEF CoveredBy
<1> QED
  BY <1>7 DEF DepositsCovered

\* P takes no more than the product factor leaves of it.
LEMMA NewPCut ==
  ASSUME P \in Nat, currentScale \in Nat, NEW f \in Nat, f # 0
  PROVE  /\ NewScale(f) = currentScale => NewP(f) * DECIMAL_PRECISION <= P * f
         /\ NewScale(f) = currentScale + 1
              => NewP(f) * DECIMAL_PRECISION <= (P * f) * SCALE_FACTOR
<1> USE BaseAssumption, PoolAssumption
<1>1. P * f \in Nat /\ (P * f) * SCALE_FACTOR \in Nat
  BY MulNat
<1>2. /\ ((P * f) \div DECIMAL_PRECISION) * DECIMAL_PRECISION <= P * f
      /\ (((P * f) * SCALE_FACTOR) \div DECIMAL_PRECISION) * DECIMAL_PRECISION
           <= (P * f) * SCALE_FACTOR
  BY <1>1, DivBounds
<1>3. CASE (P * f) \div DECIMAL_PRECISION < SCALE_FACTOR
  <2>1. NewP(f) = ((P * f) * SCALE_FACTOR) \div DECIMAL_PRECISION
        /\ NewScale(f) = currentScale + 1
    BY <1>3 DEF NewP, NewScale
  <2> QED
    BY <1>2, <2>1
<1>4. CASE ~((P * f) \div DECIMAL_PRECISION < SCALE_FACTOR)
  <2>1. NewP(f) = (P * f) \div DECIMAL_PRECISION /\ NewScale(f) = currentScale
    BY <1>4 DEF NewP, NewScale
  <2> QED
    BY <1>2, <2>1
<1> QED
  BY <1>3, <1>4

\* A share that is cut by f / dp covers a product that is cut by as much,
\* sf being the factor of a scale change, or 1.
LEMMA CutCovered ==
  ASSUME NEW d \in Nat, NEW p \in Nat, NEW np \in Nat, NEW f \in Nat,
         NEW dp \in Nat \ {0}, NEW sf \in Nat \ {0}, NEW M \in Nat, NEW w \in Nat,
         NEW sp \in Nat, np * dp <= (p * f) * sf, (d * p) * M <= w * sp
  PROVE  (d * np) * (M * dp) <= (w * f) * (sp * sf)
<1>1. /\ d * M \in Nat /\ np * dp \in Nat /\ p * f \in Nat /\ f * sf \in Nat
      /\ d * p \in Nat /\ w * sp \in Nat
  BY MulNat
<1>2. (p * f) * sf \in Nat /\ (d * p) * M \in Nat
  BY <1>1, MulNat
<1>3. (np * dp) * (d * M) <= ((p * f) * sf) * (d * M)
  BY <1>1, <1>2, MulMono
<1>4. ((d * p) * M) * (f * sf) <= (w * sp) * (f * sf)
  BY <1>1, <1>2, MulMono
<1>5. /\ (d * np) * (M * dp) = (np * dp) * (d * M)
      /\ ((p * f) * sf) * (d * M) = ((d * p) * M) * (f * sf)
      /\ (w * sp) * (f * sf) = (w * f) * (sp * sf)
  OBVIOUS
<1>6. /\ (np * dp) * (d * M) \in Nat /\ ((p * f) * sf) * (d * M) \in Nat
      /\ (w * sp) * (f * sf) \in Nat
  BY <1>1, <1>2, MulNat
<1> QED
  BY <1>3, <1>4, <1>5, <1>6

\* What an offset leaves of the bound is at least what it leaves of a share:
\* the loss per unit L, of a total T, carries the error err' = L * T - num over.
LEMMA CoverCut ==
  ASSUME NEW T \in Nat, NEW err \in Nat, NEW max \in Nat, err <= max,
         NEW dp \in Nat, NEW L \in Nat, L <= dp,
         NEW debt \in Nat, NEW nerr \in Int, nerr = L * T - (debt * dp - err)
  PROVE  (dp - L) * ((T * dp - err) + max)
           <= dp * (((T - debt) * dp - nerr) + max)
<1>1. dp * (((T - debt) * dp - nerr) + max)
        = dp * (((T * dp - err) + max) - L * T)
  <2>1. ((T - debt) * dp - nerr) + max = ((T * dp - err) + max) - L * T
    OBVIOUS
  <2> QED
    BY <2>1
<1> DEFINE c == (T * dp - err) + max
<1>2. c = T * dp + (max - err) /\ max - err \in Nat /\ T * dp \in Nat
  BY MulNat
<1>3. L * (max - err) \in Nat
  BY <1>2, MulNat
<1>4. dp * (c - L * T) - (dp - L) * c = L * (c - dp * T)
  OBVIOUS
<1>5. L * (c - dp * T) = L * (max - err)
  BY <1>2
<1>6. dp * (c - L * T) \in Int /\ (dp - L) * c \in Int
  OBVIOUS
<1> QED
  BY <1>1, <1>3, <1>4, <1>5, <1>6

\* The error of an offset is at most the pool's total.
LEMMA ErrorBound ==
  ASSUME NEW num \in Nat, NEW T \in Nat \ {0}
  PROVE  (num \div T + 1) * T - num <= T
<1>1. num \div T \in Nat /\ (num \div T) * T <= num
  BY DivNat, DivBounds
<1>2. (num \div T + 1) * T = (num \div T) * T + T
  BY <1>1
<1>3. (num \div T) * T \in Nat
  BY <1>1, MulNat
<1> QED
  BY <1>1, <1>2, <1>3

\* An offset keeps the deposits covered.
LEMMA OffsetCovered ==
  ASSUME SPInv, SPInv', DepositsCovered, NEW debt \in Nat, NEW coll \in Nat,
         offset(debt, coll)
  PROVE  DepositsCovered'
<1> USE BaseAssumption, PoolAssumption, InputAssumption
<1>1. CASE UNCHANGED spVars
  BY <1>1 DEF DepositsCovered, CoveredBy, Covers, Cover, spVars
<1>2. CASE /\ totalTHUSDDeposits > 0
           /\ computeRewardsPerUnitStaked(coll, debt)
           /\ updateRewardSumAndProduct(CollateralGainPerUnitStaked(coll),
                                        THUSDLossPerUnitStaked(debt))
           /\ totalTHUSDDeposits' = totalTHUSDDeposits - debt
           /\ UNCHANGED <<deposits, depositSnapshots>>
  <2> DEFINE L    == THUSDLossPerUnitStaked(debt)
             f    == DECIMAL_PRECISION - L
             T    == totalTHUSDDeposits
             err  == lastTHUSDLossError_Offset
             num  == THUSDLossNumerator(debt)
  <2>1. L \in Nat
    BY <1>2, RewardsTyped
  <2>2. /\ L <= DECIMAL_PRECISION
        /\ P' = NewP(f)
        /\ currentScale' = NewScale(f)
        /\ currentEpoch' = NewEpoch(f)
    BY <1>2 DEF updateRewardSumAndProduct
  <2>3. /\ T \in Nat \ {0} /\ err \in Nat /\ P \in Nat /\ P' \in Nat
        /\ currentScale \in Nat /\ currentEpoch \in Nat
        /\ T <= MaxTHUSD /\ err <= MaxTHUSD
        /\ T' \in Nat
    BY <1>2 DEF SPInv, SPTypeOK, Scales, Epochs, DepositsCovered
  <2>4. debt # T => /\ num = debt * DECIMAL_PRECISION - err
                    /\ num \in Nat
                    /\ L = num \div T + 1
                    /\ err' = L * T - num
    <3>1. debt # T => err <= debt * DECIMAL_PRECISION
      BY <1>2 DEF computeRewardsPerUnitStaked
    <3>2. debt * DECIMAL_PRECISION \in Nat
      BY MulNat
    <3>3. /\ num = debt * DECIMAL_PRECISION - err
          /\ debt # T => L = num \div T + 1
      BY DEF THUSDLossNumerator, THUSDLossPerUnitStaked
    <3>4. debt # T => err' = L * T - num
      BY <1>2 DEF computeRewardsPerUnitStaked, THUSDLossError
    <3> QED
      BY <2>3, <3>1, <3>2, <3>3, <3>4
  <2>5. debt = T => L = DECIMAL_PRECISION /\ err' = 0 /\ T' = 0
    BY <1>2, <2>3 DEF computeRewardsPerUnitStaked, THUSDLossError,
                      THUSDLossPerUnitStaked
  <2>6. /\ f \in Nat
        /\ NewScale(f) \in Nat
        /\ f = 0 => NewEpoch(f) = currentEpoch + 1
        /\ f # 0 => /\ NewEpoch(f) = currentEpoch
                    /\ \/ NewScale(f) = currentScale
                       \/ NewScale(f) = currentScale + 1
    BY <2>1, <2>2, <2>3 DEF NewScale, NewEpoch
  <2>7. T' = T - debt
    BY <1>2
  <2> HIDE DEF L, num
  <2>8. err' \in Nat /\ err' <= MaxTHUSD
    <3>1. err' \in Nat
      BY DEF SPInv, SPTypeOK
    <3>2. CASE debt # T
      <4>1. (num \div T + 1) * T - num <= T
        BY <2>3, <2>4, <3>2, ErrorBound
      <4>2. err' <= T
        BY <2>4, <3>2, <4>1
      <4> QED
        BY <2>3, <3>1, <4>2
    <3> QED
      BY <2>5, <3>1, <3>2
  <2>9. f * Cover <= DECIMAL_PRECISION * Cover'
    <3>1. CASE debt = T
      <4>1. f = 0 /\ Cover' = MaxTHUSD
        BY <2>5, <2>3, <3>1 DEF Cover
      <4>2. Cover \in Int
        BY <2>3 DEF Cover
      <4>3. DECIMAL_PRECISION * MaxTHUSD \in Nat
        BY MulNat
      <4> QED
        BY <4>1, <4>2, <4>3
    <3>2. CASE debt # T
      <4>1. err' = L * T - (debt * DECIMAL_PRECISION - err)
        BY <2>4, <3>2
      <4>2. err' \in Int
        BY <2>8
      <4>3. (DECIMAL_PRECISION - L) * ((T * DECIMAL_PRECISION - err) + MaxTHUSD)
              <= DECIMAL_PRECISION
                   * (((T - debt) * DECIMAL_PRECISION - err') + MaxTHUSD)
        <5> DEFINE nerr == err'
        <5>1. nerr = L * T - (debt * DECIMAL_PRECISION - err) /\ nerr \in Int
          BY <4>1, <4>2
        <5> HIDE DEF nerr
        <5>2. (DECIMAL_PRECISION - L) * ((T * DECIMAL_PRECISION - err) + MaxTHUSD)
                <= DECIMAL_PRECISION
                     * (((T - debt) * DECIMAL_PRECISION - nerr) + MaxTHUSD)
          BY <2>1, <2>2, <2>3, <5>1, CoverCut
        <5> QED
          BY <5>2 DEF nerr
      <4> QED
        BY <2>7, <4>3 DEF Cover
    <3> QED
      BY <3>1, <3>2
  <2> HIDE DEF f
  <2>10. PICK w, M : CoveredBy(w, M)
    BY DEF DepositsCovered
  <2>11. /\ w \in [Users -> Nat]
         /\ M \in Nat \ {0}
         /\ SumOf(w, NumUsers) * DECIMAL_PRECISION <= M * Cover
    BY <2>10 DEF CoveredBy
  <2> DEFINE nM == M * DECIMAL_PRECISION
  <2>12. PICK nw \in [Users -> Nat] : \A u \in Users : nw[u] = w[u] * f
    <3>1. [u \in Users |-> w[u] * f] \in [Users -> Nat]
      BY <2>6, <2>11, MulNat
    <3> QED
      BY <3>1
  <2>13. nM \in Nat \ {0}
    BY <2>11, MulNat
  <2>14. ASSUME NEW u \in Users, deposits'[u] > 0
         PROVE  Covers(nw[u], nM, deposits[u], depositSnapshots[u])'
    <3> DEFINE snap == depositSnapshots[u]
               d    == deposits[u]
    <3>1. snap' = snap /\ d' = d
      BY <1>2
    <3>2. /\ snap.P \in Nat /\ snap.scale \in Nat /\ snap.epoch \in Nat
          /\ d \in Nat /\ w[u] \in Nat
      BY <2>11 DEF SPInv, SPTypeOK, Scales, Epochs
    <3>3. BehindPool(snap) /\ Covers(w[u], M, d, snap)
      BY <2>10, <2>14, <3>1 DEF SPInv, SnapshotsBehindPool, CoveredBy
    <3>4. nw[u] = w[u] * f
      BY <2>12
    <3> HIDE DEF snap, d
    <3>5. CASE f = 0
      BY <2>2, <2>3, <2>6, <3>1, <3>2, <3>3, <3>5 DEF BehindPool, Covers, snap, d
    <3>6. CASE f # 0 /\ NewScale(f) = currentScale
      <4>1. /\ P' * DECIMAL_PRECISION <= (P * f) * 1
            /\ currentScale' = currentScale /\ currentEpoch' = currentEpoch
        <5>1. P' * DECIMAL_PRECISION <= P * f
          BY <2>2, <2>3, <2>6, <3>6, NewPCut
        <5>2. P * f = (P * f) * 1
          BY <2>3, <2>6
        <5> QED
          BY <2>2, <2>6, <3>6, <5>1, <5>2
      <4>2. ASSUME NEW y \in Nat, (d * P) * M <= w[u] * y
            PROVE  (d * P') * nM <= (w[u] * f) * y
        <5> DEFINE np == P'
        <5>1. np * DECIMAL_PRECISION <= (P * f) * 1 /\ np \in Nat
          BY <2>3, <4>1
        <5> HIDE DEF np
        <5>2. (d * np) * (M * DECIMAL_PRECISION) <= (w[u] * f) * (y * 1)
          <6>1. 1 \in Nat \ {0}
            OBVIOUS
          <6> QED
            BY <2>3, <2>6, <2>11, <3>2, <4>2, <5>1, <6>1, CutCovered, Zenon
        <5>3. y * 1 = y
          OBVIOUS
        <5> QED
          BY <5>2, <5>3 DEF np
      <4>3. snap.P * SCALE_FACTOR \in Nat
        BY <3>2, MulNat
      <4> HIDE DEF nM
      <4> QED
        BY <3>1, <3>2, <3>3, <3>4, <4>1, <4>2, <4>3 DEF Covers, snap, d
    <3>7. CASE f # 0 /\ NewScale(f) = currentScale + 1
      <4>1. /\ P' * DECIMAL_PRECISION <= (P * f) * SCALE_FACTOR
            /\ currentScale' = currentScale + 1 /\ currentEpoch' = currentEpoch
        BY <2>2, <2>3, <2>6, <3>7, NewPCut
      <4>2. ASSUME (d * P) * M <= w[u] * snap.P
            PROVE  (d * P') * nM <= (w[u] * f) * (snap.P * SCALE_FACTOR)
        <5> DEFINE np == P'
        <5>1. np * DECIMAL_PRECISION <= (P * f) * SCALE_FACTOR /\ np \in Nat
          BY <2>3, <4>1
        <5> HIDE DEF np
        <5>2. (d * np) * (M * DECIMAL_PRECISION) <= (w[u] * f) * (snap.P * SCALE_FACTOR)
          BY <2>3, <2>6, <2>11, <3>2, <4>2, <5>1, CutCovered
        <5> QED
          BY <5>2 DEF np
      <4>3. /\ snap.epoch = currentEpoch => snap.scale <= currentScale
            /\ snap.epoch = currentEpoch /\ snap.scale = currentScale
                 => (d * P) * M <= w[u] * snap.P
        BY <3>3 DEF BehindPool, Covers
      <4> HIDE DEF nM
      <4> QED
        <5>1. /\ snap.epoch = currentEpoch' => snap.scale # currentScale'
              /\ snap.epoch = currentEpoch' /\ snap.scale + 1 = currentScale'
                   => (d * P') * nM <= nw[u] * (snap.P * SCALE_FACTOR)
          <6>1. currentScale' = currentScale + 1 /\ currentEpoch' = currentEpoch
            BY <4>1
          <6>2. snap.epoch = currentEpoch => snap.scale <= currentScale
            BY <4>3
          <6>3. snap.epoch = currentEpoch' => snap.scale # currentScale'
            BY <2>3, <3>2, <6>1, <6>2
          <6>4. snap.scale + 1 = currentScale' => snap.scale = currentScale
            BY <2>3, <3>2, <6>1
          <6> QED
            BY <3>4, <4>2, <4>3, <6>1, <6>3, <6>4, Zenon
        <5> QED
          BY <3>1, <5>1 DEF Covers, snap, d
    <3> QED
      BY <2>6, <3>5, <3>6, <3>7
  <2>15. SumOf(nw, NumUsers) * DECIMAL_PRECISION <= nM * Cover'
    <3> DEFINE sum == SumOf(w, NumUsers)
               nc  == Cover'
    <3>1. SumOf(nw, NumUsers) = sum * f /\ sum \in Nat
      <4>1. /\ w \in [1..NumUsers -> Int] /\ nw \in [1..NumUsers -> Int]
            /\ \A u \in 1..NumUsers : nw[u] = w[u] * f
            /\ \A u \in 1..NumUsers : w[u] \in Nat
        BY <2>11, <2>12 DEF Users
      <4>2. f \in Int /\ NumUsers \in Nat
        BY <2>6
      <4>3. SumOf(nw, NumUsers) = sum * f
        BY <4>1, <4>2, SumScale
      <4> QED
        BY <4>1, <4>2, <4>3, SumType
    <3>2. sum * DECIMAL_PRECISION <= M * Cover /\ f * Cover <= DECIMAL_PRECISION * nc
      BY <2>9, <2>11
    <3>3. Cover \in Nat /\ nc \in Nat
      <4>1. T * DECIMAL_PRECISION \in Nat /\ T' * DECIMAL_PRECISION \in Nat
        BY <2>3, MulNat
      <4>2. /\ Cover = (T * DECIMAL_PRECISION - err) + MaxTHUSD
            /\ nc = (T' * DECIMAL_PRECISION - err') + MaxTHUSD
        BY DEF Cover
      <4>3. \A a, e \in Nat : e <= MaxTHUSD => (a - e) + MaxTHUSD \in Nat
        OBVIOUS
      <4> HIDE DEF nc, T, err
      <4> QED
        BY <2>3, <2>8, <4>1, <4>2, <4>3, Zenon
    <3> HIDE DEF sum, nc
    <3>4. /\ sum * DECIMAL_PRECISION \in Nat /\ M * Cover \in Nat
          /\ f * Cover \in Nat /\ DECIMAL_PRECISION * nc \in Nat
      BY <2>6, <2>11, <3>1, <3>3, MulNat
    <3>5. (sum * DECIMAL_PRECISION) * f <= (M * Cover) * f
      BY <2>6, <3>2, <3>4, MulMono
    <3>6. (f * Cover) * M <= (DECIMAL_PRECISION * nc) * M
      BY <2>11, <3>2, <3>4, MulMono
    <3>7. /\ (sum * f) * DECIMAL_PRECISION = (sum * DECIMAL_PRECISION) * f
          /\ (M * Cover) * f = (f * Cover) * M
          /\ (DECIMAL_PRECISION * nc) * M = (M * DECIMAL_PRECISION) * nc
      BY <2>6, <2>11, <3>1, <3>3
    <3>8. /\ (sum * DECIMAL_PRECISION) * f \in Nat /\ (M * Cover) * f \in Nat
          /\ (DECIMAL_PRECISION * nc) * M \in Nat
      BY <2>6, <2>11, <3>4, MulNat
    <3>9. (sum * f) * DECIMAL_PRECISION <= (M * DECIMAL_PRECISION) * nc
      BY <3>5, <3>6, <3>7, <3>8
    <3> QED
      BY <3>1, <3>9 DEF nc
  <2> HIDE DEF nM
  <2>16. CoveredBy(nw, nM)'
    BY <2>12, <2>13, <2>14, <2>15 DEF CoveredBy
  <2>17. T' <= MaxTHUSD
    BY <2>3, <2>7
  <2> QED
    BY <2>8, <2>16, <2>17 DEF DepositsCovered
<1> QED
  BY <1>1, <1>2 DEF offset

\* Every step keeps the deposits covered.
LEMMA NextCovered == SPInv /\ DepositsCovered /\ [Next]_vars => DepositsCovered'
<1> SUFFICES ASSUME SPInv, DepositsCovered, [Next]_vars
             PROVE  DepositsCovered'
  OBVIOUS
<1> USE BaseAssumption, PoolAssumption, InputAssumption
<1>0. totalTHUSDDeposits \in Nat /\ totalTHUSDDeposits <= MaxTHUSD
  BY DEF SPInv, SPTypeOK, DepositsCovered
<1>1. ASSUME NEW u \in Users, NEW amount \in Amounts, Provide(u, amount)
      PROVE  DepositsCovered'
  <2>1. /\ getCompoundedTHUSDDeposit(u) \in Nat /\ amount \in Nat
        /\ totalTHUSDDeposits' = totalTHUSDDeposits + amount
        /\ totalTHUSDDeposits' <= MaxTHUSD
    BY <1>1, CompoundedBounds DEF Provide, provideToSP
  <2>2. /\ getCompoundedTHUSDDeposit(u) + amount \in Nat
        /\ (getCompoundedTHUSDDeposit(u) + amount) - getCompoundedTHUSDDeposit(u)
             = totalTHUSDDeposits' - totalTHUSDDeposits
        /\ totalTHUSDDeposits' \in Nat
    BY <1>0, <2>1
  <2> QED
    BY <1>1, <2>1, <2>2, RecordCovered DEF Provide, provideToSP
<1>2. ASSUME NEW u \in Users, NEW amount \in Amounts, Withdraw(u, amount)
      PROVE  DepositsCovered'
  <2>1. /\ getCompoundedTHUSDDeposit(u) \in Nat
        /\ Withdrawable(u, amount) \in Nat
        /\ Withdrawable(u, amount) <= getCompoundedTHUSDDeposit(u)
    BY CompoundedBounds DEF Withdrawable, MinOf
  <2>2. PICK lowestICR \in {MCR - 1, MCR} : withdrawFromSP(u, amount, lowestICR)
    BY <1>2 DEF Withdraw
  <2>3. /\ totalTHUSDDeposits' = totalTHUSDDeposits - Withdrawable(u, amount)
        /\ Withdrawable(u, amount) <= totalTHUSDDeposits
    BY <2>2 DEF withdrawFromSP
  <2>4. /\ getCompoundedTHUSDDeposit(u) - Withdrawable(u, amount) \in Nat
        /\ (getCompoundedTHUSDDeposit(u) - Withdrawable(u, amount))
             - getCompoundedTHUSDDeposit(u)
             = totalTHUSDDeposits' - totalTHUSDDeposits
        /\ totalTHUSDDeposits' \in Nat /\ totalTHUSDDeposits' <= MaxTHUSD
    BY <1>0, <2>1, <2>3
  <2> QED
    BY <2>2, <2>4, RecordCovered DEF withdrawFromSP
<1>3. ASSUME NEW u \in Users, GainToTrove(u)
      PROVE  DepositsCovered'
  <2>1. getCompoundedTHUSDDeposit(u) \in Nat
    BY CompoundedBounds
  <2>2. PICK hasTrove \in BOOLEAN : withdrawCollateralGainToTrove(u, hasTrove)
    BY <1>3 DEF GainToTrove
  <2>3. totalTHUSDDeposits' = totalTHUSDDeposits
    BY <2>2 DEF withdrawCollateralGainToTrove
  <2>4. getCompoundedTHUSDDeposit(u) - getCompoundedTHUSDDeposit(u)
          = totalTHUSDDeposits' - totalTHUSDDeposits
    BY <1>0, <2>1, <2>3
  <2> QED
    BY <1>0, <2>1, <2>2, <2>3, <2>4, RecordCovered
       DEF withdrawCollateralGainToTrove
<1>4. ASSUME NEW o \in Offsets, Offset(o[1], o[2])
      PROVE  DepositsCovered'
  <2>1. o[1] \in Nat /\ o[2] \in Nat
    OBVIOUS
  <2>2. SPInv'
    BY NextSPInv
  <2> QED
    BY <1>4, <2>1, <2>2, OffsetCovered DEF Offset
<1>5. CASE UNCHANGED vars
  BY <1>5 DEF DepositsCovered, CoveredBy, Covers, Cover, vars, spVars
<1> QED
  BY <1>1, <1>2, <1>3, <1>4, <1>5 DEF Next

\* Covered deposits exceed what the pool holds by at most the bound.
LEMMA CoveredBounded == SPInv /\ DepositsCovered => ShortfallBounded
<1> SUFFICES ASSUME SPInv, DepositsCovered PROVE ShortfallBounded
  OBVIOUS
<1> USE BaseAssumption, PoolAssumption, InputAssumption
<1>1. PICK w, M : CoveredBy(w, M)
  BY DEF DepositsCovered
<1>2. /\ w \in [1..NumUsers -> Nat]
      /\ M \in Nat \ {0}
      /\ SumOf(w, NumUsers) * DECIMAL_PRECISION <= M * Cover
  BY <1>1 DEF CoveredBy, Users
<1> DEFINE c   == Compounded
           cM  == [u \in 1..NumUsers |-> c[u] * M]
           sum == SumOf(c, NumUsers)
<1>3. c \in [1..NumUsers -> Nat]
  BY CompoundedBounds DEF Compounded, Users
<1>4. \A u \in 1..NumUsers : c[u] * M <= w[u]
  BY <1>1, CompoundedCovered DEF Compounded, Users
<1> HIDE DEF c
<1>5. cM \in [1..NumUsers -> Nat] /\ \A u \in 1..NumUsers : cM[u] = c[u] * M
  BY <1>2, <1>3, MulNat
<1> HIDE DEF cM
<1>6. sum \in Nat /\ SumOf(w, NumUsers) \in Nat
  <2>1. /\ c \in [1..NumUsers -> Int] /\ w \in [1..NumUsers -> Int]
        /\ \A u \in 1..NumUsers : c[u] \in Nat /\ w[u] \in Nat
    BY <1>2, <1>3
  <2> QED
    BY <2>1, SumType
<1>7. sum * M <= SumOf(w, NumUsers)
  <2>1. /\ c \in [1..NumUsers -> Int] /\ w \in [1..NumUsers -> Int]
        /\ cM \in [1..NumUsers -> Int] /\ NumUsers \in Nat /\ M \in Int
    BY <1>2, <1>3, <1>5
  <2>2. SumOf(cM, NumUsers) = sum * M
    BY <1>5, <2>1, SumScale
  <2>3. \A u \in 1..NumUsers : cM[u] <= w[u]
    BY <1>4, <1>5
  <2>4. SumOf(cM, NumUsers) <= SumOf(w, NumUsers)
    BY <2>1, <2>3, SumMono
  <2> QED
    BY <2>2, <2>4
<1>8. Cover \in Nat /\ Cover <= totalTHUSDDeposits * DECIMAL_PRECISION + MaxTHUSD
  <2>1. totalTHUSDDeposits * DECIMAL_PRECISION \in Nat
    BY MulNat DEF SPInv, SPTypeOK
  <2>2. /\ lastTHUSDLossError_Offset \in Nat
        /\ lastTHUSDLossError_Offset <= MaxTHUSD
    BY DEF SPInv, SPTypeOK, DepositsCovered
  <2>3. \A a, e \in Nat : e <= MaxTHUSD => /\ (a - e) + MaxTHUSD \in Nat
                                          /\ (a - e) + MaxTHUSD <= a + MaxTHUSD
    OBVIOUS
  <2> QED
    BY <2>1, <2>2, <2>3, Zenon DEF Cover
<1> HIDE DEF sum
<1>9. sum * DECIMAL_PRECISION <= Cover
  <2>1. sum * M \in Nat /\ sum * DECIMAL_PRECISION \in Nat
    BY <1>2, <1>6, MulNat
  <2>2. (sum * M) * DECIMAL_PRECISION <= SumOf(w, NumUsers) * DECIMAL_PRECISION
    BY <1>6, <1>7, <2>1, MulMono
  <2>3. (sum * DECIMAL_PRECISION) * M = (sum * M) * DECIMAL_PRECISION
        /\ M * Cover = Cover * M
    BY <1>2, <1>6, <1>8
  <2>4. /\ (sum * M) * DECIMAL_PRECISION \in Nat /\ M * Cover \in Nat
        /\ SumOf(w, NumUsers) * DECIMAL_PRECISION \in Nat
    BY <1>2, <1>6, <1>8, <2>1, MulNat
  <2>5. (sum * DECIMAL_PRECISION) * M <= Cover * M
    BY <1>2, <2>2, <2>3, <2>4
  <2> QED
    BY <1>2, <1>8, <2>1, <2>5, MulCancel
<1>10. sum * DECIMAL_PRECISION <= totalTHUSDDeposits * DECIMAL_PRECISION + MaxTHUSD
  <2>1. sum * DECIMAL_PRECISION \in Nat /\ totalTHUSDDeposits * DECIMAL_PRECISION \in Nat
    BY <1>6, MulNat DEF SPInv, SPTypeOK
  <2> QED
    BY <1>8, <1>9, <2>1
<1> QED
  BY <1>10 DEF ShortfallBounded, sum, c

-----------------------------------------------------------------------------
(* What a deposit earns. *)

\* A larger dividend has a quotient that is not smaller.
LEMMA DivMono ==
  ASSUME NEW a \in Nat, NEW b \in Nat, NEW c \in Nat \ {0}, a <= b
  PROVE  a \div c <= b \div c
<1>1. /\ a \div c \in Nat /\ b \div c \in Nat
      /\ (a \div c) * c <= a /\ b < (b \div c) * c + c
  BY DivNat, DivBounds
<1>2. ((b \div c) + 1) * c = (b \div c) * c + c
  BY <1>1
<1>3. (a \div c) * c \in Nat /\ (b \div c) * c \in Nat
  BY <1>1, MulNat
<1>4. (a \div c) * c < ((b \div c) + 1) * c
  BY <1>1, <1>2, <1>3
<1> SUFFICES ASSUME (b \div c) + 1 <= a \div c PROVE FALSE
  BY <1>1
<1>5. ((b \div c) + 1) * c <= (a \div c) * c
  BY <1>1, MulMono
<1> QED
  BY <1>1, <1>2, <1>3, <1>4, <1>5

\* A scale change in between does not raise a stake: P grows by at most sf
\* and the stake is divided by it.
LEMMA ScaledMono ==
  ASSUME NEW d \in Nat, NEW p \in Nat, NEW np \in Nat, NEW sp \in Nat \ {0},
         NEW sf \in Nat \ {0}, np <= p * sf
  PROVE  ((d * np) \div sp) \div sf <= (d * p) \div sp
<1> DEFINE q == (d * p) \div sp
<1>1. d * p \in Nat /\ d * np \in Nat /\ p * sf \in Nat
  BY MulNat
<1>2. q \in Nat /\ d * p < q * sp + sp
  BY <1>1, DivNat, DivBounds
<1> HIDE DEF q
<1>3. q * sp + sp = (q + 1) * sp
  BY <1>2
<1>4. d * np <= (d * p) * sf
  <2>1. np * d <= (p * sf) * d
    BY <1>1, MulMono
  <2>2. np * d = d * np /\ (p * sf) * d = (d * p) * sf
    OBVIOUS
  <2> QED
    BY <2>1, <2>2
<1>5. d * np < ((q + 1) * sf) * sp
  <2>1. d * p <= (q + 1) * sp - 1 /\ (q + 1) * sp - 1 \in Nat
    BY <1>1, <1>2, <1>3
  <2>2. (d * p) * sf <= ((q + 1) * sp - 1) * sf
    BY <1>1, <2>1, MulMono
  <2>3. ((q + 1) * sp - 1) * sf = ((q + 1) * sf) * sp - sf
    BY <1>2
  <2>4. ((q + 1) * sf) * sp \in Nat /\ (d * p) * sf \in Nat
    BY <1>1, <1>2, MulNat
  <2> QED
    BY <1>1, <1>4, <2>2, <2>3, <2>4
<1>6. (d * np) \div sp < (q + 1) * sf
  <2> DEFINE r == (d * np) \div sp
  <2>1. r \in Nat /\ r * sp <= d * np
    BY <1>1, DivNat, DivBounds
  <2> HIDE DEF r
  <2>2. (q + 1) * sf \in Nat /\ r * sp \in Nat /\ ((q + 1) * sf) * sp \in Nat
    BY <1>2, <2>1, MulNat
  <2> SUFFICES ASSUME (q + 1) * sf <= r PROVE FALSE
    BY <2>1, <2>2 DEF r
  <2>3. ((q + 1) * sf) * sp <= r * sp
    BY <2>1, <2>2, MulMono
  <2> QED
    BY <1>1, <1>5, <2>1, <2>2, <2>3
<1>7. (d * np) \div sp \in Nat
  BY <1>1, DivNat
<1> DEFINE r == (d * np) \div sp
<1>8. r \in Nat /\ r < (q + 1) * sf
  BY <1>6, <1>7
<1> HIDE DEF r
<1>9. r \div sf \in Nat /\ (r \div sf) * sf <= r
  BY <1>8, DivNat, DivBounds
<1>10. r \div sf < q + 1
  <2> SUFFICES ASSUME q + 1 <= r \div sf PROVE FALSE
    BY <1>2, <1>9
  <2>1. (q + 1) * sf <= (r \div sf) * sf
    BY <1>2, <1>9, MulMono
  <2>2. (q + 1) * sf \in Nat /\ (r \div sf) * sf \in Nat
    BY <1>2, <1>9, MulNat
  <2> QED
    BY <1>8, <1>9, <2>1, <2>2
<1> QED
  BY <1>2, <1>9, <1>10 DEF q, r

\* What the pool has not reached holds nothing, initially and after every step.
LEMMA NextFutureSums ==
  ASSUME SPInv, FutureSumsZero, [Next]_vars
  PROVE  FutureSumsZero'
<1> USE BaseAssumption, PoolAssumption, InputAssumption
<1>1. CASE UNCHANGED <<currentEpoch, currentScale, epochToScaleToSum>>
  BY <1>1 DEF FutureSumsZero
<1>2. ASSUME NEW debt \in Nat, NEW coll \in Nat,
             totalTHUSDDeposits > 0,
             computeRewardsPerUnitStaked(coll, debt),
             updateRewardSumAndProduct(CollateralGainPerUnitStaked(coll),
                                       THUSDLossPerUnitStaked(debt))
      PROVE  FutureSumsZero'
  <2> DEFINE f == DECIMAL_PRECISION - THUSDLossPerUnitStaked(debt)
             x == CollateralGainPerUnitStaked(coll) * P
  <2>1. THUSDLossPerUnitStaked(debt) \in Nat
    BY <1>2, RewardsTyped
  <2>2. /\ currentScale' = NewScale(f)
        /\ currentEpoch' = NewEpoch(f)
        /\ epochToScaleToSum' =
             [epochToScaleToSum EXCEPT ![<<currentEpoch, currentScale>>] = @ + x]
    BY <1>2 DEF updateRewardSumAndProduct
  <2>3. /\ currentScale \in Nat /\ currentEpoch \in Nat
        /\ epochToScaleToSum \in [Epochs \X (0..MaxScale + 1) -> Nat]
    BY DEF SPInv, SPTypeOK, Scales, Epochs
  <2>4. f \in Int
    BY <2>1
  <2> HIDE DEF f, x
  <2>5. /\ f = 0 => currentEpoch' = currentEpoch + 1
        /\ f # 0 => /\ currentEpoch' = currentEpoch
                    /\ \/ currentScale' = currentScale
                       \/ currentScale' = currentScale + 1
    BY <2>2, <2>3, <2>4 DEF NewScale, NewEpoch
  <2> SUFFICES ASSUME NEW e \in Epochs, NEW s \in 0..MaxScale + 1,
                      e > currentEpoch' \/ (e = currentEpoch' /\ s > currentScale')
               PROVE  epochToScaleToSum'[<<e, s>>] = 0
    BY DEF FutureSumsZero
  <2>6. e \in Nat /\ s \in Nat
    BY DEF Epochs
  <2>7. e > currentEpoch \/ (e = currentEpoch /\ s > currentScale)
    BY <2>3, <2>5, <2>6
  <2>8. <<e, s>> # <<currentEpoch, currentScale>>
    BY <2>3, <2>6, <2>7
  <2>9. epochToScaleToSum'[<<e, s>>] = epochToScaleToSum[<<e, s>>]
    BY <2>2, <2>3, <2>8
  <2> QED
    BY <2>7, <2>9 DEF FutureSumsZero
<1>3. ASSUME NEW o \in Offsets, Offset(o[1], o[2])
      PROVE  FutureSumsZero'
  <2>1. o[1] \in Nat /\ o[2] \in Nat
    OBVIOUS
  <2>2. CASE UNCHANGED spVars
    BY <1>1, <2>2 DEF spVars
  <2> QED
    BY <1>2, <1>3, <2>1, <2>2 DEF Offset, offset
<1>4. ASSUME NEW u \in Users,
             \/ \E amount \in Amounts : Provide(u, amount) \/ Withdraw(u, amount)
             \/ GainToTrove(u)
      PROVE  UNCHANGED <<currentEpoch, currentScale, epochToScaleToSum>>
  BY <1>4 DEF Provide, Withdraw, GainToTrove, provideToSP, withdrawFromSP,
              withdrawCollateralGainToTrove
<1>5. CASE UNCHANGED vars
  BY <1>1, <1>5 DEF vars, spVars
<1> QED
  BY <1>1, <1>3, <1>4, <1>5 DEF Next

\* A deposit that has just been recorded is worth what was recorded, and has
\* no gain: its snapshots are the pool's own, and the next scale holds nothing.
LEMMA RecordIsFresh ==
  ASSUME SPInv, FutureSumsZero, NEW u \in Users, NEW newValue \in Nat,
         updateDepositAndSnapshots(u, newValue),
         UNCHANGED <<P, currentScale, currentEpoch, epochToScaleToSum>>
  PROVE  /\ Compounded'[u] = deposits'[u]
         /\ Gains'[u] = 0
         /\ \A v \in Users : v # u => /\ deposits'[v] = deposits[v]
                                      /\ depositSnapshots'[v] = depositSnapshots[v]
<1> USE BaseAssumption, PoolAssumption
<1>1. /\ deposits'[u] = newValue
      /\ \A v \in Users : v # u => /\ deposits'[v] = deposits[v]
                                   /\ depositSnapshots'[v] = depositSnapshots[v]
  BY DEF updateDepositAndSnapshots, SPInv, SPTypeOK
<1>2. /\ Compounded'[u] = getCompoundedTHUSDDeposit(u)'
      /\ Gains'[u] = getDepositorCollateralGain(u)'
  BY DEF Compounded, Gains
<1>3. CASE newValue = 0
  BY <1>1, <1>2, <1>3 DEF getCompoundedTHUSDDeposit, getDepositorCollateralGain
<1>4. CASE newValue # 0
  <2> DEFINE snap == depositSnapshots[u]
  <2>1. snap' = [S |-> currentS, P |-> P, scale |-> currentScale, epoch |-> currentEpoch]
    BY <1>4 DEF updateDepositAndSnapshots, SPInv, SPTypeOK
  <2>2. /\ snap'.S = currentS /\ snap'.P = P
        /\ snap'.scale = currentScale /\ snap'.epoch = currentEpoch
    BY <2>1
  <2>3. /\ P \in Nat \ {0} /\ currentScale \in Nat /\ currentEpoch \in Nat
        /\ currentEpoch \in Epochs /\ currentScale + 1 \in 0..MaxScale + 1
        /\ currentS \in Nat
    BY DEF SPInv, SPTypeOK, Scales, Epochs, currentS
  <2> HIDE DEF snap
  <2>4. getCompoundedTHUSDDeposit(u)' = newValue
    <3>1. ScaledStake(newValue, snap)' = newValue
      <4>1. currentScale' - snap'.scale = 0 /\ snap'.P = P' /\ P' = P
        BY <2>2, <2>3
      <4>2. (newValue * P) \div P = newValue
        BY <2>3, DivExact
      <4> QED
        BY <4>1, <4>2 DEF ScaledStake
    <3>2. newValue \div SCALE_FACTOR <= newValue
      <4>1. newValue <= newValue * SCALE_FACTOR
        OBVIOUS
      <4> QED
        BY <4>1, DivLeq
    <3>3. newValue \div SCALE_FACTOR \in Nat
      BY DivNat
    <3>4. ~(snap'.epoch < currentEpoch') /\ ~(newValue < newValue \div SCALE_FACTOR)
      BY <2>2, <2>3, <3>2, <3>3
    <3> QED
      BY <1>1, <1>4, <3>1, <3>4 DEF getCompoundedTHUSDDeposit,
           getCompoundedStakeFromSnapshots, snap
  <2>5. getDepositorCollateralGain(u)' = 0
    <3> DEFINE first  == epochToScaleToSum[<<currentEpoch, currentScale>>] - currentS
               later  == epochToScaleToSum[<<currentEpoch, currentScale + 1>>]
               second == later \div SCALE_FACTOR
    <3>1. first = 0
      BY <2>3 DEF currentS
    <3>2. second = 0
      <4>1. later = 0
        <5>1. currentScale + 1 > currentScale
          BY <2>3
        <5> QED
          BY <2>3, <5>1 DEF FutureSumsZero
      <4>2. 0 \div SCALE_FACTOR = 0
        <5>1. 0 <= 0 * SCALE_FACTOR
          OBVIOUS
        <5>2. 0 \div SCALE_FACTOR <= 0 /\ 0 \div SCALE_FACTOR \in Nat
          BY <5>1, DivLeq, DivNat
        <5> QED
          BY <5>2
      <4> QED
        BY <4>1, <4>2
    <3> HIDE DEF first, second
    <3>3. ((newValue * (first + second)) \div P) \div DECIMAL_PRECISION = 0
      <4>1. newValue * (first + second) = 0
        BY <3>1, <3>2
      <4>2. \A b \in Nat \ {0} : 0 \div b = 0
        <5> SUFFICES ASSUME NEW b \in Nat \ {0} PROVE 0 \div b = 0
          OBVIOUS
        <5>1. 0 <= 0 * b
          OBVIOUS
        <5>2. 0 \div b <= 0 /\ 0 \div b \in Nat
          BY <5>1, DivLeq, DivNat
        <5> QED
          BY <5>2
      <4>3. 0 \div P = 0 /\ 0 \div DECIMAL_PRECISION = 0
        BY <2>3, <4>2
      <4> QED
        BY <4>1, <4>3
    <3>4. getDepositorCollateralGain(u)'
            = ((newValue * (first + second)) \div P) \div DECIMAL_PRECISION
      BY <1>1, <1>4, <2>2 DEF getDepositorCollateralGain,
           getCollateralGainFromSnapshots, first, second, snap
    <3> QED
      BY <3>3, <3>4
  <2> QED
    BY <1>1, <1>2, <2>4, <2>5
<1> QED
  BY <1>1, <1>3, <1>4

\* Gains only grow where the sums only grow and the deposit stays.
LEMMA GainMono ==
  ASSUME NEW d \in Nat, NEW first \in Nat, NEW nfirst \in Nat, first <= nfirst,
         NEW later \in Nat, NEW nlater \in Nat, later <= nlater,
         NEW sp \in Nat \ {0}, NEW sf \in Nat \ {0}, NEW dp \in Nat \ {0}
  PROVE  /\ ((d * (first + later \div sf)) \div sp) \div dp
              <= ((d * (nfirst + nlater \div sf)) \div sp) \div dp
         /\ ((d * (nfirst + nlater \div sf)) \div sp) \div dp \in Nat
<1> DEFINE a == first + later \div sf
           b == nfirst + nlater \div sf
<1>1. later \div sf <= nlater \div sf /\ later \div sf \in Nat /\ nlater \div sf \in Nat
  BY DivMono, DivNat
<1>2. a \in Nat /\ b \in Nat /\ a <= b
  BY <1>1
<1> HIDE DEF a, b
<1>3. d * a <= d * b /\ d * a \in Nat /\ d * b \in Nat
  <2>1. a * d <= b * d
    BY <1>2, MulMono
  <2> QED
    BY <1>2, <2>1, MulNat
<1>4. /\ (d * a) \div sp <= (d * b) \div sp
      /\ (d * a) \div sp \in Nat /\ (d * b) \div sp \in Nat
  BY <1>3, DivMono, DivNat
<1>5. /\ ((d * a) \div sp) \div dp <= ((d * b) \div sp) \div dp
      /\ ((d * b) \div sp) \div dp \in Nat
  BY <1>4, DivMono, DivNat
<1> QED
  BY <1>5 DEF a, b

\* An offset, whatever scale or epoch change it makes, cuts compounded
\* deposits and adds to gains.
LEMMA OffsetCuts ==
  ASSUME SPInv, SPInv', NEW debt \in Nat, NEW coll \in Nat,
         totalTHUSDDeposits > 0,
         computeRewardsPerUnitStaked(coll, debt),
         updateRewardSumAndProduct(CollateralGainPerUnitStaked(coll),
                                   THUSDLossPerUnitStaked(debt)),
         UNCHANGED <<deposits, depositSnapshots>>,
         NEW u \in Users
  PROVE  /\ getCompoundedTHUSDDeposit(u)' <= getCompoundedTHUSDDeposit(u)
         /\ getDepositorCollateralGain(u)' >= getDepositorCollateralGain(u)
<1> USE BaseAssumption, PoolAssumption
<1> DEFINE f    == DECIMAL_PRECISION - THUSDLossPerUnitStaked(debt)
           g    == CollateralGainPerUnitStaked(coll)
           snap == depositSnapshots[u]
           d    == deposits[u]
<1>1. /\ THUSDLossPerUnitStaked(debt) \in Nat /\ g \in Nat
  BY RewardsTyped
<1>2. f \in 0..DECIMAL_PRECISION
  BY <1>1 DEF updateRewardSumAndProduct
<1>3. /\ P \in 1..DECIMAL_PRECISION /\ P \in Nat /\ P' \in Nat
      /\ currentScale \in Nat /\ currentEpoch \in Nat
      /\ epochToScaleToSum \in [Epochs \X (0..MaxScale + 1) -> Nat]
      /\ epochToScaleToSum' \in [Epochs \X (0..MaxScale + 1) -> Nat]
      /\ <<currentEpoch, currentScale>> \in Epochs \X (0..MaxScale + 1)
  BY DEF SPInv, SPTypeOK, Scales, Epochs
<1>4. /\ P' = NewP(f)
      /\ currentScale' = NewScale(f)
      /\ currentEpoch' = NewEpoch(f)
      /\ epochToScaleToSum' =
           [epochToScaleToSum EXCEPT ![<<currentEpoch, currentScale>>] = @ + g * P]
  BY DEF updateRewardSumAndProduct
<1>5. d' = d /\ snap' = snap /\ d \in Nat
  BY DEF SPInv, SPTypeOK
<1> HIDE DEF f, g
<1>6. /\ f = 0 => currentEpoch' = currentEpoch + 1
      /\ f # 0 => /\ currentEpoch' = currentEpoch
                  /\ \/ currentScale' = currentScale /\ P' <= P
                     \/ currentScale' = currentScale + 1 /\ P' <= P * SCALE_FACTOR
  <2>1. /\ f # 0 /\ NewScale(f) = currentScale => NewP(f) <= P
        /\ f # 0 => NewP(f) <= P * SCALE_FACTOR
    BY <1>2, <1>3, NewPBounds
  <2> QED
    BY <1>2, <1>3, <1>4, <2>1 DEF NewScale, NewEpoch
<1>7. CASE d = 0
  BY <1>5, <1>7 DEF getCompoundedTHUSDDeposit, getDepositorCollateralGain
<1>8. CASE d > 0
  <2>1. snap.P \in Nat /\ snap.S \in Nat /\ snap.scale \in Nat /\ snap.epoch \in Nat
        /\ <<snap.epoch, snap.scale>> \in Epochs \X (0..MaxScale + 1)
        /\ <<snap.epoch, snap.scale + 1>> \in Epochs \X (0..MaxScale + 1)
    BY DEF SPInv, SPTypeOK, Scales, Epochs
  <2>2. BehindPool(snap)
    BY <1>8 DEF SPInv, SnapshotsBehindPool
  <2>3. /\ getCompoundedTHUSDDeposit(u) = getCompoundedStakeFromSnapshots(d, snap)
        /\ getCompoundedTHUSDDeposit(u)' = getCompoundedStakeFromSnapshots(d, snap)'
    BY <1>5, <1>8 DEF getCompoundedTHUSDDeposit
  <2>4. /\ snap.P \in Nat \ {0}
        /\ snap.epoch <= currentEpoch
        /\ snap.epoch = currentEpoch => snap.scale <= currentScale
        /\ snap.S <= epochToScaleToSum[<<snap.epoch, snap.scale>>]
    BY <2>1, <2>2 DEF BehindPool
  <2>5. getCompoundedTHUSDDeposit(u) \in Nat
    BY CompoundedBounds
  <2>6. getCompoundedTHUSDDeposit(u)' <= getCompoundedTHUSDDeposit(u)
    <3>1. CASE snap.epoch < currentEpoch'
      <4>1. getCompoundedTHUSDDeposit(u)' = 0
        BY <1>5, <1>8, <3>1 DEF getCompoundedTHUSDDeposit, getCompoundedStakeFromSnapshots
      <4> QED
        BY <2>5, <4>1
    <3>2. CASE ~(snap.epoch < currentEpoch')
      <4> DEFINE cut == d \div SCALE_FACTOR
                 old == ScaledStake(d, snap)
                 new == ScaledStake(d, snap)'
                 q   == (d * P) \div snap.P
                 nq  == (d * P') \div snap.P
      <4>1. snap.epoch = currentEpoch /\ currentEpoch' = currentEpoch /\ f # 0
        <5>1. f = 0 => currentEpoch' = currentEpoch + 1
          BY <1>6
        <5>2. f # 0 => currentEpoch' = currentEpoch
          BY <1>6
        <5>3. currentEpoch \in Nat /\ snap.epoch \in Nat
          BY <1>3, <2>1 DEF SPInv, SPTypeOK, Epochs
        <5>4. snap.epoch <= currentEpoch /\ ~(snap.epoch < currentEpoch')
          BY <2>4, <3>2
        <5>5. f # 0
          BY <5>1, <5>3, <5>4
        <5> QED
          BY <5>2, <5>3, <5>4, <5>5
      <4>2. /\ q \in Nat /\ nq \in Nat /\ cut \in Nat
            /\ q \div SCALE_FACTOR \in Nat /\ nq \div SCALE_FACTOR \in Nat
        <5>1. d * P \in Nat /\ d * P' \in Nat
          BY <1>3, <1>5, MulNat
        <5>2. q \in Nat /\ nq \in Nat /\ cut \in Nat
          BY <1>5, <2>4, <5>1, DivNat
        <5> QED
          BY <5>2, DivNat
      <4>3. P' <= P => nq <= q /\ nq \div SCALE_FACTOR <= q \div SCALE_FACTOR
        <5> SUFFICES ASSUME P' <= P
                     PROVE  nq <= q /\ nq \div SCALE_FACTOR <= q \div SCALE_FACTOR
          OBVIOUS
        <5>1. d * P' <= d * P /\ d * P \in Nat /\ d * P' \in Nat
          BY <1>3, <1>5, MulMono, MulNat
        <5>2. nq <= q
          BY <2>4, <5>1, DivMono
        <5> HIDE DEF q, nq
        <5> QED
          BY <4>2, <5>2, DivMono
      <4>4. P' <= P * SCALE_FACTOR => nq \div SCALE_FACTOR <= q
        BY <1>3, <1>5, <2>4, ScaledMono
      <4>5. /\ old = IF currentScale = snap.scale THEN q
                     ELSE IF currentScale = snap.scale + 1 THEN q \div SCALE_FACTOR ELSE 0
            /\ new = IF currentScale' = snap.scale THEN nq
                     ELSE IF currentScale' = snap.scale + 1
                          THEN nq \div SCALE_FACTOR ELSE 0
        <5>1. currentScale' \in Nat
          BY <1>3, <1>6, <4>1
        <5>2. /\ currentScale - snap.scale = 0 <=> currentScale = snap.scale
              /\ currentScale - snap.scale = 1 <=> currentScale = snap.scale + 1
              /\ currentScale' - snap.scale = 0 <=> currentScale' = snap.scale
              /\ currentScale' - snap.scale = 1 <=> currentScale' = snap.scale + 1
              /\ ~(currentScale = snap.scale /\ currentScale = snap.scale + 1)
          BY <1>3, <2>1, <5>1
        <5>3. d' = d /\ snap' = snap
          BY <1>5
        <5> QED
          BY <5>2, <5>3 DEF ScaledStake
      <4> HIDE DEF q, nq
      <4>6. new <= old /\ new \in Nat /\ old \in Nat
        <5>1. CASE currentScale' = currentScale /\ P' <= P
          BY <4>2, <4>3, <4>5, <5>1
        <5>2. CASE currentScale' = currentScale + 1 /\ P' <= P * SCALE_FACTOR
          <6>1. snap.scale <= currentScale
            BY <2>4, <4>1
          <6>2. new = IF currentScale = snap.scale THEN nq \div SCALE_FACTOR ELSE 0
            BY <1>3, <2>1, <4>5, <5>2, <6>1
          <6> QED
            BY <1>3, <2>1, <4>2, <4>4, <4>5, <5>2, <6>2
        <5> QED
          BY <1>6, <4>1, <5>1, <5>2
      <4>7. /\ getCompoundedTHUSDDeposit(u)' = IF new < cut THEN 0 ELSE new
            /\ getCompoundedTHUSDDeposit(u) = IF old < cut THEN 0 ELSE old
        <5>1. ~(snap.epoch < currentEpoch)
          BY <1>3, <2>1, <4>1
        <5> QED
          BY <1>5, <2>3, <3>2, <5>1 DEF getCompoundedStakeFromSnapshots
      <4> HIDE DEF old, new, cut
      <4> QED
        BY <4>2, <4>6, <4>7
    <3> QED
      BY <3>1, <3>2
  <2>7. getDepositorCollateralGain(u)' >= getDepositorCollateralGain(u)
    <3> DEFINE first  == epochToScaleToSum[<<snap.epoch, snap.scale>>] - snap.S
               later  == epochToScaleToSum[<<snap.epoch, snap.scale + 1>>]
               nfirst == epochToScaleToSum'[<<snap.epoch, snap.scale>>] - snap.S
               nlater == epochToScaleToSum'[<<snap.epoch, snap.scale + 1>>]
    <3>1. \A es \in Epochs \X (0..MaxScale + 1) :
            /\ epochToScaleToSum[es] <= epochToScaleToSum'[es]
            /\ epochToScaleToSum[es] \in Nat /\ epochToScaleToSum'[es] \in Nat
      <4>1. g * P \in Nat
        BY <1>1, <1>3, MulNat DEF g
      <4> QED
        BY <1>3, <1>4, <4>1
    <3>2. /\ first \in Nat /\ nfirst \in Nat /\ first <= nfirst
          /\ later \in Nat /\ nlater \in Nat /\ later <= nlater
      BY <2>1, <2>4, <3>1
    <3>3. /\ getDepositorCollateralGain(u)
               = ((d * (first + later \div SCALE_FACTOR)) \div snap.P) \div DECIMAL_PRECISION
          /\ getDepositorCollateralGain(u)'
               = ((d * (nfirst + nlater \div SCALE_FACTOR)) \div snap.P) \div DECIMAL_PRECISION
      BY <1>5, <1>8 DEF getDepositorCollateralGain, getCollateralGainFromSnapshots
    <3> HIDE DEF first, later, nfirst, nlater, d, snap
    <3>4. ((d * (first + later \div SCALE_FACTOR)) \div snap.P) \div DECIMAL_PRECISION
            <= ((d * (nfirst + nlater \div SCALE_FACTOR)) \div snap.P) \div DECIMAL_PRECISION
      BY <1>5, <2>4, <3>2, GainMono
    <3>5. getDepositorCollateralGain(u) <= getDepositorCollateralGain(u)'
      BY <3>3, <3>4
    <3>6. getDepositorCollateralGain(u) \in Nat /\ getDepositorCollateralGain(u)' \in Nat
      <4>1. ((d * (nfirst + nlater \div SCALE_FACTOR)) \div snap.P)
              \div DECIMAL_PRECISION \in Nat
        BY <1>5, <2>4, <3>2, GainMono
      <4> QED
        BY <3>3, <4>1, GainNat
    <3> QED
      BY <3>5, <3>6
  <2> QED
    BY <2>6, <2>7
<1> QED
  BY <1>5, <1>7, <1>8

\* What a step does to a deposit: it records it afresh, or leaves the record
\* and only cuts the deposit and adds to its gain.
LEMMA StepEarns ==
  ASSUME SPInv, FutureSumsZero, [Next]_vars, NEW u \in Users
  PROVE  /\ <<deposits[u], depositSnapshots[u]>>' # <<deposits[u], depositSnapshots[u]>>
              => Compounded'[u] = deposits'[u] /\ Gains'[u] = 0
         /\ deposits' = deposits /\ depositSnapshots' = depositSnapshots
              => Compounded'[u] <= Compounded[u] /\ Gains'[u] >= Gains[u]
<1> USE BaseAssumption, PoolAssumption, InputAssumption
<1> DEFINE Record == \/ ~UNCHANGED <<deposits[u], depositSnapshots[u]>>
                          /\ Compounded'[u] = deposits'[u] /\ Gains'[u] = 0
                     \/ /\ UNCHANGED <<deposits[u], depositSnapshots[u]>>
                        /\ Compounded'[u] <= Compounded[u] /\ Gains'[u] >= Gains[u]
<1>1. /\ Compounded[u] = getCompoundedTHUSDDeposit(u)
      /\ Compounded'[u] = getCompoundedTHUSDDeposit(u)'
      /\ Gains[u] = getDepositorCollateralGain(u)
      /\ Gains'[u] = getDepositorCollateralGain(u)'
      /\ Compounded[u] \in Nat /\ Gains[u] \in Nat
  BY CompoundedBounds, GainNat DEF Compounded, Gains
<1>2. ASSUME UNCHANGED <<P, currentScale, currentEpoch, epochToScaleToSum>>,
             UNCHANGED <<deposits[u], depositSnapshots[u]>>
      PROVE  Record
  <2>1. /\ getCompoundedTHUSDDeposit(u)' = getCompoundedTHUSDDeposit(u)
        /\ getDepositorCollateralGain(u)' = getDepositorCollateralGain(u)
    BY <1>2 DEF getCompoundedTHUSDDeposit, getDepositorCollateralGain,
         getCompoundedStakeFromSnapshots, getCollateralGainFromSnapshots, ScaledStake
  <2> QED
    BY <1>1, <1>2, <2>1
<1>3. ASSUME NEW v \in Users, NEW newValue \in Nat,
             updateDepositAndSnapshots(v, newValue),
             UNCHANGED <<P, currentScale, currentEpoch, epochToScaleToSum>>
      PROVE  Record
  <2>1. CASE UNCHANGED <<deposits[u], depositSnapshots[u]>>
    BY <1>2, <1>3, <2>1
  <2>2. CASE ~UNCHANGED <<deposits[u], depositSnapshots[u]>>
    <3>1. /\ Compounded'[v] = deposits'[v] /\ Gains'[v] = 0
          /\ v # u => UNCHANGED <<deposits[u], depositSnapshots[u]>>
      BY <1>3, RecordIsFresh
    <3> QED
      BY <2>2, <3>1
  <2> QED
    BY <2>1, <2>2
<1>4. ASSUME NEW v \in Users, NEW amount \in Amounts, Provide(v, amount)
      PROVE  Record
  <2>1. getCompoundedTHUSDDeposit(v) + amount \in Nat
    BY CompoundedBounds
  <2> HIDE DEF Record
  <2> QED
    BY <1>3, <1>4, <2>1 DEF Provide, provideToSP
<1>5. ASSUME NEW v \in Users, NEW amount \in Amounts, Withdraw(v, amount)
      PROVE  Record
  <2>1. getCompoundedTHUSDDeposit(v) - Withdrawable(v, amount) \in Nat
    BY CompoundedBounds DEF Withdrawable, MinOf
  <2> HIDE DEF Record
  <2> QED
    BY <1>3, <1>5, <2>1 DEF Withdraw, withdrawFromSP
<1>6. ASSUME NEW v \in Users, GainToTrove(v)
      PROVE  Record
  <2>1. getCompoundedTHUSDDeposit(v) \in Nat
    BY CompoundedBounds
  <2> HIDE DEF Record
  <2> QED
    BY <1>3, <1>6, <2>1 DEF GainToTrove, withdrawCollateralGainToTrove
<1>7. ASSUME NEW o \in Offsets, Offset(o[1], o[2])
      PROVE  Record
  <2>1. o[1] \in Nat /\ o[2] \in Nat
    OBVIOUS
  <2>2. SPInv'
    BY NextSPInv
  <2>3. CASE UNCHANGED spVars
    BY <1>2, <2>3 DEF spVars
  <2>4. CASE /\ totalTHUSDDeposits > 0
             /\ computeRewardsPerUnitStaked(o[2], o[1])
             /\ updateRewardSumAndProduct(CollateralGainPerUnitStaked(o[2]),
                                          THUSDLossPerUnitStaked(o[1]))
             /\ UNCHANGED <<deposits, depositSnapshots>>
    <3>1. /\ getCompoundedTHUSDDeposit(u)' <= getCompoundedTHUSDDeposit(u)
          /\ getDepositorCollateralGain(u)' >= getDepositorCollateralGain(u)
      BY <2>1, <2>2, <2>4, OffsetCuts
    <3> QED
      BY <1>1, <2>4, <3>1
  <2> HIDE DEF Record
  <2> QED
    BY <1>7, <2>3, <2>4 DEF Offset, offset
<1>8. ASSUME UNCHANGED vars
      PROVE  Record
  BY <1>2, <1>8 DEF vars, spVars
<1>9. Record
  <2> HIDE DEF Record
  <2> QED
    BY <1>4, <1>5, <1>6, <1>7, <1>8 DEF Next
<1> QED
  BY <1>9

-----------------------------------------------------------------------------
(* The theorems. *)

\* Every variable of the StabilityPool keeps its type; in particular
\* 0 < P <= 1 after any series of offsets.
THEOREM PoolTypeCorrect == Spec => []TypeOK
<1>1. Init => calls \in 0..MaxCalls
  BY InputAssumption DEF Init
<1>2. calls \in 0..MaxCalls /\ [Next]_vars => (calls \in 0..MaxCalls)'
  BY InputAssumption DEF Next, Provide, Withdraw, GainToTrove, Offset, Call, vars
<1>3. SPInv /\ calls \in 0..MaxCalls => TypeOK
  BY DEF SPInv, TypeOK
<1>4. QED
  BY <1>1, <1>2, <1>3, SpecSPInv, PTL DEF Spec

\* The snapshots of every depositor lie in the pool's past.
THEOREM SnapshotsStayBehind == Spec => []SnapshotsBehindPool
<1>1. SPInv => SnapshotsBehindPool
  BY DEF SPInv
<1>2. QED
  BY <1>1, SpecSPInv, PTL

\* The reward formulas of the StabilityPool never underflow, so they never
\* revert a depositor's call.
THEOREM RewardFormulasSafe == Spec => []RewardFormulasNeverUnderflow
<1>1. SPInv => RewardFormulasNeverUnderflow
  BY CompoundedBounds DEF SPInv, SnapshotsBehindPool, BehindPool,
                          RewardFormulasNeverUnderflow
<1>2. QED
  BY <1>1, SpecSPInv, PTL

\* The pool owes its depositors at most MaxTHUSD / DECIMAL_PRECISION more
\* than it holds, after any series of deposits, withdrawals and offsets: the
\* rounding of P (_updateRewardSumAndProduct) does not accumulate.
THEOREM ShortfallStaysBounded == Spec => []ShortfallBounded
<1>1. Init => SPInv /\ DepositsCovered
  BY InitSPInv, InitCovered DEF Init
<1>2. (SPInv /\ DepositsCovered) /\ [Next]_vars => (SPInv /\ DepositsCovered)'
  BY NextSPInv, NextCovered
<1>3. SPInv /\ DepositsCovered => ShortfallBounded
  BY CoveredBounded
<1>4. QED
  BY <1>1, <1>2, <1>3, PTL DEF Spec

\* A deposit earns what falls due after it was recorded and no more: fresh, it
\* is worth what was recorded and has no gain; from then on offsets only cut it
\* and only add to its gain, through every change of scale and epoch.
THEOREM DepositsAlwaysEarnTheirOwn == Spec => DepositsEarnTheirOwn
<1> DEFINE Fresh == \A u \in Users :
             <<deposits[u], depositSnapshots[u]>>' # <<deposits[u], depositSnapshots[u]>>
               => /\ Compounded'[u] = deposits'[u]
                  /\ Gains'[u] = 0
           Cuts  == (deposits' = deposits /\ depositSnapshots' = depositSnapshots)
                      => \A u \in Users : /\ Compounded'[u] <= Compounded[u]
                                          /\ Gains'[u] >= Gains[u]
<1>1. Init => SPInv /\ FutureSumsZero
  <2>1. Init => FutureSumsZero
    BY DEF Init, SPInit, FutureSumsZero
  <2> QED
    BY <2>1, InitSPInv DEF Init
<1>2. (SPInv /\ FutureSumsZero) /\ [Next]_vars => (SPInv /\ FutureSumsZero)'
  BY NextSPInv, NextFutureSums
<1>3. (SPInv /\ FutureSumsZero) /\ [Next]_vars => [Fresh]_vars /\ [Cuts]_vars
  BY StepEarns
<1> HIDE DEF Fresh, Cuts
<1>4. Spec => [][Fresh]_vars /\ []FutureSumsZero /\ [][Cuts]_vars
  BY <1>1, <1>2, <1>3, PTL DEF Spec
<1>5. QED
  BY <1>4 DEF DepositsEarnTheirOwn, FreshDepositHasNoPast,
              OffsetsCutDepositsAndAddGains, Fresh, Cuts

=============================================================================
