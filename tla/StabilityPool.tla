--------------------------- MODULE StabilityPool ---------------------------
(***************************************************************************)
(* The StabilityPool contract: THUSD deposits that absorb the debt of      *)
(* liquidated troves and earn their collateral.  Deposits and gains are    *)
(* not updated one by one: the pool keeps a running product P and sums S   *)
(* per epoch and scale, and every depositor keeps snapshots of them.       *)
(*                                                                         *)
(* One action per external function.  The token and collateral transfers a *)
(* function makes are the effects it has on totalTHUSDDeposits and on      *)
(* collateral; what it asks of other contracts (the lowest ICR in the      *)
(* system, whether the caller has a trove) is a parameter of the action.   *)
(***************************************************************************)
EXTENDS LiquityBase

CONSTANTS
  SCALE_FACTOR,   \* 1e9, the shift of P at a scale change
  MaxEpoch,       \* bound: epochs the model follows
  MaxScale        \* bound: scales of an epoch the model follows

ASSUME PoolAssumption ==
  /\ SCALE_FACTOR \in Nat \ {0}
  /\ SCALE_FACTOR * SCALE_FACTOR <= DECIMAL_PRECISION
  /\ MaxEpoch \in Nat
  /\ MaxScale \in Nat

VARIABLES
  collateral,                  \* collateral held for the depositors
  totalTHUSDDeposits,          \* THUSD held by the pool
  deposits,                    \* user -> recorded deposit (initialValue)
  depositSnapshots,            \* user -> snapshots of S, P, scale, epoch
  P,                           \* running product
  currentScale,
  currentEpoch,
  epochToScaleToSum,           \* <<epoch, scale>> -> S
  lastCollateralError_Offset,
  lastTHUSDLossError_Offset

spVars == <<collateral, totalTHUSDDeposits, deposits, depositSnapshots, P,
            currentScale, currentEpoch, epochToScaleToSum,
            lastCollateralError_Offset, lastTHUSDLossError_Offset>>

Epochs == 0..MaxEpoch
Scales == 0..MaxScale

NoSnapshots == [S |-> 0, P |-> 0, scale |-> 0, epoch |-> 0]

SPTypeOK ==
  /\ collateral \in Nat
  /\ totalTHUSDDeposits \in Nat
  /\ deposits \in [Users -> Nat]
  /\ depositSnapshots \in
       [Users -> [S : Nat, P : Nat, scale : Scales, epoch : Epochs]]
  /\ P \in 1..DECIMAL_PRECISION
  /\ currentScale \in Scales
  /\ currentEpoch \in Epochs
  /\ epochToScaleToSum \in [Epochs \X (0..MaxScale + 1) -> Nat]
  /\ lastCollateralError_Offset \in Nat
  /\ lastTHUSDLossError_Offset \in Nat

SPInit ==
  /\ collateral = 0
  /\ totalTHUSDDeposits = 0
  /\ deposits = [u \in Users |-> 0]
  /\ depositSnapshots = [u \in Users |-> NoSnapshots]
  /\ P = DECIMAL_PRECISION
  /\ currentScale = 0
  /\ currentEpoch = 0
  /\ epochToScaleToSum = [es \in Epochs \X (0..MaxScale + 1) |-> 0]
  /\ lastCollateralError_Offset = 0
  /\ lastTHUSDLossError_Offset = 0

-----------------------------------------------------------------------------
(* Gains and compounded deposits. *)

currentS == epochToScaleToSum[<<currentEpoch, currentScale>>]

getCollateralGainFromSnapshots(initialDeposit, snap) ==
  LET firstPortion  == epochToScaleToSum[<<snap.epoch, snap.scale>>] - snap.S
      secondPortion ==
        epochToScaleToSum[<<snap.epoch, snap.scale + 1>>] \div SCALE_FACTOR
  IN  ((initialDeposit * (firstPortion + secondPortion)) \div snap.P)
        \div DECIMAL_PRECISION

getDepositorCollateralGain(u) ==
  IF deposits[u] = 0
  THEN 0
  ELSE getCollateralGainFromSnapshots(deposits[u], depositSnapshots[u])

\* Faulty variant: a scale change in between is ignored.
ScaledStake_OneScale(initialStake, snap) == (initialStake * P) \div snap.P

\* The stake before the cut-off below a billionth of the initial deposit.
ScaledStake(initialStake, snap) ==
  CASE currentScale - snap.scale = 0 -> (initialStake * P) \div snap.P
    [] currentScale - snap.scale = 1 ->
         ((initialStake * P) \div snap.P) \div SCALE_FACTOR
    [] OTHER -> 0

\* The literal 1e9 of the cut-off is the value of SCALE_FACTOR.
getCompoundedStakeFromSnapshots(initialStake, snap) ==
  IF \/ snap.epoch < currentEpoch
     \/ ScaledStake(initialStake, snap) < initialStake \div SCALE_FACTOR
  THEN 0
  ELSE ScaledStake(initialStake, snap)

getCompoundedTHUSDDeposit(u) ==
  IF deposits[u] = 0
  THEN 0
  ELSE getCompoundedStakeFromSnapshots(deposits[u], depositSnapshots[u])

updateDepositAndSnapshots(u, newValue) ==
  /\ deposits' = [deposits EXCEPT ![u] = newValue]
  /\ depositSnapshots' =
       [depositSnapshots EXCEPT ![u] =
          IF newValue = 0
          THEN NoSnapshots
          ELSE [S |-> currentS, P |-> P,
                scale |-> currentScale, epoch |-> currentEpoch]]

-----------------------------------------------------------------------------
(* What the depositors call. *)

\* The subtraction of _sendCollateralGainToDepositor and the one that
\* computes THUSDLoss revert when they underflow.
PayOutGain(u) ==
  /\ getCompoundedTHUSDDeposit(u) <= deposits[u]
  /\ getDepositorCollateralGain(u) <= collateral
  /\ collateral' = collateral - getDepositorCollateralGain(u)

provideToSP(u, amount) ==
  /\ amount > 0
  /\ PayOutGain(u)
  /\ totalTHUSDDeposits' = totalTHUSDDeposits + amount
  /\ updateDepositAndSnapshots(u, getCompoundedTHUSDDeposit(u) + amount)
  /\ UNCHANGED <<P, currentScale, currentEpoch, epochToScaleToSum,
                 lastCollateralError_Offset, lastTHUSDLossError_Offset>>

\* What withdrawFromSP(amount) hands back.
Withdrawable(u, amount) == MinOf(amount, getCompoundedTHUSDDeposit(u))

\* lowestICR is the ICR of the last trove of SortedTroves.
withdrawFromSP(u, amount, lowestICR) ==
  /\ amount # 0 => lowestICR >= MCR
  /\ deposits[u] > 0
  /\ PayOutGain(u)
  /\ Withdrawable(u, amount) <= totalTHUSDDeposits
  /\ totalTHUSDDeposits' = totalTHUSDDeposits - Withdrawable(u, amount)
  /\ updateDepositAndSnapshots(u,
       getCompoundedTHUSDDeposit(u) - Withdrawable(u, amount))
  /\ UNCHANGED <<P, currentScale, currentEpoch, epochToScaleToSum,
                 lastCollateralError_Offset, lastTHUSDLossError_Offset>>

withdrawCollateralGainToTrove(u, hasTrove) ==
  /\ deposits[u] > 0
  /\ hasTrove
  /\ getDepositorCollateralGain(u) > 0
  /\ PayOutGain(u)
  /\ updateDepositAndSnapshots(u, getCompoundedTHUSDDeposit(u))
  /\ UNCHANGED <<totalTHUSDDeposits, P, currentScale, currentEpoch,
                 epochToScaleToSum, lastCollateralError_Offset,
                 lastTHUSDLossError_Offset>>

-----------------------------------------------------------------------------
(* What the TroveManager calls. *)

THUSDLossNumerator(debtToOffset) ==
  debtToOffset * DECIMAL_PRECISION - lastTHUSDLossError_Offset

THUSDLossPerUnitStaked(debtToOffset) ==
  IF debtToOffset = totalTHUSDDeposits
  THEN DECIMAL_PRECISION
  ELSE THUSDLossNumerator(debtToOffset) \div totalTHUSDDeposits + 1

\* Faulty variant: the error is added to the last one, which the numerator
\* already accounts for.
THUSDLossError_Accumulated(debtToOffset) ==
  IF debtToOffset = totalTHUSDDeposits
  THEN 0
  ELSE lastTHUSDLossError_Offset
         + THUSDLossPerUnitStaked(debtToOffset) * totalTHUSDDeposits
         - THUSDLossNumerator(debtToOffset)

THUSDLossError(debtToOffset) ==
  IF debtToOffset = totalTHUSDDeposits
  THEN 0
  ELSE THUSDLossPerUnitStaked(debtToOffset) * totalTHUSDDeposits
         - THUSDLossNumerator(debtToOffset)

CollateralNumerator(collToAdd) ==
  collToAdd * DECIMAL_PRECISION + lastCollateralError_Offset

CollateralGainPerUnitStaked(collToAdd) ==
  CollateralNumerator(collToAdd) \div totalTHUSDDeposits

computeRewardsPerUnitStaked(collToAdd, debtToOffset) ==
  /\ debtToOffset <= totalTHUSDDeposits
  /\ debtToOffset # totalTHUSDDeposits =>
       lastTHUSDLossError_Offset <= debtToOffset * DECIMAL_PRECISION
  /\ lastTHUSDLossError_Offset' = THUSDLossError(debtToOffset)
  /\ lastCollateralError_Offset' =
       CollateralNumerator(collToAdd)
         - CollateralGainPerUnitStaked(collToAdd) * totalTHUSDDeposits

\* Faulty variant: the scale change forgets to divide.
NewP_Undivided(newProductFactor) ==
  IF newProductFactor = 0
  THEN DECIMAL_PRECISION
  ELSE IF (P * newProductFactor) \div DECIMAL_PRECISION < SCALE_FACTOR
       THEN P * newProductFactor * SCALE_FACTOR
       ELSE (P * newProductFactor) \div DECIMAL_PRECISION

\* P after a loss, the scale change included; 0 fails the assert newP > 0.
NewP(newProductFactor) ==
  IF newProductFactor = 0
  THEN DECIMAL_PRECISION
  ELSE IF (P * newProductFactor) \div DECIMAL_PRECISION < SCALE_FACTOR
       THEN (P * newProductFactor * SCALE_FACTOR) \div DECIMAL_PRECISION
       ELSE (P * newProductFactor) \div DECIMAL_PRECISION

\* Faulty variant: P is scaled up and the scale not counted.
NewScale_NotCounted(newProductFactor) ==
  IF newProductFactor = 0 THEN 0 ELSE currentScale

NewScale(newProductFactor) ==
  IF newProductFactor = 0
  THEN 0
  ELSE IF (P * newProductFactor) \div DECIMAL_PRECISION < SCALE_FACTOR
       THEN currentScale + 1
       ELSE currentScale

NewEpoch(newProductFactor) ==
  IF newProductFactor = 0 THEN currentEpoch + 1 ELSE currentEpoch

\* Faulty variant: S is overwritten by the latest gain.
updateRewardSumAndProduct_Overwrite(collateralGainPerUnitStaked, lossPerUnitStaked) ==
  LET newProductFactor == DECIMAL_PRECISION - lossPerUnitStaked
  IN  /\ lossPerUnitStaked <= DECIMAL_PRECISION
      /\ NewP(newProductFactor) > 0
      /\ NewScale(newProductFactor) <= MaxScale
      /\ NewEpoch(newProductFactor) <= MaxEpoch
      /\ epochToScaleToSum' =
           [epochToScaleToSum EXCEPT ![<<currentEpoch, currentScale>>] =
              collateralGainPerUnitStaked * P]
      /\ currentEpoch' = NewEpoch(newProductFactor)
      /\ currentScale' = NewScale(newProductFactor)
      /\ P' = NewP(newProductFactor)

updateRewardSumAndProduct(collateralGainPerUnitStaked, lossPerUnitStaked) ==
  LET newProductFactor == DECIMAL_PRECISION - lossPerUnitStaked
  IN  /\ lossPerUnitStaked <= DECIMAL_PRECISION
      /\ NewP(newProductFactor) > 0
      /\ NewScale(newProductFactor) <= MaxScale
      /\ NewEpoch(newProductFactor) <= MaxEpoch
      /\ epochToScaleToSum' =
           [epochToScaleToSum EXCEPT ![<<currentEpoch, currentScale>>] =
              @ + collateralGainPerUnitStaked * P]
      /\ currentEpoch' = NewEpoch(newProductFactor)
      /\ currentScale' = NewScale(newProductFactor)
      /\ P' = NewP(newProductFactor)

offset(debtToOffset, collToAdd) ==
  \/ /\ totalTHUSDDeposits = 0 \/ debtToOffset = 0
     /\ UNCHANGED spVars
  \/ /\ totalTHUSDDeposits > 0
     /\ debtToOffset > 0
     /\ computeRewardsPerUnitStaked(collToAdd, debtToOffset)
     /\ updateRewardSumAndProduct(CollateralGainPerUnitStaked(collToAdd),
                                  THUSDLossPerUnitStaked(debtToOffset))
     /\ totalTHUSDDeposits' = totalTHUSDDeposits - debtToOffset
     /\ collateral' = collateral + collToAdd
     /\ UNCHANGED <<deposits, depositSnapshots>>

-----------------------------------------------------------------------------
(* Snapshots and the pool's history. *)

\* snap lies in the pool's past: its epoch and scale were reached, S has only
\* grown since, and P has only shrunk since, a scale change counted as a
\* factor SCALE_FACTOR.
BehindPool(snap) ==
  /\ snap.P > 0
  /\ snap.epoch <= currentEpoch
  /\ snap.epoch = currentEpoch => snap.scale <= currentScale
  /\ snap.S <= epochToScaleToSum[<<snap.epoch, snap.scale>>]
  /\ snap.epoch = currentEpoch /\ snap.scale = currentScale => P <= snap.P
  /\ snap.epoch = currentEpoch /\ snap.scale + 1 = currentScale
       => P <= snap.P * SCALE_FACTOR

\* The snapshots of every depositor lie in the pool's past.  This is what the
\* formulas of _getCollateralGainFromSnapshots and
\* _getCompoundedStakeFromSnapshots rely on when they subtract and divide.
SnapshotsBehindPool ==
  \A u \in Users : deposits[u] > 0 => BehindPool(depositSnapshots[u])

=============================================================================
