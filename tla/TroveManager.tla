---------------------------- MODULE TroveManager ----------------------------
(***************************************************************************)
(* The TroveManager contract: troves, stakes, redistribution of the debt   *)
(* and collateral of liquidated troves, liquidation and redemption.        *)
(*                                                                         *)
(* Functions are operators on the state w of a transaction (module Pools). *)
(* SortedTroves is the sequence w.sortedTroves, head (highest nominal      *)
(* ratio) first; TroveOwners is the set of its elements.  The linked list, *)
(* its hints and the TroveOwners array are the subject of TroveRegistry.   *)
(***************************************************************************)
EXTENDS Pools, TroveList

CONSTANTS
  REDEMPTION_FEE_FLOOR,    \* 0.5%
  BORROWING_FEE_FLOOR,     \* 0.5%
  MAX_BORROWING_FEE,       \* 5%
  BETA                     \* 2, divides the redeemed fraction of the supply

ASSUME FeeAssumption ==
  /\ REDEMPTION_FEE_FLOOR \in 0..DECIMAL_PRECISION
  /\ BORROWING_FEE_FLOOR \in 0..DECIMAL_PRECISION
  /\ MAX_BORROWING_FEE \in 0..DECIMAL_PRECISION
  /\ BETA \in Nat \ {0}

Statuses == {"nonExistent", "active", "closedByOwner",
             "closedByLiquidation", "closedByRedemption"}

-----------------------------------------------------------------------------
(* Rewards from redistributions. *)

getPendingCollateralReward(w, b) ==
  IF w.status[b] # "active"
  THEN 0
  ELSE (w.stake[b] * (w.L_Collateral - w.snapshotCollateral[b]))
         \div DECIMAL_PRECISION

getPendingTHUSDDebtReward(w, b) ==
  IF w.status[b] # "active"
  THEN 0
  ELSE (w.stake[b] * (w.L_THUSDDebt - w.snapshotTHUSDDebt[b]))
         \div DECIMAL_PRECISION

hasPendingRewards(w, b) ==
  /\ w.status[b] = "active"
  /\ w.snapshotCollateral[b] < w.L_Collateral

\* getEntireDebtAndColl, _getCurrentTroveAmounts
entireColl(w, b) == w.coll[b] + getPendingCollateralReward(w, b)
entireDebt(w, b) == w.debt[b] + getPendingTHUSDDebtReward(w, b)

getNominalICR(w, b) == computeNominalCR(entireColl(w, b), entireDebt(w, b))

getCurrentICR(w, b, price) == computeCR(entireColl(w, b), entireDebt(w, b), price)

\* Faulty variant: the pools are not told.
movePendingTroveRewardsToActivePool_Skipped(w, debt, coll) == w

movePendingTroveRewardsToActivePool(w, debt, coll) ==
  defaultPoolSendCollateralToActivePool(
    activePoolIncreaseTHUSDDebt(defaultPoolDecreaseTHUSDDebt(w, debt), debt),
    coll)

updateTroveRewardSnapshots(w, b) ==
  [w EXCEPT !.snapshotCollateral[b] = w.L_Collateral,
            !.snapshotTHUSDDebt[b] = w.L_THUSDDebt]

\* The amounts of b after an operation.
TroveUpdated(w, b, operation) ==
  [event |-> "TroveUpdated", user |-> b, debt |-> w.debt[b], coll |-> w.coll[b],
   stake |-> w.stake[b], operation |-> operation]

emitTroveUpdated(w, b, operation) == Emit(w, TroveUpdated(w, b, operation))

applyPendingRewards(w, b) ==
  IF hasPendingRewards(w, b)
  THEN emitTroveUpdated(
         movePendingTroveRewardsToActivePool(
           updateTroveRewardSnapshots(
             [w EXCEPT !.coll[b] = entireColl(w, b),
                       !.debt[b] = entireDebt(w, b)], b),
           getPendingTHUSDDebtReward(w, b), getPendingCollateralReward(w, b)),
         b, "applyPendingRewards")
  ELSE w

emitLTermsUpdated(w) ==
  Emit(w, [event |-> "LTermsUpdated", L_Collateral |-> w.L_Collateral,
           L_THUSDDebt |-> w.L_THUSDDebt])

redistributeDebtAndColl(w, debt, coll) ==
  LET collateralNumerator ==
        coll * DECIMAL_PRECISION + w.lastCollateralError_Redistribution
      THUSDDebtNumerator ==
        debt * DECIMAL_PRECISION + w.lastTHUSDDebtError_Redistribution
      redistributed ==
        [w EXCEPT
           !.L_Collateral = @ + collateralNumerator \div w.totalStakes,
           !.L_THUSDDebt = @ + THUSDDebtNumerator \div w.totalStakes,
           !.lastCollateralError_Redistribution =
              collateralNumerator % w.totalStakes,
           !.lastTHUSDDebtError_Redistribution =
              THUSDDebtNumerator % w.totalStakes]
  IN  CASE debt = 0 -> w
        [] debt # 0 /\ w.totalStakes = 0 -> Require(w, FALSE)   \* division by zero
        [] OTHER ->
             defaultPoolReceive(
               activePoolSendCollateral(
                 defaultPoolIncreaseTHUSDDebt(
                   activePoolDecreaseTHUSDDebt(emitLTermsUpdated(redistributed),
                                               debt), debt),
                 defaultPoolAddress, coll),
               coll)

-----------------------------------------------------------------------------
(* Stakes. *)

removeStake(w, b) ==
  [w EXCEPT !.totalStakes = @ - w.stake[b], !.stake[b] = 0]

computeNewStake(w, coll) ==
  IF w.totalCollateralSnapshot = 0
  THEN coll
  ELSE (coll * w.totalStakesSnapshot) \div w.totalCollateralSnapshot

updateStakeAndTotalStakes(w, b) ==
  LET newStake == computeNewStake(w, w.coll[b])
  IN  [Require(w, w.totalCollateralSnapshot = 0 \/ w.totalStakesSnapshot > 0)
         EXCEPT !.stake[b] = newStake,
                !.totalStakes = @ - w.stake[b] + newStake]

updateSystemSnapshots_excludeCollRemainder(w, collRemainder) ==
  [Require(w, collRemainder <= w.activePool.collateral)
     EXCEPT !.totalStakesSnapshot = w.totalStakes,
            !.totalCollateralSnapshot =
               w.activePool.collateral - collRemainder
                 + w.defaultPool.collateral]

-----------------------------------------------------------------------------
(* The list of troves. *)

\* insert, and reInsert of a trove that is in the list; the caller's hint
\* decides between valid positions.
insertAt(w, b, NICR, pos) ==
  LET seq == Without(b, w.sortedTroves)
      ratio == [t \in Users |-> getNominalICR(w, t)]
  IN  IF NICR > 0 /\ validInsertPosition(ratio, seq, NICR, pos)
      THEN [w EXCEPT !.sortedTroves = placeAt(seq, b, pos)]
      ELSE Require(w, FALSE)

\* Faulty variant: the last trove may go.
closeTrove_LastToo(w, b, closedStatus) ==
  [w EXCEPT !.status[b] = closedStatus,
            !.coll[b] = 0,
            !.debt[b] = 0,
            !.snapshotCollateral[b] = 0,
            !.snapshotTHUSDDebt[b] = 0,
            !.sortedTroves = Without(b, @)]

closeTrove(w, b, closedStatus) ==
  [Require(w, w.mintList => Len(w.sortedTroves) > 1)
     EXCEPT !.status[b] = closedStatus,
            !.coll[b] = 0,
            !.debt[b] = 0,
            !.snapshotCollateral[b] = 0,
            !.snapshotTHUSDDebt[b] = 0,
            !.sortedTroves = Without(b, @)]

=============================================================================
