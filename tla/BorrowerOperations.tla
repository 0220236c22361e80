------------------------- MODULE BorrowerOperations -------------------------
(***************************************************************************)
(* The BorrowerOperations contract: opening, adjusting and closing a       *)
(* trove, and claiming what a redemption or a capped liquidation left.     *)
(*                                                                         *)
(* While the contract is on THUSDToken's mint list every operation has to  *)
(* keep the trove and the system above their ratios.  Once governance has  *)
(* removed it (a migration to another collateral), adjusting and closing   *)
(* are no longer restricted and nothing can be minted.                     *)
(***************************************************************************)
EXTENDS Redemptions

feedIsActive(feedStatus) == feedStatus = "active"

validMaxFeePercentage(maxFeePercentage, isRecoveryMode) ==
  /\ maxFeePercentage <= DECIMAL_PRECISION
  /\ isRecoveryMode \/ maxFeePercentage >= BORROWING_FEE_FLOOR

\* THUSD lent to account, and the debt it creates, a fee included
withdrawTHUSD(w, account, amount, netDebtIncrease) ==
  thusdMint(activePoolIncreaseTHUSDDebt(w, netDebtIncrease), account, amount)

repayTHUSD(w, account, amount) ==
  thusdBurn(activePoolDecreaseTHUSDDebt(w, amount), account, amount)

\* _triggerBorrowingFee: the fee is minted to the PCV when there is one.
triggerBorrowingFee(w, amount, maxFeePercentage, decay) ==
  LET decayed == decayBaseRateFromBorrowing(w, decay)
      fee     == getBorrowingFee(decayed, amount)
      checked == Require(decayed,
                   amount > 0 /\ userAcceptsFee(fee, amount, maxFeePercentage))
  IN  [fee |-> fee,
       w   |-> IF HasPCV THEN thusdMint(checked, pcvAddress, fee) ELSE checked]

\* TroveUpdated, then THUSDBorrowingFeePaid.
emitBorrowed(w, u, operation, fee) ==
  Emit(emitTroveUpdated(w, u, operation),
       [event |-> "THUSDBorrowingFeePaid", fee |-> fee])

\* Faulty variant: new debt is left out.
getNewTCRFromTroveChange_OldDebt(w, collChange, debtChange, price) ==
  computeCR(getEntireSystemColl(w) + collChange, getEntireSystemDebt(w), price)

\* The change of a total by a signed amount.
getNewTCRFromTroveChange(w, collChange, debtChange, price) ==
  computeCR(getEntireSystemColl(w) + collChange,
            getEntireSystemDebt(w) + debtChange, price)

-----------------------------------------------------------------------------

openTrove(w, u, amount, asset, pos, maxFeePercentage, price, feedStatus, decay) ==
  LET isRecoveryMode == checkRecoveryMode(w, price)
      charged ==
        IF isRecoveryMode
        THEN [w |-> w, fee |-> 0]
        ELSE triggerBorrowingFee(w, amount, maxFeePercentage, decay)
      checked(v, compositeDebt) ==
        Require(v,
          /\ feedIsActive(feedStatus)
          /\ validMaxFeePercentage(maxFeePercentage, isRecoveryMode)
          /\ w.status[u] # "active"
          /\ getNetDebt(compositeDebt) >= MIN_NET_DEBT
          /\ LET ICR == computeCR(asset, compositeDebt, price)
             IN  IF isRecoveryMode
                 THEN ICR >= CCR
                 ELSE /\ ICR >= MCR
                      /\ getNewTCRFromTroveChange(w, asset, compositeDebt, price) >= CCR)
      opened(v, compositeDebt) ==
        updateStakeAndTotalStakes(
          updateTroveRewardSnapshots(
            [v EXCEPT !.status[u] = "active",
                      !.coll[u] = @ + asset,
                      !.debt[u] = @ + compositeDebt], u), u)
      settled(v, fee) ==
        LET compositeDebt == getCompositeDebt(amount + fee)
            listed == insertAt(opened(checked(v, compositeDebt), compositeDebt), u,
                        computeNominalCR(asset, compositeDebt), pos)
        IN  emitBorrowed(
              withdrawTHUSD(
                withdrawTHUSD(activePoolReceive(listed, asset), u, amount, amount + fee),
                gasPoolAddress, THUSD_GAS_COMPENSATION, THUSD_GAS_COMPENSATION),
              u, "openTrove", fee)
  IN  settled(charged.w, charged.fee)

-----------------------------------------------------------------------------

\* Faulty variant: Normal Mode checks the system's ratio only.
validAdjustmentInCurrentMode_NoICR(w, coll, debt, collChange, debtChange, isRecoveryMode, price) ==
  w.mintList =>
    IF isRecoveryMode
    THEN collChange >= 0
    ELSE getNewTCRFromTroveChange(w, collChange, debtChange, price) >= CCR

\* _requireValidAdjustmentInCurrentMode.  debtChange includes the fee; it is
\* positive exactly for a debt increase (an increase by 0 is rejected before).
validAdjustmentInCurrentMode(w, coll, debt, collChange, debtChange, isRecoveryMode, price) ==
  LET oldICR == computeCR(coll, debt, price)
      newICR == computeCR(coll + collChange, debt + debtChange, price)
  IN  w.mintList =>
        IF isRecoveryMode
        THEN /\ collChange >= 0
             /\ debtChange > 0 => newICR >= CCR /\ newICR >= oldICR
        ELSE /\ newICR >= MCR
             /\ getNewTCRFromTroveChange(w, collChange, debtChange, price) >= CCR

validRepayment(w, u, debt, amount) ==
  /\ getNetDebt(debt) - amount >= MIN_NET_DEBT
  /\ amount <= debt - THUSD_GAS_COMPENSATION
  /\ w.thusd[u] >= amount

\* The end of _adjustTrove: the trove with its new amounts, its place in the list, and
\* the tokens and collateral that move (_moveTokensAndCollateralfromAdjustment).
settleAdjustment(w, u, collChange, THUSDChange, fee, pos) ==
  LET newColl == w.coll[u] + collChange
      newDebt == w.debt[u] + THUSDChange + fee
      updated == updateStakeAndTotalStakes(
                   [w EXCEPT !.coll[u] = newColl, !.debt[u] = newDebt], u)
      listed  == insertAt(updated, u, computeNominalCR(newColl, newDebt), pos)
      told    == emitBorrowed(listed, u, "adjustTrove", fee)
      moved   == IF THUSDChange > 0
                 THEN withdrawTHUSD(told, u, THUSDChange, THUSDChange + fee)
                 ELSE repayTHUSD(told, u, -THUSDChange)
  IN  IF collChange > 0
      THEN activePoolReceive(moved, collChange)
      ELSE activePoolSendCollateral(moved, u, -collChange)

\* The checks of _adjustTrove once rewards are applied and the fee is known.
checkAdjustment(w, u, collChange, THUSDChange, fee, isRecoveryMode, price) ==
  Require(w,
    /\ w.coll[u] + collChange >= 0 /\ w.debt[u] + THUSDChange + fee >= 0
    /\ validAdjustmentInCurrentMode(w, w.coll[u], w.debt[u], collChange,
         THUSDChange + fee, isRecoveryMode, price)
    /\ THUSDChange < 0 => validRepayment(w, u, w.debt[u], -THUSDChange))

\* _adjustTrove.  collChange > 0 is collateral sent with the call, < 0 a
\* withdrawal (a call with both is rejected); THUSDChange > 0 is a debt
\* increase, < 0 a repayment.  addColl, withdrawColl, withdrawTHUSD,
\* repayTHUSD and moveCollateralGainToTrove are instances of it.
adjustTrove(w, u, collChange, THUSDChange, pos, maxFeePercentage, price, decay) ==
  LET isRecoveryMode == checkRecoveryMode(w, price)
      isDebtIncrease == THUSDChange > 0
      checked == Require(w,
                   /\ isDebtIncrease =>
                        validMaxFeePercentage(maxFeePercentage, isRecoveryMode)
                   /\ collChange # 0 \/ THUSDChange # 0
                   /\ w.status[u] = "active")
      applied == applyPendingRewards(checked, u)
      charged == IF isDebtIncrease /\ ~isRecoveryMode
                 THEN triggerBorrowingFee(applied, THUSDChange,
                                          maxFeePercentage, decay)
                 ELSE [w |-> applied, fee |-> 0]
      settledIfValid(valid, fee) ==
        IF valid.ok
        THEN settleAdjustment(valid, u, collChange, THUSDChange, fee, pos)
        ELSE valid
  IN  settledIfValid(checkAdjustment(charged.w, u, collChange, THUSDChange, charged.fee,
                       isRecoveryMode, price), charged.fee)

-----------------------------------------------------------------------------

closeTroveByOwner(w, u, price) ==
  LET checked == Require(w, /\ w.status[u] = "active"
                            /\ w.mintList => ~checkRecoveryMode(w, price))
      valid(v) == Require(v,
                    /\ v.debt[u] >= THUSD_GAS_COMPENSATION
                    /\ v.thusd[u] >= v.debt[u] - THUSD_GAS_COMPENSATION
                    /\ v.mintList =>
                         getNewTCRFromTroveChange(v, -v.coll[u], -v.debt[u], price) >= CCR)
      closed(v) == emitTroveUpdated(
                     closeTrove(removeStake(v, u), u, "closedByOwner"), u, "closeTrove")
      settledIfValid(v) ==
        IF v.ok
        THEN activePoolSendCollateral(
               repayTHUSD(
                 repayTHUSD(closed(v), u, v.debt[u] - THUSD_GAS_COMPENSATION),
                 gasPoolAddress, THUSD_GAS_COMPENSATION),
               u, v.coll[u])
        ELSE v
  IN  settledIfValid(valid(applyPendingRewards(checked, u)))

claimCollateral(w, u) == claimColl(w, u)

=============================================================================
