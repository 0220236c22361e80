-------------------------- MODULE ClientOperations --------------------------
(***************************************************************************)
(* What the client does between the storage of the contracts and a         *)
(* transaction: lib-ethers reads troves and totals and prepares the calls, *)
(* the frontend validates what a borrower has edited and says which troves *)
(* can be liquidated, and HintHelpers and MultiTroveGetter answer from the *)
(* contracts' side.                                                        *)
(*                                                                         *)
(* As in the contracts' modules w is the storage; a call that the client   *)
(* refuses to prepare, or whose gas cannot be estimated because it would   *)
(* revert, leads to a w that is not ok.  The wallet's balance of the       *)
(* collateral is not limited.  Gas is left out.                           *)
(***************************************************************************)
EXTENDS BorrowerOperations, Liquidations, TroveCalculator, Subgraph

LOCAL INSTANCE TLC

CONSTANTS
  borrowingRateSlippageTolerance,    \* 0.5%
  redemptionRateSlippageTolerance,   \* 0.1%
  decayToleranceFactor,              \* decay of the base rate in the tolerated minutes
  redeemMaxIterations,               \* 70
  liqbotTroves                       \* at most 40 in a transaction of the bot

ASSUME ClientAssumption ==
  /\ borrowingRateSlippageTolerance \in Nat
  /\ redemptionRateSlippageTolerance \in Nat
  /\ decayToleranceFactor \in 0..DECIMAL_PRECISION
  /\ redeemMaxIterations \in Nat \ {0}
  /\ liqbotTroves \in Nat \ {0}

THUSD_MINIMUM_DEBT == THUSD_GAS_COMPENSATION + MIN_NET_DEBT

-----------------------------------------------------------------------------
(* Reads *)

getTotalRedistributed(w) == Trove(w.L_Collateral, w.L_THUSDDebt)

getTrove(w, u) ==
  IF w.status[u] = "active"
  THEN applyRedistribution(Trove(w.coll[u], w.debt[u]), w.stake[u],
         Trove(w.snapshotCollateral[u], w.snapshotTHUSDDebt[u]),
         getTotalRedistributed(w))
  ELSE emptyTrove

getTotal(w) ==
  add(Trove(w.activePool.collateral, w.activePool.THUSDDebt),
      Trove(w.defaultPool.collateral, w.defaultPool.THUSDDebt))

getNumberOfTroves(w) == Len(w.sortedTroves)

\* getFees: decay is the factor since the last fee operation.
getBaseRate(w, decay) == mul(decay, w.baseRate)

getBorrowingRate(w, price, decay) ==
  feesBorrowingRate(getBaseRate(w, decay),
                    collateralRatioIsBelowCritical(getTotal(w), price))

\* MultiTroveGetter: a negative start counts from the tail, -1 first.
getMultipleSortedTroves(w, startIdx, count) ==
  LET list  == w.sortedTroves
      start == IF startIdx >= 0 THEN startIdx ELSE -(startIdx + 1)
      size  == IF start >= Len(list) THEN 0 ELSE MinOf(count, Len(list) - start)
  IN  [i \in 1..size |->
         IF startIdx >= 0 THEN list[start + i] ELSE list[Len(list) + 1 - start - i]]

\* The owners of the troves on a page; their troves are getTrove's.
getTroves(w, sortedBy, startingAt, first) ==
  getMultipleSortedTroves(w,
    IF sortedBy = "descendingCollateralRatio" THEN startingAt ELSE -(startingAt + 1),
    first)

-----------------------------------------------------------------------------
(* The frontend validates an edited trove. *)

validateVaultCreation(params, resultingVault, recoveryMode, wouldTriggerRecoveryMode, price) ==
  /\ params.borrowTHUSD >= MIN_NET_DEBT
  /\ IF recoveryMode
     THEN isOpenableInRecoveryMode(resultingVault, price)
     ELSE /\ ~collateralRatioIsBelowMinimum(resultingVault, price)
          /\ ~wouldTriggerRecoveryMode

validateVaultAdjustment(params, originalVault, resultingVault, recoveryMode, wouldTriggerRecoveryMode, price, thusdBalance) ==
  /\ IF recoveryMode
     THEN /\ params.withdrawCollateral = 0
          /\ params.borrowTHUSD > 0 =>
               /\ ~collateralRatioIsBelowCritical(resultingVault, price)
               /\ collateralRatio(resultingVault, price)
                    >= collateralRatio(originalVault, price)
     ELSE /\ ~collateralRatioIsBelowMinimum(resultingVault, price)
          /\ ~wouldTriggerRecoveryMode
  /\ params.repayTHUSD > 0 =>
       /\ resultingVault.debt >= THUSD_MINIMUM_DEBT
       /\ params.repayTHUSD <= thusdBalance

validateVaultClosure(params, recoveryMode, wouldTriggerRecoveryMode, numberOfTroves, thusdBalance) ==
  /\ numberOfTroves # 1
  /\ ~recoveryMode
  /\ params.repayTHUSD <= thusdBalance
  /\ ~wouldTriggerRecoveryMode

\* The change that the edited trove means to user u, whether it is valid, and
\* the trove it will lead to.
validateVaultChange(w, u, edited, price, decay) ==
  LET original  == getTrove(w, u)
      rate      == getBorrowingRate(w, price, decay)
      total     == getTotal(w)
      recoveryMode == collateralRatioIsBelowCritical(total, price)
      valid(change, resulting, wouldTriggerRecoveryMode) ==
        CASE change.type = "creation" ->
               validateVaultCreation(change.params, resulting, recoveryMode,
                 wouldTriggerRecoveryMode, price)
          [] change.type = "closure" ->
               validateVaultClosure(change.params, recoveryMode,
                 wouldTriggerRecoveryMode, getNumberOfTroves(w), w.thusd[u])
          [] change.type = "adjustment" ->
               validateVaultAdjustment(change.params, original, resulting, recoveryMode,
                 wouldTriggerRecoveryMode, price, w.thusd[u])
          [] OTHER -> FALSE
      validated(change, resulting) ==
        [valid |-> valid(change, resulting, collateralRatioIsBelowCritical(
                     add(subtract(total, original), resulting), price)),
         change |-> change, resulting |-> resulting]
      applied(change) == validated(change, apply(original, change, rate))
  IN  applied(whatChanged(original, edited, rate))

-----------------------------------------------------------------------------
(* lib-ethers prepares the calls.  The gas is estimated for the call itself *)
(* and for one that borrows what leads to the trove of a decayed base rate, *)
(* so neither may revert.                                                   *)

populateOpenTrove(w, u, params, pos, price, feedStatus, decay) ==
  LET rate    == getBorrowingRate(w, price, decay)
      later   == getBorrowingRate(w, price, mul(decay, decayToleranceFactor))
      decayed == create(params, later)
      simulated == whatChanged(emptyTrove, decayed, rate).params.borrowTHUSD
      open(v, borrowTHUSD) ==
        openTrove(v, u, borrowTHUSD, params.depositCollateral, pos,
          rate + borrowingRateSlippageTolerance, price, feedStatus, decay)
  IN  open(Require(w, /\ decayed.debt >= THUSD_MINIMUM_DEBT
                      /\ open(w, simulated).ok),
           params.borrowTHUSD)

populateAdjustTrove(w, u, params, pos, price, decay) ==
  LET trove   == getTrove(w, u)
      rate    == getBorrowingRate(w, price, decay)
      later   == getBorrowingRate(w, price, mul(decay, decayToleranceFactor))
      decayed == adjust(trove, params, later)
      simulated == whatChanged(trove, decayed, rate)
      call(v, borrowTHUSD) ==
        adjustTrove(v, u, params.depositCollateral - params.withdrawCollateral,
          borrowTHUSD - params.repayTHUSD, pos,
          rate + borrowingRateSlippageTolerance, price, decay)
  IN  call(Require(w, /\ normalizeTroveAdjustment(params) # throws
                      /\ simulated.type = "adjustment"
                      /\ decayed.debt >= THUSD_MINIMUM_DEBT
                      /\ params.borrowTHUSD > 0 =>
                           call(w, simulated.params.borrowTHUSD).ok),
           params.borrowTHUSD)

\* VaultAction sends the change that was validated.
sendVaultChange(w, u, change, pos, price, feedStatus, decay) ==
  CASE change.type = "creation" ->
         populateOpenTrove(w, u, change.params, pos, price, feedStatus, decay)
    [] change.type = "closure" -> closeTroveByOwner(w, u, price)
    [] OTHER -> populateAdjustTrove(w, u, change.params, pos, price, decay)

-----------------------------------------------------------------------------
(* Redemption *)

redeemableInPart(netTHUSDDebt, remainingTHUSD) ==
  MinOf(remainingTHUSD, netTHUSDDebt - MIN_NET_DEBT)

\* HintHelpers simulates a redemption of amount: the first trove, the nominal
\* ratio of the last one if it is redeemed in part (else 0), and what of the
\* amount can be redeemed.
getRedemptionHints(w, amount, price, maxIterations) ==
  LET list  == w.sortedTroves
      safe  == {i \in 1..Len(list) : getCurrentICR(w, list[i], price) >= MCR}
      start == CHOOSE i \in safe \cup {0} : \A j \in safe : j <= i
      net(b) == getNetDebt(w.debt[b]) + getPendingTHUSDDebtReward(w, b)
      part(s, b) ==
        LET lot == redeemableInPart(net(b), s.remainingTHUSD)
        IN  [remainingTHUSD |-> s.remainingTHUSD - lot,
             NICR |-> computeNominalCR(
                        entireColl(w, b) - (lot * DECIMAL_PRECISION) \div price,
                        getCompositeDebt(net(b) - lot)),
             stopped |-> TRUE]
      step(s, b) ==
        CASE s.stopped \/ s.remainingTHUSD = 0 -> s
          [] ~(s.stopped \/ s.remainingTHUSD = 0) /\ net(b) <= s.remainingTHUSD ->
               [s EXCEPT !.remainingTHUSD = @ - net(b)]
          [] OTHER -> IF net(b) > MIN_NET_DEBT
                      THEN part(s, b)
                      ELSE [s EXCEPT !.stopped = TRUE]
      s[i \in 0..MinOf(start, maxIterations)] ==
        IF i = 0
        THEN [remainingTHUSD |-> amount, NICR |-> 0, stopped |-> FALSE]
        ELSE step(s[i-1], list[start + 1 - i])
      last == s[MinOf(start, maxIterations)]
  IN  [firstRedemptionHint |-> IF start = 0 THEN 0 ELSE list[start],
       partialRedemptionHintNICR |-> last.NICR,
       truncatedTHUSDamount |-> amount - last.remainingTHUSD,
       stopped |-> last.stopped]

defaultMaxRedemptionRate(w, amount, decay) ==
  MinOf(feesRedemptionRate(getBaseRate(w, decay),
          decimalDiv(amount, getTotal(w).debt), BETA)
          + redemptionRateSlippageTolerance, DECIMAL_PRECISION)

\* redeemTHUSD with the default rate: the amount is truncated first.  The ratio
\* hint fits unless the list has changed; without one any partial redemption is
\* cancelled.
populateRedemption(w, u, amount, hints, hintFresh, pos, price, feedStatus, decay) ==
  redeemCollateral(Require(w, amount > 0), u, amount, hints.firstRedemptionHint,
    hintFresh, pos, redeemMaxIterations,
    defaultMaxRedemptionRate(w, amount, decay), price, feedStatus, decay)

redeemTHUSD(w, u, attempted, pos, price, feedStatus, decay) ==
  LET hints == getRedemptionHints(w, attempted, price, redeemMaxIterations)
  IN  populateRedemption(w, u, hints.truncatedTHUSDamount, hints,
        hints.partialRedemptionHintNICR # 0, pos, price, feedStatus, decay)

\* The sum of the truncated amount and the minimum, without ratio hints.
increaseAmountByMinimumNetDebt(w, u, attempted, pos, price, feedStatus, decay) ==
  LET hints == getRedemptionHints(w, attempted, price, redeemMaxIterations)
  IN  populateRedemption(w, u, hints.truncatedTHUSDamount + MIN_NET_DEBT, hints,
        FALSE, pos, price, feedStatus, decay)

-----------------------------------------------------------------------------
(* RiskyVaults: whether the button that liquidates a trove is enabled. *)

liquidatableInNormalMode(vault, price) == collateralRatioIsBelowMinimum(vault, price)

\* Faulty variant: any trove that the Stability Pool can absorb is offered.
liquidatableInRecoveryMode_AnyRatio(vault, price, totalCollateralRatio, thusdInStabilityPool) ==
  \/ vault.debt <= thusdInStabilityPool
  \/ liquidatableInNormalMode(vault, price)

liquidatableInRecoveryMode(vault, price, totalCollateralRatio, thusdInStabilityPool) ==
  IF /\ collateralRatio(vault, price) >= MCR
     /\ collateralRatio(vault, price) < totalCollateralRatio
  THEN vault.debt <= thusdInStabilityPool
  ELSE liquidatableInNormalMode(vault, price)

isLiquidatable(w, u, price, thusdInStabilityPool) ==
  IF collateralRatioIsBelowCritical(getTotal(w), price)
  THEN liquidatableInRecoveryMode(getTrove(w, u), price,
         collateralRatio(getTotal(w), price), thusdInStabilityPool)
  ELSE liquidatableInNormalMode(getTrove(w, u), price)

-----------------------------------------------------------------------------
(* The example bot liquidates what it finds when the price has dropped. *)

underCollateralized(w, price, u) == collateralRatioIsBelowMinimum(getTrove(w, u), price)

\* The owners of the liquidatable troves, those with most collateral first.
liqbotSelection(w, price) ==
  LET byDescendingCollateral(a, b) == getTrove(w, a).collateral > getTrove(w, b).collateral
      isRisky(u) == underCollateralized(w, price, u)
      risky == SelectSeq(getTroves(w, "ascendingCollateralRatio", 0, NumUsers), isRisky)
  IN  SubSeq(SortSeq(risky, byDescendingCollateral), 1, MinOf(liqbotTroves, Len(risky)))

\* What the bot weighs against its costs: 0.5% of the collateral, and the reserves.
expectedCompensation(w, troves) ==
  LET collaterals == [i \in DOMAIN troves |-> getTrove(w, troves[i]).collateral]
  IN  [collateral |-> SumOf(collaterals, Len(troves)) \div PERCENT_DIVISOR,
       thusd |-> Len(troves) * THUSD_GAS_COMPENSATION]

-----------------------------------------------------------------------------
(***************************************************************************)
(* What lib-ethers reads from the logs of a mined transaction, and what    *)
(* the types of TransactableLiquity promise of it.                         *)
(*                                                                         *)
(* A "...Details" operator is the promise: it looks at the storage before  *)
(* and after the transaction and never at an event.  A "wrap..." operator  *)
(* is the parser that PopulatableEthersLiquity attaches to a transaction:  *)
(* it looks at the logs only, and takes the first event that fits.         *)
(***************************************************************************)

-----------------------------------------------------------------------------
(* Logs *)

\* The contract at the address of a log.
address(e) ==
  CASE e.event = "TroveUpdated" ->
         IF isBorrowerOperation(e.operation) THEN "borrowerOperations" ELSE "troveManager"
    [] e.event = "THUSDBorrowingFeePaid" -> "borrowerOperations"
    [] e.event \in {"TroveLiquidated", "Liquidation", "Redemption", "LTermsUpdated"} ->
         "troveManager"
    [] e.event \in {"UserDepositChanged", "CollateralGainWithdrawn"} -> "stabilityPool"
    [] e.event = "Transfer" -> "thusdToken"
    [] e.event = "CollateralSent" -> "activePool"
    [] e.event = "CollBalanceUpdated" -> "collSurplusPool"
    [] e.event = "LastGoodPrice" -> "priceFeed"

\* Faulty variant: the address of a log is not looked at.
extractEvents_AnyContract(logs, contract, name) ==
  SelectSeq(logs, LAMBDA e : e.event = name)

extractEvents(logs, contract, name) ==
  SelectSeq(logs, LAMBDA e : address(e) = contract /\ e.event = name)

\* const [x] = ..., where the logs always hold an x.
First(events) == Head(events)

-----------------------------------------------------------------------------
(* Borrowing *)

\* TroveCreationDetails and TroveAdjustmentDetails: the trove directly after
\* the transaction, and what was added to its debt on top of the THUSD asked
\* for.  lent is negative for a repayment, and includes the reserve of a new
\* trove.
TroveChangeDetails(before, after, u, lent) ==
  [newTrove |-> getTrove(after, u),
   fee |-> getTrove(after, u).debt - getTrove(before, u).debt - lent]

wrapTroveChangeWithFees(logs) ==
  LET updated == First(extractEvents(logs, "borrowerOperations", "TroveUpdated"))
      paid == First(extractEvents(logs, "borrowerOperations", "THUSDBorrowingFeePaid"))
  IN  [newTrove |-> Trove(updated.coll, updated.debt), fee |-> paid.fee]

\* How much was withdrawn and repaid.
TroveClosureDetails(before, after, u) ==
  [withdrawCollateral |-> getTrove(before, u).collateral,
   repayTHUSD |-> before.thusd[u] - after.thusd[u]]

wrapTroveClosure(logs, u) ==
  LET isBurnOfUser(e) == e.from = u /\ e.to = 0
      isForUser(e) == e.to = u
      burns == SelectSeq(extractEvents(logs, "thusdToken", "Transfer"), isBurnOfUser)
      sent == SelectSeq(extractEvents(logs, "activePool", "CollateralSent"), isForUser)
  IN  [withdrawCollateral |-> First(sent).amount, repayTHUSD |-> First(burns).value]

-----------------------------------------------------------------------------
(* Liquidations and redemptions *)

\* The borrowers who lost their troves, the debt that was cleared, the
\* collateral that went to depositors and other borrowers (not the surplus
\* kept for the owners), and what the liquidator was paid.
LiquidationDetails(before, after, liquidator) ==
  LET gone == {u \in Users : before.status[u] = "active" /\ after.status[u] # "active"}
      lost(f(_)) == SumOf([u \in Users |-> IF u \in gone THEN f(u) ELSE 0], NumUsers)
      kept == after.collSurplusPool.collateral - before.collSurplusPool.collateral
      debt(u) == getTrove(before, u).debt
      coll(u) == getTrove(before, u).collateral
      compensation(u) ==
        (coll(u) - (after.collSurplusPool.balances[u]
                      - before.collSurplusPool.balances[u])) \div PERCENT_DIVISOR
  IN  [liquidatedAddresses |-> gone,
       totalLiquidated |-> Trove(lost(coll) - kept - lost(compensation), lost(debt)),
       collateralGasCompensation |-> lost(compensation),
       thusdGasCompensation |-> after.thusd[liquidator] - before.thusd[liquidator]]

wrapLiquidation(logs) ==
  LET liquidated == extractEvents(logs, "troveManager", "TroveLiquidated")
      totals == First(extractEvents(logs, "troveManager", "Liquidation"))
  IN  [liquidatedAddresses |-> {liquidated[i].user : i \in DOMAIN liquidated},
       totalLiquidated |-> Trove(totals.liquidatedColl, totals.liquidatedDebt),
       collateralGasCompensation |-> totals.collGasCompensation,
       thusdGasCompensation |-> totals.THUSDGasCompensation]

\* What the redeemer gave up, what the troves lost but for the surplus kept
\* for their owners, and the fee at the rate after the redemption.
RedemptionDetails(before, after, u) ==
  LET collOf(w) == SumOf([b \in Users |-> entireColl(w, b)], NumUsers)
      taken == collOf(before) - collOf(after)
                 - (after.collSurplusPool.collateral - before.collSurplusPool.collateral)
  IN  [actualTHUSDAmount |-> before.thusd[u] - after.thusd[u],
       collateralTaken |-> taken,
       fee |-> calcRedemptionFee(after, taken)]

\* The parser that the constructor of PopulatedEthersRedemption passes on.
redemptionReceipt(logs) ==
  LET e == First(extractEvents(logs, "troveManager", "Redemption"))
  IN  [actualTHUSDAmount |-> e.actual, collateralTaken |-> e.collateralSent, fee |-> e.fee]

-----------------------------------------------------------------------------
(* The Stability Pool.  deposit is what the pool records for the user, gain *)
(* the collateral it owes.                                                  *)

\* What liquidations burned since the deposit was recorded, the deposit after
\* the transaction, and the collateral that left the pool for the user.
StabilityPoolGainsWithdrawalDetails(depositBefore, depositAfter, deposited, paidOut) ==
  [thusdLoss |-> depositBefore + deposited - depositAfter,
   newTHUSDDeposit |-> depositAfter,
   collateralGain |-> paidOut]

\* Faulty variant: the loss is taken for the gain.
extractStabilityPoolGainsWithdrawalDetails_Swapped(logs) ==
  LET changed == First(extractEvents(logs, "stabilityPool", "UserDepositChanged"))
      withdrawn == First(extractEvents(logs, "stabilityPool", "CollateralGainWithdrawn"))
  IN  [thusdLoss |-> withdrawn.collateral, newTHUSDDeposit |-> changed.newDeposit,
       collateralGain |-> withdrawn.loss]

extractStabilityPoolGainsWithdrawalDetails(logs) ==
  LET changed == First(extractEvents(logs, "stabilityPool", "UserDepositChanged"))
      withdrawn == First(extractEvents(logs, "stabilityPool", "CollateralGainWithdrawn"))
  IN  [thusdLoss |-> withdrawn.loss, newTHUSDDeposit |-> changed.newDeposit,
       collateralGain |-> withdrawn.collateral]

\* The change made to a deposit by a withdrawal; -1 stands for undefined, when
\* no THUSD was sent.
wrapStabilityDepositWithdrawal(logs, u) ==
  LET isForUser(e) == e.from = stabilityPoolAddress /\ e.to = u
      sent == SelectSeq(extractEvents(logs, "thusdToken", "Transfer"), isForUser)
      gains == extractStabilityPoolGainsWithdrawalDetails(logs)
  IN  [gains |-> gains,
       withdrawTHUSD |-> IF sent = <<>> THEN -1 ELSE First(sent).value,
       withdrawAllTHUSD |-> gains.newTHUSDDeposit = 0]

wrapCollateralGainTransfer(logs) ==
  LET updated == First(extractEvents(logs, "borrowerOperations", "TroveUpdated"))
  IN  [gains |-> extractStabilityPoolGainsWithdrawalDetails(logs),
       newTrove |-> Trove(updated.coll, updated.debt)]

=============================================================================
