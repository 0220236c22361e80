---------------------------- MODULE Liquidations ----------------------------
(***************************************************************************)
(* Liquidation in the TroveManager: one trove in Normal Mode or Recovery   *)
(* Mode, the two sequences (a list of troves given by the caller, and the  *)
(* n lowest troves), and what follows a sequence.                          *)
(***************************************************************************)
EXTENDS TroveManager

ZeroVals ==
  [entireTroveDebt |-> 0, entireTroveColl |-> 0,
   collGasCompensation |-> 0, THUSDGasCompensation |-> 0,
   debtToOffset |-> 0, collToSendToSP |-> 0,
   debtToRedistribute |-> 0, collToRedistribute |-> 0, collSurplus |-> 0]

addLiquidationValuesToTotals(totals, vals) ==
  [f \in DOMAIN totals |-> totals[f] + vals[f]]

\* What a trove with entire debt and collateral owes and leaves behind when
\* offset covers the part debtToOffset of its debt.
LiquidationVals(debt, coll, debtToOffset) ==
  LET collGasCompensation == getCollGasCompensation(coll)
      collToLiquidate     == coll - collGasCompensation
      collToSendToSP      == (collToLiquidate * debtToOffset) \div debt
  IN  [entireTroveDebt |-> debt, entireTroveColl |-> coll,
       collGasCompensation |-> collGasCompensation,
       THUSDGasCompensation |-> THUSD_GAS_COMPENSATION,
       debtToOffset |-> debtToOffset,
       collToSendToSP |-> collToSendToSP,
       debtToRedistribute |-> debt - debtToOffset,
       collToRedistribute |-> collToLiquidate - collToSendToSP,
       collSurplus |-> 0]

\* Faulty variant: the collateral is not capped.
getCappedOffsetVals_NoCap(debt, coll, price) == LiquidationVals(debt, coll, debt)

getCappedOffsetVals(debt, coll, price) ==
  LET cappedCollPortion   == (debt * MCR) \div price
      collGasCompensation == getCollGasCompensation(cappedCollPortion)
  IN  [entireTroveDebt |-> debt, entireTroveColl |-> coll,
       collGasCompensation |-> collGasCompensation,
       THUSDGasCompensation |-> THUSD_GAS_COMPENSATION,
       debtToOffset |-> debt,
       collToSendToSP |-> cappedCollPortion - collGasCompensation,
       debtToRedistribute |-> 0, collToRedistribute |-> 0,
       collSurplus |-> coll - cappedCollPortion]

\* Move the pending rewards to the ActivePool, remove the stake and close.
closeLiquidated(w, b) ==
  closeTrove(
    removeStake(
      movePendingTroveRewardsToActivePool(
        w, getPendingTHUSDDebtReward(w, b), getPendingCollateralReward(w, b)),
      b),
    b, "closedByLiquidation")

\* TroveLiquidated, then TroveUpdated with zeroes.
emitLiquidated(w, b, operation) ==
  emitTroveUpdated(
    Emit(w, [event |-> "TroveLiquidated", user |-> b, operation |-> operation]),
    b, operation)

\* Faulty variant: the whole debt is offset as soon as the pool is not empty.
offsetAndRedistribute_NotCapped(w, b, THUSDInStabPool, operation) ==
  LET debt == entireDebt(w, b)
  IN  [w |-> emitLiquidated(closeLiquidated(w, b), b, operation),
       vals |-> LiquidationVals(debt, entireColl(w, b),
                                IF THUSDInStabPool = 0 THEN 0 ELSE debt)]

\* Offset as much as possible and redistribute the rest, in either mode.
offsetAndRedistribute(w, b, THUSDInStabPool, operation) ==
  LET debt == entireDebt(w, b)
  IN  [w |-> emitLiquidated(closeLiquidated(w, b), b, operation),
       vals |-> LiquidationVals(debt, entireColl(w, b),
                                MinOf(debt, THUSDInStabPool))]

liquidateNormalMode(w, b, THUSDInStabPool) ==
  offsetAndRedistribute(w, b, THUSDInStabPool, "liquidateInNormalMode")

\* The surplus of a capped liquidation, if there is one.
creditSurplus(w, b, collSurplus) ==
  IF collSurplus > 0 THEN accountSurplus(w, b, collSurplus) ELSE w

liquidateRecoveryMode(w, b, ICR, THUSDInStabPool, TCR, price) ==
  LET debt   == entireDebt(w, b)
      coll   == entireColl(w, b)
      capped == getCappedOffsetVals(debt, coll, price)
  IN  CASE Len(w.sortedTroves) <= 1 ->
             [w |-> w, vals |-> ZeroVals]
        [] Len(w.sortedTroves) > 1 /\ ICR <= DECIMAL_PRECISION ->
             [w |-> emitLiquidated(closeLiquidated(w, b), b,
                                   "liquidateInRecoveryMode"),
              vals |-> LiquidationVals(debt, coll, 0)]
        [] Len(w.sortedTroves) > 1 /\ ICR > DECIMAL_PRECISION /\ ICR < MCR ->
             offsetAndRedistribute(w, b, THUSDInStabPool,
                                   "liquidateInRecoveryMode")
        [] /\ Len(w.sortedTroves) > 1
           /\ ICR >= MCR /\ ICR < TCR /\ debt <= THUSDInStabPool ->
             [w |-> emitLiquidated(
                      creditSurplus(
                        Require(closeLiquidated(w, b), THUSDInStabPool # 0),
                        b, capped.collSurplus),
                      b, "liquidateInRecoveryMode"),
              vals |-> capped]
        [] OTHER ->
             [w |-> w, vals |-> ZeroVals]

-----------------------------------------------------------------------------
(* A sequence of liquidations.  s is the state of the loop: the contracts' *)
(* state, the totals, and the local trackers of the loop.                   *)

SequenceStart(w, THUSDInStabPool, price) ==
  [w |-> w, totals |-> ZeroVals,
   remainingTHUSDInStabPool |-> THUSDInStabPool,
   entireSystemDebt |-> getEntireSystemDebt(w),
   entireSystemColl |-> getEntireSystemColl(w),
   backToNormalMode |-> ~checkRecoveryMode(w, price),
   stopped |-> FALSE]

\* One iteration in Normal Mode, or after the sequence left Recovery Mode.
normalModeStep(s, b) ==
  LET r == liquidateNormalMode(s.w, b, s.remainingTHUSDInStabPool)
  IN  [s EXCEPT !.w = r.w,
                !.totals = addLiquidationValuesToTotals(@, r.vals),
                !.remainingTHUSDInStabPool = @ - r.vals.debtToOffset]

\* The loop's totals and the rest of the system after the liquidation r.
addRecoveryModeLiquidation(s, r, price) ==
  LET debtLeft == s.entireSystemDebt - r.vals.debtToOffset
      collLeft == s.entireSystemColl - (r.vals.collToSendToSP
                    + r.vals.collGasCompensation + r.vals.collSurplus)
  IN  [s EXCEPT !.w = r.w,
                !.totals = addLiquidationValuesToTotals(@, r.vals),
                !.remainingTHUSDInStabPool = @ - r.vals.debtToOffset,
                !.entireSystemDebt = debtLeft,
                !.entireSystemColl = collLeft,
                !.backToNormalMode = computeCR(collLeft, debtLeft, price) >= CCR]

recoveryModeStep(s, b, price) ==
  LET TCR == computeCR(s.entireSystemColl, s.entireSystemDebt, price)
  IN  addRecoveryModeLiquidation(s,
        liquidateRecoveryMode(s.w, b, getCurrentICR(s.w, b, price),
          s.remainingTHUSDInStabPool, TCR, price), price)

\* One iteration of a loop over troves: passes over the trove (a list given
\* by the caller) or ends the loop (the lowest troves, stop = TRUE) where it
\* is not to be liquidated.
sequenceStep(s, b, price, stop) ==
  LET ICR == getCurrentICR(s.w, b, price)
  IN  CASE s.stopped -> s
        [] ~s.stopped /\ s.backToNormalMode /\ ICR < MCR ->
             normalModeStep(s, b)
        [] /\ ~s.stopped /\ ~s.backToNormalMode
           /\ ~(ICR >= MCR /\ s.remainingTHUSDInStabPool = 0) ->
             recoveryModeStep(s, b, price)
        [] OTHER -> [s EXCEPT !.stopped = stop]

\* _getTotalFromBatchLiquidate_RecoveryMode and _NormalMode: troves that are
\* not active are passed over (in Normal Mode because their ICR is maximal).
batchSequence(w, troveArray, THUSDInStabPool, price) ==
  LET s[i \in 0..Len(troveArray)] ==
        IF i = 0
        THEN SequenceStart(w, THUSDInStabPool, price)
        ELSE IF s[i-1].w.status[troveArray[i]] = "active"
             THEN sequenceStep(s[i-1], troveArray[i], price, FALSE)
             ELSE s[i-1]
  IN  s[Len(troveArray)]

\* _getTotalsFromLiquidateTrovesSequence_RecoveryMode walks up from the last
\* trove and stops before the first; _NormalMode takes the last trove of the
\* list again and again, and has no such stop.
troveSequence(w, n, THUSDInStabPool, price) ==
  LET list == w.sortedTroves
      first == IF checkRecoveryMode(w, price) THEN 2 ELSE 1
      steps == MaxOf(0, MinOf(n, Len(list) + 1 - first))
      s[i \in 0..steps] ==
        IF i = 0
        THEN SequenceStart(w, THUSDInStabPool, price)
        ELSE sequenceStep(s[i-1], list[Len(list) + 1 - i], price, TRUE)
  IN  s[steps]

-----------------------------------------------------------------------------
(* After the sequence. *)

\* The part of StabilityPool.offset that touches other contracts; it
\* returns early when there is nothing to offset.
moveOffsetCollAndDebt(w, totals, totalTHUSD) ==
  IF totalTHUSD = 0 \/ totals.debtToOffset = 0
  THEN w
  ELSE activePoolSendCollateral(
         thusdBurn(activePoolDecreaseTHUSDDebt(w, totals.debtToOffset),
                   stabilityPoolAddress, totals.debtToOffset),
         stabilityPoolAddress, totals.collToSendToSP)

sendCollSurplus(w, collSurplus) ==
  collSurplusPoolReceive(
    activePoolSendCollateral(w, collSurplusPoolAddress, collSurplus), collSurplus)

sendGasCompensation(w, liquidator, totals) ==
  activePoolSendCollateral(
    thusdTransfer(w, gasPoolAddress, liquidator, totals.THUSDGasCompensation),
    liquidator, totals.collGasCompensation)

finishLiquidation(s, liquidator, totalTHUSD) ==
  LET t  == s.totals
      w1 == moveOffsetCollAndDebt(Require(s.w, t.entireTroveDebt > 0),
                                  t, totalTHUSD)
      w2 == redistributeDebtAndColl(w1, t.debtToRedistribute,
                                    t.collToRedistribute)
      w3 == sendCollSurplus(w2, t.collSurplus)
      w4 == updateSystemSnapshots_excludeCollRemainder(w3,
                                                       t.collGasCompensation)
      w5 == Emit(w4, [event |-> "Liquidation",
                      liquidatedDebt |-> t.entireTroveDebt,
                      liquidatedColl |-> t.entireTroveColl
                        - t.collGasCompensation - t.collSurplus,
                      collGasCompensation |-> t.collGasCompensation,
                      THUSDGasCompensation |-> t.THUSDGasCompensation])
  IN  sendGasCompensation(w5, liquidator, t)

=============================================================================
