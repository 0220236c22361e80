---------------------------- MODULE Redemptions ----------------------------
(***************************************************************************)
(* Redemption in the TroveManager: THUSD is exchanged at face value for    *)
(* the collateral of the troves with the lowest ratios, and the base rate  *)
(* of the fees.                                                            *)
(*                                                                         *)
(* The caller computes hints off-chain, and the list may have changed when *)
(* they are used: the first trove to redeem from is any account or 0, and  *)
(* the ratio expected after a partial redemption is right (hintFresh) or   *)
(* stale.  The time since the last fee operation appears as the factor     *)
(* decay by which the base rate has decayed.                               *)
(***************************************************************************)
EXTENDS TroveManager

CONSTANT HasPCV   \* whether setAddresses was given a PCV contract

ASSUME PCVAssumption == HasPCV \in BOOLEAN

-----------------------------------------------------------------------------
(* Base rate and fees. *)

calcDecayedBaseRate(w, decay) == (w.baseRate * decay) \div DECIMAL_PRECISION

decayBaseRateFromBorrowing(w, decay) ==
  [w EXCEPT !.baseRate = calcDecayedBaseRate(w, decay)]

updateBaseRateFromRedemption(w, collateralDrawn, price, supply, decay) ==
  LET redeemedTHUSDFraction == (collateralDrawn * price) \div supply
      newBaseRate ==
        MinOf(calcDecayedBaseRate(w, decay) + redeemedTHUSDFraction \div BETA,
              DECIMAL_PRECISION)
  IN  [Require(w, newBaseRate > 0) EXCEPT !.baseRate = newBaseRate]

calcRedemptionRate(rate) ==
  MinOf(REDEMPTION_FEE_FLOOR + rate, DECIMAL_PRECISION)

calcRedemptionFee(w, collateralDrawn) ==
  (calcRedemptionRate(w.baseRate) * collateralDrawn) \div DECIMAL_PRECISION

calcBorrowingRate(rate) == MinOf(BORROWING_FEE_FLOOR + rate, MAX_BORROWING_FEE)

getBorrowingFee(w, amount) ==
  (calcBorrowingRate(w.baseRate) * amount) \div DECIMAL_PRECISION

userAcceptsFee(fee, amount, maxFeePercentage) ==
  (fee * DECIMAL_PRECISION) \div amount <= maxFeePercentage

-----------------------------------------------------------------------------
(* One trove. *)

\* Faulty variant: the debt of the reserve stays in the ActivePool.
redeemCloseTrove_DebtStays(w, b, collateral) ==
  activePoolSendCollateral(
    collSurplusPoolReceive(
      accountSurplus(thusdBurn(w, gasPoolAddress, THUSD_GAS_COMPENSATION),
                     b, collateral),
      collateral),
    collSurplusPoolAddress, collateral)

redeemCloseTrove(w, b, collateral) ==
  activePoolSendCollateral(
    collSurplusPoolReceive(
      accountSurplus(
        activePoolDecreaseTHUSDDebt(
          thusdBurn(w, gasPoolAddress, THUSD_GAS_COMPENSATION),
          THUSD_GAS_COMPENSATION),
        b, collateral),
      collateral),
    collSurplusPoolAddress, collateral)

\* A partial redemption is cancelled when the hint is stale or too little
\* debt would remain; newColl is checked not to underflow.
redeemCollateralFromTrove(w, b, maxTHUSDamount, price, hintFresh, pos) ==
  LET lot     == MinOf(maxTHUSDamount, w.debt[b] - THUSD_GAS_COMPENSATION)
      collLot == (lot * DECIMAL_PRECISION) \div price
      newDebt == w.debt[b] - lot
      newColl == w.coll[b] - collLot
      checked == Require(w, newColl >= 0 /\ lot >= 0)
      done(next) == [w |-> next, lot |-> lot, collLot |-> collLot,
                     cancelledPartial |-> FALSE]
  IN  CASE ~checked.ok -> done(checked)
        [] checked.ok /\ newDebt = THUSD_GAS_COMPENSATION ->
             done(emitTroveUpdated(
                    redeemCloseTrove(
                      closeTrove(removeStake(w, b), b, "closedByRedemption"),
                      b, newColl),
                    b, "redeemCollateral"))
        [] /\ checked.ok /\ newDebt # THUSD_GAS_COMPENSATION
           /\ ~hintFresh \/ getNetDebt(newDebt) < MIN_NET_DEBT ->
             [w |-> w, lot |-> 0, collLot |-> 0, cancelledPartial |-> TRUE]
        [] OTHER ->
             done(emitTroveUpdated(
                    updateStakeAndTotalStakes(
                      [insertAt(w, b, computeNominalCR(newColl, newDebt), pos)
                         EXCEPT !.debt[b] = newDebt, !.coll[b] = newColl], b),
                    b, "redeemCollateral"))

-----------------------------------------------------------------------------
(* The loop over the troves. *)

isValidFirstRedemptionHint(w, hint, price) ==
  \E i \in 1..Len(w.sortedTroves) :
    /\ w.sortedTroves[i] = hint
    /\ getCurrentICR(w, hint, price) >= MCR
    /\ i < Len(w.sortedTroves) =>
         getCurrentICR(w, w.sortedTroves[i + 1], price) < MCR

\* Faulty variant: the ratio of the hint is not checked.
firstRedeemed_TrustedHint(w, hint, price) ==
  LET list == w.sortedTroves
      redeemable == {i \in 1..Len(list) : getCurrentICR(w, list[i], price) >= MCR}
      hinted == {i \in 1..Len(list) : list[i] = hint}
      from == IF hinted = {} THEN redeemable \cup {0} ELSE hinted
  IN  CHOOSE i \in from : \A j \in from : j <= i

\* The place in the list where the loop starts, 0 when there is none: the
\* hint if it is valid, else the last trove with ICR >= MCR.
firstRedeemed(w, hint, price) ==
  LET list == w.sortedTroves
      redeemable == {i \in 1..Len(list) :
                       /\ getCurrentICR(w, list[i], price) >= MCR
                       /\ isValidFirstRedemptionHint(w, hint, price) =>
                            list[i] = hint}
  IN  CHOOSE i \in redeemable \cup {0} :
        \A j \in redeemable \cup {0} : j <= i

\* The loop's totals after the redemption r from one trove.
addRedemption(s, r) ==
  [w |-> r.w,
   remainingTHUSD |-> s.remainingTHUSD - r.lot,
   totalTHUSDToRedeem |-> s.totalTHUSDToRedeem + r.lot,
   totalCollateralDrawn |-> s.totalCollateralDrawn + r.collLot,
   stopped |-> r.cancelledPartial \/ ~r.w.ok]

\* maxIterations = 0 is no limit.
redeemLoop(w, amount, hint, price, hintFresh, pos, maxIterations) ==
  LET list  == w.sortedTroves
      start == firstRedeemed(w, hint, price)
      steps == IF maxIterations = 0 THEN start ELSE MinOf(start, maxIterations)
      step(s, b) ==
        IF s.stopped \/ s.remainingTHUSD = 0
        THEN s
        ELSE addRedemption(s, redeemCollateralFromTrove(applyPendingRewards(s.w, b), b,
                                s.remainingTHUSD, price, hintFresh, pos))
      s[i \in 0..steps] ==
        IF i = 0
        THEN [w |-> w, remainingTHUSD |-> amount, totalTHUSDToRedeem |-> 0,
              totalCollateralDrawn |-> 0, stopped |-> FALSE]
        ELSE step(s[i-1], list[start + 1 - i])
  IN  s[steps]

\* What happens to the collateral drawn and the THUSD redeemed.
settleRedemption(s, redeemer, attempted, price, supply, maxFeePercentage, decay) ==
  LET drawn == s.totalCollateralDrawn
      rated == updateBaseRateFromRedemption(s.w, drawn, price, supply, decay)
      fee   == calcRedemptionFee(rated, drawn)
      paid  == IF HasPCV THEN activePoolSendCollateral(rated, pcvAddress, fee) ELSE rated
  IN  activePoolSendCollateral(
        activePoolDecreaseTHUSDDebt(
          thusdBurn(
            Emit(Require(paid, /\ fee < drawn
                               /\ userAcceptsFee(fee, drawn, maxFeePercentage)),
                 [event |-> "Redemption", attempted |-> attempted,
                  actual |-> s.totalTHUSDToRedeem,
                  collateralSent |-> drawn, fee |-> fee]),
            redeemer, s.totalTHUSDToRedeem),
          s.totalTHUSDToRedeem),
        redeemer, drawn - fee)

redeemCollateral(w, redeemer, amount, hint, hintFresh, pos, maxIterations, maxFee, price, feedStatus, decay) ==
  LET supply  == getEntireSystemDebt(w)
      checked == Require(w,
                   /\ maxFee \in REDEMPTION_FEE_FLOOR..DECIMAL_PRECISION
                   /\ feedStatus \in {"stale", "disabled"}
                   /\ getTCR(w, price) >= MCR
                   /\ amount > 0
                   /\ w.thusd[redeemer] >= amount
                   /\ w.thusd[redeemer] <= supply)
      settled(s) ==
        IF s.w.ok /\ s.totalCollateralDrawn > 0
        THEN settleRedemption(s, redeemer, amount, price, supply, maxFee, decay)
        ELSE Require(s.w, FALSE)
      called(v) ==
        IF v.ok
        THEN settled(redeemLoop(v, amount, hint, price, hintFresh, pos, maxIterations))
        ELSE v
  IN  called(checked)

=============================================================================
