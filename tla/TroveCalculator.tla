--------------------------- MODULE TroveCalculator ---------------------------
(***************************************************************************)
(* The client's own arithmetic (lib-base): Decimal, Trove and Fees.  The   *)
(* client shows a borrower what a transaction will do before it is sent,   *)
(* so it computes again what the contracts compute, with its own rounding. *)
(*                                                                         *)
(* A Decimal is a number of DECIMAL_PRECISION-ths, MaxUint is INFINITY.    *)
(* A trove is a pair of collateral and debt.  Decimal is unsigned only by  *)
(* convention, so a subtraction that could go below zero is guarded in the *)
(* code.  A parameter that is not defined is 0: the code never gives the   *)
(* value zero a meaning of its own in an adjustment.                       *)
(***************************************************************************)
EXTENDS LiquityBase

CONSTANTS
  MINIMUM_BORROWING_RATE,
  MAXIMUM_BORROWING_RATE,
  MINIMUM_REDEMPTION_RATE

\* MINIMUM_BORROWING_RATE, MAXIMUM_BORROWING_RATE and MINIMUM_REDEMPTION_RATE are
\* Decimals from constants.ts.
ASSUME RatesAssumption ==
  /\ MINIMUM_BORROWING_RATE \in Nat /\ MAXIMUM_BORROWING_RATE \in Nat
  /\ MINIMUM_REDEMPTION_RATE \in Nat

-----------------------------------------------------------------------------
(* Decimal *)

mul(a, b) == (a * b) \div DECIMAL_PRECISION

decimalDiv(a, b) ==
  IF b = 0 THEN MaxUint ELSE (a * DECIMAL_PRECISION) \div b

divCeil(a, b) ==
  IF b = 0 THEN MaxUint ELSE (a * DECIMAL_PRECISION + b - 1) \div b

mulDiv(a, multiplier, divider) ==
  IF divider = 0 THEN MaxUint ELSE (a * multiplier) \div divider

-----------------------------------------------------------------------------
(* Trove *)

Trove(collateral, debt) == [collateral |-> collateral, debt |-> debt]

emptyTrove == Trove(0, 0)

isEmpty(trove) == trove = emptyTrove

\* Only used where debt >= THUSD_GAS_COMPENSATION; the code throws otherwise.
netDebt(trove) == trove.debt - THUSD_GAS_COMPENSATION

nominalCollateralRatio(trove) ==
  mulDiv(trove.collateral, 100 * DECIMAL_PRECISION, trove.debt)

collateralRatio(trove, price) == mulDiv(trove.collateral, price, trove.debt)

collateralRatioIsBelowMinimum(trove, price) == collateralRatio(trove, price) < MCR

collateralRatioIsBelowCritical(trove, price) == collateralRatio(trove, price) < CCR

isOpenableInRecoveryMode(trove, price) == collateralRatio(trove, price) >= CCR

add(a, b) == Trove(a.collateral + b.collateral, a.debt + b.debt)

\* Each part stops at zero.
subtract(a, b) ==
  Trove(MaxOf(a.collateral - b.collateral, 0), MaxOf(a.debt - b.debt, 0))

multiply(trove, multiplier) ==
  Trove(mul(trove.collateral, multiplier), mul(trove.debt, multiplier))

\* The shares of liquidated troves since the owner's last operation.
applyRedistribution(trove, stake, snapshot, totalRedistributed) ==
  add(trove, multiply(subtract(totalRedistributed, snapshot), stake))

-----------------------------------------------------------------------------
(* Changes of a trove *)

NoParams == [depositCollateral |-> 0, withdrawCollateral |-> 0,
             borrowTHUSD |-> 0, repayTHUSD |-> 0]

\* `throws' where the code throws or fails an assertion.
Change(type, params, setToZero) ==
  [type |-> type, params |-> params, setToZero |-> setToZero]

throws == Change("throws", NoParams, "none")

invalidTroveCreation(trove) == [type |-> "invalidCreation", invalidTrove |-> trove]

applyFee(borrowingRate, debtIncrease) ==
  mul(debtIncrease, DECIMAL_PRECISION + borrowingRate)

\* Faulty variant: the amount to borrow is rounded down.
unapplyFee_Floor(borrowingRate, debtIncrease) ==
  decimalDiv(debtIncrease, DECIMAL_PRECISION + borrowingRate)

unapplyFee(borrowingRate, debtIncrease) ==
  divCeil(debtIncrease, DECIMAL_PRECISION + borrowingRate)

\* _normalizeTroveAdjustment rejects no change, and both directions at once.
normalizeTroveAdjustment(params) ==
  IF \/ params.depositCollateral > 0 /\ params.withdrawCollateral > 0
     \/ params.borrowTHUSD > 0 /\ params.repayTHUSD > 0
     \/ params = NoParams
  THEN throws
  ELSE Change("adjustment", params, "none")

\* _normalizeTroveCreation: exactly the two keys of a creation.
normalizeTroveCreation(params) ==
  IF params.withdrawCollateral > 0 \/ params.repayTHUSD > 0
  THEN throws
  ELSE Change("creation", params, "none")

\* _debtChange and _collateralChange together: one direction of each.
changedParams(from, to, borrowingRate) ==
  [depositCollateral  |-> MaxOf(to.collateral - from.collateral, 0),
   withdrawCollateral |-> MaxOf(from.collateral - to.collateral, 0),
   borrowTHUSD |-> IF to.debt > from.debt
                   THEN unapplyFee(borrowingRate, to.debt - from.debt) ELSE 0,
   repayTHUSD  |-> MaxOf(from.debt - to.debt, 0)]

\* "same" is the code's undefined.
whatChanged(from, to, borrowingRate) ==
  CASE from = to -> Change("same", NoParams, "none")
    [] from # to /\ isEmpty(from) ->
         IF to.debt < THUSD_GAS_COMPENSATION
         THEN invalidTroveCreation(to)
         ELSE Change("creation",
                [NoParams EXCEPT !.depositCollateral = to.collateral,
                                 !.borrowTHUSD = unapplyFee(borrowingRate, netDebt(to))],
                "none")
    [] from # to /\ isEmpty(to) /\ ~isEmpty(from) ->
         Change("closure",
           [NoParams EXCEPT !.withdrawCollateral = from.collateral,
                            !.repayTHUSD = netDebt(from)],
           "none")
    [] OTHER ->
         Change("adjustment", changedParams(from, to, borrowingRate),
           CASE to.debt = 0 /\ to.debt # from.debt -> "debt"
             [] to.debt # 0 /\ to.collateral = 0 /\ from.collateral # 0 -> "collateral"
             [] OTHER -> "none")

applyAdjustment(trove, change, borrowingRate) ==
  LET p == change.params
      increased == add(trove, Trove(p.depositCollateral,
                                    applyFee(borrowingRate, p.borrowTHUSD)))
      result == subtract(increased, Trove(p.withdrawCollateral, p.repayTHUSD))
  IN  CASE change.setToZero = "collateral" -> [result EXCEPT !.collateral = 0]
        [] change.setToZero = "debt" -> [result EXCEPT !.debt = 0]
        [] OTHER -> result

\* The change is one of this trove: creating onto a trove that exists, and
\* closing none, throws.
apply(trove, change, borrowingRate) ==
  CASE change.type = "adjustment" -> applyAdjustment(trove, change, borrowingRate)
    [] change.type = "creation" ->
         Trove(change.params.depositCollateral,
               THUSD_GAS_COMPENSATION
                 + applyFee(borrowingRate, change.params.borrowTHUSD))
    [] change.type = "invalidCreation" -> change.invalidTrove
    [] change.type = "closure" -> emptyTrove
    [] OTHER -> trove

\* Trove.create and Trove.adjust
create(params, borrowingRate) ==
  apply(emptyTrove, normalizeTroveCreation(params), borrowingRate)

adjust(trove, params, borrowingRate) ==
  apply(trove, normalizeTroveAdjustment(params), borrowingRate)

-----------------------------------------------------------------------------
(* Fees: baseRate is the base rate decayed to the time of the block. *)

feesBorrowingRate(baseRate, recoveryMode) ==
  IF recoveryMode
  THEN 0
  ELSE MinOf(MINIMUM_BORROWING_RATE + baseRate, MAXIMUM_BORROWING_RATE)

feesRedemptionRate(baseRate, redeemedFractionOfSupply, beta) ==
  MinOf(MINIMUM_REDEMPTION_RATE + baseRate + redeemedFractionOfSupply \div beta,
        DECIMAL_PRECISION)
=============================================================================
