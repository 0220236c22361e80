------------------------------- MODULE Fuzzer -------------------------------
(***************************************************************************)
(* The fuzzer: a program that sends random transactions through the client *)
(* and says of each, from what it has just read, whether the contracts     *)
(* will refuse it.  A prediction is made with the client's arithmetic,     *)
(* before the transaction that pays for the operation, and the contracts   *)
(* decide after it.                                                        *)
(*                                                                         *)
(* As elsewhere w is the storage, and not ok when a call was refused or    *)
(* the program threw.  this.price of the fuzzer is what the feed answers.  *)
(* Every client places a trove where it fits, so a call is refused only if *)
(* it is refused at every position.  The collateral the funder gives away  *)
(* is not limited.  registerFrontend, gas and the printed text are left    *)
(* out; random numbers are hundredths from a small set.                    *)
(***************************************************************************)
EXTENDS MCLiquity

CONSTANTS
  Randoms,        \* what Math.random answers, in hundredths
  RandomValues,   \* what benford answers
  DebtPerValue,   \* debt of a random trove per unit of the random value
  tinyDifference, \* 10^-9, which rounding must not exceed
  LowestPrice     \* the price at which order liquidates

ASSUME FuzzerAssumption ==
  /\ Randoms \subseteq 0..99 /\ RandomValues \subseteq Nat \ {0}
  /\ DebtPerValue \in Nat \ {0} /\ tinyDifference \in Nat /\ LowestPrice \in Nat \ {0}

OneHundredth == DECIMAL_PRECISION \div 100

\* The first position at which a call goes through; any of them if none does.
Placed(call) ==
  LET ok == {pos \in Positions : call[pos].ok}
  IN  call[CHOOSE pos \in Positions : ok # {} => pos \in ok]

-----------------------------------------------------------------------------
(* Random inputs *)

benford(max) == {n \in RandomValues : n < max} \cup {1}

createRandomTrove(randomValue) ==
  LET value   == DECIMAL_PRECISION * randomValue
      maxDebt == mul(price, value) \div DECIMAL_PRECISION
      debt    == THUSD_GAS_COMPENSATION + DebtPerValue * randomValue
  IN  {Trove(value, THUSD_GAS_COMPENSATION + DECIMAL_PRECISION * (maxDebt - n)) :
         n \in {n \in benford(maxDebt) : n <= maxDebt}}
      \cup
      {Trove(mul(decimalDiv(debt, price), OneHundredth * (100 + 10 * n)), debt) :
         n \in RandomValues}

\* Up to 110% is withdrawn or repaid, up to 50% deposited or borrowed.
randomCollateralChange(trove) ==
  {[NoParams EXCEPT !.withdrawCollateral =
      mul(trove.collateral, (110 * OneHundredth * r) \div 100)] : r \in Randoms}
  \cup
  {[NoParams EXCEPT !.depositCollateral =
      mul(trove.collateral, (50 * OneHundredth * r) \div 100)] : r \in Randoms}

randomDebtChange(trove) ==
  {[NoParams EXCEPT !.repayTHUSD =
      mul(trove.debt, (110 * OneHundredth * r) \div 100)] : r \in Randoms}
  \cup
  {[NoParams EXCEPT !.borrowTHUSD =
      mul(trove.debt, (50 * OneHundredth * r) \div 100)] : r \in Randoms}

randomChange(trove) ==
  randomCollateralChange(trove) \cup randomDebtChange(trove) \cup
  {[c EXCEPT !.repayTHUSD = d.repayTHUSD, !.borrowTHUSD = d.borrowTHUSD] :
     c \in randomCollateralChange(trove), d \in randomDebtChange(trove)}

-----------------------------------------------------------------------------
(* The funder *)

\* What the funder's trove is to become so that it can pay missing: twice that is
\* borrowed, at 151%, or in Recovery Mode just above the present ratio.
fundersTrove(trove, total, missing) ==
  LET critical == collateralRatioIsBelowCritical(total, price)
      ratio == IF isEmpty(trove) \/ ~critical
               THEN 151 * OneHundredth
               ELSE MaxOf(collateralRatio(trove, price) + 1, 111 * OneHundredth)
      debt  == MaxOf((IF isEmpty(trove) THEN THUSD_GAS_COMPENSATION ELSE trove.debt)
                       + 2 * missing,
                     THUSD_MINIMUM_DEBT)
      new   == Trove(mulDiv(debt, ratio, price), debt)
      newTotal == subtract(add(total, new), trove)
      safe  == [newTotal EXCEPT !.collateral =
                  mulDiv(newTotal.debt, 151 * OneHundredth, price)]
  IN  IF ~isEmpty(trove) /\ ~critical /\ collateralRatioIsBelowCritical(newTotal, price)
      THEN subtract(add(trove, safe), total)
      ELSE new

\* The change of u's trove to one that was worked out, sent through the client.
changeTroveTo(w, u, new, decay) ==
  LET sent(change) ==
        IF change.type \in {"creation", "adjustment"}
        THEN Placed([pos \in Positions |->
               sendVaultChange(w, u, change, pos, price, feedStatus, decay)])
        ELSE Require(w, FALSE)
  IN  sent(whatChanged(getTrove(w, u), new, getBorrowingRate(w, price, decay)))

sendTHUSDFromFunder(w, funder, to, amount, decay) ==
  LET funded == IF w.thusd[funder] < amount
                THEN changeTroveTo(w, funder,
                       fundersTrove(getTrove(w, funder), getTotal(w),
                                    amount - w.thusd[funder]), decay)
                ELSE w
  IN  thusdTransfer(funded, funder, to, amount)

-----------------------------------------------------------------------------
(* Predictions.  total is read before the funder pays. *)

cannotOpen(total, trove) ==
  \/ trove.debt < THUSD_MINIMUM_DEBT
  \/ IF collateralRatioIsBelowCritical(total, price)
     THEN ~isOpenableInRecoveryMode(trove, price)
     ELSE \/ collateralRatioIsBelowMinimum(trove, price)
          \/ collateralRatioIsBelowCritical(add(total, trove), price)

\* A parameter that is undefined compares as FALSE, as a zero does.
cannotAdjust(total, trove, params, borrowingRate) ==
  LET adjusted == adjust(trove, params, borrowingRate)
  IN  \/ params.withdrawCollateral >= trove.collateral
      \/ params.repayTHUSD > trove.debt - THUSD_MINIMUM_DEBT
      \/ /\ params.withdrawCollateral > 0 \/ params.borrowTHUSD > 0
         /\ \/ collateralRatioIsBelowMinimum(adjusted, price)
            \/ IF collateralRatioIsBelowCritical(total, price)
               THEN nominalCollateralRatio(adjusted) < nominalCollateralRatio(trove)
               ELSE collateralRatioIsBelowCritical(
                      subtract(add(total, adjusted), trove), price)

cannotWithdraw(w, amount) ==
  LET lastTrove == getTroves(w, "ascendingCollateralRatio", 0, 1)[1]
  IN  amount # 0 /\ collateralRatioIsBelowMinimum(getTrove(w, lastTrove), price)

-----------------------------------------------------------------------------
(* Operations: what is expected, whether the program got as far as trying it, and   *)
(* whether the contracts accepted it.                                               *)

Attempt(operation, expected, before, after) ==
  [operation |-> operation, expected |-> expected, tried |-> before.ok, done |-> after.ok]

expectation(cannot) == IF cannot THEN "failure" ELSE "success"

openRandomTrove(w, u, trove, decay) ==
  LET rate   == getBorrowingRate(w, price, decay)
      params == whatChanged(emptyTrove, trove, rate).params
  IN  Attempt("open", expectation(cannotOpen(getTotal(w), trove)), w,
        Placed([pos \in Positions |->
          populateOpenTrove(w, u, params, pos, price, feedStatus, decay)]))

randomlyAdjustTrove(w, funder, u, params, decay) ==
  LET trove  == getTrove(w, u)
      cannot == cannotAdjust(getTotal(w), trove, params, getBorrowingRate(w, price, decay))
      adjusted(paid) ==
        Attempt("adjust", expectation(cannot), paid,
          Placed([pos \in Positions |->
            populateAdjustTrove(paid, u, params, pos, price, decay)]))
  IN  adjusted(IF params.repayTHUSD > 0
               THEN sendTHUSDFromFunder(w, funder, u, params.repayTHUSD, decay)
               ELSE w)

\* Skipped in Recovery Mode.
closeRandomTrove(w, funder, u, decay) ==
  LET closed(paid) == Attempt("close", "success", paid, closeTroveByOwner(paid, u, price))
  IN  IF collateralRatioIsBelowCritical(getTotal(w), price)
      THEN Attempt("close", "skipped", w, w)
      ELSE closed(sendTHUSDFromFunder(w, funder, u, netDebt(getTrove(w, u)), decay))

\* Skipped below the minimum ratio; "amount too low to redeem" is caught.
redeemRandomAmount(w, funder, u, amount, decay) ==
  LET redeemable(paid) ==
        getRedemptionHints(paid, amount, price, redeemMaxIterations).truncatedTHUSDamount
      redeemed(paid) ==
        Attempt("redeem", IF redeemable(paid) = 0 THEN "skipped" ELSE "success", paid,
          Placed([pos \in Positions |->
            redeemTHUSD(paid, u, amount, pos, price, feedStatus, decay)]))
  IN  IF collateralRatioIsBelowMinimum(getTotal(w), price)
      THEN Attempt("redeem", "skipped", w, w)
      ELSE redeemed(sendTHUSDFromFunder(w, funder, u, amount, decay))

\* The other contracts' part of a deposit, which the Stability Pool never refuses.
depositRandomAmountInStabilityPool(w, funder, u, amount, decay) ==
  LET deposited(paid) ==
        Attempt("deposit", "success", paid, thusdTransfer(paid, u, stabilityPoolAddress, amount))
  IN  deposited(sendTHUSDFromFunder(w, funder, u, amount, decay))

\* Up to 110% of the deposit.  The pool's part: it asks the ratio of the last trove,
\* and for a deposit.  Without any trove the program throws.
withdrawRandomAmountFromStabilityPool(w, u, r) ==
  LET amount == mul(getCompoundedTHUSDDeposit(u), (110 * OneHundredth * r) \div 100) + r
      accepted == (amount # 0 => lowestICR >= MCR) /\ deposits[u] > 0
  IN  IF w.sortedTroves = <<>>
      THEN Attempt("withdraw", "skipped", Require(w, FALSE), w)
      ELSE Attempt("withdraw", expectation(cannotWithdraw(w, amount)), w, Require(w, accepted))

\* Before the turns of a round; the troves are listed with their shares.
liquidateRandomNumberOfTroves(w, n) ==
  LET troves == getTroves(w, "descendingCollateralRatio", 0, getNumberOfTroves(w))
      some   == /\ troves # <<>>
                /\ collateralRatioIsBelowMinimum(getTrove(w, troves[Len(troves)]), price)
  IN  Attempt("liquidate", IF some THEN "success" ELSE "skipped", w,
        finishLiquidation(troveSequence(w, n, totalTHUSDDeposits, price), 1,
          totalTHUSDDeposits))

\* One turn of a user of chaos.
chaosTurn(w, funder, u, decay) ==
  LET trove == getTrove(w, u)
      onTrove ==
        IF isEmpty(trove)
        THEN {openRandomTrove(w, u, new, decay) :
                new \in UNION {createRandomTrove(n) : n \in RandomValues}}
        ELSE {closeRandomTrove(w, funder, u, decay)} \cup
             {randomlyAdjustTrove(w, funder, u, params, decay) :
                params \in randomChange(trove) \ {NoParams}}
      onDeposit ==
        {depositRandomAmountInStabilityPool(w, funder, u, DECIMAL_PRECISION * n, decay) :
           n \in RandomValues}
        \cup IF deposits[u] = 0 THEN {}
             ELSE {withdrawRandomAmountFromStabilityPool(w, u, r) : r \in Randoms}
  IN  onTrove \cup onDeposit \cup
      {redeemRandomAmount(w, funder, u, DECIMAL_PRECISION * n, decay) : n \in RandomValues}

-----------------------------------------------------------------------------
(* Checks after every turn *)

roughlyEqual(a, b) ==
  /\ MaxOf(a.collateral, b.collateral) - MinOf(a.collateral, b.collateral)
       <= tinyDifference
  /\ MaxOf(a.debt, b.debt) - MinOf(a.debt, b.debt) <= tinyDifference

\* No trove is above the one before it in the list.
sortedByICR(w) ==
  LET ratio(i) == collateralRatio(getTrove(w, w.sortedTroves[i]), price)
  IN  \A i \in 2..Len(w.sortedTroves) : ratio(i) <= ratio(i - 1) + tinyDifference

\* The troves as recorded belong to the ActivePool, their shares of liquidated troves
\* to the DefaultPool.
checkPoolBalances(w) ==
  LET active(u) == Trove(w.coll[u], w.debt[u])
      share(u)  == subtract(getTrove(w, u), active(u))
      sum(trove) == Trove(Total([u \in Users |-> trove[u].collateral]),
                          Total([u \in Users |-> trove[u].debt]))
  IN  /\ roughlyEqual(sum([u \in Users |-> active(u)]),
           Trove(w.activePool.collateral, w.activePool.THUSDDebt))
      /\ roughlyEqual(sum([u \in Users |-> share(u)]),
           Trove(w.defaultPool.collateral, w.defaultPool.THUSDDebt))

-----------------------------------------------------------------------------
(* order: the funder's trove is made the first of the list, every other one is *)
(* liquidated, and what is left must be all there is.                           *)

hoistFunder(w, funder, decay) ==
  LET first  == getTrove(w, getTroves(w, "descendingCollateralRatio", 0, 1)[1])
      ratio  == MaxOf(collateralRatio(first, price) + 1, 151 * OneHundredth)
      trove  == getTrove(w, funder)
      debt   == IF isEmpty(trove) THEN THUSD_MINIMUM_DEBT ELSE trove.debt
  IN  IF w.sortedTroves[1] = funder
      THEN w
      ELSE changeTroveTo(w, funder, Trove(mulDiv(debt, ratio, price), debt), decay)

\* At most ten in a call: here one call is enough.
liquidateOthers(w, funder) ==
  finishLiquidation(
    troveSequence(w, getNumberOfTroves(w) - 1, totalTHUSDDeposits, LowestPrice),
    funder, totalTHUSDDeposits)

order(w, funder, decay) ==
  LET liquidated(hoisted) ==
        Require(IF getNumberOfTroves(hoisted) > 1
                THEN liquidateOthers(hoisted, funder) ELSE hoisted,
                hoisted.ok /\ hoisted.sortedTroves[1] = funder)
  IN  liquidated(hoistFunder(w, funder, decay))

-----------------------------------------------------------------------------

\* What the fuzzer expects to fail does fail, at every place in the list, although the
\* funder borrows between the prediction and the call, and what it expects of new
\* troves, deposits, withdrawals and liquidations does succeed.  Left out is the success
\* that it expects of adjustments, closures and redemptions: it does not look at all that
\* the contracts ask of these, such as the ratio that a closed trove leaves the system with
\* or what Recovery Mode forbids, and they refuse some (fixture.ts, expectSuccess).
PredictionsHold ==
  /\ getNumberOfTroves(system) > 1 =>
       \A n \in 1..NumUsers :
         LET a == liquidateRandomNumberOfTroves(system, n)
         IN  a.expected = "success" => a.done
  /\ system.mintList /\ feedStatus = "active" =>
    \A funder \in Users, decay \in DecayFactors :
      \A u \in Users \ {funder} : \A a \in chaosTurn(system, funder, u, decay) :
        a.tried =>
          /\ a.expected = "failure" => ~a.done
          /\ /\ a.expected = "success"
             /\ a.operation \in {"open", "deposit", "withdraw"}
             => a.done

\* "ordering is broken" and "discrepancy between Troves & Pools" (utils.ts) are never
\* thrown: what redistributions round away neither turns the list round nor grows in
\* the DefaultPool, over any sequence.
FuzzerChecksPass == sortedByICR(system) /\ checkPoolBalances(system)

\* "didn't manage to liquidate every Trove" (chaos.ts) is never thrown, and the
\* discrepancies that order prints are dust: wherever it starts, the debt and the
\* collateral of all other troves end up in the funder's trove or are paid out.
OrderLeavesOneTrove ==
  system.sortedTroves # <<>> /\ system.mintList /\ feedStatus = "active" =>
    \A funder \in Users, decay \in DecayFactors :
      LET isAllThereIs(left) ==
            left.ok => /\ left.sortedTroves = <<funder>>
                       /\ roughlyEqual(getTotal(left), getTrove(left, funder))
      IN  isAllThereIs(order(system, funder, decay))

\* The fuzzer is right about the contracts in what the three parts say, in any state: its
\* predictions but those left out there, the checks of the list and of the pools after
\* every turn, and what order leaves.  Its third check, checkSubgraph (chaos.ts), is not
\* part of it: SubgraphTotalsAgree is about what that one compares.
FuzzerIsRight == PredictionsHold /\ FuzzerChecksPass /\ OrderLeavesOneTrove

=============================================================================
