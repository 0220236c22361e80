------------------------------ MODULE Subgraph ------------------------------
(***************************************************************************)
(* The subgraph: an index of the protocol that a Graph node builds from    *)
(* the events of the contracts, and the reads SubgraphLiquity makes of it. *)
(*                                                                         *)
(* A handler is an operator from the index g to the next g; index(g,       *)
(* events) runs the handlers of a transaction in the order of its events.  *)
(* Amounts are counted in units of 1e-18 on both sides, so decimalize is   *)
(* a change of notation, and truncate(18) is \div.                         *)
(***************************************************************************)
EXTENDS Pools

LOCAL SX == INSTANCE SequencesExt

NoTrove ==
  [status |-> "nonExistent", collateral |-> 0, debt |-> 0, stake |-> 0,
   snapshotCollateral |-> 0, snapshotDebt |-> 0]

\* getGlobal, getCurrentSystemState, getUser, getStabilityDeposit and
\* getTokenBalance of entities that do not exist yet.
InitSubgraph ==
  [trove |-> [u \in Users |-> NoTrove],
   numberOfTroves |-> [s \in {"open", "closedByOwner", "closedByLiquidation",
                              "closedByRedemption"} |-> 0],
   totalRedistributedCollateral |-> 0, totalRedistributedDebt |-> 0,
   totalBorrowingFeesPaid |-> 0,
   currentLiquidation |-> FALSE, currentRedemption |-> FALSE,
   tmpDepositUpdate |-> -1,      \* -1 stands for null
   price |-> 0, totalCollateral |-> 0, totalDebt |-> 0,
   tokensInStabilityPool |-> 0, collSurplusPoolBalance |-> 0,
   collSurplus |-> [u \in Users |-> 0],
   depositedAmount |-> [u \in Users |-> 0],
   totalSupply |-> 0, balance |-> [a \in Accounts |-> 0]]

-----------------------------------------------------------------------------
(* Trove.ts and TroveOperation.ts *)

isBorrowerOperation(operation) ==
  operation \in {"openTrove", "closeTrove", "adjustTrove"}

isLiquidation(operation) ==
  operation \in {"liquidateInNormalMode", "liquidateInRecoveryMode"}

isRedemption(operation) == operation = "redeemCollateral"

\* getTroveOperationFromTroveManagerOperation and ...FromBorrowerOperation
troveOperation(operation) ==
  IF operation = "applyPendingRewards" THEN "accrueRewards" ELSE operation

\* A trove that is not in the index is a new one, counted as open.
getTroveEntity(g, u) ==
  IF g.trove[u].status = "nonExistent"
  THEN [g EXCEPT !.trove[u].status = "open", !.numberOfTroves["open"] = @ + 1]
  ELSE g

\* The counters of Global.ts move with every change of a status.
setTroveStatus(g, u, status) ==
  LET before == g.trove[u].status
  IN  IF status = before
      THEN g
      ELSE [g EXCEPT !.trove[u].status = status,
                     !.numberOfTroves[before] = @ - 1,
                     !.numberOfTroves[status] = @ + 1]

calculateCollateralRatio(coll, debt, price) ==
  IF debt = 0 THEN -1 ELSE (coll * price) \div debt   \* -1 stands for null

tryToOffsetWithTokensFromStabilityPool(g, coll, debt) ==
  CASE debt <= g.tokensInStabilityPool ->
         [g EXCEPT !.totalCollateral = @ - coll, !.totalDebt = @ - debt,
                   !.tokensInStabilityPool = @ - debt]
    [] debt > g.tokensInStabilityPool /\ g.tokensInStabilityPool > 0 ->
         [g EXCEPT !.totalCollateral =
                      @ - (coll * g.tokensInStabilityPool) \div debt,
                   !.totalDebt = @ - g.tokensInStabilityPool,
                   !.tokensInStabilityPool = 0]
    [] OTHER -> g

\* before and after are the amounts of the trove.  The index works out again
\* how a liquidation was settled.
updateSystemStateByTroveChange(g, operation, before, after) ==
  LET gasCompensation == before.collateral \div PERCENT_DIVISOR
      paid == [g EXCEPT !.totalCollateral = @ - gasCompensation]
  IN  CASE isBorrowerOperation(operation) \/ isRedemption(operation) ->
             [g EXCEPT
                !.totalCollateral = @ + after.collateral - before.collateral,
                !.totalDebt = @ + after.debt - before.debt]
        [] isLiquidation(operation) ->
             IF \/ operation # "liquidateInRecoveryMode"
                \/ calculateCollateralRatio(before.collateral, before.debt,
                                            g.price) > DECIMAL_PRECISION
             THEN tryToOffsetWithTokensFromStabilityPool(
                    paid, before.collateral - gasCompensation, before.debt)
             ELSE paid
        [] OTHER -> g

snapshotsAfter(g, before, stake) ==
  IF stake = 0
  THEN [collateral |-> 0, debt |-> 0]
  ELSE [collateral |-> g.totalRedistributedCollateral,
        debt |-> g.totalRedistributedDebt]

\* Faulty variant: a redeemed trove is taken for one its owner closed.
statusAfter_ByOwner(operation, coll) ==
  CASE coll # 0 -> "open"
    [] coll = 0 /\ isLiquidation(operation) -> "closedByLiquidation"
    [] OTHER -> "closedByOwner"

statusAfter(operation, coll) ==
  CASE coll # 0 -> "open"
    [] coll = 0 /\ isLiquidation(operation) -> "closedByLiquidation"
    [] coll = 0 /\ isRedemption(operation) -> "closedByRedemption"
    [] OTHER -> "closedByOwner"

\* A change that leaves both amounts alone is ignored altogether.
updateTrove(g, operation, u, coll, debt, stake) ==
  LET loaded == getTroveEntity(g, u)
      before == loaded.trove[u]
      taken  == snapshotsAfter(g, before, stake)
      after  == [status |-> before.status, collateral |-> coll, debt |-> debt,
                 stake |-> stake, snapshotCollateral |-> taken.collateral,
                 snapshotDebt |-> taken.debt]
      totals == updateSystemStateByTroveChange(loaded, operation, before, after)
  IN  IF coll = before.collateral /\ debt = before.debt
      THEN loaded
      ELSE setTroveStatus(
             [totals EXCEPT
                !.trove[u] = after,
                !.currentLiquidation = @ \/ isLiquidation(operation),
                !.currentRedemption = @ \/ isRedemption(operation)],
             u, statusAfter(operation, coll))

applyRedistributionToTroveBeforeLiquidation(g, u) ==
  LET trove == g.trove[u]
      share(total, snapshot) ==
        ((total - snapshot) * trove.stake) \div DECIMAL_PRECISION
  IN  updateTrove(g, "accrueRewards", u,
        trove.collateral + share(g.totalRedistributedCollateral,
                                 trove.snapshotCollateral),
        trove.debt + share(g.totalRedistributedDebt, trove.snapshotDebt),
        0)

-----------------------------------------------------------------------------
(* StabilityDeposit.ts and mappings/StabilityPool.ts: each call of the pool  *)
(* emits two events, in either order.  The first leaves a note for the       *)
(* second in tmpDepositUpdate.                                               *)

\* deposit TRUE: tokens were moved, and not only a loss accounted for.
updateStabilityDeposit(g, u, amount, deposit) ==
  [g EXCEPT !.depositedAmount[u] = amount,
            !.tokensInStabilityPool =
               IF deposit THEN @ + amount - g.depositedAmount[u] ELSE @]

swapTmpDepositUpdate(g, valueToSetIfNull) ==
  [g EXCEPT !.tmpDepositUpdate = IF @ = -1 THEN valueToSetIfNull ELSE -1]

handleUserDepositChanged(g, u, newDeposit) ==
  LET swapped == swapTmpDepositUpdate(g, newDeposit)
  IN  IF g.tmpDepositUpdate # -1
      THEN updateStabilityDeposit(swapped, u, newDeposit, TRUE)
      ELSE swapped

handleCollateralGainWithdrawn(g, u, gain, loss) ==
  LET lossTaken == updateStabilityDeposit(swapTmpDepositUpdate(g, 0), u,
                     g.depositedAmount[u] - loss, FALSE)
  IN  IF g.tmpDepositUpdate # -1
      THEN updateStabilityDeposit(lossTaken, u, g.tmpDepositUpdate, TRUE)
      ELSE lossTaken

-----------------------------------------------------------------------------
(* User.ts, TokenBalance.ts, Global.ts, Liquidation.ts, Redemption.ts *)

updateUserClaimColl(g, u, newBalance) ==
  [g EXCEPT !.collSurplus[u] = newBalance,
            !.collSurplusPoolBalance = @ + newBalance - g.collSurplus[u]]

\* The account 0 is the zero address: a mint or a burn.
updateBalance(g, from, to, value) ==
  [g EXCEPT !.totalSupply = CASE from = 0 -> @ + value
                              [] from # 0 /\ to = 0 -> @ - value
                              [] OTHER -> @,
            !.balance = [a \in Accounts |->
               @[a] + (IF a = to THEN value ELSE 0) - (IF a = from THEN value ELSE 0)]]

updateTotalRedistributed(g, L_Collateral, L_THUSDDebt) ==
  [g EXCEPT !.totalRedistributedCollateral = L_Collateral,
            !.totalRedistributedDebt = L_THUSDDebt]

increaseTotalBorrowingFeesPaid(g, fee) ==
  [g EXCEPT !.totalBorrowingFeesPaid = @ + fee]

updatePrice(g, newPrice) == [g EXCEPT !.price = newPrice]

finishCurrentLiquidation(g) == [g EXCEPT !.currentLiquidation = FALSE]

finishCurrentRedemption(g) == [g EXCEPT !.currentRedemption = FALSE]

-----------------------------------------------------------------------------

handle(g, e) ==
  CASE e.event = "TroveUpdated" ->
         updateTrove(g, troveOperation(e.operation), e.user, e.coll, e.debt,
                     e.stake)
    [] e.event = "TroveLiquidated" ->
         applyRedistributionToTroveBeforeLiquidation(g, e.user)
    [] e.event = "LTermsUpdated" ->
         updateTotalRedistributed(g, e.L_Collateral, e.L_THUSDDebt)
    [] e.event = "Liquidation" -> finishCurrentLiquidation(g)
    [] e.event = "Redemption" -> finishCurrentRedemption(g)
    [] e.event = "THUSDBorrowingFeePaid" ->
         increaseTotalBorrowingFeesPaid(g, e.fee)
    [] e.event = "UserDepositChanged" ->
         handleUserDepositChanged(g, e.user, e.newDeposit)
    [] e.event = "CollateralGainWithdrawn" ->
         handleCollateralGainWithdrawn(g, e.user, e.collateral, e.loss)
    [] e.event = "CollBalanceUpdated" ->
         updateUserClaimColl(g, e.user, e.newBalance)
    [] e.event = "Transfer" -> updateBalance(g, e.from, e.to, e.value)
    [] e.event = "LastGoodPrice" -> updatePrice(g, e.newPrice)
    [] e.event = "CollateralSent" -> g   \* not in the manifest

index(g, events) == SX!FoldLeft(handle, g, events)

-----------------------------------------------------------------------------
(* What SubgraphLiquity (lib-subgraph) answers from the index. *)

\* The status in the words of the contracts.
subgraphTroveBeforeRedistribution(g, u) ==
  [g.trove[u] EXCEPT !.status = IF @ = "open" THEN "active" ELSE @]

subgraphTotalRedistributed(g) ==
  [collateral |-> g.totalRedistributedCollateral,
   debt |-> g.totalRedistributedDebt]

subgraphTotal(g) == [collateral |-> g.totalCollateral, debt |-> g.totalDebt]

=============================================================================
