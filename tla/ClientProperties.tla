-------------------------- MODULE ClientProperties --------------------------
(* What the client may promise its user about the contracts. *)
EXTENDS LiquityProperties, ClientOperations

\* What a borrower may have edited a trove to: the trove changed by the inputs
\* of adjustTrove, a new one, or none.
EditedTroves(trove) ==
  IF isEmpty(trove)
  THEN {Trove(coll, getCompositeDebt(debt)) : coll \in CollAmounts, debt \in BorrowAmounts}
  ELSE {emptyTrove} \cup
       {Trove(trove.collateral + coll, trove.debt + debt) :
          coll \in {c \in CollChanges : trove.collateral + c >= 0},
          debt \in {d \in DebtChanges : trove.debt + d >= 0}}

\* What the frontend accepts (validateVaultChange) the contracts accept too, in
\* every mode and at every price, and the trove ends exactly where the frontend
\* said: the borrowing fee that the client takes off and puts on again, its
\* rounding and the pending redistributions included.  The result is the trove the
\* borrower asked for, but for a debt that may be higher by one unit.
ValidatedChangesSucceed ==
  \A u \in Users, decay \in DecayFactors :
    system.mintList /\ feedStatus = "active" =>
      \A edited \in EditedTroves(getTrove(system, u)) :
        LET gives(after, resulting) == after.ok /\ getTrove(after, u) = resulting
            succeeds(v) ==
              v.valid =>
                /\ \E pos \in Positions :
                     gives(sendVaultChange(system, u, v.change, pos, price, feedStatus, decay),
                           v.resulting)
                /\ v.resulting.collateral = edited.collateral
                /\ v.resulting.debt - edited.debt \in {0, 1}
        IN  succeeds(validateVaultChange(system, u, edited, price, decay))

\* The client's sum of a trove and its shares of liquidated troves is the one the
\* contracts use, whatever was redistributed since the trove was touched.
ClientTrovesAreCurrent ==
  \A u \in Users :
    getTrove(system, u) = Trove(entireColl(system, u), entireDebt(system, u))

\* The button of RiskyVaults is enabled for exactly the troves that can be
\* liquidated, in both modes (the last trove never can).
OffersMatchLiquidations ==
  Cardinality(ActiveTroves) > 1 =>
    \A b \in ActiveTroves :
      isLiquidatable(system, b, price, totalTHUSDDeposits) <=> CanLiquidate(b)

\* Turning the pages of RiskyVaults shows every open trove once.
PagesCoverTheList ==
  \A first \in 1..NumUsers :
    LET shown(page) == getTroves(system, "ascendingCollateralRatio", page * first, first)
        places == {p \in (0..NumUsers) \X (1..first) : p[2] <= Len(shown(p[1]))}
    IN  /\ {shown(p[1])[p[2]] : p \in places} = ActiveTroves
        /\ Cardinality(places) = Cardinality(ActiveTroves)

\* The example bot is paid what it weighs against its costs: the troves it picks for
\* one batchLiquidateTroves, in its own order and not the list's, are all closed, in
\* both modes and even when the first of them end Recovery Mode.  Rounding takes at
\* most one unit of collateral per trove.
BotIsPaidAsExpected ==
  LET found == liqbotSelection(system, price)
      s == batchSequence(system, found, totalTHUSDDeposits, price)
      expected == expectedCompensation(system, found)
  IN  /\ Len(found) \in 1..(Cardinality(ActiveTroves) - 1)
      => /\ \A i \in DOMAIN found : s.w.status[found[i]] = "closedByLiquidation"
         /\ s.totals.THUSDGasCompensation = expected.thusd
         /\ s.totals.collGasCompensation
              \in (expected.collateral - Len(found))..expected.collateral

-----------------------------------------------------------------------------

\* u may redeem amount, other troves are left, and the amount is not so small that
\* it leaves a base rate of zero, which _updateBaseRateFromRedemption asserts not to
\* happen.
MayRedeem(u, amount) ==
  /\ amount * DECIMAL_PRECISION >= 2 * BETA * getEntireSystemDebt(system)
  /\ feedStatus # "active" /\ getTCR(system, price) >= MCR
  /\ amount \in 1..system.thusd[u]
  /\ system.thusd[u] <= getEntireSystemDebt(system)
  /\ amount < Total([b \in Users |-> IF b \in ActiveTroves
                                     THEN getNetDebt(entireDebt(system, b)) ELSE 0])

\* A redemption prepared by redeemTHUSD does what its hints say: the amount that
\* HintHelpers leaves is redeemed to the last unit, a trove redeemed in part ends
\* at the ratio of the hint, and the default limit on the fee is not exceeded,
\* although the redemption itself raises the rate.
RedemptionHintsHold ==
  \A u \in Users, attempted \in RedeemAmounts, decay \in DecayFactors :
    LET hints == getRedemptionHints(system, attempted, price, redeemMaxIterations)
        after(pos) == redeemTHUSD(system, u, attempted, pos, price, feedStatus, decay)
    IN  MayRedeem(u, hints.truncatedTHUSDamount) =>
          \E pos \in Positions :
            /\ after(pos).ok
            /\ after(pos).thusd[u] = system.thusd[u] - hints.truncatedTHUSDamount
            /\ hints.partialRedemptionHintNICR # 0 =>
                 \E b \in ActiveTroves :
                   /\ after(pos).debt[b] < entireDebt(system, b)
                   /\ getNominalICR(after(pos), b) = hints.partialRedemptionHintNICR

\* "increasing the amount to the next lowest possible value, which is the sum of the
\* truncated amount and THUSD_MINIMUM_NET_DEBT" (PopulatableLiquity.ts): where a
\* redemption is cut short by the minimum debt, the increased amount closes the
\* trove in question and nothing of it is left over.
IncreasedRedemptionsAreExact ==
  \A u \in Users, attempted \in RedeemAmounts, decay \in DecayFactors :
    LET hints == getRedemptionHints(system, attempted, price, redeemMaxIterations)
        increased == hints.truncatedTHUSDamount + MIN_NET_DEBT
        after == increaseAmountByMinimumNetDebt(system, u, attempted, 1, price, feedStatus, decay)
    IN  /\ hints.stopped /\ hints.truncatedTHUSDamount < attempted
        /\ MayRedeem(u, increased)
        => after.ok /\ after.thusd[u] = system.thusd[u] - increased

-----------------------------------------------------------------------------
(* What the client tells its user after a transaction (TransactableLiquity). *)

\* The details of openTrove, adjustTrove and closeTrove, read from the logs, are what
\* the transaction did to the trove: pending rewards applied first (which is told of
\* by an event of the same name), fees, the reserve and the mode included.
BorrowersAreToldTheTruth ==
  \A u \in Users, decay \in DecayFactors :
    LET maxFee == DECIMAL_PRECISION
        toldOfClosure(after) ==
          after.ok =>
            wrapTroveClosure(after.events, u) = TroveClosureDetails(system, after, u)
        toldOfChange(after, debt) ==
          after.ok =>
            wrapTroveChangeWithFees(after.events) =
              TroveChangeDetails(system, after, u, debt)
    IN  /\ toldOfClosure(closeTroveByOwner(system, u, price))
        /\ \A amount \in BorrowAmounts, asset \in CollAmounts :
             toldOfChange(
               openTrove(system, u, amount, asset, 1, maxFee, price, feedStatus, decay),
               amount + THUSD_GAS_COMPENSATION)
        /\ \A coll \in CollChanges, debt \in DebtChanges, pos \in Positions :
             toldOfChange(adjustTrove(system, u, coll, debt, pos, maxFee, price, decay), debt)

\* The details of a liquidation are what it did: every borrower who lost a trove is
\* named, the debt cleared and the collateral given away add up over offsets,
\* redistributions and capped liquidations of one sequence, and the compensation is
\* what the liquidator was paid.
LiquidatorsAreToldTheTruth ==
  LET told(u, s) ==
        LET after == finishLiquidation(s, u, totalTHUSDDeposits)
        IN  after.ok => wrapLiquidation(after.events) = LiquidationDetails(system, after, u)
  IN  \A b \in ActiveTroves :
        /\ told(b, troveSequence(system, b, totalTHUSDDeposits, price))
        /\ \A c \in ActiveTroves :
             told(b, batchSequence(system, <<c, b>>, totalTHUSDDeposits, price))

\* The details of a redemption: "This can end up being lower than attemptedTHUSDAmount"
\* (TransactableLiquity.ts), and is then what the redeemer really paid.
RedeemersAreToldTheTruth ==
  \A u \in Users, amount \in RedeemAmounts, hintFresh \in BOOLEAN, maxIterations \in 0..1,
     decay \in DecayFactors :
    LET after == redeemCollateral(system, u, amount, 0, hintFresh, 1, maxIterations,
                   DECIMAL_PRECISION, price, feedStatus, decay)
    IN  after.ok => redemptionReceipt(after.events) = RedemptionDetails(system, after, u)

\* The details of a change of a Stability Deposit: the deposit the pool records
\* afterwards, the collateral that really left it, and the loss between the two
\* deposits, in either order of the two events; a gain moved to a trove is in the
\* trove that is reported.
DepositorsAreToldTheTruth ==
  [][\A u \in Users :
       LET promised(deposited) ==
             StabilityPoolGainsWithdrawalDetails(deposits[u], deposits'[u], deposited,
               collateral - collateral')
           withdrawal(w) == wrapStabilityDepositWithdrawal(w.events, u)
           transfer(w) == wrapCollateralGainTransfer(w.events)
       IN  /\ \A amount \in DepositAmounts :
                provideToSP(u, amount) /\ Commit(providedToSP(u, amount)) =>
                  extractStabilityPoolGainsWithdrawalDetails(providedToSP(u, amount).events)
                    = promised(amount)
           /\ \A amount \in DepositAmounts \cup {0} :
                /\ withdrawFromSP(u, amount, lowestICR)
                /\ Commit(withdrawnFromSP(u, amount))
                => LET told == withdrawal(withdrawnFromSP(u, amount))
                       sent == system'.thusd[u] - system.thusd[u]
                   IN  /\ told.gains = promised(-sent)
                       /\ told.withdrawTHUSD = (IF sent = 0 THEN -1 ELSE sent)
                       /\ told.withdrawAllTHUSD <=> deposits'[u] = 0
           /\ \A pos \in Positions :
                /\ withdrawCollateralGainToTrove(u, system.status[u] = "active")
                /\ Commit(gainMovedToTrove(u, pos))
                => LET told == transfer(gainMovedToTrove(u, pos))
                   IN  /\ told.gains = promised(0)
                       /\ told.newTrove.collateral
                            = getTrove(system, u).collateral + told.gains.collateralGain
                       /\ told.newTrove = getTrove(system', u)]_vars

-----------------------------------------------------------------------------
(* The subgraph answers what the contracts would (checkSubgraph of the fuzzer). *)

troveBeforeRedistribution(w, u) ==
  [status |-> w.status[u], collateral |-> w.coll[u], debt |-> w.debt[u],
   stake |-> w.stake[u], snapshotCollateral |-> w.snapshotCollateral[u],
   snapshotDebt |-> w.snapshotTHUSDDebt[u]]

\* listOfTrovesShouldBeEqual and the checks of numberOfTroves and totalRedistributed:
\* the index has every trove with the stake and the snapshots its pending rewards
\* depend on, although a redistribution tells it of none of the troves that share in
\* it and a liquidation not of the rewards it moves first.
SubgraphTrovesAgree ==
  /\ \A u \in Users :
       subgraphTroveBeforeRedistribution(subgraph, u)
         = troveBeforeRedistribution(system, u)
  /\ subgraph.numberOfTroves["open"] = getNumberOfTroves(system)
  /\ subgraphTotalRedistributed(subgraph) = getTotalRedistributed(system)

\* The checks of total and tokensInStabilityPool: how much of a liquidated debt the
\* Stability Pool took is worked out a second time from one event per trove.
SubgraphTotalsAgree ==
  /\ subgraphTotal(subgraph) = getTotal(system)
  /\ subgraph.tokensInStabilityPool = totalTHUSDDeposits

\* u is on one side of 100% at the price of the contracts and at the one the subgraph
\* is told, its inverse.
JudgedAlike(u) ==
  LET ratioAt(p) == computeCR(entireColl(system, u), entireDebt(system, u), p)
  IN  ratioAt(price) > DECIMAL_PRECISION
        <=> ratioAt((DECIMAL_PRECISION * DECIMAL_PRECISION) \div price)
              > DECIMAL_PRECISION

\* No transaction makes the totals of the subgraph drift, wherever the subgraph's
\* price does not mislead it about a liquidated trove and the fee of a redemption
\* leaves the ActivePool: partial offsets, several troves in one sequence, a sequence
\* that ends Recovery Mode and capped liquidations included.
SubgraphTotalsFollow ==
  [][/\ HasPCV /\ SubgraphTotalsAgree
     /\ \A u \in ActiveTroves :
          system'.status[u] = "closedByLiquidation" => JudgedAlike(u)
     => SubgraphTotalsAgree']_vars

\* Deposits and surpluses add up to what the contracts hold for their owners, every
\* mint, burn and transfer of THUSD is seen once, and the borrowing fees are those
\* minted to the PCV.
SubgraphAccountsAgree ==
  /\ subgraph.depositedAmount = deposits
  /\ subgraph.collSurplus = system.collSurplusPool.balances
  /\ subgraph.collSurplusPoolBalance = system.collSurplusPool.collateral
  /\ subgraph.balance = system.thusd
  /\ subgraph.totalSupply = SumOf(system.thusd, NumAccounts)
  /\ HasPCV => subgraph.totalBorrowingFeesPaid = system.thusd[pcvAddress]

\* "Only used internally as temporary storage. Will always be null in queries"
\* (schema.graphql): no transaction leaves half of a liquidation, of a redemption or of
\* the two events of a deposit behind.
TemporariesAreNull ==
  /\ ~subgraph.currentLiquidation /\ ~subgraph.currentRedemption
  /\ subgraph.tmpDepositUpdate = -1

-----------------------------------------------------------------------------
(* What the runs check: the parts above by question. *)

\* What the client makes of the storage is what the contracts would make of it: the
\* troves it shows, the liquidations it offers, the pages it reads, and what the bot
\* expects to be paid, at every price and with rewards pending.
ClientSeesTheSystem ==
  /\ ClientTrovesAreCurrent
  /\ OffersMatchLiquidations
  /\ PagesCoverTheList
  /\ BotIsPaidAsExpected

\* The index holds what the contracts hold once the events of a transaction are handled.
SubgraphAgrees ==
  /\ SubgraphTrovesAgree
  /\ SubgraphAccountsAgree
  /\ TemporariesAreNull

\* What is reported of a liquidation, a deposit or a withdrawal is what happened: in the
\* receipt of its sender and in the subgraph, whose totals do not drift where its price
\* does not mislead it.
LiquidationsAreReported ==
  /\ []LiquidatorsAreToldTheTruth
  /\ DepositorsAreToldTheTruth
  /\ []SubgraphAgrees
  /\ SubgraphTotalsFollow

\* What is reported of opening, adjusting and closing a trove is what happened.
BorrowingIsReported == BorrowersAreToldTheTruth /\ SubgraphAgrees

\* What is reported of a redemption is what happened.
RedemptionsAreReported == RedeemersAreToldTheTruth /\ SubgraphAgrees

\* A redemption gives face value from safe troves, whose pending rewards can be paid
\* before, and one that the client has prepared
\* redeems the amount it said, to the last unit, at the ratios it said
\* (redeemCollateral, getRedemptionHints, redeemTHUSD).
RedemptionsAreExact ==
  /\ RedemptionTakesFaceValue
  /\ []DefaultPoolCoversRewards
  /\ []RedemptionHintsHold
  /\ []IncreasedRedemptionsAreExact

=============================================================================
