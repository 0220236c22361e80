------------------------- MODULE LiquityProperties -------------------------
(* What the protocol promises, as properties of module Liquity. *)
EXTENDS Liquity, FiniteSets

ActiveTroves == {u \in Users : system.status[u] = "active"}

Total(f) == SumOf(f, NumUsers)

PendingDebts == [u \in Users |-> getPendingTHUSDDebtReward(system, u)]
PendingColls == [u \in Users |-> getPendingCollateralReward(system, u)]

Amount == [collateral : Nat, THUSDDebt : Nat]

\* The storage has the types the contracts declare; no unsigned amount has
\* gone below zero.
TypeOK ==
  /\ system \in
       [status : [Users -> Statuses],
        coll : [Users -> Nat], debt : [Users -> Nat], stake : [Users -> Nat],
        snapshotCollateral : [Users -> Nat],
        snapshotTHUSDDebt : [Users -> Nat],
        totalStakes : Nat, totalStakesSnapshot : Nat,
        totalCollateralSnapshot : Nat,
        L_Collateral : Nat, L_THUSDDebt : Nat,
        lastCollateralError_Redistribution : Nat,
        lastTHUSDDebtError_Redistribution : Nat,
        baseRate : 0..DECIMAL_PRECISION,
        activePool : Amount, defaultPool : Amount,
        collSurplusPool : [collateral : Nat, balances : [Users -> Nat]],
        sortedTroves : Seq(Users),
        thusd : [Accounts -> Nat], otherDebt : Nat,
        mintList : BOOLEAN, events : {<<>>}, ok : BOOLEAN]
  /\ price \in Prices
  /\ feedStatus \in FeedStatuses
  /\ SPTypeOK

-----------------------------------------------------------------------------
(* Accounting. *)

\* The ActivePool's debt is the debt recorded on the troves, whatever was
\* opened, adjusted, liquidated, redistributed and redeemed before; its
\* collateral is theirs too, but for redemption fees when there is no PCV
\* contract to receive them.
ActivePoolMatchesTroves ==
  /\ system.activePool.THUSDDebt = Total(system.debt)
  /\ IF HasPCV
     THEN system.activePool.collateral = Total(system.coll)
     ELSE system.activePool.collateral >= Total(system.coll)

\* The DefaultPool can pay every trove's pending rewards: the rounding of
\* L_Collateral and L_THUSDDebt and the errors carried between
\* redistributions never promise more than was redistributed.  (It needs
\* amounts that are not minute: a redistribution whose collateral rounds to
\* nothing per unit of stake raises L_THUSDDebt alone, hasPendingRewards looks
\* at the collateral alone, and a change of the stake then changes what is
\* pending.)
DefaultPoolCoversRewards ==
  /\ Total(PendingDebts) <= system.defaultPool.THUSDDebt
  /\ Total(PendingColls) <= system.defaultPool.collateral

\* Every THUSD in circulation is owed by some trove or borrowed against
\* another collateral.  Without a PCV contract
\* borrowing fees are owed and never minted.
SupplyMatchesDebt ==
  IF HasPCV
  THEN SumOf(system.thusd, NumAccounts) - system.otherDebt
         = getEntireSystemDebt(system)
  ELSE SumOf(system.thusd, NumAccounts) - system.otherDebt
         <= getEntireSystemDebt(system)

\* The gas pool holds the reserve of every open trove and nothing else, so
\* closing, redeeming and liquidating can always pay it out.
GasPoolBacksTroves ==
  system.thusd[gasPoolAddress] =
    THUSD_GAS_COMPENSATION * Cardinality(ActiveTroves)

\* The shares of the next redistribution add up: totalStakes is the sum of
\* the stakes, and only open troves have one.
StakesAddUp ==
  /\ system.totalStakes = Total(system.stake)
  /\ \A u \in Users : system.stake[u] > 0 => u \in ActiveTroves

\* The CollSurplusPool holds what it owes to the owners of closed troves,
\* and the StabilityPool the THUSD it counts as deposited.
PoolsHoldWhatTheyOwe ==
  /\ system.collSurplusPool.collateral =
       Total(system.collSurplusPool.balances)
  /\ system.thusd[stabilityPoolAddress] = totalTHUSDDeposits

-----------------------------------------------------------------------------
(* Troves. *)

\* The sorted list holds the open troves, each once.
ListHoldsOpenTroves ==
  /\ {system.sortedTroves[i] : i \in 1..Len(system.sortedTroves)}
       = ActiveTroves
  /\ Len(system.sortedTroves) = Cardinality(ActiveTroves)

\* An open trove owes at least the minimum and the reserve, and its
\* snapshots are not ahead of the sums; a closed one owes nothing.
TrovesAreWellFormed ==
  \A u \in Users :
    IF u \in ActiveTroves
    THEN /\ getNetDebt(system.debt[u]) >= MIN_NET_DEBT
         /\ system.snapshotCollateral[u] <= system.L_Collateral
         /\ system.snapshotTHUSDDebt[u] <= system.L_THUSDDebt
    ELSE system.coll[u] = 0 /\ system.debt[u] = 0

\* While BorrowerOperations may mint, the last trove cannot be closed: no
\* close, redemption or sequence of liquidations empties the system.
LastTroveStays ==
  [][system.mintList /\ ActiveTroves # {} => ActiveTroves' # {}]_vars

\* A trove is liquidated only below the minimum ratio, or in Recovery Mode
\* below the critical ratio; wherever it stood in the sequence, its ratio
\* before the transaction decides.
OnlyUnsafeTrovesAreLiquidated ==
  [][\A u \in ActiveTroves :
       system'.status[u] = "closedByLiquidation" =>
         \/ getCurrentICR(system, u, price) < MCR
         \/ /\ checkRecoveryMode(system, price)
            /\ getCurrentICR(system, u, price) < CCR]_vars

\* A borrower whose trove was at or above the minimum ratio loses
\* collateral worth at most the minimum ratio of the debt: the rest is
\* theirs to claim.
CappedLiquidationLeavesSurplus ==
  [][\A u \in ActiveTroves :
       /\ system'.status[u] = "closedByLiquidation"
       /\ getCurrentICR(system, u, price) >= MCR
       => LET kept == system'.collSurplusPool.balances[u]
                        - system.collSurplusPool.balances[u]
          IN  (entireColl(system, u) - kept) * price
                <= MCR * entireDebt(system, u)]_vars

\* The price and the feed stay as they are, BorrowerOperations is on the mint
\* list, no trove is liquidated, and no redemption is possible (the feed is
\* active).
OrdinaryStep ==
  /\ system.mintList /\ system'.mintList
  /\ price' = price
  /\ feedStatus = "active"
  /\ \A u \in ActiveTroves : system'.status[u] # "closedByLiquidation"

\* No step of borrowers and depositors takes the system from Normal Mode
\* into Recovery Mode: the ratio checked before an operation is the one
\* after it, fees, pending rewards and moved gains included.
OrdinaryStepsKeepNormalMode ==
  [][OrdinaryStep /\ ~checkRecoveryMode(system, price)
       => ~checkRecoveryMode(system', price)]_vars

\* A trove that is opened, adjusted or given a Stability Pool gain in Normal
\* Mode cannot be liquidated at the same price.
ChangedTrovesAreSafe ==
  [][OrdinaryStep /\ ~checkRecoveryMode(system, price)
       => \A u \in ActiveTroves' :
            \/ getCurrentICR(system', u, price) >= MCR
            \/ /\ u \in ActiveTroves
               /\ system'.coll[u] = system.coll[u]
               /\ system'.debt[u] = system.debt[u]]_vars

\* Redemption never touches a trove below the minimum ratio, and closing a
\* trove leaves its owner the collateral above the face value of its debt.
RedemptionTakesFaceValue ==
  [][\A u \in ActiveTroves :
       system'.status[u] = "closedByRedemption" =>
         /\ getCurrentICR(system, u, price) >= MCR
         /\ LET kept == system'.collSurplusPool.balances[u]
                          - system.collSurplusPool.balances[u]
            IN  (entireColl(system, u) - kept) * price
                  <= getNetDebt(entireDebt(system, u)) * DECIMAL_PRECISION]_vars

\* Depositors cannot run from a loss: no THUSD leaves the Stability Pool for
\* a depositor while some trove is below the minimum ratio.  The code asks
\* the last trove of the sorted list only.
DepositsStayForLiquidations ==
  [][/\ totalTHUSDDeposits' < totalTHUSDDeposits
     /\ \A u \in ActiveTroves : system'.status[u] # "closedByLiquidation"
     => \A u \in ActiveTroves : getCurrentICR(system, u, price) >= MCR]_vars

-----------------------------------------------------------------------------

\* A liquidation of b alone, by any account, would not revert.
CanLiquidate(b) ==
  LET s == batchSequence(system, <<b>>, totalTHUSDDeposits, price)
      t == s.totals
  IN  /\ finishLiquidation(s, b, totalTHUSDDeposits).ok
      /\ \/ totalTHUSDDeposits = 0 \/ t.debtToOffset = 0
         \/ /\ t.debtToOffset = totalTHUSDDeposits
         \/ /\ lastTHUSDLossError_Offset <= t.debtToOffset * DECIMAL_PRECISION
            /\ THUSDLossPerUnitStaked(t.debtToOffset) <= DECIMAL_PRECISION
            /\ NewP(DECIMAL_PRECISION - THUSDLossPerUnitStaked(t.debtToOffset)) > 0

\* The DefaultPool can pay every trove, and an under-collateralized trove that
\* is not the last one can be liquidated: no require, assert or checked
\* subtraction on the way stands against it.
LiquidationIsNeverBlocked ==
  /\ DefaultPoolCoversRewards
  /\ \A b \in ActiveTroves :
       getCurrentICR(system, b, price) < MCR /\ Cardinality(ActiveTroves) > 1
         => CanLiquidate(b)

\* _computeNewStake asserts it, and a trove could never be opened again
\* without it: a snapshot that counts collateral counts stakes.  It has to
\* survive the liquidation of one trove after the other and the mint list's
\* changes, although the DefaultPool keeps dust of every redistribution.
StakesSnapshotIsPositive ==
  system.totalCollateralSnapshot > 0 => system.totalStakesSnapshot > 0

-----------------------------------------------------------------------------
(* What the runs check: the parts above by question. *)

\* The books of all contracts agree between transactions: what the pools hold is what
\* troves, claims and deposits add up to, THUSD in circulation is debt of somebody, every open trove is in the list with its stake and its gas compensation,
\* whatever liquidations, redemptions and adjustments came before.
BooksAgree ==
  /\ TypeOK
  /\ ActivePoolMatchesTroves
  /\ SupplyMatchesDebt
  /\ GasPoolBacksTroves
  /\ StakesAddUp
  /\ PoolsHoldWhatTheyOwe
  /\ ListHoldsOpenTroves

\* A liquidation takes unsafe troves only, takes no more than 110% of the debt from one
\* that is above the minimum ratio, and finds the deposits that were there when the
\* price fell, also for sequences that end Recovery Mode or empty the pool half-way
\* (_liquidateRecoveryMode, _getCappedOffsetVals, _requireNoUnderCollateralizedTroves).
LiquidationsAreFair ==
  /\ OnlyUnsafeTrovesAreLiquidated
  /\ CappedLiquidationLeavesSurplus
  /\ DepositsStayForLiquidations

\* While the mint list has BorrowerOperations no borrower makes the system or a trove
\* unsafe, and open troves keep the minimum debt: what was checked before fees, rewards
\* and transfers holds after them (_requireValidAdjustmentInCurrentMode).
BorrowingIsSafe ==
  /\ []TrovesAreWellFormed
  /\ OrdinaryStepsKeepNormalMode
  /\ ChangedTrovesAreSafe

\* The system stays usable: a stake can be computed for a new trove, and there always is
\* a trove left to take over debt, though the mint list changes and owners are able to
\* repay everything (_computeNewStake, _closeTrove, _liquidateRecoveryMode).
SystemStaysUsable ==
  /\ []StakesSnapshotIsPositive
  /\ LastTroveStays

=============================================================================
