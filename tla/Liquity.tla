------------------------------ MODULE Liquity ------------------------------
(***************************************************************************)
(* The protocol: BorrowerOperations, TroveManager, StabilityPool, the      *)
(* pools and the token, called by users in any order while the price moves *)
(* and governance changes the mint list.  Every external function is one   *)
(* action: a transaction is atomic and a reverted one changes nothing.     *)
(* The subgraph handles the events of a transaction before the next one.   *)
(***************************************************************************)
EXTENDS BorrowerOperations, Liquidations, StabilityPool, Subgraph

CONSTANTS
  BorrowAmounts,    \* inputs of openTrove
  CollAmounts,
  CollChanges,      \* inputs of adjustTrove, negative for a withdrawal
  DebtChanges,
  DepositAmounts,   \* inputs of provideToSP and withdrawFromSP
  RedeemAmounts,    \* inputs of redeemCollateral
  TransferAmounts,  \* inputs of THUSDToken.transfer
  OtherLoans,       \* THUSD borrowed at once against another collateral
  MaxFees,          \* inputs _maxFeePercentage
  DecayFactors,     \* values of _decPow(MINUTE_DECAY_FACTOR, minutes)
  Prices,           \* what the price feed answers
  FeedStatuses,
  MintListChanges,  \* bound: how often governance changes the mint list
  PriceChanges,     \* bound: how often the feed's answer changes
  MaxCalls          \* bound: transactions of users

ASSUME InputAssumption ==
  /\ BorrowAmounts \subseteq Nat /\ CollAmounts \subseteq Nat
  /\ CollChanges \subseteq Int /\ DebtChanges \subseteq Int
  /\ DepositAmounts \subseteq Nat /\ RedeemAmounts \subseteq Nat
  /\ TransferAmounts \subseteq Nat /\ OtherLoans \subseteq Nat
  /\ MaxFees \subseteq Nat /\ DecayFactors \subseteq 0..DECIMAL_PRECISION
  /\ Prices \subseteq Nat \ {0}
  /\ FeedStatuses \subseteq {"active", "stale", "disabled"}
  /\ MintListChanges \in Nat /\ PriceChanges \in Nat /\ MaxCalls \in Nat

VARIABLES
  system,       \* the storage of the contracts, see modules Pools, TroveManager
  price,        \* what PriceFeed.fetchPrice answers
  feedStatus,
  subgraph,     \* the index built from the events, see module Subgraph
  calls         \* steps left to users, the feed and governance

vars == <<system, price, feedStatus, subgraph, calls, spVars>>

\* The storage after deployment, BorrowerOperations on the mint list.
InitSystem ==
  [status |-> [u \in Users |-> "nonExistent"],
   coll   |-> [u \in Users |-> 0],
   debt   |-> [u \in Users |-> 0],
   stake  |-> [u \in Users |-> 0],
   snapshotCollateral |-> [u \in Users |-> 0],
   snapshotTHUSDDebt  |-> [u \in Users |-> 0],
   totalStakes |-> 0, totalStakesSnapshot |-> 0, totalCollateralSnapshot |-> 0,
   L_Collateral |-> 0, L_THUSDDebt |-> 0,
   lastCollateralError_Redistribution |-> 0,
   lastTHUSDDebtError_Redistribution |-> 0,
   baseRate |-> 0,
   activePool  |-> [collateral |-> 0, THUSDDebt |-> 0],
   defaultPool |-> [collateral |-> 0, THUSDDebt |-> 0],
   collSurplusPool |-> [collateral |-> 0, balances |-> [u \in Users |-> 0]],
   sortedTroves |-> <<>>,
   thusd |-> [a \in Accounts |-> 0],
   otherDebt |-> 0,
   mintList |-> TRUE,
   events |-> <<>>,
   ok |-> TRUE]

Init ==
  /\ system = InitSystem
  /\ price \in Prices
  /\ feedStatus \in FeedStatuses
  /\ subgraph = InitSubgraph
  /\ calls = [users |-> MaxCalls, feed |-> PriceChanges,
              governance |-> MintListChanges]
  /\ SPInit

-----------------------------------------------------------------------------

\* A transaction that leads to w and did not revert.
Commit(w) ==
  /\ w.ok
  /\ system' = [w EXCEPT !.events = <<>>]
  /\ subgraph' = index(subgraph, w.events)

\* The storage once the transaction has asked the price feed.
Priced == fetchPrice(system, price)

UserCall ==
  /\ calls.users > 0
  /\ calls' = [calls EXCEPT !.users = @ - 1]
  /\ UNCHANGED <<price, feedStatus>>

Positions == 1..NumUsers

OpenTrove(u) ==
  /\ UserCall
  /\ UNCHANGED spVars
  /\ \E amount \in BorrowAmounts, asset \in CollAmounts, pos \in Positions,
        maxFee \in MaxFees, decay \in DecayFactors :
       Commit(openTrove(Priced, u, amount, asset, pos, maxFee, price,
                        feedStatus, decay))

AdjustTrove(u) ==
  /\ UserCall
  /\ UNCHANGED spVars
  /\ \E collChange \in CollChanges, debtChange \in DebtChanges,
        pos \in Positions, maxFee \in MaxFees, decay \in DecayFactors :
       Commit(adjustTrove(Priced, u, collChange, debtChange, pos, maxFee,
                          price, decay))

CloseTrove(u) ==
  /\ UserCall
  /\ UNCHANGED spVars
  /\ Commit(closeTroveByOwner(Priced, u, price))

ClaimCollateral(u) ==
  /\ UserCall
  /\ UNCHANGED spVars
  /\ Commit(claimCollateral(system, u))

Transfer(u, v) ==
  /\ UserCall
  /\ UNCHANGED spVars
  /\ \E amount \in TransferAmounts :
       Commit(thusdTransfer(system, u, v, amount))

\* THUSDToken serves several sets of contracts, one for each collateral:
\* another BorrowerOperations on the mint list lends THUSD to u.
BorrowElsewhere(u) ==
  /\ UserCall
  /\ UNCHANGED spVars
  /\ \E amount \in OtherLoans :
       Commit(Emit([system EXCEPT !.thusd[u] = @ + amount,
                                  !.otherDebt = @ + amount],
                   TransferEvent(0, u, amount)))

-----------------------------------------------------------------------------
(* Liquidations.  s is the state after the sequence. *)

FinishLiquidation(liquidator, s) ==
  /\ Commit(finishLiquidation(s, liquidator, totalTHUSDDeposits))
  /\ offset(s.totals.debtToOffset, s.totals.collToSendToSP)

\* liquidate(b) is batchLiquidateTroves(<<b>>).
BatchLiquidateTroves(u) ==
  /\ UserCall
  /\ \E first, second \in Users :
       FinishLiquidation(u,
         batchSequence(Priced,
           IF first = second THEN <<first>> ELSE <<first, second>>,
           totalTHUSDDeposits, price))

LiquidateTroves(u) ==
  /\ UserCall
  /\ \E n \in 1..NumUsers :
       FinishLiquidation(u,
         troveSequence(Priced, n, totalTHUSDDeposits, price))

RedeemCollateral(u) ==
  /\ UserCall
  /\ UNCHANGED spVars
  /\ \E amount \in RedeemAmounts, hint \in Users \cup {0},
        hintFresh \in BOOLEAN, pos \in Positions, maxIterations \in 0..1,
        maxFee \in MaxFees, decay \in DecayFactors :
       Commit(redeemCollateral(Priced, u, amount, hint, hintFresh, pos,
                maxIterations, maxFee, price, feedStatus, decay))

-----------------------------------------------------------------------------
(* The Stability Pool. *)

UserDepositChanged(u, newDeposit) ==
  [event |-> "UserDepositChanged", user |-> u, newDeposit |-> newDeposit]

CollateralGainWithdrawn(u) ==
  [event |-> "CollateralGainWithdrawn", user |-> u,
   collateral |-> getDepositorCollateralGain(u),
   loss |-> deposits[u] - getCompoundedTHUSDDeposit(u)]

\* The other contracts, and the events, of provideToSP.
providedToSP(u, amount) ==
  Emit(Emit(thusdTransfer(system, u, stabilityPoolAddress, amount),
            UserDepositChanged(u, getCompoundedTHUSDDeposit(u) + amount)),
       CollateralGainWithdrawn(u))

ProvideToSP(u) ==
  /\ UserCall
  /\ \E amount \in DepositAmounts :
       /\ provideToSP(u, amount)
       /\ Commit(providedToSP(u, amount))

\* The ratio of the last trove of the list; of account 0 when it is empty.
lowestICR ==
  IF system.sortedTroves = <<>>
  THEN MaxUint
  ELSE getCurrentICR(system, system.sortedTroves[Len(system.sortedTroves)], price)

\* Nothing is transferred when nothing is withdrawn.
withdrawnFromSP(u, amount) ==
  LET asked == IF amount # 0 THEN Priced ELSE system
      sent  == IF Withdrawable(u, amount) = 0
               THEN asked
               ELSE thusdTransfer(asked, stabilityPoolAddress, u,
                                  Withdrawable(u, amount))
  IN  Emit(Emit(sent,
            UserDepositChanged(u,
              getCompoundedTHUSDDeposit(u) - Withdrawable(u, amount))),
       CollateralGainWithdrawn(u))

WithdrawFromSP(u) ==
  /\ UserCall
  /\ \E amount \in DepositAmounts \cup {0} :
       /\ withdrawFromSP(u, amount, lowestICR)
       /\ Commit(withdrawnFromSP(u, amount))

gainMovedToTrove(u, pos) ==
  LET told == Emit(Emit(system, CollateralGainWithdrawn(u)),
                   UserDepositChanged(u, getCompoundedTHUSDDeposit(u)))
  IN  adjustTrove(fetchPrice(told, price), u, getDepositorCollateralGain(u), 0,
        pos, 0, price, DECIMAL_PRECISION)

WithdrawCollateralGainToTrove(u) ==
  /\ UserCall
  /\ withdrawCollateralGainToTrove(u, system.status[u] = "active")
  /\ \E pos \in Positions : Commit(gainMovedToTrove(u, pos))

-----------------------------------------------------------------------------
(* The environment. *)

ChangePrice ==
  /\ calls.feed > 0
  /\ calls' = [calls EXCEPT !.feed = @ - 1]
  /\ price' \in Prices
  /\ feedStatus' \in FeedStatuses
  /\ UNCHANGED <<system, subgraph, spVars>>

\* finalizeRevokeMintList and finalizeAddMintList for BorrowerOperations.
ChangeMintList ==
  /\ calls.governance > 0
  /\ calls' = [calls EXCEPT !.governance = @ - 1]
  /\ system' = [system EXCEPT !.mintList = ~@]
  /\ UNCHANGED <<price, feedStatus, subgraph, spVars>>

Next ==
  \/ \E u \in Users :
       \/ OpenTrove(u)
       \/ AdjustTrove(u)
       \/ CloseTrove(u)
       \/ ClaimCollateral(u)
       \/ \E v \in Users \ {u} : Transfer(u, v)
       \/ BorrowElsewhere(u)
       \/ BatchLiquidateTroves(u)
       \/ LiquidateTroves(u)
       \/ RedeemCollateral(u)
       \/ ProvideToSP(u)
       \/ WithdrawFromSP(u)
       \/ WithdrawCollateralGainToTrove(u)
  \/ ChangePrice
  \/ ChangeMintList

Spec == Init /\ [][Next]_vars

=============================================================================
