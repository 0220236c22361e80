# A TLA+ model of the Liquid Energy Dollar protocol

The repository holds a decentralized borrowing protocol, a descendant of
Liquity: borrowers lock collateral in *troves* ("vaults" in the frontend) and draw a
stablecoin (THUSD in the source, named LED on chain), depositors put THUSD in a
*Stability Pool* that absorbs the debt of liquidated troves, and holders of THUSD may
redeem it for collateral. Around the contracts stand a client library, a web
frontend, a subgraph, a deployment task, a fuzzer and an example bot. This directory
models them, checks the models with TLC on small instances and proves part of the
results with TLAPS for every size.

To run: `tlc -config Liquidation.cfg MCLiquity` (and so on, see *Runs*), and `tlapm` on
`InductionLemmas`, `StabilityPoolLemmas`, `StabilityPoolProofs`, `LiquityLemmas`,
`LiquityProofs`, `TroveRegistryProofs`, `PeripheryProofs` and `ClientProofs` (the larger ones take some minutes).

## 1. Inventory

### Contracts (`packages/contracts/contracts`)

| Component | State it keeps | Operations | Called by / calls |
|---|---|---|---|
| BorrowerOperations | none of its own | openTrove, adjustTrove with its wrappers, closeTrove, claimCollateral, the PCV's bootstrap loan | users, StabilityPool, PCV → TroveManager, pools, token, price feed |
| TroveManager, stakes and redistribution | troves, stakes, snapshots, L_Collateral and L_THUSDDebt with their rounding errors, TroveOwners | applyPendingRewards, updateStake, closeTrove, redistribution | BorrowerOperations and the next two → pools, list |
| TroveManager, liquidation | as above | liquidate, liquidateTroves, batchLiquidateTroves | anybody → StabilityPool.offset, pools, token |
| TroveManager, redemption and fees | baseRate, lastFeeOperationTime | redeemCollateral, decayBaseRateFromBorrowing | anybody, BorrowerOperations |
| StabilityPool | deposits, snapshots, P, scale, epoch, the sums S, totals, two rounding errors | provideToSP, withdrawFromSP, withdrawCollateralGainToTrove, offset | users, TroveManager → token, BorrowerOperations |
| SortedTroves | a doubly linked list | insert, reInsert, remove, find with hints | TroveManager, BorrowerOperations |
| ActivePool, DefaultPool, CollSurplusPool, GasPool | collateral, debt, claims | send, receive, increase and decrease debt, accountSurplus, claimColl | the contracts above |
| THUSDToken | balances, supply; mint list, roles, three pending changes | mint, burn, transfers; start, cancel and finalize of each change | users and the contracts above; the owner |
| PCV | bootstrap debt, roles, whitelist, a pending role change | initialize, payDebt, withdrawals, roles | owner, council, treasury |
| PriceFeed and PIScaledPerSecondCalculator | redemption price and rate, deviation factor, integrator | fetchPrice, updateRate, updateLEDPrice, updateDeviationFactor | every operation; anybody |
| BAMM (B.Protocol) | shares of a pooled Stability Pool deposit | deposit, withdraw, swap | users, PCV → StabilityPool |
| HintHelpers, MultiTroveGetter | none | read-only | the client |

### Client and tools (`packages/*`)

| Component | State it keeps | Operations | Interacts by |
|---|---|---|---|
| lib-base | none (values), LiquityStore | arithmetic of troves, fees and deposits; loading, updating, notifying | subscriptions, timers |
| lib-ethers | transactions under way; BlockPolledLiquityStore | populate, send, wait; hints, reads, receipts; a fetch per block | JSON-RPC, block events |
| providers | sockets, listeners, pending batches | block events over a socket or by polling, repeated reads, multicall batches | nodes that lag, lose connections and answer in any order |
| lib-react, dev-frontend | loaded stores, wallet and transaction state, views and forms | looking up deployments, starting and stopping stores, editing, sending, monitoring | React effects, the wallet, the store |
| subgraph, lib-subgraph | entities per trove, user and system | one handler per event; queries | events in order of emission |
| deploy task (lib-ethers) | nonces, files | deploy, connect, record | transactions, the file system |
| fuzzer, liqbot | what they have read | random operations with predictions, checks; liquidations that pay | the client |

What is hard inside the contracts is not concurrency, for transactions are
serialised, but **long sequences** of legal calls whose effects meet in shared
accumulators (P, S, L) that are only looked at much later; **rounding**, where the wrong
direction makes a later checked subtraction revert and blocks a withdrawal or a
liquidation for ever; **sequences inside a transaction** that change mode in the middle
and settle at the end; **stale inputs**; and **governance** with delayed changes that
overlap. What is hard in the client is what is absent there: **answers out of order**,
a state that is read, awaited and used afterwards, sockets that close, nodes that lag,
transactions that are replaced, effects that are cleaned up late, other people's
transactions between two of one's own, scripts that are killed. And the two meet:
the client computes again, with its own rounding, what the contracts compute, and the
subgraph a third time from events.

The lines where it could go wrong are the hazards of `PROJECT.json`, each with the
properties that watch over it.

## 2. Plan

The order in which the project was built: the Stability Pool and its proofs; the core
contracts composed in `Liquity`; governance and its proofs; the list; the BAMM; then the
clock of the base rate, the price feed and the PCV; the client composed with the
contracts (`ClientOperations`, `Subgraph`, `Fuzzer`); the reading side of the
client; the sending side; induction over totals and loops, and with it the pool's bounded
shortfall, the contracts with a clock, and the books of the composed protocol; a call of
lib-ethers and the panels of a deposit and of a vault; the linked list and its refinement;
the steps of liquidations and of borrowing; the shares of the BAMM; the small state machines
of the client, its store, forms and pages, and the deploy task.

What is left:

1. Proofs for the client composed with the contracts (`ClientProperties`), for which the
   arithmetic of `TroveCalculator` would have to be compared with that of `LiquityBase`.
2. An abstract credit ledger implemented by `Liquity`, and a Stability Pool that keeps each
   deposit explicitly, implemented up to a bounded error.

## 3. Modules

### Contracts

| Module | Models |
|---|---|
| `LiquityBase` | the system constants and pure functions of `LiquityBase.sol`, `LiquityMath.sol`; totals over accounts, by a recursive function |
| `InductionLemmas` | induction and iteration over the naturals, proved |
| `StabilityPool` | the state and functions of `StabilityPool.sol` |
| `StabilityPoolSpec` | the pool alone, driven by every caller; its properties; offsets for TLC |
| `StabilityPoolLemmas`, `StabilityPoolProofs` | what totals and integer division do to bounds, and the invariant of the pool's functions; the theorems about the pool |
| `Pools` | ActivePool, DefaultPool, CollSurplusPool, balances of THUSDToken, system totals, the log of events |
| `TroveManager` | rewards, stakes, snapshots, redistribution, the list, closing |
| `Liquidations` | one liquidation in both modes, sequences, settlement |
| `Redemptions` | base rate and fees, redemption of one trove, the loop, settlement |
| `BorrowerOperations` | open, adjust, close, claim |
| `Liquity` | the composition: one action per external function, the price, the mint list |
| `LiquityProperties`, `MCLiquity` | the protocol's properties; instances for TLC |
| `LiquityLemmas`, `LiquityProofs` | what each function of the contracts does to the books; the theorem that they agree |
| `Governance` | the delayed changes of THUSDToken |
| `PCV`, `BaseRate`, `PriceFeed` | the bootstrap loan and the roles; the base rate under a clock; the feed |
| `BAMM` | the curve, the shares and the swaps of `B.Protocol`, and the client that withdraws |
| `PeripheryProofs` | the theorems about the last three rows, and about `Pages` |
| `MCGovernance` | `Governance`, `PCV`, `BaseRate`, `PriceFeed` and `BAMM` side by side |
| `TroveList`, `TroveListSpec` | a list of troves as a sequence; the abstract specification |
| `TroveRegistry`, `TroveRegistryProofs` | the linked list with hints, the array TroveOwners; how the client finds hints; the theorems about them |

### Client against the contracts

| Module | Models |
|---|---|
| `TroveCalculator` | Decimal, Trove and Fees of lib-base |
| `ClientOperations` | reads, prepared calls, hints, validation, the bot, HintHelpers, MultiTroveGetter; the details parsed from logs, and what they are supposed to say |
| `Subgraph` | the handlers of the events and the queries of lib-subgraph |
| `ClientProperties` | what client and subgraph may promise about the contracts |
| `Fuzzer` | the fuzzer's operations, predictions and checks |

### Client

| Module | Models | Subject in |
|---|---|---|
| `BlockPolledStore` | LiquityStore, BlockPolledLiquityStore, reads served from the store | `MCReading` |
| `StoreProvider` | ThresholdProvider and ThresholdStoreProvider; wallet and configuration | `MCReading` |
| `AugmentedProvider` | WebSocketAugmentedProvider: block events; repeated reads, receipts, lookups; BatchedProvider | `MCReading` |
| `Pages` | values that are read and watched (ObservableEthersLiquity, and useAsyncValue, which no page uses at present), paged tables of vaults and traders, the dashboard's cards and chart | `MCReading` |
| `AmountFields` | fields of a form with the conversions of Decimal | `MCReading` |
| `Transactions` | the shared transaction state and its monitor | `MCWriting` |
| `VaultPanel`, `StabilityPanel` | the panels of a vault, of a deposit and of a redemption, on pages that are left and entered, against the shared transaction state | `MCWriting` |
| `TransactableLiquity`, `EthersCalls` | what an operation promises; how lib-ethers carries it out | `MCWriting` |
| `Deployment` | the deploy task, with the TellorCaller of a real price feed | `MCWriting` |
| `ClientProofs` | the theorems about `EthersCalls`, `StabilityPanel`, `VaultPanel`, `Transactions`, `StoreProvider`, `AugmentedProvider`, `AmountFields`, `BlockPolledStore` and `Deployment` | |

**A transaction.** The EVM runs one transaction at a time and undoes it wholly
when any call in it reverts. An external function is therefore one action. Inside
it the code passes through several contracts; the state of all contracts between
two statements is a record `w` (variable `system` holds it between
transactions), and each internal function is an operator from `w` to the next
`w`. `Require(w, condition)` clears `w.ok`, standing for every `require`, `assert`
and checked subtraction; `Commit(w)` admits the transaction only when `w.ok` is
still TRUE. The order of the operators is the order of the calls. Calls to
accounts of users (ETH sends, see the comment "re-entry is fine here" in
`SendCollateral.sol`) come after the state changes of the function that makes
them, so a re-entrant call sees the state of a finished transaction or of one
whose only remaining effect is a transfer; re-entrance is not modelled further.
Events go to `w.events` in the order of emission; the subgraph handles them and the
receipts are parsed from them.

**An asynchronous step.** JavaScript runs one callback at a time, and React runs the
cleanups and effects of a render before the next event. A step of the client's modules is
thus one event (an answer, a timer, a block, a press of a button) with everything that
follows from it synchronously; an `await` ends a step, and what the code has read before
it is kept in the request that is then pending. A node may answer pending requests in any
order, reject them, or answer for an older state where the code has to cope with that.
Where the code renders first and subscribes in an effect after the paint, that is two steps
(`VisitDashboard`, `SubscribeCards`), as a block may come in between.

**The shared transaction state** is a module of its own (`Transactions`); the two panels
keep of it what they can see: their own transaction while that is shown (`own`, `sown`), their
transactions that were sent and are not shown any more (`aside`, `saside`), and whether
the monitor is at a transaction of another card (`busy`, `sbusy`). What other cards, other
collaterals and a change of the provider do to the state is the action `OtherCard`; a write while
a monitor is not finished makes the state idle (`Write`), as the cleanup of the monitor does.
The provider of the views and the monitor are above the pages, the cards are on them: leaving a page
unmounts a card and keeps its view.

**Numbers.** Amounts, prices and ratios are fixed-point integers and
`DECIMAL_PRECISION` stands for 1. It is a constant: 100 in the runs instead of
10^18, anything positive in the proofs. Division is `\div`, and where the code
rounds, the model rounds. Overflow of 256 bits is not modelled: the amounts that
exist are far below it; underflow, which does occur, is a guard.

**Users** are `1..NumUsers`, so that sums can be folded; the contracts that hold
THUSD are the next three accounts. The caller of a liquidation, the owner of a
trove, a depositor and a redeemer range over all users.

**SortedTroves** is a sequence in the composed model, highest nominal ratio first, and
the caller chooses any valid place (`insertAt`). `TroveRegistry` justifies this: it has
the nodes, head, tail and size of the contract, the walks up and down, and every pair
of hints, and its run shows that each step is a step of `TroveListSpec` when the list is
read from the head on (`ImplementsTroveList`, an INSTANCE with the chain of nodes as the
list). Both levels use the operators of `TroveList`. Ratios move under the list in every
way (`Redistribute`), more than redistributions really do, because the search must not
depend on the order. It does not: a walk down starts at a trove with at least the new
ratio (a usable hint, or the head after the test before it), so going down, either some
pair of neighbours encloses the new ratio or all troves have more, and the place after
the tail is valid; upwards alike. That argument needs the test that a hint is on the right
side; the mutant without it is caught.

**The BAMM** is one depositor of the Stability Pool and shared by its holders. Of the pool
the module keeps what this depositor can see: the compounded deposit, the gain, and
whether a deposit is recorded (`withdrawFromSP` refuses a depositor without one). A
liquidation takes any part of the deposit and gives any collateral, which is what the
proofs about the pool allow. `fetchPrice` answers 0 when the price source fails or is
more than an hour old. The iterations of the curve are recursive functions with the
code's bound of 255.

**The base rate** decays with `_decPow(MINUTE_DECAY_FACTOR, minutes)`. In the composed
model the factor is an input (`DecayFactors`); `BaseRate` has the clock, and computes the
power as contract and client do. **The price feed** of the composed model answers any
price of `Prices` with any status and changes its answer between transactions; where the
prices come from is in `PriceFeed`.

**A call of lib-ethers** (`EthersCalls`) is shown to implement `TransactableLiquity`, which says
what lib-base's interfaces promise: the operation takes effect at most once, details are
given only when it did, and "failed" or "cancelled" only when it never will
(`KeepsItsPromise`, an INSTANCE under a refinement mapping).

**External to the repository.** `BorrowElsewhere` stands for another set of
contracts on the token's mint list, the reason why `THUSDToken` keeps lists of
contracts instead of single addresses. Nodes, wallet, web3-react's manager, the Graph node's
order of handlers and the nonces of a node's pool are modelled from how the code uses them.

## 4. Runs

Every bound is a constant of its module: `MaxCalls` (transactions), `PriceChanges`,
`MintListChanges`, `MaxEpoch`, `MaxScale`, `MaxTHUSD`, `MaxTimestamp`, `MaxHeight` (blocks),
`MaxSends`, `MaxRuns` and so on, and the sets of inputs. Deadlock is not checked where a
behaviour ends because its bound is used up or a user may simply stop; it is in the
registry's run.

Properties that answer one question are joined under one name, which is what a cfg
lists; the parts keep their own definitions and comments.

| Run | Module, instance | Checks |
|---|---|---|
| `stability_pool` | `StabilityPoolSpec`: 2 depositors, 8 calls, offsets from small to emptying, 2 scale changes, 1 epoch change | `TypeOK`; `SnapshotsBehindPool`, `RewardFormulasNeverUnderflow`: nothing in the reward formulas underflows; `ShortfallBounded`: deposits exceed the pool by a bounded rounding error only; `DepositsEarnTheirOwn`: a fresh deposit has no past (`FreshDepositHasNoPast`, `FutureSumsZero`), and offsets only cut deposits and add gains (`OffsetsCutDepositsAndAddGains`) |
| `liquidation` | `MCLiquity`: 3 troves, one deposit size, 4 prices, 5 calls | `BooksAgree`: pools, troves, stakes, claims, supply, gas reserve and list agree (seven parts); `LiquidationIsNeverBlocked`, with `DefaultPoolCoversRewards`; `LiquidationsAreFair`: none hits a safe trove, capped ones leave the surplus, depositors cannot run; `ClientSeesTheSystem`: the client shows what the contracts would compute, offers exactly the liquidations that succeed, its pages cover the list, the bot is paid as it expects; `LiquidationsAreReported`: receipts tell liquidators and depositors the truth, and the subgraph follows (`SubgraphAgrees`, `SubgraphTotalsFollow`) |
| `borrowing` | `MCLiquity`: 2 borrowers from an empty system, 5 calls, price falls, mint list changes twice | `BorrowingIsSafe`: `TrovesAreWellFormed`, `OrdinaryStepsKeepNormalMode`, `ChangedTrovesAreSafe`; `ValidatedChangesSucceed`: no change that the form lets through is refused by the contracts; `BorrowingIsReported`: receipts and subgraph |
| `redemption` | `MCLiquity`: 3 troves, no PCV contract, stale and fresh hints, 4 calls | `BooksAgree`; `RedemptionsAreExact`: owners keep what exceeds the face value (`RedemptionTakesFaceValue`), a prepared redemption does what its hints say (`RedemptionHintsHold`, `IncreasedRedemptionsAreExact`), and the DefaultPool can pay the rewards of the troves it touches (`DefaultPoolCoversRewards`); `RedemptionsAreReported` |
| `migration` | `Fuzzer`: 2 troves, THUSD of another collateral, the mint list changes twice, 5 calls, the fuzzer beside them | `SystemStaysUsable`: no history makes the assert of `_computeNewStake` fail (`StakesSnapshotIsPositive`), and `LastTroveStays`, with owners rich enough to repay everything; `FuzzerIsRight`: its checks of the contracts never throw (`FuzzerChecksPass`, `OrderLeavesOneTrove`), what it predicts to fail fails, and what it predicts to succeed of openings, deposits, withdrawals and liquidations does (`PredictionsHold`) |
| `governance` | `MCGovernance`: 3 addresses and address(0), delay 2, 5 blocks, 2 owners; the PCV; a base rate with a clock; the feed; a BAMM with 2 holders | `GovTypeOK`, `ChangesAreAnnounced`; `PcvIsBound`: `LoanIsRepaidFirst`, `RolesAreAnnounced`; `BaseRateDecays`: `DecayIsNotPostponed`, `RateRisesByRedemptionOnly`, `ClientKnowsTheBaseRate`; `FeedTracksOracle`; `HoldersGetTheirPart`: rounding costs the others at most dust, the client's shares are worth the amount; `SwapsAreSound`: `SwapsStayPossible`, `SwapsCostAtMostTheDiscount` |
| `trove_registry` | `TroveRegistry`: 4 borrowers (interchangeable), 3 ratios, all pairs of hints, unlimited steps | `ImplementsTroveList`; `RegistersAreSound`: `HintsAlwaysLeadToAPlace`, `ListIsDoublyLinked`, `OwnersMatchList`, `ClientHintsNeedNoWalk` |
| `reading` | `MCReading`: each reading part of the client on its own | `StoreServesItsReaders`: `StoreCatchesUp`, `SubscribersAreUpToDate`, `ReadsAnswerTheQuestion`; `ApplicationSettles`: the application is shown with loaded stores of the right account (`ShownStoresAreLoaded`, `PanelSettles`); `BlocksAreHeard`: block events survive sockets (`ListenersAreFed`, `SocketOrTimer`, `StoreIsTold`, `WaitEnds`); `LaggingNodesAreOutwaited`: `RepeatedReadsEnd`, `ReceiptIsNotOverlooked`, `NoBackendHasIt`; `BatchesAreAnswered`: `AnswersBelongToTheirCalls`, `CallsAreAnswered`; `PagesAreCurrent`: `WatchCatchesUp`, `TableShowsItsPage`, `RankingIsPaged`, `CardsShowTheStores`, `SumsAreOfTheMount`, `ChartShowsItsData`; `GateOpens`: `GateAgrees`, `LoaderEnds`; `FieldsKeepAmounts`: `FieldsShowTheirAmounts`, `MaxIsExact` |
| `writing` | `MCWriting`: each sending part of the client on its own | `TransactionsAreFollowed`: `ConfirmedMeansSucceeded`, `WaitingIsMonitored`, `ButtonsWait`, `EndsIdle`; `VaultPanelAgrees`: `ViewAgrees`, `OneChangeAtATime`, `OverlayMeansWaiting`, `TypedDifferencesAreKept`, `EstimateIsCurrent`; `StabilityPanelAgrees`: `NothingIsSentTwice`, `WantedChangeIsKept`, `CardsAreReleased`; `KeepsItsPromise`; `DeploymentsAreSound`: `NoncesAreFree`, `RecordedIsConnected`, `RunsEnd` |
| `bamm_exit`, `store_cleanup`, `subgraph_totals` | as above | counterexamples to a test, a comment and a check of the repository, see *Findings* |

**Parts side by side.** `MCGovernance`, `MCReading` and `MCWriting` hold several components
that share no state. The variable `subject` says which one a behaviour is about and the
others keep their initial state, so the number of states is the sum and not the
product. Where components do interact, the interaction is inside one module or a
composition (`Liquity` with client and subgraph, `BlockPolledStore` with its reads,
the BAMM with the client that withdraws from it).

**Why these bounds.** With `DECIMAL_PRECISION = 100` and `SCALE_FACTOR = 10` three
offsets drive P through two scales, and each rounding is a percent: what takes
10^9 on chain takes one step here, so that rounding effects show with amounts of
some hundreds. Four borrowers give the list an inner pair of neighbours besides its
ends, and `TroveRegistry` needs no bound on steps. The BAMM's virtual shares are 10 instead
of 10^8, its unit is 10. Two depositors suffice for the pool because its accumulators do not
name depositors and what one of them is owed depends on the other through the
totals only; three troves are the fewest with a
middle one, a redistribution to two troves and a change of mode in a sequence.
`MCLiquity` starts most runs after the first troves have been opened (by
the model's own `openTrove`), so that the calls are spent on what follows; the
borrowing run starts from deployment. The prices are chosen so that the same
troves are safe, in Recovery Mode, below MCR, and below 100%. Inputs of actions
that a run does not ask about are left out with an empty set; every action fires
in some run.

In the client's runs two of each kind (subscribers, collaterals, users, nodes, keys)
are enough for the one to interfere with the other, and three blocks for an answer to
be overtaken twice. A socket closes at most `MaxCloses = 1` times after having been
reopened; with 2 the run also passes and takes longer. A killed deployment is followed
by one more run, which meets the transactions the first one left. The panels have one amount
to type in the run; on their own they were also checked with more: `VaultPanel` with two amounts of
collateral and two of debt (2 million states), `StabilityPanel` with three amounts and two
liquidations (1.8 million). Texts in `AmountFields`
have at most three places where a Decimal keeps two, so that cutting and rounding happen.

**Fairness and liveness.** The contracts have none: no contract has a step that happens by
itself. Liquidations, fee operations and price updates are calls that somebody
may or may not make, and nothing in the code guarantees one. What can be said
instead is that a step *stays possible*: `LiquidationIsNeverBlocked`,
`RewardFormulasNeverUnderflow` and `StakesSnapshotIsPositive` say that no history
leads to a state where the call would revert.

The client does have such steps. `ReadingFairness` and `WritingFairness` assume that the event loop
runs the callbacks and timers that are due, that a node answers or rejects each
request, that blocks go on being mined and announced, that a socket being opened is
established or closed, that a transaction is mined or given up, and that a script
that is not killed goes on. These are weak fairness of the steps named there. It is strong for
two: answers to the store, because telling subscribers disables them for a moment, and
finding a receipt, because a node that is asked again and again has it in the end. Nothing is
assumed of users, wallets, and of how often others act. Under these
`StoreCatchesUp`, `PanelSettles`, `StoreIsTold`, `WaitEnds`, `CallsAreAnswered`, `WatchCatchesUp`,
`LoaderEnds`, `ChartShowsItsData`, `RepeatedReadsEnd`, `EndsIdle` and `RunsEnd` are liveness
properties.

**Conditions of some properties.** Where the code gives no guarantee the property says so
in its own text instead of the model leaving the case out. `StoreCatchesUp` and
`WatchCatchesUp` except the case that an older answer comes after a newer one, for no guard prevents
it; `TableShowsItsPage` likewise. `ReadsAnswerTheQuestion` excepts what the store keeps as loaded, the
reads of the latest balance, and the PCV's balance, the BAMM's deposit and its allowance, which the
store serves as zero without ever reading them. `CardsShowTheStores` excepts a price that
changes between the rendering of its card and its subscription. `GateAgrees` says that the spinner turns
without an activation that counts only when the wallet has answered "already pending".
`ButtonsWait` is about those who look at the transaction that is shown before they send: the
buttons, which are disabled while a transaction of their collateral is pending, and a form that
waits for its own; it fails when a button is disabled for its own transaction only. `ViewAgrees`
excepts vaults that others close, and vaults that are opened or closed while no card is there to hear
of it, for the view is only told by the cards. `OneChangeAtATime`, `OverlayMeansWaiting`, `NothingIsSentTwice`,
`WantedChangeIsKept` and `CardsAreReleased` hold until another use of the shared state, Cancel or a reload
overtakes a transaction of the panel (`overtaken`, `sovertaken`), and those of the deposit until
a loss is taken for the awaited change (`interfered`); see *Remarks* for what happens then.
`PredictionsHold` leaves out the success of adjustments, closures and redemptions.
`SubgraphTotalsFollow` excepts the cases of the finding below. `SumsAreOfTheMount` says of
the sums on the dashboard that they are those of the moment it was opened.

**Why `StakesSnapshotIsPositive` holds** deserves a word. Liquidating every trove
would leave dust in the DefaultPool and no stakes. With one trove left below MCR
the system's ratio is that trove's, up to the dust, hence below CCR; that is
Recovery Mode, where `_liquidateRecoveryMode` returns without liquidating the last
trove. The stop holds also while BorrowerOperations is off the mint list, when
`_closeTrove` no longer refuses to close the last trove. Dropping this return from the model
makes the run fail.

**Mutants.** Each property is shown to fail when a definition it depends on is
replaced by a faulty variant (`..._Skipped`, `..._NoCap` and so on); the variants
stand before the definitions they replace and are used nowhere else.

## 5. Proofs

Proved by TLAPS, for all values of the constants allowed by the assumptions. Each of them
states a property that a run checks on its instance, or named parts of one: the three after
`BooksAlwaysAgree` are parts of `LiquidationsAreFair`, `BorrowingIsSafe` and `SystemStaysUsable`,
that about the BAMM is a part of `HoldersGetTheirPart` and one of `SwapsAreSound`; those from
`TransactionsStayFollowed` on are, but for `FieldsAlwaysKeepAmounts`, the safety parts of `TransactionsAreFollowed`,
`GateOpens`, `ApplicationSettles`, `BlocksAreHeard`, `LaggingNodesAreOutwaited`, `BatchesAreAnswered`,
`StoreServesItsReaders` and `DeploymentsAreSound`; and those about pages are two parts of `PagesAreCurrent`.

| Theorem | States |
|---|---|
| `StabilityPoolProofs!PoolTypeCorrect` | `Spec => []TypeOK`; P stays in `1..DECIMAL_PRECISION` |
| `StabilityPoolProofs!SnapshotsStayBehind` | `Spec => []SnapshotsBehindPool` |
| `StabilityPoolProofs!RewardFormulasSafe` | `Spec => []RewardFormulasNeverUnderflow` |
| `StabilityPoolProofs!ShortfallStaysBounded` | `Spec => []ShortfallBounded` |
| `StabilityPoolProofs!DepositsAlwaysEarnTheirOwn` | `Spec => DepositsEarnTheirOwn` |
| `LiquityProofs!BooksAlwaysAgree` | `Spec => []BooksAgree`, for the composed protocol |
| `LiquityProofs!LiquidationsStayFair` | `Spec => OnlyUnsafeTrovesAreLiquidated /\ CappedLiquidationLeavesSurplus` |
| `LiquityProofs!BorrowingStaysSafe` | `Spec => []TrovesAreWellFormed /\ OrdinaryStepsKeepNormalMode` |
| `LiquityProofs!LastTroveAlwaysStays` | `Spec => LastTroveStays` |
| `TroveRegistryProofs!ListIsImplemented` | `RegSpec => ImplementsTroveList`: the linked list implements `TroveListSpec` |
| `TroveRegistryProofs!RegistersStaySound` | `RegSpec => []RegistersAreSound` |
| `ClientProofs!CallsKeepTheirPromise` | `EthersSpec => KeepsItsPromise`: a call of lib-ethers implements `TransactableLiquity` |
| `ClientProofs!DepositPanelAlwaysAgrees` | `StabilityPanelSpec => []StabilityPanelAgrees` |
| `ClientProofs!VaultPanelAlwaysAgrees` | `VaultSpec => []VaultPanelAgrees` |
| `ClientProofs!TransactionsStayFollowed` | `TxSpec => []ConfirmedMeansSucceeded /\ []WaitingIsMonitored /\ []ButtonsWait` |
| `ClientProofs!GateAlwaysAgrees` | `GateSpec => []GateAgrees` |
| `ClientProofs!ShownStoresAlwaysLoaded` | `ProviderSpec => []ShownStoresAreLoaded` |
| `ClientProofs!BlocksStayHeard` | `AugSpec => []ListenersAreFed /\ []SocketOrTimer` |
| `ClientProofs!ReceiptsAreNotOverlooked` | `WaitSpec => []ReceiptIsNotOverlooked` |
| `ClientProofs!LookupsAskEverybody` | `LookupSpec => []NoBackendHasIt` |
| `ClientProofs!BatchedAnswersBelong` | `BatchSpec => []AnswersBelongToTheirCalls` |
| `ClientProofs!FieldsAlwaysKeepAmounts` | `FieldsSpec => FieldsKeepAmounts` |
| `ClientProofs!StoreAlwaysServesReaders` | `StoreSpec => []StoreTypeOK /\ []ReadsAnswerTheQuestion /\ []SubscribersAreUpToDate` |
| `ClientProofs!DeploymentsStaySound` | `DeploySpec => []NoncesAreFree /\ []RecordedIsConnected` |
| `PeripheryProofs!PcvStaysBound` | `PcvSpec => PcvIsBound` |
| `PeripheryProofs!FeedAlwaysTracksOracle` | `FeedSpec => []FeedTracksOracle` |
| `PeripheryProofs!BaseRateAlwaysDecays` | `RateSpec => BaseRateDecays` |
| `PeripheryProofs!GovTypeCorrect`, `AnnouncedForTheDelay` | `GovSpec => []GovTypeOK`, `GovSpec => ChangesAreAnnounced` |
| `PeripheryProofs!BammPartsAreKept` | `BammSpec => OthersKeepTheirPart /\ SwapsCostAtMostTheDiscount` |
| `PeripheryProofs!TableAlwaysShowsItsPage` | `TablesSpec => []TableShowsItsPage` |
| `PeripheryProofs!CardsAlwaysShowTheStores` | `DashboardSpec => []CardsShowTheStores` |

*Assumptions.* `BaseAssumption` (positive unit, 1 < MCR < CCR, a positive gas reserve, some
user), `FeeAssumption` (rates of at most one), `PoolAssumption` (`SCALE_FACTOR` squared is at most
`DECIMAL_PRECISION`, as with 1e9 and 1e18), `InputAssumption` (inputs of the unsigned types
the functions declare, a decay factor of at most one, positive prices), `RegistryAssumption`
(finitely many borrowers, positive ratios below that of an account without debt),
`RatesAssumption` (the client's rates are naturals), `TxAssumption` (the empty key of the state is
no transaction's), `ProviderAssumption` (finitely many collaterals), `AugAssumption` (the bound on
registrations that are counted is positive), `AmountsAssumption` and `TextsAssumption` (amounts are
naturals, and a text that is a decimal has digits, places and an integer exponent), `HeightAssumption` (there
is a block), `DeploymentAssumption` (no more connections than contracts, and at least one),
`PageSizeAssumption` (a page has rows), `MainStoreAssumption` (the first store is one of the
stores), and those of the modules of the periphery
and of the panels (a positive unit, delays and amounts that are naturals).

*Induction.* The library's induction theorems take a predicate as a parameter, which the
installed provers cannot instantiate. `InductionLemmas` states induction with a *set* of
naturals instead, from the well-foundedness of `<`; a step cites it with the set of the
lengths for which the claim holds. With it the recursive definitions unfold: the prefix sums
behind every total (`SumUpdate`: changing one entry changes the total by as much), the loops
of liquidations and redemptions, the walks over the list, and the rounds of the powers.

*The pool.* `SPInv` joins the types with `SnapshotsBehindPool`;
`RewardFormulasNeverUnderflow` is not inductive alone, for the
formulas only make sense when snapshots lie in the pool's past. That a snapshot's S is
behind the sums survives an offset because sums only grow; that P is behind `snap.P`
within a scale because the product factor is at most 1; across a scale change because P
grows by at most SCALE_FACTOR, which is what the formula for adjacent scales divides by
again; a new epoch puts every older snapshot out of the formulas' reach.

*The shortfall.* What a deposit is worth before rounding is a fraction, and the fractions of
different depositors have no common denominator. `DepositsCovered` therefore says that there
are a denominator M and a share for each depositor, at least what the deposit is worth, and
that the shares together exceed what the pool holds by at most
`(MaxTHUSD - lastTHUSDLossError_Offset) / DECIMAL_PRECISION`. An offset multiplies M by
`DECIMAL_PRECISION` and every share by the product factor; the error that it carries to the
next offset keeps the excess within the bound.

*The books.* Inside a transaction the books do not agree: debt is created before it is
recorded, collateral sits in one pool while the trove already lacks it. `LiquityLemmas`
gives each difference a name (`DebtGap`, `CollGap`, `SupplyGap`, `ReserveGap`, `SurplusGap`,
and the pool's THUSD, `Pooled`). `Leads(w, v, ...)` says by how much the function that leads from
`w` to `v` changes each gap unless it reverts; there is one such lemma for each function of
the pools, the token and the TroveManager. `Sound` is what holds between any two
statements that write no trove: the types, a list with every open trove once, stakes that
add up, snapshots not ahead of the sums. Over a whole external function the gaps
cancel (`OpenTroveBalanced`, `AdjustTroveBalanced`, `CloseTroveBalanced`,
`LiquidationBalanced`, `RedemptionBalanced` and the smaller ones). For a liquidation this
needs an invariant of its loop (`LoopSound`): the totals account for all debt and
collateral taken, no more is offset than the pool holds, and what is missing in the books is
exactly the totals; for a redemption `RedeemSound`. `BooksInv`, the inductive invariant, joins
the balanced books with `SPInv`, since a gain moved to a trove must be an amount and an
offset must not exceed the deposits. Without a PCV contract the equalities for
collateral and supply become inequalities, as the fees stay where they are.

The proof found one flaw of the model: two arms of the CASE of `redistributeDebtAndColl`
overlapped, which TLC resolves by order and TLA+ does not; the arms are disjoint now.

*Liquidations and borrowing.* What a transaction may do to the ratios is stated for a
whole step, from the invariant of the books (`SafeStep`, `NextSafe`). For borrowers and
redeemers each function of the contracts has a lemma that it `Spares` the troves (none is
liquidated, none is left below the minimum debt, the last one is not closed) and by how much
it `Shifts` the system's collateral and debt; the shifts of an operation add up to exactly the
change for which `_getNewTCRFromTroveChange` was asked, so the ratio that was checked is the one
that results (`CheckedMode`, `KeepsMode`). Neither fees nor pending rewards spoil this: a fee is
part of the change that is checked, and rewards only move between two pools that are both
counted. For liquidations the induction goes over the sequence (`LoopFair`): a trove is
untouched since the beginning of the transaction or was taken fairly. This is enough because
the sums `L_Collateral` and `L_THUSDDebt` move only after the loop, so a trove that has not
been reached yet has the ratio it had before the transaction (`UntouchedRatio`), and
because a sequence in Recovery Mode goes on only while the ratio it keeps by itself is below
CCR. A trove's surplus is credited at once and nothing after the loop touches the claims
(`KeepsClaims`). The last trove stays because `_closeTrove` counts the list at each closure,
and the list has every open trove once (`ListOthers`).

*The registers.* The invariant says that there is a sequence which the nodes link both ways
(`Linked`); it is what reading from the head gives back (`ChainIsList`). A place that
`_validInsertPosition` accepts is a position of that sequence whose neighbours enclose the
ratio (`ValidPlaceFits`, `FittingIsValid`); linking a node between them inserts into the
sequence and unlinking removes from it (`InsertedIsLinked`, `RemovedIsLinked`), with the other
nodes untouched. That a hint always leads to a place is not obvious, since redistributions may
have put the list out of order: a walk down only passes places below a trove whose ratio is
not below the new one, so it ends at the latest behind the tail, and it reaches the tail because
the sequence is no longer than there are borrowers (`DescendFinds`, `AscendFinds`,
`ListIsShort`). For the client's hints the order is needed: the trove that moves is left out of
the place that was found, and its neighbour must still enclose the ratio (`JumpedIsValid`); at
either end the hint is one trove twice, and the first place looked at from it is the one
(`WithoutZeroAtOnce`). In TroveOwners the converse of `OwnersMatchList` is needed as well, that
every entry is an open trove at its index: else the owner that fills the hole could be the one
removed.

*The base rate.* The powers of the decay factor are rounded in every round, so that a
larger exponent gives no larger power is not obvious: the runs of the loop for m and
m + 1 minutes are compared round by round (`Paired`). *The feed*: a factor of zero, left by
`updateDeviationFactor` before `updateRate`, is repaired by `updateAll`. *The PCV*: the loan and
the counter agree because nothing is owed before the one loan. *Governance*: the history
variable `unseen` notes for each kind of change and account when nothing pending last named
it, as a watcher of the token's getters would; `VisibleSinceStart` says that a running timer is
not older than that note. Each start sets both, a restart for another account resets
the timer, and a finalization needs the timer plus the delay. `PendingSinceStart` is the same
for the PCV's roles.

*A call.* `TransactableLiquity` knows the operation, whether it is open, done or ruled out, and
the answer; the refinement mapping reads the second from the transaction in the network. The
tables of operations on both sides are compared row by row (`DetailsAsPromised`). `CallInv` says
that between calls nothing is told and that no transaction is out before it is sent; then
populating and sending are stuttering steps or an error told, and a receipt says what
became of the transaction (`ReceiptSays`). The run `writing` checks the same on behaviours whose
subject is a call.

*The panel of a deposit.* `StabilityPanelAgrees` is not inductive. `Followed` is what holds as long as
the cards see what becomes of their transactions: none is aside, and `FlagsAgree` ties the
changePending flags of both cards to the transaction, also when a card is mounted in the middle
(`MountedForms`); `ReleasedByItsResult` says that a form without its flag has
already seen the transaction's own result; and `CutsStayCut` that a
decrease which the form has cut at zero is not exceeded by a deposit that has grown since, for
then `whatChanged` and `apply` would not give the wanted change back (`RebasedChange`). A
deposit grows only through the depositor's own transaction, which is no withdrawal and is
behind the overlay while the form wants less (`SendsWhatIsWanted`). A transaction that is denied,
reverts or is lost is seen by the card that is mounted (`SeenByCards`); a write that meets an unfinished
monitor ends `Followed`, and a reload begins it again if nothing is left to be mined.

*The panel of a vault.* `VaultPanelAgrees` is not inductive either, because a card knows
a transaction only by its id and its own flag. `CardKnows` says that the *view* from which a change was
sent stays until the change is decided, whether its page is shown or not; this is what its overlay, or in
VaultManager the flag, achieves. `StatusKnown` says that an open vault is shown as one, except while
a creation or a closure has been mined and its receipt is not there yet (`Settling`); then the
receipt finds the card that makes the transition (`ConfirmedCard`, `HeardByItsCard`), or `surprised` notes
that it did not. `FlagKnows` says of VaultManager
that the flag stands for a transaction to wait for, and that without the flag there is nothing left
to send while a change is under way: when the store sees the change first, the flag is dropped,
but the edited vault becomes the new one (`ManagerUpdates`). An open vault keeps the
debt that pays for its liquidation (`VaultOK`), so Adjusting can offer an adjustment only,
never a closure under the id of an adjustment (`AdjustingOffers`). `AsideKnown` says that a
transaction is out of sight only after another use of the state has overtaken it; `CardKnows` and `FlagKnows` are
lost then, and the property says so with `overtaken`.

*The client's state machines.* Of the shared transaction state, what is said of confirmed and
of waiting states is inductive once `FatesKnown` says that what is monitored was sent.
`ButtonsWait` is not: `OneIsShown` says that, unless somebody used the state without looking at it, wallet,
monitor and pending reasons together hold at most the transaction that is shown. `GateAgrees`
is not either: `GateInv` says that the state is activating exactly while an activation began after the
last change of the manager, which makes all earlier ones stale (`ManagerForgets`). That the stores shown are those of the present connections is a matter
of counting in the code (`loadedStore.length`), and so in the proof: `ProviderInv` says that the
collected stores are different, loaded and of the present connections, because only these still have their
`onLoaded`; as many as there are collaterals are then all of them. `AugInv` adds to the two properties
that a known timer runs, so that a socket which closes cannot clear the last timer without
setting another. `WaitInv` says that nobody knows a block that is not in the chain, hence a
transaction mined later is in none of the blocks that were looked at; `LookupInv` that
a lookup waits only while nobody has said more than null. `BatchInv` says that the calls of a batch
were made for the block of the batch (`MadeFor`): the batch is compared with the call after the
await, when the call is added to it, and a call keeps its block. The proof of the lookup failed at
first: two arms of a CASE overlapped, so that the definition did not say that the first answer
counts; it now does.

*The store and the fields.* `StoreInv` says of the store's copy that it is the chain's state at
the block it is tagged with, except for what is kept as loaded and what is never read, so that a read may be answered
from it exactly when the tags agree; the table of reads is gone through row by row
(`ReadsTable`), since a user's state may only be served to that user. Subscribers are up to date because
whoever is not informed is either still to be called back or no longer a listener. For the
fields the powers of ten are a recursive function, and the two conversions of `Decimal` are
compared: rounding before cutting gives the nearest multiple (`NearestMultiple`, `ShownIsNearest`), and a text
with all 18 places, which only `max` writes, is read back as the same amount (`MaxTextIsExact`).

*A deployment.* That the nonces counted from `latest` are free looks wrong at first, for a run that was killed
while it sent its connections may have left some in the pool behind a gap, in front of which `latest` stays. The
invariant measures how far the pool reaches beyond its first gap (`Reach`): no further than a run
deploys contracts, because there are no more connections than contracts. Each deployment is sent
with the first free nonce, hence fills the gap or moves it on, and lowers that distance by one
(`SendingFills`, `DeployingRoom`). The next is sent only once it is mined. So when all contracts are there the
pool is empty (`CountingRoom`), and from then on it holds only the connections of this run
(`ConnectingRoom`). The TellorCaller of a run with a real price feed is sent like a deployment and
keeps the distance (`HookKeepsRoom`). With more connections than contracts the argument and the property would fail.
There is a first gap at all by the pigeonhole principle (`FirstGap`).

*Pages.* `TableInv` says that the newest call asks for the page and the number of vaults that are
shown in the heading, and is on its way, answered last, or overtaken; a render either makes
a call or leaves both unchanged (`CallsOfARender`). A card whose selected part is unchanged would render what it
shows already (`UnrenderedStaysRight`); `CardsInv` says which cards are right before the effects have run.

*The BAMM.* Both properties are arithmetic about one step, and the bounds are those that the
arithmetic gives: a holder loses at most one share to the share that a deposit is rounded up
by (`DepositKeeps`), and to a withdrawal at most one unit of collateral and three of THUSD, one
each for the THUSD rounded up, the virtual unit that is counted twice, and the value of the
collateral rounded down (`WithdrawalKeeps`). The attempt with a unit less failed, and showed amounts
beyond the instance for which a withdrawal does cost the last unit. The arithmetic needs that two holders
have no more shares together than there are. That is not inductive, as a withdrawal of the third
lowers the total; that *any list* of different holders has no more is (`Covered`): were the shares of a list too many
after a holder has withdrawn, then so were those of the list with the holder before
(`CoveredBurned`). Of the curve nothing is needed but that the result is capped, so the bound
on swaps holds for every amplification and every price of THUSD.

*Only model-checked.*

* Liveness under fairness (`StoreCatchesUp`, `PanelSettles` and the others named in *Fairness*):
  it needs ENABLED, which this prover does not have.
* What depends on amounts that are not minute: `DefaultPoolCoversRewards`, which fails for
  some (see its comment), and with it `LiquidationIsNeverBlocked`; `StakesSnapshotIsPositive` and
  `ChangedTrovesAreSafe`, where the rounding of a stake or of a ratio counts. A proof would have
  to bound amounts from below, which the code does not.
* What rests on the order of the list, which is only approximately that of the ratios:
  `DepositsStayForLiquidations` and `RedemptionTakesFaceValue`, as the code looks at the last
  trove, or the first one redeemed from, for all others.
* Of the BAMM, that the curve always has a price (`SwapsStayPossible`), which rests on how fast its
  iterations converge within 255 rounds; what the client's shares are worth, where rounding is
  compared with rounding; and that the total is the sum of the shares, a fold of the
  community modules (the proof uses the inequality above instead).
* Of the pages, the sums and the ranking, which are a fold and a sorting of the community modules,
  whose values this prover cannot compute.
* The client against the contracts, the subgraph and the fuzzer; see *Plan*.

## 6. Findings

Three statements of a test, a comment and a check are not what the code does.

* **Withdrawing everything** (`bamm_exit`). `BAMM.withdraw` rounds the THUSD amount up and counts
  the virtual unit in. When the fund has lost THUSD since the shares were issued, the
  amount for all shares is one unit above the deposit, the transfer exceeds what the
  Stability Pool paid, and the call reverts. A liquidation suffices. The only holder (the PCV
  at the start) has to leave some shares behind; after a liquidation that empties the
  pool no holder can take out collateral until somebody deposits or swaps. The test "one user
  deposits, withdraws everything" meets a case where nothing was lost.
* **Stores go on polling** (`store_cleanup`). The cleanup of `ThresholdStoreProvider` calls
  `start()` once more to get a function that stops the store. That function stops the second
  polling; the first one, whose function was not kept, goes on with the old account.
* **Totals of the subgraph** (`subgraph_totals`). The event `LastGoodPrice` carries the
  redemption price, the contracts compute with its inverse. The subgraph judges ratios by the
  event's price, so a liquidation in Recovery Mode may be offset in one and redistributed
  in the other, and its totals stay wrong. `SubgraphTotalsFollow` shows that nothing else makes
  them differ.

### Remarks

Met while modelling; these have no run of their own.

*Pool and troves.* The loss per unit does not always favour the pool: the error fed back
(`StabilityPool.sol:393`) was made when deposits and P were larger, so the next loss may be
too small. With 18 decimals the difference is up to about 10^5 wei; `ShortfallBounded` shows
that it stays bounded. An epoch may start while less than one unit per deposit is left,
because the loss is rounded up to a total one (line 432). P may fall below SCALE_FACTOR,
which the comment at line 72 calls its minimum, because an offset makes at most one scale
change. Rewards are rounded per trove, which may swap two neighbours of the list whose nominal
ratios differ in the last digit. The assert at `TroveManager.sol:930` compares a balance of
the token all collaterals share with the debt of one: a holder with more than that cannot
redeem until the balance is split.

*Around the core.* A withdrawal of one share from a BAMM of one unit takes that unit, so that
`deposit` meets the case it calls "in theory not reachable" (`BAMM.sol:155`). A new redemption
rate is applied to the time before it was set (`PriceFeed.sol:126`); a redemption price that
rounds to 0 makes every operation revert (line 69, and the TODO at line 84);
`setUniV3PoolAddress` before `setAddresses` locks the feed. The PCV skips the delay while no
roles are set.

*The client and the contracts.* Validated changes assume the mint list and an active feed.
`validateStabilityDepositChange` does not compare the deposit with the balance. Redemption
hints do not guard against closing the last trove. `getBammDeposit` reads the native
balance also for an ERC20 collateral (`ReadableEthersLiquity.ts:381`), and
`getWithdrawsSpShare` divides by zero when nothing is left. The receipt of a BAMM withdrawal
looks for a Transfer that does not occur, so that its amount is undefined
(`PopulatableEthersLiquity.ts:645-668`); so is that of a withdrawal of a wholly burned deposit.

*Subgraph and fuzzer.* The queries sort by a key with the opposite meaning
(`schema.graphql:105`, `SubgraphLiquity.ts:342`). `updateTrove` returns early
when debt and collateral are as before and then skips stake and snapshots (`Trove.ts:102`). The fuzzer expects success
also where the contracts refuse: closing the last trove or one whose closing would leave the system
in Recovery Mode, redemptions while the feed is not usable, some adjustments in Recovery Mode.
`PredictionsHold` leaves these operations out and says so. Its command chaos also runs `checkSubgraph`, which
throws on the trace of `subgraph_totals`.

*Reading.* An untagged first fetch may mix two blocks; the native balance ignores the block tag;
the mint list and the symbol are never updated once loaded, and the PCV's balance, the BAMM's deposit
and its allowance are constant zeros in the store, with which reads at its block are answered
(`BlockPolledLiquityStore.ts:109`, `115`, `132-142`). An answer that comes after a newer one puts
the store back, and a fetch in flight when the store is stopped sets its timer again. One
reverting call rejects its whole batch. `_seenBlock` may go back at a switchover; without
announcements a read of a pruned block is repeated for ever; a block mined at the moment of a
switchover is missed. `RiskyVaults.tsx:118-131` shows an older page when answers come out of
order. The sums on the dashboard are those of the moment it was opened. A price that changes after its card
was rendered and before the card has subscribed is not shown until the next one
(`useThresholdSelector.ts:49-63`). Pressing Connect while the wallet has a request pending
leaves a spinner that nothing stops (`WalletConnector.tsx:160`); `AsyncValue.ts` is used by no page; the third entry of `Leaderboard.tsx:20-24` is not in lower case as
the comment there demands.

*Sending.* The cleanup of the transaction monitor may overwrite a newer state, and an approval
that arrives while another transaction is monitored loses both monitors. Idle clears no card's
changePending, so the overlays of VaultManager, StabilityDepositManager and RedemptionManager then stay until
the store sees the change or the card is left, and those of Opening and Adjusting go while
the transaction is still under way and the change can be sent again. A vault that is opened or closed after its page was left,
or after another card took the state over, may be shown as before until the page is loaded again. `getReceipt` never
looks for replacements. The static `connect` of `EthersLiquity` always throws. The
status effect of the vault's view has no dependencies and so sees an old view
(`VaultViewProvider.tsx:162-177`); adjusting a liquidated vault throws (`Trove.ts:433`). In
`LiquidatedVault.tsx:70-76` "Open Vault" is offered while there is a surplus, and the
button to claim it is then gone. A
partial withdrawal that meets a loss can become a withdrawal of everything. The transactions of
a killed deployment wait behind a gap of nonces and run during the next one; a folder
without its file is still listed in `collaterals.json`; the path with a real price feed deploys a TellorCaller and then throws.

## 7. Not modelled

* Allowances, permits and the collateral token: the transfers of an ERC20 collateral are
  taken to succeed. `withdrawCollateralGainToTrove` passes through BorrowerOperations,
  which pulls an ERC20 collateral from the StabilityPool; whether an allowance for that
  was given is outside this model.
* `setAddresses`: in the models of the contracts each knows the others from the start, and
  the callers of restricted functions are the contracts those setters name. The order in which
  the deploy task connects them is in `Deployment`.
* THUSD sent to a contract outside its functions; who owns the BAMM, and the setting of its
  second price source; the arithmetic of the PI controller, whose answer is any rate of a set;
  the history of aggregated ratios; gas.
* Proxy scripts, `led-cli` and the price feed tasks, which forward one call.
* `_CachedReadableLiquity`, which no other package uses. Most of what the client reads through is in
  `BlockPolledStore`.
* `mainnetDeployment.js` and its helpers are left over from Liquity: they call constructors and
  use names that no longer exist, so there is no behaviour to model.
* Layout, wording and styles of the frontend; the shortened and grouped spelling of
  amounts.

The rest of the repository's JavaScript is data and tests without logic of the system: lists
of accounts, ABIs and generated types, `gasTest`, `testHelpers`, `errorAccumulationTest`,
`fuzzTests`, `mathPlayground`, the theme. These, with the leftovers above, are about
two fifths of its lines outside the test suites. Of the remainder about half is translated; the rest
is markup, texts, types and interfaces, and wrappers around one call.
