------------------------------- MODULE Pools -------------------------------
(***************************************************************************)
(* The contracts that hold balances: ActivePool, DefaultPool,              *)
(* CollSurplusPool, and the balances of THUSDToken (GasPool, StabilityPool *)
(* and PCV hold THUSD as accounts of the token).                           *)
(*                                                                         *)
(* A transaction runs through several contracts.  Their state between two  *)
(* statements of it is a record w, and a function of a contract is an      *)
(* operator from w to the next w.  w.ok turns FALSE when a require, an     *)
(* assert or a checked subtraction fails; the action of the transaction is *)
(* then disabled, as the revert undoes every change.  w.events are the     *)
(* events that the subgraph and the client read, in the order of emission. *)
(***************************************************************************)
EXTENDS LiquityBase, Sequences

\* The contracts that hold THUSD.
gasPoolAddress       == NumUsers + 1
stabilityPoolAddress == NumUsers + 2
pcvAddress           == NumUsers + 3
NumAccounts          == NumUsers + 3
Accounts             == 1..NumAccounts

\* Contracts that hold collateral only.
defaultPoolAddress     == NumUsers + 4
collSurplusPoolAddress == NumUsers + 5

Require(w, condition) == [w EXCEPT !.ok = @ /\ condition]

Emit(w, event) == [w EXCEPT !.events = Append(@, event)]

\* Emitted by THUSDToken; the account 0 is the zero address.
TransferEvent(from, to, value) ==
  [event |-> "Transfer", from |-> from, to |-> to, value |-> value]

\* PriceFeed.getRedemptionPrice emits the price of THUSD in collateral;
\* fetchPrice answers its inverse.
fetchPrice(w, price) ==
  Emit(w, [event |-> "LastGoodPrice",
           newPrice |-> (DECIMAL_PRECISION * DECIMAL_PRECISION) \div price])

-----------------------------------------------------------------------------
(* ActivePool *)

\* BorrowerOperations and DefaultPool send collateral in (receive,
\* updateCollateralBalance).
activePoolReceive(w, amount) ==
  [w EXCEPT !.activePool.collateral = @ + amount]

activePoolSendCollateral(w, to, amount) ==
  Emit([Require(w, amount <= w.activePool.collateral)
          EXCEPT !.activePool.collateral = @ - amount],
       [event |-> "CollateralSent", to |-> to, amount |-> amount])

activePoolIncreaseTHUSDDebt(w, amount) ==
  [w EXCEPT !.activePool.THUSDDebt = @ + amount]

activePoolDecreaseTHUSDDebt(w, amount) ==
  [Require(w, amount <= w.activePool.THUSDDebt)
     EXCEPT !.activePool.THUSDDebt = @ - amount]

(* DefaultPool *)

defaultPoolReceive(w, amount) ==
  [w EXCEPT !.defaultPool.collateral = @ + amount]

defaultPoolSendCollateralToActivePool(w, amount) ==
  activePoolReceive([Require(w, amount <= w.defaultPool.collateral)
                       EXCEPT !.defaultPool.collateral = @ - amount], amount)

defaultPoolIncreaseTHUSDDebt(w, amount) ==
  [w EXCEPT !.defaultPool.THUSDDebt = @ + amount]

defaultPoolDecreaseTHUSDDebt(w, amount) ==
  [Require(w, amount <= w.defaultPool.THUSDDebt)
     EXCEPT !.defaultPool.THUSDDebt = @ - amount]

(* CollSurplusPool *)

collSurplusPoolReceive(w, amount) ==
  [w EXCEPT !.collSurplusPool.collateral = @ + amount]

CollBalanceUpdated(b, newBalance) ==
  [event |-> "CollBalanceUpdated", user |-> b, newBalance |-> newBalance]

accountSurplus(w, b, amount) ==
  LET newAmount == w.collSurplusPool.balances[b] + amount
  IN  Emit([w EXCEPT !.collSurplusPool.balances[b] = newAmount],
           CollBalanceUpdated(b, newAmount))

claimColl(w, b) ==
  LET claimableColl == w.collSurplusPool.balances[b]
  IN  Emit([Require(w, /\ claimableColl > 0
                       /\ claimableColl <= w.collSurplusPool.collateral)
              EXCEPT !.collSurplusPool.balances[b] = 0,
                     !.collSurplusPool.collateral = @ - claimableColl],
           CollBalanceUpdated(b, 0))

(* THUSDToken: BorrowerOperations may mint only while on the mint list. *)

thusdMint(w, account, amount) ==
  Emit([Require(w, w.mintList) EXCEPT !.thusd[account] = @ + amount],
       TransferEvent(0, account, amount))

thusdBurn(w, account, amount) ==
  Emit([Require(w, amount <= w.thusd[account])
          EXCEPT !.thusd[account] = @ - amount],
       TransferEvent(account, 0, amount))

thusdTransfer(w, from, to, amount) ==
  Emit([Require(w, amount <= w.thusd[from])
          EXCEPT !.thusd[from] = @ - amount, !.thusd[to] = @ + amount],
       TransferEvent(from, to, amount))

(* Totals over both pools, LiquityBase.sol *)

getEntireSystemColl(w) == w.activePool.collateral + w.defaultPool.collateral
getEntireSystemDebt(w) == w.activePool.THUSDDebt + w.defaultPool.THUSDDebt

getTCR(w, price) ==
  computeCR(getEntireSystemColl(w), getEntireSystemDebt(w), price)

checkRecoveryMode(w, price) == getTCR(w, price) < CCR

=============================================================================
