---------------------------- MODULE EthersCalls ----------------------------
(***************************************************************************)
(* How lib-ethers carries out an operation.  An EthersLiquity operation is *)
(* the sendable one followed by waitForSuccess, and the sendable one is    *)
(* the populatable one followed by send; a caller may also use the lower   *)
(* layers and take these steps on its own.  In between the transaction is  *)
(* in the hands of the wallet and of the network, which may mine it, make  *)
(* it fail, reprice it, or replace it by another one of the same nonce.    *)
(***************************************************************************)
EXTENDS Integers

CONSTANT MaxReceipts   \* bound: how often a caller of a lower layer asks for a receipt

VARIABLES
  connection,   \* what EthersLiquity was connected with
  call,         \* the operation under way, its layer and overrides, and where it stands
  tx,           \* external: the transaction in the network
  told,         \* what the caller was given last
  receipts      \* receipts the caller asked for

ethersVars == <<connection, call, tx, told, receipts>>

\* The contract method an operation calls, the function that reads its receipt, and
\* what it must know before.
Calls(contract, method, parse) ==
  [contract |-> contract, method |-> method, parse |-> parse, needs |-> "nothing"]
Needing(what, c) == [c EXCEPT !.needs = what]

adjusts == Needing("address", Calls("borrowerOperations", "adjustTrove", "troveChangeWithFees"))
troveAliases ==
  [closeTrove |-> Calls("borrowerOperations", "closeTrove", "troveClosure"),
   depositCollateral |-> adjusts, withdrawCollateral |-> adjusts,
   borrowTHUSD |-> adjusts, repayTHUSD |-> adjusts]
openAndAdjust ==
  [openTrove |-> Calls("borrowerOperations", "openTrove", "troveChangeWithFees"),
   adjustTrove |-> adjusts]
surplusAndLiquidations ==
  [claimCollateralSurplus |-> Calls("borrowerOperations", "claimCollateral", "noDetails"),
   setPrice |-> Needing("testnet", Calls("priceFeed", "setPrice", "noDetails")),
   liquidate |-> Calls("troveManager", "batchLiquidateTroves", "liquidation"),
   liquidateUpTo |-> Calls("troveManager", "liquidateTroves", "liquidation")]
bammDeposits ==
  [bammUnlock |-> Calls("thusdToken", "approve", "noDetails"),
   depositTHUSDInBammPool |-> Calls("bamm", "deposit", "stabilityDepositTopup"),
   withdrawTHUSDFromBammPool |->
     Needing("connected address", Calls("bamm", "withdraw", "stabilityDepositWithdrawal")),
   withdrawGainsFromBammPool |-> Calls("bamm", "withdraw", "gainsWithdrawal")]
poolDeposits ==
  [depositTHUSDInStabilityPool |-> Calls("stabilityPool", "provideToSP", "stabilityDepositTopup"),
   withdrawTHUSDFromStabilityPool |-> Calls("stabilityPool", "withdrawFromSP", "stabilityDepositWithdrawal"),
   withdrawGainsFromStabilityPool |-> Calls("stabilityPool", "withdrawFromSP", "gainsWithdrawal")]
gainTransfers ==
  LET transfers == Calls("stabilityPool", "withdrawCollateralGainToTrove", "collateralGainTransfer")
  IN [transferCollateralGainToTrove |-> Needing("address", transfers),
      transferBammCollateralGainToTrove |-> Needing("address", transfers),
      sendTHUSD |-> Calls("thusdToken", "transfer", "noDetails")]
redemptionAndAllowance ==
  [redeemTHUSD |-> Calls("troveManager", "redeemCollateral", "redemption"),
   approveErc20 |-> Calls("erc20", "approve", "noDetails")]

Merged(f, g) == [op \in DOMAIN f \union DOMAIN g |-> IF op \in DOMAIN f THEN f[op] ELSE g[op]]
troveCalls == Merged(troveAliases, openAndAdjust)
poolCalls == Merged(surplusAndLiquidations, Merged(bammDeposits, poolDeposits))
tokenCalls == Merged(gainTransfers, redemptionAndAllowance)

populatable == Merged(troveCalls, Merged(poolCalls, tokenCalls))

\* The details that each function makes of a successful receipt.
gains == {"thusdLoss", "newTHUSDDeposit", "collateralGain"}
parsed ==
  [noDetails |-> {},
   troveChangeWithFees |-> {"params", "newTrove", "fee"},
   troveClosure |-> {"params"},
   liquidation |->
     {"liquidatedAddresses", "collateralGasCompensation", "thusdGasCompensation", "totalLiquidated"},
   gainsWithdrawal |-> gains,
   stabilityDepositTopup |-> gains \union {"change"},
   stabilityDepositWithdrawal |-> gains \union {"change"},
   collateralGainTransfer |-> gains \union {"newTrove"},
   redemption |-> {"attemptedTHUSDAmount", "actualTHUSDAmount", "collateralTaken", "fee"}]

Told(is, fields) == [is |-> is, fields |-> fields]
Untold == Told("none", {})
NoCall == [op |-> "none", layer |-> "transact", from |-> FALSE, gasLimit |-> FALSE, stage |-> "none"]

NotConnected == [made |-> FALSE, signer |-> FALSE, address |-> FALSE, testnet |-> FALSE]

EthersInit ==
  /\ connection = NotConnected /\ call = NoCall /\ tx = "none" /\ told = Untold /\ receipts = 0

\* getProviderAndSigner and _connect: through a signer the user's address is the
\* signer's, and giving one as well is refused; through a provider it is optional.
connectionFrom(signer, userAddress, testnet) ==
  [made |-> TRUE, signer |-> signer, address |-> signer \/ userAddress, testnet |-> testnet]
Connect ==
  /\ ~connection.made
  /\ \E signer, userAddress, testnet \in BOOLEAN :
        /\ ~(signer /\ userAddress)
        /\ connection' = connectionFrom(signer, userAddress, testnet)
  /\ UNCHANGED <<call, tx, told, receipts>>

\* An operation is asked for: openTrove(), send.openTrove() or populate.openTrove().
Begin(layer, ops) ==
  /\ connection.made /\ call.stage = "none"
  /\ \E op \in ops, from, gasLimit \in BOOLEAN :
        call' = [op |-> op, layer |-> layer, from |-> from, gasLimit |-> gasLimit, stage |-> "populating"]
  /\ UNCHANGED <<connection, tx, told, receipts>>

troveOps == DOMAIN troveCalls
poolOps == DOMAIN poolCalls
tokenOps == DOMAIN tokenCalls

TransactTrove == Begin("transact", troveOps)
TransactPool == Begin("transact", poolOps)
TransactTokens == Begin("transact", tokenOps)
SendTrove == Begin("send", troveOps)
SendPoolOrTokens == Begin("send", poolOps \union tokenOps)
PopulateAny == Begin("populate", DOMAIN populatable)

Throws ==
  call' = [call EXCEPT !.stage = "over", !.from = FALSE, !.gasLimit = FALSE] /\ told' = Told("error", {})

\* _requireAddress, getWithdrawsSpShare, which asks only the connection for the address,
\* and setPrice only where the price feed has it.
knowsWhatItNeeds ==
  LET needs == populatable[call.op].needs
  IN /\ needs = "address" => call.from \/ connection.address
     /\ needs = "connected address" => connection.address
     /\ needs = "testnet" => connection.testnet

\* buildEstimatedFunctions: without a gasLimit the call is estimated first, and an
\* estimate of a call that reverts rejects.  openTrove and adjustTrove do so too.
Populate ==
  /\ call.stage = "populating"
  /\ \E reverts \in BOOLEAN :
        IF knowsWhatItNeeds /\ (reverts => call.gasLimit)
        THEN call' = [call EXCEPT !.stage = "populated", !.from = FALSE, !.gasLimit = FALSE] /\ UNCHANGED told
        ELSE Throws
  /\ UNCHANGED <<connection, tx, receipts>>

\* PopulatedEthersLiquityTransaction.send, by the chain or by the caller: it needs a
\* signer, the user may refuse to sign, and the node may be lost before or after the
\* transaction is out.
SendPopulated ==
  /\ call.stage = "populated"
  /\ \/ connection.signer /\ tx' = "pending" /\ call' = [call EXCEPT !.stage = "sent"] /\ UNCHANGED told
     \/ Throws /\ UNCHANGED tx
     \/ connection.signer /\ tx' = "pending" /\ Throws
  /\ UNCHANGED <<connection, receipts>>

\* External: what happens to a transaction; a repriced one is mined by another hash.
NetworkDecides ==
  /\ tx = "pending"
  /\ tx' \in {"mined", "failed", "repriced and mined", "repriced and failed", "cancelled", "replaced"}
  /\ UNCHANGED <<connection, call, told, receipts>>

\* How ethers' wait() ends, and what _waitForRawReceipt and _receiptFrom make of it.
rawReceipt_AnyReplacement(ends) ==
  CASE ends \in {"mined", "repriced and mined", "cancelled", "replaced"} -> "status 1"
    [] ends \in {"failed", "repriced and failed"} -> "status 0"
rawReceipt(ends) ==
  CASE ends \in {"mined", "repriced and mined"} -> "status 1"
    [] ends \in {"failed", "repriced and failed"} -> "status 0"
    [] ends \in {"cancelled", "replaced"} -> "TransactionCancelledError"
receiptFrom(raw) ==
  CASE raw = "status 1" -> Told("details", parsed[populatable[call.op].parse])
    [] raw = "status 0" -> Told("failed", {})
    [] raw = "null" -> Told("pending", {})
    [] raw = "TransactionCancelledError" -> Told("cancelled", {})

\* waitForReceipt, and waitForSuccess above it, which throws what is not a success.
WaitForMined ==
  /\ call.stage = "sent" /\ tx \notin {"none", "pending"}
  /\ told' = receiptFrom(rawReceipt(tx))
  /\ call' = [call EXCEPT !.stage = "over"]
  /\ UNCHANGED <<connection, tx, receipts>>
WaitIsLost ==
  /\ call.stage = "sent" /\ Throws
  /\ UNCHANGED <<connection, tx, receipts>>

\* getReceipt, wait(0): replacements are not looked for, so a transaction that was
\* not mined under its own hash stays pending.
GetReceipt ==
  /\ call.stage = "sent" /\ call.layer # "transact" /\ receipts < MaxReceipts
  /\ receipts' = receipts + 1
  /\ told' = receiptFrom(IF tx \in {"mined", "failed"} THEN rawReceipt(tx) ELSE "null")
  /\ UNCHANGED <<connection, call, tx>>

\* The caller goes on to the next operation once this one has ended for good.
NextCall ==
  /\ call.stage = "over" /\ tx # "pending"
  /\ call' = NoCall /\ tx' = "none" /\ told' = Untold /\ receipts' = 0
  /\ UNCHANGED connection

EthersNext ==
  \/ Connect \/ TransactTrove \/ TransactPool \/ TransactTokens
  \/ SendTrove \/ SendPoolOrTokens \/ PopulateAny \/ Populate \/ SendPopulated \/ NetworkDecides
  \/ WaitForMined \/ WaitIsLost \/ GetReceipt \/ NextCall

EthersSpec == EthersInit /\ [][EthersNext]_ethersVars

-----------------------------------------------------------------------------
Promise ==
  INSTANCE TransactableLiquity WITH
    asked <- call.op,
    effect <- CASE tx \in {"mined", "repriced and mined"} -> "done"
                [] tx \in {"failed", "repriced and failed", "cancelled", "replaced"} -> "ruled out"
                [] OTHER -> "open",
    answer <- told

\* Every call keeps what TransactableLiquity promises: details only of an operation
\* that took effect, the fields its interface names, and "failed" or "cancelled" only
\* when it never will, though receipts are asked for while the transaction is pending,
\* repriced or replaced, and the node may be lost after it was sent.
KeepsItsPromise == Promise!CallSpec

=============================================================================
