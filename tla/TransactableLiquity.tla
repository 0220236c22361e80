------------------------ MODULE TransactableLiquity ------------------------
(***************************************************************************)
(* What lib-base promises the caller of one of its operations, whoever     *)
(* implements them (TransactableLiquity.ts): the operation takes effect at *)
(* most once, its details are given only when it did, and a caller told    *)
(* that it failed or was cancelled can rely on its never taking effect.    *)
(* Any other error promises nothing.                                       *)
(***************************************************************************)

\* The fields of the details a transaction's receipt is turned into.
gainsDetails == {"thusdLoss", "newTHUSDDeposit", "collateralGain"}
detailsOf ==
  [void |-> {},
   TroveCreationDetails |-> {"params", "newTrove", "fee"},
   TroveAdjustmentDetails |-> {"params", "newTrove", "fee"},
   TroveClosureDetails |-> {"params"},
   LiquidationDetails |->
     {"liquidatedAddresses", "totalLiquidated", "thusdGasCompensation", "collateralGasCompensation"},
   RedemptionDetails |-> {"attemptedTHUSDAmount", "actualTHUSDAmount", "collateralTaken", "fee"},
   StabilityPoolGainsWithdrawalDetails |-> gainsDetails,
   BammDepositChangeDetails |-> gainsDetails \union {"change"},
   StabilityDepositChangeDetails |-> gainsDetails \union {"change"},
   CollateralGainTransferDetails |-> gainsDetails \union {"newTrove"}]

\* The operations of the interface and the details each one promises.
troveOperations ==
  [openTrove |-> "TroveCreationDetails", closeTrove |-> "TroveClosureDetails",
   adjustTrove |-> "TroveAdjustmentDetails", depositCollateral |-> "TroveAdjustmentDetails",
   withdrawCollateral |-> "TroveAdjustmentDetails", borrowTHUSD |-> "TroveAdjustmentDetails",
   repayTHUSD |-> "TroveAdjustmentDetails"]
poolOperations ==
  [setPrice |-> "void", liquidate |-> "LiquidationDetails", liquidateUpTo |-> "LiquidationDetails",
   depositTHUSDInBammPool |-> "BammDepositChangeDetails",
   withdrawTHUSDFromBammPool |-> "BammDepositChangeDetails",
   withdrawGainsFromBammPool |-> "StabilityPoolGainsWithdrawalDetails",
   depositTHUSDInStabilityPool |-> "StabilityDepositChangeDetails",
   withdrawTHUSDFromStabilityPool |-> "StabilityDepositChangeDetails",
   bammUnlock |-> "void", withdrawGainsFromStabilityPool |-> "StabilityPoolGainsWithdrawalDetails"]
tokenOperations ==
  [transferCollateralGainToTrove |-> "CollateralGainTransferDetails",
   transferBammCollateralGainToTrove |-> "CollateralGainTransferDetails",
   sendTHUSD |-> "void", redeemTHUSD |-> "RedemptionDetails",
   claimCollateralSurplus |-> "void", approveErc20 |-> "void"]

Merged(f, g) == [op \in DOMAIN f \union DOMAIN g |-> IF op \in DOMAIN f THEN f[op] ELSE g[op]]
operations == Merged(troveOperations, Merged(poolOperations, tokenOperations))

VARIABLES
  asked,   \* the operation asked for, or "none"
  effect,  \* whether it is still open, done, or ruled out for ever
  answer   \* what the caller got: [is, fields]

callVars == <<asked, effect, answer>>

Answer(is, fields) == [is |-> is, fields |-> fields]
NoAnswer == Answer("none", {})

\* A sent transaction has a receipt that is pending, failed, or succeeded and then
\* has the operation's details; a populated one can be sent and then has the same.
LiquityReceipt(details) ==
  {Answer("pending", {}), Answer("failed", {}), Answer("details", detailsOf[details])}
SendableLiquity == [op \in DOMAIN operations |-> LiquityReceipt(operations[op])]
PopulatableLiquity == [op \in DOMAIN operations |-> [send |-> SendableLiquity[op]]]

CallInit == asked = "none" /\ effect = "open" /\ answer = NoAnswer

Ask ==
  /\ asked = "none"
  /\ asked' \in DOMAIN operations
  /\ UNCHANGED <<effect, answer>>

\* The transaction is mined and succeeds, or can no longer do so.
Decide ==
  /\ asked # "none" /\ effect = "open"
  /\ effect' \in {"done", "ruled out"}
  /\ UNCHANGED <<asked, answer>>

\* The caller may ask more than once how a transaction stands, and learns as much.
Tell ==
  /\ asked # "none"
  /\ \E a \in PopulatableLiquity[asked].send \union {Answer("error", {}), Answer("cancelled", {})} :
        /\ a.is = "details" => effect = "done"
        /\ a.is \in {"failed", "cancelled"} => effect = "ruled out"
        /\ answer' = a
  /\ UNCHANGED <<asked, effect>>

Leave ==
  /\ asked # "none"
  /\ asked' = "none" /\ effect' = "open" /\ answer' = NoAnswer

CallSpec == CallInit /\ [][Ask \/ Decide \/ Tell \/ Leave]_callVars

=============================================================================
