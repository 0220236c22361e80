---------------------------- MODULE ClientProofs ----------------------------
(***************************************************************************)
(* Proofs about the client: a call of lib-ethers keeps what                *)
(* TransactableLiquity promises; the cards of a stability deposit and of a *)
(* vault agree with what their owner wants and what is under way; the      *)
(* shared transaction state, the wallet's gate, the stores that are shown, *)
(* the polled store, the fields of a form and the providers are never      *)
(* wrong about what they stand for; what a deployment records is complete. *)
(* All of this for every number of calls, sends, receipts, answers, events *)
(* and runs.                                                               *)
(***************************************************************************)
EXTENDS EthersCalls, StabilityPanel, VaultPanel, Transactions, StoreProvider, AugmentedProvider,
        AmountFields, BlockPolledStore, Deployment, InductionLemmas, FiniteSetTheorems, TLAPS

-----------------------------------------------------------------------------
(* The tables of operations of lib-ethers and of the interface. *)

Ops == DOMAIN populatable

\* What two tables of calls make together.
LEMMA MergedCalls ==
  ASSUME NEW f, NEW g
  PROVE  /\ DOMAIN Merged(f, g) = DOMAIN f \union DOMAIN g
         /\ \A op \in DOMAIN f : Merged(f, g)[op] = f[op]
         /\ \A op \in DOMAIN g \ DOMAIN f : Merged(f, g)[op] = g[op]
BY DEF Merged

\* The same of the tables of the interface.
LEMMA MergedOperations ==
  ASSUME NEW f, NEW g
  PROVE  /\ DOMAIN Promise!Merged(f, g) = DOMAIN f \union DOMAIN g
         /\ \A op \in DOMAIN f : Promise!Merged(f, g)[op] = f[op]
         /\ \A op \in DOMAIN g \ DOMAIN f : Promise!Merged(f, g)[op] = g[op]
BY DEF Promise!Merged

\* The table of each group of operations, and the details its rows promise.
TroveDomain == {"closeTrove", "depositCollateral", "withdrawCollateral", "borrowTHUSD",
                "repayTHUSD", "openTrove", "adjustTrove"}
PoolDomain == {"claimCollateralSurplus", "setPrice", "liquidate", "liquidateUpTo", "bammUnlock",
               "depositTHUSDInBammPool", "withdrawTHUSDFromBammPool", "withdrawGainsFromBammPool",
               "depositTHUSDInStabilityPool", "withdrawTHUSDFromStabilityPool",
               "withdrawGainsFromStabilityPool"}
TokenDomain == {"transferCollateralGainToTrove", "transferBammCollateralGainToTrove",
                "sendTHUSD", "redeemTHUSD", "approveErc20"}

\* The operations of TransactableLiquity and the table that has each one.
LEMMA PromisedOperations ==
  /\ DOMAIN Promise!operations = TroveDomain \union (PoolDomain \union TokenDomain)
  /\ \A op \in TroveDomain : Promise!operations[op] = Promise!troveOperations[op]
  /\ \A op \in PoolDomain \ {"claimCollateralSurplus"} :
       Promise!operations[op] = Promise!poolOperations[op]
  /\ \A op \in TokenDomain \union {"claimCollateralSurplus"} :
       Promise!operations[op] = Promise!tokenOperations[op]
<1> DEFINE rest == Promise!Merged(Promise!poolOperations, Promise!tokenOperations)
<1>1. /\ DOMAIN Promise!troveOperations = TroveDomain
      /\ DOMAIN Promise!poolOperations = PoolDomain \ {"claimCollateralSurplus"}
      /\ DOMAIN Promise!tokenOperations = TokenDomain \union {"claimCollateralSurplus"}
  BY DEF Promise!troveOperations, Promise!poolOperations, Promise!tokenOperations, TroveDomain,
         PoolDomain, TokenDomain
<1>2. /\ DOMAIN rest = DOMAIN Promise!poolOperations \union DOMAIN Promise!tokenOperations
      /\ \A op \in DOMAIN Promise!poolOperations : rest[op] = Promise!poolOperations[op]
      /\ \A op \in DOMAIN Promise!tokenOperations \ DOMAIN Promise!poolOperations :
           rest[op] = Promise!tokenOperations[op]
  BY MergedOperations
<1>3. Promise!operations = Promise!Merged(Promise!troveOperations, rest)
  BY DEF Promise!operations
<1> HIDE DEF rest
<1>4. /\ DOMAIN Promise!operations = DOMAIN Promise!troveOperations \union DOMAIN rest
      /\ \A op \in DOMAIN Promise!troveOperations : Promise!operations[op] = Promise!troveOperations[op]
      /\ \A op \in DOMAIN rest \ DOMAIN Promise!troveOperations : Promise!operations[op] = rest[op]
  <2> DEFINE m == Promise!Merged(Promise!troveOperations, rest)
  <2>1. /\ DOMAIN m = DOMAIN Promise!troveOperations \union DOMAIN rest
        /\ \A op \in DOMAIN Promise!troveOperations : m[op] = Promise!troveOperations[op]
        /\ \A op \in DOMAIN rest \ DOMAIN Promise!troveOperations : m[op] = rest[op]
    BY MergedOperations
  <2>2. m = Promise!operations
    BY <1>3
  <2> HIDE DEF m
  <2> QED BY <2>1, <2>2
<1> QED BY <1>1, <1>2, <1>4 DEF TroveDomain, PoolDomain, TokenDomain

\* The operations of PopulatableEthersLiquity, and that no group hides one of another.
LEMMA PopulatableCalls ==
  /\ troveOps = TroveDomain /\ poolOps = PoolDomain /\ tokenOps = TokenDomain
  /\ Ops = TroveDomain \union (PoolDomain \union TokenDomain)
  /\ \A op \in troveOps : populatable[op] = troveCalls[op]
  /\ \A op \in poolOps : populatable[op] = poolCalls[op]
  /\ \A op \in tokenOps : populatable[op] = tokenCalls[op]
<1> DEFINE deposits == Merged(bammDeposits, poolDeposits)
           rest == Merged(poolCalls, tokenCalls)
<1>1. troveOps = TroveDomain
  <2>1. DOMAIN troveCalls = DOMAIN troveAliases \union DOMAIN openAndAdjust
    BY MergedCalls DEF troveCalls
  <2> QED BY <2>1 DEF troveAliases, openAndAdjust, TroveDomain, troveOps
<1>2. tokenOps = TokenDomain
  <2>1. DOMAIN tokenCalls = DOMAIN gainTransfers \union DOMAIN redemptionAndAllowance
    BY MergedCalls DEF tokenCalls
  <2> QED BY <2>1 DEF gainTransfers, redemptionAndAllowance, TokenDomain, tokenOps
<1>3. poolOps = PoolDomain
  <2>1. DOMAIN deposits = DOMAIN bammDeposits \union DOMAIN poolDeposits
    BY MergedCalls
  <2>2. poolCalls = Merged(surplusAndLiquidations, deposits)
    BY DEF poolCalls
  <2> HIDE DEF deposits
  <2>3. DOMAIN Merged(surplusAndLiquidations, deposits) = DOMAIN surplusAndLiquidations \union DOMAIN deposits
    BY MergedCalls
  <2> QED BY <2>1, <2>2, <2>3 DEF surplusAndLiquidations, bammDeposits, poolDeposits, PoolDomain, poolOps
<1>4. /\ DOMAIN rest = poolOps \union tokenOps
      /\ \A op \in poolOps : rest[op] = poolCalls[op]
      /\ \A op \in tokenOps \ poolOps : rest[op] = tokenCalls[op]
  BY MergedCalls DEF poolOps, tokenOps
<1>5. populatable = Merged(troveCalls, rest)
  BY DEF populatable
<1> HIDE DEF rest
<1> DEFINE m == Merged(troveCalls, rest)
<1>6. /\ DOMAIN m = troveOps \union DOMAIN rest
      /\ \A op \in troveOps : m[op] = troveCalls[op]
      /\ \A op \in DOMAIN rest \ troveOps : m[op] = rest[op]
  BY MergedCalls DEF troveOps
<1>7. m = populatable
  BY <1>5
<1> HIDE DEF m
<1>8. poolOps \intersect troveOps = {} /\ tokenOps \intersect troveOps = {}
      /\ tokenOps \intersect poolOps = {}
  BY <1>1, <1>2, <1>3 DEF TroveDomain, PoolDomain, TokenDomain
<1> QED BY <1>1, <1>2, <1>3, <1>4, <1>6, <1>7, <1>8 DEF Ops

\* The function that reads the receipt of an operation makes the details that its
\* interface promises.
Reads(op) == parsed[populatable[op].parse] = Promise!detailsOf[Promise!operations[op]]

\* Receipts of operations on a trove are read as their interface says.
LEMMA TroveDetails == \A op \in TroveDomain : Reads(op)
<1>1. /\ \A op \in DOMAIN troveAliases : troveCalls[op] = troveAliases[op]
      /\ \A op \in DOMAIN openAndAdjust \ DOMAIN troveAliases : troveCalls[op] = openAndAdjust[op]
  BY MergedCalls DEF troveCalls
<1>2. /\ troveCalls["closeTrove"].parse = "troveClosure"
      /\ \A op \in TroveDomain \ {"closeTrove"} : troveCalls[op].parse = "troveChangeWithFees"
  BY <1>1 DEF troveAliases, openAndAdjust, adjusts, Needing, Calls, TroveDomain
<1>3. /\ Promise!troveOperations["closeTrove"] = "TroveClosureDetails"
      /\ \A op \in TroveDomain \ {"closeTrove"} :
           Promise!troveOperations[op] \in {"TroveCreationDetails", "TroveAdjustmentDetails"}
  BY DEF Promise!troveOperations, TroveDomain
<1>4. /\ parsed["troveClosure"] = Promise!detailsOf["TroveClosureDetails"]
      /\ parsed["troveChangeWithFees"] = Promise!detailsOf["TroveCreationDetails"]
      /\ parsed["troveChangeWithFees"] = Promise!detailsOf["TroveAdjustmentDetails"]
  BY DEF parsed, Promise!detailsOf
<1>5. SUFFICES ASSUME NEW op \in TroveDomain PROVE Reads(op)
  OBVIOUS
<1>6. populatable[op] = troveCalls[op] /\ Promise!operations[op] = Promise!troveOperations[op]
  BY PromisedOperations, PopulatableCalls
<1>7. CASE op = "closeTrove"
  BY <1>2, <1>3, <1>4, <1>6, <1>7 DEF Reads
<1>8. CASE op # "closeTrove"
  BY <1>2, <1>3, <1>4, <1>6, <1>8 DEF Reads
<1> QED BY <1>7, <1>8

\* Receipts of liquidations, of the surplus and of deposits are read as their
\* interface says.
LEMMA PoolDetails == \A op \in PoolDomain : Reads(op)
<1> DEFINE deposits == Merged(bammDeposits, poolDeposits)
<1>1. /\ \A op \in DOMAIN bammDeposits : deposits[op] = bammDeposits[op]
      /\ \A op \in DOMAIN poolDeposits \ DOMAIN bammDeposits : deposits[op] = poolDeposits[op]
      /\ DOMAIN deposits = DOMAIN bammDeposits \union DOMAIN poolDeposits
  BY MergedCalls
<1>2. poolCalls = Merged(surplusAndLiquidations, deposits)
  BY DEF poolCalls
<1> HIDE DEF deposits
<1>3. /\ \A op \in DOMAIN surplusAndLiquidations : poolCalls[op] = surplusAndLiquidations[op]
      /\ \A op \in DOMAIN deposits \ DOMAIN surplusAndLiquidations : poolCalls[op] = deposits[op]
  <2> DEFINE m == Merged(surplusAndLiquidations, deposits)
  <2>1. /\ \A op \in DOMAIN surplusAndLiquidations : m[op] = surplusAndLiquidations[op]
        /\ \A op \in DOMAIN deposits \ DOMAIN surplusAndLiquidations : m[op] = deposits[op]
    BY MergedCalls
  <2>2. m = poolCalls
    BY <1>2
  <2> HIDE DEF m
  <2> QED BY <2>1, <2>2
<1>4. \A op \in {"claimCollateralSurplus", "setPrice"} : poolCalls[op].parse = "noDetails"
  BY <1>3 DEF surplusAndLiquidations, Needing, Calls
<1>5. \A op \in {"liquidate", "liquidateUpTo"} : poolCalls[op].parse = "liquidation"
  BY <1>3 DEF surplusAndLiquidations, Needing, Calls
<1>6. /\ poolCalls["bammUnlock"].parse = "noDetails"
      /\ poolCalls["depositTHUSDInBammPool"].parse = "stabilityDepositTopup"
      /\ poolCalls["withdrawTHUSDFromBammPool"].parse = "stabilityDepositWithdrawal"
      /\ poolCalls["withdrawGainsFromBammPool"].parse = "gainsWithdrawal"
  <2>1. \A op \in DOMAIN bammDeposits : poolCalls[op] = bammDeposits[op]
    BY <1>1, <1>3 DEF surplusAndLiquidations, bammDeposits
  <2>2. bammDeposits["withdrawTHUSDFromBammPool"].parse = "stabilityDepositWithdrawal"
    BY DEF bammDeposits, Needing, Calls
  <2>3. /\ bammDeposits["bammUnlock"].parse = "noDetails"
        /\ bammDeposits["depositTHUSDInBammPool"].parse = "stabilityDepositTopup"
        /\ bammDeposits["withdrawGainsFromBammPool"].parse = "gainsWithdrawal"
    BY DEF bammDeposits, Calls
  <2>4. DOMAIN bammDeposits = {"bammUnlock", "depositTHUSDInBammPool", "withdrawTHUSDFromBammPool",
                               "withdrawGainsFromBammPool"}
    BY DEF bammDeposits
  <2> QED BY <2>1, <2>2, <2>3, <2>4
<1>7. /\ poolCalls["depositTHUSDInStabilityPool"].parse = "stabilityDepositTopup"
      /\ poolCalls["withdrawTHUSDFromStabilityPool"].parse = "stabilityDepositWithdrawal"
      /\ poolCalls["withdrawGainsFromStabilityPool"].parse = "gainsWithdrawal"
  <2>1. \A op \in DOMAIN poolDeposits : poolCalls[op] = poolDeposits[op]
    BY <1>1, <1>3 DEF surplusAndLiquidations, bammDeposits, poolDeposits
  <2> QED BY <2>1 DEF poolDeposits, Needing, Calls
<1>8. /\ parsed["noDetails"] = Promise!detailsOf["void"]
      /\ parsed["liquidation"] = Promise!detailsOf["LiquidationDetails"]
      /\ parsed["gainsWithdrawal"] = Promise!detailsOf["StabilityPoolGainsWithdrawalDetails"]
      /\ \A parse \in {"stabilityDepositTopup", "stabilityDepositWithdrawal"} :
            \A details \in {"BammDepositChangeDetails", "StabilityDepositChangeDetails"} :
               parsed[parse] = Promise!detailsOf[details]
  BY DEF parsed, Promise!detailsOf, gains, Promise!gainsDetails
<1>9. SUFFICES ASSUME NEW op \in PoolDomain PROVE Reads(op)
  OBVIOUS
<1>10. populatable[op] = poolCalls[op]
  BY PopulatableCalls
<1>11. CASE op = "claimCollateralSurplus"
  <2>1. Promise!operations[op] = "void"
    BY <1>11, PromisedOperations DEF Promise!tokenOperations
  <2> QED BY <1>4, <1>8, <1>10, <1>11, <2>1 DEF Reads
<1>12. CASE op # "claimCollateralSurplus"
  <2>1. Promise!operations[op] = Promise!poolOperations[op]
    BY <1>12, PromisedOperations
  <2>2. CASE op \in {"setPrice", "bammUnlock", "liquidate", "liquidateUpTo"}
    BY <1>4, <1>5, <1>6, <1>8, <1>10, <2>1, <2>2 DEF Reads, Promise!poolOperations
  <2>3. CASE op \in {"depositTHUSDInBammPool", "withdrawTHUSDFromBammPool",
                     "withdrawGainsFromBammPool"}
    BY <1>6, <1>8, <1>10, <2>1, <2>3 DEF Reads, Promise!poolOperations
  <2>4. CASE op \in {"depositTHUSDInStabilityPool", "withdrawTHUSDFromStabilityPool",
                     "withdrawGainsFromStabilityPool"}
    BY <1>7, <1>8, <1>10, <2>1, <2>4 DEF Reads, Promise!poolOperations
  <2> QED BY <1>12, <2>2, <2>3, <2>4 DEF PoolDomain
<1> QED BY <1>11, <1>12

\* Receipts of gain transfers, redemptions and token operations are read as their
\* interface says.
LEMMA TokenDetails == \A op \in TokenDomain : Reads(op)
<1>1. /\ \A op \in DOMAIN gainTransfers : tokenCalls[op] = gainTransfers[op]
      /\ \A op \in DOMAIN redemptionAndAllowance \ DOMAIN gainTransfers :
           tokenCalls[op] = redemptionAndAllowance[op]
  BY MergedCalls DEF tokenCalls
<1>2. /\ tokenCalls["transferCollateralGainToTrove"].parse = "collateralGainTransfer"
      /\ tokenCalls["transferBammCollateralGainToTrove"].parse = "collateralGainTransfer"
      /\ tokenCalls["sendTHUSD"].parse = "noDetails"
  BY <1>1 DEF gainTransfers, Needing, Calls
<1>3. /\ tokenCalls["redeemTHUSD"].parse = "redemption"
      /\ tokenCalls["approveErc20"].parse = "noDetails"
  BY <1>1 DEF gainTransfers, redemptionAndAllowance, Needing, Calls
<1>4. /\ parsed["noDetails"] = Promise!detailsOf["void"]
      /\ parsed["redemption"] = Promise!detailsOf["RedemptionDetails"]
      /\ parsed["collateralGainTransfer"] = Promise!detailsOf["CollateralGainTransferDetails"]
  BY DEF parsed, Promise!detailsOf, gains, Promise!gainsDetails
<1>5. SUFFICES ASSUME NEW op \in TokenDomain PROVE Reads(op)
  OBVIOUS
<1>6. populatable[op] = tokenCalls[op] /\ Promise!operations[op] = Promise!tokenOperations[op]
  BY PromisedOperations, PopulatableCalls
<1> QED BY <1>2, <1>3, <1>4, <1>6 DEF Reads, TokenDomain, Promise!tokenOperations

\* lib-ethers has exactly the operations of the interface, and makes of every receipt
\* the details that the interface promises.
LEMMA DetailsAsPromised ==
  /\ Ops = DOMAIN Promise!operations /\ "none" \notin Ops
  /\ \A op \in Ops : parsed[populatable[op].parse] = Promise!detailsOf[Promise!operations[op]]
<1>1. Ops = TroveDomain \union (PoolDomain \union TokenDomain) /\ Ops = DOMAIN Promise!operations
  BY PopulatableCalls, PromisedOperations
<1>2. "none" \notin Ops
  BY <1>1 DEF TroveDomain, PoolDomain, TokenDomain
<1>3. \A op \in Ops : Reads(op)
  BY <1>1, TroveDetails, PoolDetails, TokenDetails
<1> QED BY <1>1, <1>2, <1>3 DEF Reads

-----------------------------------------------------------------------------
(* The refinement.  Before the transaction is sent there is none in the    *)
(* network, and between two calls nothing was told.                        *)

Ends == {"mined", "failed", "repriced and mined", "repriced and failed", "cancelled", "replaced"}

CallInv ==
  /\ call = [op |-> call.op, layer |-> call.layer, from |-> call.from,
             gasLimit |-> call.gasLimit, stage |-> call.stage]
  /\ call.stage \in {"none", "populating", "populated", "sent", "over"}
  /\ IF call.stage = "none" THEN call.op = "none" /\ tx = "none" /\ told = Untold
     ELSE call.op \in Ops
  /\ call.stage \in {"populating", "populated"} => tx = "none"
  /\ tx \in {"none", "pending"} \union Ends

\* The effect that the refinement mapping reads from the transaction.
EffectOf(t) ==
  CASE t \in {"mined", "repriced and mined"} -> "done"
    [] t \in {"failed", "repriced and failed", "cancelled", "replaced"} -> "ruled out"
    [] OTHER -> "open"

\* Before its end a transaction is open, and its end decides.
LEMMA EffectOfTx ==
  /\ EffectOf("none") = "open" /\ EffectOf("pending") = "open"
  /\ \A t \in Ends : EffectOf(t) \in {"done", "ruled out"}
  /\ \A t \in Ends : EffectOf(t) = "done" <=> t \in {"mined", "repriced and mined"}
BY DEF EffectOf, Ends

AbstractStep == [Promise!Ask \/ Promise!Decide \/ Promise!Tell \/ Promise!Leave]_(Promise!callVars)

\* A call on any of the three layers asks for an operation of the interface.
LEMMA BeginAsks ==
  ASSUME CallInv, NEW layer, NEW ops, ops \subseteq Ops, Begin(layer, ops)
  PROVE  CallInv' /\ Promise!Ask
<1>1. PICK op \in ops, from \in BOOLEAN, gasLimit \in BOOLEAN :
        call' = [op |-> op, layer |-> layer, from |-> from, gasLimit |-> gasLimit,
                 stage |-> "populating"]
  BY DEF Begin
<1>2. call.stage = "none" /\ UNCHANGED <<connection, tx, told, receipts>>
  BY DEF Begin
<1>3. /\ call'.op = op /\ call'.stage = "populating" /\ op \in Ops
      /\ call' = [op |-> call'.op, layer |-> call'.layer, from |-> call'.from,
                  gasLimit |-> call'.gasLimit, stage |-> call'.stage]
  BY <1>1
<1>4. CallInv'
  BY <1>2, <1>3 DEF CallInv
<1>5. Promise!Ask
  BY <1>2, <1>3, DetailsAsPromised DEF CallInv, Promise!Ask
<1> QED BY <1>4, <1>5

\* Whatever the caller is told of a call is one of the answers of the interface.
LEMMA TellsAnAnswer ==
  ASSUME CallInv, call.stage # "none", call'.op = call.op, EffectOf(tx') = EffectOf(tx),
         \/ told' \in {Told("error", {}), Told("pending", {})}
         \/ told' \in {Told("failed", {}), Told("cancelled", {})} /\ EffectOf(tx) = "ruled out"
         \/ told' = Told("details", parsed[populatable[call.op].parse]) /\ EffectOf(tx) = "done"
  PROVE  Promise!Tell
<1>1. call.op \in Ops
  BY DEF CallInv
<1>2. call.op # "none" /\ call.op \in DOMAIN Promise!operations
      /\ parsed[populatable[call.op].parse] = Promise!detailsOf[Promise!operations[call.op]]
  BY <1>1, DetailsAsPromised
<1> DEFINE answers == Promise!PopulatableLiquity[call.op].send
                        \union {Promise!Answer("error", {}), Promise!Answer("cancelled", {})}
<1>3. Promise!PopulatableLiquity[call.op].send = Promise!LiquityReceipt(Promise!operations[call.op])
  BY <1>2 DEF Promise!PopulatableLiquity, Promise!SendableLiquity
<1>4. /\ told' \in answers
      /\ told'.is = "details" => EffectOf(tx) = "done"
      /\ told'.is \in {"failed", "cancelled"} => EffectOf(tx) = "ruled out"
  <2>1. \A is, fields : Told(is, fields) = Promise!Answer(is, fields) /\ Told(is, fields).is = is
    BY DEF Told, Promise!Answer
  <2>2. answers = {Told("pending", {}), Told("failed", {}),
                   Told("details", parsed[populatable[call.op].parse]),
                   Told("error", {}), Told("cancelled", {})}
    BY <1>2, <1>3, <2>1 DEF Promise!LiquityReceipt
  <2> HIDE DEF answers
  <2>3. CASE told' \in {Told("error", {}), Told("pending", {})}
    <3>1. CASE told' = Told("error", {})
      <4>1. told'.is = "error"
        BY <2>1, <3>1
      <4>2. told' \in answers
        BY <2>2, <3>1
      <4> QED BY <4>1, <4>2
    <3>2. CASE told' = Told("pending", {})
      <4>1. told'.is = "pending"
        BY <2>1, <3>2
      <4>2. told' \in answers
        BY <2>2, <3>2
      <4> QED BY <4>1, <4>2
    <3> QED BY <2>3, <3>1, <3>2
  <2>4. CASE told' \in {Told("failed", {}), Told("cancelled", {})} /\ EffectOf(tx) = "ruled out"
    <3>1. CASE told' = Told("failed", {})
      <4>1. told'.is = "failed"
        BY <2>1, <3>1
      <4>2. told' \in answers
        BY <2>2, <3>1
      <4> QED BY <2>4, <4>1, <4>2
    <3>2. CASE told' = Told("cancelled", {})
      <4>1. told'.is = "cancelled"
        BY <2>1, <3>2
      <4>2. told' \in answers
        BY <2>2, <3>2
      <4> QED BY <2>4, <4>1, <4>2
    <3> QED BY <2>4, <3>1, <3>2
  <2>5. CASE told' = Told("details", parsed[populatable[call.op].parse]) /\ EffectOf(tx) = "done"
    <3>1. told'.is = "details"
      BY <2>1, <2>5
    <3>2. told' \in answers
      BY <2>2, <2>5
    <3> QED BY <2>5, <3>1, <3>2
  <2> QED BY <2>3, <2>4, <2>5
<1> QED BY <1>2, <1>4 DEF Promise!Tell, EffectOf

\* A call that throws promises nothing, even when its transaction is already out.
LEMMA ThrowingTells ==
  ASSUME CallInv, call.stage \in {"populating", "populated", "sent"}, Throws,
         tx' = tx \/ (call.stage = "populated" /\ tx' = "pending")
  PROVE  CallInv' /\ Promise!Tell
<1>1. /\ call' = [op |-> call.op, layer |-> call.layer, from |-> FALSE, gasLimit |-> FALSE,
                  stage |-> "over"]
      /\ told' = Told("error", {})
  BY DEF Throws, CallInv
<1>2. /\ call'.op = call.op /\ call'.stage = "over"
      /\ call' = [op |-> call'.op, layer |-> call'.layer, from |-> call'.from,
                  gasLimit |-> call'.gasLimit, stage |-> call'.stage]
  BY <1>1
<1>3. CallInv'
  BY <1>2 DEF CallInv
<1>4. EffectOf(tx') = EffectOf(tx)
  BY EffectOfTx DEF CallInv
<1> QED BY <1>1, <1>2, <1>3, <1>4, TellsAnAnswer

\* Populating a call is invisible to the interface, or throws.
LEMMA PopulateStep ==
  ASSUME CallInv, Populate PROVE CallInv' /\ AbstractStep
<1>1. call.stage = "populating" /\ UNCHANGED <<connection, tx, receipts>>
  BY DEF Populate
<1>2. \/ Throws
      \/ /\ call' = [call EXCEPT !.stage = "populated", !.from = FALSE, !.gasLimit = FALSE]
         /\ UNCHANGED told
  BY DEF Populate
<1>3. CASE Throws
  BY <1>1, <1>3, ThrowingTells DEF AbstractStep
<1>4. CASE /\ call' = [call EXCEPT !.stage = "populated", !.from = FALSE, !.gasLimit = FALSE]
           /\ UNCHANGED told
  <2>1. call' = [op |-> call.op, layer |-> call.layer, from |-> FALSE, gasLimit |-> FALSE,
                 stage |-> "populated"]
    BY <1>4 DEF CallInv
  <2>2. /\ call'.op = call.op /\ call'.stage = "populated"
        /\ call' = [op |-> call'.op, layer |-> call'.layer, from |-> call'.from,
                    gasLimit |-> call'.gasLimit, stage |-> call'.stage]
    BY <2>1
  <2>3. CallInv'
    BY <1>1, <2>2 DEF CallInv
  <2>4. AbstractStep
    BY <1>1, <1>4, <2>2 DEF AbstractStep, Promise!callVars
  <2> QED BY <2>3, <2>4
<1> QED BY <1>2, <1>3, <1>4

\* Sending is invisible to the interface, or throws with or without a transaction.
LEMMA SendStep ==
  ASSUME CallInv, SendPopulated PROVE CallInv' /\ AbstractStep
<1>1. call.stage = "populated" /\ tx = "none"
  BY DEF SendPopulated, CallInv
<1>2. CASE Throws /\ (tx' = tx \/ tx' = "pending")
  BY <1>1, <1>2, ThrowingTells DEF AbstractStep
<1>3. CASE tx' = "pending" /\ call' = [call EXCEPT !.stage = "sent"] /\ UNCHANGED told
  <2>1. call' = [op |-> call.op, layer |-> call.layer, from |-> call.from,
                 gasLimit |-> call.gasLimit, stage |-> "sent"]
    BY <1>3 DEF CallInv
  <2>2. /\ call'.op = call.op /\ call'.stage = "sent"
        /\ call' = [op |-> call'.op, layer |-> call'.layer, from |-> call'.from,
                    gasLimit |-> call'.gasLimit, stage |-> call'.stage]
    BY <2>1
  <2>3. CallInv'
    BY <1>1, <1>3, <2>2 DEF CallInv
  <2>4. AbstractStep
    BY <1>1, <1>3, <2>2 DEF AbstractStep, Promise!callVars
  <2> QED BY <2>3, <2>4
<1> QED BY <1>2, <1>3 DEF SendPopulated

\* The network decides once what becomes of the operation.
LEMMA NetworkStep ==
  ASSUME CallInv, NetworkDecides PROVE CallInv' /\ AbstractStep
<1>1. tx = "pending" /\ tx' \in Ends /\ UNCHANGED <<connection, call, told, receipts>>
  BY DEF NetworkDecides, Ends
<1>2. call.stage \notin {"none", "populating", "populated"} /\ call.op \in Ops
  BY <1>1 DEF CallInv
<1>3. CallInv'
  BY <1>1, <1>2 DEF CallInv
<1>4. EffectOf(tx) = "open" /\ EffectOf(tx') \in {"done", "ruled out"}
  BY <1>1, EffectOfTx
<1>5. Promise!Decide
  BY <1>1, <1>2, <1>4, DetailsAsPromised DEF Promise!Decide, EffectOf
<1> QED BY <1>3, <1>5 DEF AbstractStep

\* What a receipt is turned into says what became of the transaction.
LEMMA ReceiptSays ==
  ASSUME NEW t \in Ends
  PROVE  \/ /\ receiptFrom(rawReceipt(t)) \in {Told("failed", {}), Told("cancelled", {})}
            /\ EffectOf(t) = "ruled out"
         \/ /\ receiptFrom(rawReceipt(t)) = Told("details", parsed[populatable[call.op].parse])
            /\ EffectOf(t) = "done"
<1>1. CASE t \in {"mined", "repriced and mined"}
  <2>1. rawReceipt(t) = "status 1" /\ EffectOf(t) = "done"
    BY <1>1 DEF rawReceipt, EffectOf
  <2> QED BY <2>1 DEF receiptFrom
<1>2. CASE t \in {"failed", "repriced and failed"}
  <2>1. rawReceipt(t) = "status 0" /\ EffectOf(t) = "ruled out"
    BY <1>2 DEF rawReceipt, EffectOf
  <2> QED BY <2>1 DEF receiptFrom
<1>3. CASE t \in {"cancelled", "replaced"}
  <2>1. rawReceipt(t) = "TransactionCancelledError" /\ EffectOf(t) = "ruled out"
    BY <1>3 DEF rawReceipt, EffectOf
  <2> QED BY <2>1 DEF receiptFrom
<1> QED BY <1>1, <1>2, <1>3 DEF Ends

\* waitForReceipt tells how the operation ended.
LEMMA WaitStep ==
  ASSUME CallInv, WaitForMined PROVE CallInv' /\ AbstractStep
<1>1. /\ call.stage = "sent" /\ tx \in Ends /\ UNCHANGED tx
      /\ told' = receiptFrom(rawReceipt(tx)) /\ call' = [call EXCEPT !.stage = "over"]
  BY DEF WaitForMined, CallInv
<1>2. call' = [op |-> call.op, layer |-> call.layer, from |-> call.from,
               gasLimit |-> call.gasLimit, stage |-> "over"]
  BY <1>1 DEF CallInv
<1>3. /\ call'.op = call.op /\ call'.stage = "over"
      /\ call' = [op |-> call'.op, layer |-> call'.layer, from |-> call'.from,
                  gasLimit |-> call'.gasLimit, stage |-> call'.stage]
  BY <1>2
<1>4. CallInv'
  BY <1>1, <1>3 DEF CallInv
<1>5. Promise!Tell
  BY <1>1, <1>3, ReceiptSays, TellsAnAnswer
<1> QED BY <1>4, <1>5 DEF AbstractStep

\* getReceipt tells how it ended, or that it is pending.
LEMMA GetReceiptStep ==
  ASSUME CallInv, GetReceipt PROVE CallInv' /\ AbstractStep
<1>1. /\ call.stage = "sent" /\ UNCHANGED <<connection, call, tx>>
      /\ told' = receiptFrom(IF tx \in {"mined", "failed"} THEN rawReceipt(tx) ELSE "null")
  BY DEF GetReceipt
<1>2. CallInv'
  BY <1>1 DEF CallInv
<1>3. CASE tx \in {"mined", "failed"}
  <2>1. tx \in Ends /\ told' = receiptFrom(rawReceipt(tx))
    BY <1>1, <1>3 DEF Ends
  <2>2. Promise!Tell
    BY <1>1, <2>1, ReceiptSays, TellsAnAnswer
  <2> QED BY <1>2, <2>2 DEF AbstractStep
<1>4. CASE tx \notin {"mined", "failed"}
  <2>1. told' = Told("pending", {})
    BY <1>1, <1>4 DEF receiptFrom
  <2>2. Promise!Tell
    BY <1>1, <2>1, TellsAnAnswer
  <2> QED BY <1>2, <2>2 DEF AbstractStep
<1> QED BY <1>3, <1>4

\* The next call starts from nothing.
LEMMA NextCallStep ==
  ASSUME CallInv, NextCall PROVE CallInv' /\ AbstractStep
<1>1. call.stage = "over" /\ call' = NoCall /\ tx' = "none" /\ told' = Untold
  BY DEF NextCall
<1>2. call.op \in Ops
  BY <1>1 DEF CallInv
<1>3. CallInv'
  BY <1>1 DEF CallInv, NoCall
<1>4. Promise!Leave
  BY <1>1, <1>2, DetailsAsPromised DEF Promise!Leave, Promise!NoAnswer, Promise!Answer, Untold, Told,
     NoCall
<1> QED BY <1>3, <1>4 DEF AbstractStep

\* KeepsItsPromise: every call of lib-ethers, on whichever layer and however the network
\* treats its transaction, is a call as TransactableLiquity promises it.
THEOREM CallsKeepTheirPromise == EthersSpec => KeepsItsPromise
<1>1. EthersInit => CallInv /\ Promise!CallInit
  <2> SUFFICES ASSUME EthersInit PROVE CallInv /\ Promise!CallInit
    OBVIOUS
  <2>1. CallInv
    BY DEF EthersInit, CallInv, NoCall
  <2>2. Promise!CallInit
    BY DEF EthersInit, NoCall, Promise!CallInit, Promise!NoAnswer, Promise!Answer, Untold, Told
  <2> QED BY <2>1, <2>2
<1>2. CallInv /\ [EthersNext]_ethersVars => CallInv' /\ AbstractStep
  <2> SUFFICES ASSUME CallInv, [EthersNext]_ethersVars PROVE CallInv' /\ AbstractStep
    OBVIOUS
  <2>1. CASE \E layer : \E ops \in SUBSET Ops : Begin(layer, ops)
    BY <2>1, BeginAsks DEF AbstractStep
  <2>2. CASE UNCHANGED ethersVars \/ Connect
    BY <2>2 DEF ethersVars, Connect, CallInv, AbstractStep, Promise!callVars
  <2>3. CASE WaitIsLost
    BY <2>3, ThrowingTells DEF WaitIsLost, AbstractStep
  <2>4. CASE TransactTrove \/ TransactPool \/ TransactTokens \/ SendTrove \/ SendPoolOrTokens \/ PopulateAny
    <3>1. troveOps \subseteq Ops /\ poolOps \subseteq Ops /\ tokenOps \subseteq Ops
          /\ DOMAIN populatable \subseteq Ops /\ poolOps \union tokenOps \subseteq Ops
      BY PopulatableCalls DEF Ops
    <3> QED BY <2>1, <2>4, <3>1
        DEF TransactTrove, TransactPool, TransactTokens, SendTrove, SendPoolOrTokens, PopulateAny
  <2> QED BY <2>2, <2>3, <2>4, PopulateStep, SendStep, NetworkStep, WaitStep, GetReceiptStep, NextCallStep DEF EthersNext
<1> QED BY <1>1, <1>2, PTL DEF EthersSpec, KeepsItsPromise, Promise!CallSpec, AbstractStep

-----------------------------------------------------------------------------
(* The panel of a stability deposit. *)

Deposits == [initialTHUSD : Nat, currentTHUSD : Nat, collateralGain : Nat]
DepositChanges == [amount : Int, withdrawAll : BOOLEAN]
Cards == {"NONE", "DEPOSITING", "ACTIVE", "ADJUSTING"}
Editing(v) == v \in {"DEPOSITING", "ADJUSTING"}
StabilityTxs ==
  [n : Nat,
   type : {"idle", "waitingForApproval", "waitingForConfirmation", "confirmed", "failed", "cancelled"},
   id : {"none", "stability-deposit", "redemption"}, change : DepositChanges,
   fate : {"none", "succeeded", "reverted", "asked"}]
RedemptionForms == [amount : Nat, changePending : BOOLEAN]

\* The card of the deposit that is mounted, if any.
SCard == IF spage = "earn" THEN sview ELSE "NONE"

\* The form is there with the two cards that edit a deposit.
FormTyped(f, v) ==
  IF Editing(v)
  THEN /\ f = ManagerOf(f.originalDeposit, f.editedUSD, f.changePending)
       /\ f.originalDeposit \in Deposits /\ f.editedUSD \in Nat /\ f.changePending \in BOOLEAN
  ELSE f = NoManager

StabilityTypeOK ==
  /\ deposit \in Deposits /\ readDeposit \in Deposits
  /\ spage \in {"earn", "redemption", "elsewhere"}
  /\ sview \in Cards /\ FormTyped(sform, SCard)
  /\ redeeming \in RedemptionForms
  /\ sown \in StabilityTxs /\ saside \in SUBSET StabilityTxs /\ sbusy \in BOOLEAN
  /\ depositSends \in Nat /\ liquidationsSeen \in Nat
  /\ wanted \in DepositChanges /\ retyped \in BOOLEAN /\ interfered \in BOOLEAN
  /\ sovertaken \in BOOLEAN

Under(id, t) == SWaiting(t) /\ t.id = id

\* What the flags of the two cards say of the transaction.
FlagsAgree ==
  /\ SWaiting(sown) => sown.id # "none"
  /\ sown.type = "waitingForApproval" => sown.fate = "none"
  /\ Editing(SCard) /\ sform.changePending => Under("stability-deposit", sown)
  /\ IF spage = "redemption" THEN redeeming.changePending <=> Under("redemption", sown)
     ELSE redeeming = NoRedemption

Untouched == Editing(SCard) /\ ~interfered

\* A form without its flag has seen the transaction's own result, and asks for nothing
\* unless something was typed since.
ReleasedByItsResult ==
  Untouched /\ Under("stability-deposit", sown) /\ ~sform.changePending =>
    /\ sown.fate = "succeeded"
    /\ retyped \/ sform.editedUSD = sform.originalDeposit.currentTHUSD

\* What is sent while less is wanted withdraws.
SendsWhatIsWanted ==
  Untouched /\ sform.changePending /\ wanted.amount < 0 => sown.change.amount < 0

\* A decrease that the form has cut at zero is not exceeded by a deposit that grew.
CutsStayCut ==
  /\ Untouched /\ wanted.amount < 0
  /\ sform.originalDeposit.currentTHUSD + wanted.amount <= 0
  /\ wanted.withdrawAll => sform.originalDeposit.currentTHUSD = 0
  => deposit.currentTHUSD <= sform.originalDeposit.currentTHUSD

\* The form asks for what was typed.
AsksForWanted ==
  Untouched => sform.editedUSD = applyDepositChange(sform.originalDeposit, wanted)

\* All this as long as the cards see what becomes of their transactions.
Followed ==
  /\ saside = {} /\ (SWaiting(sown) => ~sbusy)
  /\ FlagsAgree /\ ReleasedByItsResult /\ SendsWhatIsWanted /\ CutsStayCut /\ AsksForWanted

PanelInv == StabilityTypeOK /\ (~sovertaken => Followed)

-----------------------------------------------------------------------------
\* StabilityDeposit.apply stops at zero, and a decrease does not increase.
LEMMA AppliedChange ==
  ASSUME NEW d \in Deposits, NEW c \in DepositChanges
  PROVE  /\ applyDepositChange(d, c) \in Nat
         /\ c.amount < 0 => applyDepositChange(d, c) <= d.currentTHUSD
         /\ c.amount >= 0 => applyDepositChange(d, c) = d.currentTHUSD + c.amount
BY DEF applyDepositChange, Deposits, DepositChanges

\* whatChanged and apply are inverse: what was typed is what the form shows.
LEMMA TypedChange ==
  ASSUME NEW d \in Deposits, NEW e \in Nat
  PROVE  /\ depositChange(d, e) \in DepositChanges
         /\ depositChange(d, e).amount = e - d.currentTHUSD
         /\ depositChange(d, e).withdrawAll <=> e = 0 /\ d.currentTHUSD > 0
         /\ applyDepositChange(d, depositChange(d, e)) = e
<1> DEFINE k == depositChange(d, e)
<1>1. d.currentTHUSD \in Nat
  BY DEF Deposits
<1>2. /\ k \in DepositChanges
      /\ k.amount = e - d.currentTHUSD
      /\ k.withdrawAll <=> e = 0 /\ d.currentTHUSD > 0
  <2> DEFINE a == e - d.currentTHUSD
             all == e = 0 /\ d.currentTHUSD > 0
  <2>1. a \in Int
    BY <1>1
  <2>2. all \in BOOLEAN
    OBVIOUS
  <2>3. k = [amount |-> a, withdrawAll |-> all]
    BY DEF depositChange
  <2> HIDE DEF a, all, k
  <2>4. k \in DepositChanges /\ k.amount = a /\ (k.withdrawAll <=> all)
    BY <2>1, <2>2, <2>3, Zenon DEF DepositChanges
  <2> QED BY <2>4 DEF a, all
<1> HIDE DEF k
<1>3. applyDepositChange(d, k) = e
  BY <1>1, <1>2 DEF applyDepositChange
<1> QED BY <1>2, <1>3 DEF k

\* A form that asks for a change asks for the same one of the updated deposit, unless
\* the change was cut at zero and the deposit has grown since.
LEMMA RebasedChange ==
  ASSUME NEW d \in Deposits, NEW u \in Deposits, NEW c \in DepositChanges,
         NEW e \in Nat, e = applyDepositChange(d, c),
         /\ c.amount < 0 /\ d.currentTHUSD + c.amount <= 0
         /\ c.withdrawAll => d.currentTHUSD = 0
         => u.currentTHUSD <= d.currentTHUSD
  PROVE  applyDepositChange(u, depositChange(d, e)) = applyDepositChange(u, c)
<1> DEFINE k == depositChange(d, e)
<1>1. k.amount = e - d.currentTHUSD /\ (k.withdrawAll <=> e = 0 /\ d.currentTHUSD > 0)
  BY TypedChange
<1>2. d.currentTHUSD \in Nat /\ u.currentTHUSD \in Nat /\ c.amount \in Int /\ c.withdrawAll \in BOOLEAN
  BY DEF Deposits, DepositChanges
<1> HIDE DEF k
<1>7. applyDepositChange(u, k) = applyDepositChange(u, c)
  <2>3. CASE c.amount >= 0
    BY <1>1, <1>2, <2>3 DEF applyDepositChange
  <2>4. CASE c.amount < 0 /\ d.currentTHUSD + c.amount > 0 /\ ~c.withdrawAll
    BY <1>1, <1>2, <2>4 DEF applyDepositChange
  <2>5. CASE c.amount < 0 /\ c.withdrawAll
    BY <1>1, <1>2, <2>5 DEF applyDepositChange
  <2>6. CASE c.amount < 0 /\ ~c.withdrawAll /\ d.currentTHUSD + c.amount <= 0
    BY <1>1, <1>2, <2>6 DEF applyDepositChange
  <2> QED BY <1>2, <2>3, <2>4, <2>5, <2>6
<1> QED BY <1>7 DEF k

\* The form is mounted with the cards that edit the deposit.
LEMMA MountedForm ==
  ASSUME NEW f, NEW v, FormTyped(f, v)
  PROVE  /\ f.mounted <=> Editing(v)
         /\ Editing(v) => /\ f.originalDeposit \in Deposits /\ f.editedUSD \in Nat
                          /\ f.changePending \in BOOLEAN
BY DEF FormTyped, ManagerOf, NoManager

\* A form has the fields it is made of.
LEMMA MadeForm ==
  ASSUME NEW v, Editing(v), NEW d \in Deposits, NEW e \in Nat, NEW c \in BOOLEAN
  PROVE  /\ FormTyped(ManagerOf(d, e, c), v)
         /\ ManagerOf(d, e, c).originalDeposit = d /\ ManagerOf(d, e, c).editedUSD = e
         /\ ManagerOf(d, e, c).changePending = c
BY DEF FormTyped, ManagerOf

\* The same of the form on the panel.
LEMMA FormFacts ==
  ASSUME StabilityTypeOK
  PROVE  /\ sform.mounted <=> Editing(SCard)
         /\ Editing(SCard) => /\ sform.originalDeposit \in Deposits
                              /\ sform.originalDeposit.currentTHUSD \in Nat
                              /\ sform.editedUSD \in Nat /\ sform.changePending \in BOOLEAN
BY MountedForm DEF StabilityTypeOK, Deposits

\* No transaction is one, and what a card is mounted with is a form.
LEMMA MountedForms ==
  ASSUME NEW v, NEW d \in Deposits, NEW t
  PROVE  /\ NoStabilityTx \in StabilityTxs /\ ~SWaiting(NoStabilityTx)
         /\ NoStabilityTx.type = "idle" /\ NoStabilityTx.id = "none"
         /\ NoDepositChange \in DepositChanges /\ NoDepositChange.amount = 0
         /\ NoRedemption \in RedemptionForms
         /\ NoRedemption.amount = 0 /\ ~NoRedemption.changePending
         /\ FormTyped(MountedManager(v, d, t), v)
         /\ Editing(v) => /\ MountedManager(v, d, t).originalDeposit = d
                          /\ MountedManager(v, d, t).editedUSD = d.currentTHUSD
                          /\ MountedManager(v, d, t).changePending <=> Under("stability-deposit", t)
         /\ ~Editing(v) => MountedManager(v, d, t) = NoManager
         /\ MountedRedemption(t) \in RedemptionForms
         /\ MountedRedemption(t).changePending <=> Under("redemption", t)
<1> DEFINE c == SWaiting(t) /\ t.id = "stability-deposit"
           r == SWaiting(t) /\ t.id = "redemption"
<1>1. c \in BOOLEAN /\ r \in BOOLEAN /\ d.currentTHUSD \in Nat
  BY DEF Deposits
<1>2. (c <=> Under("stability-deposit", t)) /\ (r <=> Under("redemption", t))
  BY DEF Under
<1>3. MountedManager(v, d, t) = IF Editing(v) THEN ManagerOf(d, d.currentTHUSD, c) ELSE NoManager
  BY DEF MountedManager, Editing
<1>4. MountedRedemption(t) = [amount |-> 0, changePending |-> r]
  BY DEF MountedRedemption, NoRedemption
<1> HIDE DEF c, r
<1>5. NoDepositChange \in DepositChanges /\ NoDepositChange.amount = 0
  BY DEF NoDepositChange, DepositChanges
<1>6. /\ NoStabilityTx \in StabilityTxs /\ ~SWaiting(NoStabilityTx)
      /\ NoStabilityTx.type = "idle" /\ NoStabilityTx.id = "none"
  BY <1>5 DEF NoStabilityTx, StabilityTx, StabilityTxs, SWaiting
<1>7. NoRedemption \in RedemptionForms /\ NoRedemption.amount = 0 /\ ~NoRedemption.changePending
  BY DEF NoRedemption, RedemptionForms
<1>8. MountedRedemption(t) \in RedemptionForms /\ MountedRedemption(t).changePending = r
  BY <1>1, <1>4 DEF RedemptionForms
<1>9. CASE Editing(v)
  <2>1. /\ FormTyped(ManagerOf(d, d.currentTHUSD, c), v)
        /\ ManagerOf(d, d.currentTHUSD, c).originalDeposit = d
        /\ ManagerOf(d, d.currentTHUSD, c).editedUSD = d.currentTHUSD
        /\ ManagerOf(d, d.currentTHUSD, c).changePending = c
    BY <1>1, <1>9, MadeForm
  <2> QED BY <1>2, <1>3, <1>5, <1>6, <1>7, <1>8, <1>9, <2>1
<1>10. CASE ~Editing(v)
  BY <1>2, <1>3, <1>5, <1>6, <1>7, <1>8, <1>10 DEF FormTyped
<1> QED BY <1>9, <1>10

\* A liquidation only makes the deposit smaller, so cuts stay cut.
LEMMA LiquidationKeepsPanelInv == PanelInv /\ PoolLiquidation => PanelInv'
<1> SUFFICES ASSUME PanelInv, PoolLiquidation PROVE PanelInv'
  OBVIOUS
<1>1. /\ StabilityTypeOK
      /\ UNCHANGED <<readDeposit, spage, sview, sform, redeeming, stxState, depositSends, wanted,
                     retyped, interfered, sovertaken>>
      /\ UNCHANGED <<sown, saside, sbusy>>
  BY DEF PanelInv, PoolLiquidation, stxState
<1>2. deposit' \in Deposits /\ deposit'.currentTHUSD = deposit.currentTHUSD - 1
  <2>1. /\ deposit.initialTHUSD \in Nat /\ deposit.currentTHUSD - 1 \in Nat
        /\ deposit.collateralGain + 1 \in Nat
    BY <1>1 DEF PoolLiquidation, StabilityTypeOK, Deposits
  <2>2. deposit' = StabilityDeposit(deposit.initialTHUSD, deposit.currentTHUSD - 1,
                                    deposit.collateralGain + 1)
    BY <1>1 DEF PoolLiquidation, StabilityTypeOK, Deposits, StabilityDeposit
  <2> QED BY <2>1, <2>2 DEF StabilityDeposit, Deposits
<1>3. StabilityTypeOK'
  BY <1>1, <1>2 DEF PoolLiquidation, StabilityTypeOK, SCard
<1>4. CutsStayCut => CutsStayCut'
  BY <1>1, <1>2, FormFacts DEF StabilityTypeOK, CutsStayCut, Untouched, SCard, Deposits
<1>5. /\ FlagsAgree => FlagsAgree'
      /\ ReleasedByItsResult => ReleasedByItsResult'
      /\ SendsWhatIsWanted => SendsWhatIsWanted'
      /\ AsksForWanted => AsksForWanted'
  BY <1>1 DEF FlagsAgree, ReleasedByItsResult, SendsWhatIsWanted, AsksForWanted, Under, Untouched, SCard
<1> QED BY <1>1, <1>3, <1>4, <1>5 DEF PanelInv, Followed

\* Typing on the redemption card changes nothing else.
LEMMA EditRedemptionKeepsPanelInv ==
  \A amount \in DepositAmounts : PanelInv /\ EditRedemption(amount) => PanelInv'
<1> SUFFICES ASSUME NEW amount \in DepositAmounts, PanelInv, EditRedemption(amount)
             PROVE PanelInv'
  OBVIOUS
<1>1. /\ StabilityTypeOK /\ amount \in Nat
      /\ spage = "redemption" /\ redeeming' = [redeeming EXCEPT !.amount = amount]
      /\ UNCHANGED <<deposit, readDeposit, spage, sview, sform, sown, saside, sbusy, depositSends,
                     liquidationsSeen, wanted, retyped, interfered, sovertaken>>
  BY StabilityPanelAssumption DEF PanelInv, EditRedemption, stxState
<1>2. redeeming' \in RedemptionForms /\ redeeming'.changePending = redeeming.changePending
  BY <1>1 DEF StabilityTypeOK, RedemptionForms
<1>3. StabilityTypeOK'
  BY <1>1, <1>2 DEF StabilityTypeOK, SCard
<1>4. Followed => Followed'
  BY <1>1, <1>2 DEF Followed, FlagsAgree, ReleasedByItsResult, SendsWhatIsWanted, AsksForWanted,
                    CutsStayCut, Under, Untouched, SCard
<1> QED BY <1>1, <1>3, <1>4 DEF PanelInv

\* A transaction that goes back to idle was not waited for any more; one that another
\* card's replaces is overtaken.
LEMMA IdleKeepsPanelInv ==
  ASSUME PanelInv, sown' = NoStabilityTx, sbusy' \in BOOLEAN,
         saside' = saside \cup SKept(sown), sovertaken' = (sovertaken \/ SWaiting(sown)),
         UNCHANGED <<deposit, readDeposit, spage, sview, sform, redeeming, depositSends,
                     liquidationsSeen, wanted, retyped, interfered>>
  PROVE  PanelInv'
<1>1. StabilityTypeOK /\ sown \in StabilityTxs /\ sovertaken \in BOOLEAN
  BY DEF PanelInv, StabilityTypeOK
<1>2. /\ sown' \in StabilityTxs /\ ~SWaiting(sown') /\ sown'.type = "idle"
  BY <1>1, MountedForms DEF StabilityTypeOK
<1>3. saside' \in SUBSET StabilityTxs
  BY <1>1 DEF StabilityTypeOK, SKept
<1>4. sovertaken' \in BOOLEAN /\ (~sovertaken' => ~sovertaken /\ ~SWaiting(sown))
  BY <1>1 DEF SWaiting
<1>5. StabilityTypeOK'
  BY <1>1, <1>2, <1>3, <1>4 DEF StabilityTypeOK, SCard
<1>6. SUFFICES ASSUME ~sovertaken', Followed PROVE Followed'
  BY <1>4, <1>5 DEF PanelInv
<1>7. saside' = {}
  BY <1>4, <1>6 DEF Followed, SKept
<1>8. FlagsAgree' /\ ReleasedByItsResult' /\ SendsWhatIsWanted'
  BY <1>2, <1>4, <1>6 DEF Followed, FlagsAgree, ReleasedByItsResult, SendsWhatIsWanted, Under, Untouched,
                          SCard
<1>9. CutsStayCut' /\ AsksForWanted'
  BY <1>6 DEF Followed, CutsStayCut, AsksForWanted, Untouched, SCard
<1> QED BY <1>2, <1>7, <1>8, <1>9 DEF Followed

\* The end of a transaction, and another card that uses the shared state.
LEMMA TxEndsKeepsPanelInv == PanelInv /\ (DepositTxEnds \/ OtherStabilityCard) => PanelInv'
<1> SUFFICES ASSUME PanelInv, DepositTxEnds \/ OtherStabilityCard PROVE PanelInv'
  OBVIOUS
<1>1. CASE DepositTxEnds
  <2>1. ~SWaiting(sown) /\ SKept(sown) = {}
    BY <1>1 DEF DepositTxEnds, SWaiting, SKept
  <2>2. sovertaken \in BOOLEAN /\ sbusy \in BOOLEAN
    BY DEF PanelInv, StabilityTypeOK
  <2>3. sovertaken = (sovertaken \/ SWaiting(sown))
    BY <2>1, <2>2, Zenon
  <2>4. /\ UNCHANGED <<deposit, readDeposit, spage, sview, sform, redeeming, saside, sbusy,
                       depositSends, liquidationsSeen, wanted, retyped, interfered, sovertaken>>
        /\ sown' = NoStabilityTx
    BY <1>1 DEF DepositTxEnds
  <2> QED BY <2>1, <2>2, <2>3, <2>4, IdleKeepsPanelInv
<1>2. CASE OtherStabilityCard
  <2>1. /\ sown' = NoStabilityTx /\ sbusy' \in BOOLEAN
        /\ saside' = saside \cup SKept(sown) /\ sovertaken' = (sovertaken \/ SWaiting(sown))
        /\ UNCHANGED <<deposit, readDeposit, spage, sview, sform, redeeming, depositSends,
                       liquidationsSeen, wanted, retyped, interfered>>
    BY <1>2 DEF OtherStabilityCard
  <2> QED BY <2>1, IdleKeepsPanelInv
<1> QED BY <1>1, <1>2

\* What a transaction leaves of a deposit is a deposit, and a withdrawal is no increase.
LEMMA AfterTx ==
  ASSUME NEW d \in Deposits, NEW t \in StabilityTxs
  PROVE  /\ DepositAfter(d, t) \in Deposits
         /\ t.id = "redemption" \/ t.change.amount < 0
            => DepositAfter(d, t).currentTHUSD <= d.currentTHUSD
<1> DEFINE left == applyDepositChange(d, t.change)
<1>1. left \in Nat /\ (t.change.amount < 0 => left <= d.currentTHUSD) /\ d.currentTHUSD \in Nat
  BY AppliedChange DEF StabilityTxs, Deposits
<1>2. DepositAfter(d, t) = IF t.id = "redemption" THEN d ELSE StabilityDeposit(left, left, 0)
  BY DEF DepositAfter
<1> HIDE DEF left
<1>3. CASE t.id = "redemption"
  BY <1>1, <1>2, <1>3
<1>4. CASE t.id # "redemption"
  BY <1>1, <1>2, <1>4 DEF StabilityDeposit, Deposits
<1> QED BY <1>3, <1>4

\* A deposit grows only by a transaction of its own, which then was no withdrawal and is
\* still behind the overlay.
LEMMA MinedKeepsPanelInv == PanelInv /\ DepositMined => PanelInv'
<1> SUFFICES ASSUME PanelInv, DepositMined PROVE PanelInv'
  OBVIOUS
<1>1. /\ StabilityTypeOK /\ sown \in StabilityTxs /\ deposit \in Deposits
      /\ sown.type = "waitingForConfirmation" /\ sown.fate = "none"
      /\ UNCHANGED <<readDeposit, spage, sview, sform, redeeming, saside, sbusy, depositSends,
                     liquidationsSeen, wanted, retyped, interfered, sovertaken>>
  BY DEF PanelInv, StabilityTypeOK, DepositMined
<1>2. PICK fate \in {"succeeded", "reverted"} :
        /\ sown' = [sown EXCEPT !.fate = fate]
        /\ deposit' = IF fate = "succeeded" THEN DepositAfter(deposit, sown) ELSE deposit
  BY DEF DepositMined
<1>3. /\ sown' \in StabilityTxs /\ sown'.id = sown.id /\ sown'.change = sown.change
      /\ sown'.type = sown.type /\ SWaiting(sown) /\ SWaiting(sown')
  BY <1>1, <1>2 DEF StabilityTxs, SWaiting
<1>4. /\ deposit' \in Deposits
      /\ sown.id = "redemption" \/ sown.change.amount < 0
         => deposit'.currentTHUSD <= deposit.currentTHUSD
  BY <1>1, <1>2, AfterTx DEF Deposits
<1>5. StabilityTypeOK'
  BY <1>1, <1>3, <1>4 DEF StabilityTypeOK, SCard
<1>6. SUFFICES ASSUME ~sovertaken, Followed PROVE Followed'
  BY <1>1, <1>5 DEF PanelInv
<1>7. FlagsAgree' /\ SendsWhatIsWanted' /\ AsksForWanted'
  BY <1>1, <1>3, <1>6 DEF Followed, FlagsAgree, SendsWhatIsWanted, AsksForWanted, Under, Untouched, SCard
<1>8. ReleasedByItsResult'
  BY <1>1, <1>3, <1>6 DEF Followed, ReleasedByItsResult, Under, Untouched, SCard
<1>9. CutsStayCut'
  <2>1. SUFFICES ASSUME Untouched, wanted.amount < 0 PROVE CutsStayCut'
    BY <1>1 DEF CutsStayCut, Untouched, SCard
  <2>2. sown.id \in {"redemption", "stability-deposit"}
    BY <1>1, <1>3, <1>6 DEF StabilityTxs, Followed, FlagsAgree
  <2>3. sown.id = "redemption" \/ sown.change.amount < 0
    BY <1>1, <1>3, <1>6, <2>1, <2>2 DEF Followed, ReleasedByItsResult, SendsWhatIsWanted, Under
  <2>4. deposit'.currentTHUSD <= deposit.currentTHUSD
    BY <1>4, <2>3
  <2>5. deposit'.currentTHUSD \in Nat /\ deposit.currentTHUSD \in Nat
    BY <1>1, <1>4 DEF Deposits
  <2> QED BY <1>1, <1>6, <2>1, <2>4, <2>5, FormFacts DEF Followed, CutsStayCut, Untouched, SCard
<1> QED BY <1>1, <1>3, <1>6, <1>7, <1>8, <1>9 DEF Followed

\* A transaction that nobody follows was overtaken.
LEMMA MinedUnseenKeepsPanelInv == PanelInv /\ DepositMinedUnseen => PanelInv'
<1> SUFFICES ASSUME PanelInv, DepositMinedUnseen PROVE PanelInv'
  OBVIOUS
<1>1. PICK t \in saside : saside' = saside \ {t} /\ deposit' \in {deposit, DepositAfter(deposit, t)}
  BY DEF DepositMinedUnseen
<1>2. /\ StabilityTypeOK /\ t \in StabilityTxs /\ deposit \in Deposits
      /\ UNCHANGED <<readDeposit, spage, sview, sform, redeeming, sown, sbusy, depositSends,
                     liquidationsSeen, wanted, retyped, interfered, sovertaken>>
  BY <1>1 DEF PanelInv, StabilityTypeOK, DepositMinedUnseen
<1>3. deposit' \in Deposits
  BY <1>1, <1>2, AfterTx
<1>4. StabilityTypeOK'
  BY <1>1, <1>2, <1>3 DEF StabilityTypeOK, SCard
<1>5. sovertaken
  BY <1>1 DEF PanelInv, Followed
<1> QED BY <1>2, <1>4, <1>5 DEF PanelInv

\* What is typed is what is wanted.
LEMMA EditDepositKeepsPanelInv ==
  \A amount \in DepositAmounts : PanelInv /\ EditDeposit(amount) => PanelInv'
<1> SUFFICES ASSUME NEW amount \in DepositAmounts, PanelInv, EditDeposit(amount)
             PROVE PanelInv'
  OBVIOUS
<1> DEFINE d == sform.originalDeposit
<1>1. /\ amount \in Nat /\ StabilityTypeOK /\ retyped'
      /\ UNCHANGED <<deposit, readDeposit, spage, sview, redeeming, sown, saside, sbusy,
                     depositSends, liquidationsSeen, interfered, sovertaken>>
  BY StabilityPanelAssumption DEF PanelInv, EditDeposit, stxState
<1>2. Editing(SCard) /\ d \in Deposits /\ d.currentTHUSD \in Nat /\ sform.changePending \in BOOLEAN
  BY <1>1, FormFacts DEF EditDeposit
<1>3. sform' = ManagerOf(d, amount, sform.changePending)
  BY <1>1, <1>2 DEF EditDeposit, StabilityTypeOK, FormTyped, ManagerOf
<1>4. /\ FormTyped(sform', SCard)
      /\ sform'.originalDeposit = d /\ sform'.editedUSD = amount
      /\ sform'.changePending = sform.changePending
  BY <1>1, <1>2, <1>3, MadeForm
<1>5. ~sform.changePending
  BY <1>1, <1>2, FormFacts DEF EditDeposit, StabilityOverlay
<1>6. wanted' = depositChange(d, amount)
  BY DEF EditDeposit
<1>7. /\ wanted' \in DepositChanges
      /\ wanted'.amount = amount - d.currentTHUSD
      /\ wanted'.withdrawAll <=> amount = 0 /\ d.currentTHUSD > 0
      /\ applyDepositChange(d, wanted') = amount
  BY <1>1, <1>2, <1>6, TypedChange
<1> HIDE DEF d
<1>8. SCard' = SCard
  BY <1>1 DEF SCard
<1>9. retyped' \in BOOLEAN
  BY Zenon DEF EditDeposit
<1>10. StabilityTypeOK'
  BY <1>1, <1>4, <1>7, <1>8, <1>9 DEF StabilityTypeOK
<1>11. SUFFICES ASSUME ~sovertaken, Followed PROVE Followed'
  BY <1>1, <1>10 DEF PanelInv
<1>12. FlagsAgree'
  BY <1>1, <1>4, <1>5, <1>8, <1>11 DEF Followed, FlagsAgree, Under
<1>13. ReleasedByItsResult'
  BY <1>1, <1>4, <1>5, <1>8, <1>11 DEF Followed, ReleasedByItsResult, Under, Untouched
<1>14. SendsWhatIsWanted'
  BY <1>4, <1>5 DEF SendsWhatIsWanted, Untouched
<1>15. CutsStayCut'
  BY <1>1, <1>2, <1>4, <1>7 DEF CutsStayCut, Untouched
<1>16. AsksForWanted'
  BY <1>4, <1>7 DEF AsksForWanted
<1> QED BY <1>1, <1>11, <1>12, <1>13, <1>14, <1>15, <1>16 DEF Followed

\* A store update rebases the form, or takes the change for done.
LEMMA StoreUpdateKeepsPanelInv == PanelInv /\ DepositStoreUpdates => PanelInv'
<1> SUFFICES ASSUME PanelInv, DepositStoreUpdates PROVE PanelInv'
  OBVIOUS
<1>1. /\ StabilityTypeOK
      /\ UNCHANGED <<deposit, spage, sview, redeeming, sown, saside, sbusy, depositSends,
                     liquidationsSeen, retyped, sovertaken>>
  BY DEF PanelInv, DepositStoreUpdates, stxState
<1>2. /\ readDeposit' \in Deposits /\ deposit \in Deposits /\ deposit.currentTHUSD \in Nat
      /\ SCard' = SCard
  BY <1>1 DEF DepositStoreUpdates, StabilityTypeOK, Deposits, SCard
<1>3. CASE ~Editing(SCard)
  <2>1. sform' = sform /\ wanted' = wanted /\ interfered' = (interfered \/ FALSE)
    BY <1>1, <1>3, FormFacts DEF DepositStoreUpdates
  <2>2. StabilityTypeOK'
    BY <1>1, <1>2, <2>1 DEF StabilityTypeOK
  <2>3. /\ FlagsAgree => FlagsAgree'
        /\ ReleasedByItsResult' /\ SendsWhatIsWanted' /\ CutsStayCut' /\ AsksForWanted'
    BY <1>1, <1>2, <1>3, <2>1 DEF FlagsAgree, ReleasedByItsResult, SendsWhatIsWanted, CutsStayCut,
                                  AsksForWanted, Under, Untouched
  <2> QED BY <1>1, <2>2, <2>3 DEF PanelInv, Followed
<1>4. CASE Editing(SCard)
  <2> DEFINE d == sform.originalDeposit
             e == applyDepositChange(deposit, depositChange(d, sform.editedUSD))
  <2>1. /\ sform.mounted /\ d \in Deposits /\ d.currentTHUSD \in Nat /\ sform.editedUSD \in Nat
        /\ sform.changePending \in BOOLEAN
    BY <1>1, <1>4, FormFacts
  <2>2. e \in Nat
    BY <1>2, <2>1, TypedChange, AppliedChange
  <2>3. sform' = depositUpdated(sform, deposit)
    BY <2>1 DEF DepositStoreUpdates
  <2>4. \/ sform' = ManagerOf(deposit, deposit.currentTHUSD, FALSE) /\ sform.changePending
        \/ sform' = ManagerOf(deposit, e, sform.changePending)
    BY <2>3 DEF depositUpdated
  <2> HIDE DEF e, d
  <2>5. CASE sform' = ManagerOf(deposit, deposit.currentTHUSD, FALSE) /\ sform.changePending
    <3>1. /\ FormTyped(sform', SCard) /\ sform'.originalDeposit = deposit
          /\ sform'.editedUSD = deposit.currentTHUSD /\ ~sform'.changePending
      BY <1>2, <1>4, <2>5, MadeForm
    <3>2. wanted' = NoDepositChange /\ interfered' = (interfered \/ sown.fate # "succeeded")
      BY <2>1, <2>5, <3>1 DEF DepositStoreUpdates
    <3>3. wanted' \in DepositChanges /\ wanted'.amount = 0
      BY <3>2 DEF NoDepositChange, DepositChanges
    <3>4. StabilityTypeOK'
      BY <1>1, <1>2, <3>1, <3>2, <3>3 DEF StabilityTypeOK
    <3>5. FlagsAgree => FlagsAgree'
      BY <1>1, <1>2, <3>1 DEF FlagsAgree, Under
    <3>6. ReleasedByItsResult'
      BY <1>1, <3>1, <3>2 DEF ReleasedByItsResult, Under, Untouched
    <3>7. SendsWhatIsWanted' /\ CutsStayCut'
      BY <3>3 DEF SendsWhatIsWanted, CutsStayCut
    <3>8. AsksForWanted'
      BY <1>2, <3>1, <3>3, AppliedChange DEF AsksForWanted
    <3> QED BY <1>1, <3>4, <3>5, <3>6, <3>7, <3>8 DEF PanelInv, Followed
  <2>6. CASE sform' = ManagerOf(deposit, e, sform.changePending)
    <3>1. /\ FormTyped(sform', SCard) /\ sform'.originalDeposit = deposit
          /\ sform'.editedUSD = e /\ sform'.changePending = sform.changePending
      BY <1>2, <1>4, <2>1, <2>2, <2>6, MadeForm
    <3>2. wanted' = wanted /\ interfered' = (interfered \/ FALSE)
      BY <2>1, <3>1 DEF DepositStoreUpdates
    <3>3. StabilityTypeOK'
      BY <1>1, <1>2, <3>1, <3>2 DEF StabilityTypeOK
    <3>4. SUFFICES ASSUME ~sovertaken, Followed PROVE Followed'
      BY <1>1, <3>3 DEF PanelInv
    <3>5. FlagsAgree'
      BY <1>1, <1>2, <3>1, <3>4 DEF Followed, FlagsAgree, Under
    <3>6. SendsWhatIsWanted'
      BY <1>1, <1>2, <3>1, <3>2, <3>4 DEF Followed, SendsWhatIsWanted, Untouched
    <3>7. CutsStayCut'
      BY <1>1, <1>2, <3>1 DEF CutsStayCut
    <3>8. ReleasedByItsResult'
      <4>1. sform.editedUSD = d.currentTHUSD => e = deposit.currentTHUSD
        <5> DEFINE k == depositChange(d, sform.editedUSD)
        <5>1. /\ k \in DepositChanges /\ k.amount = sform.editedUSD - d.currentTHUSD
          BY <2>1, TypedChange
        <5>2. e = applyDepositChange(deposit, k)
          BY DEF e
        <5> HIDE DEF k
        <5> QED BY <1>2, <2>1, <5>1, <5>2, AppliedChange
      <4> QED BY <1>1, <1>2, <3>1, <3>2, <3>4, <4>1
          DEF Followed, ReleasedByItsResult, Under, Untouched, d
    <3>9. AsksForWanted'
      <4>1. SUFFICES ASSUME ~interfered
                     PROVE  e = applyDepositChange(deposit, wanted)
        BY <1>1, <3>1, <3>2 DEF AsksForWanted, Untouched
      <4>2. sform.editedUSD = applyDepositChange(d, wanted)
        BY <1>4, <3>4, <4>1 DEF Followed, AsksForWanted, Untouched, d
      <4>3. /\ wanted.amount < 0 /\ d.currentTHUSD + wanted.amount <= 0
            /\ wanted.withdrawAll => d.currentTHUSD = 0
            => deposit.currentTHUSD <= d.currentTHUSD
        BY <1>4, <3>4, <4>1 DEF Followed, CutsStayCut, Untouched, d
      <4>4. wanted \in DepositChanges
        BY <1>1 DEF StabilityTypeOK
      <4> QED BY <1>2, <2>1, <4>2, <4>3, <4>4, RebasedChange DEF e
    <3> QED BY <1>1, <3>4, <3>5, <3>6, <3>7, <3>8, <3>9 DEF Followed
  <2> QED BY <2>4, <2>5, <2>6
<1> QED BY <1>3, <1>4

\* What both cards make of a state of the transaction that is written.
LEMMA SeenByCards ==
  ASSUME StabilityTypeOK, NEW t \in StabilityTxs, CardsSee(t), UNCHANGED <<spage, sview>>
  PROVE  /\ SCard' = SCard /\ FormTyped(sform', SCard) /\ redeeming' \in RedemptionForms
         /\ Editing(SCard) =>
              /\ sform'.originalDeposit = sform.originalDeposit /\ sform'.editedUSD = sform.editedUSD
              /\ t.type # sown.type =>
                   (sform'.changePending <=>
                      IF t.id = "stability-deposit" THEN SWaiting(t) ELSE sform.changePending)
         /\ spage # "redemption" => redeeming' = redeeming
         /\ spage = "redemption" /\ t.type # sown.type =>
              (redeeming'.changePending <=>
                 IF t.id = "redemption" THEN SWaiting(t) ELSE redeeming.changePending)
<1> DEFINE w == SWaiting(t)
           isNew == ~(sown.id = t.id /\ sown.type = t.type)
<1>1. w \in BOOLEAN /\ isNew \in BOOLEAN /\ (t.type # sown.type => isNew)
  BY DEF SWaiting
<1>2. SCard' = SCard
  BY DEF SCard
<1>3. redeeming' = IF spage = "redemption" /\ t.id = "redemption" /\ isNew
                   THEN [redeeming EXCEPT !.changePending = w] ELSE redeeming
  BY DEF CardsSee
<1>4. sform' = IF sform.mounted /\ t.id = "stability-deposit" /\ isNew
               THEN [sform EXCEPT !.changePending = w] ELSE sform
  BY DEF CardsSee
<1>5. w <=> SWaiting(t)
  OBVIOUS
<1> HIDE DEF w, isNew
<1>6. /\ redeeming' \in RedemptionForms
      /\ spage # "redemption" => redeeming' = redeeming
      /\ spage = "redemption" /\ isNew =>
           redeeming'.changePending = IF t.id = "redemption" THEN w ELSE redeeming.changePending
  BY <1>1, <1>3 DEF StabilityTypeOK, RedemptionForms
<1>7. /\ FormTyped(sform', SCard)
      /\ Editing(SCard) =>
           /\ sform'.originalDeposit = sform.originalDeposit /\ sform'.editedUSD = sform.editedUSD
           /\ isNew => sform'.changePending = IF t.id = "stability-deposit" THEN w
                                              ELSE sform.changePending
  <2>1. CASE Editing(SCard) /\ t.id = "stability-deposit" /\ isNew
    <3>1. sform' = ManagerOf(sform.originalDeposit, sform.editedUSD, w)
      BY <1>4, <2>1, FormFacts DEF StabilityTypeOK, FormTyped, ManagerOf
    <3> QED BY <1>1, <2>1, <3>1, FormFacts, MadeForm
  <2>2. CASE ~(Editing(SCard) /\ t.id = "stability-deposit" /\ isNew)
    BY <1>4, <2>2, FormFacts DEF StabilityTypeOK
  <2> QED BY <2>1, <2>2
<1> QED BY <1>1, <1>2, <1>5, <1>6, <1>7

\* A new state of a transaction that the cards follow.
LEMMA CardsKeepFollowed ==
  ASSUME StabilityTypeOK, Followed, sown' \in StabilityTxs, CardsSee(sown'),
         sown'.type # sown.type, sown'.id # "none", sown'.fate = "none" \/ ~SWaiting(sown'),
         SWaiting(sown) => sown'.id = sown.id,
         saside' = {}, SWaiting(sown') => ~sbusy',
         UNCHANGED <<deposit, readDeposit, spage, sview, liquidationsSeen, wanted, interfered>>,
         Untouched /\ wanted.amount < 0 /\ Under("stability-deposit", sown')
           => sown'.change.amount < 0
  PROVE  Followed'
<1>1. /\ SCard' = SCard /\ FormTyped(sform', SCard) /\ redeeming' \in RedemptionForms
      /\ Editing(SCard) =>
           /\ sform'.originalDeposit = sform.originalDeposit /\ sform'.editedUSD = sform.editedUSD
           /\ sform'.changePending <=>
                IF sown'.id = "stability-deposit" THEN SWaiting(sown') ELSE sform.changePending
      /\ spage # "redemption" => redeeming' = redeeming
      /\ spage = "redemption" =>
           (redeeming'.changePending <=>
              IF sown'.id = "redemption" THEN SWaiting(sown') ELSE redeeming.changePending)
  <2> DEFINE t == sown'
  <2>1. t \in StabilityTxs /\ CardsSee(t) /\ t.type # sown.type
    OBVIOUS
  <2> QED BY <2>1, SeenByCards
<1>2. FlagsAgree'
  <2>1. Editing(SCard) /\ sform'.changePending => Under("stability-deposit", sown')
    BY <1>1 DEF Followed, FlagsAgree, Under
  <2>2. IF spage = "redemption" THEN redeeming'.changePending <=> Under("redemption", sown')
        ELSE redeeming' = NoRedemption
    BY <1>1 DEF Followed, FlagsAgree, Under
  <2>3. /\ SWaiting(sown') => sown'.id # "none"
        /\ sown'.type = "waitingForApproval" => sown'.fate = "none"
    BY DEF SWaiting
  <2> QED BY <1>1, <2>1, <2>2, <2>3 DEF FlagsAgree
<1>3. ReleasedByItsResult'
  BY <1>1 DEF ReleasedByItsResult, Under, Untouched
<1>4. SendsWhatIsWanted'
  BY <1>1, <1>2 DEF SendsWhatIsWanted, FlagsAgree, Untouched
<1>5. CutsStayCut' /\ AsksForWanted'
  BY <1>1 DEF Followed, CutsStayCut, AsksForWanted, Untouched
<1> QED BY <1>2, <1>3, <1>4, <1>5 DEF Followed

\* The answer of the wallet, and the end of a transaction that was not confirmed.
LEMMA AnswersKeepPanelInv == PanelInv /\ (DepositWalletAnswers \/ DepositFails) => PanelInv'
<1> SUFFICES ASSUME PanelInv, DepositWalletAnswers \/ DepositFails PROVE PanelInv'
  OBVIOUS
<1>1. /\ StabilityTypeOK /\ sown \in StabilityTxs /\ saside \in SUBSET StabilityTxs
      /\ CardsSee(sown') /\ SWaiting(sown)
      /\ UNCHANGED <<deposit, readDeposit, spage, sview, sbusy, depositSends, liquidationsSeen,
                     wanted, retyped, interfered>>
  BY DEF PanelInv, StabilityTypeOK, DepositWalletAnswers, DepositFails, SWaiting
<1>2. PICK type \in {"waitingForConfirmation", "failed", "cancelled"} :
        /\ sown' = [sown EXCEPT !.type = type] /\ type # sown.type
        /\ type = "waitingForConfirmation" => sown.type = "waitingForApproval"
        /\ \/ UNCHANGED <<saside, sovertaken>>
           \/ saside' = saside \cup {sown} /\ sovertaken' = TRUE
  <2>1. CASE DepositWalletAnswers
    BY <2>1 DEF DepositWalletAnswers
  <2>2. CASE DepositFails
    BY <2>2 DEF DepositFails
  <2> QED BY <2>1, <2>2
<1>3. /\ sown' \in StabilityTxs /\ sown'.id = sown.id /\ sown'.change = sown.change
      /\ sown'.fate = sown.fate /\ sown'.type = type
  BY <1>1, <1>2 DEF StabilityTxs
<1>4. saside' \in SUBSET StabilityTxs /\ sovertaken' \in BOOLEAN
  BY <1>1, <1>2 DEF PanelInv, StabilityTypeOK
<1>5. SCard' = SCard /\ FormTyped(sform', SCard) /\ redeeming' \in RedemptionForms
  <2> DEFINE t == sown'
  <2>1. t \in StabilityTxs /\ CardsSee(t)
    BY <1>1, <1>3
  <2> QED BY <1>1, <2>1, SeenByCards
<1>6. StabilityTypeOK'
  BY <1>1, <1>3, <1>4, <1>5 DEF StabilityTypeOK
<1>7. SUFFICES ASSUME ~sovertaken' PROVE Followed'
  BY <1>6 DEF PanelInv
<1>8. /\ ~sovertaken /\ Followed /\ saside' = {} /\ sown.id # "none"
  BY <1>1, <1>2, <1>7 DEF PanelInv, Followed, FlagsAgree
<1>9. sown'.fate = "none" \/ ~SWaiting(sown')
  BY <1>2, <1>3, <1>8 DEF Followed, FlagsAgree, SWaiting
<1>10. Untouched /\ wanted.amount < 0 /\ Under("stability-deposit", sown') => sown'.change.amount < 0
  <2>1. SWaiting(sown') => sown.fate = "none"
    BY <1>3, <1>9
  <2> QED BY <1>1, <1>3, <1>8, <2>1 DEF Followed, ReleasedByItsResult, SendsWhatIsWanted, Under
<1>11. SWaiting(sown') => ~sbusy'
  BY <1>1, <1>8 DEF Followed
<1> QED BY <1>1, <1>2, <1>3, <1>8, <1>9, <1>10, <1>11, CardsKeepFollowed

\* A state that is written replaces nothing, or overtakes a transaction.
LEMMA WrittenTx ==
  ASSUME StabilityTypeOK, NEW t \in StabilityTxs, NEW others \in SUBSET StabilityTxs,
         SWrite(t, others), UNCHANGED <<spage, sview>>
  PROVE  /\ sown' \in StabilityTxs /\ saside' \in SUBSET StabilityTxs
         /\ sbusy' \in BOOLEAN /\ sovertaken' \in BOOLEAN
         /\ SCard' = SCard /\ FormTyped(sform', SCard) /\ redeeming' \in RedemptionForms
         /\ ~sovertaken' =>
              /\ ~sovertaken /\ ~SWaiting(sown) /\ ~sbusy'
              /\ sown' = t /\ saside' = others /\ CardsSee(sown')
<1>1. /\ sown \in StabilityTxs /\ sbusy \in BOOLEAN /\ sovertaken \in BOOLEAN
      /\ NoStabilityTx \in StabilityTxs
  BY MountedForms DEF StabilityTypeOK
<1>2. SCard' = SCard /\ FormTyped(sform', SCard) /\ redeeming' \in RedemptionForms
  BY SeenByCards DEF SWrite
<1>3. sovertaken' \in BOOLEAN /\ (~sovertaken' => ~sovertaken /\ ~SWaiting(sown) /\ ~sbusy)
  BY <1>1 DEF SWrite, SWaiting
<1>4. sown' \in StabilityTxs /\ saside' \in SUBSET StabilityTxs /\ sbusy' = FALSE
  BY <1>1 DEF SWrite, SKept
<1>5. ~sovertaken' => sown' = t /\ saside' = others
  BY <1>3 DEF SWrite, SMonitored, SWaiting, SKept
<1>6. sbusy' \in BOOLEAN /\ ~sbusy'
  BY <1>4, Zenon
<1>7. ~sovertaken' => CardsSee(sown')
  BY <1>5 DEF SWrite
<1> QED BY <1>2, <1>3, <1>4, <1>5, <1>6, <1>7

\* A late answer is one to a transaction that was overtaken.
LEMMA LateAnswerKeepsPanelInv == PanelInv /\ DepositLateAnswer => PanelInv'
<1> SUFFICES ASSUME PanelInv, DepositLateAnswer PROVE PanelInv'
  OBVIOUS
<1>1. PICK t \in saside, type \in {"waitingForConfirmation", "failed", "cancelled"} :
        SWrite([t EXCEPT !.type = type], saside \ {t})
  BY DEF DepositLateAnswer
<1>2. /\ StabilityTypeOK /\ t \in StabilityTxs /\ saside \ {t} \in SUBSET StabilityTxs
      /\ UNCHANGED <<deposit, readDeposit, spage, sview, depositSends, liquidationsSeen, wanted,
                     retyped, interfered>>
  BY <1>1 DEF PanelInv, StabilityTypeOK, DepositLateAnswer
<1> DEFINE u == [t EXCEPT !.type = type]
<1>3. u \in StabilityTxs
  BY <1>2 DEF StabilityTxs
<1> HIDE DEF u
<1>4. SWrite(u, saside \ {t})
  BY <1>1 DEF u
<1>5. /\ sown' \in StabilityTxs /\ saside' \in SUBSET StabilityTxs
      /\ sbusy' \in BOOLEAN /\ sovertaken' \in BOOLEAN
      /\ SCard' = SCard /\ FormTyped(sform', SCard) /\ redeeming' \in RedemptionForms
      /\ ~sovertaken' => ~sovertaken
  BY <1>2, <1>3, <1>4, WrittenTx
<1>6. StabilityTypeOK'
  BY <1>2, <1>5 DEF StabilityTypeOK
<1>7. sovertaken
  BY <1>1 DEF PanelInv, Followed
<1> QED BY <1>5, <1>6, <1>7 DEF PanelInv

\* What is sent puts the overlay over its own card only.
LEMMA SentTx ==
  ASSUME PanelInv, NEW id \in {"stability-deposit", "redemption"}, NEW change \in DepositChanges,
         SendStability(id, change),
         Untouched /\ ~sovertaken /\ wanted.amount < 0 /\ id = "stability-deposit" => change.amount < 0
  PROVE  PanelInv'
<1> DEFINE t == StabilityTx(depositSends + 1, "waitingForApproval", id, change, "none")
<1>1. /\ StabilityTypeOK /\ depositSends \in Nat /\ saside \in SUBSET StabilityTxs
      /\ depositSends' = depositSends + 1 /\ SWrite(t, saside) /\ retyped' = FALSE
      /\ UNCHANGED <<deposit, readDeposit, spage, sview, liquidationsSeen, wanted, interfered>>
  BY DEF PanelInv, StabilityTypeOK, SendStability
<1>2. /\ t \in StabilityTxs /\ t.id = id /\ t.change = change /\ t.fate = "none"
      /\ t.type = "waitingForApproval"
  BY <1>1 DEF StabilityTx, StabilityTxs
<1> HIDE DEF t
<1>3. /\ sown' \in StabilityTxs /\ saside' \in SUBSET StabilityTxs
      /\ sbusy' \in BOOLEAN /\ sovertaken' \in BOOLEAN
      /\ SCard' = SCard /\ FormTyped(sform', SCard) /\ redeeming' \in RedemptionForms
      /\ ~sovertaken' =>
           /\ ~sovertaken /\ ~SWaiting(sown) /\ ~sbusy'
           /\ sown' = t /\ saside' = saside /\ CardsSee(sown')
  BY <1>1, <1>2, WrittenTx
<1>4. depositSends' \in Nat
  BY <1>1
<1>5. retyped' \in BOOLEAN
  BY <1>1, Zenon
<1>6. StabilityTypeOK'
  BY <1>1, <1>3, <1>4, <1>5 DEF StabilityTypeOK
<1>7. SUFFICES ASSUME ~sovertaken' PROVE Followed'
  BY <1>6 DEF PanelInv
<1>8. Followed /\ saside' = {}
  BY <1>3, <1>7 DEF PanelInv, Followed
<1>9. sown'.type # sown.type
  BY <1>2, <1>3, <1>7 DEF SWaiting
<1>10. Untouched /\ wanted.amount < 0 /\ Under("stability-deposit", sown') => sown'.change.amount < 0
  BY <1>2, <1>3, <1>7 DEF Under
<1> QED BY <1>1, <1>2, <1>3, <1>7, <1>8, <1>9, <1>10, CardsKeepFollowed

\* The three ways to send: a change of the deposit, a claim and a redemption.
LEMMA SendKeepsPanelInv == PanelInv /\ SendFromCards => PanelInv'
<1> SUFFICES ASSUME PanelInv, SendFromCards PROVE PanelInv'
  OBVIOUS
<1> DEFINE d == sform.originalDeposit
           k == depositChange(d, sform.editedUSD)
<1>1. CASE CanSendDeposit /\ SendStability("stability-deposit", k)
  <2>1. /\ sform.mounted /\ k.amount # 0 /\ Editing(SCard)
        /\ d \in Deposits /\ d.currentTHUSD \in Nat /\ sform.editedUSD \in Nat
    BY <1>1, FormFacts DEF CanSendDeposit, ValidDepositChange, PanelInv
  <2>2. k \in DepositChanges /\ k.amount = sform.editedUSD - d.currentTHUSD
    BY <2>1, TypedChange
  <2> HIDE DEF k
  <2>3. Untouched /\ ~sovertaken /\ wanted.amount < 0 => k.amount < 0
    <3>1. SUFFICES ASSUME Untouched, ~sovertaken, wanted.amount < 0 PROVE k.amount < 0
      OBVIOUS
    <3>2. sform.editedUSD = applyDepositChange(d, wanted)
      BY <3>1 DEF PanelInv, Followed, AsksForWanted
    <3>3. sform.editedUSD <= d.currentTHUSD
      BY <2>1, <3>1, <3>2, AppliedChange DEF PanelInv, StabilityTypeOK
    <3> QED BY <2>1, <2>2, <3>3
  <2> QED BY <1>1, <2>2, <2>3, SentTx
<1>2. CASE sview = "ACTIVE" /\ spage = "earn" /\ SendStability("stability-deposit", NoDepositChange)
  <2>1. NoDepositChange \in DepositChanges
    BY DEF NoDepositChange, DepositChanges
  <2>2. ~Untouched
    BY <1>2 DEF Untouched, Editing, SCard
  <2> QED BY <1>2, <2>1, <2>2, SentTx
<1>3. CASE SendStability("redemption", [amount |-> redeeming.amount, withdrawAll |-> FALSE])
  <2> DEFINE c == [amount |-> redeeming.amount, withdrawAll |-> FALSE]
  <2>1. c \in DepositChanges
    BY DEF DepositChanges, PanelInv, StabilityTypeOK, RedemptionForms
  <2> HIDE DEF c
  <2>2. SendStability("redemption", c)
    BY <1>3 DEF c
  <2> QED BY <2>1, <2>2, SentTx
<1> QED BY <1>1, <1>2, <1>3 DEF SendFromCards

\* A card that is mounted asks for nothing, and sees a transaction under way.
LEMMA MountKeepsFollowed ==
  ASSUME StabilityTypeOK, Followed, UNCHANGED <<deposit, sown, saside, sbusy>>,
         wanted' = NoDepositChange,
         sform' = MountedManager(SCard', readDeposit, sown),
         IF spage' = "redemption" THEN redeeming'.changePending <=> Under("redemption", sown)
         ELSE redeeming' = NoRedemption
  PROVE  Followed'
<1>1. readDeposit \in Deposits /\ readDeposit.currentTHUSD \in Nat
  BY DEF StabilityTypeOK, Deposits
<1> DEFINE v == SCard'
<1>2. /\ wanted' \in DepositChanges /\ wanted'.amount = 0
      /\ Editing(v) => /\ sform'.originalDeposit = readDeposit
                       /\ sform'.editedUSD = readDeposit.currentTHUSD
                       /\ sform'.changePending <=> Under("stability-deposit", sown)
  BY <1>1, MountedForms
<1>3. FlagsAgree'
  BY <1>2 DEF Followed, FlagsAgree, Under
<1>4. ReleasedByItsResult'
  BY <1>2 DEF ReleasedByItsResult, Untouched, Under
<1>5. SendsWhatIsWanted' /\ CutsStayCut'
  BY <1>2 DEF SendsWhatIsWanted, CutsStayCut
<1>6. AsksForWanted'
  BY <1>1, <1>2, AppliedChange DEF AsksForWanted, Untouched
<1> QED BY <1>3, <1>4, <1>5, <1>6 DEF Followed

\* The buttons of the deposit's cards.
LEMMA PressKeepsPanelInv == PanelInv /\ PressStability => PanelInv'
<1> SUFFICES ASSUME PanelInv, PressStability PROVE PanelInv'
  OBVIOUS
<1>1. /\ UNCHANGED <<deposit, readDeposit, spage, redeeming, sown, saside, sbusy, depositSends,
                     liquidationsSeen, retyped, sovertaken>>
      /\ wanted' = NoDepositChange /\ StabilityTypeOK /\ spage = "earn"
  BY DEF PanelInv, PressStability, stxState
<1>2. wanted' \in DepositChanges /\ readDeposit \in Deposits
  BY <1>1 DEF NoDepositChange, DepositChanges, StabilityTypeOK
<1>3. interfered' \in BOOLEAN
  BY DEF PressStability
<1>4. PICK event \in StabilityButtons[sview] : StabilityDispatch(event, readDeposit, sown)
  BY DEF PressStability
<1>5. /\ sview' = stabilityTransition(sview, event)
      /\ sform' = IF sview' = sview THEN sform ELSE MountedManager(sview', readDeposit, sown)
  BY <1>4 DEF StabilityDispatch
<1>6. sview' \in Cards /\ (sview' = sview => ~Editing(sview))
  <2>1. sview \in Cards
    BY <1>1 DEF StabilityTypeOK
  <2>2. CASE sview = "NONE"
    BY <1>4, <1>5, <2>2 DEF stabilityTransition, Cards, Editing
  <2>3. CASE sview = "ACTIVE"
    BY <1>4, <1>5, <2>3 DEF stabilityTransition, Cards, Editing
  <2>4. CASE sview \in {"DEPOSITING", "ADJUSTING"}
    <3>1. event = "CANCEL_PRESSED"
      BY <1>4, <2>4 DEF StabilityButtons
    <3> QED BY <1>5, <2>4, <3>1 DEF stabilityTransition, Cards, Editing
  <2> QED BY <2>1, <2>2, <2>3, <2>4 DEF Cards
<1>7. SCard' = sview' /\ SCard = sview
  BY <1>1 DEF SCard
<1>8. /\ sform' = MountedManager(sview', readDeposit, sown) /\ FormTyped(sform', sview')
  <2> DEFINE v == sview'
  <2>1. /\ FormTyped(MountedManager(v, readDeposit, sown), v)
        /\ ~Editing(v) => MountedManager(v, readDeposit, sown) = NoManager
    BY <1>2, MountedForms
  <2>2. CASE sview' = sview
    BY <1>1, <1>5, <1>6, <1>7, <2>1, <2>2 DEF StabilityTypeOK, FormTyped
  <2>3. CASE sview' # sview
    BY <1>5, <2>1, <2>3
  <2> QED BY <2>2, <2>3
<1>9. StabilityTypeOK'
  BY <1>1, <1>2, <1>3, <1>6, <1>7, <1>8 DEF StabilityTypeOK
<1>10. SUFFICES ASSUME ~sovertaken, Followed PROVE Followed'
  BY <1>1, <1>9 DEF PanelInv
<1>11. IF spage' = "redemption" THEN redeeming'.changePending <=> Under("redemption", sown)
       ELSE redeeming' = NoRedemption
  BY <1>1, <1>10 DEF Followed, FlagsAgree
<1> QED BY <1>1, <1>7, <1>8, <1>10, <1>11, MountKeepsFollowed

\* Going to another page and loading it again.
LEMMA PagesKeepPanelInv ==
  \A page \in {"earn", "redemption", "elsewhere"} : PanelInv /\ GoTo(page) => PanelInv'
<1> SUFFICES ASSUME NEW page \in {"earn", "redemption", "elsewhere"}, PanelInv, GoTo(page)
             PROVE PanelInv'
  OBVIOUS
<1>1. /\ UNCHANGED <<deposit, readDeposit, sview, sown, saside, sbusy, depositSends,
                     liquidationsSeen, interfered, sovertaken>>
      /\ wanted' = NoDepositChange /\ retyped' = FALSE /\ spage' = page
      /\ sform' = IF page = "earn" THEN MountedManager(sview, readDeposit, sown) ELSE NoManager
      /\ redeeming' = IF page = "redemption" THEN MountedRedemption(sown) ELSE NoRedemption
      /\ StabilityTypeOK /\ readDeposit \in Deposits
  BY DEF PanelInv, StabilityTypeOK, GoTo, stxState
<1> DEFINE v == IF page = "earn" THEN sview ELSE "NONE"
<1>2. SCard' = v
  BY <1>1 DEF SCard
<1>3. sform' = MountedManager(v, readDeposit, sown)
  BY <1>1 DEF MountedManager
<1>4. /\ wanted' \in DepositChanges /\ FormTyped(sform', SCard') /\ redeeming' \in RedemptionForms
      /\ IF page = "redemption" THEN redeeming'.changePending <=> Under("redemption", sown)
         ELSE redeeming' = NoRedemption
  <2> HIDE DEF v
  <2>1. /\ FormTyped(MountedManager(v, readDeposit, sown), v)
        /\ NoDepositChange \in DepositChanges
        /\ NoRedemption \in RedemptionForms /\ MountedRedemption(sown) \in RedemptionForms
        /\ MountedRedemption(sown).changePending <=> Under("redemption", sown)
    BY <1>1, MountedForms
  <2> QED BY <1>1, <1>2, <1>3, <2>1
<1>5. retyped' \in BOOLEAN
  BY <1>1, Zenon
<1>6. StabilityTypeOK'
  BY <1>1, <1>4, <1>5 DEF StabilityTypeOK
<1> QED BY <1>1, <1>2, <1>3, <1>4, <1>6, MountKeepsFollowed DEF PanelInv

\* After a reload nothing is followed, and nothing is asked for.
LEMMA ReloadKeepsPanelInv == PanelInv /\ ReloadStability => PanelInv'
<1> SUFFICES ASSUME PanelInv, ReloadStability PROVE PanelInv'
  OBVIOUS
<1>1. /\ sview' \in Cards /\ ~Editing(sview') /\ sform' = NoManager /\ redeeming' = NoRedemption
      /\ sown' = NoStabilityTx /\ sbusy' = FALSE
      /\ wanted' = NoDepositChange /\ retyped' = FALSE /\ interfered' = FALSE
      /\ sovertaken' = (saside' # {})
      /\ UNCHANGED <<deposit, readDeposit, spage, depositSends, liquidationsSeen>>
      /\ StabilityTypeOK /\ readDeposit \in Deposits
  BY DEF PanelInv, StabilityTypeOK, ReloadStability, Cards, Editing
<1>2. saside' \in SUBSET StabilityTxs
  <2>1. \A t \in StabilityTxs : [t EXCEPT !.type = "waitingForConfirmation"] \in StabilityTxs
    BY DEF StabilityTxs
  <2> QED BY <1>1, <2>1 DEF StabilityTypeOK, ReloadStability
<1>3. ~Editing(SCard') /\ FormTyped(sform', SCard')
  BY <1>1 DEF SCard, Editing, FormTyped
<1>4. /\ sown' \in StabilityTxs /\ ~SWaiting(sown') /\ sown'.type = "idle"
      /\ wanted' \in DepositChanges
      /\ redeeming' \in RedemptionForms /\ ~redeeming'.changePending
  BY <1>1, MountedForms
<1>5. sbusy' \in BOOLEAN /\ retyped' \in BOOLEAN /\ interfered' \in BOOLEAN /\ sovertaken' \in BOOLEAN
  BY <1>1, Zenon
<1>6. StabilityTypeOK'
  BY <1>1, <1>2, <1>3, <1>4, <1>5 DEF StabilityTypeOK
<1>7. /\ FlagsAgree' /\ ReleasedByItsResult' /\ SendsWhatIsWanted' /\ CutsStayCut' /\ AsksForWanted'
  BY <1>1, <1>3, <1>4 DEF FlagsAgree, ReleasedByItsResult, SendsWhatIsWanted, CutsStayCut, AsksForWanted,
                          Under, Untouched
<1>8. ~sovertaken' => saside' = {}
  BY <1>1
<1> QED BY <1>4, <1>6, <1>7, <1>8 DEF PanelInv, Followed

\* A confirmation takes the form or the redemption back.
LEMMA ReceiptKeepsPanelInv == PanelInv /\ DepositReceipt => PanelInv'
<1> SUFFICES ASSUME PanelInv, DepositReceipt PROVE PanelInv'
  OBVIOUS
<1>1. /\ UNCHANGED <<deposit, readDeposit, spage, saside, sbusy, depositSends, liquidationsSeen,
                     wanted, retyped, interfered, sovertaken>>
      /\ StabilityTypeOK /\ sown \in StabilityTxs /\ sown.type = "waitingForConfirmation"
      /\ SWaiting(sown) /\ sown.fate # "none"
  BY DEF PanelInv, StabilityTypeOK, DepositReceipt, SMonitored, SWaiting
<1>2. CASE sown.fate # "succeeded"
  <2>1. sown' = [sown EXCEPT !.fate = "asked"] /\ UNCHANGED <<sview, sform, redeeming>>
    BY <1>2 DEF DepositReceipt
  <2>2. /\ sown' \in StabilityTxs /\ sown'.id = sown.id /\ sown'.change = sown.change
        /\ sown'.type = sown.type /\ sown'.fate = "asked"
    BY <1>1, <2>1 DEF StabilityTxs
  <2>3. StabilityTypeOK'
    BY <1>1, <2>1, <2>2 DEF StabilityTypeOK, SCard
  <2>4. Followed => Followed'
    BY <1>1, <1>2, <2>1, <2>2 DEF Followed, FlagsAgree, ReleasedByItsResult, SendsWhatIsWanted,
           AsksForWanted, CutsStayCut, Under, Untouched, SCard, SWaiting
  <2> QED BY <1>1, <2>3, <2>4 DEF PanelInv
<1>3. CASE sown.fate = "succeeded"
  <2>1. /\ sown' = [sown EXCEPT !.type = "confirmed"]
        /\ redeeming' = IF sown.id = "redemption" THEN NoRedemption ELSE redeeming
    BY <1>3 DEF DepositReceipt
  <2>2. /\ sown' \in StabilityTxs /\ ~SWaiting(sown') /\ sown'.type = "confirmed"
    BY <1>1, <2>1 DEF StabilityTxs, SWaiting
  <2>3. redeeming' \in RedemptionForms /\ NoRedemption.changePending = FALSE
    BY <1>1, <2>1 DEF StabilityTypeOK, NoRedemption, RedemptionForms
  <2>4. CASE sown.id = "stability-deposit" /\ sform.mounted
    <3>1. Editing(sview) /\ spage = "earn" /\ Editing(SCard)
      BY <1>1, <2>4, FormFacts DEF SCard, Editing
    <3>2. StabilityDispatch("DEPOSIT_CONFIRMED", readDeposit, sown')
      BY <1>3, <2>4 DEF DepositReceipt
    <3>3. sview' = "ACTIVE"
      BY <3>1, <3>2 DEF StabilityDispatch, stabilityTransition, Editing
    <3>4. sform' = NoManager
      BY <3>1, <3>2, <3>3 DEF StabilityDispatch, MountedManager, Editing
    <3>5. /\ sview' \in Cards /\ ~Editing(SCard') /\ FormTyped(sform', SCard')
      BY <3>3, <3>4 DEF Cards, Editing, SCard, FormTyped
    <3>6. StabilityTypeOK'
      BY <1>1, <2>2, <2>3, <3>5 DEF StabilityTypeOK
    <3>7. FlagsAgree => FlagsAgree'
      BY <1>1, <2>1, <2>2, <2>4, <3>1, <3>5 DEF FlagsAgree, Under
    <3>8. ReleasedByItsResult' /\ SendsWhatIsWanted' /\ CutsStayCut' /\ AsksForWanted'
      BY <3>5 DEF ReleasedByItsResult, SendsWhatIsWanted, CutsStayCut, AsksForWanted, Untouched
    <3> QED BY <1>1, <2>2, <3>6, <3>7, <3>8 DEF PanelInv, Followed
  <2>5. CASE ~(sown.id = "stability-deposit" /\ sform.mounted)
    <3>1. UNCHANGED <<sview, sform>> /\ SCard' = SCard
      BY <1>1, <1>3, <2>5 DEF DepositReceipt, SCard
    <3>2. StabilityTypeOK'
      BY <1>1, <2>2, <2>3, <3>1 DEF StabilityTypeOK
    <3>3. SUFFICES ASSUME Followed PROVE Followed'
      BY <1>1, <3>2 DEF PanelInv
    <3>4. ~(Editing(SCard) /\ sform.changePending)
      BY <1>1, <2>5, <3>3, FormFacts DEF Followed, FlagsAgree, Under
    <3>5. FlagsAgree'
      BY <1>1, <2>1, <2>2, <2>3, <3>1, <3>3, <3>4 DEF Followed, FlagsAgree, Under
    <3>6. ReleasedByItsResult' /\ SendsWhatIsWanted'
      BY <1>1, <2>2, <3>1, <3>4 DEF ReleasedByItsResult, SendsWhatIsWanted, Under, Untouched
    <3>7. AsksForWanted' /\ CutsStayCut'
      BY <1>1, <3>1, <3>3 DEF Followed, AsksForWanted, CutsStayCut, Untouched
    <3> QED BY <1>1, <2>2, <3>3, <3>5, <3>6, <3>7 DEF Followed
  <2> QED BY <2>4, <2>5
<1> QED BY <1>2, <1>3

\* The invariant holds when the panel is loaded.
LEMMA PanelInvHoldsAtFirst == StabilityPanelInit => PanelInv
<1> SUFFICES ASSUME StabilityPanelInit PROVE PanelInv
  OBVIOUS
<1>1. deposit \in Deposits /\ readDeposit \in Deposits
  BY DEF StabilityPanelInit, StabilityDeposit, Deposits
<1>2. sview \in Cards /\ ~Editing(SCard) /\ sform = NoManager
  BY DEF StabilityPanelInit, Cards, Editing, SCard
<1>3. /\ sown \in StabilityTxs /\ ~SWaiting(sown) /\ sown.type = "idle"
      /\ wanted \in DepositChanges
      /\ redeeming \in RedemptionForms /\ ~redeeming.changePending
  BY <1>1, MountedForms DEF StabilityPanelInit
<1>4. StabilityTypeOK
  BY <1>1, <1>2, <1>3 DEF StabilityPanelInit, StabilityTypeOK, FormTyped
<1>5. /\ FlagsAgree /\ ReleasedByItsResult /\ SendsWhatIsWanted /\ CutsStayCut /\ AsksForWanted
  BY <1>2, <1>3 DEF StabilityPanelInit, FlagsAgree, ReleasedByItsResult, SendsWhatIsWanted,
                    CutsStayCut, AsksForWanted, Under, Untouched
<1> QED BY <1>3, <1>4, <1>5 DEF StabilityPanelInit, PanelInv, Followed

\* StabilityPanelAgrees, for every set of amounts and every number of sends and
\* liquidations, however pages change and transactions fail or are lost: the form asks
\* for what was typed, nothing is sent twice, and no overlay is left behind, until
\* another use of the shared state overtakes a transaction of the cards.
THEOREM DepositPanelAlwaysAgrees == StabilityPanelSpec => []StabilityPanelAgrees
<1>1. PanelInv /\ [StabilityPanelNext]_stabilityVars => PanelInv'
  <2> SUFFICES ASSUME PanelInv, [StabilityPanelNext]_stabilityVars PROVE PanelInv'
    OBVIOUS
  <2>1. CASE UNCHANGED stabilityVars
    BY <2>1 DEF stabilityVars, stxState, PanelInv, Followed, StabilityTypeOK, FlagsAgree,
           ReleasedByItsResult, SendsWhatIsWanted, CutsStayCut, AsksForWanted, Under, Untouched, SCard
  <2>2. CASE StabilityPanelNext
    BY <2>2, PressKeepsPanelInv, PagesKeepPanelInv, ReloadKeepsPanelInv, EditDepositKeepsPanelInv,
       EditRedemptionKeepsPanelInv, SendKeepsPanelInv, AnswersKeepPanelInv, LateAnswerKeepsPanelInv,
       MinedKeepsPanelInv, MinedUnseenKeepsPanelInv, ReceiptKeepsPanelInv, TxEndsKeepsPanelInv,
       StoreUpdateKeepsPanelInv, LiquidationKeepsPanelInv
       DEF StabilityPanelNext
  <2> QED BY <2>1, <2>2
<1>2. PanelInv => StabilityPanelAgrees
  <2> SUFFICES ASSUME PanelInv PROVE StabilityPanelAgrees
    OBVIOUS
  <2>1. sform.mounted <=> Editing(SCard)
    BY FormFacts DEF PanelInv
  <2>2. CardsAreReleased
    BY <2>1 DEF PanelInv, Followed, FlagsAgree, CardsAreReleased, Under, NoRedemption
  <2>3. NothingIsSentTwice
    <3>1. SUFFICES ASSUME SWaiting(sown), ~interfered, ~sovertaken
                   PROVE  IF sown.id = "redemption" THEN ~CanSendRedemption
                          ELSE CanSendDeposit => retyped
      BY DEF NothingIsSentTwice
    <3>2. CASE sown.id = "redemption"
      BY <3>1, <3>2 DEF PanelInv, Followed, FlagsAgree, Under, CanSendRedemption, NoRedemption
    <3>3. CASE sown.id # "redemption"
      <4>1. sown.id = "stability-deposit"
        BY <3>1, <3>3 DEF PanelInv, Followed, FlagsAgree, StabilityTypeOK, StabilityTxs
      <4>2. SUFFICES ASSUME CanSendDeposit PROVE retyped
        BY <3>3
      <4>3. sform.mounted /\ ~sform.changePending
        BY <4>2 DEF CanSendDeposit, StabilityOverlay
      <4>4. retyped \/ sform.editedUSD = sform.originalDeposit.currentTHUSD
        BY <2>1, <3>1, <4>1, <4>3 DEF PanelInv, Followed, ReleasedByItsResult, Untouched, Under
      <4>5. /\ sform.originalDeposit.currentTHUSD \in Nat /\ sform.editedUSD \in Nat
            /\ depositChange(sform.originalDeposit, sform.editedUSD).amount # 0
        BY <2>1, <4>2, FormFacts DEF PanelInv, CanSendDeposit, ValidDepositChange
      <4>6. sform.editedUSD # sform.originalDeposit.currentTHUSD
        BY <4>5 DEF depositChange
      <4> QED BY <4>4, <4>6
    <3> QED BY <3>2, <3>3
  <2>4. WantedChangeIsKept
    BY <2>1 DEF WantedChangeIsKept, PanelInv, Followed, AsksForWanted, Untouched
  <2> QED BY <2>2, <2>3, <2>4 DEF StabilityPanelAgrees
<1> QED BY PanelInvHoldsAtFirst, <1>1, <1>2, PTL DEF StabilityPanelSpec

-----------------------------------------------------------------------------
(* The panel of a vault. *)

Views ==
  {"NONE", "LIQUIDATED", "REDEEMED", "OPENING", "ACTIVE", "ADJUSTING", "CLOSING", "CRASHED"}
OpenViews == {"ACTIVE", "ADJUSTING", "CLOSING"}
Statuses == {"nonExistent", "open", "closedByOwner", "closedByLiquidation", "closedByRedemption"}
TxIds ==
  {"none", "vault-creation", "vault-adjustment", "vault-closure", "vault-approve",
   "claim-coll-surplus"}
TrovePairs == [collateral : Int, debt : Int]
TroveParams ==
  [depositCollateral : Int, withdrawCollateral : Int, borrowTHUSD : Int, repayTHUSD : Int]

\* A vault that is open has the debt that pays for its liquidation.
VaultOK(v) ==
  /\ v = Vault(v.status, v.before, v.gain, v.allowance, v.surplus)
  /\ v.status \in Statuses /\ v.before \in TrovePairs /\ v.gain \in TrovePairs
  /\ v.status = "open" => v.before.debt >= THUSD_GAS_COMPENSATION /\ v.gain.debt >= 0

\* The card that is mounted: none while another page is shown.
VCard == IF onPage THEN view ELSE "AWAY"

\* The form belongs to the card, and that of Adjusting has seen the stored vault.
FormOK(card, f, v) ==
  /\ card = "OPENING" => \E x \in Nat, y \in Nat, m \in BOOLEAN : f = OpeningForm(x, y, m)
  /\ card = "ADJUSTING" =>
       v.status = "open" /\ \E x \in Int, y \in Nat : f = AdjustingForm(x, y, troveOf(v))
  /\ card = "CLOSING" => \E t \in TrovePairs, e \in TrovePairs, p \in BOOLEAN :
       f = ManagerForm(t, e, p) /\ (e = t \/ e = emptyTrove)
  /\ card \notin {"OPENING", "ADJUSTING", "CLOSING"} => f = NoForm

IsCreation(c) == c.type = "creation" /\ c.params \in TroveParams /\ c.params.borrowTHUSD >= 0
IsAdjustment(c) == c.type = "adjustment" /\ c.params \in TroveParams

\* What is sent under an id is a change of its kind.
TxOK(t) ==
  /\ t = OwnTx(t.n, t.type, t.id, t.change, t.fate)
  /\ t.id \in TxIds /\ (Waiting(t) => t.id # "none")
  /\ t.type = "waitingForApproval" => t.fate = "none"
  /\ t.id = "vault-creation" => IsCreation(t.change)
  /\ t.id = "vault-adjustment" => IsAdjustment(t.change)

\* A transaction that is not shown is still to be decided, and there is none unless the
\* panel was overtaken.
AsideKnown ==
  /\ \A t \in aside : TxOK(t) /\ Waiting(t)
  /\ ~overtaken => aside = {}

\* The view of a card that sent a change stays until the change is decided.
CardKnows ==
  ~overtaken /\ view # "CRASHED" /\ Waiting(own) =>
    /\ own.id = "vault-creation" => view = "OPENING"
    /\ own.id = "vault-adjustment" => view \in {"ADJUSTING", "CLOSING"}
    /\ own.id = "vault-closure" => view = "CLOSING"

\* The view is right about the vault, except that it turns when the monitor says so;
\* a creation that is confirmed was heard.
StatusKnown ==
  ~surprised /\ view # "CRASHED" =>
    /\ Settling => (view \in OpenViews <=> vault.status # "open")
    /\ ~Settling => (view \in OpenViews <=> vault.status = "open")
    /\ own.type = "confirmed" /\ own.id = "vault-creation" => view \in OpenViews

\* What the flag of VaultManager says of the transaction.
FlagKnows ==
  VCard = "CLOSING" /\ ~overtaken =>
    /\ form.changePending => Waiting(own) /\ ofVault(own)
    /\ Waiting(own) /\ Changes(own) => form.changePending \/ form.edited = form.original

\* An estimate that is awaited or taken is one of the change it was started for.
GasOK(g) ==
  /\ g = Gas(g.type, g.mounted, g.change, g.awaited, g.estimated)
  /\ g.mounted => /\ g.awaited \subseteq {g.change}
                  /\ g.type = "complete" => g.estimated = g.change

GasKnows ==
  /\ GasOK(gas)
  /\ gas.mounted => /\ form.kind \in {"opening", "adjusting"}
                    /\ gas.change = offeredChange(stored, form)

CardOK ==
  /\ view \in Views /\ onPage \in BOOLEAN /\ FormOK(VCard, form, stored)
  /\ TypedDifferencesAreKept /\ GasKnows

VaultInv ==
  /\ VaultOK(vault) /\ VaultOK(stored) /\ CardOK
  /\ TxOK(own) /\ AsideKnown
  /\ CardKnows /\ StatusKnown /\ FlagKnows

-----------------------------------------------------------------------------
\* The trove of a vault is a pair of integers, and one that is open has a net debt.
LEMMA TroveOfVault ==
  ASSUME NEW v, VaultOK(v)
  PROVE  /\ troveOf(v) \in TrovePairs
         /\ troveOf(v).collateral \in Int /\ netDebt(troveOf(v)) \in Int
         /\ v.status = "open" => netDebt(troveOf(v)) \in Nat
  <1>1. v.before \in TrovePairs /\ v.gain \in TrovePairs
    BY DEF VaultOK
  <1>2. troveOf(v) = [collateral |-> v.before.collateral + v.gain.collateral,
                      debt |-> v.before.debt + v.gain.debt]
    BY DEF troveOf, add, Trove
  <1>3. /\ v.before.collateral \in Int /\ v.gain.collateral \in Int
        /\ v.before.debt \in Int /\ v.gain.debt \in Int
    BY <1>1 DEF TrovePairs
  <1>4. THUSD_GAS_COMPENSATION \in Nat
    BY BaseAssumption
  <1>5. troveOf(v).debt = v.before.debt + v.gain.debt
    BY <1>2
  <1>6. troveOf(v) \in TrovePairs
    BY <1>2, <1>3 DEF TrovePairs
  <1>7. v.status = "open" => troveOf(v).debt >= THUSD_GAS_COMPENSATION
    BY <1>3, <1>4, <1>5 DEF VaultOK
  <1> QED
    BY <1>3, <1>4, <1>5, <1>6, <1>7 DEF TrovePairs, netDebt

\* The fees of the client are integers, and not negative for what is not.
LEMMA FeeTypes ==
  ASSUME NEW x \in Int
  PROVE  /\ applyFee(MINIMUM_BORROWING_RATE, x) \in Int
         /\ unapplyFee(MINIMUM_BORROWING_RATE, x) \in Int
         /\ mul(x, MINIMUM_BORROWING_RATE) \in Int
         /\ x >= 0 => /\ applyFee(MINIMUM_BORROWING_RATE, x) >= 0
                      /\ unapplyFee(MINIMUM_BORROWING_RATE, x) >= 0
                      /\ mul(x, MINIMUM_BORROWING_RATE) >= 0
  <1>1. DECIMAL_PRECISION \in Nat \ {0} /\ MINIMUM_BORROWING_RATE \in Nat
    BY BaseAssumption, RatesAssumption
  <1> DEFINE D == DECIMAL_PRECISION
             q == D + MINIMUM_BORROWING_RATE
  <1>2. q \in Nat \ {0} /\ D \in Nat \ {0}
    BY <1>1
  <1>3. \A a \in Int, b \in Nat \ {0} : a \div b \in Int /\ (a >= 0 => a \div b >= 0)
    OBVIOUS
  <1>4. \A a, b \in Int : a * b \in Int /\ (a >= 0 /\ b >= 0 => a * b >= 0)
    OBVIOUS
  <1> HIDE DEF D, q
  <1>5. x * q \in Int /\ (x >= 0 => x * q >= 0)
    BY <1>2, <1>4
  <1>6. x * D \in Int /\ (x >= 0 => x * D >= 0)
    BY <1>2, <1>4
  <1>7. x * MINIMUM_BORROWING_RATE \in Int /\ (x >= 0 => x * MINIMUM_BORROWING_RATE >= 0)
    BY <1>1, <1>4
  <1>8. x * D + q - 1 \in Int /\ (x >= 0 => x * D + q - 1 >= 0)
    BY <1>2, <1>6
  <1>9. applyFee(MINIMUM_BORROWING_RATE, x) = (x * q) \div D
    BY DEF applyFee, mul, D, q
  <1>10. mul(x, MINIMUM_BORROWING_RATE) = (x * MINIMUM_BORROWING_RATE) \div D
    BY DEF mul, D
  <1>11. unapplyFee(MINIMUM_BORROWING_RATE, x) = (x * D + q - 1) \div q
    BY <1>2 DEF unapplyFee, divCeil, D, q
  <1>12. (x * q) \div D \in Int /\ (x >= 0 => (x * q) \div D >= 0)
    BY <1>2, <1>3, <1>5
  <1>13. /\ (x * MINIMUM_BORROWING_RATE) \div D \in Int
         /\ x >= 0 => (x * MINIMUM_BORROWING_RATE) \div D >= 0
    BY <1>2, <1>3, <1>7
  <1>14. (x * D + q - 1) \div q \in Int /\ (x >= 0 => (x * D + q - 1) \div q >= 0)
    BY <1>2, <1>3, <1>8
  <1> QED
    BY <1>9, <1>10, <1>11, <1>12, <1>13, <1>14

\* A new vault is created, if anything.
LEMMA OpeningOffers ==
  ASSUME NEW v, NEW x \in Nat, NEW y \in Nat, NEW m,
         IsValid(v, offeredChange(v, OpeningForm(x, y, m)))
  PROVE  IsCreation(offeredChange(v, OpeningForm(x, y, m)))
  <1> DEFINE f == OpeningForm(x, y, m)
             debt == y + THUSD_GAS_COMPENSATION + mul(y, MINIMUM_BORROWING_RATE)
             c == offeredChange(v, f)
             rate == MINIMUM_BORROWING_RATE
  <1>1. f.kind = "opening" /\ f.collateral = x /\ f.borrow = y
    BY DEF OpeningForm
  <1>2. c = openingChange(f)
    BY <1>1 DEF offeredChange
  <1>3. mul(y, rate) \in Nat /\ THUSD_GAS_COMPENSATION \in Nat /\ MIN_NET_DEBT \in Nat
    BY FeeTypes, BaseAssumption
  <1>4. debt \in Nat /\ debt >= THUSD_GAS_COMPENSATION
    BY <1>3
  <1> HIDE DEF debt
  <1>5. c # NoChangeYet
    BY DEF IsValid, NoChangeYet, Change
  <1>6. c = whatChanged(emptyTrove, Trove(x, debt), rate)
    BY <1>1, <1>2, <1>5 DEF openingChange, debt
  <1> HIDE DEF c, f
  <1>7. emptyTrove # Trove(x, debt)
    <2>1. CASE emptyTrove = Trove(x, debt)
      <3>1. c = Change("same", NoParams, "none")
        BY <1>6, <2>1 DEF whatChanged
      <3> QED
        BY <1>5, <3>1 DEF NoChangeYet
    <2> QED
      BY <2>1
  <1>8. Trove(x, debt).debt = debt /\ Trove(x, debt).collateral = x
    BY DEF Trove
  <1>9. ~(Trove(x, debt).debt < THUSD_GAS_COMPENSATION)
    BY <1>3, <1>4, <1>8
  <1>10. c = Change("creation",
              [NoParams EXCEPT !.depositCollateral = x,
                               !.borrowTHUSD = unapplyFee(rate, netDebt(Trove(x, debt)))],
              "none")
    BY <1>6, <1>7, <1>8, <1>9 DEF whatChanged, isEmpty
  <1> DEFINE b == unapplyFee(rate, netDebt(Trove(x, debt)))
  <1>11. netDebt(Trove(x, debt)) \in Int /\ netDebt(Trove(x, debt)) >= 0
    BY <1>3, <1>4, <1>8 DEF netDebt
  <1>12. b \in Int /\ b >= 0
    BY <1>11, FeeTypes
  <1> HIDE DEF b
  <1>13. c.type = "creation"
    BY <1>10 DEF Change
  <1>14. c.params = [depositCollateral |-> x, withdrawCollateral |-> 0, borrowTHUSD |-> b,
                     repayTHUSD |-> 0]
    BY <1>10 DEF Change, NoParams, b
  <1>15. c.params \in TroveParams /\ c.params.borrowTHUSD = b
    BY <1>12, <1>14 DEF TroveParams
  <1> QED
    BY <1>12, <1>13, <1>15 DEF IsCreation, c, f

\* An open vault is adjusted, never closed: some debt stays.
LEMMA AdjustingOffers ==
  ASSUME NEW v, VaultOK(v), v.status = "open", NEW x \in Int, NEW y \in Nat, NEW previous,
         IsValid(v, offeredChange(v, AdjustingForm(x, y, previous)))
  PROVE  IsAdjustment(offeredChange(v, AdjustingForm(x, y, previous)))
  <1> DEFINE f == AdjustingForm(x, y, previous)
             trove == troveOf(v)
             rate == MINIMUM_BORROWING_RATE
             G == THUSD_GAS_COMPENSATION
             increased == Trove(trove.collateral, trove.debt + (y - netDebt(trove)))
             fee == IF y > netDebt(trove) THEN feeFrom(trove, increased) ELSE 0
             to == Trove(x, y + G + fee)
             c == offeredChange(v, f)
  <1>1. f.kind = "adjusting" /\ f.collateral = x /\ f.netDebt = y
    BY DEF AdjustingForm
  <1>2. c = adjustingChange(f, trove)
    BY <1>1 DEF offeredChange
  <1>3. c # NoChangeYet
    BY DEF IsValid, NoChangeYet, Change
  <1>4. c = whatChanged(trove, to, rate)
    BY <1>1, <1>2, <1>3 DEF adjustingChange
  <1>5. /\ trove \in TrovePairs /\ trove.collateral \in Int /\ trove.debt \in Int
        /\ G \in Nat \ {0} /\ netDebt(trove) \in Nat /\ trove.debt = netDebt(trove) + G
    <2>1. trove \in TrovePairs /\ trove.collateral \in Int /\ netDebt(trove) \in Nat
      BY TroveOfVault
    <2>2. G \in Nat \ {0}
      BY BaseAssumption
    <2>3. trove.debt \in Int
      BY <2>1 DEF TrovePairs
    <2> QED
      BY <2>1, <2>2, <2>3 DEF netDebt
  <1> HIDE DEF trove, c, f
  <1>6. ~isEmpty(trove)
    BY <1>5 DEF isEmpty, emptyTrove, Trove
  <1>7. fee \in Nat
    <2>1. CASE ~(y > netDebt(trove))
      BY <2>1
    <2>2. CASE y > netDebt(trove)
      <3> DEFINE more == trove.debt + (y - netDebt(trove))
                 k == whatChanged(trove, increased, rate)
      <3>1. more \in Int /\ more > trove.debt /\ more > 0
        BY <1>5, <2>2
      <3>2. increased.debt = more
        BY DEF Trove
      <3> HIDE DEF more, increased
      <3>3. trove # increased
        BY <1>5, <3>1, <3>2
      <3>4. ~isEmpty(increased)
        BY <3>1, <3>2 DEF isEmpty, emptyTrove, Trove
      <3>5. k.params = changedParams(trove, increased, rate)
        BY <1>6, <3>3, <3>4 DEF whatChanged, Change
      <3>6. k.params.borrowTHUSD = unapplyFee(rate, more - trove.debt)
        BY <1>5, <3>1, <3>2, <3>5 DEF changedParams
      <3>7. more - trove.debt \in Int /\ more - trove.debt >= 0
        BY <1>5, <3>1
      <3>8. unapplyFee(rate, more - trove.debt) \in Nat
        BY <3>7, FeeTypes
      <3>9. mul(unapplyFee(rate, more - trove.debt), rate) \in Nat
        BY <3>8, FeeTypes
      <3>10. feeFrom(trove, increased) \in Nat
        BY <3>6, <3>9 DEF feeFrom
      <3> QED
        BY <2>2, <3>10
    <2> QED
      BY <2>1, <2>2
  <1> HIDE DEF fee
  <1>8. y + G + fee \in Nat \ {0}
    BY <1>5, <1>7
  <1>9. to.debt = y + G + fee /\ to.collateral = x
    BY DEF Trove
  <1>10. ~isEmpty(to)
    BY <1>8, <1>9 DEF isEmpty, emptyTrove, Trove
  <1> HIDE DEF to
  <1>11. trove # to
    <2>1. CASE trove = to
      <3>1. c = Change("same", NoParams, "none")
        BY <1>4, <2>1 DEF whatChanged
      <3> QED
        BY <1>3, <3>1 DEF NoChangeYet
    <2> QED
      BY <2>1
  <1>12. c.type = "adjustment" /\ c.params = changedParams(trove, to, rate)
    BY <1>4, <1>6, <1>10, <1>11 DEF whatChanged, Change
  <1>13. changedParams(trove, to, rate) \in TroveParams
    <2>1. to.collateral \in Int /\ to.debt \in Int
      BY <1>8, <1>9
    <2>2. \A a, b \in Int : MaxOf(a - b, 0) \in Int
      BY DEF MaxOf
    <2>3. /\ MaxOf(to.collateral - trove.collateral, 0) \in Int
          /\ MaxOf(trove.collateral - to.collateral, 0) \in Int
          /\ MaxOf(trove.debt - to.debt, 0) \in Int
      BY <1>5, <2>1, <2>2
    <2>4. (IF to.debt > trove.debt THEN unapplyFee(rate, to.debt - trove.debt) ELSE 0) \in Int
      <3>1. to.debt - trove.debt \in Int
        BY <1>5, <2>1
      <3> QED
        BY <3>1, FeeTypes
    <2> QED
      BY <2>3, <2>4 DEF changedParams, TroveParams
  <1> QED
    BY <1>12, <1>13 DEF IsAdjustment, c, f

\* VaultManager closes the vault or does nothing.
LEMMA ManagerOffers ==
  ASSUME NEW v, NEW t, NEW e, NEW p, e = t \/ e = emptyTrove
  PROVE  LET c == offeredChange(v, ManagerForm(t, e, p))
         IN  /\ c.type \in {"same", "closure"}
             /\ e = t => ~IsValid(v, c)
  <1> DEFINE f == ManagerForm(t, e, p)
             c == offeredChange(v, f)
  <1>1. f.kind = "manager" /\ f.original = t /\ f.edited = e
    BY DEF ManagerForm
  <1>2. c = whatChanged(t, e, MINIMUM_BORROWING_RATE)
    BY <1>1 DEF offeredChange
  <1> HIDE DEF c, f
  <1>3. CASE e = t
    <2>1. c = Change("same", NoParams, "none")
      BY <1>2, <1>3 DEF whatChanged
    <2>2. c.type = "same"
      BY <2>1 DEF Change
    <2>3. ~IsValid(v, c)
      BY <2>2 DEF IsValid
    <2> QED
      BY <2>2, <2>3 DEF c, f
  <1>4. CASE e # t
    <2>1. isEmpty(e) /\ ~isEmpty(t)
      BY <1>4 DEF isEmpty
    <2>2. c.type = "closure"
      BY <1>2, <1>4, <2>1 DEF whatChanged, Change
    <2> QED
      BY <1>4, <2>2 DEF c, f
  <1> QED
    BY <1>3, <1>4

\* A stored vault that changes under VaultManager leaves a closure or nothing.
LEMMA ManagerUpdates ==
  ASSUME NEW t \in TrovePairs, NEW e \in TrovePairs, NEW p \in BOOLEAN, e = t \/ e = emptyTrove,
         NEW before, NEW v, VaultOK(v)
  PROVE  \E e2 \in TrovePairs, p2 \in BOOLEAN :
           /\ managerUpdated(ManagerForm(t, e, p), before, v) = ManagerForm(troveOf(v), e2, p2)
           /\ e2 = troveOf(v) \/ e2 = emptyTrove
           /\ p2 => p
           /\ p \/ e = t => p2 \/ e2 = troveOf(v)
  <1> DEFINE f == ManagerForm(t, e, p)
             now == troveOf(v)
             k == whatChanged(t, e, 0)
             u == managerUpdated(f, before, v)
  <1>1. now \in TrovePairs
    BY TroveOfVault
  <1>2. f.original = t /\ f.edited = e /\ f.changePending = p
    BY DEF ManagerForm
  <1>3. emptyTrove \in TrovePairs
    BY DEF emptyTrove, Trove, TrovePairs
  <1> HIDE DEF now, f
  <1>4. CASE p /\ v.before # before
    <2>1. u = ManagerForm(now, now, FALSE)
      BY <1>2, <1>4 DEF managerUpdated, now
    <2> QED
      BY <1>1, <2>1 DEF f, now
  <1>5. CASE ~(p /\ v.before # before)
    <2>1. CASE e = t
      <3>1. k.type = "same"
        BY <2>1 DEF whatChanged, Change
      <3>2. apply(now, k, 0) = now
        BY <3>1 DEF apply
      <3>3. u = ManagerForm(now, now, p)
        BY <1>2, <1>5, <3>1, <3>2 DEF managerUpdated, now
      <3> QED
        BY <1>1, <3>3 DEF f, now
    <2>2. CASE e # t
      <3>1. isEmpty(e) /\ ~isEmpty(t)
        BY <2>2 DEF isEmpty
      <3>2. k.type = "closure"
        BY <2>2, <3>1 DEF whatChanged, Change
      <3>3. apply(now, k, 0) = emptyTrove
        BY <3>2 DEF apply
      <3>4. u = ManagerForm(now, now, p) \/ u = ManagerForm(now, emptyTrove, p)
        BY <1>2, <1>5, <3>2, <3>3 DEF managerUpdated, now
      <3> QED
        BY <1>1, <1>3, <2>2, <3>4 DEF f, now
    <2> QED
      BY <2>1, <2>2
  <1> QED
    BY <1>4, <1>5

\* The typed differences survive an update, and the debt stays a debt.
LEMMA AdjustingUpdates ==
  ASSUME NEW v, VaultOK(v), v.status = "open", NEW w, VaultOK(w), w.status = "open",
         NEW x \in Int, NEW y \in Nat
  PROVE  \E x2 \in Int, y2 \in Nat :
           /\ adjustingUpdated(AdjustingForm(x, y, troveOf(v)), troveOf(w))
                = AdjustingForm(x2, y2, troveOf(w))
           /\ x2 - troveOf(w).collateral \in {x - troveOf(v).collateral, 0}
           /\ y2 - netDebt(troveOf(w)) \in {y - netDebt(troveOf(v)), 0}
  <1> DEFINE f == AdjustingForm(x, y, troveOf(v))
             c == troveOf(v).collateral
             d == netDebt(troveOf(v))
             c2 == troveOf(w).collateral
             d2 == netDebt(troveOf(w))
             x2 == IF c = c2 THEN x ELSE applyUnsavedChanges(x, c, c2)
             y2 == IF d = d2 THEN y ELSE applyUnsavedChanges(y, d, d2)
  <1>1. c \in Int /\ d \in Nat /\ c2 \in Int /\ d2 \in Nat
    BY TroveOfVault
  <1>2. f.collateral = x /\ f.netDebt = y /\ f.previous = troveOf(v)
    BY DEF AdjustingForm
  <1>3. adjustingUpdated(f, troveOf(w)) = AdjustingForm(x2, y2, troveOf(w))
    BY <1>2 DEF adjustingUpdated
  <1> HIDE DEF c, d, c2, d2, f
  <1>4. x2 \in Int /\ x2 - c2 \in {x - c, 0}
    BY <1>1 DEF applyUnsavedChanges
  <1>5. y2 \in Nat /\ y2 - d2 \in {y - d, 0}
    BY <1>1 DEF applyUnsavedChanges
  <1> QED
    BY <1>3, <1>4, <1>5 DEF f, c, d, c2, d2

\* A valid adjustment leaves a vault that can pay for its liquidation.
LEMMA AdjustmentResult ==
  ASSUME NEW v, VaultOK(v), NEW k, IsAdjustment(k)
  PROVE  /\ apply(troveOf(v), k, MINIMUM_BORROWING_RATE) \in TrovePairs
         /\ IsValid(v, k) => apply(troveOf(v), k, MINIMUM_BORROWING_RATE).debt
                               >= THUSD_GAS_COMPENSATION
  <1> DEFINE rate == MINIMUM_BORROWING_RATE
             trove == troveOf(v)
             r == apply(trove, k, rate)
             p == k.params
             more == Trove(trove.collateral + p.depositCollateral,
                           trove.debt + applyFee(rate, p.borrowTHUSD))
             left == Trove(MaxOf(more.collateral - p.withdrawCollateral, 0),
                           MaxOf(more.debt - p.repayTHUSD, 0))
  <1>1. trove \in TrovePairs /\ k.type = "adjustment" /\ p \in TroveParams
    BY TroveOfVault DEF IsAdjustment
  <1>2. r = applyAdjustment(trove, k, rate)
    BY <1>1 DEF apply
  <1>3. /\ p.depositCollateral \in Int /\ p.withdrawCollateral \in Int
        /\ p.borrowTHUSD \in Int /\ p.repayTHUSD \in Int
    BY <1>1 DEF TroveParams
  <1>4. trove.collateral \in Int /\ trove.debt \in Int
    BY <1>1 DEF TrovePairs
  <1>5. applyFee(rate, p.borrowTHUSD) \in Int
    BY <1>3, FeeTypes
  <1>6. r = CASE k.setToZero = "collateral" -> [left EXCEPT !.collateral = 0]
              [] k.setToZero = "debt" -> [left EXCEPT !.debt = 0]
              [] OTHER -> left
    BY <1>2 DEF applyAdjustment, add, subtract, Trove
  <1>7. more \in TrovePairs
    BY <1>3, <1>4, <1>5 DEF Trove, TrovePairs
  <1> HIDE DEF more
  <1>8. left \in TrovePairs
    <2>1. more.collateral \in Int /\ more.debt \in Int
      BY <1>7 DEF TrovePairs
    <2>2. \A a, b \in Int : MaxOf(a - b, 0) \in Int
      BY DEF MaxOf
    <2>3. /\ MaxOf(more.collateral - p.withdrawCollateral, 0) \in Int
          /\ MaxOf(more.debt - p.repayTHUSD, 0) \in Int
      BY <1>3, <2>1, <2>2
    <2> QED
      BY <2>3 DEF Trove, TrovePairs
  <1> HIDE DEF left
  <1>9. r \in TrovePairs
    BY <1>6, <1>8 DEF TrovePairs
  <1>10. ASSUME IsValid(v, k) PROVE r.debt >= THUSD_GAS_COMPENSATION
    <2>1. r.debt >= MIN_NET_DEBT + THUSD_GAS_COMPENSATION
      BY <1>1, <1>10 DEF IsValid
    <2>2. r.debt \in Int
      BY <1>9 DEF TrovePairs
    <2> QED
      BY <2>1, <2>2, BaseAssumption
  <1> QED
    BY <1>9, <1>10

\* A vault that is created can pay for its liquidation.
LEMMA CreationResult ==
  ASSUME NEW trove, NEW k, IsCreation(k)
  PROVE  /\ apply(trove, k, MINIMUM_BORROWING_RATE) \in TrovePairs
         /\ apply(trove, k, MINIMUM_BORROWING_RATE).debt >= THUSD_GAS_COMPENSATION
  <1> DEFINE fee == applyFee(MINIMUM_BORROWING_RATE, k.params.borrowTHUSD)
             r == apply(trove, k, MINIMUM_BORROWING_RATE)
  <1>1. /\ k.type = "creation" /\ k.params.borrowTHUSD \in Int /\ k.params.borrowTHUSD >= 0
        /\ k.params.depositCollateral \in Int
    BY DEF IsCreation, TroveParams
  <1>2. r = Trove(k.params.depositCollateral, THUSD_GAS_COMPENSATION + fee)
    BY <1>1 DEF apply
  <1>3. fee \in Int /\ fee >= 0
    BY <1>1, FeeTypes
  <1>4. THUSD_GAS_COMPENSATION \in Nat
    BY BaseAssumption
  <1> HIDE DEF fee, r
  <1>5. r \in TrovePairs /\ r.debt = THUSD_GAS_COMPENSATION + fee
    BY <1>1, <1>2, <1>3, <1>4 DEF Trove, TrovePairs
  <1> QED
    BY <1>3, <1>4, <1>5 DEF r

\* A vault made of good parts is a good vault.
LEMMA MadeVault ==
  ASSUME NEW status \in Statuses, NEW before \in TrovePairs, NEW gain \in TrovePairs,
         NEW allowance, NEW surplus,
         status = "open" => before.debt >= THUSD_GAS_COMPENSATION /\ gain.debt >= 0
  PROVE  /\ VaultOK(Vault(status, before, gain, allowance, surplus))
         /\ Vault(status, before, gain, allowance, surplus).status = status
  BY DEF Vault, VaultOK

\* What the contracts do with a change opens, closes or keeps the vault.
LEMMA ExecutedVault ==
  ASSUME NEW v, VaultOK(v), NEW t, TxOK(t), Waiting(t)
  PROVE  /\ VaultOK(Executed(v, t))
         /\ t.id = "vault-creation" /\ Executed(v, t) # v =>
              v.status # "open" /\ Executed(v, t).status = "open"
         /\ t.id = "vault-closure" /\ Executed(v, t) # v =>
              v.status = "open" /\ Executed(v, t).status = "closedByOwner"
         /\ t.id \notin {"vault-creation", "vault-closure"} => Executed(v, t).status = v.status
  <1> DEFINE u == Executed(v, t)
             spent == t.change.params.depositCollateral
             result == apply(troveOf(v), t.change, MINIMUM_BORROWING_RATE)
  <1>0. emptyTrove \in TrovePairs /\ emptyTrove.debt = 0
    BY DEF emptyTrove, Trove, TrovePairs
  <1>1. t.id \in TxIds \ {"none"}
    BY DEF TxOK
  <1>2. v = Vault(v.status, v.before, v.gain, v.allowance, v.surplus)
    BY DEF VaultOK
  <1>3. CASE t.id = "vault-creation"
    <2>1. \/ u = v
          \/ /\ v.status # "open"
             /\ u = Vault("open", result, emptyTrove, v.allowance - spent, v.surplus)
      BY <1>3 DEF Executed
    <2>2. result \in TrovePairs /\ result.debt >= THUSD_GAS_COMPENSATION
      BY <1>3, CreationResult DEF TxOK
    <2>3. result.debt >= THUSD_GAS_COMPENSATION /\ emptyTrove.debt >= 0
      BY <1>0, <2>2
    <2> HIDE DEF result, u, spent
    <2>4. "open" \in Statuses
      BY DEF Statuses
    <2>5. LET w == Vault("open", result, emptyTrove, v.allowance - spent, v.surplus)
          IN  VaultOK(w) /\ w.status = "open"
      BY <1>0, <2>2, <2>3, <2>4, MadeVault
    <2>6. VaultOK(u) /\ (u # v => v.status # "open" /\ u.status = "open")
      BY <2>1, <2>5
    <2> QED
      BY <1>3, <2>6 DEF u
  <1>4. CASE t.id = "vault-closure"
    <2>1. \/ u = v
          \/ /\ v.status = "open"
             /\ u = Vault("closedByOwner", emptyTrove, emptyTrove, v.allowance, v.surplus)
      BY <1>4 DEF Executed
    <2> HIDE DEF u
    <2>2. "closedByOwner" \in Statuses
      BY DEF Statuses
    <2>3. LET w == Vault("closedByOwner", emptyTrove, emptyTrove, v.allowance, v.surplus)
          IN  VaultOK(w) /\ w.status = "closedByOwner"
      BY <1>0, <2>2, MadeVault
    <2>4. VaultOK(u) /\ (u # v => v.status = "open" /\ u.status = "closedByOwner")
      BY <2>1, <2>3
    <2> QED
      BY <1>4, <2>4 DEF u
  <1>5. CASE t.id = "vault-adjustment"
    <2>1. \/ u = v
          \/ /\ u = Vault("open", result, emptyTrove, v.allowance - spent, v.surplus)
             /\ v.status = "open" /\ IsValid(v, t.change)
      BY <1>5 DEF Executed
    <2>2. CASE u = v
      BY <1>5, <2>2
    <2>3. CASE u # v
      <3>1. /\ u = Vault("open", result, emptyTrove, v.allowance - spent, v.surplus)
            /\ v.status = "open" /\ IsValid(v, t.change)
        BY <2>1, <2>3
      <3>2. result \in TrovePairs /\ result.debt >= THUSD_GAS_COMPENSATION
        BY <1>5, <3>1, AdjustmentResult DEF TxOK
      <3>3. result.debt >= THUSD_GAS_COMPENSATION /\ emptyTrove.debt >= 0
        BY <1>0, <3>2
      <3> HIDE DEF result, u, spent
      <3>4. "open" \in Statuses
        BY DEF Statuses
      <3>5. VaultOK(u) /\ u.status = "open"
        BY <1>0, <3>1, <3>2, <3>3, <3>4, MadeVault
      <3> QED
        BY <1>5, <3>1, <3>5 DEF u
    <2> QED
      BY <2>2, <2>3
  <1>6. CASE t.id \in {"vault-approve", "claim-coll-surplus"}
    <2>1. u = v \/ u = [v EXCEPT !.allowance = spent] \/ u = [v EXCEPT !.surplus = FALSE]
      BY <1>6 DEF Executed
    <2>2. \E a, s : u = Vault(v.status, v.before, v.gain, a, s)
      BY <1>2, <2>1 DEF Vault
    <2> HIDE DEF u
    <2>3. VaultOK(u) /\ u.status = v.status
      <3>1. PICK a, s : u = Vault(v.status, v.before, v.gain, a, s)
        BY <2>2
      <3>2. /\ v.status \in Statuses /\ v.before \in TrovePairs /\ v.gain \in TrovePairs
            /\ v.status = "open" => v.before.debt >= THUSD_GAS_COMPENSATION /\ v.gain.debt >= 0
        BY DEF VaultOK
      <3> QED
        BY <3>1, <3>2, MadeVault
    <2> QED
      BY <1>6, <2>3 DEF u
  <1> QED
    BY <1>1, <1>3, <1>4, <1>5, <1>6 DEF TxIds

-----------------------------------------------------------------------------
\* The parts of an estimation.
LEMMA MadeGas ==
  ASSUME NEW ty, NEW m \in BOOLEAN, NEW k, NEW aw, NEW est
  PROVE  LET g == Gas(ty, m, k, aw, est)
         IN  /\ g = Gas(g.type, g.mounted, g.change, g.awaited, g.estimated)
             /\ g.type = ty /\ (g.mounted <=> m) /\ g.change = k /\ g.awaited = aw
             /\ g.estimated = est
  BY DEF Gas

\* No estimation is under way at first.
LEMMA NoGasOK == GasOK(NoGas) /\ ~NoGas.mounted
  BY DEF GasOK, NoGas, Gas

\* A form is shown with an estimate of its own change, or with none.
LEMMA ShownForm ==
  ASSUME NEW f, NEW v, NEW g, GasOK(g), ShowForm(f, v, g)
  PROVE  /\ form' = f /\ GasOK(gas')
         /\ gas'.mounted => f.kind \in {"opening", "adjusting"}
                            /\ gas'.change = offeredChange(v, f)
  <1> DEFINE k == offeredChange(v, f)
             valid == IsValid(v, k) /\ hasApproved(v, k)
  <1>1. form' = f
    BY DEF ShowForm
  <1>2. CASE f.kind \notin {"opening", "adjusting"}
    <2>1. gas' = NoGas
      BY <1>2 DEF ShowForm
    <2> QED
      BY <1>1, <2>1, NoGasOK
  <1>3. CASE f.kind \in {"opening", "adjusting"}
    <2>1. gas' = estimateGas(g, valid, k)
      BY <1>3 DEF ShowForm
    <2> HIDE DEF valid, k
    <2>2. CASE ~valid
      <3>1. gas' = [g EXCEPT !.mounted = FALSE, !.awaited = {}]
        BY <2>1, <2>2 DEF estimateGas
      <3>2. gas' = Gas(g.type, FALSE, g.change, {}, g.estimated)
        BY <3>1 DEF GasOK, Gas
      <3>3. ~gas'.mounted
        BY <3>2 DEF Gas
      <3>4. GasOK(gas')
        BY <3>2 DEF GasOK, Gas
      <3> QED
        BY <1>1, <3>3, <3>4
    <2>3. CASE valid /\ g.mounted /\ g.change = k
      <3>1. gas' = g
        BY <2>1, <2>3 DEF estimateGas
      <3> QED
        BY <1>1, <1>3, <2>3, <3>1 DEF k
    <2>4. CASE valid /\ ~(g.mounted /\ g.change = k)
      <3>1. gas' = Gas("inProgress", TRUE, k, {k}, NoChangeYet)
        BY <2>1, <2>4 DEF estimateGas
      <3>2. gas'.change = k /\ gas'.awaited = {k} /\ gas'.type = "inProgress"
        BY <3>1 DEF Gas
      <3>3. GasOK(gas')
        BY <3>1, <3>2 DEF GasOK, Gas
      <3> QED
        BY <1>1, <1>3, <3>2, <3>3 DEF k
    <2> QED
      BY <2>2, <2>3, <2>4
  <1> QED
    BY <1>2, <1>3

\* What each kind of form shows of itself.
LEMMA FormKinds ==
  ASSUME NEW card, NEW f, NEW v, FormOK(card, f, v)
  PROVE  /\ f.kind = "opening" <=> card = "OPENING"
         /\ f.kind = "adjusting" <=> card = "ADJUSTING"
         /\ f.kind = "manager" <=> card = "CLOSING"
  <1>1. card = "OPENING" => f.kind = "opening"
    BY DEF FormOK, OpeningForm
  <1>2. card = "ADJUSTING" => f.kind = "adjusting"
    BY DEF FormOK, AdjustingForm
  <1>3. card = "CLOSING" => f.kind = "manager"
    BY DEF FormOK, ManagerForm
  <1>4. card \notin {"OPENING", "ADJUSTING", "CLOSING"} => f.kind = "none"
    BY DEF FormOK, NoForm
  <1> QED
    BY <1>1, <1>2, <1>3, <1>4

\* The forms that cards are made with: Opening,
LEMMA OpeningFormOK ==
  ASSUME NEW v, NEW x \in Nat, NEW y \in Nat, NEW m \in BOOLEAN
  PROVE  FormOK("OPENING", OpeningForm(x, y, m), v)
  BY DEF FormOK

\* Adjusting,
LEMMA AdjustingFormOK ==
  ASSUME NEW v, v.status = "open", NEW x \in Int, NEW y \in Nat
  PROVE  /\ FormOK("ADJUSTING", AdjustingForm(x, y, troveOf(v)), v)
         /\ AdjustingForm(x, y, troveOf(v)).collateral = x
         /\ AdjustingForm(x, y, troveOf(v)).netDebt = y
  <1>1. FormOK("ADJUSTING", AdjustingForm(x, y, troveOf(v)), v)
    BY DEF FormOK
  <1> QED
    BY <1>1 DEF AdjustingForm

\* VaultManager,
LEMMA ManagerFormOK ==
  ASSUME NEW v, NEW t \in TrovePairs, NEW e \in TrovePairs, NEW p \in BOOLEAN,
         e = t \/ e = emptyTrove
  PROVE  /\ FormOK("CLOSING", ManagerForm(t, e, p), v)
         /\ ManagerForm(t, e, p).original = t /\ ManagerForm(t, e, p).edited = e
         /\ ManagerForm(t, e, p).changePending <=> p
  <1>1. FormOK("CLOSING", ManagerForm(t, e, p), v)
    BY DEF FormOK
  <1> QED
    BY <1>1 DEF ManagerForm

\* and the cards without a form.
LEMMA NoFormOK ==
  ASSUME NEW v, NEW card, card \notin {"OPENING", "ADJUSTING", "CLOSING"}
  PROVE  FormOK(card, NoForm, v)
  BY DEF FormOK

\* A card that is mounted agrees with the vault it is given and with the transaction.
LEMMA MountedVaultCard ==
  ASSUME NEW card \in Views, NEW v, VaultOK(v), NEW t, Mount(card, v, t), stored' = v,
         onPage' = TRUE
  PROVE  /\ CardOK' /\ VCard' = view'
         /\ \/ view' = card
            \/ card = "ADJUSTING" /\ view' = "CRASHED"
            \/ /\ card = "OPENING" /\ view' = "ACTIVE"
               /\ t.type = "confirmed" /\ t.id = "vault-creation"
         /\ view' = "CLOSING" => (form'.changePending <=> Waiting(t) /\ ofVault(t))
  <1> DEFINE trove == troveOf(v)
  <1>0. trove \in TrovePairs /\ trove.collateral \in Int /\ (v.status = "open" => netDebt(trove) \in Nat)
    BY TroveOfVault
  <1>1. ASSUME NEW f, ShowForm(f, v, NoGas) PROVE form' = f /\ GasKnows'
    <2>1. /\ form' = f /\ GasOK(gas')
          /\ gas'.mounted => f.kind \in {"opening", "adjusting"} /\ gas'.change = offeredChange(v, f)
      BY <1>1, NoGasOK, ShownForm
    <2> QED
      BY <2>1 DEF GasKnows
  <1>2. ASSUME NEW c, FormOK(c, form', stored'), c # "ADJUSTING" PROVE TypedDifferencesAreKept'
    <2>1. form'.kind # "adjusting"
      BY <1>2, FormKinds
    <2> QED
      BY <2>1 DEF TypedDifferencesAreKept
  <1>3. VCard' = view'
    BY DEF VCard
  <1>4. ASSUME NEW c \in Views, view' = c, FormOK(c, form', stored'), TypedDifferencesAreKept',
                GasKnows'
         PROVE  CardOK'
    <2>1. FormOK(VCard', form', stored')
      BY <1>3, <1>4
    <2> QED
      BY <1>4, <2>1 DEF CardOK
  <1> HIDE DEF trove
  <1>5. CASE card = "OPENING" /\ t.type = "confirmed" /\ t.id = "vault-creation"
    <2>1. view' = "ACTIVE" /\ ShowForm(NoForm, v, NoGas)
      BY <1>5 DEF Mount
    <2>2. form' = NoForm /\ GasKnows'
      BY <1>1, <2>1
    <2>3. FormOK("ACTIVE", form', stored') /\ "ACTIVE" \in Views
      BY <2>2, NoFormOK DEF Views
    <2> QED
      BY <1>2, <1>5, <1>3, <1>4, <2>1, <2>2, <2>3
  <1>6. CASE card = "OPENING" /\ ~(t.type = "confirmed" /\ t.id = "vault-creation")
    <2>1. view' = card /\ ShowForm(OpeningForm(0, 0, TRUE), v, NoGas)
      BY <1>6 DEF Mount
    <2>2. form' = OpeningForm(0, 0, TRUE) /\ GasKnows'
      BY <1>1, <2>1
    <2>3. FormOK("OPENING", form', stored')
      BY <2>2, OpeningFormOK
    <2> QED
      BY <1>2, <1>6, <1>3, <1>4, <2>1, <2>2, <2>3
  <1>7. CASE card = "ADJUSTING" /\ v.status = "open"
    <2> DEFINE f == AdjustingForm(trove.collateral, netDebt(trove), trove)
    <2>1. view' = card /\ ShowForm(f, v, NoGas)
      BY <1>7 DEF Mount, trove
    <2>2. form' = f /\ GasKnows'
      BY <1>1, <2>1
    <2>3. /\ FormOK("ADJUSTING", f, v) /\ f.collateral = trove.collateral
          /\ f.netDebt = netDebt(trove)
      <3>1. PICK x \in Int : x = trove.collateral
        BY <1>0
      <3>2. PICK y \in Nat : y = netDebt(trove)
        BY <1>0, <1>7
      <3>3. /\ FormOK("ADJUSTING", AdjustingForm(x, y, troveOf(v)), v)
            /\ AdjustingForm(x, y, troveOf(v)).collateral = x
            /\ AdjustingForm(x, y, troveOf(v)).netDebt = y
        BY <1>7, AdjustingFormOK
      <3>4. f = AdjustingForm(x, y, troveOf(v))
        BY <3>1, <3>2 DEF trove
      <3> HIDE DEF f
      <3> QED
        BY <3>1, <3>2, <3>3, <3>4
    <2> HIDE DEF f
    <2>4. TypedDifferencesAreKept'
      <3>1. /\ form'.collateral - troveOf(stored').collateral = 0
            /\ form'.netDebt - netDebt(troveOf(stored')) = 0
        BY <1>0, <1>7, <2>2, <2>3 DEF trove
      <3> QED
        BY <3>1 DEF TypedDifferencesAreKept
    <2> QED
      BY <1>7, <1>3, <1>4, <2>1, <2>2, <2>3, <2>4
  <1>8. CASE card = "ADJUSTING" /\ v.status # "open"
    <2>1. view' = "CRASHED" /\ ShowForm(NoForm, v, NoGas)
      BY <1>8 DEF Mount
    <2>2. form' = NoForm /\ GasKnows'
      BY <1>1, <2>1
    <2>3. FormOK("CRASHED", form', stored')
      BY <2>2, NoFormOK
    <2> QED
      BY <1>2, <1>8, <1>3, <1>4, <2>1, <2>2, <2>3 DEF Views
  <1>9. CASE card = "CLOSING"
    <2> DEFINE p == Waiting(t) /\ ofVault(t)
               f == ManagerForm(trove, emptyTrove, p)
    <2>1. view' = card /\ ShowForm(f, v, NoGas)
      BY <1>9 DEF Mount, trove
    <2>2. form' = f /\ GasKnows'
      BY <1>1, <2>1
    <2>3. p \in BOOLEAN /\ emptyTrove \in TrovePairs
      BY DEF emptyTrove, Trove, TrovePairs
    <2> HIDE DEF p
    <2>4. FormOK("CLOSING", f, v) /\ (f.changePending <=> p)
      BY <1>0, <2>3, ManagerFormOK
    <2> HIDE DEF f
    <2> QED
      BY <1>2, <1>9, <1>3, <1>4, <2>1, <2>2, <2>4 DEF p
  <1>10. CASE card \notin {"OPENING", "ADJUSTING", "CLOSING"}
    <2>1. view' = card /\ ShowForm(NoForm, v, NoGas)
      BY <1>10 DEF Mount
    <2>2. form' = NoForm /\ GasKnows'
      BY <1>1, <2>1
    <2>3. FormOK(card, form', stored')
      BY <1>10, <2>2, NoFormOK
    <2> QED
      BY <1>2, <1>10, <1>3, <1>4, <2>1, <2>2, <2>3
  <1> QED
    BY <1>6, <1>7, <1>8, <1>9, <1>10, <1>5


\* The card, its form and its estimate as they are.
LEMMA SameCard ==
  ASSUME VaultInv, UNCHANGED <<stored, view, onPage, form, gas, typed>>
  PROVE  VaultOK(stored') /\ CardOK' /\ VCard' = VCard
  <1>1. VCard' = VCard
    BY DEF VCard
  <1>2. FormOK(VCard', form', stored')
    BY <1>1 DEF VaultInv, CardOK
  <1>3. TypedDifferencesAreKept' /\ GasKnows'
    BY DEF VaultInv, CardOK, TypedDifferencesAreKept, GasKnows
  <1> QED
    BY <1>1, <1>2, <1>3 DEF VaultInv, CardOK

\* A card that is mounted for a vault that is open, or for one that is not, is right about
\* the vault if the card before it was.
LEMMA MountKeepsStatus ==
  ASSUME StatusKnown, UNCHANGED <<vault, own, surprised>>, NEW card,
         card \in OpenViews <=> view \in OpenViews,
         view # "CRASHED" \/ view' = "CRASHED",
         \/ view' = card
         \/ card = "ADJUSTING" /\ view' = "CRASHED"
         \/ /\ card = "OPENING" /\ view' = "ACTIVE"
            /\ own.type = "confirmed" /\ own.id = "vault-creation"
  PROVE  StatusKnown'
  <1> SUFFICES ASSUME ~surprised, view' # "CRASHED" PROVE view' = card
    <2>1. Settling' <=> Settling
      BY DEF Settling
    <2> QED
      BY <2>1 DEF StatusKnown
  <1>1. own.type = "confirmed" /\ own.id = "vault-creation" => view \in OpenViews
    BY DEF StatusKnown
  <1> QED
    BY <1>1 DEF OpenViews

\* A button leads to another card, and from an open vault to one of an open vault.
LEMMA PressedCard ==
  ASSUME NEW w \in Views, NEW v, NEW event \in Buttons(v)[w]
  PROVE  /\ transition(w, event) \in Views \ {"CRASHED"} /\ transition(w, event) # w
         /\ transition(w, event) \in OpenViews <=> w \in OpenViews
  <1>1. CASE w \in {"NONE", "LIQUIDATED", "REDEEMED"}
    <2>1. Buttons(v)["NONE"] \subseteq {"OPEN_VAULT_PRESSED"}
      BY DEF Buttons, noVaultButtons
    <2>2. Buttons(v)["LIQUIDATED"] \subseteq {"OPEN_VAULT_PRESSED"}
      BY DEF Buttons, liquidatedVaultButtons
    <2>3. Buttons(v)["REDEEMED"] \subseteq {"OPEN_VAULT_PRESSED"}
      BY DEF Buttons, redeemedVaultButtons
    <2>4. event = "OPEN_VAULT_PRESSED"
      BY <1>1, <2>1, <2>2, <2>3
    <2>5. transition(w, event) = "OPENING"
      BY <1>1, <2>4 DEF transition
    <2> QED
      BY <1>1, <2>5 DEF Views, OpenViews
  <1>2. CASE w = "OPENING"
    <2>1. event = "CANCEL_ADJUST_VAULT_PRESSED"
      BY <1>2 DEF Buttons
    <2>2. transition(w, event) = "NONE"
      BY <1>2, <2>1 DEF transition
    <2> QED
      BY <1>2, <2>2 DEF Views, OpenViews
  <1>3. CASE w \in {"ADJUSTING", "CLOSING"}
    <2>1. event = "CANCEL_ADJUST_VAULT_PRESSED"
      BY <1>3 DEF Buttons
    <2>2. transition(w, event) = "ACTIVE"
      BY <1>3, <2>1 DEF transition
    <2> QED
      BY <1>3, <2>2 DEF Views, OpenViews
  <1>4. CASE w = "ACTIVE"
    <2>1. event \in {"ADJUST_VAULT_PRESSED", "CLOSE_VAULT_PRESSED"}
      BY <1>4 DEF Buttons
    <2>2. transition(w, event) \in {"ADJUSTING", "CLOSING"}
      BY <1>4, <2>1 DEF transition
    <2> QED
      BY <1>4, <2>2 DEF Views, OpenViews
  <1>5. CASE w = "CRASHED"
    BY <1>5 DEF Buttons
  <1> QED
    BY <1>1, <1>2, <1>3, <1>4, <1>5 DEF Views

\* One lemma for each event of the panel: a button,
LEMMA PressKeepsVaultInv == VaultInv /\ Press => VaultInv'
  <1> SUFFICES ASSUME VaultInv, Press PROVE VaultInv'
    OBVIOUS
  <1>1. PICK event \in Buttons(stored)[view] : Dispatch(event, stored, own)
    BY DEF Press
  <1> DEFINE card == transition(view, event)
  <1>2. /\ card \in Views \ {"CRASHED"} /\ card # view
        /\ card \in OpenViews <=> view \in OpenViews
    BY <1>1, PressedCard DEF VaultInv, CardOK
  <1>3. Mount(card, stored, own)
    BY <1>1, <1>2 DEF Dispatch
  <1> HIDE DEF card
  <1>4. /\ UNCHANGED <<vault, stored, own, aside, surprised>> /\ VaultOK(stored) /\ onPage' = TRUE
        /\ overtaken' <=> overtaken \/ Outstanding
    BY DEF Press, VaultInv, CardOK, txState
  <1>5. /\ CardOK' /\ VCard' = view'
        /\ \/ view' = card
           \/ card = "ADJUSTING" /\ view' = "CRASHED"
           \/ /\ card = "OPENING" /\ view' = "ACTIVE"
              /\ own.type = "confirmed" /\ own.id = "vault-creation"
        /\ view' = "CLOSING" => (form'.changePending <=> Waiting(own) /\ ofVault(own))
    BY <1>2, <1>3, <1>4, MountedVaultCard
  <1>6. view # "CRASHED"
    BY <1>1 DEF Buttons
  <1>7. StatusKnown'
    BY <1>2, <1>4, <1>5, <1>6, MountKeepsStatus DEF VaultInv
  <1>8. ~overtaken' => ~overtaken /\ ~(Waiting(own) /\ Changes(own))
    BY <1>4 DEF Outstanding
  <1>9. CardKnows' /\ FlagKnows'
    BY <1>4, <1>5, <1>8 DEF CardKnows, FlagKnows, Changes
  <1>10. AsideKnown'
    BY <1>4, <1>8 DEF VaultInv, AsideKnown
  <1> QED
    BY <1>4, <1>5, <1>7, <1>9, <1>10 DEF VaultInv

\* another page,
LEMMA LeaveKeepsVaultInv == VaultInv /\ LeavePage => VaultInv'
  <1> SUFFICES ASSUME VaultInv, LeavePage PROVE VaultInv'
    OBVIOUS
  <1>1. /\ UNCHANGED <<vault, stored, view, own, aside, surprised, overtaken>> /\ onPage' = FALSE
        /\ ShowForm(NoForm, stored, NoGas)
    BY DEF LeavePage, txState
  <1>2. /\ form' = NoForm /\ GasOK(gas')
        /\ gas'.mounted => NoForm.kind \in {"opening", "adjusting"}
                           /\ gas'.change = offeredChange(stored, NoForm)
    BY <1>1, NoGasOK, ShownForm
  <1>3. VCard' = "AWAY"
    BY <1>1 DEF VCard
  <1>4. FormOK(VCard', form', stored')
    BY <1>2, <1>3, NoFormOK
  <1>5. TypedDifferencesAreKept' /\ GasKnows'
    BY <1>1, <1>2 DEF TypedDifferencesAreKept, GasKnows, NoForm
  <1>6. CardKnows' /\ StatusKnown' /\ FlagKnows' /\ AsideKnown'
    BY <1>1, <1>3 DEF VaultInv, CardKnows, StatusKnown, FlagKnows, AsideKnown, Settling
  <1> QED
    BY <1>1, <1>4, <1>5, <1>6 DEF VaultInv, CardOK

\* the page again,
LEMMA ReturnKeepsVaultInv == VaultInv /\ ReturnToPage => VaultInv'
  <1> SUFFICES ASSUME VaultInv, ReturnToPage PROVE VaultInv'
    OBVIOUS
  <1>1. /\ UNCHANGED <<vault, stored, own, aside, surprised, overtaken>> /\ onPage' = TRUE
        /\ Mount(view, stored, own) /\ view \in Views /\ VaultOK(stored)
    BY DEF ReturnToPage, txState, VaultInv, CardOK
  <1>2. /\ CardOK' /\ VCard' = view'
        /\ \/ view' = view
           \/ view = "ADJUSTING" /\ view' = "CRASHED"
           \/ /\ view = "OPENING" /\ view' = "ACTIVE"
              /\ own.type = "confirmed" /\ own.id = "vault-creation"
        /\ view' = "CLOSING" => (form'.changePending <=> Waiting(own) /\ ofVault(own))
    BY <1>1, MountedVaultCard
  <1>3. StatusKnown'
    BY <1>1, <1>2, MountKeepsStatus DEF VaultInv
  <1>4. CardKnows'
    BY <1>1, <1>2 DEF VaultInv, CardKnows, Waiting
  <1>5. FlagKnows' /\ AsideKnown'
    BY <1>1, <1>2 DEF VaultInv, FlagKnows, AsideKnown, Changes, ofVault
  <1> QED
    BY <1>1, <1>2, <1>3, <1>4, <1>5 DEF VaultInv

\* The transaction of a page that was just loaded.
LEMMA NoTxOK == TxOK(NoTx) /\ ~Waiting(NoTx) /\ NoTx.type = "idle"
  BY DEF TxOK, NoTx, OwnTx, Waiting, TxIds

\* Only the state of a transaction changes while it is followed.
LEMMA RetypedTx ==
  ASSUME NEW t, TxOK(t), NEW ty, ty # "waitingForApproval",
         ty = "waitingForConfirmation" => Waiting(t)
  PROVE  LET u == [t EXCEPT !.type = ty]
         IN  /\ TxOK(u) /\ u.type = ty /\ u.id = t.id /\ u.fate = t.fate
             /\ Waiting(u) <=> ty = "waitingForConfirmation"
  <1> DEFINE u == [t EXCEPT !.type = ty]
  <1>1. u = OwnTx(t.n, ty, t.id, t.change, t.fate)
    BY DEF TxOK, OwnTx
  <1> HIDE DEF u
  <1>2. u.n = t.n /\ u.type = ty /\ u.id = t.id /\ u.change = t.change /\ u.fate = t.fate
    BY <1>1 DEF OwnTx
  <1>3. Waiting(u) <=> ty = "waitingForConfirmation"
    BY <1>2 DEF Waiting
  <1>4. TxOK(u)
    BY <1>1, <1>2, <1>3 DEF TxOK
  <1> QED
    BY <1>2, <1>3, <1>4 DEF u

\* What is left of a transaction that is not shown any more is still to be decided.
LEMMA KeptTx ==
  ASSUME NEW t, TxOK(t)
  PROVE  /\ \A u \in Kept(t) : TxOK(u) /\ Waiting(u)
         /\ ~Waiting(t) => Kept(t) = {}
  BY DEF Kept

\* the page loaded again,
LEMMA ReloadKeepsVaultInv == VaultInv /\ Reload => VaultInv'
  <1> SUFFICES ASSUME VaultInv, Reload PROVE VaultInv'
    OBVIOUS
  <1> DEFINE card == getInitialView(stored.status)
  <1>1. /\ Mount(card, stored, NoTx) /\ UNCHANGED <<vault, stored>> /\ own' = NoTx
        /\ onPage' = TRUE
        /\ surprised' <=> stored.status # vault.status
        /\ overtaken' <=> aside' # {}
        /\ VaultOK(stored) /\ VaultOK(vault)
    BY DEF Reload, VaultInv
  <1>2. /\ card \in {"LIQUIDATED", "REDEEMED", "ACTIVE", "NONE"}
        /\ card = "ACTIVE" <=> stored.status = "open"
    BY DEF getInitialView
  <1>3. card \in Views /\ card # "ADJUSTING" /\ card # "CLOSING" /\ card # "OPENING"
    BY <1>2 DEF Views
  <1> HIDE DEF card
  <1>4. CardOK' /\ VCard' = view' /\ view' = card
    BY <1>1, <1>3, MountedVaultCard
  <1>5. TxOK(own') /\ ~Waiting(own') /\ own'.type = "idle"
    BY <1>1, NoTxOK
  <1>6. AsideKnown'
    <2>1. ASSUME NEW u \in aside' PROVE TxOK(u) /\ Waiting(u)
      <3>1. PICK t \in aside \cup {own} :
              Waiting(t) /\ u = [t EXCEPT !.type = "waitingForConfirmation"]
        BY <2>1 DEF Reload
      <3>2. TxOK(t)
        BY <3>1 DEF VaultInv, AsideKnown
      <3> QED
        BY <3>1, <3>2, RetypedTx
    <2> QED
      BY <1>1, <2>1 DEF AsideKnown
  <1>7. CardKnows' /\ FlagKnows'
    BY <1>3, <1>4, <1>5 DEF CardKnows, FlagKnows
  <1>8. StatusKnown'
    <2>1. ~Settling'
      BY <1>5 DEF Settling
    <2>2. ~surprised' => (view' \in OpenViews <=> vault'.status = "open")
      BY <1>1, <1>2, <1>4 DEF OpenViews
    <2> QED
      BY <1>5, <2>1, <2>2 DEF StatusKnown
  <1> QED
    BY <1>1, <1>4, <1>5, <1>6, <1>7, <1>8 DEF VaultInv

\* an edit of Opening,
LEMMA EditOpeningKeepsVaultInv ==
  ASSUME VaultInv, NEW x \in Nat, NEW y \in Nat, EditOpening(x, y)
  PROVE  VaultInv'
  <1> DEFINE z == IF form.isMounted /\ x # 0 /\ y = 0 THEN MIN_NET_DEBT ELSE y
             f == OpeningForm(x, z, FALSE)
  <1>1. /\ form.kind = "opening" /\ ShowForm(f, stored, gas)
        /\ UNCHANGED <<vault, stored, view, onPage, own, aside, typed, surprised, overtaken>>
    BY DEF EditOpening, txState
  <1>2. z \in Nat
    BY BaseAssumption
  <1> HIDE DEF z
  <1>3. VCard = "OPENING" /\ VCard' = VCard /\ GasOK(gas)
    BY <1>1, FormKinds DEF VaultInv, CardOK, GasKnows, VCard
  <1>4. FormOK("OPENING", f, stored)
    BY <1>2, OpeningFormOK
  <1> HIDE DEF f
  <1>5. /\ form' = f /\ GasOK(gas')
        /\ gas'.mounted => f.kind \in {"opening", "adjusting"} /\ gas'.change = offeredChange(stored, f)
    BY <1>1, <1>3, ShownForm
  <1>6. GasKnows'
    BY <1>1, <1>5 DEF GasKnows
  <1>7. f.kind = "opening"
    BY <1>4, FormKinds
  <1>8. TypedDifferencesAreKept'
    BY <1>5, <1>7 DEF TypedDifferencesAreKept
  <1>9. CardKnows' /\ StatusKnown' /\ FlagKnows' /\ AsideKnown'
    BY <1>1, <1>3 DEF VaultInv, CardKnows, StatusKnown, FlagKnows, AsideKnown, Settling
  <1> QED
    BY <1>1, <1>3, <1>4, <1>5, <1>6, <1>8, <1>9 DEF VaultInv, CardOK

\* an edit of Adjusting,
LEMMA EditAdjustingKeepsVaultInv ==
  ASSUME VaultInv, NEW x \in Int, NEW y \in Nat, EditAdjusting(x, y)
  PROVE  VaultInv'
  <1> DEFINE f == AdjustingForm(x, y, troveOf(stored))
  <1>1. /\ form.kind = "adjusting" /\ ShowForm(AdjustingForm(x, y, form.previous), stored, gas)
        /\ typed' = [collateral |-> x - troveOf(stored).collateral,
                     netDebt |-> y - netDebt(troveOf(stored))]
        /\ UNCHANGED <<vault, stored, view, onPage, own, aside, surprised, overtaken>>
    BY DEF EditAdjusting, txState
  <1>2. VCard = "ADJUSTING" /\ VCard' = VCard /\ GasOK(gas)
    BY <1>1, FormKinds DEF VaultInv, CardOK, GasKnows, VCard
  <1>3. stored.status = "open" /\ form.previous = troveOf(stored)
    BY <1>2 DEF VaultInv, CardOK, FormOK, AdjustingForm
  <1>4. FormOK("ADJUSTING", f, stored) /\ f.collateral = x /\ f.netDebt = y
    BY <1>3, AdjustingFormOK
  <1>5. ShowForm(f, stored, gas)
    BY <1>1, <1>3
  <1> HIDE DEF f
  <1>6. /\ form' = f /\ GasOK(gas')
        /\ gas'.mounted => f.kind \in {"opening", "adjusting"} /\ gas'.change = offeredChange(stored, f)
    BY <1>2, <1>5, ShownForm
  <1>7. GasKnows'
    BY <1>1, <1>6 DEF GasKnows
  <1>8. TypedDifferencesAreKept'
    <2>1. /\ typed'.collateral = x - troveOf(stored).collateral
          /\ typed'.netDebt = y - netDebt(troveOf(stored))
      BY <1>1
    <2> QED
      BY <1>1, <1>4, <1>6, <2>1 DEF TypedDifferencesAreKept
  <1>9. CardKnows' /\ StatusKnown' /\ FlagKnows' /\ AsideKnown'
    BY <1>1, <1>2 DEF VaultInv, CardKnows, StatusKnown, FlagKnows, AsideKnown, Settling
  <1> QED
    BY <1>1, <1>2, <1>4, <1>6, <1>7, <1>8, <1>9 DEF VaultInv, CardOK

\* While a change is under way nothing else is offered, unless it was overtaken.
LEMMA NothingTwice ==
  ASSUME VaultInv, ~overtaken, Outstanding
  PROVE  \A id : ~CanConfirm(id, offeredChange(stored, form))
  <1>0. /\ form.kind = "opening" <=> VCard = "OPENING"
        /\ form.kind = "adjusting" <=> VCard = "ADJUSTING"
        /\ form.kind = "manager" <=> VCard = "CLOSING"
    BY FormKinds DEF VaultInv, CardOK
  <1>1. Waiting(own) /\ Changes(own)
    BY DEF Outstanding, VaultInv, AsideKnown
  <1>2. VCard \in {"OPENING", "ADJUSTING", "CLOSING"} => view = VCard
    BY DEF VCard
  <1>3. CASE VCard = "OPENING"
    <2>1. own.id = "vault-creation"
      BY <1>1, <1>2, <1>3 DEF VaultInv, CardKnows, Changes
    <2>2. Overlay(form, own)
      BY <1>0, <1>1, <1>3, <2>1 DEF Overlay
    <2> QED
      BY <1>3, <2>2 DEF CanConfirm
  <1>4. CASE VCard = "ADJUSTING"
    <2>1. own.id = "vault-adjustment"
      BY <1>1, <1>2, <1>4 DEF VaultInv, CardKnows, Changes
    <2>2. Overlay(form, own)
      BY <1>0, <1>1, <1>4, <2>1 DEF Overlay
    <2> QED
      BY <1>4, <2>2 DEF CanConfirm
  <1>5. CASE VCard = "CLOSING"
    <2>1. form.changePending \/ form.edited = form.original
      BY <1>1, <1>5 DEF VaultInv, FlagKnows
    <2>2. PICK t \in TrovePairs, e \in TrovePairs, p \in BOOLEAN :
            form = ManagerForm(t, e, p) /\ (e = t \/ e = emptyTrove)
      BY <1>5 DEF VaultInv, CardOK, FormOK
    <2>3. form.original = t /\ form.edited = e
      BY <2>2 DEF ManagerForm
    <2>4. CASE form.changePending
      <3>1. Overlay(form, own)
        BY <1>0, <1>5, <2>4 DEF Overlay
      <3> QED
        BY <3>1 DEF CanConfirm
    <2>5. CASE e = t
      <3>1. ~IsValid(stored, offeredChange(stored, form))
        BY <2>2, <2>5, ManagerOffers
      <3> QED
        BY <3>1 DEF CanConfirm
    <2> QED
      BY <2>1, <2>3, <2>4, <2>5
  <1>6. CASE VCard \notin {"OPENING", "ADJUSTING", "CLOSING"}
    BY <1>0, <1>6 DEF CanConfirm
  <1> QED
    BY <1>3, <1>4, <1>5, <1>6

\* VaultManager sees a transaction; the rest of the card stays.
LEMMA SeenByManager ==
  ASSUME VaultInv, NEW t, ManagerSees(t), UNCHANGED <<stored, view, onPage, gas, typed>>
  PROVE  /\ VaultOK(stored') /\ CardOK' /\ VCard' = VCard
         /\ VCard = "CLOSING" /\ ofVault(t) /\ ~(ofVault(own) /\ own.type = t.type) =>
              (form'.changePending <=> Waiting(t))
         /\ ~ofVault(t) => form' = form
  <1> DEFINE fresh == ofVault(t) /\ ~(ofVault(own) /\ own.type = t.type)
  <1>1. form.kind = "manager" <=> VCard = "CLOSING"
    BY FormKinds DEF VaultInv, CardOK
  <1>2. CASE ~(VCard = "CLOSING" /\ fresh)
    <2>1. form' = form
      BY <1>1, <1>2 DEF ManagerSees
    <2>2. VaultOK(stored') /\ CardOK' /\ VCard' = VCard
      BY <2>1, SameCard
    <2> QED
      BY <1>2, <2>1, <2>2
  <1>3. CASE VCard = "CLOSING" /\ fresh
    <2>1. form.kind = "manager"
      BY <1>1, <1>3
    <2>2. PICK o \in TrovePairs, e \in TrovePairs, p \in BOOLEAN :
            form = ManagerForm(o, e, p) /\ (e = o \/ e = emptyTrove)
      BY <1>3 DEF VaultInv, CardOK, FormOK
    <2> DEFINE w == Waiting(t)
    <2>3. form' = [form EXCEPT !.changePending = w] /\ w \in BOOLEAN
      BY <1>3, <2>1 DEF ManagerSees, Waiting
    <2>4. w <=> Waiting(t)
      OBVIOUS
    <2> HIDE DEF w
    <2>5. form' = ManagerForm(o, e, w)
      BY <2>2, <2>3 DEF ManagerForm
    <2>6. FormOK("CLOSING", form', stored') /\ (form'.changePending <=> w)
      BY <2>2, <2>3, <2>5, ManagerFormOK
    <2>7. form'.kind = "manager"
      BY <2>6, FormKinds
    <2>8. TypedDifferencesAreKept'
      BY <2>7 DEF TypedDifferencesAreKept
    <2>9. GasKnows'
      BY <2>1 DEF VaultInv, CardOK, GasKnows
    <2>10. VCard' = VCard
      BY DEF VCard
    <2> QED
      BY <1>3, <2>4, <2>6, <2>8, <2>9, <2>10 DEF VaultInv, CardOK
  <1> QED
    BY <1>2, <1>3

\* The shared state is written for a transaction that was not confirmed or mined: that
\* of a button that was just pressed, or that of a late answer.
LEMMA WriteKeepsVaultInv ==
  ASSUME VaultInv, NEW t, TxOK(t), NEW others, Write(t, others),
         \A u \in others : TxOK(u) /\ Waiting(u),
         ~overtaken => others = {},
         UNCHANGED <<vault, stored, view, gas, onPage, typed>>,
         t.type # "confirmed", t.type = "waitingForConfirmation" => t.fate # "succeeded",
         ~overtaken =>
           /\ t.type = "waitingForApproval"
           /\ VCard = "CLOSING" => ofVault(t)
           /\ t.id = "vault-creation" => view = "OPENING"
           /\ t.id = "vault-adjustment" => view \in {"ADJUSTING", "CLOSING"}
           /\ t.id = "vault-closure" => view = "CLOSING"
  PROVE  VaultInv'
  <1> DEFINE lost == IF Monitored(own) \/ busy THEN Kept(t) ELSE {}
  <1>1. /\ own' = IF Monitored(own) \/ busy THEN NoTx ELSE t
        /\ aside' = others \cup Kept(own) \cup lost
        /\ ManagerSees(t) /\ (surprised' <=> surprised \/ Settling)
        /\ overtaken' <=> overtaken \/ Waiting(own) \/ busy
    BY DEF Write
  <1>2. /\ VaultOK(stored') /\ CardOK' /\ VCard' = VCard
        /\ VCard = "CLOSING" /\ ofVault(t) /\ ~(ofVault(own) /\ own.type = t.type) =>
             (form'.changePending <=> Waiting(t))
    BY <1>1, SeenByManager
  <1>3. TxOK(own') /\ (own' = t \/ own'.type = "idle")
    BY <1>1, NoTxOK
  <1>4. ~overtaken' => ~overtaken /\ ~Waiting(own) /\ own' = t /\ lost = {}
    BY <1>1 DEF Monitored, Waiting
  <1>5. AsideKnown'
    <2>1. /\ \A u \in Kept(own) : TxOK(u) /\ Waiting(u)
          /\ ~Waiting(own) => Kept(own) = {}
      BY KeptTx DEF VaultInv
    <2>2. \A u \in Kept(t) : TxOK(u) /\ Waiting(u)
      BY KeptTx
    <2>3. \A u \in lost : TxOK(u) /\ Waiting(u)
      BY <2>2
    <2> HIDE DEF lost
    <2>4. \A u \in aside' : TxOK(u) /\ Waiting(u)
      BY <1>1, <2>1, <2>3
    <2>5. ~overtaken' => aside' = {}
      BY <1>1, <1>4, <2>1
    <2> QED
      BY <2>4, <2>5 DEF AsideKnown
  <1>6. CardKnows'
    BY <1>4 DEF CardKnows
  <1>7. FlagKnows'
    BY <1>2, <1>4 DEF FlagKnows, Waiting
  <1>8. StatusKnown'
    <2>1. ~Settling' /\ own'.type # "confirmed"
      BY <1>3 DEF Settling
    <2> QED
      BY <1>1, <2>1 DEF VaultInv, StatusKnown
  <1> QED
    BY <1>2, <1>3, <1>5, <1>6, <1>7, <1>8 DEF VaultInv

\* A transaction that was just sent is good for its id.
LEMMA SentVaultTx ==
  ASSUME NEW id \in TxIds \ {"none"}, NEW k, NEW n,
         id = "vault-creation" => IsCreation(k), id = "vault-adjustment" => IsAdjustment(k)
  PROVE  LET t == OwnTx(n, "waitingForApproval", id, k, "none")
         IN  TxOK(t) /\ t.id = id /\ t.type = "waitingForApproval"
  BY DEF TxOK, OwnTx

\* A button sends a transaction of its card.
LEMMA SendKeepsVaultInv ==
  ASSUME VaultInv, NEW id \in TxIds \ {"none"}, NEW k, SendTx(id, k),
         id = "vault-creation" => IsCreation(k) /\ view = "OPENING",
         id = "vault-adjustment" => IsAdjustment(k) /\ view \in {"ADJUSTING", "CLOSING"},
         id = "vault-closure" => view = "CLOSING",
         id = "claim-coll-surplus" => VCard # "CLOSING"
  PROVE  VaultInv'
  <1> DEFINE t == OwnTx(panelSends + 1, "waitingForApproval", id, k, "none")
  <1>1. Write(t, aside) /\ UNCHANGED <<vault, stored, view, gas, onPage, typed>>
    BY DEF SendTx
  <1>2. TxOK(t) /\ t.id = id /\ t.type = "waitingForApproval"
    BY SentVaultTx
  <1> HIDE DEF t
  <1>3. VCard = "CLOSING" => ofVault(t)
    BY <1>2 DEF ofVault
  <1>4. /\ \A u \in aside : TxOK(u) /\ Waiting(u)
        /\ ~overtaken => aside = {}
    BY DEF VaultInv, AsideKnown
  <1> QED
    BY <1>1, <1>2, <1>3, <1>4, WriteKeepsVaultInv

\* the Confirm button,
LEMMA ConfirmKeepsVaultInv == VaultInv /\ Confirm => VaultInv'
  <1> SUFFICES ASSUME VaultInv, Confirm PROVE VaultInv'
    OBVIOUS
  <1> DEFINE k == offeredChange(stored, form)
  <1>1. PICK id \in {"vault-creation", "vault-adjustment", "vault-closure"} :
          CanConfirm(id, k) /\ SendTx(id, k)
    BY DEF Confirm
  <1>2. id \in TxIds \ {"none"}
    BY DEF TxIds
  <1>3. /\ form.kind = "opening" <=> VCard = "OPENING"
        /\ form.kind = "adjusting" <=> VCard = "ADJUSTING"
        /\ form.kind = "manager" <=> VCard = "CLOSING"
    BY FormKinds DEF VaultInv, CardOK
  <1>4. VCard \in {"OPENING", "ADJUSTING", "CLOSING"} => view = VCard
    BY DEF VCard
  <1>5. IsValid(stored, k) /\ form.kind \in {"opening", "adjusting", "manager"}
    BY <1>1 DEF CanConfirm
  <1>6. CASE form.kind = "manager"
    <2>1. PICK t \in TrovePairs, e \in TrovePairs, p \in BOOLEAN :
            form = ManagerForm(t, e, p) /\ (e = t \/ e = emptyTrove)
      BY <1>3, <1>6 DEF VaultInv, CardOK, FormOK
    <2>2. k.type = "closure"
      <3>1. k.type \in {"same", "closure"}
        BY <2>1, ManagerOffers
      <3> QED
        BY <1>5, <3>1 DEF IsValid
    <2>3. id = "vault-closure"
      BY <1>1, <1>6, <2>2 DEF CanConfirm
    <2> HIDE DEF k
    <2> QED
      BY <1>1, <1>2, <1>3, <1>4, <1>6, <2>3, SendKeepsVaultInv
  <1>7. CASE form.kind = "opening"
    <2>1. PICK x \in Nat, y \in Nat, m \in BOOLEAN : form = OpeningForm(x, y, m)
      BY <1>3, <1>7 DEF VaultInv, CardOK, FormOK
    <2>2. IsCreation(k)
      BY <1>5, <2>1, OpeningOffers
    <2>3. id = "vault-creation"
      BY <1>1, <1>7 DEF CanConfirm
    <2> HIDE DEF k
    <2> QED
      BY <1>1, <1>2, <1>3, <1>4, <1>7, <2>2, <2>3, SendKeepsVaultInv
  <1>8. CASE form.kind = "adjusting"
    <2>1. /\ stored.status = "open" /\ VaultOK(stored)
          /\ \E x \in Int, y \in Nat : form = AdjustingForm(x, y, troveOf(stored))
      BY <1>3, <1>8 DEF VaultInv, CardOK, FormOK
    <2>2. IsAdjustment(k)
      BY <1>5, <2>1, AdjustingOffers
    <2>3. id = "vault-adjustment"
      BY <1>1, <1>8 DEF CanConfirm
    <2> HIDE DEF k
    <2> QED
      BY <1>1, <1>2, <1>3, <1>4, <1>8, <2>2, <2>3, SendKeepsVaultInv
  <1> QED
    BY <1>5, <1>6, <1>7, <1>8

\* the approval of the token,
LEMMA ApproveKeepsVaultInv == VaultInv /\ ApproveErc20 => VaultInv'
  <1> SUFFICES ASSUME VaultInv, ApproveErc20 PROVE VaultInv'
    OBVIOUS
  <1>1. SendTx("vault-approve", offeredChange(stored, form))
    BY DEF ApproveErc20
  <1>2. "vault-approve" \in TxIds \ {"none"}
    BY DEF TxIds
  <1> QED
    BY <1>1, <1>2, SendKeepsVaultInv

\* the claim of a surplus,
LEMMA ClaimKeepsVaultInv == VaultInv /\ ClaimCollateralSurplus => VaultInv'
  <1> SUFFICES ASSUME VaultInv, ClaimCollateralSurplus PROVE VaultInv'
    OBVIOUS
  <1>1. view \in {"LIQUIDATED", "REDEEMED"} /\ SendTx("claim-coll-surplus", NoChangeYet)
    BY DEF ClaimCollateralSurplus
  <1>2. "claim-coll-surplus" \in TxIds \ {"none"}
    BY DEF TxIds
  <1>3. VCard # "CLOSING"
    BY <1>1 DEF VCard
  <1> QED
    BY <1>1, <1>2, <1>3, SendKeepsVaultInv

\* an answer for a transaction that is not shown,
LEMMA LateAnswerKeepsVaultInv == VaultInv /\ LateAnswer => VaultInv'
  <1> SUFFICES ASSUME VaultInv, LateAnswer PROVE VaultInv'
    OBVIOUS
  <1>1. PICK t \in aside :
          \/ /\ t.type = "waitingForApproval"
             /\ \E type \in {"waitingForConfirmation", "failed", "cancelled"} :
                  Write([t EXCEPT !.type = type], aside \ {t})
          \/ t.fate = "asked" /\ Write([t EXCEPT !.type = "failed"], aside \ {t})
    BY DEF LateAnswer
  <1>2. TxOK(t) /\ Waiting(t) /\ overtaken
    BY <1>1 DEF VaultInv, AsideKnown
  <1>3. PICK ty \in {"waitingForConfirmation", "failed", "cancelled"} :
          /\ Write([t EXCEPT !.type = ty], aside \ {t})
          /\ ty = "waitingForConfirmation" => t.fate = "none"
    BY <1>1, <1>2 DEF TxOK
  <1> DEFINE u == [t EXCEPT !.type = ty]
  <1>4. Write(u, aside \ {t})
    BY <1>3
  <1>5. TxOK(u) /\ u.type = ty /\ u.fate = t.fate
    BY <1>2, <1>3, RetypedTx
  <1> HIDE DEF u
  <1>6. \A w \in aside \ {t} : TxOK(w) /\ Waiting(w)
    BY DEF VaultInv, AsideKnown
  <1>7. UNCHANGED <<vault, stored, view, gas, onPage, typed>>
    BY DEF LateAnswer
  <1>8. u.type # "confirmed" /\ (u.type = "waitingForConfirmation" => u.fate # "succeeded")
    BY <1>3, <1>5
  <1> QED
    BY <1>2, <1>4, <1>5, <1>6, <1>7, <1>8, WriteKeepsVaultInv

\* The transaction that is shown moves on without being mined or confirmed.
LEMMA AnswerKeepsVaultInv ==
  ASSUME VaultInv, Waiting(own), own.fate # "succeeded",
         NEW ty \in {"waitingForConfirmation", "failed", "cancelled"}, ty # own.type,
         own' = [own EXCEPT !.type = ty], ManagerSees(own'),
         UNCHANGED <<vault, stored, view, gas, onPage, typed, surprised>>,
         \/ UNCHANGED <<aside, overtaken>>
         \/ overtaken' /\ aside' = aside \cup {own}
  PROVE  VaultInv'
  <1>1. TxOK(own') /\ own'.id = own.id /\ own'.fate = own.fate /\ own'.type = ty
    BY RetypedTx DEF VaultInv
  <1>2. /\ VaultOK(stored') /\ CardOK' /\ VCard' = VCard
        /\ VCard = "CLOSING" /\ ofVault(own') /\ ~(ofVault(own) /\ own.type = own'.type) =>
             (form'.changePending <=> Waiting(own'))
        /\ ~ofVault(own') => form' = form
    BY SeenByManager
  <1>3. ofVault(own') <=> ofVault(own)
    BY <1>1 DEF ofVault
  <1>4. Changes(own') => ofVault(own')
    BY DEF Changes, ofVault
  <1>5. AsideKnown'
    BY DEF VaultInv, AsideKnown
  <1>6. ~overtaken' => ~overtaken
    BY DEF VaultInv
  <1>7. FlagKnows'
    <2> SUFFICES ASSUME VCard = "CLOSING", ~overtaken
                 PROVE  /\ form'.changePending => Waiting(own') /\ ofVault(own')
                        /\ Waiting(own') /\ Changes(own') =>
                             form'.changePending \/ form'.edited = form'.original
      BY <1>2, <1>6 DEF FlagKnows
    <2>1. CASE ofVault(own)
      BY <1>1, <1>2, <1>3, <2>1
    <2>2. CASE ~ofVault(own)
      <3>1. ~form.changePending
        BY <2>2 DEF VaultInv, FlagKnows
      <3> QED
        BY <1>2, <1>3, <1>4, <2>2, <3>1
    <2> QED
      BY <2>1, <2>2
  <1>8. CardKnows'
    BY <1>1, <1>6 DEF VaultInv, CardKnows
  <1>9. StatusKnown'
    <2>1. ~Settling /\ ~Settling' /\ own'.type # "confirmed"
      BY <1>1 DEF Settling
    <2> QED
      BY <2>1 DEF VaultInv, StatusKnown
  <1> QED
    BY <1>1, <1>2, <1>5, <1>7, <1>8, <1>9 DEF VaultInv

\* the answer of the wallet,
LEMMA WalletKeepsVaultInv == VaultInv /\ WalletAnswers => VaultInv'
  <1> SUFFICES ASSUME VaultInv, WalletAnswers PROVE VaultInv'
    OBVIOUS
  <1>1. PICK ty \in {"waitingForConfirmation", "failed", "cancelled"} : own' = [own EXCEPT !.type = ty]
    BY DEF WalletAnswers
  <1>2. /\ own.type = "waitingForApproval" /\ ManagerSees(own')
        /\ UNCHANGED <<vault, stored, view, gas, onPage, typed, surprised, aside, overtaken>>
    BY DEF WalletAnswers
  <1>3. Waiting(own) /\ own.fate # "succeeded" /\ ty # own.type
    BY <1>2 DEF VaultInv, TxOK, Waiting
  <1> QED
    BY <1>1, <1>2, <1>3, AnswerKeepsVaultInv

\* the reason of a revert,
LEMMA RevertKeepsVaultInv == VaultInv /\ RevertExplained => VaultInv'
  <1> SUFFICES ASSUME VaultInv, RevertExplained PROVE VaultInv'
    OBVIOUS
  <1>1. /\ own.type = "waitingForConfirmation" /\ own.fate = "asked"
        /\ own' = [own EXCEPT !.type = "failed"] /\ ManagerSees(own')
        /\ UNCHANGED <<vault, stored, view, gas, onPage, typed, surprised, aside, overtaken>>
    BY DEF RevertExplained
  <1>2. Waiting(own)
    BY <1>1 DEF Waiting
  <1> QED
    BY <1>1, <1>2, AnswerKeepsVaultInv

\* a receipt that cannot be had,
LEMMA NoReceiptKeepsVaultInv == VaultInv /\ NoVaultReceipt => VaultInv'
  <1> SUFFICES ASSUME VaultInv, NoVaultReceipt PROVE VaultInv'
    OBVIOUS
  <1>1. /\ own.type = "waitingForConfirmation" /\ own.fate = "none" /\ ManagerSees(own')
        /\ UNCHANGED <<vault, stored, view, gas, onPage, typed, surprised>>
        /\ \/ own' = [own EXCEPT !.type = "cancelled"] /\ UNCHANGED <<aside, overtaken>>
           \/ /\ own' = [own EXCEPT !.type = "failed"]
              /\ aside' = aside \cup {own} /\ overtaken' = TRUE
    BY DEF NoVaultReceipt
  <1>2. Waiting(own)
    BY <1>1 DEF Waiting
  <1> QED
    BY <1>1, <1>2, AnswerKeepsVaultInv

\* the block with the transaction,
LEMMA MinedKeepsVaultInv == VaultInv /\ Mined => VaultInv'
  <1> SUFFICES ASSUME VaultInv, Mined PROVE VaultInv'
    OBVIOUS
  <1> DEFINE fate == IF vault' = vault /\ own.id # "vault-approve" THEN "reverted" ELSE "succeeded"
  <1>1. /\ own.type = "waitingForConfirmation" /\ own.fate = "none"
        /\ vault' = Executed(vault, own) /\ own' = [own EXCEPT !.fate = fate]
        /\ UNCHANGED <<stored, view, onPage, form, gas, typed, surprised, aside, overtaken>>
    BY DEF Mined
  <1>2. TxOK(own) /\ Waiting(own) /\ VaultOK(vault)
    BY <1>1 DEF VaultInv, Waiting
  <1>3. /\ VaultOK(vault')
        /\ own.id = "vault-creation" /\ vault' # vault =>
             vault.status # "open" /\ vault'.status = "open"
        /\ own.id = "vault-closure" /\ vault' # vault =>
             vault.status = "open" /\ vault'.status = "closedByOwner"
        /\ own.id \notin {"vault-creation", "vault-closure"} => vault'.status = vault.status
    BY <1>1, <1>2, ExecutedVault
  <1>4. fate = "succeeded" /\ own.id # "vault-approve" => vault' # vault
    OBVIOUS
  <1>5. fate \in {"reverted", "succeeded"} /\ (fate # "succeeded" => vault' = vault)
    OBVIOUS
  <1> HIDE DEF fate
  <1>6. own' = OwnTx(own.n, own.type, own.id, own.change, fate)
    BY <1>1, <1>2 DEF TxOK, OwnTx
  <1>7. /\ own'.n = own.n /\ own'.type = own.type /\ own'.id = own.id
        /\ own'.change = own.change /\ own'.fate = fate
    BY <1>6 DEF OwnTx
  <1>8. TxOK(own') /\ Waiting(own')
    BY <1>1, <1>2, <1>6, <1>7 DEF TxOK, Waiting
  <1>9. VaultOK(stored') /\ CardOK' /\ VCard' = VCard
    BY <1>1, SameCard
  <1>10. CardKnows' /\ FlagKnows' /\ AsideKnown'
    BY <1>1, <1>2, <1>7, <1>8, <1>9 DEF VaultInv, CardKnows, FlagKnows, AsideKnown, Changes, ofVault
  <1>11. StatusKnown'
    <2>1. ~Settling
      BY <1>1 DEF Settling
    <2>2. ~surprised /\ view # "CRASHED" => (view \in OpenViews <=> vault.status = "open")
      BY <2>1 DEF VaultInv, StatusKnown
    <2>3. CASE Settling'
      <3>1. fate = "succeeded" /\ own.id \in {"vault-creation", "vault-closure"}
        BY <1>7, <2>3 DEF Settling
      <3>2. vault'.status = "open" <=> vault.status # "open"
        BY <1>3, <1>4, <3>1
      <3> QED
        BY <1>1, <1>7, <2>2, <2>3, <3>2 DEF StatusKnown
    <2>4. CASE ~Settling'
      <3>1. vault'.status = vault.status
        BY <1>1, <1>3, <1>5, <1>7, <2>4 DEF Settling
      <3> QED
        BY <1>1, <1>7, <2>2, <2>4, <3>1 DEF StatusKnown
    <2> QED
      BY <2>3, <2>4
  <1> QED
    BY <1>3, <1>8, <1>9, <1>10, <1>11 DEF VaultInv

\* the same for a transaction that nobody follows,
LEMMA UnseenKeepsVaultInv == VaultInv /\ MinedUnseen => VaultInv'
  <1> SUFFICES ASSUME VaultInv, MinedUnseen PROVE VaultInv'
    OBVIOUS
  <1>1. PICK t \in aside : vault' = Executed(vault, t) /\ aside' = aside \ {t}
    BY DEF MinedUnseen
  <1>2. /\ UNCHANGED <<stored, view, onPage, form, gas, typed, own, overtaken>>
        /\ surprised' <=> surprised \/ vault'.status # vault.status
    BY DEF MinedUnseen
  <1>3. TxOK(t) /\ Waiting(t) /\ VaultOK(vault)
    BY <1>1 DEF VaultInv, AsideKnown
  <1>4. VaultOK(vault')
    BY <1>1, <1>3, ExecutedVault
  <1>5. VaultOK(stored') /\ CardOK' /\ VCard' = VCard
    BY <1>2, SameCard
  <1>6. AsideKnown'
    BY <1>1, <1>2 DEF VaultInv, AsideKnown
  <1>7. CardKnows' /\ FlagKnows'
    BY <1>2, <1>5 DEF VaultInv, CardKnows, FlagKnows
  <1>8. StatusKnown'
    <2>1. Settling' <=> Settling
      BY <1>2 DEF Settling
    <2> QED
      BY <1>2, <2>1 DEF VaultInv, StatusKnown
  <1> QED
    BY <1>2, <1>4, <1>5, <1>6, <1>7, <1>8 DEF VaultInv

\* the state that is idle again,
LEMMA IdleKeepsVaultInv == VaultInv /\ BackToIdle => VaultInv'
  <1> SUFFICES ASSUME VaultInv, BackToIdle PROVE VaultInv'
    OBVIOUS
  <1>1. /\ own.type \in {"confirmed", "failed", "cancelled"} /\ own' = NoTx
        /\ UNCHANGED <<vault, stored, view, onPage, form, gas, typed, surprised, aside, overtaken>>
    BY DEF BackToIdle
  <1>2. ~Waiting(own) /\ TxOK(own') /\ ~Waiting(own') /\ own'.type = "idle"
    BY <1>1, NoTxOK DEF Waiting
  <1>3. VaultOK(stored') /\ CardOK' /\ VCard' = VCard
    BY <1>1, SameCard
  <1>4. ~Settling /\ ~Settling'
    BY <1>2 DEF Settling, Waiting
  <1>5. CardKnows' /\ FlagKnows' /\ StatusKnown' /\ AsideKnown'
    BY <1>1, <1>2, <1>3, <1>4 DEF VaultInv, CardKnows, FlagKnows, StatusKnown, AsideKnown
  <1> QED
    BY <1>1, <1>2, <1>3, <1>5 DEF VaultInv

\* the state used by another card,
LEMMA OtherCardKeepsVaultInv == VaultInv /\ OtherCard => VaultInv'
  <1> SUFFICES ASSUME VaultInv, OtherCard PROVE VaultInv'
    OBVIOUS
  <1>1. /\ own' = NoTx /\ aside' = aside \cup Kept(own)
        /\ surprised' <=> surprised \/ Settling
        /\ overtaken' <=> overtaken \/ Waiting(own)
        /\ UNCHANGED <<vault, stored, view, onPage, form, gas, typed>>
    BY DEF OtherCard
  <1>2. TxOK(own') /\ ~Waiting(own') /\ own'.type = "idle"
    BY <1>1, NoTxOK
  <1>3. VaultOK(stored') /\ CardOK' /\ VCard' = VCard
    BY <1>1, SameCard
  <1>4. ~Settling'
    BY <1>2 DEF Settling
  <1>5. AsideKnown'
    <2>1. /\ \A u \in Kept(own) : TxOK(u) /\ Waiting(u)
          /\ ~Waiting(own) => Kept(own) = {}
      BY KeptTx DEF VaultInv
    <2> QED
      BY <1>1, <2>1 DEF VaultInv, AsideKnown
  <1>6. CardKnows' /\ FlagKnows' /\ StatusKnown'
    BY <1>1, <1>2, <1>3, <1>4 DEF VaultInv, CardKnows, FlagKnows, StatusKnown
  <1> QED
    BY <1>1, <1>2, <1>3, <1>5, <1>6 DEF VaultInv

\* an estimate,
LEMMA EstimateKeepsVaultInv == VaultInv /\ EstimateArrives => VaultInv'
  <1> SUFFICES ASSUME VaultInv, EstimateArrives PROVE VaultInv'
    OBVIOUS
  <1>1. PICK k \in gas.awaited :
          gas' = [gas EXCEPT !.type = "complete", !.awaited = @ \ {k}, !.estimated = k]
    BY DEF EstimateArrives
  <1>2. UNCHANGED <<vault, stored, view, onPage, form, own, aside, typed, surprised, overtaken>>
    BY DEF EstimateArrives, txState
  <1>3. GasOK(gas)
    BY DEF VaultInv, CardOK, GasKnows
  <1>4. gas' = Gas("complete", gas.mounted, gas.change, gas.awaited \ {k}, k)
    BY <1>1, <1>3 DEF GasOK, Gas
  <1>5. /\ gas'.mounted = gas.mounted /\ gas'.change = gas.change
        /\ gas'.awaited = gas.awaited \ {k} /\ gas'.estimated = k /\ gas'.type = "complete"
    BY <1>4 DEF Gas
  <1>6. gas'.mounted => gas.mounted
    BY <1>5
  <1>7. gas' = Gas(gas'.type, gas'.mounted, gas'.change, gas'.awaited, gas'.estimated)
    BY <1>4, <1>5
  <1>8. GasOK(gas')
    BY <1>3, <1>5, <1>6, <1>7 DEF GasOK
  <1>9. GasKnows'
    BY <1>2, <1>5, <1>6, <1>8 DEF VaultInv, CardOK, GasKnows
  <1>10. VCard' = VCard
    BY <1>2 DEF VCard
  <1>11. CardOK'
    <2>1. FormOK(VCard', form', stored')
      BY <1>2, <1>10 DEF VaultInv, CardOK
    <2>2. TypedDifferencesAreKept'
      BY <1>2 DEF VaultInv, CardOK, TypedDifferencesAreKept
    <2> QED
      BY <1>2, <1>9, <2>1, <2>2 DEF VaultInv, CardOK
  <1>12. CardKnows' /\ FlagKnows' /\ StatusKnown' /\ AsideKnown'
    BY <1>2, <1>10 DEF VaultInv, CardKnows, FlagKnows, StatusKnown, AsideKnown, Settling
  <1> QED
    BY <1>2, <1>11, <1>12 DEF VaultInv

\* what other people do to the vault,
LEMMA OthersKeepVaultInv == VaultInv /\ Others => VaultInv'
  <1> SUFFICES ASSUME VaultInv, Others PROVE VaultInv'
    OBVIOUS
  <1> DEFINE trove == troveOf(vault)
             reduced == Trove(trove.collateral - 1, trove.debt - 1)
  <1>1. /\ vault.status = "open" /\ UNCHANGED <<stored, view, onPage, form, own, aside, gas, typed>>
        /\ UNCHANGED overtaken
        /\ surprised' <=> surprised \/ vault'.status # "open"
        /\ \/ vault' = [vault EXCEPT !.gain = Trove(1, 1)]
           \/ /\ netDebt(trove) > MIN_NET_DEBT
              /\ vault' = [vault EXCEPT !.before = reduced, !.gain = emptyTrove]
           \/ \E status \in {"closedByLiquidation", "closedByRedemption"} :
                vault' = Vault(status, emptyTrove, emptyTrove, vault.allowance, TRUE)
    BY DEF Others, txState
  <1>2. VaultOK(vault) /\ vault = Vault(vault.status, vault.before, vault.gain, vault.allowance,
                                        vault.surplus)
    BY DEF VaultInv, VaultOK
  <1>3. /\ trove \in TrovePairs /\ trove.collateral \in Int /\ trove.debt \in Int
        /\ THUSD_GAS_COMPENSATION \in Nat /\ MIN_NET_DEBT \in Nat
    BY <1>2, TroveOfVault, BaseAssumption DEF TrovePairs
  <1>4. /\ emptyTrove \in TrovePairs /\ emptyTrove.debt = 0
        /\ Trove(1, 1) \in TrovePairs /\ Trove(1, 1).debt = 1
    BY DEF emptyTrove, Trove, TrovePairs
  <1>5. "open" \in Statuses /\ {"closedByLiquidation", "closedByRedemption"} \subseteq Statuses
    BY DEF Statuses
  <1>6. VaultOK(vault')
    <2>1. CASE vault' = [vault EXCEPT !.gain = Trove(1, 1)]
      <3>1. vault' = Vault("open", vault.before, Trove(1, 1), vault.allowance, vault.surplus)
        BY <1>1, <1>2, <2>1 DEF Vault
      <3>2. vault.before \in TrovePairs /\ vault.before.debt >= THUSD_GAS_COMPENSATION
        BY <1>1, <1>2 DEF VaultOK
      <3>3. Trove(1, 1).debt >= 0
        BY <1>4
      <3> QED
        BY <1>4, <1>5, <3>1, <3>2, <3>3, MadeVault
    <2>2. CASE /\ netDebt(trove) > MIN_NET_DEBT
               /\ vault' = [vault EXCEPT !.before = reduced, !.gain = emptyTrove]
      <3>1. vault' = Vault("open", reduced, emptyTrove, vault.allowance, vault.surplus)
        BY <1>1, <1>2, <2>2 DEF Vault
      <3>2. reduced \in TrovePairs /\ reduced.debt = trove.debt - 1
        BY <1>3 DEF Trove, TrovePairs
      <3>3. trove.debt - 1 >= THUSD_GAS_COMPENSATION
        BY <1>3, <2>2 DEF netDebt
      <3> HIDE DEF reduced, trove
      <3>4. reduced.debt >= THUSD_GAS_COMPENSATION /\ emptyTrove.debt >= 0
        BY <1>4, <3>2, <3>3
      <3> QED
        BY <1>4, <1>5, <3>1, <3>2, <3>4, MadeVault
    <2>3. CASE \E status \in {"closedByLiquidation", "closedByRedemption"} :
                 vault' = Vault(status, emptyTrove, emptyTrove, vault.allowance, TRUE)
      <3>1. PICK status \in {"closedByLiquidation", "closedByRedemption"} :
              vault' = Vault(status, emptyTrove, emptyTrove, vault.allowance, TRUE)
        BY <2>3
      <3>2. status \in Statuses /\ status # "open"
        BY <1>5
      <3> QED
        BY <1>4, <3>1, <3>2, MadeVault
    <2> QED
      BY <1>1, <2>1, <2>2, <2>3
  <1>7. VaultOK(stored') /\ CardOK' /\ VCard' = VCard
    BY <1>1, SameCard
  <1>8. CardKnows' /\ FlagKnows' /\ AsideKnown'
    BY <1>1, <1>7 DEF VaultInv, CardKnows, FlagKnows, AsideKnown
  <1>9. StatusKnown'
    BY <1>1 DEF VaultInv, StatusKnown, Settling
  <1> QED
    BY <1>1, <1>6, <1>7, <1>8, <1>9 DEF VaultInv

\* The confirmation of a transaction leads to the card of a vault that is open, or of none.
LEMMA ConfirmedCard ==
  ASSUME NEW w \in Views, NEW f, NEW v, FormOK(w, f, v), NEW t, t.id \in TxIds \ {"none"}
  PROVE  LET card == transition(w, ConfirmationEvent(f, t))
         IN  /\ card # w => card \in {"ACTIVE", "NONE"}
             /\ w = "CRASHED" => card = w
             /\ w = "OPENING" /\ t.id = "vault-creation" => card = "ACTIVE"
             /\ w = "CLOSING" /\ t.id = "vault-closure" => card = "NONE"
             /\ w = "CLOSING" /\ t.id # "claim-coll-surplus" => card # w
             /\ t.id \notin {"vault-creation", "vault-closure"} =>
                  (card \in OpenViews <=> w \in OpenViews)
  <1> DEFINE event == ConfirmationEvent(f, t)
             card == transition(w, event)
  <1>1. /\ f.kind = "opening" <=> w = "OPENING"
        /\ f.kind = "adjusting" <=> w = "ADJUSTING"
        /\ f.kind = "manager" <=> w = "CLOSING"
    BY FormKinds
  <1>2. CASE w = "OPENING"
    <2>1. /\ t.id = "vault-creation" => event = "VAULT_OPENED"
          /\ t.id # "vault-creation" => event \in {"VAULT_SURPLUS_COLLATERAL_CLAIMED", "none"}
      BY <1>1, <1>2 DEF ConfirmationEvent
    <2> HIDE DEF event
    <2>2. /\ t.id = "vault-creation" => card = "ACTIVE"
          /\ t.id # "vault-creation" => card = w
      BY <1>2, <2>1 DEF transition
    <2> HIDE DEF card
    <2> QED
      BY <1>2, <2>2 DEF card, event
  <1>3. CASE w = "ADJUSTING"
    <2>1. event \in {"VAULT_ADJUSTED", "VAULT_SURPLUS_COLLATERAL_CLAIMED", "none"}
      BY <1>1, <1>3 DEF ConfirmationEvent
    <2> HIDE DEF event
    <2>2. card = w \/ card = "ACTIVE"
      BY <1>3, <2>1 DEF transition
    <2> HIDE DEF card
    <2> QED
      BY <1>3, <2>2 DEF card, event, OpenViews
  <1>4. CASE w = "CLOSING"
    <2>1. /\ t.id = "vault-closure" => event = "VAULT_CLOSED"
          /\ t.id = "claim-coll-surplus" => event = "VAULT_SURPLUS_COLLATERAL_CLAIMED"
          /\ t.id \notin {"vault-closure", "claim-coll-surplus"} => event = "VAULT_ADJUSTED"
      BY <1>1, <1>4 DEF ConfirmationEvent
    <2> HIDE DEF event
    <2>2. /\ t.id = "vault-closure" => card = "NONE"
          /\ t.id = "claim-coll-surplus" => card = w
          /\ t.id \notin {"vault-closure", "claim-coll-surplus"} => card = "ACTIVE"
      BY <1>4, <2>1 DEF transition
    <2> HIDE DEF card
    <2> QED
      BY <1>4, <2>2 DEF card, event, OpenViews
  <1>5. CASE w \notin {"OPENING", "ADJUSTING", "CLOSING"}
    <2>1. event \in {"VAULT_SURPLUS_COLLATERAL_CLAIMED", "none"}
      BY <1>1, <1>5 DEF ConfirmationEvent
    <2> HIDE DEF event
    <2>2. card = w \/ (w \in {"LIQUIDATED", "REDEEMED"} /\ card = "NONE")
      BY <1>5, <2>1 DEF transition
    <2> HIDE DEF card
    <2> QED
      BY <1>5, <2>2 DEF card, event, OpenViews
  <1> QED
    BY <1>2, <1>3, <1>4, <1>5

\* The card that hears of a vault that was opened or closed is the one that asked for it.
LEMMA HeardByItsCard ==
  ASSUME NEW card, NEW f, NEW v, FormOK(card, f, v), NEW t, ~Unheard(f, t)
  PROVE  /\ t.id = "vault-creation" => card = "OPENING"
         /\ t.id = "vault-closure" => card = "CLOSING"
  <1>1. /\ f.kind = "opening" <=> card = "OPENING"
        /\ f.kind = "manager" <=> card = "CLOSING"
    BY FormKinds
  <1> QED
    BY <1>1 DEF Unheard, ConfirmationEvent

\* A revert that the monitor asks about,
LEMMA AskedKeepsVaultInv ==
  ASSUME VaultInv, Monitored(own), own.fate # "succeeded", own' = [own EXCEPT !.fate = "asked"],
         UNCHANGED <<vault, stored, view, onPage, form, gas, typed, surprised, aside, overtaken>>
  PROVE  VaultInv'
  <1>1. TxOK(own) /\ own.type = "waitingForConfirmation"
    BY DEF VaultInv, Monitored
  <1>2. own' = OwnTx(own.n, own.type, own.id, own.change, "asked")
    BY <1>1 DEF TxOK, OwnTx
  <1>3. /\ own'.n = own.n /\ own'.type = own.type /\ own'.id = own.id
        /\ own'.change = own.change /\ own'.fate = "asked"
    BY <1>2 DEF OwnTx
  <1>4. TxOK(own') /\ (Waiting(own') <=> Waiting(own))
    BY <1>1, <1>2, <1>3 DEF TxOK, Waiting
  <1>5. VaultOK(stored') /\ CardOK' /\ VCard' = VCard
    BY SameCard
  <1>6. ~Settling /\ ~Settling'
    BY <1>3 DEF Settling
  <1>7. CardKnows' /\ AsideKnown'
    BY <1>3, <1>4 DEF VaultInv, CardKnows, AsideKnown
  <1>8. FlagKnows'
    BY <1>3, <1>4, <1>5 DEF VaultInv, FlagKnows, ofVault, Changes
  <1>9. StatusKnown'
    BY <1>1, <1>3, <1>6 DEF VaultInv, StatusKnown
  <1> QED
    BY <1>4, <1>5, <1>7, <1>8, <1>9 DEF VaultInv

\* and the confirmation, which the card hears if there is one.
LEMMA ConfirmedKeepsVaultInv ==
  ASSUME VaultInv, Monitored(own), own.fate = "succeeded", own' = [own EXCEPT !.type = "confirmed"],
         IF onPage THEN Dispatch(ConfirmationEvent(form, own), stored, own')
         ELSE UNCHANGED <<view, form, gas>>,
         surprised' <=> surprised \/ Unheard(form, own),
         UNCHANGED <<vault, stored, onPage, typed, aside, overtaken>>
  PROVE  VaultInv'
  <1>1. /\ TxOK(own) /\ Waiting(own) /\ VaultOK(stored) /\ own.id \in TxIds \ {"none"}
        /\ own.type = "waitingForConfirmation" /\ FormOK(VCard, form, stored)
    BY DEF VaultInv, TxOK, Waiting, Monitored, CardOK
  <1>2. TxOK(own') /\ own'.id = own.id /\ ~Waiting(own') /\ own'.type = "confirmed"
    BY <1>1, RetypedTx
  <1>3. ~Unheard(form, own) =>
          /\ own.id = "vault-creation" => VCard = "OPENING"
          /\ own.id = "vault-closure" => VCard = "CLOSING"
    BY <1>1, HeardByItsCard
  <1>4. ~Settling' /\ (Settling <=> own.id \in {"vault-creation", "vault-closure"})
    BY <1>1, <1>2 DEF Settling
  <1>5. CardKnows' /\ AsideKnown'
    BY <1>2 DEF VaultInv, CardKnows, AsideKnown
  <1>6. CASE ~onPage
    <2>1. UNCHANGED <<view, form, gas>> /\ VCard = "AWAY"
      BY <1>6 DEF VCard
    <2>2. VaultOK(stored') /\ CardOK' /\ VCard' = VCard
      BY <2>1, SameCard
    <2>3. FlagKnows'
      BY <2>1, <2>2 DEF FlagKnows
    <2>4. StatusKnown'
      BY <1>2, <1>3, <1>4, <2>1 DEF VaultInv, StatusKnown
    <2> QED
      BY <1>2, <1>5, <2>2, <2>3, <2>4 DEF VaultInv
  <1>7. CASE onPage
    <2> DEFINE card == transition(view, ConfirmationEvent(form, own))
    <2>1. IF card = view THEN UNCHANGED <<view, form, gas>> ELSE Mount(card, stored, own')
      BY <1>7 DEF Dispatch
    <2>2. VCard = view /\ onPage' = TRUE /\ view \in Views
      BY <1>7 DEF VCard, VaultInv, CardOK
    <2>3. /\ card # view => card \in {"ACTIVE", "NONE"}
          /\ view = "CRASHED" => card = view
          /\ view = "OPENING" /\ own.id = "vault-creation" => card = "ACTIVE"
          /\ view = "CLOSING" /\ own.id = "vault-closure" => card = "NONE"
          /\ view = "CLOSING" /\ own.id # "claim-coll-surplus" => card # view
          /\ own.id \notin {"vault-creation", "vault-closure"} =>
               (card \in OpenViews <=> view \in OpenViews)
      BY <1>1, <2>2, ConfirmedCard
    <2> HIDE DEF card
    <2>4. VaultOK(stored') /\ CardOK' /\ VCard' = view' /\ view' = card
      <3>1. CASE card = view
        <4>1. UNCHANGED <<view, form, gas>>
          BY <2>1, <3>1
        <4> QED
          BY <2>2, <3>1, <4>1, SameCard
      <3>2. CASE card # view
        <4>1. Mount(card, stored, own')
          BY <2>1, <3>2
        <4>2. card \in Views /\ card # "ADJUSTING" /\ card # "OPENING"
          BY <2>3, <3>2 DEF Views
        <4> QED
          BY <1>1, <2>2, <4>1, <4>2, MountedVaultCard
      <3> QED
        BY <3>1, <3>2
    <2>5. StatusKnown'
      <3> SUFFICES ASSUME ~surprised, ~Unheard(form, own), view' # "CRASHED"
                   PROVE  /\ view' \in OpenViews <=> vault.status = "open"
                          /\ own.id = "vault-creation" => view' \in OpenViews
        BY <1>2, <1>4 DEF StatusKnown
      <3>1. view # "CRASHED"
        BY <2>3, <2>4
      <3>2. CASE own.id \in {"vault-creation", "vault-closure"}
        <4>1. view \in OpenViews <=> vault.status # "open"
          BY <1>4, <3>1, <3>2 DEF VaultInv, StatusKnown
        <4> QED
          BY <1>3, <2>2, <2>3, <2>4, <3>2, <4>1 DEF OpenViews
      <3>3. CASE own.id \notin {"vault-creation", "vault-closure"}
        <4>1. view \in OpenViews <=> vault.status = "open"
          BY <1>4, <3>1, <3>3 DEF VaultInv, StatusKnown
        <4> QED
          BY <2>3, <2>4, <3>3, <4>1
      <3> QED
        BY <3>2, <3>3
    <2>6. FlagKnows'
      <3> SUFFICES ASSUME VCard' = "CLOSING", ~overtaken
                   PROVE  ~form'.changePending
        BY <1>2 DEF FlagKnows
      <3>1. card = view /\ view = "CLOSING"
        BY <2>3, <2>4
      <3>2. own.id = "claim-coll-surplus" /\ form' = form
        BY <2>1, <2>3, <3>1
      <3>3. ~form.changePending
        BY <2>2, <3>1, <3>2 DEF VaultInv, FlagKnows, ofVault
      <3> QED
        BY <3>2, <3>3
    <2> QED
      BY <1>2, <1>5, <2>4, <2>5, <2>6 DEF VaultInv
  <1> QED
    BY <1>6, <1>7 DEF VaultInv, CardOK

\* the receipt,
LEMMA ReceiptKeepsVaultInv == VaultInv /\ VaultReceipt => VaultInv'
  <1> SUFFICES ASSUME VaultInv, VaultReceipt PROVE VaultInv'
    OBVIOUS
  <1>1. Monitored(own) /\ UNCHANGED <<vault, stored, onPage, typed, aside, overtaken>>
    BY DEF VaultReceipt
  <1>2. CASE own.fate = "succeeded"
    <2>1. /\ own' = [own EXCEPT !.type = "confirmed"]
          /\ IF onPage THEN Dispatch(ConfirmationEvent(form, own), stored, own')
             ELSE UNCHANGED <<view, form, gas>>
          /\ surprised' <=> surprised \/ Unheard(form, own)
      BY <1>2 DEF VaultReceipt
    <2> QED
      BY <1>1, <1>2, <2>1, ConfirmedKeepsVaultInv
  <1>3. CASE own.fate # "succeeded"
    <2>1. own' = [own EXCEPT !.fate = "asked"] /\ UNCHANGED <<view, form, gas, surprised>>
      BY <1>3 DEF VaultReceipt
    <2> QED
      BY <1>1, <1>3, <2>1, AskedKeepsVaultInv
  <1> QED
    BY <1>2, <1>3

\* and the store that reads the vault.
LEMMA StoreKeepsVaultInv == VaultInv /\ StoreUpdates => VaultInv'
  <1> SUFFICES ASSUME VaultInv, StoreUpdates PROVE VaultInv'
    OBVIOUS
  <1>1. /\ stored' = vault /\ UNCHANGED <<vault, onPage, own, aside, typed, surprised, overtaken>>
        /\ VaultOK(vault) /\ VaultOK(stored) /\ GasOK(gas) /\ view \in Views
    BY DEF StoreUpdates, VaultInv, CardOK, GasKnows, txState
  <1>2. /\ form.kind = "opening" <=> VCard = "OPENING"
        /\ form.kind = "adjusting" <=> VCard = "ADJUSTING"
        /\ form.kind = "manager" <=> VCard = "CLOSING"
    BY FormKinds DEF VaultInv, CardOK
  <1>3. ASSUME NEW f, NEW g, GasOK(g), ShowForm(f, vault, g) PROVE form' = f /\ GasKnows'
    <2>1. /\ form' = f /\ GasOK(gas')
          /\ gas'.mounted => f.kind \in {"opening", "adjusting"}
                             /\ gas'.change = offeredChange(vault, f)
      BY <1>3, ShownForm
    <2> QED
      BY <1>1, <2>1 DEF GasKnows
  <1>4. /\ view' = view => CardKnows' /\ StatusKnown' /\ VCard' = VCard /\ view' \in Views
        /\ AsideKnown' /\ onPage' \in BOOLEAN
    BY <1>1 DEF VaultInv, CardOK, CardKnows, StatusKnown, AsideKnown, Settling, VCard
  <1>5. CASE form.kind = "adjusting" /\ vault.status # "open"
    <2>1. view' = "CRASHED" /\ ShowForm(NoForm, vault, NoGas)
      BY <1>5 DEF StoreUpdates
    <2>2. form' = NoForm /\ GasKnows'
      BY <1>3, <2>1, NoGasOK
    <2>3. VCard' = "CRASHED"
      BY <1>1, <1>2, <1>5, <2>1 DEF VCard
    <2>4. FormOK(VCard', form', stored')
      BY <2>2, <2>3, NoFormOK
    <2>5. TypedDifferencesAreKept'
      BY <2>2 DEF TypedDifferencesAreKept, NoForm
    <2>6. CardKnows' /\ StatusKnown' /\ FlagKnows' /\ view' \in Views
      BY <2>1, <2>3 DEF CardKnows, StatusKnown, FlagKnows, Views
    <2> QED
      BY <1>1, <1>4, <2>2, <2>4, <2>5, <2>6 DEF VaultInv, CardOK
  <1>6. CASE form.kind = "adjusting" /\ vault.status = "open"
    <2>1. /\ ShowForm(adjustingUpdated(form, troveOf(vault)), vault, gas) /\ UNCHANGED view
      BY <1>6 DEF StoreUpdates
    <2>2. form' = adjustingUpdated(form, troveOf(vault)) /\ GasKnows'
      BY <1>1, <1>3, <2>1
    <2>3. /\ stored.status = "open"
          /\ \E x \in Int, y \in Nat : form = AdjustingForm(x, y, troveOf(stored))
      BY <1>2, <1>6 DEF VaultInv, CardOK, FormOK
    <2>4. PICK x \in Int, y \in Nat : form = AdjustingForm(x, y, troveOf(stored))
      BY <2>3
    <2>5. form.collateral = x /\ form.netDebt = y
      BY <2>4 DEF AdjustingForm
    <2>6. /\ x - troveOf(stored).collateral \in {typed.collateral, 0}
          /\ y - netDebt(troveOf(stored)) \in {typed.netDebt, 0}
      BY <1>6, <2>5 DEF VaultInv, CardOK, TypedDifferencesAreKept
    <2>7. PICK x2 \in Int, y2 \in Nat :
            /\ form' = AdjustingForm(x2, y2, troveOf(vault))
            /\ x2 - troveOf(vault).collateral \in {typed.collateral, 0}
            /\ y2 - netDebt(troveOf(vault)) \in {typed.netDebt, 0}
      <3>1. PICK x2 \in Int, y2 \in Nat :
              /\ adjustingUpdated(AdjustingForm(x, y, troveOf(stored)), troveOf(vault))
                   = AdjustingForm(x2, y2, troveOf(vault))
              /\ x2 - troveOf(vault).collateral \in {x - troveOf(stored).collateral, 0}
              /\ y2 - netDebt(troveOf(vault)) \in {y - netDebt(troveOf(stored)), 0}
        BY <1>1, <1>6, <2>3, <2>4, AdjustingUpdates
      <3>2. /\ x2 - troveOf(vault).collateral \in {typed.collateral, 0}
            /\ y2 - netDebt(troveOf(vault)) \in {typed.netDebt, 0}
        BY <2>6, <3>1
      <3> QED
        BY <2>2, <2>4, <3>1, <3>2
    <2>8. FormOK("ADJUSTING", form', stored') /\ form'.collateral = x2 /\ form'.netDebt = y2
      <3>1. LET f == AdjustingForm(x2, y2, troveOf(vault))
            IN  FormOK("ADJUSTING", f, vault) /\ f.collateral = x2 /\ f.netDebt = y2
        BY <1>6, AdjustingFormOK
      <3>2. form' = AdjustingForm(x2, y2, troveOf(vault)) /\ stored' = vault
        BY <1>1, <2>7
      <3> QED
        BY <3>1, <3>2
    <2>9. TypedDifferencesAreKept'
      BY <1>1, <2>7, <2>8 DEF TypedDifferencesAreKept
    <2>10. FlagKnows'
      BY <1>2, <1>4, <1>6, <2>1 DEF FlagKnows
    <2> QED
      BY <1>1, <1>2, <1>4, <1>6, <2>1, <2>2, <2>8, <2>9, <2>10 DEF VaultInv, CardOK
  <1>7. CASE form.kind = "manager"
    <2>1. /\ ShowForm(managerUpdated(form, stored.before, vault), vault, gas) /\ UNCHANGED view
      BY <1>7 DEF StoreUpdates
    <2>2. form' = managerUpdated(form, stored.before, vault) /\ GasKnows'
      BY <1>1, <1>3, <2>1
    <2>3. PICK t \in TrovePairs, e \in TrovePairs, p \in BOOLEAN :
            form = ManagerForm(t, e, p) /\ (e = t \/ e = emptyTrove)
      BY <1>2, <1>7 DEF VaultInv, CardOK, FormOK
    <2>4. form.original = t /\ form.edited = e /\ (form.changePending <=> p)
      BY <2>3, ManagerFormOK
    <2>5. PICK e2 \in TrovePairs, p2 \in BOOLEAN :
            /\ form' = ManagerForm(troveOf(vault), e2, p2)
            /\ e2 = troveOf(vault) \/ e2 = emptyTrove
            /\ p2 => p
            /\ p \/ e = t => p2 \/ e2 = troveOf(vault)
      BY <1>1, <2>2, <2>3, ManagerUpdates
    <2>6. troveOf(vault) \in TrovePairs
      BY <1>1, TroveOfVault
    <2>7. /\ FormOK("CLOSING", form', stored') /\ form'.original = troveOf(vault)
          /\ form'.edited = e2 /\ (form'.changePending <=> p2)
      BY <2>5, <2>6, ManagerFormOK
    <2>8. form'.kind = "manager"
      BY <2>7, FormKinds
    <2>9. TypedDifferencesAreKept'
      BY <2>8 DEF TypedDifferencesAreKept
    <2>10. FlagKnows'
      <3>1. ~overtaken =>
              /\ p => Waiting(own) /\ ofVault(own)
              /\ Waiting(own) /\ Changes(own) => p \/ e = t
        BY <1>2, <1>7, <2>4 DEF VaultInv, FlagKnows
      <3> QED
        BY <1>1, <2>5, <2>7, <3>1 DEF FlagKnows
    <2> QED
      BY <1>1, <1>2, <1>4, <1>7, <2>1, <2>2, <2>7, <2>9, <2>10 DEF VaultInv, CardOK
  <1>8. CASE form.kind \notin {"adjusting", "manager"}
    <2>1. ShowForm(form, vault, gas) /\ UNCHANGED view
      BY <1>8 DEF StoreUpdates
    <2>2. form' = form /\ GasKnows'
      BY <1>1, <1>3, <2>1
    <2>3. FormOK(VCard', form', stored')
      BY <1>2, <1>4, <1>8, <2>1, <2>2 DEF VaultInv, CardOK, FormOK
    <2>4. TypedDifferencesAreKept' /\ FlagKnows'
      BY <1>2, <1>4, <1>8, <2>1, <2>2 DEF TypedDifferencesAreKept, FlagKnows
    <2> QED
      BY <1>1, <1>4, <2>1, <2>2, <2>3, <2>4 DEF VaultInv, CardOK
  <1> QED
    BY <1>5, <1>6, <1>7, <1>8

\* The invariant holds at first,
LEMMA VaultInvInit == PanelInit => VaultInv
  <1> SUFFICES ASSUME PanelInit PROVE VaultInv
    OBVIOUS
  <1>1. /\ stored = vault /\ view = getInitialView(vault.status) /\ form = NoForm /\ own = NoTx
        /\ gas = NoGas /\ onPage = TRUE /\ aside = {}
    BY DEF PanelInit
  <1> DEFINE debt == 2 + THUSD_GAS_COMPENSATION
  <1>2. /\ VaultOK(vault)
        /\ vault.status = "nonExistent" \/ vault.status = "open"
    <2>1. THUSD_GAS_COMPENSATION \in Nat /\ debt \in Int /\ debt >= THUSD_GAS_COMPENSATION
      BY BaseAssumption
    <2> HIDE DEF debt
    <2>2. /\ Trove(2, debt) \in TrovePairs /\ Trove(2, debt).debt = debt
          /\ emptyTrove \in TrovePairs /\ emptyTrove.debt = 0
      BY <2>1 DEF Trove, emptyTrove, TrovePairs
    <2>3. Trove(2, debt).debt >= THUSD_GAS_COMPENSATION /\ emptyTrove.debt >= 0
      BY <2>1, <2>2
    <2>4. "open" \in Statuses /\ "nonExistent" \in Statuses
      BY DEF Statuses
    <2>5. ASSUME NEW s
          PROVE  LET none == Vault("nonExistent", emptyTrove, emptyTrove, 0, s)
                     open == Vault("open", Trove(2, debt), emptyTrove, 0, s)
                 IN  /\ VaultOK(none) /\ none.status = "nonExistent"
                     /\ VaultOK(open) /\ open.status = "open"
      BY <2>2, <2>3, <2>4, MadeVault
    <2>6. /\ vault = Vault("nonExistent", emptyTrove, emptyTrove, 0, FALSE) =>
               VaultOK(vault) /\ vault.status = "nonExistent"
          /\ vault = Vault("open", Trove(2, debt), emptyTrove, 0, FALSE) =>
               VaultOK(vault) /\ vault.status = "open"
      BY <2>5, Zenon
    <2> QED
      BY <2>6 DEF PanelInit, debt
  <1>3. /\ view \in {"NONE", "ACTIVE"} /\ (view = "ACTIVE" <=> vault.status = "open")
    BY <1>1, <1>2 DEF getInitialView
  <1>4. VCard = view /\ FormOK(VCard, form, stored)
    BY <1>1, <1>3, NoFormOK DEF VCard
  <1>5. TxOK(own) /\ ~Waiting(own) /\ own.type = "idle" /\ GasOK(gas) /\ ~gas.mounted
    BY <1>1, NoTxOK, NoGasOK
  <1>6. ~Settling
    BY <1>5 DEF Settling, Waiting
  <1>7. CardKnows /\ StatusKnown /\ FlagKnows /\ GasKnows /\ AsideKnown /\ view \in Views
    BY <1>1, <1>3, <1>4, <1>5, <1>6
       DEF CardKnows, StatusKnown, FlagKnows, GasKnows, AsideKnown, Views, OpenViews
  <1>8. TypedDifferencesAreKept
    BY <1>1 DEF TypedDifferencesAreKept, NoForm
  <1> QED
    BY <1>1, <1>2, <1>4, <1>5, <1>7, <1>8 DEF VaultInv, CardOK

\* and every step keeps it.
LEMMA VaultInvNext == VaultInv /\ [VaultNext]_panelVars => VaultInv'
  <1> SUFFICES ASSUME VaultInv, [VaultNext]_panelVars PROVE VaultInv'
    OBVIOUS
  <1>0. PanelAmounts \subseteq Nat /\ PanelDebts \subseteq Nat
    BY PanelAssumption
  <1>1. form.kind = "opening" => form.collateral \in Nat /\ form.borrow \in Nat
    <2> SUFFICES ASSUME form.kind = "opening" PROVE form.collateral \in Nat /\ form.borrow \in Nat
      OBVIOUS
    <2>1. VCard = "OPENING"
      BY FormKinds DEF VaultInv, CardOK
    <2>2. PICK x \in Nat, y \in Nat, m \in BOOLEAN : form = OpeningForm(x, y, m)
      BY <2>1 DEF VaultInv, CardOK, FormOK
    <2> QED
      BY <2>2 DEF OpeningForm
  <1>2. form.kind = "adjusting" => form.collateral \in Int /\ form.netDebt \in Nat
    <2> SUFFICES ASSUME form.kind = "adjusting"
                 PROVE  form.collateral \in Int /\ form.netDebt \in Nat
      OBVIOUS
    <2>1. VCard = "ADJUSTING"
      BY FormKinds DEF VaultInv, CardOK
    <2>2. PICK x \in Int, y \in Nat : form = AdjustingForm(x, y, troveOf(stored))
      BY <2>1 DEF VaultInv, CardOK, FormOK
    <2> QED
      BY <2>2 DEF AdjustingForm
  <1>3. CASE Press
    BY <1>3, PressKeepsVaultInv
  <1>4. CASE Confirm
    BY <1>4, ConfirmKeepsVaultInv
  <1>5. CASE ApproveErc20
    BY <1>5, ApproveKeepsVaultInv
  <1>6. CASE ClaimCollateralSurplus
    BY <1>6, ClaimKeepsVaultInv
  <1>7. CASE Reload
    BY <1>7, ReloadKeepsVaultInv
  <1>8. CASE form.kind = "opening" /\ \E x \in PanelAmounts : EditOpening(x, form.borrow)
    <2>1. PICK x \in PanelAmounts : EditOpening(x, form.borrow)
      BY <1>8
    <2> QED
      BY <1>0, <1>1, <1>8, <2>1, EditOpeningKeepsVaultInv
  <1>9. CASE form.kind = "opening" /\ \E x \in PanelDebts : EditOpening(form.collateral, x)
    <2>1. PICK x \in PanelDebts : EditOpening(form.collateral, x)
      BY <1>9
    <2> QED
      BY <1>0, <1>1, <1>9, <2>1, EditOpeningKeepsVaultInv
  <1>10. CASE form.kind = "adjusting" /\ \E x \in PanelAmounts : EditAdjusting(x, form.netDebt)
    <2>1. PICK x \in PanelAmounts : EditAdjusting(x, form.netDebt)
      BY <1>10
    <2>2. x \in Int /\ form.netDebt \in Nat
      BY <1>0, <1>2, <1>10
    <2> QED
      BY <2>1, <2>2, EditAdjustingKeepsVaultInv
  <1>11. CASE form.kind = "adjusting" /\ \E x \in PanelDebts : EditAdjusting(form.collateral, x)
    <2>1. PICK x \in PanelDebts : EditAdjusting(form.collateral, x)
      BY <1>11
    <2>2. x \in Nat /\ form.collateral \in Int
      BY <1>0, <1>2, <1>11
    <2> QED
      BY <2>1, <2>2, EditAdjustingKeepsVaultInv
  <1>12. CASE LeavePage
    BY <1>12, LeaveKeepsVaultInv
  <1>13. CASE ReturnToPage
    BY <1>13, ReturnKeepsVaultInv
  <1>14. CASE PanelSteps
    <2>1. CASE WalletAnswers
      BY <2>1, WalletKeepsVaultInv
    <2>2. CASE LateAnswer
      BY <2>2, LateAnswerKeepsVaultInv
    <2>3. CASE Mined
      BY <2>3, MinedKeepsVaultInv
    <2>4. CASE MinedUnseen
      BY <2>4, UnseenKeepsVaultInv
    <2>5. CASE VaultReceipt
      BY <2>5, ReceiptKeepsVaultInv
    <2>6. CASE RevertExplained
      BY <2>6, RevertKeepsVaultInv
    <2>7. CASE NoVaultReceipt
      BY <2>7, NoReceiptKeepsVaultInv
    <2>8. CASE BackToIdle
      BY <2>8, IdleKeepsVaultInv
    <2>9. CASE StoreUpdates
      BY <2>9, StoreKeepsVaultInv
    <2>10. CASE EstimateArrives
      BY <2>10, EstimateKeepsVaultInv
    <2> QED
      BY <1>14, <2>1, <2>2, <2>3, <2>4, <2>5, <2>6, <2>7, <2>8, <2>9, <2>10 DEF PanelSteps
  <1>15. CASE OtherCard
    BY <1>15, OtherCardKeepsVaultInv
  <1>16. CASE Others
    BY <1>16, OthersKeepVaultInv
  <1>17. CASE UNCHANGED panelVars
    <2>1. UNCHANGED <<vault, stored, view, onPage, form, own, aside, gas, typed, surprised, overtaken>>
      BY <1>17 DEF panelVars, txState
    <2>2. VaultOK(stored') /\ CardOK' /\ VCard' = VCard
      BY <2>1, SameCard
    <2>3. CardKnows' /\ StatusKnown' /\ FlagKnows' /\ AsideKnown'
      BY <2>1, <2>2 DEF VaultInv, CardKnows, StatusKnown, FlagKnows, AsideKnown, Settling
    <2> QED
      BY <2>1, <2>2, <2>3 DEF VaultInv
  <1> QED
    BY <1>3, <1>4, <1>5, <1>6, <1>7, <1>8, <1>9, <1>10, <1>11, <1>12, <1>13, <1>14, <1>15, <1>16,
       <1>17 DEF VaultNext

\* The invariant is what the panel promises, and what that takes.
LEMMA VaultInvSuffices == VaultInv => VaultPanelAgrees
  <1> SUFFICES ASSUME VaultInv PROVE VaultPanelAgrees
    OBVIOUS
  <1>1. ViewAgrees
    <2> SUFFICES ASSUME ~surprised, ~Waiting(own), view # "CRASHED"
                 PROVE  (view \in {"ACTIVE", "ADJUSTING", "CLOSING"}) <=> vault.status = "open"
      BY DEF ViewAgrees
    <2>1. ~Settling
      BY DEF Settling, Waiting
    <2> QED
      BY <2>1 DEF VaultInv, StatusKnown, OpenViews
  <1>2. OneChangeAtATime
    BY NothingTwice DEF OneChangeAtATime
  <1>3. OverlayMeansWaiting
    <2>1. ~overtaken /\ form.kind = "manager" => (form.changePending => Waiting(own))
      BY FormKinds DEF VaultInv, CardOK, FlagKnows
    <2> QED
      BY <2>1 DEF OverlayMeansWaiting, Overlay
  <1>4. TypedDifferencesAreKept
    BY DEF VaultInv, CardOK
  <1>5. EstimateIsCurrent
    BY DEF VaultInv, CardOK, GasKnows, GasOK, EstimateIsCurrent
  <1> QED
    BY <1>1, <1>2, <1>3, <1>4, <1>5 DEF VaultPanelAgrees

\* VaultViewProvider, Opening, Adjusting and VaultManager with ExpensiveVaultChangeWarning:
\* in whatever order the store, the wallet, the chain and other people act and the page
\* is left and entered again, for all amounts and constants, the card agrees with the
\* vault once nothing is under way and every opening and closing was told to a card, no
\* second change is offered while one is under way and an overlay stands for a
\* transaction to wait for unless the shared state was used for something else, the form
\* of Adjusting keeps what was typed, and the estimate shown is of the change on the card.
THEOREM VaultPanelAlwaysAgrees == VaultSpec => []VaultPanelAgrees
  <1>1. PanelInit => VaultInv
    BY VaultInvInit
  <1>2. VaultInv /\ [VaultNext]_panelVars => VaultInv'
    BY VaultInvNext
  <1>3. VaultInv => VaultPanelAgrees
    BY VaultInvSuffices
  <1> QED
    BY <1>1, <1>2, <1>3, PTL DEF VaultSpec

-----------------------------------------------------------------------------
(***************************************************************************)
(* The shared transaction state.  What is said of confirmed and of waiting *)
(* states is inductive.  ButtonsWait is not: while nothing has overlapped, *)
(* wallet, monitor and reasons hold at most the transaction that the state *)
(* is about.                                                               *)
(***************************************************************************)

\* The transaction that is under way is the one that is shown.
OneIsShown ==
  \/ wallet = {} /\ monitor = Nothing /\ reasons = {} /\ ~IsPending(shown)
  \/ \E s : /\ wallet = {s} /\ s.key \in Keys /\ monitor = Nothing /\ reasons = {}
            /\ shown = State("waitingForApproval", s)
  \/ /\ wallet = {} /\ monitor # Nothing /\ reasons = {}
     /\ shown = State("waitingForConfirmation", monitor)
  \/ \E r : /\ wallet = {} /\ monitor = Nothing /\ reasons = {r}
            /\ shown = State("waitingForConfirmation", r[2])

\* What is monitored was sent.
FatesKnown ==
  /\ \A n \in DOMAIN fates : fates[n] \in Fates
  /\ monitor # Nothing => monitor.n \in DOMAIN fates
  /\ IsMonitored(shown) => shown.send.n \in DOMAIN fates

\* The inductive invariant.
TxInv ==
  /\ FatesKnown
  /\ ConfirmedMeansSucceeded
  /\ WaitingIsMonitored
  /\ disturbed \in BOOLEAN
  /\ ~disturbed => OneIsShown

\* A state and the send it is about.
LEMMA StateFields ==
  ASSUME NEW type, NEW s
  PROVE  State(type, s).type = type /\ State(type, s).send = s
BY DEF State

\* The possible outcomes of a change of the shared state.
LEMMA SetStateOutcome ==
  ASSUME NEW s, NEW m, SetState(s, m)
  PROVE  \/ shown' = s /\ monitor' = (IF IsMonitored(s) THEN s.send ELSE Nothing) /\ m = Nothing
         \/ \E key : shown' = Idle(key) /\ monitor' = Nothing /\ m # Nothing
BY DEF SetState

\* An idle state is neither confirmed nor pending.
LEMMA IdleIsIdle ==
  ASSUME NEW key
  PROVE  /\ Idle(key).type # "confirmed" /\ ~IsMonitored(Idle(key)) /\ ~IsPending(Idle(key))
BY StateFields DEF Idle, IsMonitored, IsPending

\* A change to a state that is not confirmed.
LEMMA SetOther ==
  ASSUME NEW type, NEW s, NEW m, SetState(State(type, s), m), type # "confirmed",
         \A n \in DOMAIN fates' : fates'[n] \in Fates,
         type = "waitingForConfirmation" => s.n \in DOMAIN fates'
  PROVE  ConfirmedMeansSucceeded' /\ WaitingIsMonitored' /\ FatesKnown'
  <1> DEFINE t == State(type, s)
  <1>1. t.type = type /\ t.send = s
    BY StateFields
  <1> HIDE DEF t
  <1>2. SetState(t, m)
    BY DEF t
  <1>3. CASE shown' = t /\ monitor' = (IF IsMonitored(t) THEN t.send ELSE Nothing)
    <2>1. ConfirmedMeansSucceeded' /\ WaitingIsMonitored'
      BY <1>1, <1>3 DEF ConfirmedMeansSucceeded, WaitingIsMonitored, IsMonitored
    <2>2. FatesKnown'
      BY <1>1, <1>3 DEF FatesKnown, IsMonitored
    <2> QED
      BY <2>1, <2>2
  <1>4. CASE \E key : shown' = Idle(key) /\ monitor' = Nothing
    BY <1>4, IdleIsIdle DEF ConfirmedMeansSucceeded, WaitingIsMonitored, IsMonitored, FatesKnown
  <1> QED
    BY <1>2, <1>3, <1>4, SetStateOutcome

\* It holds in the first state.
LEMMA TxInitInv == TxInit => TxInv
BY IdleIsIdle DEF TxInit, TxInv, FatesKnown, ConfirmedMeansSucceeded, WaitingIsMonitored,
                  OneIsShown, IsMonitored

\* A send keeps it.
LEMMA SendKeeps ==
  ASSUME TxInv, NEW id, NEW key \in Keys, NEW looksAt, SendTransaction(id, key, looksAt),
         ~(looksAt /\ IsPending(shown))
  PROVE  TxInv'
  <1>1. PICK s : /\ s.key = key /\ wallet' = wallet \cup {s}
                 /\ SetState(State("waitingForApproval", s), monitor)
    BY DEF SendTransaction, Send
  <1>2. /\ disturbed' = (disturbed \/ (IsPending(shown) /\ ~looksAt))
        /\ reasons' = reasons /\ fates' = fates
    BY DEF SendTransaction
  <1>3. ConfirmedMeansSucceeded' /\ WaitingIsMonitored' /\ FatesKnown'
    <2>1. \A n \in DOMAIN fates' : fates'[n] \in Fates
      BY <1>2 DEF TxInv, FatesKnown
    <2> QED
      BY <1>1, <2>1, SetOther
  <1>4. disturbed' \in BOOLEAN
    BY <1>2
  <1>5. ASSUME ~disturbed' PROVE OneIsShown'
    <2>1. wallet = {} /\ monitor = Nothing /\ reasons = {}
      <3>1. ~disturbed /\ ~IsPending(shown)
        BY <1>2, <1>5
      <3>2. OneIsShown
        BY <3>1 DEF TxInv
      <3> QED
        BY <3>1, <3>2, StateFields DEF OneIsShown, IsPending
    <2> DEFINE t == State("waitingForApproval", s)
    <2>2. ~IsMonitored(t)
      BY StateFields DEF IsMonitored
    <2>3. shown' = t /\ monitor' = Nothing
      BY <1>1, <2>1, <2>2 DEF SetState
    <2>4. wallet' = {s} /\ reasons' = {}
      BY <1>1, <1>2, <2>1
    <2> QED
      BY <1>1, <2>3, <2>4 DEF OneIsShown
  <1> QED
    BY <1>3, <1>4, <1>5 DEF TxInv

\* An answer of the wallet keeps it.
LEMMA AnswerKeeps ==
  ASSUME TxInv, NEW s \in wallet, NEW type \in {"waitingForConfirmation", "cancelled", "failed"},
         wallet' = wallet \ {s}, SetState(State(type, s), monitor),
         NEW fate \in Fates,
         fates' = [n \in DOMAIN fates \cup {s.n} |-> IF n = s.n THEN fate ELSE fates[n]],
         UNCHANGED <<reasons, disturbed>>
  PROVE  TxInv'
  <1> DEFINE t == State(type, s)
  <1>0. t.type = type /\ t.send = s
    BY StateFields
  <1>1. ConfirmedMeansSucceeded' /\ WaitingIsMonitored' /\ FatesKnown'
    <2>1. s.n \in DOMAIN fates' /\ \A n \in DOMAIN fates' : fates'[n] \in Fates
      BY DEF TxInv, FatesKnown
    <2> QED
      BY <2>1, SetOther
  <1>2. ASSUME ~disturbed' PROVE OneIsShown'
    <2>1. OneIsShown
      BY <1>2 DEF TxInv
    <2>2. wallet = {s} /\ s.key \in Keys /\ monitor = Nothing /\ reasons = {}
      BY <2>1 DEF OneIsShown
    <2>3. wallet' = {} /\ reasons' = {}
      BY <2>2
    <2>4. shown' = t /\ monitor' = (IF IsMonitored(t) THEN s ELSE Nothing)
      BY <1>0, <2>2, SetStateOutcome
    <2> HIDE DEF t
    <2>5. CASE type = "waitingForConfirmation"
      <3>1. s # Nothing
        BY <2>2, TxAssumption DEF Nothing, NoSend, Send
      <3>2. monitor' = s
        BY <1>0, <2>4, <2>5 DEF IsMonitored
      <3>3. shown' = State("waitingForConfirmation", monitor')
        BY <2>4, <2>5, <3>2 DEF t
      <3> QED
        BY <2>3, <3>1, <3>2, <3>3 DEF OneIsShown
    <2>6. CASE type # "waitingForConfirmation"
      <3>1. ~IsPending(t) /\ ~IsMonitored(t)
        BY <1>0, <2>6 DEF IsPending, IsMonitored
      <3> QED
        BY <2>3, <2>4, <3>1 DEF OneIsShown, IsPending
    <2> QED
      BY <2>5, <2>6
  <1> QED
    BY <1>1, <1>2 DEF TxInv

\* A receipt keeps it.
LEMMA ReceiptKeeps ==
  ASSUME TxInv, Receipt
  PROVE  TxInv'
  <1> DEFINE result == WaitForReceipt(fates[monitor.n])
  <1>1. monitor # Nothing /\ wallet' = wallet /\ fates' = fates /\ disturbed' = disturbed
    BY DEF Receipt
  <1>2. ~disturbed => /\ wallet = {} /\ reasons = {}
                      /\ shown = State("waitingForConfirmation", monitor)
    BY <1>1 DEF TxInv, OneIsShown
  <1>3. CASE result = "reverted"
    <2>1. /\ monitor' = Nothing /\ shown' = shown
          /\ reasons' = reasons \cup {<<reconnects, monitor>>}
      BY <1>3 DEF Receipt
    <2>2. ConfirmedMeansSucceeded' /\ FatesKnown'
      BY <1>1, <2>1 DEF TxInv, ConfirmedMeansSucceeded, FatesKnown
    <2>3. WaitingIsMonitored'
      <3>1. <<reconnects, monitor>> \in reasons' /\ <<reconnects, monitor>>[2] = monitor
        BY <2>1
      <3> QED
        BY <2>1, <3>1 DEF TxInv, WaitingIsMonitored
    <2>4. ~disturbed' => OneIsShown'
      <3> DEFINE r == <<reconnects, monitor>>
      <3>1. r[2] = monitor
        OBVIOUS
      <3> HIDE DEF r
      <3>2. reasons' = reasons \cup {r}
        BY <2>1 DEF r
      <3> QED
        BY <1>1, <1>2, <2>1, <3>1, <3>2 DEF OneIsShown
    <2> QED
      BY <1>1, <2>2, <2>3, <2>4 DEF TxInv
  <1>4. CASE result # "reverted"
    <2>1. PICK type : /\ type = "confirmed" => result = "succeeded"
                      /\ type \notin {"waitingForApproval", "waitingForConfirmation"}
                      /\ SetState(State(type, monitor), Nothing) /\ reasons' = reasons
      <3>1. CASE result = "succeeded"
        BY <1>4, <3>1 DEF Receipt
      <3>2. CASE result # "succeeded"
        <4>1. SetState(State(result, monitor), Nothing) /\ reasons' = reasons
          BY <1>4, <3>2 DEF Receipt
        <4>2. result \notin {"confirmed", "waitingForApproval", "waitingForConfirmation"}
          <5> DEFINE f == fates[monitor.n]
          <5>0. f \in Fates
            BY <1>1 DEF TxInv, FatesKnown
          <5>1. CASE f = "mined" \/ f = "repriced"
            BY <3>2, <5>1 DEF WaitForReceipt
          <5>2. CASE f \in {"reverted", "replaced", "lost"}
            BY <5>2 DEF WaitForReceipt
          <5> QED
            BY <5>0, <5>1, <5>2 DEF Fates
        <4> QED
          BY <4>1, <4>2
      <3> QED
        BY <3>1, <3>2
    <2> DEFINE t == State(type, monitor)
    <2>2. t.type = type /\ t.send = monitor
      BY StateFields
    <2>3. ~IsMonitored(t) /\ ~IsPending(t)
      BY <2>1, <2>2 DEF IsMonitored, IsPending
    <2>4. shown' = t /\ monitor' = Nothing
      BY <2>1, <2>3 DEF SetState
    <2>5. ConfirmedMeansSucceeded'
      BY <1>1, <2>1, <2>2, <2>4 DEF ConfirmedMeansSucceeded
    <2> HIDE DEF t
    <2>6. WaitingIsMonitored' /\ (~disturbed' => OneIsShown')
      BY <1>1, <1>2, <2>1, <2>3, <2>4 DEF WaitingIsMonitored, OneIsShown, IsMonitored, IsPending
    <2>7. FatesKnown'
      BY <1>1, <2>3, <2>4 DEF TxInv, FatesKnown, IsMonitored
    <2> QED
      BY <1>1, <2>5, <2>6, <2>7 DEF TxInv
  <1> QED
    BY <1>3, <1>4

\* The reason of a revert, and a provider that changes, keep it.
LEMMA LateKeeps ==
  ASSUME TxInv, ProviderChanges \/ Timeout \/ \E r \in reasons : RevertReason(r)
  PROVE  TxInv'
  <1>1. CASE \E r \in reasons : RevertReason(r)
    <2>1. PICK r \in reasons : RevertReason(r)
      BY <1>1
    <2>2. /\ reasons' = reasons \ {r} /\ SetState(State("failed", r[2]), monitor)
          /\ wallet' = wallet /\ fates' = fates /\ disturbed' = disturbed
      BY <2>1 DEF RevertReason
    <2>3. ConfirmedMeansSucceeded' /\ WaitingIsMonitored' /\ FatesKnown'
      <3>1. \A n \in DOMAIN fates' : fates'[n] \in Fates
        BY <2>2 DEF TxInv, FatesKnown
      <3> QED
        BY <2>2, <3>1, SetOther
    <2>4. ASSUME ~disturbed PROVE OneIsShown'
      <3>1. wallet = {} /\ monitor = Nothing /\ reasons = {r}
        BY <2>4 DEF TxInv, OneIsShown
      <3> DEFINE t == State("failed", r[2])
      <3>2. ~IsMonitored(t) /\ ~IsPending(t)
        BY StateFields DEF IsMonitored, IsPending
      <3> HIDE DEF t
      <3>3. SetState(t, monitor)
        BY <2>2 DEF t
      <3>4. shown' = t /\ monitor' = Nothing /\ reasons' = {}
        BY <2>2, <3>1, <3>2, <3>3 DEF SetState
      <3> QED
        BY <2>2, <3>1, <3>2, <3>4 DEF OneIsShown, IsPending
    <2> QED
      BY <2>2, <2>3, <2>4 DEF TxInv
  <1>2. CASE Timeout
    <2>1. /\ SetState(Idle(shown.send.key), monitor) /\ reasons' = reasons
          /\ wallet' = wallet /\ fates' = fates /\ disturbed' = disturbed
          /\ shown.type \in {"confirmed", "failed", "cancelled"}
      BY <1>2 DEF Timeout
    <2>2. PICK key : shown' = Idle(key) /\ monitor' = Nothing
      BY <2>1, IdleIsIdle, SetStateOutcome
    <2>3. ConfirmedMeansSucceeded' /\ WaitingIsMonitored' /\ FatesKnown'
      BY <2>1, <2>2, IdleIsIdle
      DEF TxInv, ConfirmedMeansSucceeded, WaitingIsMonitored, FatesKnown, IsMonitored
    <2>4. ASSUME ~disturbed PROVE OneIsShown'
      <3>1. wallet = {} /\ reasons = {}
        BY <2>1, <2>4, StateFields DEF TxInv, OneIsShown
      <3> QED
        BY <2>1, <2>2, <3>1, IdleIsIdle DEF OneIsShown, IsPending
    <2> QED
      BY <2>1, <2>3, <2>4 DEF TxInv
  <1>3. CASE ProviderChanges
    <2>1. /\ SetState(shown, monitor) /\ reasons' = reasons /\ wallet' = wallet /\ fates' = fates
          /\ disturbed' = (disturbed \/ IsPending(shown))
      BY <1>3 DEF ProviderChanges
    <2>2. CASE monitor # Nothing
      <3>1. PICK key : shown' = Idle(key) /\ monitor' = Nothing
        BY <2>1, <2>2, SetStateOutcome
      <3>2. ConfirmedMeansSucceeded' /\ WaitingIsMonitored' /\ FatesKnown'
        BY <2>1, <3>1, IdleIsIdle
        DEF TxInv, ConfirmedMeansSucceeded, WaitingIsMonitored, FatesKnown, IsMonitored
      <3>3. disturbed'
        <4>1. ASSUME ~disturbed PROVE IsPending(shown)
          <5>1. shown = State("waitingForConfirmation", monitor)
            BY <2>2, <4>1 DEF TxInv, OneIsShown
          <5>2. shown.type = "waitingForConfirmation"
            BY <5>1, StateFields
          <5> QED
            BY <5>2 DEF IsPending
        <4> QED
          BY <2>1, <4>1
      <3> QED
        BY <2>1, <3>2, <3>3 DEF TxInv
    <2>3. CASE monitor = Nothing
      <3>1. shown' = shown /\ monitor' = (IF IsMonitored(shown) THEN shown.send ELSE Nothing)
        BY <2>1, <2>3 DEF SetState
      <3>2. ConfirmedMeansSucceeded' /\ WaitingIsMonitored'
        BY <2>1, <3>1 DEF TxInv, ConfirmedMeansSucceeded, WaitingIsMonitored, IsMonitored
      <3>3. FatesKnown'
        BY <2>1, <3>1 DEF TxInv, FatesKnown, IsMonitored
      <3>4. ASSUME ~disturbed' PROVE OneIsShown'
        <4>1. wallet = {} /\ reasons = {} /\ ~IsPending(shown)
          <5>1. ~disturbed /\ ~IsPending(shown)
            BY <2>1, <3>4
          <5>2. \A s : shown # State("waitingForApproval", s) /\ shown # State("waitingForConfirmation", s)
            BY <5>1, StateFields DEF IsPending
          <5>3. OneIsShown
            BY <5>1 DEF TxInv
          <5> QED
            BY <5>1, <5>2, <5>3 DEF OneIsShown
        <4> QED
          BY <2>1, <3>1, <4>1 DEF OneIsShown, IsPending, IsMonitored
      <3> QED
        BY <2>1, <3>2, <3>3, <3>4 DEF TxInv
    <2> QED
      BY <2>2, <2>3
  <1> QED
    BY <1>1, <1>2, <1>3

\* Every step keeps it.
LEMMA TxNextInv == TxInv /\ [TxNext]_txVars => TxInv'
  <1> SUFFICES ASSUME TxInv, [TxNext]_txVars PROVE TxInv'
    OBVIOUS
  <1>1. CASE \E id \in ButtonIds, key \in Keys : PressButton(id, key)
    <2>1. PICK id \in ButtonIds, key \in Keys : PressButton(id, key)
      BY <1>1
    <2> QED
      BY <2>1, SendKeeps DEF PressButton
  <1>2. CASE \E id \in FormIds, key \in Keys : PressForm(id, key)
    <2>1. PICK id \in FormIds, key \in Keys : PressForm(id, key)
      BY <1>2
    <2> DEFINE looksAt == checkTransactionCollateral(shown, key) /\ shown.send.id = id
    <2>2. SendTransaction(id, key, looksAt) /\ ~IsPending(MyTransactionState(id, key))
      BY <2>1 DEF PressForm
    <2>3. ~(looksAt /\ IsPending(shown))
      BY <2>2 DEF MyTransactionState
    <2> HIDE DEF looksAt
    <2> QED
      BY <2>2, <2>3, SendKeeps
  <1>3. CASE \E send \in wallet, fate \in Fates : Approve(send, fate)
    <2>1. PICK send \in wallet, fate \in Fates : Approve(send, fate)
      BY <1>3
    <2> QED
      BY <2>1, AnswerKeeps DEF Approve
  <1>4. CASE \E send \in wallet, type \in {"cancelled", "failed"} : Deny(send, type)
    <2>1. PICK send \in wallet, type \in {"cancelled", "failed"} : Deny(send, type)
      BY <1>4
    <2>2. "lost" \in Fates
      BY DEF Fates
    <2> QED
      BY <2>1, <2>2, AnswerKeeps DEF Deny
  <1>5. CASE ProviderChanges \/ Timeout \/ \E r \in reasons : RevertReason(r)
    BY <1>5, LateKeeps
  <1>6. CASE Receipt
    BY <1>6, ReceiptKeeps
  <1>7. CASE UNCHANGED txVars
    BY <1>7 DEF txVars, TxInv, FatesKnown, ConfirmedMeansSucceeded, WaitingIsMonitored,
               OneIsShown, IsMonitored, IsPending
  <1> QED
    BY <1>1, <1>2, <1>3, <1>4, <1>5, <1>6, <1>7 DEF TxNext, TxSteps

\* It says that the buttons wait.
LEMMA OneIsEnough ==
  ASSUME TxInv
  PROVE  ButtonsWait
  <1> SUFFICES ASSUME ~disturbed
               PROVE  /\ Cardinality(wallet) + Cardinality({monitor} \ {Nothing})
                           + Cardinality(reasons) <= 1
                      /\ wallet # {} => shown.type = "waitingForApproval"
    BY DEF ButtonsWait
  <1>1. OneIsShown
    BY DEF TxInv
  <1>2. Cardinality({}) = 0 /\ \A x : Cardinality({x}) = 1
    BY FS_EmptySet, FS_Singleton
  <1>3. /\ monitor = Nothing => {monitor} \ {Nothing} = {}
        /\ monitor # Nothing => {monitor} \ {Nothing} = {monitor}
    OBVIOUS
  <1>4. \/ wallet = {} /\ monitor = Nothing /\ reasons = {}
        \/ \E s : wallet = {s} /\ monitor = Nothing /\ reasons = {}
        \/ wallet = {} /\ monitor # Nothing /\ reasons = {}
        \/ \E r : wallet = {} /\ monitor = Nothing /\ reasons = {r}
    BY <1>1 DEF OneIsShown
  <1>5. wallet # {} => shown.type = "waitingForApproval"
    BY <1>1, StateFields DEF OneIsShown
  <1>6. Cardinality(wallet) + Cardinality({monitor} \ {Nothing}) + Cardinality(reasons) <= 1
    <2>1. CASE wallet = {} /\ monitor = Nothing /\ reasons = {}
      BY <1>2, <1>3, <2>1
    <2>2. CASE \E s : wallet = {s} /\ monitor = Nothing /\ reasons = {}
      <3>1. PICK s : wallet = {s} /\ monitor = Nothing /\ reasons = {}
        BY <2>2
      <3>2. Cardinality(wallet) = 1 /\ Cardinality(reasons) = 0
        BY <1>2, <3>1
      <3>3. Cardinality({monitor} \ {Nothing}) = 0
        BY <1>2, <1>3, <3>1
      <3> QED
        BY <3>2, <3>3
    <2>3. CASE wallet = {} /\ monitor # Nothing /\ reasons = {}
      BY <1>2, <1>3, <2>3
    <2>4. CASE \E r : wallet = {} /\ monitor = Nothing /\ reasons = {r}
      <3>1. PICK r : wallet = {} /\ monitor = Nothing /\ reasons = {r}
        BY <2>4
      <3>2. Cardinality(wallet) = 0 /\ Cardinality(reasons) = 1
        BY <1>2, <3>1
      <3>3. Cardinality({monitor} \ {Nothing}) = 0
        BY <1>2, <1>3, <3>1
      <3> QED
        BY <3>2, <3>3
    <2> QED
      BY <1>4, <2>1, <2>2, <2>3, <2>4
  <1> QED
    BY <1>5, <1>6

\* Transaction.tsx, for any number of buttons, forms, collaterals, sends and changes of
\* provider: confirmed is shown only of a transaction that succeeded, whoever is told to
\* wait for a confirmation waits for something, and whatever is done by those who look at
\* the transaction that is shown, at most one is open.
THEOREM TransactionsStayFollowed ==
  TxSpec => []ConfirmedMeansSucceeded /\ []WaitingIsMonitored /\ []ButtonsWait
  <1>1. TxInv => ConfirmedMeansSucceeded /\ WaitingIsMonitored /\ ButtonsWait
    BY OneIsEnough DEF TxInv
  <1> QED
    BY <1>1, TxInitInv, TxNextInv, PTL DEF TxSpec

-----------------------------------------------------------------------------
(***************************************************************************)
(* The gate before the application, and what it shows.  GateAgrees is      *)
(* inductive.  That counting the loaded stores is enough needs that they   *)
(* are different stores of the present connections, which is so because    *)
(* only these have onLoaded, and a store that is loaded is not collected   *)
(* again.                                                                  *)
(***************************************************************************)

\* What the manager's new state makes of the gate, unless it stays active or inactive
\* without an error.
LEMMA ManagerAgrees ==
  ASSUME (connectionType = "active") = active, NEW act \in BOOLEAN, NEW error \in Errors \cup {"none"},
         ManagerBecomes(act, error), act => error = "none", ~act /\ error = "none" => active
  PROVE  (connectionType' = "active") = active' /\ connectionType' # "activating"
  <1>1. active \in BOOLEAN /\ (connectionType = "active" <=> active)
    OBVIOUS
  <1>2. /\ active' = act
        /\ connectionType' = afterActive(afterError(connectionType, error), active, act)
    BY DEF ManagerBecomes
  <1>3. error = "none" => afterError(connectionType, error) = connectionType
    BY DEF afterError
  <1>4. error # "none" =>
          afterError(connectionType, error)
            \in {"inactive", "rejectedByUser", "alreadyPending", "failed"}
    <2> SUFFICES ASSUME error \in Errors
                 PROVE  connectionReducer(connectionType, error)
                          \in {"inactive", "rejectedByUser", "alreadyPending", "failed"}
      BY DEF afterError, Errors
    <2>1. error = "user rejected" \/ error = "already pending" \/ error = "other"
      BY DEF Errors
    <2>2. error \notin {"startActivating", "finishActivating"}
      BY <2>1
    <2> QED
      BY <2>1, <2>2 DEF connectionReducer
  <1>5. connectionReducer(afterError(connectionType, error), "finishActivating") = "active"
    BY DEF connectionReducer
  <1>6. connectionReducer(afterError(connectionType, error), "deactivate") = "inactive"
    BY DEF connectionReducer
  <1>7. CASE act
    <2>1. connectionType' = "active"
      <3>1. CASE active
        BY <1>1, <1>2, <1>3, <1>7, <3>1 DEF afterActive
      <3>2. CASE ~active
        BY <1>1, <1>2, <1>5, <1>7, <3>2 DEF afterActive
      <3> QED
        BY <3>1, <3>2
    <2> QED
      BY <1>2, <1>7, <2>1
  <1>8. CASE ~act
    <2>1. connectionType' \in {"inactive", "rejectedByUser", "alreadyPending", "failed"}
      <3>1. CASE active
        BY <1>1, <1>2, <1>6, <1>8, <3>1 DEF afterActive
      <3>2. CASE ~active
        BY <1>1, <1>2, <1>4, <1>8, <3>2 DEF afterActive
      <3> QED
        BY <3>1, <3>2
    <2>2. connectionType' # "active" /\ connectionType' # "activating"
      BY <2>1
    <2> QED
      BY <1>2, <1>8, <2>2
  <1> QED
    BY <1>7, <1>8

\* The networks that the fallbacks tell apart.
Networks == {"mainnet", "sepolia", "other"}

\* The Connect button is there only for a wallet that is not connected.
LEMMA ConnectScreen ==
  ASSUME network \in Networks, Screen = "connect"
  PROVE  connectionType # "active"
  <1> SUFFICES ASSUME connectionType = "active" PROVE FALSE
    OBVIOUS
  <1>1. CASE ~tried
    <2>1. Screen = "loader"
      BY <1>1 DEF Screen
    <2> QED
      BY <2>1
  <1>2. CASE tried /\ configPromise \notin {"parsed", "default"}
    <2>1. Screen = "loader"
      BY <1>2 DEF Screen
    <2> QED
      BY <2>1
  <1>3. CASE tried /\ configPromise \in {"parsed", "default"}
    <2>1. Screen \in {"unsupportedMainnet", "unsupportedNetwork", "application"}
      BY <1>3 DEF Screen, Networks
    <2> QED
      BY <2>1
  <1> QED
    BY <1>1, <1>2, <1>3

\* The inductive invariant: no activation began after the manager's last change, and the
\* state is "activating" exactly while one began since.
GateInv ==
  /\ (connectionType = "active") = active
  /\ Counting <=> connectionType = "activating"
  /\ managerRenders \in Nat
  /\ \A a \in activations : a.since \in 0..managerRenders
  /\ network \in Networks

\* A change of the manager makes every activation that is under way stale.
LEMMA ManagerForgets ==
  ASSUME GateInv, NEW act \in BOOLEAN, NEW error \in Errors \cup {"none"}, ManagerBecomes(act, error),
         activations' \subseteq activations
  PROVE  /\ managerRenders' \in Nat /\ ~Counting'
         /\ \A a \in activations' : a.since \in 0..managerRenders'
  <1>1. managerRenders' \in Nat /\ managerRenders' > managerRenders
    BY DEF GateInv, ManagerBecomes
  <1>2. \A a \in activations' : a.since \in Nat /\ a.since <= managerRenders
    BY DEF GateInv
  <1> QED
    BY <1>1, <1>2 DEF GateInv, Counting

\* And so every such change keeps the invariant.
LEMMA ManagerKeeps ==
  ASSUME GateInv, NEW act \in BOOLEAN, NEW error \in Errors \cup {"none"}, ManagerBecomes(act, error),
         act => error = "none", ~act /\ error = "none" => active,
         activations' \subseteq activations, network' = network
  PROVE  GateInv'
  <1>1. (connectionType = "active") = active
    BY DEF GateInv
  <1>2. (connectionType' = "active") = active' /\ connectionType' # "activating"
    BY <1>1, ManagerAgrees
  <1>3. /\ managerRenders' \in Nat /\ ~Counting'
        /\ \A a \in activations' : a.since \in 0..managerRenders'
    BY ManagerForgets
  <1> QED
    BY <1>2, <1>3 DEF GateInv

\* Every step of the gate keeps it.
LEMMA GateNextInv ==
  ASSUME GateInv, [GateNext]_gateVars
  PROVE  GateInv'
  <1>0. active \in BOOLEAN /\ (connectionType = "active" <=> active)
    BY DEF GateInv
  <1>1. CASE getConfig \/ fetchConfig \/ \E ok \in BOOLEAN : SilentAsked(ok)
    BY <1>1 DEF GateInv, Counting, getConfig, fetchConfig, SilentAsked
  <1>2. CASE \E ok \in BOOLEAN : SilentActivated(ok)
    <2>1. PICK ok \in BOOLEAN : SilentActivated(ok)
      BY <1>2
    <2>2. CASE ok
      <3>1. ManagerBecomes(TRUE, "none") /\ activations' = activations /\ network' = network
        BY <2>1, <2>2 DEF SilentActivated
      <3> QED
        BY <3>1, ManagerKeeps
    <2>3. CASE ~ok
      BY <2>1, <2>3 DEF SilentActivated, GateInv, Counting
    <2> QED
      BY <2>2, <2>3
  <1>3. CASE PressConnect
    <2> DEFINE new == [n |-> pressed + 1, since |-> managerRenders]
    <2>1. /\ connectionType # "active" /\ connectionType' = "activating" /\ active' = active
          /\ managerRenders' = managerRenders /\ activations' = activations \cup {new}
          /\ network' = network
      BY <1>3, ConnectScreen DEF PressConnect, connectionReducer, GateInv
    <2>2. new.since = managerRenders
      OBVIOUS
    <2> HIDE DEF new
    <2>3. (connectionType' = "active") = active'
      BY <1>0, <2>1
    <2>4. Counting' /\ managerRenders' \in Nat /\ \A a \in activations' : a.since \in 0..managerRenders'
      BY <2>1, <2>2 DEF GateInv, Counting
    <2> QED
      BY <2>1, <2>3, <2>4 DEF GateInv
  <1>4. CASE \E a \in activations, error \in Errors \cup {"none"} : ActivationEnds(a, error)
    <2>1. PICK a \in activations, error \in Errors \cup {"none"} : ActivationEnds(a, error)
      BY <1>4
    <2>2. activations' = activations \ {a} /\ network' = network
      BY <2>1 DEF ActivationEnds
    <2>3. CASE a.since = managerRenders
      <3>1. ManagerBecomes(error = "none", error) /\ (error = "none") \in BOOLEAN
        BY <2>1, <2>3 DEF ActivationEnds
      <3>2. activations' \subseteq activations
        BY <2>2
      <3> QED
        BY <2>2, <3>1, <3>2, ManagerKeeps
    <2>4. CASE a.since # managerRenders
      <3>1. UNCHANGED <<active, managerRenders, connectionType>>
        BY <2>1, <2>4 DEF ActivationEnds
      <3>2. Counting' <=> Counting
        BY <2>2, <2>4, <3>1 DEF Counting
      <3> QED
        BY <2>2, <3>1, <3>2 DEF GateInv
    <2> QED
      BY <2>3, <2>4
  <1>5. CASE \E error \in Errors \cup {"none"} : WalletEvent(error)
    <2>1. PICK error \in Errors \cup {"none"} : WalletEvent(error)
      BY <1>5
    <2>2. active /\ ManagerBecomes(FALSE, error) /\ activations' = activations /\ network' = network
      BY <2>1 DEF WalletEvent
    <2> QED
      BY <2>2, ManagerKeeps
  <1>6. CASE (\E net \in {"mainnet", "sepolia", "other"} : NetworkChanges(net)) \/ connectToSepolia
    <2>1. PICK net \in {"mainnet", "sepolia", "other"} : NetworkChanges(net)
      BY <1>6 DEF connectToSepolia
    <2>2. /\ active /\ active' = active /\ connectionType' = connectionType /\ activations' = activations
          /\ managerRenders' = managerRenders + 1 /\ network' \in Networks
      BY <2>1 DEF NetworkChanges, Networks
    <2>3. connectionType' = "active"
      BY <1>0, <2>2
    <2>4. managerRenders' \in Nat /\ ~Counting' /\ \A a \in activations' : a.since \in 0..managerRenders'
      BY <2>2 DEF GateInv, Counting
    <2> QED
      BY <1>0, <2>2, <2>3, <2>4 DEF GateInv
  <1>7. CASE UNCHANGED gateVars
    BY <1>7 DEF gateVars, GateInv, Counting
  <1> QED
    BY <1>1, <1>2, <1>3, <1>4, <1>5, <1>6, <1>7 DEF GateNext, GateSteps

\* WalletConnector, for any number of activations, errors and changes of network: its state
\* says active exactly when the manager is; its spinner is there for every activation that
\* counts, and for nothing else than those and an "already pending".
THEOREM GateAlwaysAgrees == GateSpec => []GateAgrees
  <1>1. GateInit => GateInv
    <2> SUFFICES ASSUME GateInit PROVE GateInv
      OBVIOUS
    <2>1. active = FALSE /\ connectionType = "inactive" /\ activations = {} /\ managerRenders = 0
      BY DEF GateInit
    <2>2. network \in Networks
      BY DEF GateInit, Networks
    <2>3. (connectionType = "active") = active
      BY <2>1
    <2> QED
      BY <2>1, <2>2, <2>3 DEF GateInv, Counting
  <1>2. GateInv => GateAgrees
    BY DEF GateInv, GateAgrees, Spinner
  <1> QED
    BY <1>1, <1>2, GateNextInv, PTL DEF GateSpec

-----------------------------------------------------------------------------
(* The stores of the present connections. *)

\* The stores that exist: those of every generation.
KnownStores(n) == UNION {StoresOf(g) : g \in 1..n}

\* A store's state.
StoreStates == [loaded : BOOLEAN, onLoaded : BOOLEAN, fetching : BOOLEAN, polling : BOOLEAN]

\* The inductive invariant: the collected stores are different, loaded, and of the present
\* connections, and no other store calls onLoaded.
ProviderInv ==
  /\ generations \in Seq(WalletUsers \cup {NoUser}) /\ lookups \in Seq(WalletUsers \cup {NoUser})
  /\ account \in WalletUsers \cup {NoUser}
  /\ connections \in 0..Len(generations) /\ mounted \in 0..Len(generations)
  /\ stores \in [KnownStores(Len(generations)) -> StoreStates]
  /\ loadedStore \in Seq(StoresOf(mounted)) /\ (mounted = 0 => loadedStore = <<>>)
  /\ \A i, j \in DOMAIN loadedStore : loadedStore[i] = loadedStore[j] => i = j
  /\ \A i \in DOMAIN loadedStore : stores[loadedStore[i]].loaded
  /\ \A s \in DOMAIN stores : stores[s].onLoaded => s[1] = mounted

\* A store belongs to one generation.
LEMMA StoreOfGeneration ==
  ASSUME NEW n \in Nat, NEW s
  PROVE  s \in KnownStores(n) <=> \E g \in 1..n : s \in StoresOf(g) /\ s[1] = g
BY DEF KnownStores, StoresOf

\* A render keeps what is said of the collected stores.
LEMMA RenderKeeps ==
  ASSUME ProviderInv, NEW n \in Nat, Len(generations) <= n, NEW g \in 0..n,
         NEW all \in [KnownStores(n) -> StoreStates],
         \A s \in DOMAIN stores : all[s] = stores[s],
         \A s \in DOMAIN all \ DOMAIN stores : ~all[s].onLoaded,
         Render(g, all)
  PROVE  /\ mounted' = g /\ stores' \in [KnownStores(n) -> StoreStates]
         /\ loadedStore' \in Seq(StoresOf(mounted')) /\ (mounted' = 0 => loadedStore' = <<>>)
         /\ \A i, j \in DOMAIN loadedStore' : loadedStore'[i] = loadedStore'[j] => i = j
         /\ \A i \in DOMAIN loadedStore' : stores'[loadedStore'[i]].loaded
         /\ \A s \in DOMAIN stores' : stores'[s].onLoaded => s[1] = mounted'
  <1>0. /\ loadedStore \in Seq(StoresOf(mounted)) /\ mounted \in 0..Len(generations)
        /\ stores \in [KnownStores(Len(generations)) -> StoreStates]
        /\ Len(generations) \in Nat
    BY DEF ProviderInv
  <1>1. mounted' = g
    BY DEF Render
  <1>2. CASE g = mounted
    <2>1. loadedStore' = loadedStore /\ stores' = all
      BY <1>2 DEF Render
    <2>2. \A i \in DOMAIN loadedStore : loadedStore[i] \in DOMAIN stores
      <3> SUFFICES ASSUME NEW i \in DOMAIN loadedStore PROVE loadedStore[i] \in DOMAIN stores
        OBVIOUS
      <3>1. mounted # 0
        BY DEF ProviderInv
      <3>2. loadedStore[i] \in StoresOf(mounted) /\ mounted \in 1..Len(generations)
        BY <1>0, <3>1
      <3> QED
        BY <1>0, <3>2 DEF KnownStores
    <2>3. \A i \in DOMAIN loadedStore : all[loadedStore[i]].loaded
      BY <2>2 DEF ProviderInv
    <2>4. \A s \in DOMAIN all : all[s].onLoaded => s[1] = mounted
      BY DEF ProviderInv
    <2> QED
      BY <1>1, <1>2, <2>1, <2>3, <2>4 DEF ProviderInv
  <1>3. CASE g # mounted
    <2> DEFINE cleaned == Cleanup(all, mounted)
    <2>1. loadedStore' = <<>> /\ stores' = StartAll(cleaned, g)
      BY <1>3 DEF Render
    <2>2. cleaned \in [KnownStores(n) -> StoreStates]
      BY DEF Cleanup, StoreStates
    <2>3. ASSUME NEW s \in KnownStores(n) PROVE ~cleaned[s].onLoaded
      <3>1. CASE s[1] = mounted
        BY <3>1 DEF Cleanup, StoreStates
      <3>2. CASE s[1] # mounted
        <4>1. cleaned[s] = all[s]
          BY <3>2 DEF Cleanup
        <4>2. ~all[s].onLoaded
          BY <3>2 DEF ProviderInv
        <4> QED
          BY <4>1, <4>2
      <3> QED
        BY <3>1, <3>2
    <2> HIDE DEF cleaned
    <2>4. stores' \in [KnownStores(n) -> StoreStates]
      BY <2>1, <2>2 DEF StartAll, StoreStates
    <2>5. ASSUME NEW s \in KnownStores(n), s[1] # g PROVE ~stores'[s].onLoaded
      BY <2>1, <2>2, <2>3, <2>5 DEF StartAll
    <2>6. \A s \in DOMAIN stores' : stores'[s].onLoaded => s[1] = g
      BY <2>4, <2>5
    <2>7. DOMAIN loadedStore' = {} /\ loadedStore' \in Seq(StoresOf(g))
      BY <2>1
    <2> QED
      BY <1>1, <2>1, <2>4, <2>6, <2>7
  <1> QED
    BY <1>2, <1>3

\* No store is collected before a wallet connects.
LEMMA ProviderInitInv == ProviderInit => ProviderInv
  <1> SUFFICES ASSUME ProviderInit PROVE ProviderInv
    OBVIOUS
  <1>1. KnownStores(Len(generations)) = {}
    BY DEF ProviderInit, KnownStores
  <1>2. stores \in [KnownStores(Len(generations)) -> StoreStates] /\ DOMAIN stores = {}
    BY <1>1 DEF ProviderInit
  <1> QED
    BY <1>2 DEF ProviderInit, ProviderInv

\* A change of account or network keeps it.
LEMMA SwitchKeeps ==
  ASSUME ProviderInv, NEW user \in WalletUsers \cup {NoUser}, SwitchAccount(user) \/ SwitchNetwork
  PROVE  ProviderInv'
  <1> DEFINE n == Len(generations)
  <1>0. /\ n \in Nat /\ stores \in [KnownStores(n) -> StoreStates] /\ connections \in 0..n
        /\ account \in WalletUsers \cup {NoUser} /\ lookups \in Seq(WalletUsers \cup {NoUser})
    BY DEF ProviderInv
  <1>1. generations' = generations
    BY DEF SwitchAccount, SwitchNetwork
  <1>2. PICK g \in 0..n : Render(g, stores)
    <2>1. CASE SwitchAccount(user)
      BY <1>0, <2>1 DEF SwitchAccount, Rendered
    <2>2. CASE SwitchNetwork
      <3>1. 0 \in 0..n
        BY <1>0
      <3> QED
        BY <2>2, <3>1 DEF SwitchNetwork
    <2> QED
      BY <2>1, <2>2
  <1>3. lookups' \in Seq(WalletUsers \cup {NoUser}) /\ account' \in WalletUsers \cup {NoUser}
    <2> DEFINE U == WalletUsers \cup {NoUser}
    <2>1. user \in U /\ account \in U /\ lookups \in Seq(U)
      BY <1>0
    <2> HIDE DEF U
    <2>2. account' \in U
      BY <2>1 DEF SwitchAccount, SwitchNetwork
    <2>3. \A u \in U : Append(lookups, u) \in Seq(U)
      BY <2>1
    <2>4. lookups' \in Seq(U)
      BY <2>1, <2>3 DEF SwitchAccount, SwitchNetwork, Lookup
    <2> QED
      BY <2>2, <2>4 DEF U
  <1>4. connections' \in 0..n
    BY <1>0 DEF SwitchAccount, SwitchNetwork
  <1> HIDE DEF n
  <1>5. /\ mounted' = g /\ stores' \in [KnownStores(n) -> StoreStates]
        /\ loadedStore' \in Seq(StoresOf(mounted')) /\ (mounted' = 0 => loadedStore' = <<>>)
        /\ \A i, j \in DOMAIN loadedStore' : loadedStore'[i] = loadedStore'[j] => i = j
        /\ \A i \in DOMAIN loadedStore' : stores'[loadedStore'[i]].loaded
        /\ \A s \in DOMAIN stores' : stores'[s].onLoaded => s[1] = mounted'
    <2>1. Len(generations) <= n
      BY <1>0 DEF n
    <2> QED
      BY <1>0, <1>2, <2>1, RenderKeeps
  <1>6. Len(generations') = n /\ generations' \in Seq(WalletUsers \cup {NoUser})
    BY <1>1 DEF n, ProviderInv
  <1> QED
    BY <1>3, <1>4, <1>5, <1>6 DEF ProviderInv

\* New connections keep it.
LEMMA ConnectionsKeep ==
  ASSUME ProviderInv, ConnectionsMade
  PROVE  ProviderInv'
  <1> DEFINE n == Len(generations)
             g == n + 1
             all == [s \in DOMAIN stores \cup StoresOf(g) |->
                       IF s \in DOMAIN stores THEN stores[s] ELSE NewStore]
             U == WalletUsers \cup {NoUser}
  <1>0. /\ n \in Nat /\ stores \in [KnownStores(n) -> StoreStates]
        /\ account \in U /\ lookups \in Seq(U) /\ lookups # <<>> /\ generations \in Seq(U)
        /\ account' = account
    BY DEF ProviderInv, ConnectionsMade
  <1>1. lookups' \in Seq(U) /\ Head(lookups) \in U
    BY <1>0 DEF ConnectionsMade
  <1>2. CASE ~supported
    BY <1>0, <1>1, <1>2 DEF ConnectionsMade, ProviderInv
  <1>3. CASE supported
    <2>1. /\ generations' = Append(generations, Head(lookups)) /\ connections' = g
          /\ Render(Rendered(account, supported, g), all)
      BY <1>3 DEF ConnectionsMade
    <2>2. generations' \in Seq(U) /\ Len(generations') = g
      BY <1>0, <1>1, <2>1
    <2>3. KnownStores(g) = KnownStores(n) \cup StoresOf(g)
      <3>1. 1..g = 1..n \cup {g}
        BY <1>0
      <3> QED
        BY <3>1 DEF KnownStores
    <2>4. NewStore \in StoreStates /\ ~NewStore.onLoaded
      BY DEF NewStore, StoreStates
    <2>5. all \in [KnownStores(g) -> StoreStates]
      BY <1>0, <2>3, <2>4
    <2>6. /\ \A s \in DOMAIN stores : all[s] = stores[s]
          /\ \A s \in DOMAIN all \ DOMAIN stores : ~all[s].onLoaded
      BY <2>4
    <2>7. PICK h \in 0..g : Render(h, all)
      <3>1. 0 \in 0..g /\ g \in 0..g
        BY <1>0
      <3>2. Rendered(account, supported, g) \in {0, g}
        BY DEF Rendered
      <3> HIDE DEF g, all
      <3> QED
        BY <2>1, <3>1, <3>2
    <2>8. g \in Nat /\ Len(generations) <= g /\ connections' \in 0..g
      BY <1>0, <2>1
    <2> HIDE DEF all, g, n
    <2>9. /\ mounted' = h /\ stores' \in [KnownStores(g) -> StoreStates]
          /\ loadedStore' \in Seq(StoresOf(mounted')) /\ (mounted' = 0 => loadedStore' = <<>>)
          /\ \A i, j \in DOMAIN loadedStore' : loadedStore'[i] = loadedStore'[j] => i = j
          /\ \A i \in DOMAIN loadedStore' : stores'[loadedStore'[i]].loaded
          /\ \A s \in DOMAIN stores' : stores'[s].onLoaded => s[1] = mounted'
      BY <2>5, <2>6, <2>7, <2>8, RenderKeeps
    <2> QED
      BY <1>0, <1>1, <2>2, <2>8, <2>9 DEF ProviderInv
  <1> QED
    BY <1>2, <1>3

\* A store that answers keeps it.
LEMMA StoreAnswerKeeps ==
  ASSUME ProviderInv, NEW s \in DOMAIN stores, StoreAnswer(s)
  PROVE  ProviderInv'
  <1> DEFINE n == Len(generations)
             M == StoresOf(mounted)
  <1>0. /\ n \in Nat /\ stores \in [KnownStores(n) -> StoreStates] /\ s \in KnownStores(n)
        /\ loadedStore \in Seq(M) /\ mounted \in 0..n
    BY DEF ProviderInv
  <1>1. /\ stores' = [stores EXCEPT ![s].fetching = FALSE, ![s].loaded = TRUE]
        /\ loadedStore' = IF ~stores[s].loaded /\ stores[s].onLoaded THEN Append(loadedStore, s)
                          ELSE loadedStore
        /\ UNCHANGED <<account, lookups, generations, connections, mounted>>
    BY DEF StoreAnswer
  <1>2. /\ stores' \in [KnownStores(n) -> StoreStates] /\ stores'[s].loaded
        /\ \A r \in KnownStores(n) : /\ stores'[r].onLoaded = stores[r].onLoaded
                                     /\ stores[r].loaded => stores'[r].loaded
    <2> DEFINE new == [stores[s] EXCEPT !.fetching = FALSE, !.loaded = TRUE]
    <2>1. stores[s] \in StoreStates
      BY <1>0
    <2>2. new \in StoreStates /\ new.loaded /\ new.onLoaded = stores[s].onLoaded
      BY <2>1 DEF StoreStates
    <2>3. stores' = [stores EXCEPT ![s] = new]
      BY <1>0, <1>1
    <2> HIDE DEF new
    <2> QED
      BY <1>0, <2>2, <2>3
  <1>3. \A r \in DOMAIN stores' : stores'[r].onLoaded => r[1] = mounted'
    BY <1>0, <1>1, <1>2 DEF ProviderInv
  <1>4. \A i \in DOMAIN loadedStore : loadedStore[i] \in M /\ loadedStore[i] \in KnownStores(n)
    <2> SUFFICES ASSUME NEW i \in DOMAIN loadedStore
                 PROVE  loadedStore[i] \in M /\ loadedStore[i] \in KnownStores(n)
      OBVIOUS
    <2>1. mounted # 0
      BY DEF ProviderInv
    <2>2. loadedStore[i] \in M /\ mounted \in 1..n
      BY <1>0, <2>1
    <2> QED
      BY <2>2 DEF KnownStores
  <1>5. /\ loadedStore' \in Seq(M) /\ (mounted = 0 => loadedStore' = <<>>)
        /\ \A i, j \in DOMAIN loadedStore' : loadedStore'[i] = loadedStore'[j] => i = j
        /\ \A i \in DOMAIN loadedStore' : stores'[loadedStore'[i]].loaded
    <2>1. CASE ~(~stores[s].loaded /\ stores[s].onLoaded)
      <3>1. loadedStore' = loadedStore
        BY <1>1, <2>1
      <3> QED
        BY <1>0, <1>2, <1>4, <3>1 DEF ProviderInv
    <2>2. CASE ~stores[s].loaded /\ stores[s].onLoaded
      <3> DEFINE k == Len(loadedStore) + 1
      <3>1. loadedStore' = Append(loadedStore, s)
        BY <1>1, <2>2
      <3>2. PICK g \in 1..n : s \in StoresOf(g) /\ s[1] = g
        BY <1>0, StoreOfGeneration
      <3>3. s \in M /\ mounted # 0
        <4>1. s[1] = mounted
          BY <2>2 DEF ProviderInv
        <4> QED
          BY <3>2, <4>1
      <3>4. /\ loadedStore' \in Seq(M) /\ DOMAIN loadedStore' = 1..k /\ loadedStore'[k] = s
            /\ k \in Nat
            /\ \A i \in 1..Len(loadedStore) : loadedStore'[i] = loadedStore[i]
            /\ DOMAIN loadedStore = 1..Len(loadedStore)
        BY <1>0, <3>1, <3>3
      <3>5. \A i \in 1..k : i = k \/ i \in 1..Len(loadedStore)
        BY <1>0
      <3> HIDE DEF k
      <3>6. \A i \in DOMAIN loadedStore : stores[loadedStore[i]].loaded /\ loadedStore[i] # s
        BY <2>2 DEF ProviderInv
      <3>7. \A i, j \in DOMAIN loadedStore' : loadedStore'[i] = loadedStore'[j] => i = j
        <4> SUFFICES ASSUME NEW i \in 1..k, NEW j \in 1..k, loadedStore'[i] = loadedStore'[j]
                     PROVE  i = j
          BY <3>4
        <4>1. \A a, b \in DOMAIN loadedStore : loadedStore[a] = loadedStore[b] => a = b
          BY DEF ProviderInv
        <4> QED
          BY <3>4, <3>5, <3>6, <4>1
      <3>8. \A i \in DOMAIN loadedStore' : stores'[loadedStore'[i]].loaded
        BY <1>2, <1>4, <3>4, <3>5, <3>6
      <3> QED
        BY <3>3, <3>4, <3>7, <3>8
    <2> QED
      BY <2>1, <2>2
  <1> QED
    BY <1>1, <1>2, <1>3, <1>5 DEF ProviderInv

\* Every step keeps it.
LEMMA ProviderNextInv == ProviderInv /\ [ProviderNext]_providerVars => ProviderInv'
  <1> SUFFICES ASSUME ProviderInv, [ProviderNext]_providerVars PROVE ProviderInv'
    OBVIOUS
  <1>1. CASE \E user \in WalletUsers \cup {NoUser} : SwitchAccount(user)
    BY <1>1, SwitchKeeps
  <1>2. CASE SwitchNetwork
    <2>1. NoUser \in WalletUsers \cup {NoUser}
      OBVIOUS
    <2> QED
      BY <1>2, <2>1, SwitchKeeps
  <1>3. CASE ConnectionsMade
    BY <1>3, ConnectionsKeep
  <1>4. CASE StoreAnswers
    BY <1>4, StoreAnswerKeeps DEF StoreAnswers
  <1>5. CASE UNCHANGED providerVars
    BY <1>5 DEF providerVars, ProviderInv
  <1> QED
    BY <1>1, <1>2, <1>3, <1>4, <1>5 DEF ProviderNext

\* As many different stores of the connections as there are, are all of them.
LEMMA CountingIsEnough ==
  ASSUME ProviderInv
  PROVE  ShownStoresAreLoaded
  <1> SUFFICES ASSUME Shown
               PROVE  /\ {loadedStore[i] : i \in DOMAIN loadedStore} = StoresOf(mounted)
                      /\ \A s \in StoresOf(mounted) : stores[s].loaded
    BY DEF ShownStoresAreLoaded
  <1> DEFINE k == Len(loadedStore)
             M == StoresOf(mounted)
  <1>1. loadedStore \in [1..k -> M] /\ k \in Nat /\ DOMAIN loadedStore = 1..k
    BY DEF ProviderInv
  <1>2. IsFiniteSet(M)
    <2> DEFINE f == [c \in Collaterals |-> <<mounted, c>>]
    <2>1. f \in Surjection(Collaterals, M)
      BY DEF Surjection, StoresOf
    <2> QED
      BY <2>1, FS_Surjection, ProviderAssumption
  <1>3. Cardinality(1..k) = Cardinality(M)
    BY <1>1, FS_Interval DEF Shown
  <1>4. loadedStore \in Injection(1..k, M)
    <2>1. \A i, j \in 1..k : loadedStore[i] = loadedStore[j] => i = j
      BY <1>1 DEF ProviderInv
    <2> HIDE DEF k, M
    <2> QED
      BY <1>1, <2>1 DEF Injection, IsInjective
  <1>5. loadedStore \in Surjection(1..k, M)
    BY <1>2, <1>3, <1>4, FS_Injection
  <1>6. \A s \in M : \E i \in 1..k : loadedStore[i] = s
    BY <1>5 DEF Surjection
  <1>7. \A i \in 1..k : loadedStore[i] \in M /\ stores[loadedStore[i]].loaded
    BY <1>1 DEF ProviderInv
  <1>8. {loadedStore[i] : i \in DOMAIN loadedStore} = M
    <2> HIDE DEF k, M
    <2> QED
      BY <1>1, <1>6, <1>7
  <1> QED
    BY <1>6, <1>7, <1>8

\* ThresholdStoreProvider, for any number of collaterals, accounts and changes: when the
\* application is shown, the stores it is given are those of the present connections
\* and all of them are loaded.
THEOREM ShownStoresAlwaysLoaded == ProviderSpec => []ShownStoresAreLoaded
  <1>1. ProviderInv => ShownStoresAreLoaded
    BY CountingIsEnough
  <1> QED
    BY <1>1, ProviderInitInv, ProviderNextInv, PTL DEF ProviderSpec

-----------------------------------------------------------------------------
(***************************************************************************)
(* Blocks, receipts and batches of the providers.                          *)
(***************************************************************************)

\* The inductive invariant of sockets, timers and listeners: the known timer runs.
AugInv ==
  /\ sockets \in Seq([state : {"connecting", "open", "closed"}, onClose : BOOLEAN])
  /\ current \in 0..Len(sockets)
  /\ registered \in [0..Len(sockets) -> Nat]
  /\ timers \in Nat /\ timerKnown \in BOOLEAN /\ (timerKnown => timers > 0)
  /\ ListenersAreFed /\ SocketOrTimer

\* What registering on a backend does.
LEMMA Registering ==
  ASSUME NEW n \in Nat, NEW reg \in [0..n -> Nat], NEW b \in 0..n
  PROVE  /\ AddRegistration(reg, b) \in [0..n -> Nat] /\ AddRegistration(reg, b)[b] > 0
         /\ DropRegistration(reg, b) \in [0..n -> Nat]
  <1>1. reg[b] \in Nat
    OBVIOUS
  <1>2. (IF reg[b] < MaxRegistrations THEN reg[b] + 1 ELSE reg[b]) \in Nat \ {0}
    BY <1>1, AugAssumption
  <1>3. (IF reg[b] > 0 THEN reg[b] - 1 ELSE 0) \in Nat
    BY <1>1
  <1>4. AddRegistration(reg, b) = [reg EXCEPT ![b] = IF reg[b] < MaxRegistrations THEN reg[b] + 1 ELSE reg[b]]
    BY DEF AddRegistration
  <1>5. DropRegistration(reg, b) = [reg EXCEPT ![b] = IF reg[b] > 0 THEN reg[b] - 1 ELSE 0]
    BY DEF DropRegistration
  <1> QED
    BY <1>2, <1>3, <1>4, <1>5

\* A change of backend registers on the new one whenever anybody listens.
LEMMA Switching ==
  ASSUME NEW n \in Nat, NEW reg \in [0..n -> Nat], NEW ws \in 0..n
  PROVE  /\ Switchover(reg, ws) \in [0..n -> Nat]
         /\ blockListeners # {} => Switchover(reg, ws)[ws] > 0
  <1>1. CASE blockListeners = {}
    BY <1>1 DEF Switchover
  <1>2. CASE blockListeners # {}
    <2> DEFINE before == IF ws # 0 THEN DropRegistration(reg, 0) ELSE reg
    <2>1. before \in [0..n -> Nat]
      <3>1. 0 \in 0..n
        OBVIOUS
      <3>2. DropRegistration(reg, 0) \in [0..n -> Nat]
        BY <3>1, Registering
      <3> QED
        BY <3>2
    <2>2. Switchover(reg, ws) = AddRegistration(before, ws)
      BY <1>2 DEF Switchover, StartBlockEvents
    <2> HIDE DEF before
    <2>3. AddRegistration(before, ws) \in [0..n -> Nat] /\ AddRegistration(before, ws)[ws] > 0
      BY <2>1, Registering
    <2> QED
      BY <2>2, <2>3
  <1> QED
    BY <1>1, <1>2

\* Opening a socket, by the application or a timer, keeps it.
LEMMA OpeningKeeps ==
  ASSUME AugInv, OpenWebSocket, blockListeners' = blockListeners,
         timers' \in Nat, timerKnown' \in BOOLEAN, timerKnown' => timers' > 0
  PROVE  AugInv'
  <1> DEFINE n == Len(sockets)
             ws == n + 1
             new == [state |-> "connecting", onClose |-> TRUE]
             reg == [b \in 0..ws |-> IF b = ws THEN 0 ELSE registered[b]]
             R == [state : {"connecting", "open", "closed"}, onClose : BOOLEAN]
  <1>1. sockets \in Seq(R) /\ n \in Nat /\ registered \in [0..n -> Nat] /\ new \in R
    BY DEF AugInv
  <1>2. /\ sockets' = Append(sockets, new) /\ current' = ws
        /\ registered' = Switchover(reg, ws)
    BY DEF OpenWebSocket
  <1>3. sockets' \in Seq(R) /\ Len(sockets') = ws /\ ws \in Nat /\ ws # 0 /\ ws \in 0..ws
    BY <1>1, <1>2
  <1>4. reg \in [0..ws -> Nat]
    <2>1. \A b \in 0..ws : b = ws \/ b \in 0..n
      BY <1>1
    <2> QED
      BY <1>1, <2>1
  <1> HIDE DEF reg, ws
  <1>5. registered' \in [0..ws -> Nat] /\ (blockListeners # {} => registered'[ws] > 0)
    BY <1>2, <1>3, <1>4, Switching
  <1> QED
    BY <1>2, <1>3, <1>5 DEF AugInv, ListenersAreFed, SocketOrTimer

\* Losing the current socket.
LEMMA LosingKeeps ==
  ASSUME AugInv, NEW socks, NEW i \in DOMAIN sockets, current # 0,
         socks = sockets \/ socks = [sockets EXCEPT ![i] = [state |-> "closed", onClose |-> FALSE]],
         sockets' = [socks EXCEPT ![current] = [state |-> "closed", onClose |-> FALSE]],
         current' = 0, registered' = Switchover([registered EXCEPT ![current] = 0], 0),
         blockListeners' = blockListeners,
         timers' \in Nat, timerKnown' \in BOOLEAN, timerKnown' => timers' > 0,
         socketWanted' => timers' > 0
  PROVE  AugInv'
  <1> DEFINE n == Len(sockets)
             gone == [state |-> "closed", onClose |-> FALSE]
             R == [state : {"connecting", "open", "closed"}, onClose : BOOLEAN]
  <1>1. /\ sockets \in Seq(R) /\ n \in Nat /\ registered \in [0..n -> Nat] /\ gone \in R
        /\ current \in 0..n /\ DOMAIN sockets = 1..n
    BY DEF AugInv
  <1> HIDE DEF R, gone
  <1>2. ASSUME NEW q \in Seq(R), NEW j
        PROVE  [q EXCEPT ![j] = gone] \in Seq(R) /\ Len([q EXCEPT ![j] = gone]) = Len(q)
    <2> DEFINE x == [q EXCEPT ![j] = gone]
               m == Len(q)
    <2>1. q \in [1..m -> R] /\ m \in Nat
      OBVIOUS
    <2> HIDE DEF m
    <2>2. x \in [1..m -> R]
      BY <1>1, <2>1
    <2> HIDE DEF x
    <2>3. x \in Seq(R) /\ Len(x) = m
      BY <2>1, <2>2
    <2> QED
      BY <2>3 DEF x, m
  <1>3. sockets' \in Seq(R) /\ Len(sockets') = n
    <2>1. socks = sockets \/ socks = [sockets EXCEPT ![i] = gone]
      BY DEF gone
    <2>2. socks \in Seq(R) /\ Len(socks) = n
      BY <1>1, <1>2, <2>1
    <2>3. sockets' = [socks EXCEPT ![current] = gone]
      BY DEF gone
    <2> QED
      BY <1>2, <2>2, <2>3
  <1>4. [registered EXCEPT ![current] = 0] \in [0..n -> Nat] /\ 0 \in 0..n
    BY <1>1
  <1>5. registered' \in [0..n -> Nat] /\ (blockListeners # {} => registered'[0] > 0)
    BY <1>1, <1>4, Switching
  <1> QED
    BY <1>3, <1>4, <1>5 DEF AugInv, ListenersAreFed, SocketOrTimer, R

\* A step that leaves sockets and timers alone, and the listeners registered.
LEMMA ListeningKeeps ==
  ASSUME AugInv, UNCHANGED socketVars,
         \/ registered' = registered /\ (blockListeners' # {} => blockListeners # {})
         \/ /\ registered' = AddRegistration(registered, current)
         \/ /\ registered' = DropRegistration(registered, current) /\ blockListeners' = {}
  PROVE  AugInv'
  <1>1. UNCHANGED <<sockets, current, timers, timerKnown, socketWanted>>
    BY DEF socketVars
  <1>2. /\ Len(sockets) \in Nat /\ current \in 0..Len(sockets)
        /\ registered \in [0..Len(sockets) -> Nat]
    BY DEF AugInv
  <1>3. registered' \in [0..Len(sockets) -> Nat]
    <2>1. /\ AddRegistration(registered, current) \in [0..Len(sockets) -> Nat]
          /\ DropRegistration(registered, current) \in [0..Len(sockets) -> Nat]
      BY <1>2, Registering
    <2> QED
      BY <1>2, <2>1
  <1>4. ListenersAreFed'
    <2>1. CASE registered' = registered /\ (blockListeners' # {} => blockListeners # {})
      BY <1>1, <2>1 DEF AugInv, ListenersAreFed
    <2>2. CASE registered' = AddRegistration(registered, current)
      BY <1>1, <1>2, <2>2, Registering DEF ListenersAreFed
    <2>3. CASE blockListeners' = {}
      BY <2>3 DEF ListenersAreFed
    <2> QED
      BY <2>1, <2>2, <2>3
  <1>5. SocketOrTimer'
    BY <1>1 DEF AugInv, SocketOrTimer
  <1> QED
    BY <1>1, <1>3, <1>4, <1>5 DEF AugInv

\* Every step keeps it.
LEMMA AugNextInv == AugInv /\ [AugNext]_augVars => AugInv'
  <1> SUFFICES ASSUME AugInv, [AugNext]_augVars PROVE AugInv'
    OBVIOUS
  <1>0. timers \in Nat /\ timerKnown \in BOOLEAN /\ (timerKnown => timers > 0)
    BY DEF AugInv
  <1>1. CASE AppOpen
    BY <1>0, <1>1, OpeningKeeps DEF AppOpen, listenVars
  <1>2. CASE Reconnect
    <2>1. timers' = timers - 1 /\ timers > 0 /\ timerKnown' = (timerKnown /\ timers > 1)
      BY <1>2 DEF Reconnect
    <2>2. timers' \in Nat /\ timerKnown' \in BOOLEAN /\ (timerKnown' => timers' > 0)
      <3>1. timers' \in Nat /\ (timers > 1 => timers' > 0)
        BY <1>0, <2>1
      <3>2. timerKnown' \in BOOLEAN /\ (timerKnown' => timers > 1)
        BY <2>1, Zenon
      <3> QED
        BY <3>1, <3>2
    <2> QED
      BY <1>2, <2>2, OpeningKeeps DEF Reconnect, listenVars
  <1>3. CASE AppClose
    <2>1. CASE current = 0
      <3>1. UNCHANGED <<sockets, current, timers, timerKnown, registered, blockListeners>> /\ ~socketWanted'
        BY <1>3, <2>1 DEF AppClose, CloseWebSocket, listenVars
      <3> QED
        BY <3>1 DEF AugInv, ListenersAreFed, SocketOrTimer
    <2>2. CASE current # 0
      <3>1. /\ sockets' = [sockets EXCEPT ![current] = [state |-> "closed", onClose |-> FALSE]]
            /\ current' = 0 /\ registered' = Switchover([registered EXCEPT ![current] = 0], 0)
            /\ timers' = (IF timerKnown THEN timers - 1 ELSE timers) /\ timerKnown' = FALSE
            /\ blockListeners' = blockListeners /\ ~socketWanted'
        BY <1>3, <2>2 DEF AppClose, CloseWebSocket, listenVars
      <3>2. timers' \in Nat
        BY <1>0, <3>1
      <3>3. current \in DOMAIN sockets
        BY <2>2 DEF AugInv
      <3> QED
        BY <2>2, <3>1, <3>2, <3>3, LosingKeeps
    <2> QED
      BY <2>1, <2>2
  <1>4. CASE SomeSocketOpens
    <2>1. PICK i \in DOMAIN sockets : SocketOpens(i)
      BY <1>4 DEF SomeSocketOpens
    <2> DEFINE R == [state : {"connecting", "open", "closed"}, onClose : BOOLEAN]
    <2>2. /\ sockets' = [sockets EXCEPT ![i].state = "open"]
          /\ UNCHANGED <<current, timers, timerKnown, registered, blockListeners, socketWanted>>
      BY <2>1 DEF SocketOpens, listenVars
    <2>3. sockets' \in Seq(R) /\ Len(sockets') = Len(sockets)
      <3> DEFINE new == [sockets[i] EXCEPT !.state = "open"]
      <3>1. sockets \in Seq(R) /\ sockets[i] \in R
        <4>1. sockets \in Seq(R)
          BY DEF AugInv
        <4> HIDE DEF R
        <4> QED
          BY <4>1
      <3>2. new \in R
        BY <3>1
      <3>3. sockets' = [sockets EXCEPT ![i] = new]
        BY <2>2, <3>1
      <3> HIDE DEF new, R
      <3> QED
        BY <3>1, <3>2, <3>3
    <2> QED
      BY <2>2, <2>3 DEF AugInv, ListenersAreFed, SocketOrTimer
  <1>5. CASE \E i \in DOMAIN sockets : SocketCloses(i)
    <2>1. PICK i \in DOMAIN sockets : SocketCloses(i)
      BY <1>5
    <2> DEFINE gone == [state |-> "closed", onClose |-> FALSE]
               socks == [sockets EXCEPT ![i] = gone]
    <2>2. timerKnown' = TRUE /\ socketWanted' = socketWanted /\ blockListeners' = blockListeners
      BY <2>1 DEF SocketCloses, listenVars
    <2>3. CASE current = 0
      <3>1. /\ sockets' = socks /\ timers' = timers + 1 /\ current' = current
            /\ registered' = registered
        BY <2>1, <2>3 DEF SocketCloses
      <3>2. /\ sockets' \in Seq([state : {"connecting", "open", "closed"}, onClose : BOOLEAN])
            /\ Len(sockets') = Len(sockets)
        BY <3>1 DEF AugInv
      <3>3. timers' \in Nat /\ timers' > 0
        BY <1>0, <3>1
      <3> QED
        BY <2>2, <3>1, <3>2, <3>3 DEF AugInv, ListenersAreFed, SocketOrTimer
    <2>4. CASE current # 0
      <3>1. /\ sockets' = [socks EXCEPT ![current] = gone]
            /\ current' = 0 /\ registered' = Switchover([registered EXCEPT ![current] = 0], 0)
            /\ timers' = (IF timerKnown THEN timers - 1 ELSE timers) + 1
        BY <2>1, <2>4 DEF SocketCloses
      <3>2. timers' \in Nat /\ timers' > 0
        BY <1>0, <3>1
      <3> QED
        BY <2>2, <2>4, <3>1, <3>2, LosingKeeps
    <2> QED
      BY <2>3, <2>4
  <1>6. CASE MineBlock \/ Announcements \/ CallListeners \/ WaitForTransaction \/ ReceiptFound
    <2>1. UNCHANGED socketVars /\ registered' = registered /\ (blockListeners' # {} => blockListeners # {})
      BY <1>6 DEF MineBlock, Announcements, OnBlock, CallListeners, WaitForTransaction, ReceiptFound
    <2> QED
      BY <2>1, ListeningKeeps
  <1>7. CASE On \/ NoReceipt
    <2>1. UNCHANGED socketVars
      BY <1>7 DEF On, NoReceipt
    <2>2. \/ registered' = registered /\ (blockListeners' # {} => blockListeners # {})
          \/ registered' = AddRegistration(registered, current)
      BY <1>7 DEF On, NoReceipt, AddBlockListener, StartBlockEvents
    <2> QED
      BY <2>1, <2>2, ListeningKeeps
  <1>8. CASE Off
    <2>1. UNCHANGED socketVars
      BY <1>8 DEF Off
    <2>2. \/ registered' = registered /\ (blockListeners' # {} => blockListeners # {})
          \/ registered' = DropRegistration(registered, current) /\ blockListeners' = {}
      BY <1>8 DEF Off, StopBlockEvents
    <2> QED
      BY <2>1, <2>2, ListeningKeeps
  <1>9. CASE UNCHANGED augVars
    BY <1>9 DEF augVars, AugInv, ListenersAreFed, SocketOrTimer
  <1> QED
    BY <1>1, <1>2, <1>3, <1>4, <1>5, <1>6, <1>7, <1>8, <1>9 DEF AugNext

\* WebSocketAugmented, for any number of sockets that are opened, lost and reopened: while
\* anybody listens for blocks, the backend in use announces them, and an application that wants a
\* socket has one or a timer for it.
THEOREM BlocksStayHeard == AugSpec => []ListenersAreFed /\ []SocketOrTimer
  <1>1. AugInit => AugInv
    BY DEF AugInit, AugInv, ListenersAreFed, SocketOrTimer
  <1>2. AugInv => ListenersAreFed /\ SocketOrTimer
    BY DEF AugInv
  <1> QED
    BY <1>1, <1>2, AugNextInv, PTL DEF AugSpec

\* The inductive invariant of waitForTransaction: no block is known that is not in the chain.
WaitInv ==
  /\ chainHead \in Nat /\ nodeHead \in [Nodes -> Nat] /\ \A n \in Nodes : nodeHead[n] <= chainHead
  /\ wait \in [at : {"idle", "asking", "found", "delaying", "listening", "checking"}, latest : Nat]
  /\ wait.latest <= chainHead /\ txBlock \in Nat
  /\ ReceiptIsNotOverlooked

\* Every step of waitForTransaction and of the chain keeps it.
LEMMA WaitNextInv == WaitInv /\ [WaitNext]_nodeVars => WaitInv'
  <1> SUFFICES ASSUME WaitInv, [WaitNext]_nodeVars PROVE WaitInv'
    OBVIOUS
  <1> DEFINE At == {"idle", "asking", "found", "delaying", "listening", "checking"}
  <1>0. /\ chainHead \in Nat /\ nodeHead \in [Nodes -> Nat] /\ txBlock \in Nat
        /\ \A n \in Nodes : nodeHead[n] <= chainHead
        /\ wait \in [at : At, latest : Nat] /\ wait.latest <= chainHead
        /\ wait.latest \in Nat /\ wait.at \in At /\ ReceiptIsNotOverlooked
    BY DEF WaitInv
  <1>1. CASE MineOnChain
    <2>1. chainHead' = chainHead + 1 /\ nodeHead' = nodeHead /\ wait' = wait
      BY <1>1 DEF MineOnChain
    <2>2. txBlock' \in Nat /\ (txBlock' = txBlock \/ txBlock' = chainHead + 1)
      BY <1>0, <1>1 DEF MineOnChain
    <2>3. ReceiptIsNotOverlooked'
      BY <1>0, <2>1, <2>2 DEF ReceiptIsNotOverlooked
    <2>4. chainHead' \in Nat /\ \A n \in Nodes : nodeHead'[n] <= chainHead'
      BY <1>0, <2>1
    <2>5. wait'.latest <= chainHead'
      BY <1>0, <2>1
    <2> QED
      BY <1>0, <2>1, <2>2, <2>3, <2>4, <2>5 DEF WaitInv
  <1>2. CASE \E n \in Nodes : NodeSyncs(n)
    <2>1. PICK n \in Nodes : NodeSyncs(n)
      BY <1>2
    <2>2. /\ nodeHead[n] < chainHead /\ nodeHead' = [nodeHead EXCEPT ![n] = @ + 1]
          /\ UNCHANGED <<chainHead, txBlock, wait>>
      BY <2>1 DEF NodeSyncs
    <2>3. nodeHead' \in [Nodes -> Nat] /\ \A m \in Nodes : nodeHead'[m] <= chainHead
      BY <1>0, <2>2
    <2> QED
      BY <1>0, <2>2, <2>3 DEF WaitInv, ReceiptIsNotOverlooked
  <1>3. CASE \E n \in Nodes : Announce(n)
    <2>1. PICK n \in Nodes : Announce(n)
      BY <1>3
    <2>2. /\ UNCHANGED <<chainHead, nodeHead, txBlock>>
          /\ wait' = IF wait.at = "listening" THEN [at |-> "asking", latest |-> nodeHead[n]] ELSE wait
      BY <2>1 DEF Announce, chainVars
    <2>3. CASE wait.at = "listening"
      <3>1. wait' = [at |-> "asking", latest |-> nodeHead[n]] /\ nodeHead[n] \in Nat
        BY <1>0, <2>2, <2>3
      <3>2. wait' \in [at : At, latest : Nat] /\ wait'.at = "asking" /\ wait'.latest = nodeHead[n]
        BY <3>1
      <3> QED
        BY <1>0, <2>2, <3>2 DEF WaitInv, ReceiptIsNotOverlooked
    <2>4. CASE wait.at # "listening"
      BY <1>0, <2>2, <2>4 DEF WaitInv, ReceiptIsNotOverlooked
    <2> QED
      BY <2>3, <2>4
  <1>4. ASSUME NEW at \in At, wait' = [at |-> at, latest |-> wait.latest], UNCHANGED chainVars,
               at = "listening" /\ wait.latest # 0 => txBlock # wait.latest
        PROVE  WaitInv'
    <2>1. wait' \in [at : At, latest : Nat] /\ wait'.at = at /\ wait'.latest = wait.latest
      BY <1>0, <1>4
    <2>2. UNCHANGED <<chainHead, nodeHead, txBlock>>
      BY <1>4 DEF chainVars
    <2> QED
      BY <1>0, <1>4, <2>1, <2>2 DEF WaitInv, ReceiptIsNotOverlooked
  <1>5. \A at : [wait EXCEPT !.at = at] = [at |-> at, latest |-> wait.latest]
    BY <1>0
  <1>6. CASE StartWait
    <2>1. wait' = [at |-> "asking", latest |-> 0] /\ UNCHANGED <<chainHead, nodeHead, txBlock>>
      BY <1>6 DEF StartWait, chainVars
    <2>2. wait' \in [at : At, latest : Nat] /\ wait'.at = "asking" /\ wait'.latest = 0
      BY <2>1
    <2> QED
      BY <1>0, <2>1, <2>2 DEF WaitInv, ReceiptIsNotOverlooked
  <1>7. CASE ReceiptDelayEnds
    <2>1. wait' = [wait EXCEPT !.at = "asking"] /\ UNCHANGED chainVars
      BY <1>7 DEF ReceiptDelayEnds
    <2> QED
      BY <1>4, <1>5, <2>1
  <1>8. CASE \E n \in Nodes : ReceiptAnswer(n)
    <2>1. PICK n \in Nodes : ReceiptAnswer(n)
      BY <1>8
    <2> DEFINE has == txBlock # 0 /\ txBlock <= nodeHead[n]
               to == CASE has /\ nodeHead[n] >= wait.latest -> "found"
                       [] has /\ nodeHead[n] < wait.latest  -> "delaying"
                       [] ~has /\ wait.latest = 0           -> "listening"
                       [] ~has /\ wait.latest # 0           -> "checking"
    <2>2. wait' = [wait EXCEPT !.at = to] /\ UNCHANGED chainVars
      BY <2>1 DEF ReceiptAnswer
    <2>3. nodeHead[n] >= wait.latest \/ nodeHead[n] < wait.latest
      BY <1>0
    <2> HIDE DEF has
    <2>4. to \in At /\ (to = "listening" => wait.latest = 0)
      <3>1. CASE has /\ nodeHead[n] >= wait.latest
        <4>1. to = "found"
          BY <1>0, <3>1
        <4> QED
          BY <4>1
      <3>2. CASE has /\ nodeHead[n] < wait.latest
        <4>1. to = "delaying"
          BY <1>0, <3>2
        <4> QED
          BY <4>1
      <3>3. CASE ~has /\ wait.latest = 0
        <4>1. to = "listening"
          BY <1>0, <3>3
        <4> QED
          BY <3>3, <4>1
      <3>4. CASE ~has /\ wait.latest # 0
        <4>1. to = "checking"
          BY <1>0, <3>4
        <4> QED
          BY <4>1
      <3> QED
        BY <2>3, <3>1, <3>2, <3>3, <3>4
    <2> HIDE DEF to
    <2> QED
      BY <1>4, <1>5, <2>2, <2>4
  <1>9. CASE \E n \in Nodes : CheckBlock(n)
    <2>1. PICK n \in Nodes : CheckBlock(n)
      BY <1>9
    <2> DEFINE to == IF blockContainsTx(n) THEN "delaying" ELSE "listening"
    <2>2. wait' = [wait EXCEPT !.at = to] /\ UNCHANGED chainVars /\ blockKnown(n)
      BY <2>1 DEF CheckBlock
    <2>3. to \in At /\ (to = "listening" => txBlock # wait.latest)
      BY <2>2 DEF blockKnown, blockContainsTx
    <2> HIDE DEF to
    <2> QED
      BY <1>4, <1>5, <2>2, <2>3
  <1>10. CASE UNCHANGED nodeVars
    BY <1>10 DEF nodeVars, WaitInv, ReceiptIsNotOverlooked
  <1> QED
    BY <1>1, <1>2, <1>3, <1>6, <1>7, <1>8, <1>9, <1>10 DEF WaitNext, ChainSteps

\* waitForTransaction, for any number of nodes that lag and blocks that are announced out of
\* order: it never goes on listening after a block that holds the transaction.
THEOREM ReceiptsAreNotOverlooked == WaitSpec => []ReceiptIsNotOverlooked
  <1>1. NodeReadsInit => WaitInv
    BY DEF NodeReadsInit, WaitInv, ReceiptIsNotOverlooked
  <1>2. WaitInv => ReceiptIsNotOverlooked
    BY DEF WaitInv
  <1> QED
    BY <1>1, <1>2, WaitNextInv, PTL DEF WaitSpec

\* The inductive invariant of getTransaction: while it waits, nobody has said more than null.
LookupInv ==
  /\ lookup \in [base : {"absent", "waiting", "null", "tx", "error"},
                 socket : {"absent", "waiting", "null", "tx", "error"},
                 result : {"none", "waiting", "null", "tx", "error"}]
  /\ lookup.result = "waiting" =>
       lookup.base \in {"waiting", "null"} /\ lookup.socket \in {"waiting", "null", "absent"}
  /\ NoBackendHasIt

\* Every step of getTransaction keeps it.
LEMMA LookupNextInv == LookupInv /\ [LookupNext]_nodeVars => LookupInv'
  <1> SUFFICES ASSUME LookupInv, [LookupNext]_nodeVars PROVE LookupInv'
    OBVIOUS
  <1> DEFINE B == {"absent", "waiting", "null", "tx", "error"}
             C == {"none", "waiting", "null", "tx", "error"}
  <1>0. /\ lookup \in [base : B, socket : B, result : C] /\ lookup.base \in B
        /\ lookup.socket \in B /\ lookup.result \in C
    BY DEF LookupInv
  <1>1. CASE \E ready \in BOOLEAN : GetTransaction(ready)
    <2>1. PICK ready \in BOOLEAN : GetTransaction(ready)
      BY <1>1
    <2>2. lookup' = [base |-> "waiting", socket |-> IF ready THEN "waiting" ELSE "absent",
                     result |-> "waiting"]
      BY <2>1 DEF GetTransaction
    <2> QED
      BY <2>2 DEF LookupInv, NoBackendHasIt
  <1>2. CASE \E backend \in {"base", "socket"}, answer \in {"null", "tx", "error"} :
               TransactionAnswer(backend, answer)
    <2>1. PICK backend \in {"base", "socket"}, answer \in {"null", "tx", "error"} :
            TransactionAnswer(backend, answer)
      BY <1>2
    <2> DEFINE other == lookup[IF backend = "base" THEN "socket" ELSE "base"]
               to == raceResult(answer, other)
    <2>2. /\ lookup[backend] = "waiting"
          /\ lookup' = [lookup EXCEPT ![backend] = answer, !.result = to]
      BY <2>1 DEF TransactionAnswer
    <2>3. /\ lookup.result # "waiting" => to = lookup.result
          /\ lookup.result = "waiting" /\ answer # "null" => to = answer
          /\ lookup.result = "waiting" /\ answer = "null" /\ other = "waiting" => to = "waiting"
          /\ lookup.result = "waiting" /\ answer = "null" /\ other # "waiting" => to = "null"
      BY DEF raceResult
    <2>4. CASE backend = "base"
      <3>1. /\ lookup.base = "waiting" /\ other = lookup.socket
            /\ lookup' = [base |-> answer, socket |-> lookup.socket, result |-> to]
        BY <1>0, <2>2, <2>4
      <3> HIDE DEF to, other
      <3> QED
        BY <1>0, <2>3, <3>1 DEF LookupInv, NoBackendHasIt
    <2>5. CASE backend = "socket"
      <3>1. /\ lookup.socket = "waiting" /\ other = lookup.base
            /\ lookup' = [base |-> lookup.base, socket |-> answer, result |-> to]
        BY <1>0, <2>2, <2>5
      <3> HIDE DEF to, other
      <3> QED
        BY <1>0, <2>3, <3>1 DEF LookupInv, NoBackendHasIt
    <2> QED
      BY <2>4, <2>5
  <1>3. CASE UNCHANGED nodeVars
    BY <1>3 DEF nodeVars, LookupInv, NoBackendHasIt
  <1> QED
    BY <1>1, <1>2, <1>3 DEF LookupNext

\* getTransaction says that there is no transaction only if each backend it asked said so, in
\* whichever order they answered.
THEOREM LookupsAskEverybody == LookupSpec => []NoBackendHasIt
  <1>1. NodeReadsInit => LookupInv
    BY DEF NodeReadsInit, NoLookup, LookupInv, NoBackendHasIt
  <1>2. LookupInv => NoBackendHasIt
    BY DEF LookupInv
  <1> QED
    BY <1>1, <1>2, LookupNextInv, PTL DEF LookupSpec

\* The calls of a batch were all made, for the block of the batch.
MadeFor(b) ==
  \A i \in DOMAIN b.calls : requests[b.calls[i]].stage # "none" /\ requests[b.calls[i]].tag = b.tag

CallStages == {"none", "resolving", "direct", "batched", "resolved", "rejected"}
AskedTags == Tags \cup {"none"}
CallAnswers == {NoAnswer} \cup {Returned(c, tag) : c \in BatchCalls, tag \in AskedTags}
CallStates == [stage : CallStages, tag : AskedTags, answer : CallAnswers]
Batches == [calls : Seq(BatchCalls), tag : AskedTags]

\* The inductive invariant of Batched: a batch holds only calls for its own block, so an
\* answer that goes by position is the one the call asked for.
BatchInv ==
  /\ requests \in [BatchCalls -> CallStates]
  /\ batched \in Batches /\ dispatched \subseteq Batches
  /\ MadeFor(batched) /\ \A b \in dispatched : MadeFor(b)
  /\ AnswersBelongToTheirCalls

\* A call that was made keeps the block it asked for.
KeepsTags ==
  \A c \in BatchCalls : requests[c].stage # "none" =>
    requests'[c].stage # "none" /\ requests'[c].tag = requests[c].tag

\* What a batch holds stays right while the calls keep their blocks.
LEMMA MadeForStays ==
  ASSUME NEW b \in Batches, MadeFor(b), KeepsTags
  PROVE  MadeFor(b)'
  <1>1. \A i \in DOMAIN b.calls : b.calls[i] \in BatchCalls
    BY DEF Batches
  <1> QED
    BY <1>1 DEF MadeFor, KeepsTags

\* The updates of the state of one call.
LEMMA StageUpdate ==
  ASSUME NEW r \in CallStates, NEW s \in CallStages
  PROVE  [r EXCEPT !.stage = s] = [stage |-> s, tag |-> r.tag, answer |-> r.answer]
  BY DEF CallStates

\* The same when the block is set.
LEMMA TagUpdate ==
  ASSUME NEW r \in CallStates, NEW s \in CallStages, NEW x \in AskedTags
  PROVE  [r EXCEPT !.stage = s, !.tag = x] = [stage |-> s, tag |-> x, answer |-> r.answer]
  <1> DEFINE q == [r EXCEPT !.stage = s]
  <1>1. [r EXCEPT !.stage = s, !.tag = x] = [q EXCEPT !.tag = x]
    BY DEF CallStates
  <1>2. q = [stage |-> s, tag |-> r.tag, answer |-> r.answer]
    BY StageUpdate
  <1>3. q \in CallStates
    BY <1>2 DEF CallStates
  <1> HIDE DEF q
  <1>4. q.stage = s /\ q.tag = r.tag /\ q.answer = r.answer
    BY <1>2
  <1>5. [q EXCEPT !.tag = x] = [stage |-> q.stage, tag |-> x, answer |-> q.answer]
    BY <1>3 DEF CallStates
  <1> QED
    BY <1>1, <1>4, <1>5

\* The same when the answer is set.
LEMMA AnswerUpdate ==
  ASSUME NEW r \in CallStates, NEW s \in CallStages, NEW x \in CallAnswers
  PROVE  [r EXCEPT !.stage = s, !.answer = x] = [stage |-> s, tag |-> r.tag, answer |-> x]
  <1> DEFINE q == [r EXCEPT !.stage = s]
  <1>1. [r EXCEPT !.stage = s, !.answer = x] = [q EXCEPT !.answer = x]
    BY DEF CallStates
  <1>2. q = [stage |-> s, tag |-> r.tag, answer |-> r.answer]
    BY StageUpdate
  <1>3. q \in CallStates
    BY <1>2 DEF CallStates
  <1> HIDE DEF q
  <1>4. q.stage = s /\ q.tag = r.tag /\ q.answer = r.answer
    BY <1>2
  <1>5. [q EXCEPT !.answer = x] = [stage |-> q.stage, tag |-> q.tag, answer |-> x]
    BY <1>3 DEF CallStates
  <1> QED
    BY <1>1, <1>4, <1>5

\* Making a call.
LEMMA MakeCallInv ==
  ASSUME BatchInv, NEW c \in BatchCalls, NEW tag \in Tags, MakeCall(c, tag)
  PROVE  BatchInv'
  <1> DEFINE to == IF multicall THEN "resolving" ELSE "direct"
  <1>1. /\ requests[c].stage = "none" /\ UNCHANGED <<batched, dispatched>>
        /\ requests' = [requests EXCEPT ![c].stage = to, ![c].tag = tag]
    BY DEF MakeCall
  <1>2. to \in {"resolving", "direct"}
    OBVIOUS
  <1> HIDE DEF to
  <1>3. requests \in [BatchCalls -> CallStates] /\ AnswersBelongToTheirCalls
    BY DEF BatchInv
  <1>4. requests' = [requests EXCEPT ![c] = [stage |-> to, tag |-> tag, answer |-> requests[c].answer]]
    <2>1. requests' = [requests EXCEPT ![c] = [requests[c] EXCEPT !.stage = to, !.tag = tag]]
      BY <1>1, <1>3
    <2>2. [requests[c] EXCEPT !.stage = to, !.tag = tag]
            = [stage |-> to, tag |-> tag, answer |-> requests[c].answer]
      <3>1. requests[c] \in CallStates /\ to \in CallStages /\ tag \in AskedTags
        BY <1>2, <1>3 DEF CallStages, AskedTags
      <3> QED
        BY <3>1, TagUpdate
    <2> QED
      BY <2>1, <2>2
  <1>5. [stage |-> to, tag |-> tag, answer |-> requests[c].answer] \in CallStates
    BY <1>2, <1>3 DEF CallStates, CallStages, AskedTags
  <1>6. requests' \in [BatchCalls -> CallStates]
    BY <1>3, <1>4, <1>5
  <1>7. KeepsTags
    BY <1>1, <1>2, <1>3, <1>4 DEF KeepsTags
  <1>8. AnswersBelongToTheirCalls'
    BY <1>2, <1>3, <1>4 DEF AnswersBelongToTheirCalls
  <1>9. MadeFor(batched)' /\ \A b \in dispatched' : MadeFor(b)'
    BY <1>1, <1>7, MadeForStays DEF BatchInv
  <1> QED
    BY <1>1, <1>6, <1>8, <1>9 DEF BatchInv

\* Moving a call to the next stage.
LEMMA StageInv ==
  ASSUME BatchInv, NEW c \in BatchCalls, NEW to \in {"direct", "batched"},
         requests[c].stage = "resolving",
         requests' = [requests EXCEPT ![c].stage = to]
  PROVE  /\ requests' \in [BatchCalls -> CallStates]
         /\ KeepsTags /\ AnswersBelongToTheirCalls'
         /\ requests'[c].stage = to /\ requests'[c].tag = requests[c].tag
  <1>1. requests \in [BatchCalls -> CallStates] /\ AnswersBelongToTheirCalls
    BY DEF BatchInv
  <1> DEFINE new == [stage |-> to, tag |-> requests[c].tag, answer |-> requests[c].answer]
  <1>2. requests' = [requests EXCEPT ![c] = new] /\ new \in CallStates
    <2>1. requests' = [requests EXCEPT ![c] = [requests[c] EXCEPT !.stage = to]]
      BY <1>1
    <2>2. [requests[c] EXCEPT !.stage = to] = new
      BY <1>1, StageUpdate DEF CallStages
    <2>3. new \in CallStates
      BY <1>1 DEF CallStates, CallStages
    <2> HIDE DEF new
    <2> QED
      BY <2>1, <2>2, <2>3
  <1>3. new.stage = to /\ new.tag = requests[c].tag
    OBVIOUS
  <1> HIDE DEF new
  <1>4. /\ requests' \in [BatchCalls -> CallStates]
        /\ requests'[c] = new /\ \A d \in BatchCalls \ {c} : requests'[d] = requests[d]
    BY <1>1, <1>2
  <1>5. KeepsTags
    BY <1>3, <1>4 DEF KeepsTags
  <1>6. AnswersBelongToTheirCalls'
    BY <1>1, <1>3, <1>4 DEF AnswersBelongToTheirCalls
  <1> QED
    BY <1>3, <1>4, <1>5, <1>6

\* The rest of call after the await: the batch it finds then is for its own block.
LEMMA CallResolvedInv ==
  ASSUME BatchInv, NEW c \in BatchCalls, CallResolved(c)
  PROVE  BatchInv'
  <1>0. /\ batched \in Batches /\ MadeFor(batched) /\ dispatched \subseteq Batches
        /\ \A b \in dispatched : MadeFor(b)
        /\ requests \in [BatchCalls -> CallStates]
    BY DEF BatchInv
  <1>1. requests[c].stage = "resolving" /\ dispatched' = dispatched
    BY DEF CallResolved
  <1>2. CASE c \in Unbatchable \/ ConflictsWithBatch(requests[c].tag)
    <2>1. requests' = [requests EXCEPT ![c].stage = "direct"] /\ batched' = batched
      BY <1>2 DEF CallResolved
    <2>2. requests' \in [BatchCalls -> CallStates] /\ KeepsTags /\ AnswersBelongToTheirCalls'
      BY <1>1, <2>1, StageInv
    <2>3. MadeFor(batched)' /\ \A b \in dispatched' : MadeFor(b)'
      BY <1>0, <1>1, <2>1, <2>2, MadeForStays
    <2> QED
      BY <1>0, <1>1, <2>1, <2>2, <2>3 DEF BatchInv
  <1>3. CASE ~(c \in Unbatchable \/ ConflictsWithBatch(requests[c].tag))
    <2> DEFINE t == IF batched.calls = <<>> THEN requests[c].tag ELSE batched.tag
    <2>1. /\ requests' = [requests EXCEPT ![c].stage = "batched"]
          /\ batched' = [calls |-> Append(batched.calls, c), tag |-> t]
      BY <1>3 DEF CallResolved, EnqueueCall
    <2>2. t = requests[c].tag
      BY <1>3 DEF ConflictsWithBatch
    <2> HIDE DEF t
    <2>3. /\ requests' \in [BatchCalls -> CallStates] /\ KeepsTags /\ AnswersBelongToTheirCalls'
          /\ requests'[c].stage = "batched" /\ requests'[c].tag = requests[c].tag
      BY <1>1, <2>1, StageInv
    <2>4. batched.calls \in Seq(BatchCalls) /\ requests[c].tag \in AskedTags
      BY <1>0 DEF Batches, CallStates
    <2>5. batched' \in Batches /\ batched'.calls = Append(batched.calls, c) /\ batched'.tag = requests[c].tag
      BY <2>1, <2>2, <2>4 DEF Batches
    <2>6. ASSUME NEW i \in DOMAIN batched'.calls
          PROVE  requests'[batched'.calls[i]].stage # "none" /\ requests'[batched'.calls[i]].tag = batched'.tag
      <3>1. CASE i = Len(batched.calls) + 1
        <4>1. batched'.calls[i] = c
          BY <2>4, <2>5, <3>1
        <4> QED
          BY <2>3, <2>5, <4>1
      <3>2. CASE i # Len(batched.calls) + 1
        <4>1. i \in DOMAIN batched.calls /\ batched'.calls[i] = batched.calls[i]
          BY <2>4, <2>5, <2>6, <3>2
        <4>2. batched.calls # <<>> /\ batched.calls[i] \in BatchCalls
          BY <2>4, <4>1
        <4>3. requests[c].tag = batched.tag
          BY <1>3, <4>2 DEF ConflictsWithBatch
        <4>4. requests[batched.calls[i]].stage # "none" /\ requests[batched.calls[i]].tag = batched.tag
          BY <1>0, <4>1 DEF MadeFor
        <4> QED
          BY <2>3, <2>5, <4>1, <4>2, <4>3, <4>4 DEF KeepsTags
      <3> QED
        BY <3>1, <3>2
    <2>7. MadeFor(batched)'
      BY <2>6 DEF MadeFor
    <2>8. \A b \in dispatched' : MadeFor(b)'
      BY <1>0, <1>1, <2>3, MadeForStays
    <2> QED
      BY <1>0, <1>1, <2>3, <2>5, <2>7, <2>8 DEF BatchInv
  <1> QED
    BY <1>2, <1>3

\* The answer of the aggregate call.
LEMMA BatchAnsweredInv ==
  ASSUME BatchInv, NEW b \in dispatched, BatchAnswered(b)
  PROVE  BatchInv'
  <1>0. /\ batched \in Batches /\ MadeFor(batched) /\ dispatched \subseteq Batches
        /\ \A d \in dispatched : MadeFor(d)
        /\ requests \in [BatchCalls -> CallStates] /\ AnswersBelongToTheirCalls
    BY DEF BatchInv
  <1> DEFINE reverts == \E i \in DOMAIN b.calls : b.calls[i] \in Reverting
             results == [i \in DOMAIN b.calls |-> Returned(b.calls[i], b.tag)]
             at(c) == CHOOSE i \in DOMAIN b.calls : b.calls[i] = c
             new(c) == IF \E i \in DOMAIN b.calls : b.calls[i] = c
                       THEN Settle(c, reverts, results[at(c)]) ELSE requests[c]
  <1>1. /\ dispatched' = dispatched \ {b} /\ batched' = batched
        /\ requests' = [c \in BatchCalls |-> new(c)]
    BY DEF BatchAnswered
  <1>2. ASSUME NEW c \in BatchCalls
        PROVE  /\ new(c) \in CallStates
               /\ requests[c].stage # "none" => new(c).stage # "none" /\ new(c).tag = requests[c].tag
               /\ new(c).stage = "resolved" =>
                    new(c).answer = Returned(c, new(c).tag) /\ c \notin Reverting
    <2>1. CASE \E i \in DOMAIN b.calls : b.calls[i] = c
      <3>1. at(c) \in DOMAIN b.calls /\ b.calls[at(c)] = c
        BY <2>1
      <3> HIDE DEF at
      <3>2. results[at(c)] = Returned(c, b.tag)
        BY <3>1
      <3> HIDE DEF results
      <3>3. requests[c].tag = b.tag
        BY <1>0, <3>1 DEF MadeFor
      <3>4. ~reverts => c \notin Reverting
        BY <3>1
      <3>5. new(c) = Settle(c, reverts, Returned(c, b.tag))
        BY <2>1, <3>2
      <3> HIDE DEF reverts, new
      <3>6. requests[c] \in CallStates /\ requests[c].tag \in AskedTags
        BY <1>0 DEF CallStates
      <3>7. CASE reverts
        <4>1. new(c) = [stage |-> "rejected", tag |-> requests[c].tag, answer |-> NoAnswer]
          BY <3>5, <3>6, <3>7 DEF Settle, CallStates
        <4>2. NoAnswer \in CallAnswers
          BY DEF CallAnswers
        <4> QED
          BY <3>6, <4>1, <4>2 DEF CallStates, CallStages
      <3>8. CASE ~reverts
        <4>1. new(c) = [stage |-> "resolved", tag |-> requests[c].tag, answer |-> Returned(c, b.tag)]
          BY <3>5, <3>6, <3>8 DEF Settle, CallStates
        <4>2. Returned(c, b.tag) \in CallAnswers
          BY <3>3, <3>6 DEF CallAnswers
        <4>3. new(c) \in CallStates
          BY <3>6, <4>1, <4>2 DEF CallStates, CallStages
        <4>4. new(c).stage = "resolved" /\ new(c).tag = requests[c].tag /\ new(c).answer = Returned(c, b.tag)
          BY <4>1
        <4> QED
          BY <3>3, <3>4, <3>8, <4>3, <4>4
      <3> QED
        BY <3>7, <3>8
    <2>2. CASE ~\E i \in DOMAIN b.calls : b.calls[i] = c
      <3>1. new(c) = requests[c]
        BY <2>2
      <3> HIDE DEF new
      <3> QED
        BY <1>0, <3>1 DEF AnswersBelongToTheirCalls
    <2> QED
      BY <2>1, <2>2
  <1> HIDE DEF new
  <1>3. requests' \in [BatchCalls -> CallStates] /\ \A c \in BatchCalls : requests'[c] = new(c)
    BY <1>1, <1>2
  <1>4. KeepsTags /\ AnswersBelongToTheirCalls'
    BY <1>2, <1>3 DEF KeepsTags, AnswersBelongToTheirCalls
  <1>5. MadeFor(batched)' /\ \A d \in dispatched' : MadeFor(d)'
    BY <1>0, <1>1, <1>4, MadeForStays
  <1> QED
    BY <1>0, <1>1, <1>3, <1>4, <1>5 DEF BatchInv

\* The answer to a call that was sent on its own.
LEMMA DirectAnsweredInv ==
  ASSUME BatchInv, NEW c \in BatchCalls, DirectAnswered(c)
  PROVE  BatchInv'
  <1>0. /\ batched \in Batches /\ MadeFor(batched) /\ dispatched \subseteq Batches
        /\ \A d \in dispatched : MadeFor(d)
        /\ requests \in [BatchCalls -> CallStates] /\ AnswersBelongToTheirCalls
        /\ requests[c] \in CallStates
    BY DEF BatchInv
  <1> DEFINE mine == Returned(c, requests[c].tag)
             new == Settle(c, c \in Reverting, mine)
  <1>1. requests' = [requests EXCEPT ![c] = new] /\ UNCHANGED <<batched, dispatched>>
    BY DEF DirectAnswered
  <1>2. mine \in CallAnswers /\ NoAnswer \in CallAnswers
    BY <1>0 DEF CallAnswers, CallStates
  <1>3. /\ new \in CallStates /\ new.stage # "none" /\ new.tag = requests[c].tag
        /\ new.stage = "resolved" => new.answer = mine /\ c \notin Reverting
    <2> HIDE DEF mine
    <2>1. CASE c \in Reverting
      <3>1. new = [requests[c] EXCEPT !.stage = "rejected", !.answer = NoAnswer]
        BY <2>1 DEF Settle
      <3>2. new = [stage |-> "rejected", tag |-> requests[c].tag, answer |-> NoAnswer]
        BY <1>0, <1>2, <3>1, AnswerUpdate DEF CallStages
      <3> QED
        BY <1>0, <1>2, <3>2 DEF CallStates, CallStages
    <2>2. CASE c \notin Reverting
      <3>1. new = [requests[c] EXCEPT !.stage = "resolved", !.answer = mine]
        BY <2>2 DEF Settle
      <3>2. new = [stage |-> "resolved", tag |-> requests[c].tag, answer |-> mine]
        BY <1>0, <1>2, <3>1, AnswerUpdate DEF CallStages
      <3> QED
        BY <1>0, <1>2, <2>2, <3>2 DEF CallStates, CallStages
    <2> QED
      BY <2>1, <2>2
  <1> HIDE DEF new
  <1>4. /\ requests' \in [BatchCalls -> CallStates]
        /\ requests'[c] = new /\ \A d \in BatchCalls \ {c} : requests'[d] = requests[d]
    BY <1>0, <1>1, <1>3
  <1>5. KeepsTags
    BY <1>3, <1>4 DEF KeepsTags
  <1>6. AnswersBelongToTheirCalls'
    BY <1>0, <1>3, <1>4 DEF AnswersBelongToTheirCalls
  <1>7. MadeFor(batched)' /\ \A d \in dispatched' : MadeFor(d)'
    BY <1>0, <1>1, <1>5, MadeForStays
  <1> QED
    BY <1>0, <1>1, <1>4, <1>6, <1>7 DEF BatchInv

\* The remaining steps change no call.
LEMMA BatchNextInv == BatchInv /\ [BatchNext]_batchVars => BatchInv'
  <1> SUFFICES ASSUME BatchInv, [BatchNext]_batchVars PROVE BatchInv'
    OBVIOUS
  <1>1. CASE SetChainId \/ UNCHANGED batchVars
    <2>1. UNCHANGED <<requests, batched, dispatched>>
      BY <1>1 DEF SetChainId, batchVars
    <2> QED
      BY <2>1 DEF BatchInv, MadeFor, AnswersBelongToTheirCalls
  <1>2. CASE DispatchCalls
    <2>1. /\ requests' = requests /\ batched' = emptyBatch
          /\ dispatched' = dispatched \cup {batched}
      BY <1>2 DEF DispatchCalls
    <2>2. emptyBatch \in Batches /\ emptyBatch.calls = <<>>
      BY DEF emptyBatch, Batches, AskedTags
    <2>3. MadeFor(batched)'
      BY <2>1, <2>2 DEF MadeFor
    <2>4. dispatched' \subseteq Batches /\ \A b \in dispatched' : MadeFor(b)'
      BY <2>1 DEF BatchInv, MadeFor
    <2> QED
      BY <2>1, <2>2, <2>3, <2>4 DEF BatchInv, AnswersBelongToTheirCalls
  <1>3. CASE \E c \in BatchCalls : CallResolved(c) \/ DirectAnswered(c)
    BY <1>3, CallResolvedInv, DirectAnsweredInv
  <1>4. CASE \E b \in dispatched : BatchAnswered(b)
    BY <1>4, BatchAnsweredInv
  <1>5. CASE \E c \in BatchCalls, tag \in Tags : MakeCall(c, tag)
    BY <1>5, MakeCallInv
  <1> QED
    BY <1>1, <1>2, <1>3, <1>4, <1>5 DEF BatchNext, BatchSteps

\* Batched, for any calls for any blocks and any interleaving of the calls' awaits with the
\* timer and with the answers: a call that is resolved has its own result, at the block it
\* asked for.
THEOREM BatchedAnswersBelong == BatchSpec => []AnswersBelongToTheirCalls
  <1>1. BatchInit => BatchInv
    <2> SUFFICES ASSUME BatchInit PROVE BatchInv
      OBVIOUS
    <2>1. /\ requests = [c \in BatchCalls |-> [stage |-> "none", tag |-> "none", answer |-> NoAnswer]]
          /\ batched = emptyBatch /\ dispatched = {}
      BY DEF BatchInit
    <2>2. requests \in [BatchCalls -> CallStates] /\ \A c \in BatchCalls : requests[c].stage = "none"
      BY <2>1 DEF CallStates, CallStages, AskedTags, CallAnswers
    <2>3. batched \in Batches /\ batched.calls = <<>>
      BY <2>1 DEF emptyBatch, Batches, AskedTags
    <2> QED
      BY <2>1, <2>2, <2>3 DEF BatchInv, MadeFor, AnswersBelongToTheirCalls
  <1>2. BatchInv => AnswersBelongToTheirCalls
    BY DEF BatchInv
  <1> QED
    BY <1>1, <1>2, BatchNextInv, PTL DEF BatchSpec

-----------------------------------------------------------------------------
(***************************************************************************)
(* The amounts of a form: what the conversions of Decimal do, and with it  *)
(* that fields show their amounts.                                         *)
(***************************************************************************)

\* The powers of ten are what their recursive definition says.
LEMMA TenToDef ==
  /\ tenTo \in [Nat -> Nat \ {0}] /\ tenTo[0] = 1
  /\ \A n \in Nat : tenTo[n+1] = 10 * tenTo[n]
  <1> DEFINE S == Nat \ {0}
             step == [x \in S |-> 10 * x]
             Def(f) == [n \in Nat |-> IF n = 0 THEN 1 ELSE 10 * f[n-1]]
  <1>1. 1 \in S /\ step \in [S -> S]
    OBVIOUS
  <1>2. \E f : IsIteration(f, S, 1, step)
    <2> HIDE DEF S, step
    <2> QED
      BY <1>1, Iteration
  <1>3. PICK g : IsIteration(g, S, 1, step)
    BY <1>2
  <1>4. g \in [Nat -> S] /\ g[0] = 1 /\ \A n \in Nat : g[n+1] = 10 * g[n]
    BY <1>3 DEF IsIteration
  <1>5. g = Def(g)
    <2>1. ASSUME NEW n \in Nat PROVE g[n] = IF n = 0 THEN 1 ELSE 10 * g[n-1]
      <3>1. CASE n = 0
        BY <1>4, <3>1
      <3>2. CASE n # 0
        <4>1. n - 1 \in Nat /\ (n - 1) + 1 = n
          BY <3>2
        <4>2. g[(n-1)+1] = 10 * g[n-1]
          BY <1>4, <4>1
        <4> QED
          BY <3>2, <4>1, <4>2
      <3> QED
        BY <3>1, <3>2
    <2> QED
      BY <1>4, <2>1
  <1>6. tenTo = CHOOSE f : f = Def(f)
    BY DEF tenTo
  <1>7. tenTo = Def(tenTo)
    <2> HIDE DEF Def
    <2> QED
      BY <1>5, <1>6
  <1>8. tenTo[0] = 1 /\ \A n \in Nat : tenTo[n+1] = 10 * tenTo[n]
    <2>0. ASSUME NEW n \in Nat PROVE Def(tenTo)[n] = IF n = 0 THEN 1 ELSE 10 * tenTo[n-1]
      OBVIOUS
    <2> HIDE DEF Def
    <2>1. \A n \in Nat : tenTo[n] = IF n = 0 THEN 1 ELSE 10 * tenTo[n-1]
      BY <1>7, <2>0
    <2>2. ASSUME NEW n \in Nat PROVE tenTo[n+1] = 10 * tenTo[n]
      <3>1. n + 1 \in Nat /\ n + 1 # 0 /\ (n + 1) - 1 = n
        OBVIOUS
      <3> QED
        BY <2>1, <3>1
    <2> QED
      BY <2>1, <2>2
  <1>9. \A n \in Nat : tenTo[n] \in Nat \ {0}
    <2> DEFINE T == {n \in Nat : tenTo[n] \in Nat \ {0}}
    <2>1. 0 \in T
      BY <1>8
    <2>2. ASSUME NEW n \in Nat, n \in T PROVE n + 1 \in T
      <3>1. tenTo[n] \in Nat \ {0} /\ tenTo[n+1] = 10 * tenTo[n]
        BY <1>8, <2>2
      <3> QED
        BY <3>1
    <2> HIDE DEF T
    <2>3. \A n \in Nat : n \in T
      BY <2>1, <2>2, SetInduction
    <2> QED
      BY <2>3 DEF T
  <1>10. DOMAIN tenTo = Nat /\ tenTo = [n \in Nat |-> tenTo[n]]
    <2>1. Def(tenTo) = [n \in DOMAIN Def(tenTo) |-> Def(tenTo)[n]] /\ DOMAIN Def(tenTo) = Nat
      OBVIOUS
    <2> HIDE DEF Def
    <2> QED
      BY <1>7, <2>1
  <1> QED
    BY <1>8, <1>9, <1>10

\* Rounding to a multiple of q, which is cut off after half of q was added.
LEMMA NearestMultiple ==
  ASSUME NEW x \in Nat, NEW h \in Nat \ {0}
  PROVE  LET r == ((x + 5 * h) \div (10 * h)) * (10 * h)
         IN  r \in Nat /\ 2 * (r - x) \in -(10 * h)..(10 * h)
  <1> DEFINE v == x + 5 * h
             q == 10 * h
             d == v \div q
             r == d * q
  <1>1. v \in Nat /\ q \in Nat \ {0}
    OBVIOUS
  <1>2. d \in Nat /\ d * q <= v /\ v < d * q + q
    <2> HIDE DEF v, q
    <2> QED
      BY <1>1
  <1>3. r \in Nat
    <2> HIDE DEF d, q
    <2> QED
      BY <1>1, <1>2
  <1>4. r <= x + 5 * h /\ x + 5 * h < r + 10 * h
    BY <1>2
  <1> HIDE DEF r
  <1>5. 2 * (r - x) <= 10 * h /\ -(10 * h) <= 2 * (r - x) /\ 2 * (r - x) \in Int
    BY <1>3, <1>4
  <1> QED
    BY <1>3, <1>5 DEF r

\* What a field shows of an amount is the amount to the places shown.
LEMMA ShownIsNearest ==
  ASSUME NEW x \in Nat
  PROVE  Nearest(_fromString(editedAmount(x)), x)
  <1> DEFINE D == DecimalPlaces
             s == ShownPlaces
             q == tenTo[D - s]
             v == IF s < D THEN _roundUp(x, s) ELSE x
             t == [digits |-> v \div q, scale |-> s, exp |-> 0]
  <1>1. D \in Nat /\ s \in Nat /\ s <= D /\ D - s \in Nat
    BY PlacesAssumption
  <1>2. editedAmount(x) = t
    BY DEF editedAmount, _toStringWithPrecision
  <1>3. q \in Nat \ {0}
    BY <1>1, TenToDef
  <1>4. v \in Nat /\ 2 * ((v \div q) * q - x) \in -q..q /\ (v \div q) * q \in Nat
    <2>1. CASE s < D
      <3>1. D - 1 - s \in Nat /\ (D - 1 - s) + 1 = D - s
        BY <1>1, <2>1
      <3> DEFINE h == tenTo[D - 1 - s]
      <3>2. h \in Nat \ {0} /\ q = 10 * h
        BY <3>1, TenToDef
      <3>3. v = x + 5 * h
        BY <2>1 DEF _roundUp
      <3> HIDE DEF h, q, v
      <3>4. /\ ((x + 5 * h) \div (10 * h)) * (10 * h) \in Nat
            /\ 2 * (((x + 5 * h) \div (10 * h)) * (10 * h) - x) \in -(10 * h)..(10 * h)
        BY <3>2, NearestMultiple, Zenon
      <3>5. v \in Nat
        BY <3>2, <3>3
      <3> QED
        BY <3>2, <3>3, <3>4, <3>5, Zenon
    <2>2. CASE ~(s < D)
      <3>1. D - s = 0
        BY <1>1, <2>2
      <3>2. q = 1 /\ v = x
        BY <2>2, <3>1, TenToDef
      <3> HIDE DEF q, v
      <3> QED
        BY <3>2
    <2> QED
      BY <2>1, <2>2
  <1>5. v \div q \in Nat
    <2> HIDE DEF v, q
    <2> QED
      BY <1>3, <1>4
  <1> HIDE DEF v
  <1>6. t.digits = v \div q /\ t.scale = s /\ t.exp = 0
    OBVIOUS
  <1>7. t # NotADecimal
    BY <1>5, <1>6 DEF NotADecimal
  <1>8. coefficient(t) = (v \div q) * q
    BY <1>1, <1>6 DEF coefficient
  <1> HIDE DEF t
  <1>9. _fromString(t) = coefficient(t) * tenTo[0]
    BY <1>6, <1>7 DEF _fromString
  <1>10. _fromString(t) = (v \div q) * q
    BY <1>4, <1>8, <1>9, TenToDef
  <1> QED
    BY <1>2, <1>4, <1>10 DEF Nearest

\* The text of the largest amount says exactly that amount.
LEMMA MaxTextIsExact ==
  ASSUME NEW x \in Nat
  PROVE  _fromString(maxText(x)) = x
  <1> DEFINE t == [digits |-> x, scale |-> DecimalPlaces, exp |-> 0]
  <1>1. maxText(x) = t /\ t.digits = x /\ t.scale = DecimalPlaces /\ t.exp = 0
    BY DEF maxText, _toStringWithAutomaticPrecision
  <1>2. t # NotADecimal
    BY <1>1 DEF NotADecimal
  <1> HIDE DEF t
  <1>3. coefficient(t) = x * tenTo[DecimalPlaces - DecimalPlaces]
    BY <1>1, PlacesAssumption DEF coefficient
  <1>4. DecimalPlaces - DecimalPlaces = 0
    BY PlacesAssumption
  <1>5. coefficient(t) = x
    BY <1>3, <1>4, TenToDef
  <1>6. _fromString(t) = coefficient(t) * tenTo[0]
    BY <1>1, <1>2 DEF _fromString
  <1> QED
    BY <1>1, <1>5, <1>6, TenToDef

\* A typed text is refused or gives an amount.
LEMMA TypedAmount ==
  ASSUME NEW t \in TypedTexts
  PROVE  _fromString(t) = BadFormat \/ _fromString(t) \in Nat
  <1>1. CASE t = NotADecimal
    BY <1>1 DEF _fromString
  <1>2. CASE t # NotADecimal
    <2>1. t.digits \in Nat /\ t.scale \in Nat /\ t.exp \in Int
      BY <1>2, TextsAssumption
    <2>2. coefficient(t) \in Nat
      <3>1. CASE t.scale <= DecimalPlaces
        <4>1. tenTo[DecimalPlaces - t.scale] \in Nat
          BY <2>1, <3>1, PlacesAssumption, TenToDef
        <4> QED
          BY <2>1, <3>1, <4>1 DEF coefficient
      <3>2. CASE ~(t.scale <= DecimalPlaces)
        <4>1. tenTo[t.scale - DecimalPlaces] \in Nat \ {0}
          BY <2>1, <3>2, PlacesAssumption, TenToDef
        <4> QED
          BY <2>1, <3>2, <4>1 DEF coefficient
      <3> QED
        BY <3>1, <3>2
    <2>3. CASE t.exp < 0
      <3>1. tenTo[-t.exp] \in Nat \ {0}
        BY <2>1, <2>3, TenToDef
      <3>2. _fromString(t) = coefficient(t) \div tenTo[-t.exp]
        BY <1>2, <2>1, <2>3 DEF _fromString
      <3> QED
        BY <2>2, <3>1, <3>2
    <2>4. CASE t.exp >= 0
      <3>1. tenTo[t.exp] \in Nat \ {0}
        BY <2>1, <2>4, TenToDef
      <3>2. _fromString(t) = coefficient(t) * tenTo[t.exp]
        BY <1>2, <2>1, <2>4 DEF _fromString
      <3> QED
        BY <2>2, <3>1, <3>2
    <2> QED
      BY <2>1, <2>3, <2>4
  <1> QED
    BY <1>1, <1>2

\* The inductive invariant: amounts are numbers, and the text of an open field is the one it
\* opened with or the one its amount was read from.
FieldsInv ==
  /\ amounts \in [FieldIds -> Nat] /\ maxAmount \in [FieldIds -> Nat]
  /\ editing \in FieldIds \cup {NoField}
  /\ editing # NoField /\ ~invalid /\ ~overridden =>
       \/ text = editedAmount(amounts[editing])
       \/ _fromString(text) = amounts[editing]

\* Every step keeps it.
LEMMA FieldsNextInv == FieldsInv /\ [FieldsNext]_fieldVars => FieldsInv'
  <1> SUFFICES ASSUME FieldsInv, [FieldsNext]_fieldVars PROVE FieldsInv'
    OBVIOUS
  <1>0. amounts \in [FieldIds -> Nat] /\ maxAmount \in [FieldIds -> Nat]
    BY DEF FieldsInv
  <1>1. CASE \E f \in FieldIds : OpenField(f)
    BY <1>1 DEF OpenField, FieldsInv, textOnOpening
  <1>2. CASE \E f \in FieldIds : PressMax(f)
    <2>1. PICK f \in FieldIds : PressMax(f)
      BY <1>2
    <2>2. _fromString(maxText(maxAmount[f])) \in Nat
      BY <1>0, MaxTextIsExact
    <2>3. /\ amounts' = [amounts EXCEPT ![f] = _fromString(maxText(maxAmount[f]))]
          /\ editing' = NoField /\ maxAmount' = maxAmount
      BY <2>1 DEF PressMax
    <2> QED
      BY <1>0, <2>2, <2>3 DEF FieldsInv
  <1>3. CASE \E f \in FieldIds : \E x \in FormAmounts : FormSets(f, x)
    <2>1. PICK f \in FieldIds : \E x \in FormAmounts : FormSets(f, x)
      BY <1>3
    <2>2. PICK x \in FormAmounts : FormSets(f, x)
      BY <2>1
    <2>3. x \in Nat
      BY AmountsAssumption
    <2>4. /\ amounts' = [amounts EXCEPT ![f] = x] /\ (overridden' <=> overridden \/ f = editing)
          /\ UNCHANGED <<maxAmount, editing, text, invalid>>
      BY <2>2 DEF FormSets
    <2>5. amounts' \in [FieldIds -> Nat] /\ \A g \in FieldIds \ {f} : amounts'[g] = amounts[g]
      BY <1>0, <2>3, <2>4
    <2> QED
      BY <1>0, <2>4, <2>5 DEF FieldsInv
  <1>4. CASE \E t \in TypedTexts : TypeText(t)
    <2>1. PICK t \in TypedTexts : TypeText(t)
      BY <1>4
    <2> DEFINE value == _fromString(t)
    <2>2. value = BadFormat \/ value \in Nat
      BY TypedAmount
    <2>3. /\ editing \in FieldIds /\ text' = t /\ (invalid' <=> value = BadFormat)
          /\ amounts' = IF value = BadFormat THEN amounts ELSE [amounts EXCEPT ![editing] = value]
          /\ UNCHANGED <<maxAmount, editing>>
      BY <2>1 DEF TypeText, FieldsInv
    <2> HIDE DEF value
    <2>4. CASE value = BadFormat
      BY <1>0, <2>3, <2>4 DEF FieldsInv
    <2>5. CASE value # BadFormat
      <3>1. amounts' \in [FieldIds -> Nat] /\ amounts'[editing] = value
        BY <1>0, <2>2, <2>3, <2>5
      <3>2. _fromString(text') = value
        BY <2>3 DEF value
      <3> QED
        BY <1>0, <2>3, <3>1, <3>2 DEF FieldsInv
    <2> QED
      BY <2>4, <2>5
  <1>5. CASE CloseField \/ UNCHANGED fieldVars
    BY <1>5 DEF CloseField, fieldVars, FieldsInv
  <1> QED
    BY <1>1, <1>2, <1>3, <1>4, <1>5 DEF FieldsNext

\* The fields of a form, for any numbers of places, texts, balances and changes by the form:
\* a field shows its amount, and "max" is the whole amount.
THEOREM FieldsAlwaysKeepAmounts == FieldsSpec => FieldsKeepAmounts
  <1>1. FieldsInit => FieldsInv
    <2> SUFFICES ASSUME FieldsInit PROVE FieldsInv
      OBVIOUS
    <2>1. amounts \in [FieldIds -> Nat]
      BY DEF FieldsInit
    <2>2. maxAmount \in [FieldIds -> Nat]
      BY AmountsAssumption DEF FieldsInit
    <2> QED
      BY <2>1, <2>2 DEF FieldsInit, FieldsInv
  <1>2. FieldsInv => FieldsShowTheirAmounts
    <2> SUFFICES ASSUME FieldsInv PROVE FieldsShowTheirAmounts
      OBVIOUS
    <2>1. ASSUME NEW f \in FieldIds PROVE Nearest(_fromString(editedAmount(amounts[f])), amounts[f])
      <3>1. amounts[f] \in Nat
        BY DEF FieldsInv
      <3> QED
        BY <3>1, ShownIsNearest
    <2> QED
      BY <2>1 DEF FieldsInv, FieldsShowTheirAmounts
  <1>3. FieldsInv => [\A f \in FieldIds : PressMax(f) => maxedOut(f)']_fieldVars
    <2> SUFFICES ASSUME FieldsInv, NEW f \in FieldIds, PressMax(f) PROVE maxedOut(f)'
      OBVIOUS
    <2>1. maxAmount[f] \in Nat /\ amounts \in [FieldIds -> Nat]
      BY DEF FieldsInv
    <2>2. /\ amounts' = [amounts EXCEPT ![f] = _fromString(maxText(maxAmount[f]))]
          /\ maxAmount' = maxAmount
      BY DEF PressMax
    <2>3. _fromString(maxText(maxAmount[f])) = maxAmount[f]
      BY <2>1, MaxTextIsExact
    <2> QED
      BY <2>1, <2>2, <2>3 DEF maxedOut
  <1> QED
    BY <1>1, <1>2, <1>3, FieldsNextInv, PTL DEF FieldsSpec, FieldsKeepAmounts, MaxIsExact

-----------------------------------------------------------------------------
(***************************************************************************)
(* The store: its copy is of the block it names, so a read that it serves  *)
(* answers as the node would; and while listeners are told, those that are *)
(* not told yet are still on the list.                                     *)
(***************************************************************************)

\* The rows of the table of reads: a user's state is served on a hit of the user only.
ReadRows == [hit : {"block", "user", "never"}, node : {"tagged", "latest"},
             field : {"trove", "redistributed", "mintList", "derived trove", "bammDeposit"}]
RowsAreSafe(f) ==
  \A name \in DOMAIN f : f[name] \in ReadRows /\ (name \in readsOfUser => f[name].hit = "user")

\* Two such tables make one.
LEMMA TogetherIsSafe ==
  ASSUME NEW f, NEW g, RowsAreSafe(f), RowsAreSafe(g)
  PROVE  RowsAreSafe(Together(f, g)) /\ DOMAIN Together(f, g) = DOMAIN f \union DOMAIN g
  <1>1. /\ DOMAIN Together(f, g) = DOMAIN f \union DOMAIN g
        /\ \A name \in DOMAIN f \union DOMAIN g :
             Together(f, g)[name] = IF name \in DOMAIN f THEN f[name] ELSE g[name]
    BY DEF Together
  <1> QED
    BY <1>1 DEF RowsAreSafe

\* The update of one field of a row.
LEMMA RowUpdate ==
  ASSUME NEW H, NEW N, NEW F, NEW r \in [hit : H, node : N, field : F], NEW n \in N
  PROVE  [r EXCEPT !.node = n] \in [hit : H, node : N, field : F] /\ [r EXCEPT !.node = n].hit = r.hit
  <1>1. [r EXCEPT !.node = n] = [hit |-> r.hit, node |-> n, field |-> r.field]
    OBVIOUS
  <1> QED
    BY <1>1

\* A row that is read at the latest block is like the other one.
LEMMA LatestRow ==
  ASSUME NEW r \in ReadRows
  PROVE  Latest(r) \in ReadRows /\ Latest(r).hit = r.hit
  <1>1. ASSUME NEW n \in {"tagged", "latest"}
        PROVE  [r EXCEPT !.node = n] \in ReadRows /\ [r EXCEPT !.node = n].hit = r.hit
    BY RowUpdate DEF ReadRows
  <1> QED
    BY <1>1 DEF Latest

\* The rows that occur.
SafeRow(r, hit) == r \in ReadRows /\ r.hit = hit

\* Each of them is a row of the hit it names.
LEMMA ServedRows ==
  /\ SafeRow(Served("block", "trove"), "block") /\ SafeRow(Served("block", "redistributed"), "block")
  /\ SafeRow(Served("block", "mintList"), "block") /\ SafeRow(Served("never", "mintList"), "never")
  /\ SafeRow(Served("user", "trove"), "user") /\ SafeRow(Served("user", "derived trove"), "user")
  /\ SafeRow(Served("never", "trove"), "never") /\ SafeRow(Latest(Served("user", "trove")), "user")
  /\ SafeRow(Served("block", "bammDeposit"), "block") /\ SafeRow(Latest(Served("user", "bammDeposit")), "user")
  <1>1. ASSUME NEW hit \in {"block", "user", "never"},
               NEW field \in {"trove", "redistributed", "mintList", "derived trove", "bammDeposit"}
        PROVE  SafeRow(Served(hit, field), hit)
    BY DEF SafeRow, Served, ReadRows
  <1>2. SafeRow(Latest(Served("user", "trove")), "user")
    BY <1>1, LatestRow DEF SafeRow
  <1>3. SafeRow(Latest(Served("user", "bammDeposit")), "user")
    BY <1>1, LatestRow DEF SafeRow
  <1> QED
    BY <1>1, <1>2, <1>3

\* The whole table, group by group.
LEMMA ReadsTable == RowsAreSafe(storedReads) /\ readsOfUser \union readsOfAll \subseteq DOMAIN storedReads
  <1>1. RowsAreSafe(troveReads)
    <2>1. DOMAIN troveReads = {"getTotalRedistributed", "getTroveBeforeRedistribution", "getTrove", "getNumberOfTroves"}
      BY DEF troveReads
    <2>2. troveReads["getTotalRedistributed"] = Served("block", "redistributed")
      BY DEF troveReads
    <2>3. troveReads["getTroveBeforeRedistribution"] = Served("user", "trove")
      BY DEF troveReads
    <2>4. troveReads["getTrove"] = Served("user", "derived trove")
      BY DEF troveReads
    <2>5. troveReads["getNumberOfTroves"] = Served("block", "trove")
      BY DEF troveReads
    <2> QED
      BY <2>1, <2>2, <2>3, <2>4, <2>5, ServedRows DEF RowsAreSafe, SafeRow, readsOfUser
  <1>2. RowsAreSafe(systemReads)
    <2>1. DOMAIN systemReads = {"getPrice", "getMarketPrice", "getRedemptionRate", "getDeviationFactor", "getTotal"}
      BY DEF systemReads
    <2>2. systemReads["getPrice"] = Served("block", "trove")
      BY DEF systemReads
    <2>3. systemReads["getMarketPrice"] = Served("never", "trove")
      BY DEF systemReads
    <2>4. systemReads["getRedemptionRate"] = Served("never", "trove")
      BY DEF systemReads
    <2>5. systemReads["getDeviationFactor"] = Served("never", "trove")
      BY DEF systemReads
    <2>6. systemReads["getTotal"] = Served("block", "trove")
      BY DEF systemReads
    <2> QED
      BY <2>1, <2>2, <2>3, <2>4, <2>5, <2>6, ServedRows DEF RowsAreSafe, SafeRow, readsOfUser
  <1>3. RowsAreSafe(identityReads)
    <2>1. DOMAIN identityReads = {"getSymbol", "getCollateralAddress", "getStableAddress"}
      BY DEF identityReads
    <2>2. identityReads["getSymbol"] = Served("block", "mintList")
      BY DEF identityReads
    <2>3. identityReads["getCollateralAddress"] = Served("block", "mintList")
      BY DEF identityReads
    <2>4. identityReads["getStableAddress"] = Served("never", "mintList")
      BY DEF identityReads
    <2> QED
      BY <2>1, <2>2, <2>3, <2>4, ServedRows DEF RowsAreSafe, SafeRow, readsOfUser
  <1>4. RowsAreSafe(depositReads)
    <2>1. DOMAIN depositReads = {"getBammDeposit", "getStabilityDeposit", "getTHUSDInStabilityPool"}
      BY DEF depositReads
    <2>2. depositReads["getBammDeposit"] = Latest(Served("user", "bammDeposit"))
      BY DEF depositReads
    <2>3. depositReads["getStabilityDeposit"] = Served("user", "trove")
      BY DEF depositReads
    <2>4. depositReads["getTHUSDInStabilityPool"] = Served("block", "trove")
      BY DEF depositReads
    <2> QED
      BY <2>1, <2>2, <2>3, <2>4, ServedRows DEF RowsAreSafe, SafeRow, readsOfUser
  <1>5. RowsAreSafe(accountReads)
    <2>1. DOMAIN accountReads = {"getPCVBalance", "getTHUSDBalance", "getErc20TokenBalance", "getErc20TokenAllowance", "isStabilityPools", "isBorrowerOperations", "isTroveManager", "checkMintList", "getCollateralSurplusBalance"}
      BY DEF accountReads
    <2>2. accountReads["getPCVBalance"] = Served("block", "bammDeposit")
      BY DEF accountReads
    <2>3. accountReads["getTHUSDBalance"] = Served("user", "trove")
      BY DEF accountReads
    <2>4. accountReads["getErc20TokenBalance"] = Latest(Served("user", "trove"))
      BY DEF accountReads
    <2>5. accountReads["getErc20TokenAllowance"] = Served("user", "trove")
      BY DEF accountReads
    <2>6. accountReads["isStabilityPools"] = Served("block", "mintList")
      BY DEF accountReads
    <2>7. accountReads["isBorrowerOperations"] = Served("block", "mintList")
      BY DEF accountReads
    <2>8. accountReads["isTroveManager"] = Served("block", "mintList")
      BY DEF accountReads
    <2>9. accountReads["checkMintList"] = Served("block", "mintList")
      BY DEF accountReads
    <2>10. accountReads["getCollateralSurplusBalance"] = Served("user", "trove")
      BY DEF accountReads
    <2> QED
      BY <2>1, <2>2, <2>3, <2>4, <2>5, <2>6, <2>7, <2>8, <2>9, <2>10, ServedRows DEF RowsAreSafe, SafeRow, readsOfUser
  <1>6. RowsAreSafe(listAndFeeReads)
    <2>1. DOMAIN listAndFeeReads = {"getTroves", "getFees", "getBammAllowance"}
      BY DEF listAndFeeReads
    <2>2. listAndFeeReads["getTroves"] = Served("never", "trove")
      BY DEF listAndFeeReads
    <2>3. listAndFeeReads["getFees"] = Served("block", "trove")
      BY DEF listAndFeeReads
    <2>4. listAndFeeReads["getBammAllowance"] = Served("block", "bammDeposit")
      BY DEF listAndFeeReads
    <2> QED
      BY <2>1, <2>2, <2>3, <2>4, ServedRows DEF RowsAreSafe, SafeRow, readsOfUser
  <1> DEFINE a == Together(troveReads, systemReads)
             b == Together(identityReads, depositReads)
             c == Together(a, b)
             d == Together(accountReads, listAndFeeReads)
  <1>7. RowsAreSafe(a) /\ DOMAIN a = DOMAIN troveReads \union DOMAIN systemReads
    BY <1>1, <1>2, TogetherIsSafe
  <1>8. RowsAreSafe(b) /\ DOMAIN b = DOMAIN identityReads \union DOMAIN depositReads
    BY <1>3, <1>4, TogetherIsSafe
  <1>9. RowsAreSafe(d) /\ DOMAIN d = DOMAIN accountReads \union DOMAIN listAndFeeReads
    BY <1>5, <1>6, TogetherIsSafe
  <1>10. RowsAreSafe(c) /\ DOMAIN c = DOMAIN a \union DOMAIN b
    <2> HIDE DEF a, b
    <2> QED
      BY <1>7, <1>8, TogetherIsSafe
  <1>11. storedReads = Together(c, d)
    BY DEF storedReads
  <1>12. RowsAreSafe(storedReads) /\ DOMAIN storedReads = DOMAIN c \union DOMAIN d
    <2> HIDE DEF c, d
    <2> QED
      BY <1>9, <1>10, <1>11, TogetherIsSafe
  <1> HIDE DEF a, b, c, d
  <1>13. readsOfUser \union readsOfAll \subseteq
           DOMAIN troveReads \union DOMAIN systemReads \union DOMAIN identityReads
             \union DOMAIN depositReads \union DOMAIN accountReads \union DOMAIN listAndFeeReads
    BY DEF readsOfUser, readsOfAll, troveReads, systemReads, identityReads, depositReads, accountReads,
           listAndFeeReads
  <1> QED
    BY <1>7, <1>8, <1>9, <1>10, <1>12, <1>13

BlockStates == [trove : Int, redistributed : Int, mintList : BOOLEAN, bammDeposit : Int]
PollStates == [listening : BOOLEAN, heard : Nat]
FetchStates(n, h) == [session : 1..n, tag : 0..h, since : 0..h]

\* The inductive invariant of the store.
StoreInv ==
  /\ blocks \in Seq(BlockStates) /\ Height \in 1..MaxHeight
  /\ loaded \in BOOLEAN /\ updateTimer \in BOOLEAN /\ (updateTimer => loaded)
  /\ storeTag \in 0..Height
  /\ loaded => DOMAIN baseState = Fields /\ derivedState = Derive(baseState)
  /\ ~loaded => baseState = NotLoaded
  /\ loaded /\ storeTag # NoTag => \A k \in Tracked : baseState[k] = blocks[storeTag][k]
  /\ polls \in Seq(PollStates)
  /\ fetches \subseteq FetchStates(Len(polls), Height)
  /\ listeners \subseteq Subscribers /\ notifying \subseteq Subscribers
  /\ listeners \subseteq informed \cup notifying

\* What is on the list or informed, when a listener is told.
LEMMA NotifyKeeps ==
  ASSUME StoreInv, NEW s \in Subscribers, Notify(s)
  PROVE  StoreInv'
  <1>1. /\ UNCHANGED <<blocks, loaded, baseState, derivedState, storeTag, updateTimer, polls, fetches>>
        /\ s \in notifying /\ notifying' = notifying \ {s}
    BY DEF Notify, stateVars
  <1>2. listeners' \subseteq Subscribers /\ listeners' \subseteq informed' \cup notifying'
    <2>1. CASE s \in listeners
      <3>1. PICK after \in {listeners} \cup {listeners \cup {n} : n \in Subscribers}
                             \cup {listeners \ {n} : n \in Subscribers} :
              /\ listeners' = after
              /\ informed' = after \cap (informed \cup {s} \cup (after \ listeners))
        BY <2>1 DEF Notify
      <3>2. after \subseteq Subscribers
        BY <3>1 DEF StoreInv
      <3> QED
        BY <1>1, <3>1, <3>2 DEF StoreInv
    <2>2. CASE s \notin listeners
      <3>1. listeners' = listeners /\ informed' = informed
        BY <2>2 DEF Notify
      <3> QED
        BY <1>1, <2>2, <3>1 DEF StoreInv
    <2> QED
      BY <2>1, <2>2
  <1> QED
    BY <1>1, <1>2 DEF StoreInv, Height

\* An answer is loaded, applied, or dropped.
LEMMA StoreAnswerKeepsCopy ==
  ASSUME StoreInv, NEW f \in fetches, Answer(f)
  PROVE  StoreInv'
  <1>0. /\ blocks \in Seq(BlockStates) /\ Height \in 1..MaxHeight
        /\ f \in FetchStates(Len(polls), Height) /\ f.tag \in 0..Height
        /\ Height \in Nat
    BY HeightAssumption DEF StoreInv, FetchStates
  <1>1. /\ UNCHANGED <<blocks, polls, listeners>> /\ notifying = {}
        /\ fetches' = fetches \ {f}
    BY DEF Answer
  <1>2. PICK at \in [Fetched -> f.since..Height] :
          IF ~loaded THEN Load(Get(f, at), f.tag)
          ELSE IF f.tag # NoTag THEN Update(Get(f, at), f.tag)
          ELSE UNCHANGED <<stateVars, updateTimer, notifying, informed, newest>>
    BY DEF Answer
  <1> DEFINE got == Get(f, at)
  <1>3. DOMAIN got = Fields /\ (f.tag # NoTag => \A k \in Fetched : got[k] = blocks[f.tag][k])
    BY DEF Get, Fetched
  <1> HIDE DEF got
  <1>4. CASE ~loaded
    <2>1. /\ loaded' = TRUE /\ baseState' = got /\ derivedState' = Derive(got) /\ storeTag' = f.tag
          /\ updateTimer' = TRUE /\ UNCHANGED <<notifying, informed>>
      BY <1>2, <1>4 DEF Load, got
    <2>2. storeTag' # NoTag => \A k \in Tracked : baseState'[k] = blocks'[storeTag'][k]
      BY <1>1, <1>3, <2>1 DEF Tracked
    <2> QED
      BY <1>0, <1>1, <1>3, <2>1, <2>2 DEF StoreInv, Height
  <1>5. CASE loaded /\ f.tag # NoTag
    <2>1. /\ baseState' = Reduce(baseState, got) /\ derivedState' = Derive(baseState')
          /\ storeTag' = ReduceTag(storeTag, f.tag) /\ updateTimer' = TRUE
          /\ notifying' = listeners /\ loaded' = loaded
      BY <1>2, <1>5 DEF Update, got
    <2>2. storeTag' = f.tag
      BY <1>5, <2>1 DEF ReduceTag
    <2>3. /\ DOMAIN baseState' = Fields
          /\ \A k \in Tracked : baseState'[k] = got[k] /\ k \in Fetched
      BY <2>1 DEF Reduce, Tracked, Fetched
    <2>4. \A k \in Tracked : baseState'[k] = blocks'[storeTag'][k]
      BY <1>1, <1>3, <1>5, <2>2, <2>3
    <2> QED
      BY <1>0, <1>1, <1>5, <2>1, <2>2, <2>3, <2>4 DEF StoreInv, Height
  <1>6. CASE loaded /\ f.tag = NoTag
    <2>1. UNCHANGED <<stateVars, updateTimer, notifying, informed>>
      BY <1>2, <1>6
    <2> QED
      BY <1>1, <2>1 DEF StoreInv, stateVars, Height
  <1> QED
    BY <1>4, <1>5, <1>6

\* The chain grows: what the store holds is still of the block it names.
LEMMA MineKeeps ==
  ASSUME StoreInv, Mine
  PROVE  StoreInv'
  <1>0. /\ blocks \in Seq(BlockStates) /\ Height \in 1..MaxHeight /\ Height \in Nat
        /\ storeTag \in 0..Height /\ Height = Len(blocks)
    BY HeightAssumption DEF StoreInv, Height
  <1>1. PICK b \in Successors(blocks[Height]) : blocks' = Append(blocks, b)
    BY DEF Mine
  <1>2. /\ Height < MaxHeight
        /\ UNCHANGED <<stateVars, updateTimer, polls, fetches, listeners, notifying, informed>>
    BY DEF Mine
  <1>3. b \in BlockStates
    <2>1. blocks[Height] \in BlockStates
      BY <1>0
    <2> DEFINE last == blocks[Height]
    <2> HIDE DEF last
    <2>2. last \in BlockStates /\ b \in Successors(last)
      BY <1>1, <2>1 DEF last
    <2>3. [last EXCEPT !.trove = 1 - @] \in BlockStates
      BY <2>2 DEF BlockStates
    <2>4. [last EXCEPT !.mintList = ~@] \in BlockStates
      BY <2>2 DEF BlockStates
    <2>5. [last EXCEPT !.redistributed = 1, !.bammDeposit = 1] \in BlockStates
      <3>1. PICK liquidated : liquidated = [last EXCEPT !.redistributed = 1]
        OBVIOUS
      <3>2. liquidated \in BlockStates
        BY <2>2, <3>1 DEF BlockStates
      <3>3. [liquidated EXCEPT !.bammDeposit = 1] \in BlockStates
        BY <3>2 DEF BlockStates
      <3>4. [last EXCEPT !.redistributed = 1, !.bammDeposit = 1] = [liquidated EXCEPT !.bammDeposit = 1]
        BY <3>1
      <3> QED
        BY <3>3, <3>4
    <2> QED
      BY <2>2, <2>3, <2>4, <2>5 DEF Successors
  <1>4. /\ blocks' \in Seq(BlockStates) /\ Height' = Height + 1
        /\ \A i \in 1..Height : blocks'[i] = blocks[i]
    BY <1>0, <1>1, <1>3 DEF Height
  <1> HIDE DEF Height
  <1>5. Height' \in 1..MaxHeight /\ storeTag' \in 0..Height'
    BY <1>0, <1>2, <1>4, HeightAssumption DEF stateVars
  <1>6. loaded' /\ storeTag' # NoTag => \A k \in Tracked : baseState'[k] = blocks'[storeTag'][k]
    BY <1>0, <1>2, <1>4 DEF StoreInv, stateVars, NoTag
  <1>7. FetchStates(Len(polls), Height) \subseteq FetchStates(Len(polls), Height')
    <2>1. 0..Height \subseteq 0..Height'
      BY <1>0, <1>4
    <2> QED
      BY <2>1 DEF FetchStates
  <1> QED
    BY <1>2, <1>4, <1>5, <1>6, <1>7 DEF StoreInv, stateVars

\* What a poll becomes.
LEMMA PollUpdates ==
  ASSUME NEW p \in PollStates, NEW h \in Nat, NEW b \in BOOLEAN
  PROVE  [p EXCEPT !.heard = h] \in PollStates /\ [p EXCEPT !.listening = b] \in PollStates
  <1>1. [p EXCEPT !.heard = h] = [listening |-> p.listening, heard |-> h]
    BY DEF PollStates
  <1>2. [p EXCEPT !.listening = b] = [listening |-> b, heard |-> p.heard]
    BY DEF PollStates
  <1> QED
    BY <1>1, <1>2 DEF PollStates

\* A new poll, and a new fetch.
LEMMA FetchingKeeps ==
  ASSUME StoreInv,
         Start \/ \E i \in DOMAIN polls : \E tag \in 1..Height : BlockEvent(i, tag)
  PROVE  StoreInv'
  <1>0. /\ polls \in Seq(PollStates) /\ Height \in Nat /\ Len(polls) \in Nat
        /\ fetches \subseteq FetchStates(Len(polls), Height) /\ Height >= 1
    BY HeightAssumption DEF StoreInv
  <1>1. UNCHANGED <<blocks, stateVars, updateTimer, listeners, notifying, informed>>
    BY DEF Start, BlockEvent
  <1>2. Height' = Height
    BY <1>1 DEF Height
  <1>3. /\ polls' \in Seq(PollStates)
        /\ fetches' \subseteq FetchStates(Len(polls'), Height)
    <2>1. CASE Start
      <3>1. /\ polls' = Append(polls, [listening |-> TRUE, heard |-> NoTag])
            /\ fetches' = fetches \cup {Fetch(Len(polls) + 1, NoTag)}
        BY <2>1 DEF Start
      <3>2. polls' \in Seq(PollStates) /\ Len(polls') = Len(polls) + 1
        BY <1>0, <3>1 DEF NoTag, PollStates
      <3>3. Fetch(Len(polls) + 1, NoTag) = [session |-> Len(polls) + 1, tag |-> 0, since |-> Height]
        BY DEF Fetch, NoTag
      <3>4. Fetch(Len(polls) + 1, NoTag) \in FetchStates(Len(polls'), Height)
        BY <1>0, <3>2, <3>3 DEF FetchStates
      <3>5. FetchStates(Len(polls), Height) \subseteq FetchStates(Len(polls'), Height)
        <4>1. 1..Len(polls) \subseteq 1..Len(polls')
          BY <1>0, <3>2
        <4> QED
          BY <4>1 DEF FetchStates
      <3> QED
        BY <1>0, <3>1, <3>2, <3>4, <3>5
    <2>2. CASE \E i \in DOMAIN polls : \E tag \in 1..Height : BlockEvent(i, tag)
      <3>1. PICK i \in DOMAIN polls : \E tag \in 1..Height : BlockEvent(i, tag)
        BY <2>2
      <3>2. PICK tag \in 1..Height : BlockEvent(i, tag)
        BY <3>1
      <3>3. /\ polls' = [polls EXCEPT ![i].heard = tag]
            /\ fetches' = fetches \cup {Fetch(i, tag)}
        BY <3>2 DEF BlockEvent
      <3>4. tag \in Nat /\ tag \in 0..Height /\ tag # 0 /\ i \in 1..Len(polls)
        BY <1>0
      <3>5. polls' \in Seq(PollStates) /\ Len(polls') = Len(polls)
        <4> DEFINE new == [polls[i] EXCEPT !.heard = tag]
        <4>1. polls[i] \in PollStates /\ polls' = [polls EXCEPT ![i] = new]
          BY <1>0, <3>3, <3>4
        <4>2. new \in PollStates
          BY <3>4, <4>1, PollUpdates, TRUE \in BOOLEAN
        <4> HIDE DEF new
        <4> QED
          BY <1>0, <3>4, <4>1, <4>2
      <3>6. Fetch(i, tag) = [session |-> i, tag |-> tag, since |-> tag]
        BY <3>4 DEF Fetch, NoTag
      <3>7. Fetch(i, tag) \in FetchStates(Len(polls), Height)
        BY <3>4, <3>6 DEF FetchStates
      <3> QED
        BY <1>0, <3>3, <3>5, <3>7
    <2> QED
      BY <2>1, <2>2
  <1> HIDE DEF Height
  <1> QED
    BY <1>1, <1>2, <1>3 DEF StoreInv, stateVars

\* Every step keeps it.
LEMMA StoreNextInv == StoreInv /\ [StoreNext]_storeVars => StoreInv'
  <1> SUFFICES ASSUME StoreInv, [StoreNext]_storeVars PROVE StoreInv'
    OBVIOUS
  <1>1. CASE Mine
    BY <1>1, MineKeeps
  <1>2. CASE Start \/ BlockEvents
    BY <1>2, FetchingKeeps DEF BlockEvents
  <1>3. CASE \E i \in DOMAIN polls : Stop(i)
    <2>1. PICK i \in DOMAIN polls : Stop(i)
      BY <1>3
    <2>2. /\ polls' = [polls EXCEPT ![i].listening = FALSE] /\ updateTimer' = FALSE
          /\ UNCHANGED <<blocks, stateVars, fetches, listeners, notifying, informed>>
      BY <2>1 DEF Stop
    <2>3. polls' \in Seq(PollStates) /\ Len(polls') = Len(polls)
      <3> DEFINE new == [polls[i] EXCEPT !.listening = FALSE]
      <3>1. polls \in Seq(PollStates) /\ polls' = [polls EXCEPT ![i] = new]
        BY <2>2 DEF StoreInv
      <3>2. polls[i] \in PollStates
        BY <3>1
      <3>3. new \in PollStates
        BY <3>2, PollUpdates, 0 \in Nat, FALSE \in BOOLEAN
      <3> HIDE DEF new
      <3> QED
        BY <3>1, <3>3
    <2>4. Height' = Height
      BY <2>2 DEF Height
    <2> HIDE DEF Height
    <2> QED
      BY <2>2, <2>3, <2>4 DEF StoreInv, stateVars
  <1>4. CASE Answers
    BY <1>4, StoreAnswerKeepsCopy DEF Answers
  <1>5. CASE \E f \in fetches : FetchFails(f)
    BY <1>5 DEF FetchFails, StoreInv, stateVars, Height
  <1>6. CASE UpdateTimeout
    <2>1. /\ derivedState' = Derive(baseState) /\ notifying' = listeners /\ updateTimer
          /\ UNCHANGED <<blocks, loaded, baseState, storeTag, updateTimer, polls, fetches, listeners>>
      BY <1>6 DEF UpdateTimeout
    <2> QED
      BY <2>1 DEF StoreInv, Height
  <1>7. CASE Notifications
    BY <1>7, NotifyKeeps DEF Notifications
  <1>8. CASE \E s \in Subscribers : Subscribe(s) \/ Unsubscribe(s)
    <2>1. PICK s \in Subscribers : Subscribe(s) \/ Unsubscribe(s)
      BY <1>8
    <2>2. /\ UNCHANGED <<blocks, stateVars, updateTimer, polls, fetches, notifying>>
          /\ \/ listeners' = listeners \cup {s} /\ informed' = informed \cup {s}
             \/ listeners' = listeners \ {s} /\ informed' = informed \ {s}
      BY <2>1 DEF Subscribe, Unsubscribe
    <2> QED
      BY <2>2 DEF StoreInv, stateVars, Height
  <1>9. CASE UNCHANGED storeVars
    BY <1>9 DEF storeVars, StoreInv, Height
  <1> QED
    BY <1>1, <1>2, <1>3, <1>4, <1>5, <1>6, <1>7, <1>8, <1>9 DEF StoreNext

\* A read that the store serves answers as the node would.
LEMMA ReadsAreAnswered ==
  ASSUME StoreInv, loaded, NEW name \in readsOfUser \union readsOfAll, NEW tag \in 1..Height,
         NEW address \in IF name \in readsOfUser THEN Addresses ELSE {Me}
  PROVE  LET answer == Read(name, address, tag)
             r == storedReads[name]
         IN /\ answer.of = IF address = "undefined" THEN Me ELSE address
            /\ \/ r.field \in Frozen
               \/ r.field \in Unread /\ Hit(r, address, tag)
               \/ r.node = "latest" /\ tag # Height
               \/ answer.is = FieldOf(blocks[tag], Derive(blocks[tag]), r.field)
  <1> DEFINE r == storedReads[name]
             answer == Read(name, address, tag)
             b == blocks[IF r.node = "latest" THEN Height ELSE tag]
  <1>1. r \in ReadRows /\ (name \in readsOfUser => r.hit = "user")
    BY ReadsTable DEF RowsAreSafe
  <1>2. r.field \in {"trove", "redistributed", "mintList", "derived trove", "bammDeposit"}
    BY <1>1 DEF ReadRows
  <1>3. tag # NoTag
    BY HeightAssumption DEF StoreInv, NoTag
  <1>4. CASE Hit(r, address, tag)
    <2>1. answer = [of |-> Me, is |-> FieldOf(baseState, derivedState, r.field)]
      BY <1>4 DEF Read
    <2>2. tag = storeTag
      BY <1>3, <1>4 DEF Hit, UserHit, BlockHit
    <2>3. address \in {"undefined", Me}
      BY <1>1, <1>4 DEF Hit, UserHit
    <2>4. \A k \in Tracked : baseState[k] = blocks[tag][k]
      BY <1>3, <2>2 DEF StoreInv
    <2>5. baseState["trove"] = blocks[tag]["trove"] /\ baseState["redistributed"] = blocks[tag]["redistributed"]
      BY <2>4 DEF Tracked, Fetched, Fields, Frozen, Unread
    <2>6. derivedState = Derive(baseState)
      BY DEF StoreInv
    <2>7. derivedState.trove = Derive(blocks[tag]).trove
      BY <2>5, <2>6 DEF Derive
    <2>8. r.field \in Frozen \cup Unread \/ FieldOf(baseState, derivedState, r.field) = FieldOf(blocks[tag], Derive(blocks[tag]), r.field)
      BY <1>2, <2>5, <2>7 DEF Frozen, Unread, FieldOf
    <2> QED
      BY <1>4, <2>1, <2>3, <2>8
  <1>5. CASE ~Hit(r, address, tag)
    <2>1. answer = [of |-> IF address = "undefined" THEN Me ELSE address, is |-> FieldOf(b, Derive(b), r.field)]
      BY <1>5 DEF Read
    <2>2. (r.node = "latest" /\ tag # Height) \/ b = blocks[tag]
      OBVIOUS
    <2> HIDE DEF b
    <2> QED
      BY <2>1, <2>2
  <1> QED
    BY <1>4, <1>5

\* The store, for any number of subscribers, blocks, sessions and fetches, with answers in any
\* order and after the end of the polling: reads that it serves are answered as asked,
\* and between two turns every subscriber knows the state that it holds.
THEOREM StoreAlwaysServesReaders ==
  StoreSpec => []StoreTypeOK /\ []ReadsAnswerTheQuestion /\ []SubscribersAreUpToDate
  <1>1. StoreInit => StoreInv
    <2> SUFFICES ASSUME StoreInit PROVE StoreInv
      OBVIOUS
    <2>1. blocks \in Seq(BlockStates) /\ Height = 1
      BY DEF StoreInit, Height, BlockStates
    <2>2. fetches = {} /\ polls = <<>> /\ listeners = {} /\ notifying = {}
      BY DEF StoreInit
    <2>3. polls \in Seq(PollStates)
      BY <2>2
    <2> HIDE DEF Height
    <2>4. Height \in 1..MaxHeight
      BY <2>1, HeightAssumption
    <2>5. storeTag \in 0..Height /\ fetches \subseteq FetchStates(Len(polls), Height)
      BY <2>1, <2>2 DEF StoreInit, NoTag
    <2> QED
      BY <2>1, <2>2, <2>3, <2>4, <2>5 DEF StoreInit, StoreInv
  <1>2. StoreInv => StoreTypeOK
    <2> SUFFICES ASSUME StoreInv PROVE StoreTypeOK
      OBVIOUS
    <2>1. loaded => DOMAIN baseState = Fields
      BY DEF StoreInv
    <2>2. DOMAIN NotLoaded = {"none"} /\ "none" \notin Fields /\ "trove" \in Fields
      BY DEF NotLoaded, Fields
    <2>3. loaded <=> baseState # NotLoaded
      BY <2>1, <2>2 DEF StoreInv
    <2>4. ASSUME NEW f \in fetches PROVE f.session \in DOMAIN polls /\ f.tag \in 0..Height /\ f.since <= Height
      <3>1. f \in FetchStates(Len(polls), Height) /\ DOMAIN polls = 1..Len(polls) /\ Height \in Nat
        BY HeightAssumption DEF StoreInv
      <3> QED
        BY <3>1 DEF FetchStates
    <2> HIDE DEF Height
    <2> QED
      BY <2>1, <2>3, <2>4 DEF StoreInv, StoreTypeOK
  <1>3. StoreInv => ReadsAnswerTheQuestion
    BY ReadsAreAnswered DEF ReadsAnswerTheQuestion
  <1>4. StoreInv => SubscribersAreUpToDate
    BY DEF StoreInv, SubscribersAreUpToDate
  <1> QED
    BY <1>1, <1>2, <1>3, <1>4, StoreNextInv, PTL DEF StoreSpec

-----------------------------------------------------------------------------
(* Deployment: the nonces that a run counts are free. *)

FirstFree(l, P, g) ==
  /\ g \in Nat /\ g >= l
  /\ ~\E p \in P : p[1] = g
  /\ \A k \in l..g-1 : \E p \in P : p[1] = k

\* However far the pool reaches beyond its first gap, it is less than c.
Reach(l, P, c) == \A g : FirstFree(l, P, g) => \A p \in P : p[1] < g + c

\* No gap up to n, and nothing further than c beyond it.
Filled(l, P, n, c) ==
  /\ n \in Nat
  /\ \A k \in l..n : \E p \in P : p[1] = k
  /\ \A p \in P : p[1] <= n + c

PoolOK(l, P) ==
  /\ l \in Nat /\ IsFiniteSet(P)
  /\ \A p \in P : p[1] \in Nat /\ p[1] >= l
  /\ \A p, q \in P : p[1] = q[1] => p = q

\* There is a first gap, and no later than after as many nonces as there are transactions.
LEMMA FirstGap ==
  ASSUME NEW l \in Nat, NEW P, IsFiniteSet(P)
  PROVE  \E g \in l..l+Cardinality(P) : FirstFree(l, P, g)
<1> DEFINE c == Cardinality(P)
           free == {k \in Nat : k >= l /\ ~\E p \in P : p[1] = k}
<1>1. c \in Nat
  BY FS_CardinalityType
<1>2. \E k \in l..l+c : k \in free
  <2>1. SUFFICES ASSUME \A k \in l..l+c : \E p \in P : p[1] = k
                 PROVE  FALSE
    BY <1>1
  <2> DEFINE f == [k \in l..l+c |-> CHOOSE p \in P : p[1] = k]
  <2>2. \A k \in l..l+c : f[k] \in P /\ f[k][1] = k
    BY <2>1
  <2>3. f \in Injection(l..l+c, P)
    <3>1. f \in [l..l+c -> P]
      BY <2>2
    <3>2. \A j, k \in l..l+c : f[j] = f[k] => j = k
      <4> TAKE j, k \in l..l+c
      <4> HAVE f[j] = f[k]
      <4>1. f[j][1] = j /\ f[k][1] = k
        BY <2>2
      <4> HIDE DEF f
      <4> QED BY <4>1
    <3> HIDE DEF f
    <3> QED BY <3>1, <3>2 DEF Injection, IsInjective
  <2>4. Cardinality(l..l+c) <= c
    <3> HIDE DEF f
    <3> QED BY <2>3, FS_Injection
  <2>5. Cardinality(l..l+c) = c + 1
    <3>1. l+c \in Int /\ l \in Int /\ ~(l > l+c)
      BY <1>1
    <3>2. Cardinality(l..l+c) = (l+c) - l + 1
      BY <3>1, FS_Interval
    <3> HIDE DEF c
    <3> QED BY <3>2, <1>1
  <2> HIDE DEF c
  <2> QED BY <1>1, <2>4, <2>5
<1> HIDE DEF c
<1>3. PICK k \in l..l+c : k \in free
  BY <1>2
<1>4. free \subseteq Nat /\ free # {}
  BY <1>3
<1>5. PICK g \in free : \A j \in free : g <= j
  <2> HIDE DEF free
  <2> QED BY <1>4, LeastNat
<1>6. g \in l..l+c
  <2>1. g <= k /\ g \in Nat /\ g >= l /\ k <= l+c
    BY <1>3, <1>5
  <2> QED BY <2>1, <1>1
<1>7. \A j \in l..g-1 : \E p \in P : p[1] = j
  <2> TAKE j \in l..g-1
  <2>1. j \in Nat /\ j >= l /\ ~(g <= j)
    BY <1>6, <1>1
  <2>2. j \notin free
    BY <2>1, <1>5
  <2> QED BY <2>1, <2>2
<1>8. FirstFree(l, P, g)
  BY <1>5, <1>7 DEF FirstFree
<1> QED BY <1>6, <1>8 DEF c

\* What the signer counts is the first gap.
LEMMA PendingIsFirst ==
  ASSUME PoolOK(node.latest, node.pool)
  PROVE  FirstFree(node.latest, node.pool, PendingCount)
<1>1. \E g \in node.latest .. node.latest + Cardinality(node.pool) : FirstFree(node.latest, node.pool, g)
  BY FirstGap DEF PoolOK
<1>2. \E g \in node.latest .. node.latest + Cardinality(node.pool) :
        ~Taken(g) /\ \A k \in node.latest .. g - 1 : Taken(k)
  BY <1>1 DEF FirstFree, Taken
<1>3. /\ PendingCount \in node.latest .. node.latest + Cardinality(node.pool)
      /\ ~Taken(PendingCount) /\ \A k \in node.latest .. PendingCount - 1 : Taken(k)
  BY <1>2 DEF PendingCount
<1>4. node.latest \in Nat /\ Cardinality(node.pool) \in Nat
  BY FS_CardinalityType DEF PoolOK
<1> QED BY <1>3, <1>4 DEF FirstFree, Taken

\* Mining the next transaction of a pool.
LEMMA MiningKeepsReach ==
  ASSUME NEW l, NEW P, NEW p \in P, p[1] = l, PoolOK(l, P)
  PROVE  /\ PoolOK(l + 1, P \ {p})
         /\ \A c \in Int : Reach(l, P, c) => Reach(l + 1, P \ {p}, c)
         /\ \A n, c \in Int : Filled(l, P, n, c) => Filled(l + 1, P \ {p}, n, c)
<1>1. l \in Nat /\ IsFiniteSet(P)
  BY DEF PoolOK
<1>2. PoolOK(l + 1, P \ {p})
  <2>1. IsFiniteSet(P \ {p})
    BY <1>1, FS_Subset
  <2>2. ASSUME NEW q \in P \ {p} PROVE q[1] \in Nat /\ q[1] >= l + 1
    BY <1>1 DEF PoolOK
  <2> QED BY <1>1, <2>1, <2>2 DEF PoolOK
<1>3. ASSUME NEW c \in Int, Reach(l, P, c) PROVE Reach(l + 1, P \ {p}, c)
  <2> SUFFICES ASSUME NEW g, FirstFree(l + 1, P \ {p}, g) PROVE \A q \in P \ {p} : q[1] < g + c
    BY DEF Reach
  <2>1. FirstFree(l, P, g)
    <3>1. g \in Nat /\ g >= l + 1
      BY DEF FirstFree
    <3>2. ~\E q \in P : q[1] = g
      BY <3>1, <1>1 DEF FirstFree
    <3>3. ASSUME NEW k \in l..g-1 PROVE \E q \in P : q[1] = k
      <4>1. CASE k = l
        BY <4>1
      <4>2. CASE k \in l+1..g-1
        BY <4>2 DEF FirstFree
      <4> QED BY <4>1, <4>2, <1>1, <3>1
    <3> QED BY <3>1, <3>2, <3>3, <1>1 DEF FirstFree
  <2> QED BY <2>1, <1>3 DEF Reach
<1>4. ASSUME NEW n \in Int, NEW c \in Int, Filled(l, P, n, c) PROVE Filled(l + 1, P \ {p}, n, c)
  <2>1. ASSUME NEW k \in l+1..n PROVE \E q \in P \ {p} : q[1] = k
    <3>1. k \in l..n /\ k # l
      BY <1>1
    <3> QED BY <3>1, <1>4 DEF Filled
  <2> QED BY <2>1, <1>4 DEF Filled
<1> QED BY <1>2, <1>3, <1>4

\* Sending with the first free nonce.
LEMMA SendingFills ==
  ASSUME NEW l, NEW P, NEW g, NEW tx0, NEW c \in Nat, PoolOK(l, P), FirstFree(l, P, g)
  PROVE  /\ PoolOK(l, P \cup {<<g, tx0>>})
         /\ Reach(l, P, c + 1) => Filled(l, P \cup {<<g, tx0>>}, g, c)
<1> DEFINE p0 == <<g, tx0>>
<1>1. p0[1] = g /\ g \in Nat /\ g >= l /\ l \in Nat
  BY DEF FirstFree, PoolOK
<1> HIDE DEF p0
<1>2. PoolOK(l, P \cup {p0})
  <2>1. IsFiniteSet(P \cup {p0})
    BY FS_AddElement DEF PoolOK
  <2>2. ASSUME NEW p \in P \cup {p0} PROVE p[1] \in Nat /\ p[1] >= l
    BY <1>1 DEF PoolOK
  <2>3. ASSUME NEW p \in P \cup {p0}, NEW q \in P \cup {p0}, p[1] = q[1] PROVE p = q
    BY <1>1, <2>3 DEF PoolOK, FirstFree
  <2> QED BY <1>1, <2>1, <2>2, <2>3 DEF PoolOK
<1>3. ASSUME Reach(l, P, c + 1) PROVE Filled(l, P \cup {p0}, g, c)
  <2>1. ASSUME NEW k \in l..g PROVE \E p \in P \cup {p0} : p[1] = k
    <3>1. CASE k = g
      BY <3>1, <1>1
    <3>2. CASE k \in l..g-1
      BY <3>2 DEF FirstFree
    <3> QED BY <3>1, <3>2, <1>1
  <2>2. ASSUME NEW p \in P \cup {p0} PROVE p[1] <= g + c
    <3>1. CASE p = p0
      BY <3>1, <1>1
    <3>2. CASE p \in P
      <4>1. p[1] < g + (c + 1) /\ p[1] \in Nat
        BY <3>2, <1>3 DEF Reach, PoolOK
      <4> QED BY <4>1, <1>1
    <3> QED BY <3>1, <3>2
  <2> QED BY <1>1, <2>1, <2>2 DEF Filled
<1> QED BY <1>2, <1>3 DEF p0

\* A pool without a gap up to n, and one that does not reach far.
LEMMA FilledReach ==
  ASSUME NEW l, NEW P, NEW c \in Int, NEW d \in Int, c <= d, PoolOK(l, P)
  PROVE  /\ Reach(l, P, c) => Reach(l, P, d)
         /\ \A n : Filled(l, P, n, c) => Reach(l, P, d)
<1>1. Reach(l, P, c) => Reach(l, P, d)
  <2> SUFFICES ASSUME Reach(l, P, c), NEW g, FirstFree(l, P, g), NEW p \in P PROVE p[1] < g + d
    BY DEF Reach
  <2>1. p[1] < g + c /\ p[1] \in Nat /\ g \in Nat
    BY DEF Reach, FirstFree, PoolOK
  <2> QED BY <2>1
<1>2. ASSUME NEW n, Filled(l, P, n, c) PROVE Reach(l, P, d)
  <2> SUFFICES ASSUME NEW g, FirstFree(l, P, g), NEW p \in P PROVE p[1] < g + d
    BY DEF Reach
  <2>1. p[1] <= n + c /\ p[1] \in Nat /\ g \in Nat /\ n \in Nat /\ l \in Nat /\ g >= l
    BY <1>2 DEF Filled, FirstFree, PoolOK
  <2>2. g > n
    BY <1>2, <2>1 DEF Filled, FirstFree
  <2> QED BY <2>1, <2>2
<1> QED BY <1>1, <1>2

DeployPhases ==
  {"deploying", "counting", "connecting", "hooking", "calling", "recording", "opening", "writing", "indexing", "ended"}

ScriptFields ==
  /\ {"phase", "run"} \subseteq DOMAIN script
  /\ script.phase \in DeployPhases /\ script.run \in Nat
  /\ script.phase # "ended" =>
       {"collateral", "real", "at", "waits", "first", "sent"} \subseteq DOMAIN script

\* What is in the pool and what was mined is of runs that have been started.
TxsOfRuns ==
  /\ \A p \in node.pool : p[2].run \in Nat /\ p[2].run <= script.run /\ p[2].contract \in Nat
  /\ \A m \in minedTxs : m[1] \in Nat /\ m[1] <= script.run /\ m[2] \in Nat

\* The contracts of this run that have been sent or mined.
OwnUpTo(n) ==
  /\ \A p \in node.pool : p[2].run = script.run => p[2].contract <= n
  /\ \A m \in minedTxs : m[1] = script.run => m[2] <= n

\* The nonce of the deployment that is awaited is n.
AwaitedAt(n) ==
  /\ Filled(node.latest, node.pool, n, NumDeployed - script.at)
  /\ \A p \in node.pool : p[2].run = script.run /\ p[2].contract = script.at => p[1] = n
  /\ Has("deployed", script.at) => n < node.latest

\* While a run deploys, each deployment takes one nonce off what an earlier run left
\* behind the gap.
DeployingRoom ==
  script.phase = "deploying" =>
    /\ script.at \in 1..NumDeployed /\ script.waits \in BOOLEAN /\ script.sent = {}
    /\ script.waits => OwnUpTo(script.at) /\ \E n : AwaitedAt(n)
    /\ ~script.waits => /\ OwnUpTo(script.at - 1)
                        /\ Reach(node.latest, node.pool, NumDeployed - script.at + 1)

CountingRoom == script.phase = "counting" => node.pool = {} /\ script.sent = {}

ConnectingRoom ==
  script.phase = "connecting" =>
    /\ script.first \in Nat /\ script.first <= node.latest
    /\ script.sent \subseteq 1..NumConnections
    /\ \A p \in node.pool : \E i \in script.sent : p[1] = NonceOf(i)
    /\ \A i \in 1..NumConnections \ script.sent : node.latest <= NonceOf(i)

OtherRoom ==
  script.phase \notin {"deploying", "counting", "connecting"} =>
    Reach(node.latest, node.pool, NumDeployed)

DeployInv ==
  /\ ScriptFields /\ TxsOfRuns
  /\ DOMAIN node = {"latest", "pool"} /\ PoolOK(node.latest, node.pool)
  /\ DeployingRoom /\ CountingRoom /\ ConnectingRoom /\ OtherRoom

\* In each phase the pool reaches no further beyond its first gap than a run can deploy.
LEMMA EndedHasRoom ==
  ASSUME DeployInv
  PROVE  Reach(node.latest, node.pool, NumDeployed)
<1> USE DeploymentAssumption
<1>0. PoolOK(node.latest, node.pool)
  BY DEF DeployInv
<1>1. CASE script.phase = "deploying"
  <2>1. script.at \in 1..NumDeployed /\ script.waits \in BOOLEAN
    BY <1>1 DEF DeployInv, DeployingRoom
  <2>2. CASE script.waits
    <3>1. PICK n : Filled(node.latest, node.pool, n, NumDeployed - script.at)
      BY <1>1, <2>2 DEF DeployInv, DeployingRoom, AwaitedAt
    <3>2. NumDeployed - script.at \in Int /\ NumDeployed - script.at <= NumDeployed /\ NumDeployed \in Int
      BY <2>1
    <3> QED BY <1>0, <3>1, <3>2, FilledReach
  <2>3. CASE ~script.waits
    <3>1. Reach(node.latest, node.pool, NumDeployed - script.at + 1)
      BY <1>1, <2>3 DEF DeployInv, DeployingRoom
    <3>2. NumDeployed - script.at + 1 \in Int /\ NumDeployed - script.at + 1 <= NumDeployed /\ NumDeployed \in Int
      BY <2>1
    <3> QED BY <1>0, <3>1, <3>2, FilledReach
  <2> QED BY <2>1, <2>2, <2>3
<1>2. CASE script.phase = "counting"
  BY <1>2 DEF DeployInv, CountingRoom, Reach
<1>3. CASE script.phase = "connecting"
  <2> SUFFICES ASSUME NEW g, FirstFree(node.latest, node.pool, g), NEW p \in node.pool
               PROVE  p[1] < g + NumDeployed
    BY DEF Reach
  <2>1. PICK i \in 1..NumConnections : p[1] = NonceOf(i)
    BY <1>3 DEF DeployInv, ConnectingRoom
  <2>2. script.first \in Nat /\ script.first <= node.latest /\ node.latest \in Nat /\ g \in Nat /\ g >= node.latest
    BY <1>0, <1>3 DEF DeployInv, ConnectingRoom, PoolOK, FirstFree
  <2> QED BY <2>1, <2>2 DEF NonceOf
<1>4. CASE script.phase \notin {"deploying", "counting", "connecting"}
  BY <1>4 DEF DeployInv, OtherRoom
<1> QED BY <1>1, <1>2, <1>3, <1>4

\* What going to another phase changes.
LEMMA GoesPhase ==
  ASSUME NEW ph, Goes(ph), ScriptFields, script.phase # "ended"
  PROVE  /\ DOMAIN script' = DOMAIN script /\ script'.phase = ph /\ script'.run = script.run
         /\ script'.collateral = script.collateral
BY DEF Goes, ScriptFields

\* A run that goes to a phase in which it sends nothing, or ends, keeps the invariant.
LEMMA GoesKeepsRoom ==
  ASSUME DeployInv, NEW ph \in DeployPhases \ {"deploying", "counting", "connecting"}, Goes(ph),
         script.phase # "ended", UNCHANGED <<node, minedTxs>>
  PROVE  DeployInv'
<1>1. /\ DOMAIN script' = DOMAIN script /\ script'.phase = ph /\ script'.run = script.run
  BY GoesPhase DEF DeployInv
<1>2. node' = node /\ minedTxs' = minedTxs
  OBVIOUS
<1>3. Reach(node.latest, node.pool, NumDeployed)
  BY EndedHasRoom
<1>4. ScriptFields'
  BY <1>1 DEF DeployInv, ScriptFields
<1>5. TxsOfRuns'
  BY <1>1, <1>2 DEF DeployInv, TxsOfRuns
<1>6. (DOMAIN node = {"latest", "pool"} /\ PoolOK(node.latest, node.pool))'
  BY <1>2 DEF DeployInv
<1>7. DeployingRoom' /\ CountingRoom' /\ ConnectingRoom'
  BY <1>1 DEF DeployingRoom, CountingRoom, ConnectingRoom
<1>8. OtherRoom'
  BY <1>2, <1>3 DEF OtherRoom
<1> QED BY <1>4, <1>5, <1>6, <1>7, <1>8 DEF DeployInv

\* Starting a run.
LEMMA StartKeepsRoom ==
  ASSUME DeployInv, NEW c, NEW real, StartTask(c, real)
  PROVE  DeployInv'
<1> USE DeploymentAssumption
<1> DEFINE n0 == script.run + 1
<1>1. /\ script' = [phase |-> "deploying", run |-> n0, collateral |-> c, real |-> real,
                    at |-> 1, waits |-> FALSE, first |-> 0, sent |-> {}]
      /\ node' = node /\ minedTxs' = minedTxs /\ script.phase = "ended"
  BY DEF StartTask
<1>2. n0 \in Nat /\ n0 > script.run /\ script.run \in Nat
  BY DEF DeployInv, ScriptFields
<1> HIDE DEF n0
<1>3. /\ script'.phase = "deploying" /\ script'.run = n0 /\ script'.at = 1 /\ ~script'.waits
      /\ script'.waits \in BOOLEAN /\ script'.sent = {}
      /\ DOMAIN script' = {"phase", "run", "collateral", "real", "at", "waits", "first", "sent"}
  BY <1>1
<1>4. ScriptFields'
  BY <1>2, <1>3 DEF ScriptFields, DeployPhases
<1>5. TxsOfRuns'
  BY <1>1, <1>2, <1>3 DEF DeployInv, TxsOfRuns
<1>6. (DOMAIN node = {"latest", "pool"} /\ PoolOK(node.latest, node.pool))'
  BY <1>1 DEF DeployInv
<1>7. DeployingRoom'
  <2>1. Reach(node.latest, node.pool, NumDeployed)
    BY EndedHasRoom
  <2>2. NumDeployed - 1 + 1 = NumDeployed /\ 1 \in 1..NumDeployed
    OBVIOUS
  <2>3. OwnUpTo(script.at - 1)'
    BY <1>1, <1>2, <1>3 DEF DeployInv, TxsOfRuns, OwnUpTo
  <2>4. Reach(node.latest, node.pool, NumDeployed - script.at + 1)'
    BY <2>1, <2>2, <1>1, <1>3
  <2> QED BY <2>2, <2>3, <2>4, <1>3 DEF DeployingRoom
<1>8. CountingRoom' /\ ConnectingRoom' /\ OtherRoom'
  BY <1>3 DEF CountingRoom, ConnectingRoom, OtherRoom
<1> QED BY <1>4, <1>5, <1>6, <1>7, <1>8 DEF DeployInv

\* Sending a deployment.
LEMMA DeployKeepsRoom ==
  ASSUME DeployInv, DeployContract
  PROVE  DeployInv'
<1> USE DeploymentAssumption
<1>a. PICK g : g = PendingCount
  OBVIOUS
<1>b. PICK tx0 : tx0 = DeployTx(script.run, script.at, "deployed")
  OBVIOUS
<1>1. /\ script.phase = "deploying" /\ ~script.waits /\ minedTxs' = minedTxs
      /\ node' = [node EXCEPT !.pool = @ \cup {<<g, tx0>>}]
      /\ script' = [script EXCEPT !.waits = TRUE]
  BY <1>a, <1>b DEF DeployContract, Pooled
<1>2. tx0.run = script.run /\ tx0.contract = script.at
  BY <1>b DEF DeployTx
<1>3. FirstFree(node.latest, node.pool, g)
  BY <1>a, PendingIsFirst DEF DeployInv
<1>4. /\ node'.latest = node.latest /\ node'.pool = node.pool \cup {<<g, tx0>>}
      /\ DOMAIN node' = {"latest", "pool"}
  BY <1>1 DEF DeployInv
<1>5. {"phase", "run", "waits", "at", "sent"} \subseteq DOMAIN script
  BY <1>1 DEF DeployInv, ScriptFields
<1>6. /\ script'.phase = "deploying" /\ script'.run = script.run /\ script'.at = script.at
      /\ script'.waits = TRUE /\ DOMAIN script' = DOMAIN script /\ script'.sent = script.sent
  BY <1>1, <1>5
<1>7. /\ script.at \in 1..NumDeployed /\ OwnUpTo(script.at - 1) /\ script.sent = {}
      /\ Reach(node.latest, node.pool, NumDeployed - script.at + 1)
  BY <1>1 DEF DeployInv, DeployingRoom
<1>8. /\ PoolOK(node.latest, node.pool \cup {<<g, tx0>>})
      /\ Filled(node.latest, node.pool \cup {<<g, tx0>>}, g, NumDeployed - script.at)
  <2>1. NumDeployed - script.at \in Nat
    BY <1>7
  <2> QED BY <2>1, <1>3, <1>7, SendingFills DEF DeployInv
<1>9. ScriptFields'
  BY <1>1, <1>6 DEF DeployInv, ScriptFields
<1>10. TxsOfRuns'
  BY <1>1, <1>2, <1>4, <1>6, <1>7 DEF DeployInv, TxsOfRuns, ScriptFields
<1>11. (DOMAIN node = {"latest", "pool"} /\ PoolOK(node.latest, node.pool))'
  BY <1>4, <1>8
<1>12. DeployingRoom'
  <2>1. OwnUpTo(script.at)'
    <3>1. ASSUME NEW p \in node'.pool, p[2].run = script.run PROVE p[2].contract <= script.at
      <4>1. CASE p \in node.pool
        BY <4>1, <3>1, <1>7 DEF OwnUpTo, DeployInv, TxsOfRuns
      <4>2. CASE p = <<g, tx0>>
        BY <4>2, <1>2, <1>7
      <4> QED BY <4>1, <4>2, <1>4
    <3>2. ASSUME NEW m \in minedTxs, m[1] = script.run PROVE m[2] <= script.at
      BY <3>2, <1>7 DEF OwnUpTo, DeployInv, TxsOfRuns
    <3> QED BY <3>1, <3>2, <1>1, <1>6 DEF OwnUpTo
  <2>2. AwaitedAt(g)'
    <3>1. Filled(node.latest, node.pool, g, NumDeployed - script.at)'
      BY <1>4, <1>6, <1>8
    <3>2. ASSUME NEW p \in node'.pool, p[2].run = script.run, p[2].contract = script.at PROVE p[1] = g
      <4>1. CASE p \in node.pool
        BY <4>1, <3>2, <1>7 DEF OwnUpTo
      <4>2. CASE p = <<g, tx0>>
        BY <4>2
      <4> QED BY <4>1, <4>2, <1>4
    <3>3. <<script.run, script.at, "deployed">> \notin minedTxs
      <4> SUFFICES ASSUME <<script.run, script.at, "deployed">> \in minedTxs PROVE FALSE
        OBVIOUS
      <4>1. script.at <= script.at - 1
        BY <1>7 DEF OwnUpTo
      <4> QED BY <4>1, <1>7
    <3> QED BY <3>1, <3>2, <3>3, <1>1, <1>6 DEF AwaitedAt, Has
  <2> QED BY <2>1, <2>2, <1>6, <1>7 DEF DeployingRoom
<1>13. CountingRoom' /\ ConnectingRoom' /\ OtherRoom'
  BY <1>6 DEF CountingRoom, ConnectingRoom, OtherRoom
<1> QED BY <1>9, <1>10, <1>11, <1>12, <1>13 DEF DeployInv

\* The receipt of a deployment.
LEMMA ReceiptKeepsRoom ==
  ASSUME DeployInv, ContractDeployed
  PROVE  DeployInv'
<1> USE DeploymentAssumption
<1>1. /\ script.phase = "deploying" /\ script.waits /\ minedTxs' = minedTxs /\ node' = node
  BY DEF ContractDeployed
<1>2. {"phase", "run", "waits", "at", "sent"} \subseteq DOMAIN script
  BY <1>1 DEF DeployInv, ScriptFields
<1>3. CASE Goes("ended")
  BY <1>1, <1>3, GoesKeepsRoom DEF DeployPhases
<1>4. CASE Has("deployed", script.at) /\ Deployed
  <2>1. script.at \in 1..NumDeployed /\ OwnUpTo(script.at) /\ script.sent = {}
    BY <1>1 DEF DeployInv, DeployingRoom
  <2>2. PICK n : AwaitedAt(n)
    BY <1>1 DEF DeployInv, DeployingRoom
  <2>3. PoolOK(node.latest, node.pool)
    BY DEF DeployInv
  <2>4. CASE script.at < NumDeployed
    <3> DEFINE a == script.at + 1
    <3>1. a \in 1..NumDeployed /\ a - 1 = script.at /\ NumDeployed - a + 1 = NumDeployed - script.at
      BY <2>1, <2>4
    <3>2. script' = [script EXCEPT !.at = a, !.waits = FALSE]
      BY <1>4, <2>4 DEF Deployed
    <3> HIDE DEF a
    <3>3. /\ script'.phase = "deploying" /\ script'.run = script.run /\ script'.at = a
          /\ script'.waits = FALSE /\ DOMAIN script' = DOMAIN script /\ script'.sent = script.sent
      BY <3>2, <1>1, <1>2
    <3>4. Reach(node.latest, node.pool, NumDeployed - script.at)
      <4>1. NumDeployed - script.at \in Int /\ NumDeployed - script.at <= NumDeployed - script.at
        BY <2>1
      <4> QED BY <4>1, <2>2, <2>3, FilledReach DEF AwaitedAt
    <3>5. ScriptFields'
      BY <1>1, <3>3 DEF DeployInv, ScriptFields
    <3>6. TxsOfRuns'
      BY <1>1, <3>3 DEF DeployInv, TxsOfRuns
    <3>7. OwnUpTo(script.at - 1)'
      BY <1>1, <2>1, <3>1, <3>3 DEF OwnUpTo
    <3>8. Reach(node.latest, node.pool, NumDeployed - script.at + 1)'
      BY <1>1, <3>1, <3>3, <3>4
    <3>9. DeployingRoom'
      BY <2>1, <3>1, <3>3, <3>7, <3>8 DEF DeployingRoom
    <3>10. CountingRoom' /\ ConnectingRoom' /\ OtherRoom'
      BY <3>3 DEF CountingRoom, ConnectingRoom, OtherRoom
    <3> QED BY <1>1, <3>5, <3>6, <3>9, <3>10 DEF DeployInv
  <2>5. CASE ~(script.at < NumDeployed)
    <3>1. script' = [script EXCEPT !.phase = "counting"]
      BY <1>4, <2>5 DEF Deployed
    <3>2. /\ script'.phase = "counting" /\ script'.run = script.run /\ DOMAIN script' = DOMAIN script
          /\ script'.sent = script.sent
      BY <3>1, <1>2
    <3>3. node.pool = {}
      <4> SUFFICES ASSUME NEW p \in node.pool PROVE FALSE
        OBVIOUS
      <4>1. p[1] \in Nat /\ p[1] >= node.latest /\ node.latest \in Nat
        BY <2>3 DEF PoolOK
      <4>2. n \in Nat /\ p[1] <= n + (NumDeployed - script.at) /\ n < node.latest
        BY <2>2, <1>4 DEF AwaitedAt, Filled
      <4> QED BY <4>1, <4>2, <2>1, <2>5
    <3>4. ScriptFields'
      BY <1>1, <3>2 DEF DeployInv, ScriptFields, DeployPhases
    <3>5. TxsOfRuns'
      BY <1>1, <3>2 DEF DeployInv, TxsOfRuns
    <3>6. DeployingRoom' /\ ConnectingRoom' /\ OtherRoom'
      BY <3>2 DEF DeployingRoom, ConnectingRoom, OtherRoom
    <3>7. CountingRoom'
      BY <1>1, <2>1, <3>2, <3>3 DEF CountingRoom
    <3> QED BY <1>1, <3>4, <3>5, <3>6, <3>7 DEF DeployInv
  <2> QED BY <2>4, <2>5
<1> QED BY <1>3, <1>4 DEF ContractDeployed

\* Counting the nonces: the pool is empty then.
LEMMA CountKeepsRoom ==
  ASSUME DeployInv, CountNonces
  PROVE  DeployInv'
<1> USE DeploymentAssumption
<1>a. PICK l : l = node.latest
  OBVIOUS
<1>1. /\ script.phase = "counting" /\ minedTxs' = minedTxs /\ node' = node
      /\ script' = [script EXCEPT !.phase = "connecting", !.first = l]
  BY <1>a DEF CountNonces
<1>2. {"phase", "run", "first", "sent"} \subseteq DOMAIN script
  BY <1>1 DEF DeployInv, ScriptFields
<1>3. /\ script'.phase = "connecting" /\ script'.run = script.run /\ script'.first = l
      /\ script'.sent = script.sent /\ DOMAIN script' = DOMAIN script
  BY <1>1, <1>2
<1>4. node.pool = {} /\ l \in Nat
  BY <1>a, <1>1 DEF DeployInv, CountingRoom, PoolOK
<1>5. script.sent = {}
  BY <1>1 DEF DeployInv, CountingRoom
<1>6. ScriptFields'
  BY <1>1, <1>3 DEF DeployInv, ScriptFields, DeployPhases
<1>7. TxsOfRuns'
  BY <1>1, <1>3 DEF DeployInv, TxsOfRuns
<1>8. DeployingRoom' /\ CountingRoom' /\ OtherRoom'
  BY <1>3 DEF DeployingRoom, CountingRoom, OtherRoom
<1>9. ConnectingRoom'
  BY <1>a, <1>1, <1>3, <1>4, <1>5 DEF ConnectingRoom, NonceOf
<1> QED BY <1>1, <1>6, <1>7, <1>8, <1>9 DEF DeployInv

\* The nonces of the connections that are still to be sent.
LEMMA UnsentNoncesFree ==
  ASSUME DeployInv, script.phase = "connecting", NEW i \in 1..NumConnections, i \notin script.sent
  PROVE  ~Refused(i)
<1> USE DeploymentAssumption
<1>1. /\ script.first \in Nat /\ script.sent \subseteq 1..NumConnections
      /\ \A p \in node.pool : \E j \in script.sent : p[1] = NonceOf(j)
      /\ node.latest <= NonceOf(i) /\ node.latest \in Nat
  BY DEF DeployInv, ConnectingRoom, PoolOK
<1>2. ~Taken(NonceOf(i))
  BY <1>1 DEF Taken, NonceOf
<1> QED BY <1>1, <1>2 DEF Refused, NonceOf

\* Sending the deployment of the TellorCaller.
LEMMA HookKeepsRoom ==
  ASSUME DeployInv, HookUpPriceFeed
  PROVE  DeployInv'
<1> USE DeploymentAssumption
<1>a. PICK g : g = PendingCount
  OBVIOUS
<1>b. PICK tx0 : tx0 = DeployTx(script.run, TellorCaller, "deployed")
  OBVIOUS
<1>1. /\ script.phase = "hooking" /\ minedTxs' = minedTxs /\ Goes("calling")
      /\ node' = [node EXCEPT !.pool = @ \cup {<<g, tx0>>}]
  BY <1>a, <1>b DEF HookUpPriceFeed, Pooled
<1>2. tx0.run = script.run /\ tx0.contract \in Nat /\ script.run \in Nat
  BY <1>b DEF DeployTx, TellorCaller, DeployInv, ScriptFields
<1>3. FirstFree(node.latest, node.pool, g)
  BY <1>a, PendingIsFirst DEF DeployInv
<1>4. /\ node'.latest = node.latest /\ node'.pool = node.pool \cup {<<g, tx0>>}
      /\ DOMAIN node' = {"latest", "pool"}
  BY <1>1 DEF DeployInv
<1>5. DOMAIN script' = DOMAIN script /\ script'.phase = "calling" /\ script'.run = script.run
  BY <1>1, GoesPhase DEF DeployInv
<1>6. NumDeployed - 1 \in Nat /\ NumDeployed - 1 + 1 = NumDeployed /\ NumDeployed \in Int
      /\ NumDeployed - 1 \in Int /\ NumDeployed - 1 <= NumDeployed
  OBVIOUS
<1>7. Reach(node.latest, node.pool, NumDeployed - 1 + 1)
  BY <1>6, EndedHasRoom
<1>8. /\ PoolOK(node.latest, node.pool \cup {<<g, tx0>>})
      /\ Filled(node.latest, node.pool \cup {<<g, tx0>>}, g, NumDeployed - 1)
  BY <1>3, <1>6, <1>7, SendingFills DEF DeployInv
<1>9. Reach(node.latest, node.pool \cup {<<g, tx0>>}, NumDeployed)
  BY <1>6, <1>8, FilledReach
<1>10. ScriptFields'
  BY <1>1, <1>5 DEF DeployInv, ScriptFields, DeployPhases
<1>11. TxsOfRuns'
  BY <1>1, <1>2, <1>4, <1>5 DEF DeployInv, TxsOfRuns
<1>12. (DOMAIN node = {"latest", "pool"} /\ PoolOK(node.latest, node.pool))'
  BY <1>4, <1>8
<1>13. DeployingRoom' /\ CountingRoom' /\ ConnectingRoom'
  BY <1>5 DEF DeployingRoom, CountingRoom, ConnectingRoom
<1>14. OtherRoom'
  BY <1>4, <1>9 DEF OtherRoom
<1> QED BY <1>10, <1>11, <1>12, <1>13, <1>14 DEF DeployInv

\* Sending a connection.
LEMMA SendKeepsRoom ==
  ASSUME DeployInv, NEW i \in 1..NumConnections, SendConnection(i)
  PROVE  DeployInv'
<1> USE DeploymentAssumption
<1>a. PICK g : g = NonceOf(i)
  OBVIOUS
<1>b. PICK tx0 : tx0 = DeployTx(script.run, i, "connected")
  OBVIOUS
<1>1. /\ script.phase = "connecting" /\ minedTxs' = minedTxs /\ i \notin script.sent
      /\ node' = [node EXCEPT !.pool = @ \cup {<<g, tx0>>}]
      /\ script' = [script EXCEPT !.sent = @ \cup {i}]
  BY <1>a, <1>b, UnsentNoncesFree DEF SendConnection, Pooled
<1>2. tx0.run = script.run /\ tx0.contract = i
  BY <1>b DEF DeployTx
<1>3. {"phase", "run", "first", "sent"} \subseteq DOMAIN script
  BY <1>1 DEF DeployInv, ScriptFields
<1>4. /\ script'.phase = "connecting" /\ script'.run = script.run /\ script'.first = script.first
      /\ script'.sent = script.sent \cup {i} /\ DOMAIN script' = DOMAIN script
  BY <1>1, <1>3
<1>5. /\ node'.latest = node.latest /\ node'.pool = node.pool \cup {<<g, tx0>>}
      /\ DOMAIN node' = {"latest", "pool"}
  BY <1>1 DEF DeployInv
<1>6. /\ script.first \in Nat /\ script.first <= node.latest /\ script.sent \subseteq 1..NumConnections
      /\ \A p \in node.pool : \E j \in script.sent : p[1] = NonceOf(j)
      /\ \A j \in 1..NumConnections \ script.sent : node.latest <= NonceOf(j)
      /\ node.latest \in Nat /\ PoolOK(node.latest, node.pool)
  BY <1>1 DEF DeployInv, ConnectingRoom, PoolOK
<1>7. g \in Nat /\ g >= node.latest /\ ~\E p \in node.pool : p[1] = g
  BY <1>a, <1>1, <1>6, UnsentNoncesFree DEF Refused, Taken, NonceOf
<1>8. PoolOK(node.latest, node.pool \cup {<<g, tx0>>})
  <2> DEFINE p0 == <<g, tx0>>
  <2>1. p0[1] = g
    OBVIOUS
  <2> HIDE DEF p0
  <2>2. IsFiniteSet(node.pool \cup {p0})
    BY <1>6, FS_AddElement DEF PoolOK
  <2>3. ASSUME NEW p \in node.pool \cup {p0} PROVE p[1] \in Nat /\ p[1] >= node.latest
    BY <1>6, <1>7, <2>1 DEF PoolOK
  <2>4. ASSUME NEW p \in node.pool \cup {p0}, NEW q \in node.pool \cup {p0}, p[1] = q[1] PROVE p = q
    BY <1>6, <1>7, <2>1, <2>4 DEF PoolOK
  <2>5. PoolOK(node.latest, node.pool \cup {p0})
    BY <1>6, <2>2, <2>3, <2>4 DEF PoolOK
  <2> QED BY <2>5 DEF p0
<1>9. ScriptFields'
  BY <1>1, <1>4 DEF DeployInv, ScriptFields
<1>10. TxsOfRuns'
  BY <1>1, <1>2, <1>4, <1>5 DEF DeployInv, TxsOfRuns, ScriptFields
<1>11. DeployingRoom' /\ CountingRoom' /\ OtherRoom'
  BY <1>4 DEF DeployingRoom, CountingRoom, OtherRoom
<1>12. ConnectingRoom'
  <2>1. ASSUME NEW p \in node'.pool PROVE \E j \in script'.sent : p[1] = NonceOf(j)
    <3>1. CASE p \in node.pool
      BY <3>1, <1>4, <1>6
    <3>2. CASE p = <<g, tx0>>
      BY <3>2, <1>a, <1>4
    <3> QED BY <3>1, <3>2, <1>5
  <2> QED BY <2>1, <1>4, <1>5, <1>6 DEF ConnectingRoom, NonceOf
<1> QED BY <1>5, <1>8, <1>9, <1>10, <1>11, <1>12 DEF DeployInv

\* The node mines a transaction.
LEMMA MineKeepsRoom ==
  ASSUME DeployInv, NEW p \in node.pool, NEW fails \in BOOLEAN, MineTx(p, fails)
  PROVE  DeployInv'
<1> USE DeploymentAssumption
<1>a. PICK l : l = node.latest
  OBVIOUS
<1>b. PICK P : P = node.pool
  OBVIOUS
<1>c. PICK e : e = IF fails THEN "failed" ELSE p[2].effect
  OBVIOUS
<1>d. PICK m0 : m0 = <<p[2].run, p[2].contract, e>>
  OBVIOUS
<1>1. /\ p[1] = l /\ node' = [latest |-> l + 1, pool |-> P \ {p}] /\ p \in P
      /\ minedTxs' = minedTxs \cup {m0} /\ script' = script
  BY <1>a, <1>b, <1>c, <1>d DEF MineTx
<1>2. m0[1] = p[2].run /\ m0[2] = p[2].contract
  BY <1>d
<1>3. node'.latest = l + 1 /\ node'.pool = P \ {p} /\ DOMAIN node' = {"latest", "pool"}
  BY <1>1
<1>4. PoolOK(l, P) /\ l \in Nat
  BY <1>a, <1>b DEF DeployInv, PoolOK
<1>5. /\ PoolOK(l + 1, P \ {p})
      /\ \A c \in Int : Reach(l, P, c) => Reach(l + 1, P \ {p}, c)
      /\ \A n, c \in Int : Filled(l, P, n, c) => Filled(l + 1, P \ {p}, n, c)
  BY <1>1, <1>4, MiningKeepsReach
<1>6. ScriptFields'
  BY <1>1 DEF DeployInv, ScriptFields
<1>7. TxsOfRuns'
  BY <1>b, <1>1, <1>2, <1>3 DEF DeployInv, TxsOfRuns
<1>8. (DOMAIN node = {"latest", "pool"} /\ PoolOK(node.latest, node.pool))'
  BY <1>3, <1>5
<1>9. \A n : OwnUpTo(n) => OwnUpTo(n)'
  BY <1>b, <1>1, <1>2, <1>3 DEF OwnUpTo
<1>10. DeployingRoom'
  <2> SUFFICES ASSUME script.phase = "deploying" PROVE DeployingRoom'
    BY <1>1 DEF DeployingRoom
  <2>1. script.at \in 1..NumDeployed /\ script.waits \in BOOLEAN /\ script.sent = {}
    BY DEF DeployInv, DeployingRoom
  <2>2. CASE script.waits
    <3>1. PICK n : AwaitedAt(n)
      BY <2>2 DEF DeployInv, DeployingRoom
    <3>2. NumDeployed - script.at \in Int /\ n \in Nat
      BY <2>1, <3>1 DEF AwaitedAt, Filled
    <3>3. Filled(l + 1, P \ {p}, n, NumDeployed - script.at)
      <4>1. Filled(l, P, n, NumDeployed - script.at)
        BY <1>a, <1>b, <3>1 DEF AwaitedAt
      <4>2. n \in Int
        BY <3>2
      <4> QED BY <4>1, <4>2, <1>5, <3>2
    <3>4. \A q \in P \ {p} : q[2].run = script.run /\ q[2].contract = script.at => q[1] = n
      BY <1>b, <3>1 DEF AwaitedAt
    <3>5. ASSUME <<script.run, script.at, "deployed">> \in minedTxs \cup {m0} PROVE n < l + 1
      <4>1. CASE <<script.run, script.at, "deployed">> \in minedTxs
        BY <4>1, <1>a, <1>4, <3>1, <3>2 DEF AwaitedAt, Has
      <4>2. CASE <<script.run, script.at, "deployed">> = m0
        <5>1. p[2].run = script.run /\ p[2].contract = script.at
          BY <4>2, <1>2
        <5>2. p[1] = n
          BY <5>1, <3>1 DEF AwaitedAt
        <5> QED BY <5>2, <1>1, <1>4
      <4> QED BY <4>1, <4>2, <3>5
    <3>6. AwaitedAt(n)'
      BY <1>1, <1>3, <3>3, <3>4, <3>5 DEF AwaitedAt, Has
    <3>7. OwnUpTo(script.at)'
      <4>1. OwnUpTo(script.at)
        BY <2>2 DEF DeployInv, DeployingRoom
      <4>2. PICK a : a = script.at
        OBVIOUS
      <4>3. OwnUpTo(a)'
        BY <4>1, <4>2, <1>9
      <4> QED BY <4>2, <4>3, <1>1 DEF OwnUpTo
    <3> QED BY <1>1, <2>1, <2>2, <3>6, <3>7 DEF DeployingRoom
  <2>3. CASE ~script.waits
    <3>1. OwnUpTo(script.at - 1) /\ Reach(l, P, NumDeployed - script.at + 1)
      BY <1>a, <1>b, <2>3 DEF DeployInv, DeployingRoom
    <3>2. NumDeployed - script.at + 1 \in Int
      BY <2>1
    <3>3. Reach(node.latest, node.pool, NumDeployed - script.at + 1)'
      BY <1>1, <1>3, <1>5, <3>1, <3>2
    <3>4. OwnUpTo(script.at - 1)'
      <4>1. PICK a : a = script.at - 1
        OBVIOUS
      <4>2. OwnUpTo(a)'
        BY <4>1, <3>1, <1>9
      <4> QED BY <4>1, <4>2, <1>1 DEF OwnUpTo
    <3> QED BY <1>1, <2>1, <2>3, <3>3, <3>4 DEF DeployingRoom
  <2> QED BY <2>1, <2>2, <2>3
<1>11. CountingRoom'
  BY <1>1 DEF DeployInv, CountingRoom
<1>12. ConnectingRoom'
  <2> SUFFICES ASSUME script.phase = "connecting" PROVE ConnectingRoom'
    BY <1>1 DEF ConnectingRoom
  <2>1. /\ script.first \in Nat /\ script.first <= l /\ script.sent \subseteq 1..NumConnections
        /\ \A q \in P : \E i \in script.sent : q[1] = NonceOf(i)
        /\ \A i \in 1..NumConnections \ script.sent : l <= NonceOf(i)
    BY <1>a, <1>b DEF DeployInv, ConnectingRoom
  <2>2. PICK j \in script.sent : l = NonceOf(j)
    BY <1>1, <2>1
  <2>3. ASSUME NEW i \in 1..NumConnections \ script.sent PROVE l + 1 <= script.first + i - 1
    <3>1. i # j /\ j \in 1..NumConnections /\ l <= NonceOf(i)
      BY <2>1, <2>2
    <3> QED BY <3>1, <2>1, <2>2, <1>4 DEF NonceOf
  <2>4. script.first <= l + 1
    BY <2>1, <1>4
  <2> QED BY <1>1, <1>3, <2>1, <2>3, <2>4 DEF ConnectingRoom, NonceOf
<1>13. OtherRoom'
  <2>1. NumDeployed \in Int
    OBVIOUS
  <2> QED BY <2>1, <1>a, <1>b, <1>1, <1>3, <1>5 DEF DeployInv, OtherRoom
<1> QED BY <1>6, <1>7, <1>8, <1>10, <1>11, <1>12, <1>13 DEF DeployInv

\* At first nothing is pooled.
LEMMA DeployInitRoom == DeployInit => DeployInv
<1> SUFFICES ASSUME DeployInit PROVE DeployInv
  OBVIOUS
<1>1. /\ node.latest = 0 /\ node.pool = {} /\ DOMAIN node = {"latest", "pool"} /\ minedTxs = {}
      /\ script.phase = "ended" /\ script.run = 0 /\ DOMAIN script = {"phase", "run"}
  BY DEF DeployInit
<1>2. IsFiniteSet({})
  BY FS_EmptySet
<1>3. PoolOK(node.latest, node.pool)
  BY <1>1, <1>2 DEF PoolOK
<1>4. ScriptFields /\ TxsOfRuns
  BY <1>1 DEF ScriptFields, TxsOfRuns, DeployPhases
<1>5. DeployingRoom /\ CountingRoom /\ ConnectingRoom
  BY <1>1 DEF DeployingRoom, CountingRoom, ConnectingRoom
<1>6. OtherRoom
  BY <1>1 DEF OtherRoom, Reach
<1> QED BY <1>1, <1>3, <1>4, <1>5, <1>6 DEF DeployInv

\* Every step keeps it.
LEMMA DeployNextRoom ==
  ASSUME DeployInv, DeployNext
  PROVE  DeployInv'
<1>1. CASE \E c \in DeployedAssets, real \in BOOLEAN : StartTask(c, real)
  BY <1>1, StartKeepsRoom
<1>2. CASE DeployContract
  BY <1>2, DeployKeepsRoom
<1>3. CASE ContractDeployed
  BY <1>3, ReceiptKeepsRoom
<1>4. CASE CountNonces
  BY <1>4, CountKeepsRoom
<1>5. CASE \E i \in 1..NumConnections : SendConnection(i)
  BY <1>5, SendKeepsRoom
<1>6. CASE AllConnected
  <2>1. /\ script.phase # "ended" /\ UNCHANGED <<node, minedTxs>>
        /\ Goes("ended") \/ Goes("hooking") \/ Goes("recording")
    BY <1>6 DEF AllConnected
  <2> QED BY <2>1, GoesKeepsRoom DEF DeployPhases
<1>7. CASE HookUpPriceFeed
  BY <1>7, HookKeepsRoom
<1>8. CASE WriteDeployment
  <2>1. /\ script.phase # "ended" /\ UNCHANGED <<node, minedTxs>>
        /\ Goes("opening") \/ Goes("writing") \/ Goes("indexing") \/ Goes("ended")
    BY <1>8 DEF WriteDeployment
  <2> QED BY <2>1, GoesKeepsRoom DEF DeployPhases
<1>9. CASE TellorCallerDeployed \/ Killed
  BY <1>9, GoesKeepsRoom DEF TellorCallerDeployed, Killed, DeployPhases
<1>10. CASE MineOne
  BY <1>10, MineKeepsRoom DEF MineOne
<1> QED BY <1>1, <1>2, <1>3, <1>4, <1>5, <1>6, <1>7, <1>8, <1>9, <1>10 DEF DeployNext, TaskSteps

Built(M, r) == \A i \in 1..NumDeployed : <<r, i, "deployed">> \in M
Joined(M, r) == \A i \in 1..NumConnections : <<r, i, "connected">> \in M

\* How far the run under way has come.
ProgressOK ==
  /\ script.phase = "deploying" => \A i \in 1..script.at-1 : <<script.run, i, "deployed">> \in minedTxs
  /\ script.phase \notin {"ended", "deploying"} => Built(minedTxs, script.run)
  /\ script.phase \notin {"ended", "deploying", "counting", "connecting"} => Joined(minedTxs, script.run)
  /\ script.phase # "ended" => script.collateral \in DeployedAssets

DiskOK ==
  /\ DOMAIN disk = {"folders", "index", "files"}
  /\ disk.folders \subseteq DeployedAssets /\ disk.index \subseteq DeployedAssets
  /\ DOMAIN disk.files = DeployedAssets
  /\ \A c \in DeployedAssets :
       disk.files[c] \notin {NoDeployment, Torn} => Built(minedTxs, disk.files[c]) /\ Joined(minedTxs, disk.files[c])

\* What was deployed and connected stays so.
LEMMA BuiltStays ==
  ASSUME minedTxs \subseteq minedTxs', NEW r
  PROVE  (Built(minedTxs, r) => Built(minedTxs', r)) /\ (Joined(minedTxs, r) => Joined(minedTxs', r))
BY DEF Built, Joined

\* A disk that nothing is written to.
LEMMA DiskStays ==
  ASSUME DiskOK, minedTxs \subseteq minedTxs', disk' = disk
  PROVE  DiskOK'
<1>1. ASSUME NEW c \in DeployedAssets, disk'.files[c] \notin {NoDeployment, Torn}
      PROVE  Built(minedTxs', disk'.files[c]) /\ Joined(minedTxs', disk'.files[c])
  <2>1. PICK r : r = disk.files[c]
    OBVIOUS
  <2>2. Built(minedTxs, r) /\ Joined(minedTxs, r)
    BY <1>1, <2>1 DEF DiskOK
  <2>3. Built(minedTxs', r) /\ Joined(minedTxs', r)
    BY <2>2, BuiltStays
  <2> QED BY <2>1, <2>3 DEF Built, Joined
<1> QED BY <1>1 DEF DiskOK

\* The writing of the files.
LEMMA WritingKeepsRecords ==
  ASSUME DiskOK, ProgressOK, ScriptFields, WriteDeployment
  PROVE  DiskOK' /\ ProgressOK'
<1>1. /\ minedTxs' = minedTxs /\ script.phase \in {"recording", "opening", "writing", "indexing"}
  BY DEF WriteDeployment
<1>2. PICK c0 : c0 = script.collateral
  OBVIOUS
<1>3. PICK r0 : r0 = script.run
  OBVIOUS
<1>4. c0 \in DeployedAssets /\ Built(minedTxs, r0) /\ Joined(minedTxs, r0)
  BY <1>1, <1>2, <1>3 DEF ProgressOK
<1>5. Built(minedTxs', r0) /\ Joined(minedTxs', r0)
  BY <1>1, <1>4, BuiltStays
<1>6. ProgressOK'
  <2>1. PICK ph : Goes(ph) /\ ph \in {"opening", "writing", "indexing", "ended"}
    BY DEF WriteDeployment
  <2>2. script'.phase = ph /\ script'.run = script.run /\ script'.collateral = script.collateral
    BY <1>1, <2>1, GoesPhase
  <2> QED BY <1>2, <1>3, <1>4, <1>5, <2>1, <2>2 DEF ProgressOK, Built, Joined
<1>7. \A r : (Built(minedTxs, r) => Built(minedTxs', r)) /\ (Joined(minedTxs, r) => Joined(minedTxs', r))
  BY <1>1, BuiltStays
<1>8. CASE disk' = [disk EXCEPT !.folders = @ \cup {c0}]
  <2>1. disk'.folders = disk.folders \cup {c0} /\ disk'.index = disk.index /\ disk'.files = disk.files
        /\ DOMAIN disk' = DOMAIN disk
    BY <1>8 DEF DiskOK
  <2>2. /\ disk'.folders \subseteq DeployedAssets /\ disk'.index \subseteq DeployedAssets
        /\ DOMAIN disk'.files = DeployedAssets
    BY <2>1, <1>4 DEF DiskOK
  <2> QED BY <2>1, <2>2, <1>1, <1>6 DEF DiskOK
<1>9. CASE disk' = [disk EXCEPT !.index = disk.folders]
  <2>1. disk'.folders = disk.folders /\ disk'.index = disk.folders /\ disk'.files = disk.files
        /\ DOMAIN disk' = DOMAIN disk
    BY <1>9 DEF DiskOK
  <2>2. /\ disk'.folders \subseteq DeployedAssets /\ disk'.index \subseteq DeployedAssets
        /\ DOMAIN disk'.files = DeployedAssets
    BY <2>1 DEF DiskOK
  <2> QED BY <2>1, <2>2, <1>1, <1>6 DEF DiskOK
<1>10. ASSUME NEW x \in {Torn, r0}, disk' = [disk EXCEPT !.files[c0] = x] PROVE DiskOK'
  <2> DEFINE fs == [disk.files EXCEPT ![c0] = x]
  <2>1. /\ DOMAIN fs = DeployedAssets /\ fs[c0] = x
        /\ \A c \in DeployedAssets \ {c0} : fs[c] = disk.files[c]
    BY <1>4 DEF DiskOK
  <2>2. disk' = [disk EXCEPT !.files = fs]
    BY <1>10
  <2> HIDE DEF fs
  <2>3. disk'.folders = disk.folders /\ disk'.index = disk.index /\ disk'.files = fs
        /\ DOMAIN disk' = DOMAIN disk
    BY <2>2 DEF DiskOK
  <2>4. ASSUME NEW c \in DeployedAssets, disk'.files[c] \notin {NoDeployment, Torn}
        PROVE  Built(minedTxs', disk'.files[c]) /\ Joined(minedTxs', disk'.files[c])
    <3>1. PICK r : r = disk'.files[c]
      OBVIOUS
    <3>2. Built(minedTxs', r) /\ Joined(minedTxs', r)
      <4>1. CASE c = c0
        BY <4>1, <3>1, <2>1, <2>3, <2>4, <1>5
      <4>2. CASE c # c0
        <5>1. r = disk.files[c]
          BY <4>2, <3>1, <2>1, <2>3
        <5>2. Built(minedTxs, r) /\ Joined(minedTxs, r)
          BY <5>1, <3>1, <2>4 DEF DiskOK
        <5> QED BY <5>2, <1>7
      <4> QED BY <4>1, <4>2
    <3> QED BY <3>1, <3>2 DEF Built, Joined
  <2> QED BY <2>1, <2>3, <2>4 DEF DiskOK
<1> QED BY <1>2, <1>3, <1>6, <1>8, <1>9, <1>10 DEF WriteDeployment

\* Every step keeps what is recorded and how far the run has come.
LEMMA DeployNextRecords ==
  ASSUME DeployInv, DiskOK, ProgressOK, DeployNext
  PROVE  DiskOK' /\ ProgressOK'
<1> USE DeploymentAssumption
<1>0. ScriptFields /\ DOMAIN node = {"latest", "pool"}
  BY DEF DeployInv
<1>e. ASSUME Goes("ended"), script.phase # "ended" PROVE ProgressOK'
  <2>1. script'.phase = "ended"
    BY <1>e, <1>0, GoesPhase
  <2> QED BY <2>1 DEF ProgressOK
<1>1. ASSUME NEW c \in DeployedAssets, NEW real \in BOOLEAN, StartTask(c, real) PROVE DiskOK' /\ ProgressOK'
  <2>1. disk' = disk /\ minedTxs' = minedTxs /\ script'.phase = "deploying" /\ script'.at = 1 /\ script'.collateral = c
    BY <1>1 DEF StartTask
  <2> QED BY <2>1, DiskStays DEF ProgressOK
<1>2. CASE DeployContract
  <2>1. disk' = disk /\ minedTxs' = minedTxs /\ script.phase = "deploying" /\ script' = [script EXCEPT !.waits = TRUE]
    BY <1>2 DEF DeployContract
  <2>2. /\ script'.phase = "deploying" /\ script'.run = script.run /\ script'.at = script.at
        /\ script'.collateral = script.collateral
    BY <2>1, <1>0 DEF ScriptFields
  <2> QED BY <2>1, <2>2, DiskStays DEF ProgressOK
<1>3. CASE ContractDeployed
  <2>1. disk' = disk /\ minedTxs' = minedTxs /\ script.phase = "deploying"
    BY <1>3 DEF ContractDeployed
  <2>2. DiskOK'
    BY <2>1, DiskStays
  <2>3. CASE Goes("ended")
    BY <2>1, <2>2, <2>3, <1>e
  <2>4. CASE Has("deployed", script.at) /\ Deployed
    <3>1. script.at \in 1..NumDeployed
      BY <2>1 DEF DeployInv, DeployingRoom
    <3>2. \A i \in 1..script.at : <<script.run, i, "deployed">> \in minedTxs
      BY <2>1, <2>4, <3>1 DEF ProgressOK, Has
    <3>3. CASE script.at < NumDeployed
      <4> DEFINE a == script.at + 1
      <4>1. script' = [script EXCEPT !.at = a, !.waits = FALSE] /\ a - 1 = script.at
        BY <2>4, <3>1, <3>3 DEF Deployed
      <4> HIDE DEF a
      <4>2. /\ script'.phase = "deploying" /\ script'.run = script.run /\ script'.at = a
            /\ script'.collateral = script.collateral
        BY <4>1, <2>1, <1>0 DEF ScriptFields
      <4> QED BY <2>1, <2>2, <3>2, <4>1, <4>2 DEF ProgressOK
    <3>4. CASE ~(script.at < NumDeployed)
      <4>1. Goes("counting") /\ script.at = NumDeployed
        BY <2>4, <3>1, <3>4 DEF Deployed, Goes
      <4>2. script'.phase = "counting" /\ script'.run = script.run /\ script'.collateral = script.collateral
        BY <4>1, <2>1, <1>0, GoesPhase
      <4> QED BY <2>1, <2>2, <3>2, <4>1, <4>2 DEF ProgressOK, Built
    <3> QED BY <3>3, <3>4
  <2> QED BY <1>3, <2>3, <2>4 DEF ContractDeployed
<1>4. CASE CountNonces
  <2>a. PICK l : l = node.latest
    OBVIOUS
  <2>1. /\ disk' = disk /\ minedTxs' = minedTxs /\ script.phase = "counting"
        /\ script' = [script EXCEPT !.phase = "connecting", !.first = l]
    BY <1>4, <2>a DEF CountNonces
  <2>2. script'.phase = "connecting" /\ script'.run = script.run /\ script'.collateral = script.collateral
    BY <2>1, <1>0 DEF ScriptFields
  <2> QED BY <2>1, <2>2, DiskStays DEF ProgressOK, Built
<1>5. ASSUME NEW i \in 1..NumConnections, SendConnection(i) PROVE DiskOK' /\ ProgressOK'
  <2>1. disk' = disk /\ minedTxs' = minedTxs /\ script.phase = "connecting"
    BY <1>5 DEF SendConnection
  <2>2. DiskOK'
    BY <2>1, DiskStays
  <2>3. CASE Goes("ended")
    BY <2>1, <2>2, <2>3, <1>e
  <2>4. CASE script' = [script EXCEPT !.sent = @ \cup {i}]
    <3>1. script'.phase = "connecting" /\ script'.run = script.run /\ script'.collateral = script.collateral
      BY <2>1, <2>4, <1>0 DEF ScriptFields
    <3> QED BY <2>1, <2>2, <3>1 DEF ProgressOK, Built
  <2> QED BY <1>5, <2>3, <2>4 DEF SendConnection
<1>6. CASE AllConnected
  <2>1. disk' = disk /\ minedTxs' = minedTxs /\ script.phase = "connecting"
    BY <1>6 DEF AllConnected
  <2>2. DiskOK'
    BY <2>1, DiskStays
  <2>3. CASE Goes("ended")
    BY <2>1, <2>2, <2>3, <1>e
  <2>4. ASSUME \A i \in 1..NumConnections : Has("connected", i),
               NEW ph \in {"hooking", "recording"}, Goes(ph)
        PROVE  ProgressOK'
    <3>1. script'.phase = ph /\ script'.run = script.run /\ script'.collateral = script.collateral
      BY <2>1, <2>4, <1>0, GoesPhase
    <3> QED BY <2>1, <2>4, <3>1 DEF ProgressOK, Built, Joined, Has
  <2>5. \/ Goes("ended")
        \/ /\ \A i \in 1..NumConnections : Has("connected", i)
           /\ \E ph \in {"hooking", "recording"} : Goes(ph)
    BY <1>6 DEF AllConnected
  <2> QED BY <2>2, <2>3, <2>4, <2>5
<1>7. CASE TellorCallerDeployed \/ Killed
  <2>1. disk' = disk /\ minedTxs' = minedTxs /\ Goes("ended") /\ script.phase # "ended"
    BY <1>7 DEF TellorCallerDeployed, Killed
  <2> QED BY <2>1, <1>e, DiskStays
<1>10. CASE HookUpPriceFeed
  <2>1. disk' = disk /\ minedTxs' = minedTxs /\ Goes("calling") /\ script.phase = "hooking"
    BY <1>10 DEF HookUpPriceFeed
  <2>2. script'.phase = "calling" /\ script'.run = script.run /\ script'.collateral = script.collateral
    BY <2>1, <1>0, GoesPhase
  <2> QED BY <2>1, <2>2, DiskStays DEF ProgressOK, Built, Joined
<1>8. CASE WriteDeployment
  BY <1>0, <1>8, WritingKeepsRecords
<1>9. CASE MineOne
  <2>1. minedTxs \subseteq minedTxs' /\ disk' = disk /\ script' = script
    BY <1>9 DEF MineOne, MineTx
  <2>2. DiskOK'
    BY <2>1, DiskStays
  <2>3. ProgressOK'
    BY <2>1 DEF ProgressOK, Built, Joined
  <2> QED BY <2>2, <2>3
<1> QED BY <1>1, <1>2, <1>3, <1>4, <1>5, <1>6, <1>7, <1>8, <1>9, <1>10 DEF DeployNext, TaskSteps

\* connectContracts and the deploy task: for any number of contracts, connections, runs and
\* failures, and whatever killed runs leave in the pool, the nonces a run counts itself are
\* free, and what a client finds on disk was deployed and connected by one run.
THEOREM DeploymentsStaySound ==
  DeploySpec => []NoncesAreFree /\ []RecordedIsConnected
<1> DEFINE Inv == DeployInv /\ DiskOK /\ ProgressOK
<1>1. DeployInit => Inv
  <2> SUFFICES ASSUME DeployInit PROVE Inv
    OBVIOUS
  <2>1. DeployInv
    BY DeployInitRoom
  <2>2. /\ disk.folders = {} /\ disk.index = {} /\ DOMAIN disk = {"folders", "index", "files"}
        /\ disk.files = [c \in DeployedAssets |-> NoDeployment] /\ script.phase = "ended"
    BY DEF DeployInit
  <2>3. DiskOK /\ ProgressOK
    BY <2>2 DEF DiskOK, ProgressOK
  <2> QED BY <2>1, <2>3
<1>2. Inv /\ [DeployNext]_deployVars => Inv'
  <2> SUFFICES ASSUME Inv, [DeployNext]_deployVars PROVE Inv'
    OBVIOUS
  <2>1. CASE DeployNext
    BY <2>1, DeployNextRoom, DeployNextRecords
  <2>2. CASE UNCHANGED deployVars
    <3>1. node' = node /\ minedTxs' = minedTxs /\ script' = script /\ disk' = disk
      BY <2>2 DEF deployVars
    <3>2. ScriptFields' /\ TxsOfRuns' /\ DeployingRoom' /\ CountingRoom' /\ ConnectingRoom' /\ OtherRoom'
      BY <3>1 DEF DeployInv, ScriptFields, TxsOfRuns, DeployingRoom, CountingRoom, ConnectingRoom,
                  OtherRoom, OwnUpTo, AwaitedAt, Has, NonceOf
    <3>3. DiskOK' /\ ProgressOK'
      BY <3>1 DEF DiskOK, ProgressOK, Built, Joined
    <3> QED BY <3>1, <3>2, <3>3 DEF DeployInv
  <2> QED BY <2>1, <2>2
<1>3. Inv => NoncesAreFree /\ RecordedIsConnected
  <2> SUFFICES ASSUME Inv PROVE NoncesAreFree /\ RecordedIsConnected
    OBVIOUS
  <2>1. NoncesAreFree
    BY UnsentNoncesFree DEF NoncesAreFree
  <2>2. RecordedIsConnected
    BY DEF RecordedIsConnected, getCollateralsDeployments, DiskOK, Built, Joined
  <2> QED BY <2>1, <2>2
<1> QED BY <1>1, <1>2, <1>3, PTL DEF DeploySpec

=============================================================================
