--------------------------- MODULE StabilityPanel ---------------------------
(***************************************************************************)
(* The panel of a stability deposit for one collateral (dev-frontend) and  *)
(* the redemption card: StabilityViewProvider chooses the deposit's card,  *)
(* StabilityDepositManager keeps a form that follows the store, and both   *)
(* watch the shared transaction state for their own transaction.  They are *)
(* on two pages of the application, of which one is shown at a time.       *)
(*                                                                         *)
(* As in VaultPanel a step is an event with all its effects, and the panel *)
(* sees the shared transaction state while that is about its own           *)
(* transaction.  The deposit is the part of the depositor: liquidations    *)
(* turn THUSD into a gain.                                                 *)
(***************************************************************************)
EXTENDS Integers

CONSTANTS
  DepositAmounts,       \* what can be typed
  isStabilityPools,     \* the collateral has a stability pool
  MaxDepositSends,      \* bound: transactions sent
  MaxLiquidations       \* bound: liquidations

ASSUME StabilityPanelAssumption ==
  /\ DepositAmounts \subseteq Nat /\ isStabilityPools \in BOOLEAN
  /\ MaxDepositSends \in Nat /\ MaxLiquidations \in Nat

VARIABLES
  deposit,        \* on chain: initialTHUSD, currentTHUSD and collateralGain
  readDeposit,    \* stabilityDeposit of the store
  spage,          \* the page shown: "earn", "redemption" or "elsewhere"
  sview,          \* NONE, DEPOSITING, ACTIVE or ADJUSTING
  sform,          \* the state of StabilityDepositManager
  redeeming,      \* RedemptionManager: the amount typed and changePending
  sown,           \* the shared state, when it is about a transaction of these cards
  saside,         \* their transactions that were sent and are not shown
  sbusy,          \* the monitor follows a transaction of another card
  depositSends, liquidationsSeen,
  wanted,         \* history: the change typed last
  retyped,        \* history: something was typed since the last send
  interfered,     \* history: a loss was taken for the change under way, or the
                  \* depositor cancelled then
  sovertaken      \* history: another use of the shared state or a reload of the page
                  \* overtook a transaction of these cards

stxState == <<sown, saside, sbusy>>
stabilityVars ==
  <<deposit, readDeposit, spage, sview, sform, redeeming, stxState, depositSends, liquidationsSeen,
    wanted, retyped, interfered, sovertaken>>

StabilityDeposit(initial, current, gain) ==
  [initialTHUSD |-> initial, currentTHUSD |-> current, collateralGain |-> gain]

depositIsEmpty(d) == d = StabilityDeposit(0, 0, 0)

\* StabilityDeposit.whatChanged and apply; a deposit is a positive amount.
NoDepositChange == [amount |-> 0, withdrawAll |-> FALSE]

depositChange(d, edited) ==
  [amount |-> edited - d.currentTHUSD,
   withdrawAll |-> edited = 0 /\ d.currentTHUSD > 0]

applyDepositChange(d, change) ==
  IF change.amount < 0 /\ (change.withdrawAll \/ d.currentTHUSD + change.amount <= 0)
  THEN 0 ELSE d.currentTHUSD + change.amount

ManagerOf(original, edited, changePending) ==
  [mounted |-> TRUE, originalDeposit |-> original, editedUSD |-> edited,
   changePending |-> changePending]
NoManager == [mounted |-> FALSE]

NoRedemption == [amount |-> 0, changePending |-> FALSE]

\* fate: what the chain made of it, or "asked" once the monitor knows that it was
\* reverted and awaits the reason.
StabilityTx(n, type, id, change, fate) ==
  [n |-> n, type |-> type, id |-> id, change |-> change, fate |-> fate]
NoStabilityTx == StabilityTx(0, "idle", "none", NoDepositChange, "none")
SWaiting(tx) == tx.type \in {"waitingForApproval", "waitingForConfirmation"}
SMonitored(tx) == tx.type = "waitingForConfirmation" /\ tx.fate # "asked"

\* validateStabilityDepositChange; undercollateralized troves are left to the chain.
ValidDepositChange(d, edited) == depositChange(d, edited).amount # 0

-----------------------------------------------------------------------------
(* The cards *)

\* REWARDS_CLAIMED leads from ACTIVE to ACTIVE; DEPOSIT_EMPTIED is only dispatched when
\* the provider is mounted, where it changes nothing.
stabilityTransition(v, event) ==
  CASE v = "NONE" /\ event = "DEPOSIT_PRESSED" -> "DEPOSITING"
    [] v = "DEPOSITING" /\ event = "CANCEL_PRESSED" -> "NONE"
    [] v = "ACTIVE" /\ event = "ADJUST_DEPOSIT_PRESSED" -> "ADJUSTING"
    [] v = "ADJUSTING" /\ event = "CANCEL_PRESSED" -> "ACTIVE"
    [] v \in {"DEPOSITING", "ADJUSTING"} /\ event = "DEPOSIT_CONFIRMED" -> "ACTIVE"
    [] OTHER -> v

\* The forms of the card v of the deposit and of the redemption card when they are
\* mounted: their effect on the transaction runs then, too.
MountedManager(v, d, tx) ==
  IF v \in {"DEPOSITING", "ADJUSTING"}
  THEN ManagerOf(d, d.currentTHUSD, SWaiting(tx) /\ tx.id = "stability-deposit")
  ELSE NoManager
MountedRedemption(tx) == [NoRedemption EXCEPT !.changePending = SWaiting(tx) /\ tx.id = "redemption"]

StabilityDispatch(event, d, tx) ==
  LET next == stabilityTransition(sview, event)
  IN  /\ sview' = next
      /\ sform' = IF next = sview THEN sform ELSE MountedManager(next, d, tx)

\* Faulty variant: the edit is kept as the amount typed.
depositUpdated_KeepsAmount(f, updated) ==
  ManagerOf(updated, f.editedUSD, f.changePending)

\* updateStore of the reducer: a decrease is taken for the pending change.
depositUpdated(f, updated) ==
  LET original == f.originalDeposit
      changeCommitted == \/ updated.initialTHUSD < original.initialTHUSD
                         \/ updated.currentTHUSD < original.currentTHUSD
                         \/ updated.collateralGain < original.collateralGain
  IN  IF f.changePending /\ changeCommitted
      THEN ManagerOf(updated, updated.currentTHUSD, FALSE)
      ELSE ManagerOf(updated,
             applyDepositChange(updated, depositChange(original, f.editedUSD)),
             f.changePending)

\* The overlays of StabilityDepositEditor and ActiveDeposit.
StabilityOverlay(f, v, tx) ==
  IF f.mounted THEN f.changePending
  ELSE v = "ACTIVE" /\ SWaiting(tx) /\ tx.id = "stability-deposit"

\* What the cards make of a state of their transaction other than its confirmation:
\* the effects depend on the type only, and an idle state has none.
CardsSee(tx) ==
  LET isNew == ~(sown.id = tx.id /\ sown.type = tx.type)
  IN  /\ sform' = IF sform.mounted /\ tx.id = "stability-deposit" /\ isNew
                  THEN [sform EXCEPT !.changePending = SWaiting(tx)] ELSE sform
      /\ redeeming' = IF spage = "redemption" /\ tx.id = "redemption" /\ isNew
                      THEN [redeeming EXCEPT !.changePending = SWaiting(tx)] ELSE redeeming

\* What is left of a transaction that is no longer shown.
SKept(tx) == IF SWaiting(tx) /\ tx.fate \in {"none", "asked"} THEN {tx} ELSE {}

\* setTransactionState(tx), when the transactions in others are not shown.  A monitor
\* that is not finished is cleaned up and makes the state idle, after the cards have
\* seen tx for one render.
SWrite(tx, others) ==
  /\ sown' = IF SMonitored(sown) \/ sbusy THEN NoStabilityTx ELSE tx
  /\ saside' = others \cup SKept(sown) \cup (IF SMonitored(sown) \/ sbusy THEN SKept(tx) ELSE {})
  /\ sbusy' = FALSE
  /\ CardsSee(tx)
  /\ sovertaken' = (sovertaken \/ SWaiting(sown) \/ sbusy)

StabilityPanelInit ==
  /\ deposit \in {StabilityDeposit(0, 0, 0), StabilityDeposit(2, 2, 0)}
  /\ readDeposit = deposit /\ spage = "elsewhere"
  /\ sview = IF depositIsEmpty(deposit) THEN "NONE" ELSE "ACTIVE"
  /\ sform = NoManager /\ redeeming = NoRedemption
  /\ sown = NoStabilityTx /\ saside = {} /\ sbusy = FALSE
  /\ depositSends = 0 /\ liquidationsSeen = 0 /\ wanted = NoDepositChange
  /\ retyped = FALSE /\ interfered = FALSE /\ sovertaken = FALSE

-----------------------------------------------------------------------------
(* The depositor *)

\* NoDeposit: the button is disabled without a stability pool for the collateral.
noDepositButtons == IF isStabilityPools THEN {"DEPOSIT_PRESSED"} ELSE {}

StabilityButtons ==
  [NONE |-> noDepositButtons, DEPOSITING |-> {"CANCEL_PRESSED"},
   ACTIVE |-> {"ADJUST_DEPOSIT_PRESSED"}, ADJUSTING |-> {"CANCEL_PRESSED"}]

PressStability ==
  /\ spage = "earn" /\ ~StabilityOverlay(sform, sview, sown)
  /\ \E event \in StabilityButtons[sview] : StabilityDispatch(event, readDeposit, sown)
  /\ wanted' = NoDepositChange
  /\ interfered' = (interfered \/ (SWaiting(sown) /\ sform.mounted))
  /\ UNCHANGED <<deposit, readDeposit, spage, redeeming, stxState, depositSends, liquidationsSeen,
                 retyped, sovertaken>>

\* Another page is shown: the view is kept, the forms are not.
GoTo(page) ==
  /\ page # spage /\ spage' = page
  /\ sform' = IF page = "earn" THEN MountedManager(sview, readDeposit, sown) ELSE NoManager
  /\ redeeming' = IF page = "redemption" THEN MountedRedemption(sown) ELSE NoRedemption
  /\ wanted' = NoDepositChange /\ retyped' = FALSE
  /\ UNCHANGED <<deposit, readDeposit, sview, stxState, depositSends, liquidationsSeen, interfered,
                 sovertaken>>

\* The page is loaded again: what was sent, or is signed later, is followed by nobody.
ReloadStability ==
  /\ sview' = IF depositIsEmpty(readDeposit) THEN "NONE" ELSE "ACTIVE"
  /\ sform' = NoManager /\ redeeming' = NoRedemption
  /\ sown' = NoStabilityTx /\ sbusy' = FALSE
  /\ saside' = {[tx EXCEPT !.type = "waitingForConfirmation"] :
                  tx \in {t \in saside \cup {sown} : SWaiting(t) /\ t.fate = "none"}}
  /\ wanted' = NoDepositChange /\ retyped' = FALSE /\ interfered' = FALSE
  /\ sovertaken' = (saside' # {})
  /\ UNCHANGED <<deposit, readDeposit, spage, depositSends, liquidationsSeen>>

EditDeposit(amount) ==
  /\ sform.mounted /\ ~StabilityOverlay(sform, sview, sown)
  /\ sform' = [sform EXCEPT !.editedUSD = amount]
  /\ wanted' = depositChange(sform.originalDeposit, amount) /\ retyped' = TRUE
  /\ UNCHANGED <<deposit, readDeposit, spage, sview, redeeming, stxState, depositSends,
                 liquidationsSeen, interfered, sovertaken>>

EditRedemption(amount) ==
  /\ spage = "redemption" /\ ~redeeming.changePending
  /\ redeeming' = [redeeming EXCEPT !.amount = amount]
  /\ UNCHANGED <<deposit, readDeposit, spage, sview, sform, stxState, depositSends,
                 liquidationsSeen, wanted, retyped, interfered, sovertaken>>

CanSendDeposit ==
  /\ sform.mounted /\ ~StabilityOverlay(sform, sview, sown)
  /\ ValidDepositChange(sform.originalDeposit, sform.editedUSD)

CanSendRedemption == ~redeeming.changePending /\ redeeming.amount > 0

SendStability(id, change) ==
  /\ depositSends < MaxDepositSends /\ depositSends' = depositSends + 1
  /\ SWrite(StabilityTx(depositSends + 1, "waitingForApproval", id, change, "none"), saside)
  /\ retyped' = FALSE
  /\ UNCHANGED <<deposit, readDeposit, spage, sview, liquidationsSeen, wanted, interfered>>

SendFromCards ==
  \/ /\ CanSendDeposit
     /\ SendStability("stability-deposit", depositChange(sform.originalDeposit, sform.editedUSD))
  \/ \* ClaimRewards
     /\ spage = "earn" /\ sview = "ACTIVE" /\ readDeposit.collateralGain > 0
     /\ ~StabilityOverlay(sform, sview, sown)
     /\ SendStability("stability-deposit", NoDepositChange)
  \/ /\ CanSendRedemption
     /\ SendStability("redemption", [amount |-> redeeming.amount, withdrawAll |-> FALSE])

-----------------------------------------------------------------------------
(* The transaction, the store and the chain *)

DepositWalletAnswers ==
  /\ sown.type = "waitingForApproval"
  /\ \E type \in {"waitingForConfirmation", "failed", "cancelled"} : sown' = [sown EXCEPT !.type = type]
  /\ CardsSee(sown')
  /\ UNCHANGED <<deposit, readDeposit, spage, sview, saside, sbusy, depositSends, liquidationsSeen,
                 wanted, retyped, interfered, sovertaken>>

\* The same for a transaction that another one has replaced in the meantime, and the
\* reason of a revert that comes late.
DepositLateAnswer ==
  /\ \E tx \in saside :
       \/ /\ tx.type = "waitingForApproval"
          /\ \E type \in {"waitingForConfirmation", "failed", "cancelled"} :
               SWrite([tx EXCEPT !.type = type], saside \ {tx})
       \/ tx.fate = "asked" /\ SWrite([tx EXCEPT !.type = "failed"], saside \ {tx})
  /\ UNCHANGED <<deposit, readDeposit, spage, sview, depositSends, liquidationsSeen, wanted,
                 retyped, interfered>>

\* External: a change of the deposit pays the gain out.
DepositAfter(d, tx) ==
  LET left == applyDepositChange(d, tx.change)
  IN  IF tx.id = "redemption" THEN d ELSE StabilityDeposit(left, left, 0)

DepositMined ==
  /\ sown.type = "waitingForConfirmation" /\ sown.fate = "none"
  /\ \/ sown' = [sown EXCEPT !.fate = "succeeded"] /\ deposit' = DepositAfter(deposit, sown)
     \/ sown' = [sown EXCEPT !.fate = "reverted"] /\ UNCHANGED deposit
  /\ UNCHANGED <<readDeposit, spage, sview, sform, redeeming, saside, sbusy, depositSends,
                 liquidationsSeen, wanted, retyped, interfered, sovertaken>>

\* A transaction is mined that nobody follows.
DepositMinedUnseen ==
  /\ \E tx \in saside :
       /\ tx.type = "waitingForConfirmation" /\ tx.fate = "none"
       /\ saside' = saside \ {tx} /\ deposit' \in {deposit, DepositAfter(deposit, tx)}
  /\ UNCHANGED <<readDeposit, spage, sview, sform, redeeming, sown, sbusy, depositSends,
                 liquidationsSeen, wanted, retyped, interfered, sovertaken>>

\* waitForConfirmation has the receipt: confirmedOneShot for the deposit's card, and
\* confirmed for the redemption card too.  The reason of a revert is asked for first.
DepositReceipt ==
  /\ SMonitored(sown) /\ sown.fate # "none"
  /\ IF sown.fate = "succeeded"
     THEN /\ sown' = [sown EXCEPT !.type = "confirmed"]
          /\ IF sown.id = "stability-deposit" /\ sform.mounted
             THEN StabilityDispatch("DEPOSIT_CONFIRMED", readDeposit, sown')
             ELSE UNCHANGED <<sview, sform>>
          /\ redeeming' = IF sown.id = "redemption" THEN NoRedemption ELSE redeeming
     ELSE sown' = [sown EXCEPT !.fate = "asked"] /\ UNCHANGED <<sview, sform, redeeming>>
  /\ UNCHANGED <<deposit, readDeposit, spage, saside, sbusy, depositSends, liquidationsSeen, wanted,
                 retyped, interfered, sovertaken>>

\* The reason is known; or waitForReceipt throws, because the transaction was replaced by
\* another one, or because its receipt cannot be had and it may still be mined.
DepositFails ==
  /\ sown.type = "waitingForConfirmation" /\ sown.fate \in {"none", "asked"}
  /\ \/ /\ sown' = [sown EXCEPT !.type = IF sown.fate = "asked" THEN "failed" ELSE "cancelled"]
        /\ UNCHANGED <<saside, sovertaken>>
     \/ /\ sown.fate = "none" /\ sown' = [sown EXCEPT !.type = "failed"]
        /\ saside' = saside \cup {sown} /\ sovertaken' = TRUE
  /\ CardsSee(sown')
  /\ UNCHANGED <<deposit, readDeposit, spage, sview, sbusy, depositSends, liquidationsSeen, wanted,
                 retyped, interfered>>

DepositTxEnds ==
  /\ sown.type \in {"confirmed", "failed", "cancelled"}
  /\ sown' = NoStabilityTx
  /\ UNCHANGED <<deposit, readDeposit, spage, sview, sform, redeeming, saside, sbusy, depositSends,
                 liquidationsSeen, wanted, retyped, interfered, sovertaken>>

\* Another card, of this or of another collateral, sends a transaction or has one that is
\* approved or ends; a provider that changes does the same to these cards.  Their own
\* transaction is not shown any more, and they make nothing of that.
OtherStabilityCard ==
  /\ sbusy' \in BOOLEAN /\ (sbusy' => ~sbusy /\ ~SMonitored(sown))
  /\ sown' = NoStabilityTx /\ saside' = saside \cup SKept(sown)
  /\ sovertaken' = (sovertaken \/ SWaiting(sown))
  /\ UNCHANGED <<deposit, readDeposit, spage, sview, sform, redeeming, depositSends,
                 liquidationsSeen, wanted, retyped, interfered>>

DepositStoreUpdates ==
  /\ readDeposit # deposit /\ readDeposit' = deposit
  /\ sform' = IF sform.mounted THEN depositUpdated(sform, deposit) ELSE sform
  /\ wanted' = IF sform.mounted /\ sform.changePending /\ ~sform'.changePending
               THEN NoDepositChange ELSE wanted
  /\ interfered' = (interfered \/ (/\ sform.mounted /\ sform.changePending
                                   /\ ~sform'.changePending /\ sown.fate # "succeeded"))
  /\ UNCHANGED <<deposit, spage, sview, redeeming, stxState, depositSends, liquidationsSeen, retyped,
                 sovertaken>>

\* External
PoolLiquidation ==
  /\ liquidationsSeen < MaxLiquidations /\ liquidationsSeen' = liquidationsSeen + 1
  /\ deposit.currentTHUSD > 0
  /\ deposit' = [deposit EXCEPT !.currentTHUSD = @ - 1, !.collateralGain = @ + 1]
  /\ UNCHANGED <<readDeposit, spage, sview, sform, redeeming, stxState, depositSends, wanted, retyped,
                 interfered, sovertaken>>

StabilityPanelNext ==
  \/ PressStability \/ ReloadStability
  \/ \E page \in {"earn", "redemption", "elsewhere"} : GoTo(page)
  \/ \E amount \in DepositAmounts : EditDeposit(amount) \/ EditRedemption(amount)
  \/ SendFromCards
  \/ DepositWalletAnswers \/ DepositLateAnswer \/ DepositMined \/ DepositMinedUnseen
  \/ DepositReceipt \/ DepositFails \/ DepositTxEnds \/ OtherStabilityCard
  \/ DepositStoreUpdates \/ PoolLiquidation

StabilityPanelSpec == StabilityPanelInit /\ [][StabilityPanelNext]_stabilityVars

-----------------------------------------------------------------------------

\* Neither card offers to send again what is under way, unless it is typed again, although
\* the page may be left and entered while it is: a form that was rebased onto its own
\* result asks for the same change once more, but only behind the overlay.  There are two
\* exceptions: a liquidation is taken for the awaited change and takes the overlay away
\* early, and another use of the shared state hides the transaction from a card that is
\* mounted later.
NothingIsSentTwice ==
  SWaiting(sown) /\ ~interfered /\ ~sovertaken =>
    IF sown.id = "redemption" THEN ~CanSendRedemption ELSE CanSendDeposit => retyped

\* Until it is sent the form asks for the change that was typed, whatever the pool does
\* to the deposit: the same amount more or less, or everything.
WantedChangeIsKept ==
  sform.mounted /\ ~interfered /\ ~sovertaken =>
    sform.editedUSD = applyDepositChange(sform.originalDeposit, wanted)

\* The overlays of both cards go with their transaction: no denial, failure, revert or
\* confirmation leaves them behind.  (Another use of the shared state does: it makes the
\* state idle, which clears neither card's changePending until the page is left.)
CardsAreReleased ==
  ~sovertaken =>
    /\ sform.mounted /\ sform.changePending => SWaiting(sown) /\ sown.id = "stability-deposit"
    /\ redeeming.changePending => SWaiting(sown) /\ sown.id = "redemption"

\* The cards are right about what the depositor wants and what is under way, although
\* liquidations change the deposit, pages come and go and transactions fail.
StabilityPanelAgrees ==
  /\ WantedChangeIsKept
  /\ NothingIsSentTwice
  /\ CardsAreReleased

=============================================================================
