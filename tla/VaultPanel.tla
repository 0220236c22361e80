----------------------------- MODULE VaultPanel -----------------------------
(***************************************************************************)
(* The panel of a borrower's vault for one collateral (dev-frontend):      *)
(* VaultViewProvider decides which card is shown, the cards Opening,       *)
(* Adjusting and VaultManager keep a form that is edited while the store,  *)
(* the vault on chain and the borrower's own transaction change under it.  *)
(*                                                                         *)
(* React runs the effects of a render before the next event, so a step is  *)
(* an event with all its effects; useStableVaultChange and viewsRef have   *)
(* caught up by then.  What validateVaultChange refuses for its amounts is *)
(* not sent here.                                                          *)
(*                                                                         *)
(* The cards are on one page of the application; the provider of the views *)
(* and the monitor of the transaction are above the pages and stay when    *)
(* the page is left.  The panel sees the transaction state that module     *)
(* Transactions is about: its own transaction while that is shown, and     *)
(* nothing of it once another use of the state has replaced it.            *)
(***************************************************************************)
EXTENDS TroveCalculator

CONSTANTS
  PanelAmounts,      \* what can be typed as collateral
  PanelDebts,        \* what can be typed as net debt
  isMintList,        \* the collateral is on the mint list
  MaxPanelSends,     \* bound: transactions sent
  MaxPanelEvents     \* bound: changes others make to the vault

ASSUME PanelAssumption ==
  /\ PanelAmounts \subseteq Nat /\ PanelDebts \subseteq Nat
  /\ MaxPanelSends \in Nat /\ MaxPanelEvents \in Nat /\ isMintList \in BOOLEAN

VARIABLES
  vault,        \* on chain: status, the trove before redistribution, its share since,
                \* the allowance of the token, a claimable surplus
  stored,       \* the vault as the store last read it
  view,         \* the card shown, or "CRASHED" when rendering has thrown
  form,         \* the state of the card
  onPage,       \* the page with the cards is shown
  own,          \* the shared state, when it is about a transaction of this panel
  aside,        \* this panel's transactions that were sent and are not shown
  busy,         \* the monitor follows a transaction of another card
  gas,          \* gasEstimationState and the estimates under way
  panelSends, panelEvents,
  typed,        \* history: the differences the borrower typed last
  surprised,    \* history: the vault was opened or closed and no card was told
  overtaken     \* history: another use of the shared state, Cancel or a reload of the
                \* page overtook a transaction of the panel

txState == <<own, aside, busy>>
panelVars == <<vault, stored, view, form, gas, onPage, txState, panelSends, panelEvents, typed,
               surprised, overtaken>>

NoChangeYet == Change("same", NoParams, "none")
Vault(status, before, gain, allowance, surplus) ==
  [status |-> status, before |-> before, gain |-> gain, allowance |-> allowance,
   surplus |-> surplus]
troveOf(v) == add(v.before, v.gain)

NoForm == [kind |-> "none"]
OpeningForm(collateral, borrow, isMounted) ==
  [kind |-> "opening", collateral |-> collateral, borrow |-> borrow,
   isMounted |-> isMounted]
AdjustingForm(collateral, debt, previous) ==
  [kind |-> "adjusting", collateral |-> collateral, netDebt |-> debt, previous |-> previous]
ManagerForm(original, edited, changePending) ==
  [kind |-> "manager", original |-> original, edited |-> edited,
   changePending |-> changePending]

\* fate: what the chain made of it, or "asked" once the monitor knows that it was
\* reverted and awaits the reason.
OwnTx(n, type, id, change, fate) ==
  [n |-> n, type |-> type, id |-> id, change |-> change, fate |-> fate]
NoTx == OwnTx(0, "idle", "none", NoChangeYet, "none")
Waiting(tx) == tx.type \in {"waitingForApproval", "waitingForConfirmation"}
Monitored(tx) == tx.type = "waitingForConfirmation" /\ tx.fate # "asked"
Changes(tx) == tx.id \in {"vault-creation", "vault-adjustment", "vault-closure"}

\* The vault was opened or closed by the transaction that is shown, and the monitor is
\* yet to say so.
Settling ==
  /\ own.type = "waitingForConfirmation" /\ own.fate = "succeeded"
  /\ own.id \in {"vault-creation", "vault-closure"}

\* mounted: the warning is on the card; change: the one its effect ran for; awaited:
\* those whose estimate will be taken; estimated: the one of a complete estimation.
Gas(type, mounted, change, awaited, estimated) ==
  [type |-> type, mounted |-> mounted, change |-> change, awaited |-> awaited,
   estimated |-> estimated]
NoGas == Gas("idle", FALSE, NoChangeYet, {}, NoChangeYet)

-----------------------------------------------------------------------------
(* VaultViewProvider *)

\* The transitions; other events leave the view as it is.
transition(v, event) ==
  CASE v \in {"NONE", "LIQUIDATED", "REDEEMED"} /\ event = "OPEN_VAULT_PRESSED" -> "OPENING"
    [] v \in {"NONE", "LIQUIDATED", "REDEEMED", "OPENING"} /\ event = "VAULT_OPENED" -> "ACTIVE"
    [] v \in {"LIQUIDATED", "REDEEMED"} /\ event = "VAULT_SURPLUS_COLLATERAL_CLAIMED" -> "NONE"
    [] v = "OPENING" /\ event = "CANCEL_ADJUST_VAULT_PRESSED" -> "NONE"
    [] v \in {"ADJUSTING", "CLOSING"} /\ event \in {"CANCEL_ADJUST_VAULT_PRESSED", "VAULT_ADJUSTED"}
         -> "ACTIVE"
    [] v = "ACTIVE" /\ event = "ADJUST_VAULT_PRESSED" -> "ADJUSTING"
    [] v = "ACTIVE" /\ event = "CLOSE_VAULT_PRESSED" -> "CLOSING"
    [] v \in {"ADJUSTING", "CLOSING", "ACTIVE"} /\ event = "VAULT_CLOSED" -> "NONE"
    [] v \in {"ADJUSTING", "CLOSING", "ACTIVE"} /\ event = "VAULT_LIQUIDATED" -> "LIQUIDATED"
    [] v \in {"ADJUSTING", "CLOSING", "ACTIVE"} /\ event = "VAULT_REDEEMED" -> "REDEEMED"
    [] OTHER -> v

\* The only look at the status: views are made when the provider is mounted.
getInitialView(status) ==
  CASE status = "closedByLiquidation" -> "LIQUIDATED"
    [] status = "closedByRedemption" -> "REDEEMED"
    [] status = "open" -> "ACTIVE"
    [] OTHER -> "NONE"

-----------------------------------------------------------------------------
(* The cards *)

\* reduce of VaultManager, which is only used with both amounts set to zero: what is
\* left of setCollateral and setDebt is the empty vault.
managerUpdated(f, before, new) ==
  LET trove   == troveOf(new)
      reverts == ManagerForm(trove, trove, f.changePending)
      change  == whatChanged(f.original, f.edited, 0)
  IN  IF f.changePending /\ new.before # before
      THEN ManagerForm(trove, trove, FALSE)
      ELSE IF \/ change.type = "creation" /\ ~isEmpty(trove)
              \/ change.type = "closure" /\ isEmpty(trove)
           THEN reverts
           ELSE ManagerForm(trove, apply(trove, change, 0), f.changePending)

\* applyUnsavedCollateralChanges and applyUnsavedNetDebtChanges: a decrease that is no
\* longer possible is dropped.
applyUnsavedChanges(edited, previous, now) ==
  IF edited < previous /\ previous - edited >= now THEN now ELSE now + (edited - previous)

\* Faulty variant: what was typed is kept as an amount.
adjustingUpdated_KeepsAmounts(f, trove) ==
  AdjustingForm(f.collateral, f.netDebt, trove)

\* The effect of Adjusting on a new trove.
adjustingUpdated(f, trove) ==
  AdjustingForm(
    IF f.previous.collateral = trove.collateral THEN f.collateral
    ELSE applyUnsavedChanges(f.collateral, f.previous.collateral, trove.collateral),
    IF netDebt(f.previous) = netDebt(trove) THEN f.netDebt
    ELSE applyUnsavedChanges(f.netDebt, netDebt(f.previous), netDebt(trove)),
    trove)

\* What the card's Confirm button would send, as a change of the stored vault.
feeFrom(original, edited) ==
  mul(whatChanged(original, edited, MINIMUM_BORROWING_RATE).params.borrowTHUSD,
      MINIMUM_BORROWING_RATE)

openingChange(f) ==
  IF f.collateral = 0 /\ f.borrow = 0
  THEN NoChangeYet
  ELSE whatChanged(emptyTrove,
         Trove(f.collateral, f.borrow + THUSD_GAS_COMPENSATION
                               + mul(f.borrow, MINIMUM_BORROWING_RATE)),
         MINIMUM_BORROWING_RATE)

adjustingChange(f, trove) ==
  LET increased == Trove(trove.collateral, trove.debt + (f.netDebt - netDebt(trove)))
      fee   == IF f.netDebt > netDebt(trove) THEN feeFrom(trove, increased) ELSE 0
      dirty == f.collateral # trove.collateral \/ f.netDebt # netDebt(trove)
  IN  IF dirty
      THEN whatChanged(trove, Trove(f.collateral, f.netDebt + THUSD_GAS_COMPENSATION + fee),
                       MINIMUM_BORROWING_RATE)
      ELSE NoChangeYet

offeredChange(v, f) ==
  CASE f.kind = "opening" -> openingChange(f)
    [] f.kind = "adjusting" -> adjustingChange(f, troveOf(v))
    [] f.kind = "manager" -> whatChanged(f.original, f.edited, MINIMUM_BORROWING_RATE)
    [] OTHER -> NoChangeYet

\* LoadingOverlay: its own condition in each card, and each sees only the transaction
\* whose id it knows.
Overlay(f, tx) ==
  CASE f.kind = "opening" -> Waiting(tx) /\ tx.id = "vault-creation"
    [] f.kind = "adjusting" -> Waiting(tx) /\ tx.id = "vault-adjustment"
    [] f.kind = "manager" -> f.changePending
    [] OTHER -> FALSE

\* useValidationState: a deposit needs an allowance.
hasApproved(v, change) ==
  change.params.depositCollateral > 0
    /\ v.allowance # 0 /\ v.allowance >= change.params.depositCollateral

amountToApprove(v, change) ==
  IF hasApproved(v, change) THEN 0 ELSE change.params.depositCollateral

\* validateVaultChange: here, that the vault keeps collateral and the minimum debt.
IsValid(v, change) ==
  CASE change.type = "creation" ->
         change.params.depositCollateral > 0 /\ change.params.borrowTHUSD >= MIN_NET_DEBT
    [] change.type = "adjustment" ->
         LET result == apply(troveOf(v), change, MINIMUM_BORROWING_RATE)
         IN  result.collateral > 0 /\ result.debt >= MIN_NET_DEBT + THUSD_GAS_COMPENSATION
    [] OTHER -> change.type = "closure"

-----------------------------------------------------------------------------
(* ExpensiveVaultChangeWarning: a new change starts a timer and the cleanup *)
(* of the old one cancels its estimate.                                     *)

estimateGas(g, mounted, change) ==
  CASE ~mounted -> [g EXCEPT !.mounted = FALSE, !.awaited = {}]
    [] mounted /\ g.mounted /\ g.change = change -> g
    [] OTHER -> Gas("inProgress", TRUE, change, {change}, NoChangeYet)

\* transactionIdMatcher of VaultManager
ofVault(tx) == tx.id \notin {"none", "claim-coll-surplus"}

\* The form f after an event, with the estimation its change starts; g is what is left
\* of the one before.
ShowForm(f, v, g) ==
  LET change == offeredChange(v, f)
  IN  /\ form' = f
      /\ gas' = IF f.kind \in {"opening", "adjusting"}
                THEN estimateGas(g, IsValid(v, change) /\ hasApproved(v, change), change)
                ELSE NoGas

\* A card is mounted with the vault v and the transaction tx.  Opening also acts on a
\* creation that was confirmed before.
Mount(card, v, tx) ==
  CASE card = "OPENING" /\ tx.type = "confirmed" /\ tx.id = "vault-creation" ->
         view' = "ACTIVE" /\ ShowForm(NoForm, v, NoGas)
    [] card = "OPENING" /\ ~(tx.type = "confirmed" /\ tx.id = "vault-creation") ->
         view' = card /\ ShowForm(OpeningForm(0, 0, TRUE), v, NoGas)
    [] card = "ADJUSTING" /\ v.status = "open" ->
         /\ view' = card
         /\ ShowForm(AdjustingForm(troveOf(v).collateral, netDebt(troveOf(v)), troveOf(v)),
                     v, NoGas)
    [] card = "ADJUSTING" /\ v.status # "open" ->     \* netDebt throws
         view' = "CRASHED" /\ ShowForm(NoForm, v, NoGas)
    [] card = "CLOSING" ->
         /\ view' = card
         /\ ShowForm(ManagerForm(troveOf(v), emptyTrove, Waiting(tx) /\ ofVault(tx)), v, NoGas)
    [] OTHER -> view' = card /\ ShowForm(NoForm, v, NoGas)

\* dispatchEvent, and the card of the next view if it is another one.
Dispatch(event, v, tx) ==
  IF transition(view, event) = view
  THEN UNCHANGED <<view, form, gas>>
  ELSE Mount(transition(view, event), v, tx)

Untyped == [collateral |-> 0, netDebt |-> 0]

PanelInit ==
  /\ vault \in {Vault("nonExistent", emptyTrove, emptyTrove, 0, FALSE),
                Vault("open", Trove(2, 2 + THUSD_GAS_COMPENSATION), emptyTrove, 0, FALSE)}
  /\ stored = vault /\ view = getInitialView(vault.status)
  /\ form = NoForm /\ gas = NoGas /\ onPage = TRUE
  /\ own = NoTx /\ aside = {} /\ busy = FALSE
  /\ panelSends = 0 /\ panelEvents = 0 /\ typed = Untyped
  /\ surprised = FALSE /\ overtaken = FALSE

-----------------------------------------------------------------------------
(* The borrower *)

\* NoVault: the button is disabled for a collateral that is not on the mint list.
noVaultButtons == IF isMintList THEN {"OPEN_VAULT_PRESSED"} ELSE {}

\* LiquidatedVault: "Open Vault" also stands beside a surplus that is still to be
\* claimed, as the conditional's test is the whole conjunction.
liquidatedVaultButtons(v) == IF ~v.surplus /\ ~isMintList THEN {} ELSE {"OPEN_VAULT_PRESSED"}

\* RedeemedVault: only when there is no surplus to claim.
redeemedVaultButtons(v) == IF v.surplus THEN {} ELSE {"OPEN_VAULT_PRESSED"}

Buttons(v) ==
  [NONE |-> noVaultButtons, LIQUIDATED |-> liquidatedVaultButtons(v),
   REDEEMED |-> redeemedVaultButtons(v), OPENING |-> {"CANCEL_ADJUST_VAULT_PRESSED"},
   ADJUSTING |-> {"CANCEL_ADJUST_VAULT_PRESSED"}, CLOSING |-> {"CANCEL_ADJUST_VAULT_PRESSED"},
   ACTIVE |-> {"ADJUST_VAULT_PRESSED", "CLOSE_VAULT_PRESSED"}, CRASHED |-> {}]

\* A change of the vault is in the wallet or on its way.
Outstanding == \E tx \in aside \cup {own} : Waiting(tx) /\ Changes(tx)

Press ==
  /\ onPage /\ ~Overlay(form, own)
  /\ \E event \in Buttons(stored)[view] : Dispatch(event, stored, own)
  /\ typed' = Untyped
  /\ overtaken' = (overtaken \/ Outstanding)
  /\ UNCHANGED <<vault, stored, onPage, txState, panelSends, panelEvents, surprised>>

\* Another page is shown, which unmounts the card: the view is kept, the form is not.
LeavePage ==
  /\ onPage /\ view # "CRASHED"
  /\ onPage' = FALSE /\ ShowForm(NoForm, stored, NoGas) /\ typed' = Untyped
  /\ UNCHANGED <<vault, stored, view, txState, panelSends, panelEvents, surprised, overtaken>>

ReturnToPage ==
  /\ ~onPage /\ onPage' = TRUE
  /\ Mount(view, stored, own) /\ typed' = Untyped
  /\ UNCHANGED <<vault, stored, txState, panelSends, panelEvents, surprised, overtaken>>

\* The first edit of Opening suggests the minimum debt; then isMounted is false.
EditOpening(collateral, borrow) ==
  /\ form.kind = "opening" /\ ~Overlay(form, own)
  /\ <<collateral, borrow>> # <<form.collateral, form.borrow>>
  /\ ShowForm(OpeningForm(collateral,
                IF form.isMounted /\ collateral # 0 /\ borrow = 0 THEN MIN_NET_DEBT ELSE borrow,
                FALSE), stored, gas)
  /\ UNCHANGED <<vault, stored, view, onPage, txState, panelSends, panelEvents, typed, surprised,
                 overtaken>>

EditAdjusting(collateral, debt) ==
  LET trove == troveOf(stored)
  IN  /\ form.kind = "adjusting" /\ ~Overlay(form, own)
      /\ ShowForm(AdjustingForm(collateral, debt, form.previous), stored, gas)
      /\ typed' = [collateral |-> collateral - trove.collateral,
                   netDebt |-> debt - netDebt(trove)]
      /\ UNCHANGED <<vault, stored, view, onPage, txState, panelSends, panelEvents, surprised,
                     overtaken>>

\* The button of the card; what it sends, and under which id.
CanConfirm(id, change) ==
  /\ ~Overlay(form, own)
  /\ CASE form.kind = "opening" -> id = "vault-creation" /\ gas.type # "inProgress"
       [] form.kind = "adjusting" -> id = "vault-adjustment"
       [] form.kind = "manager" -> id = IF change.type = "closure" THEN "vault-closure"
                                        ELSE "vault-adjustment"
       [] OTHER -> FALSE
  /\ change = offeredChange(stored, form) /\ IsValid(stored, change)
  /\ form.kind # "manager" => amountToApprove(stored, change) = 0

\* What is left of a transaction that is no longer shown: in the wallet, on its way
\* without a monitor, or reverted with its reason asked for.
Kept(tx) == IF Waiting(tx) /\ tx.fate \in {"none", "asked"} THEN {tx} ELSE {}

\* VaultManager's effect on the state of a vault transaction that is not confirmed: it
\* depends on the type only, and an idle state has none.
ManagerSees(tx) ==
  form' = IF form.kind = "manager" /\ ofVault(tx) /\ ~(ofVault(own) /\ own.type = tx.type)
          THEN [form EXCEPT !.changePending = Waiting(tx)] ELSE form

\* setTransactionState(tx), when the transactions in others are not shown.  A monitor
\* that is not finished is cleaned up and makes the state idle, after the cards have
\* seen tx for one render.
Write(tx, others) ==
  /\ own' = IF Monitored(own) \/ busy THEN NoTx ELSE tx
  /\ aside' = others \cup Kept(own) \cup (IF Monitored(own) \/ busy THEN Kept(tx) ELSE {})
  /\ busy' = FALSE
  /\ ManagerSees(tx)
  /\ surprised' = (surprised \/ Settling)
  /\ overtaken' = (overtaken \/ Waiting(own) \/ busy)

SendTx(id, change) ==
  /\ panelSends < MaxPanelSends /\ panelSends' = panelSends + 1
  /\ Write(OwnTx(panelSends + 1, "waitingForApproval", id, change, "none"), aside)
  /\ UNCHANGED <<vault, stored, view, gas, onPage, panelEvents, typed>>

Confirm ==
  \E id \in {"vault-creation", "vault-adjustment", "vault-closure"} :
    /\ CanConfirm(id, offeredChange(stored, form))
    /\ SendTx(id, offeredChange(stored, form))

\* The buttons of Transaction components, disabled while a transaction is shown that waits.
ApproveErc20 ==
  /\ form.kind \in {"opening", "adjusting"} /\ ~Waiting(own)
  /\ LET change == offeredChange(stored, form)
     IN  /\ IsValid(stored, change) /\ amountToApprove(stored, change) > 0
         /\ SendTx("vault-approve", change)

ClaimCollateralSurplus ==
  /\ onPage /\ view \in {"LIQUIDATED", "REDEEMED"} /\ stored.surplus
  /\ ~Waiting(own) /\ ~(own.type = "confirmed" /\ own.id = "claim-coll-surplus")
  /\ SendTx("claim-coll-surplus", NoChangeYet)

\* The page is loaded again: what was sent, or is signed later, is followed by nobody.
Reload ==
  /\ Mount(getInitialView(stored.status), stored, NoTx)
  /\ onPage' = TRUE /\ own' = NoTx /\ busy' = FALSE /\ typed' = Untyped
  /\ aside' = {[tx EXCEPT !.type = "waitingForConfirmation"] :
                 tx \in {t \in aside \cup {own} : Waiting(t) /\ t.fate = "none"}}
  /\ surprised' = (stored.status # vault.status)
  /\ overtaken' = (aside' # {})
  /\ UNCHANGED <<vault, stored, panelSends, panelEvents>>

-----------------------------------------------------------------------------
(* The transaction *)

\* useTransactionFunction after the wallet's answer.
WalletAnswers ==
  /\ own.type = "waitingForApproval"
  /\ \E type \in {"waitingForConfirmation", "failed", "cancelled"} : own' = [own EXCEPT !.type = type]
  /\ ManagerSees(own')
  /\ UNCHANGED <<vault, stored, view, gas, onPage, aside, busy, panelSends, panelEvents, typed,
                 surprised, overtaken>>

\* The same for a transaction that another one has replaced in the meantime, and the
\* reason of a revert that comes late.
LateAnswer ==
  /\ \E tx \in aside :
       \/ /\ tx.type = "waitingForApproval"
          /\ \E type \in {"waitingForConfirmation", "failed", "cancelled"} :
               Write([tx EXCEPT !.type = type], aside \ {tx})
       \/ tx.fate = "asked" /\ Write([tx EXCEPT !.type = "failed"], aside \ {tx})
  /\ UNCHANGED <<vault, stored, view, gas, onPage, panelSends, panelEvents, typed>>

\* External: what the contracts do with the change, if anything.
Executed(v, tx) ==
  LET change == tx.change
      trove == troveOf(v)
      spent == change.params.depositCollateral
      result == apply(trove, change, MINIMUM_BORROWING_RATE)
      ok == CASE tx.id = "vault-creation" -> v.status # "open" /\ spent <= v.allowance
              [] tx.id = "vault-closure" -> v.status = "open"
              [] tx.id = "vault-adjustment" ->
                   v.status = "open" /\ spent <= v.allowance /\ IsValid(v, change)
              [] tx.id = "claim-coll-surplus" -> v.surplus
              [] OTHER -> TRUE
  IN  CASE ~ok -> v
        [] ok /\ tx.id = "vault-approve" -> [v EXCEPT !.allowance = spent]
        [] ok /\ tx.id = "claim-coll-surplus" -> [v EXCEPT !.surplus = FALSE]
        [] ok /\ tx.id = "vault-closure" ->
             Vault("closedByOwner", emptyTrove, emptyTrove, v.allowance, v.surplus)
        [] OTHER -> Vault("open", result, emptyTrove, v.allowance - spent, v.surplus)

Mined ==
  /\ own.type = "waitingForConfirmation" /\ own.fate = "none"
  /\ vault' = Executed(vault, own)
  /\ own' = [own EXCEPT !.fate = IF vault' = vault /\ own.id # "vault-approve"
                                 THEN "reverted" ELSE "succeeded"]
  /\ UNCHANGED <<stored, view, form, gas, onPage, aside, busy, panelSends, panelEvents, typed,
                 surprised, overtaken>>

\* A transaction is mined that nobody follows.
MinedUnseen ==
  /\ \E tx \in aside :
       /\ tx.type = "waitingForConfirmation" /\ tx.fate = "none"
       /\ vault' = Executed(vault, tx) /\ aside' = aside \ {tx}
  /\ surprised' = (surprised \/ vault'.status # vault.status)
  /\ UNCHANGED <<stored, view, form, gas, onPage, own, busy, panelSends, panelEvents, typed,
                 overtaken>>

\* Which card reacts to the confirmation of which transaction, and how.
ConfirmationEvent(f, tx) ==
  CASE f.kind = "opening" /\ tx.id = "vault-creation" -> "VAULT_OPENED"
    [] f.kind = "adjusting" /\ tx.id = "vault-adjustment" -> "VAULT_ADJUSTED"
    [] f.kind = "manager" /\ tx.id = "vault-closure" -> "VAULT_CLOSED"
    [] f.kind = "manager" /\ tx.id \notin {"vault-closure", "claim-coll-surplus"} -> "VAULT_ADJUSTED"
    [] tx.id = "claim-coll-surplus" -> "VAULT_SURPLUS_COLLATERAL_CLAIMED"
    [] OTHER -> "none"

\* The card that would turn to a vault that was opened or closed is not there.
Unheard(f, tx) ==
  /\ tx.id \in {"vault-creation", "vault-closure"}
  /\ ConfirmationEvent(f, tx) \notin {"VAULT_OPENED", "VAULT_CLOSED"}

\* waitForConfirmation has the receipt; the reason of a revert is asked for first.
VaultReceipt ==
  /\ Monitored(own) /\ own.fate # "none"
  /\ IF own.fate = "succeeded"
     THEN /\ own' = [own EXCEPT !.type = "confirmed"]
          /\ IF onPage THEN Dispatch(ConfirmationEvent(form, own), stored, own')
             ELSE UNCHANGED <<view, form, gas>>
          /\ surprised' = (surprised \/ Unheard(form, own))
     ELSE own' = [own EXCEPT !.fate = "asked"] /\ UNCHANGED <<view, form, gas, surprised>>
  /\ UNCHANGED <<vault, stored, onPage, aside, busy, panelSends, panelEvents, typed, overtaken>>

RevertExplained ==
  /\ own.type = "waitingForConfirmation" /\ own.fate = "asked"
  /\ own' = [own EXCEPT !.type = "failed"] /\ ManagerSees(own')
  /\ UNCHANGED <<vault, stored, view, gas, onPage, aside, busy, panelSends, panelEvents, typed,
                 surprised, overtaken>>

\* waitForReceipt throws: the transaction was replaced by another one, or its receipt
\* cannot be had and it may still be mined.
NoVaultReceipt ==
  /\ own.type = "waitingForConfirmation" /\ own.fate = "none"
  /\ \/ own' = [own EXCEPT !.type = "cancelled"] /\ UNCHANGED <<aside, overtaken>>
     \/ own' = [own EXCEPT !.type = "failed"] /\ aside' = aside \cup {own} /\ overtaken' = TRUE
  /\ ManagerSees(own')
  /\ UNCHANGED <<vault, stored, view, gas, onPage, busy, panelSends, panelEvents, typed, surprised>>

BackToIdle ==
  /\ own.type \in {"confirmed", "failed", "cancelled"} /\ own' = NoTx
  /\ UNCHANGED <<vault, stored, view, form, gas, onPage, aside, busy, panelSends, panelEvents, typed,
                 surprised, overtaken>>

\* Another card, of this or of another collateral, sends a transaction or has one that is
\* approved or ends; a provider that changes does the same to this panel.  Its own
\* transaction is not shown any more, and the cards make nothing of that.
OtherCard ==
  /\ busy' \in BOOLEAN /\ (busy' => ~busy /\ ~Monitored(own))
  /\ own' = NoTx /\ aside' = aside \cup Kept(own)
  /\ surprised' = (surprised \/ Settling)
  /\ overtaken' = (overtaken \/ Waiting(own))
  /\ UNCHANGED <<vault, stored, view, form, gas, onPage, panelSends, panelEvents, typed>>

-----------------------------------------------------------------------------
(* The store, the estimates and the others *)

StoreUpdates ==
  /\ stored # vault /\ stored' = vault
  /\ CASE form.kind = "adjusting" /\ vault.status # "open" ->   \* netDebt throws
            view' = "CRASHED" /\ ShowForm(NoForm, vault, NoGas)
       [] form.kind = "adjusting" /\ vault.status = "open" ->
            ShowForm(adjustingUpdated(form, troveOf(vault)), vault, gas) /\ UNCHANGED view
       [] form.kind = "manager" ->
            ShowForm(managerUpdated(form, stored.before, vault), vault, gas) /\ UNCHANGED view
       [] OTHER -> ShowForm(form, vault, gas) /\ UNCHANGED view
  /\ UNCHANGED <<vault, onPage, txState, panelSends, panelEvents, typed, surprised, overtaken>>

EstimateArrives ==
  /\ \E change \in gas.awaited :
       gas' = [gas EXCEPT !.type = "complete", !.awaited = @ \ {change}, !.estimated = change]
  /\ UNCHANGED <<vault, stored, view, form, onPage, txState, panelSends, panelEvents, typed,
                 surprised, overtaken>>

\* External: others redistribute to, redeem from, redeem or liquidate the vault.
Others ==
  /\ vault.status = "open"
  /\ panelEvents < MaxPanelEvents /\ panelEvents' = panelEvents + 1
  /\ LET trove == troveOf(vault)
     IN  \/ vault' = [vault EXCEPT !.gain = Trove(1, 1)]
         \/ /\ trove.collateral > 1 /\ netDebt(trove) > MIN_NET_DEBT
            /\ vault' = [vault EXCEPT !.before = Trove(trove.collateral - 1, trove.debt - 1),
                                      !.gain = emptyTrove]
         \/ \E status \in {"closedByLiquidation", "closedByRedemption"} :
              vault' = Vault(status, emptyTrove, emptyTrove, vault.allowance, TRUE)
  /\ surprised' = (surprised \/ vault'.status # "open")
  /\ UNCHANGED <<stored, view, form, gas, onPage, txState, panelSends, typed, overtaken>>

PanelSteps ==
  \/ WalletAnswers \/ LateAnswer \/ Mined \/ MinedUnseen
  \/ VaultReceipt \/ RevertExplained \/ NoVaultReceipt \/ BackToIdle
  \/ StoreUpdates \/ EstimateArrives

VaultNext ==
  \/ Press \/ LeavePage \/ ReturnToPage
  \/ Confirm \/ ApproveErc20 \/ ClaimCollateralSurplus \/ Reload
  \/ form.kind = "opening" /\ \E x \in PanelAmounts : EditOpening(x, form.borrow)
  \/ form.kind = "opening" /\ \E x \in PanelDebts : EditOpening(form.collateral, x)
  \/ form.kind = "adjusting" /\ \E x \in PanelAmounts : EditAdjusting(x, form.netDebt)
  \/ form.kind = "adjusting" /\ \E x \in PanelDebts : EditAdjusting(form.collateral, x)
  \/ PanelSteps \/ OtherCard \/ Others

VaultSpec == PanelInit /\ [][VaultNext]_panelVars

-----------------------------------------------------------------------------

\* When nothing of the borrower's is under way the view agrees with the vault: an open
\* vault is shown as one, and only an open vault.  Views are only told by the cards, so
\* there are two exceptions: others close the vault, or the vault is opened or closed
\* and the card that waits for the confirmation is not there to hear it, because the
\* page was left, the card was cancelled, or another use of the shared state ended the
\* monitoring.
ViewAgrees ==
  ~surprised /\ ~Waiting(own) /\ aside = {} /\ view # "CRASHED" =>
    ((view \in {"ACTIVE", "ADJUSTING", "CLOSING"}) <=> vault.status = "open")

\* No card offers to send a change while another change of the vault is under way,
\* although every card has its own notion of that, however often the page is left and
\* entered again.  (Not so once another card, or the approval before it, has used the
\* shared state at the same time: that makes the state idle and takes the overlay off.)
OneChangeAtATime ==
  Outstanding /\ ~overtaken =>
    \A id \in {"vault-creation", "vault-adjustment", "vault-closure"} :
      ~CanConfirm(id, offeredChange(stored, form))

\* Whatever happens to the vault while it is being adjusted, the form asks for the
\* differences the borrower typed; one that is no longer possible is dropped.
TypedDifferencesAreKept ==
  form.kind = "adjusting" =>
    /\ form.collateral - troveOf(stored).collateral \in {typed.collateral, 0}
    /\ form.netDebt - netDebt(troveOf(stored)) \in {typed.netDebt, 0}

\* The warning about the costs of a change is about the change on the card, however the
\* estimates overtake each other.
EstimateIsCurrent ==
  gas.mounted /\ gas.type = "complete" => gas.estimated = offeredChange(stored, form)

\* An overlay blocks a card only while there is a transaction to wait for, which
\* Transactions shows to end: no failure, denial, revert or confirmation leaves it
\* behind.  (Another use of the shared state does leave VaultManager's, whose
\* changePending an idle state does not clear.)
OverlayMeansWaiting == Overlay(form, own) /\ ~overtaken => Waiting(own)

\* The panel is right about the vault, the borrower's form and the transaction, in
\* whatever order the store, the wallet and other people change them.
VaultPanelAgrees ==
  /\ ViewAgrees
  /\ OneChangeAtATime
  /\ OverlayMeansWaiting
  /\ TypedDifferencesAreKept
  /\ EstimateIsCurrent

=============================================================================
