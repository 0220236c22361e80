---------------------------- MODULE Transactions ----------------------------
(***************************************************************************)
(* One transaction state is shared by the whole frontend (Transaction.tsx). *)
(* Buttons and forms write it when they send; TransactionMonitor, an effect *)
(* on the state itself, waits for the receipt through lib-ethers and writes *)
(* the result back.  React runs cleanups and effects of a render before the *)
(* next state change, so one step here is a change with all its effects.   *)
(***************************************************************************)
EXTENDS Integers, FiniteSets

CONSTANTS
  ButtonIds,     \* ids of Transaction components
  FormIds,       \* ids of forms whose button a LoadingOverlay covers
  Keys,          \* a version and a collateral
  NoKey,         \* the empty version and collateral of the first state
  MaxSends,      \* bound: transactions sent
  MaxReconnects  \* bound: changes of provider

ASSUME TxAssumption == NoKey \notin Keys

VARIABLES
  shown,         \* the shared TransactionState
  wallet,        \* sends the user has neither approved nor denied
  fates,         \* external: how each transaction that was sent will end
  monitor,       \* the run of waitForConfirmation that awaits a receipt
  reasons,       \* finished runs that await the reason of a revert
  reconnects,    \* changes of provider
  disturbed      \* history: a button, a form or a provider used the shared state while
                 \* a transaction that it does not look at was pending

txVars == <<shown, wallet, fates, monitor, reasons, reconnects, disturbed>>

\* A send, and a TransactionState.  confirmedOneShot lasts for one render only: the
\* monitor's second effect makes it confirmed before anything else happens.
Send(n, id, key) == [n |-> n, id |-> id, key |-> key]
State(type, send) == [type |-> type, send |-> send]
NoSend(key) == Send(0, "none", key)
Idle(key) == State("idle", NoSend(key))
Nothing == NoSend(NoKey)

\* External: how ethers' wait() ends, by a receipt or an error.
Fates == {"mined", "reverted", "repriced", "replaced", "lost"}

\* waitForReceipt: the receipt of a failed or repriced transaction is taken from the
\* error; a cancelled or replaced transaction and every other error are thrown.
WaitForReceipt(fate) ==
  CASE fate \in {"mined", "repriced"} -> "succeeded"
    [] fate = "reverted" -> "reverted"
    [] fate = "replaced" -> "cancelled"
    [] fate = "lost" -> "failed"

IsPending(s) == s.type \in {"waitingForApproval", "waitingForConfirmation"}
IsMonitored(s) == s.type = "waitingForConfirmation"

checkTransactionCollateral(s, key) == s.send.key = key

\* useMyTransactionState: what a form sees of the shared state.
MyTransactionState(id, key) ==
  IF checkTransactionCollateral(shown, key) /\ shown.send.id = id THEN shown
  ELSE Idle(shown.send.key)

TxInit ==
  /\ shown = Idle(NoKey) /\ wallet = {} /\ fates = [n \in {} |-> "mined"]
  /\ monitor = Nothing /\ reasons = {} /\ reconnects = 0 /\ disturbed = FALSE

\* setTransactionState(s), when m is what is left of the monitor: the effect on the
\* transaction starts a new monitor.  Before that its cleanup cancels a monitor that
\* is not finished and makes the state idle, whatever was written: the monitor that
\* was just started is then cleaned up as well.
SetState(s, m) ==
  IF m = Nothing
  THEN /\ shown' = s
       /\ monitor' = IF IsMonitored(s) THEN s.send ELSE Nothing
  ELSE /\ shown' = Idle(IF IsMonitored(s) THEN s.send.key ELSE m.key)
       /\ monitor' = Nothing

\* sendTransaction: the state is written and the wallet asked; looksAt: the one that
\* sends looks at the transaction that is shown.
SendTransaction(id, key, looksAt) ==
  LET send == Send(Cardinality(wallet) + Cardinality(DOMAIN fates) + 1, id, key)
  IN /\ send.n <= MaxSends
     /\ wallet' = wallet \cup {send}
     /\ SetState(State("waitingForApproval", send), monitor)
     /\ disturbed' = (disturbed \/ (IsPending(shown) /\ ~looksAt))
     /\ UNCHANGED <<fates, reasons, reconnects>>

\* The button of a Transaction component is disabled while a transaction of the same
\* version and collateral is pending.
PressButton(id, key) ==
  /\ ~(checkTransactionCollateral(shown, key) /\ IsPending(shown))
  /\ SendTransaction(id, key, checkTransactionCollateral(shown, key))

\* A form's button is only covered while the form's own transaction is pending.
PressForm(id, key) ==
  /\ ~IsPending(MyTransactionState(id, key))
  /\ SendTransaction(id, key, checkTransactionCollateral(shown, key) /\ shown.send.id = id)

\* The wallet answers: the transaction was sent, the user denied it, or it failed.
Approve(send, fate) ==
  /\ wallet' = wallet \ {send}
  /\ fates' = [n \in DOMAIN fates \cup {send.n} |-> IF n = send.n THEN fate ELSE fates[n]]
  /\ SetState(State("waitingForConfirmation", send), monitor)
  /\ UNCHANGED <<reasons, reconnects, disturbed>>

Deny(send, type) ==
  /\ wallet' = wallet \ {send}
  /\ fates' = [n \in DOMAIN fates \cup {send.n} |-> IF n = send.n THEN "lost" ELSE fates[n]]
  /\ SetState(State(type, send), monitor)
  /\ UNCHANGED <<reasons, reconnects, disturbed>>

\* waitForConfirmation: the monitor is finished, and cleanup will leave it alone; the
\* reason of a revert is asked for first.
Receipt ==
  /\ monitor # Nothing
  /\ LET result == WaitForReceipt(fates[monitor.n])
     IN CASE result = "succeeded" ->
               SetState(State("confirmed", monitor), Nothing) /\ UNCHANGED reasons
          [] result = "reverted" ->
               /\ monitor' = Nothing
               /\ reasons' = reasons \cup {<<reconnects, monitor>>}
               /\ UNCHANGED shown
          [] OTHER -> SetState(State(result, monitor), Nothing) /\ UNCHANGED reasons
  /\ UNCHANGED <<wallet, fates, reconnects, disturbed>>

\* tryToGetRevertReason is answered, with a reason or without.
RevertReason(r) ==
  /\ reasons' = reasons \ {r}
  /\ SetState(State("failed", r[2]), monitor)
  /\ UNCHANGED <<wallet, fates, reconnects, disturbed>>

\* Faulty variant: two of the three results.
Timeout_NotCancelled ==
  /\ shown.type \in {"confirmed", "failed"}
  /\ SetState(Idle(shown.send.key), monitor)
  /\ UNCHANGED <<wallet, fates, reasons, reconnects, disturbed>>

\* The second effect: five seconds after the result the state is idle.
Timeout ==
  /\ shown.type \in {"confirmed", "failed", "cancelled"}
  /\ SetState(Idle(shown.send.key), monitor)
  /\ UNCHANGED <<wallet, fates, reasons, reconnects, disturbed>>

\* The provider changes and the first effect runs again: cleanup as in SetState, and
\* a transaction whose monitor is finished is monitored once more.
ProviderChanges ==
  /\ reconnects < MaxReconnects
  /\ reconnects' = reconnects + 1
  /\ SetState(shown, monitor)
  /\ disturbed' = (disturbed \/ IsPending(shown))
  /\ UNCHANGED <<wallet, fates, reasons>>

TxSteps ==
  \/ Receipt
  \/ \E r \in reasons : RevertReason(r)
  \/ Timeout

TxNext ==
  \/ \E id \in ButtonIds, key \in Keys : PressButton(id, key)
  \/ \E id \in FormIds, key \in Keys : PressForm(id, key)
  \/ \E send \in wallet, fate \in Fates : Approve(send, fate)
  \/ \E send \in wallet, type \in {"cancelled", "failed"} : Deny(send, type)
  \/ ProviderChanges
  \/ TxSteps

TxSpec == TxInit /\ [][TxNext]_txVars

-----------------------------------------------------------------------------
(* Properties *)

\* A form acts on "confirmed" (the vault view moves on): it is only ever shown for a
\* transaction that was mined and succeeded, with that transaction's own id, version
\* and collateral, also when an older monitor reports late.
ConfirmedMeansSucceeded ==
  shown.type = "confirmed" => WaitForReceipt(fates[shown.send.n]) = "succeeded"

\* Whoever is told to wait for confirmation is waiting for something: the transaction
\* is monitored or the reason of its revert was asked for.
WaitingIsMonitored ==
  IsMonitored(shown) => monitor = shown.send \/ \E r \in reasons : r[2] = shown.send

\* The disabled buttons and the overlays are enough for those who look at the transaction
\* that is shown: whatever the Transaction components of one version and collateral and
\* a form that waits for its own transaction do, and however late the answers come, at
\* most one transaction is in the wallet or unanswered.  (Not so once a form, another
\* collateral or a new provider, which do not look at it, use the state while it is
\* pending: the cleanup makes the state idle and enables the buttons.)
ButtonsWait ==
  ~disturbed => /\ Cardinality(wallet) + Cardinality({monitor} \ {Nothing})
                     + Cardinality(reasons) <= 1
                /\ wallet # {} => shown.type = "waitingForApproval"

\* The shared state always comes back to idle once the wallet has nothing left to ask, in
\* any order of approvals, receipts, late reasons and reconnects, so no button and no
\* overlay that follows the state itself is blocked for ever.  (The overlays that follow
\* a card's changePending are the matter of VaultPanel and StabilityPanel.)
EndsIdle == <>[](wallet = {} => shown.type = "idle")

\* A transaction is followed to its end: the state says confirmed only of one that
\* succeeded, waits only for what is monitored, admits one at a time from those who look
\* at it, and comes back to idle.
TransactionsAreFollowed ==
  /\ []ConfirmedMeansSucceeded
  /\ []WaitingIsMonitored
  /\ []ButtonsWait
  /\ EndsIdle

=============================================================================
