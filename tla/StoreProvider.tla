---------------------------- MODULE StoreProvider ----------------------------
(***************************************************************************)
(* The frontend's ThresholdProvider and lib-react's ThresholdStoreProvider. *)
(* A change of account or network makes the first one look the deployments *)
(* up again and build a new generation of connections, one store per       *)
(* collateral; the second starts the stores it is given, collects the ones *)
(* that report to be loaded, and shows the application when it has         *)
(* collected as many as it was given.                                      *)
(***************************************************************************)
EXTENDS Integers, Sequences, FiniteSets

CONSTANTS
  WalletUsers,     \* accounts of the wallet
  NoUser,          \* no wallet is connected
  Collaterals,     \* one store for each
  MaxSwitches      \* bound: changes of account or network

ASSUME ProviderAssumption == IsFiniteSet(Collaterals)

VARIABLES
  account, supported,   \* the wallet's account; whether its network is supported
  lookups,              \* calls of getCollateralVersions that are not resolved
  generations,          \* for each set of connections ever made, its account
  connections,          \* the current set, 0 when undefined
  mounted,              \* the set whose stores ThresholdStoreProvider started
  loadedStore,          \* its state: the stores that called onLoaded
  stores,               \* every store that exists
  switches

providerVars == <<account, supported, lookups, generations, connections, mounted, loadedStore,
               stores, switches>>

NewStore == [loaded |-> FALSE, onLoaded |-> FALSE, fetching |-> FALSE, polling |-> FALSE]
StoresOf(g) == {<<g, c>> : c \in Collaterals}

\* What ThresholdProvider renders: the application with the stores of its
\* connections, or one of the fallbacks.
Rendered(user, net, conns) == IF user # NoUser /\ net THEN conns ELSE 0

\* The effect of ThresholdStoreProvider: it assigns onLoaded and starts each store.
StartAll(all, g) ==
  [s \in DOMAIN all |->
     IF s[1] = g THEN [all[s] EXCEPT !.onLoaded = TRUE, !.fetching = TRUE, !.polling = TRUE]
     ELSE all[s]]

\* Its cleanup takes onLoaded away, then calls start once more and stops what that
\* started: one more fetch, and the polling of the first start goes on.
Cleanup(all, g) ==
  [s \in DOMAIN all |->
     IF s[1] = g THEN [all[s] EXCEPT !.onLoaded = FALSE, !.fetching = TRUE] ELSE all[s]]

\* A render with other stores than before, or none: cleanup, then the new effect.
Render(g, all) ==
  /\ mounted' = g
  /\ IF g = mounted
     THEN UNCHANGED loadedStore /\ stores' = all
     ELSE loadedStore' = <<>> /\ stores' = StartAll(Cleanup(all, mounted), g)

ProviderInit ==
  /\ account = NoUser /\ supported = TRUE
  /\ lookups = <<>> /\ generations = <<>> /\ connections = 0
  /\ mounted = 0 /\ loadedStore = <<>>
  /\ stores = [s \in {} |-> NewStore]
  /\ switches = 0

\* Faulty variant: no lookup is made while one is under way.
Lookup_IfNonePending(user, net) ==
  lookups' = IF user # NoUser /\ net /\ lookups = <<>> THEN Append(lookups, user) ELSE lookups

\* The effect on [chainId, provider, account, config]: a lookup for the account.
Lookup(user, net) ==
  lookups' = IF user # NoUser /\ net THEN Append(lookups, user) ELSE lookups

\* The wallet connects, disconnects or changes its account.
SwitchAccount(user) ==
  /\ switches < MaxSwitches /\ user # account
  /\ switches' = switches + 1
  /\ account' = user
  /\ Lookup(user, supported)
  /\ Render(Rendered(user, supported, connections), stores)
  /\ UNCHANGED <<supported, generations, connections>>

\* The wallet changes to a network that is not supported, which drops the
\* connections, or back.
SwitchNetwork ==
  /\ switches < MaxSwitches
  /\ switches' = switches + 1
  /\ supported' = ~supported
  /\ connections' = 0
  /\ Lookup(account, ~supported)
  /\ Render(0, stores)
  /\ UNCHANGED <<account, generations>>

\* A lookup is resolved: connections and stores for the account it was made for,
\* dropped at once when the network is not supported any more.
ConnectionsMade ==
  /\ lookups # <<>>
  /\ lookups' = Tail(lookups)
  /\ IF supported
     THEN LET g == Len(generations) + 1
              all == [s \in DOMAIN stores \cup StoresOf(g) |->
                        IF s \in DOMAIN stores THEN stores[s] ELSE NewStore]
          IN /\ generations' = Append(generations, Head(lookups))
             /\ connections' = g
             /\ Render(Rendered(account, supported, g), all)
     ELSE UNCHANGED <<generations, connections, mounted, loadedStore, stores>>
  /\ UNCHANGED <<account, supported, switches>>

\* A store's fetch is answered; the first answer loads it and calls onLoaded.
StoreAnswer(s) ==
  /\ stores[s].fetching
  /\ stores' = [stores EXCEPT ![s].fetching = FALSE, ![s].loaded = TRUE]
  /\ loadedStore' = IF ~stores[s].loaded /\ stores[s].onLoaded THEN Append(loadedStore, s)
                    ELSE loadedStore
  /\ UNCHANGED <<account, supported, lookups, generations, connections, mounted, switches>>

StoreAnswers == \E s \in DOMAIN stores : StoreAnswer(s)

ProviderNext ==
  \/ \E user \in WalletUsers \cup {NoUser} : SwitchAccount(user)
  \/ SwitchNetwork
  \/ ConnectionsMade
  \/ StoreAnswers

ProviderSpec == ProviderInit /\ [][ProviderNext]_providerVars

\* The application is shown once loadedStore.length is that of the stores given.
Shown == mounted # 0 /\ Len(loadedStore) = Cardinality(StoresOf(mounted))

-----------------------------------------------------------------------------
(* Properties *)

\* Counting is enough: when the application is shown, the collected stores are the
\* stores of the present connections, each of them loaded, whatever stores of
\* earlier accounts load in between (ThresholdStoreProvider compares lengths only).
ShownStoresAreLoaded ==
  Shown => /\ {loadedStore[i] : i \in DOMAIN loadedStore} = StoresOf(mounted)
           /\ \A s \in StoresOf(mounted) : stores[s].loaded

\* When the wallet has settled on an account and a supported network, the application
\* ends up shown, with the stores of that account: neither a lookup for an earlier
\* account nor stores that were loaded before leave it on the loader for ever.
PanelSettles ==
  <>[](account # NoUser /\ supported => Shown /\ generations[mounted] = account)

\* ThresholdStoreProvider.tsx:65: "Return a cleanup function that stops the threshold
\* stores and resets the loaded store state".
CleanupStopsPolling ==
  \A s \in DOMAIN stores : stores[s].polling => s \in StoresOf(mounted)

\* The application is shown when and only when the stores of the present account are
\* loaded, through every change of account and network.
ApplicationSettles == []ShownStoresAreLoaded /\ PanelSettles

-----------------------------------------------------------------------------
(***************************************************************************)
(* The gates before the application: the configuration file, the silent    *)
(* connection to a wallet that has authorized the page before, the Connect *)
(* button with the reducer of its state, and the fallbacks for a network   *)
(* that is not supported.  External: web3-react's manager and the wallet.  *)
(* The manager drops the outcome of an activation when its own state has   *)
(* changed since the activation began.                                     *)
(***************************************************************************)

CONSTANTS
  MaxActivations,     \* bound: presses of Connect
  MaxWalletEvents     \* bound: disconnections, errors and changes of network

VARIABLES
  configPromise,      \* "none", "pending", "parsed" or "default"
  active,             \* external: the manager has an account and no error
  managerRenders,     \* external: how often that state has changed
  activations,        \* external: activations under way, each with managerRenders at its start
  network,            \* external: the wallet's network
  tried,              \* useAuthorizedConnection's result
  silent,             \* its attempt: "asking", "activating" or "over"
  connectionType,     \* connectionState.type
  pressed, walletEvents

gateVars == <<configPromise, active, managerRenders, activations, network, tried, silent,
              connectionType, pressed, walletEvents>>

Errors == {"user rejected", "already pending", "other"}

\* A failure is given by its error's kind; "retry" and "cancel" are never dispatched.
connectionReducer(state, action) ==
  CASE action = "startActivating"  -> "activating"
    [] action = "finishActivating" -> "active"
    [] action = "user rejected"    -> IF state = "inactive" THEN state ELSE "rejectedByUser"
    [] action = "already pending"  -> IF state = "inactive" THEN state ELSE "alreadyPending"
    [] action = "other"            -> IF state = "inactive" THEN state ELSE "failed"
    [] action = "deactivate"       -> "inactive"

\* The effects of WalletConnector on [error] and [active], in this order: an error is
\* dispatched and the manager deactivated; a change of active is dispatched.
afterError(state, error) == IF error = "none" THEN state ELSE connectionReducer(state, error)
afterActive(state, was, is) ==
  IF was = is THEN state
  ELSE connectionReducer(state, IF is THEN "finishActivating" ELSE "deactivate")

\* The manager's state becomes [act, error]; the effects run, and useAuthorizedConnection
\* sees active.  deactivate() changes the manager's state once more.
ManagerBecomes(act, error) ==
  /\ active' = act
  /\ managerRenders' = managerRenders + (IF error = "none" THEN 1 ELSE 2)
  /\ connectionType' = afterActive(afterError(connectionType, error), active, act)
  /\ tried' = (tried \/ act)

GateInit ==
  /\ configPromise = "none"
  /\ active = FALSE /\ managerRenders = 0 /\ activations = {}
  /\ network \in {"mainnet", "sepolia", "other"}
  /\ tried = FALSE /\ silent = "asking" /\ connectionType = "inactive"
  /\ pressed = 0 /\ walletEvents = 0

\* App and ThresholdProvider both call getConfig; the file is fetched once.
getConfig ==
  /\ configPromise = "none"
  /\ configPromise' = "pending"
  /\ UNCHANGED <<active, managerRenders, activations, network, tried, silent, connectionType,
                 pressed, walletEvents>>

\* Faulty variant: a file that cannot be fetched is not replaced by the defaults.
fetchConfig_NotCaught ==
  /\ configPromise = "pending"
  /\ configPromise' \in {"parsed", "rejected"}
  /\ UNCHANGED <<active, managerRenders, activations, network, tried, silent, connectionType,
                 pressed, walletEvents>>

\* The file is parsed, malformed entries left out, or the defaults are taken.
fetchConfig ==
  /\ configPromise = "pending"
  /\ configPromise' \in {"parsed", "default"}
  /\ UNCHANGED <<active, managerRenders, activations, network, tried, silent, connectionType,
                 pressed, walletEvents>>

\* tryToActivateIfAuthorized: the wallet says whether the page is authorized.  (App asks
\* for the configuration before anything is rendered.)
SilentAsked(authorized) ==
  /\ silent = "asking" /\ configPromise # "none"
  /\ silent' = IF authorized THEN "activating" ELSE "over"
  /\ tried' = (tried \/ ~authorized)
  /\ UNCHANGED <<configPromise, active, managerRenders, activations, network, connectionType, pressed,
                 walletEvents>>

\* Its activation succeeds, or throws (throwErrors) and is caught.
SilentActivated(ok) ==
  /\ silent = "activating"
  /\ silent' = "over"
  /\ IF ok
     THEN ManagerBecomes(TRUE, "none")
     ELSE tried' = TRUE /\ UNCHANGED <<active, managerRenders, connectionType>>
  /\ UNCHANGED <<configPromise, activations, network, pressed, walletEvents>>

\* What is rendered.
Screen ==
  CASE ~tried -> "loader"
    [] tried /\ connectionType # "active" -> "connect"
    [] tried /\ connectionType = "active" /\ configPromise \notin {"parsed", "default"} -> "loader"
    [] OTHER -> CASE network = "mainnet" -> "unsupportedMainnet"
                  [] network = "other" -> "unsupportedNetwork"
                  [] network = "sepolia" -> "application"

\* The Connect button has a spinner in two states.
Spinner == connectionType \in {"activating", "alreadyPending"}

\* The Connect button, which may be pressed again while an activation is under way.
PressConnect ==
  /\ Screen = "connect" /\ pressed < MaxActivations
  /\ pressed' = pressed + 1
  /\ connectionType' = connectionReducer(connectionType, "startActivating")
  /\ activations' = activations \cup {[n |-> pressed + 1, since |-> managerRenders]}
  /\ UNCHANGED <<configPromise, active, managerRenders, network, tried, silent, walletEvents>>

\* External: an activation ends, with an account or with an error; a stale one says nothing.
ActivationEnds(a, error) ==
  /\ activations' = activations \ {a}
  /\ IF a.since = managerRenders
     THEN ManagerBecomes(error = "none", error)
     ELSE UNCHANGED <<active, managerRenders, connectionType, tried>>
  /\ UNCHANGED <<configPromise, network, silent, pressed, walletEvents>>

\* External: the wallet locks or disconnects, or reports an error such as a network the
\* connector does not support, which makes the manager inactive.
WalletEvent(error) ==
  /\ active /\ walletEvents < MaxWalletEvents
  /\ walletEvents' = walletEvents + 1
  /\ ManagerBecomes(FALSE, error)
  /\ UNCHANGED <<configPromise, activations, network, silent, pressed>>

\* The wallet changes its network by itself, or by connectToSepolia on a fallback.
NetworkChanges(net) ==
  /\ active /\ walletEvents < MaxWalletEvents /\ net # network
  /\ walletEvents' = walletEvents + 1
  /\ network' = net
  /\ managerRenders' = managerRenders + 1
  /\ UNCHANGED <<configPromise, active, activations, tried, silent, connectionType, pressed>>

\* connectToSepolia: the user may refuse either request; errors are logged.
connectToSepolia ==
  /\ Screen \in {"unsupportedMainnet", "unsupportedNetwork"}
  /\ NetworkChanges("sepolia")

GateSteps ==
  \/ getConfig \/ fetchConfig
  \/ \E ok \in BOOLEAN : SilentAsked(ok) \/ SilentActivated(ok)

GateNext ==
  \/ GateSteps
  \/ PressConnect
  \/ \E a \in activations, error \in Errors \cup {"none"} : ActivationEnds(a, error)
  \/ \E error \in Errors \cup {"none"} : WalletEvent(error)
  \/ \E net \in {"mainnet", "sepolia", "other"} : NetworkChanges(net)
  \/ connectToSepolia

GateSpec == GateInit /\ [][GateNext]_gateVars

-----------------------------------------------------------------------------
(* Properties *)

\* An activation is under way whose outcome the manager will take over.
Counting == \E a \in activations : a.since = managerRenders

\* The reducer never disagrees with the manager: it says "active" exactly when the
\* manager is, whether the connection was silent or asked for.  An activation whose
\* outcome will count always has the spinner; and the spinner always has such an
\* activation, however often Connect is pressed and whatever outcomes the manager drops,
\* unless it is there because the wallet answered "already pending": then no activation
\* of the page counts any more (WalletConnector.tsx).
GateAgrees ==
  /\ (connectionType = "active") = active
  /\ Counting => Spinner
  /\ Spinner => (Counting <=> connectionType # "alreadyPending")

\* The loader goes away: the silent attempt ends in a connection or in the Connect
\* button, and a configuration that cannot be read is replaced by the defaults.
LoaderEnds == <>[](configPromise # "none" => Screen # "loader")

\* The gate agrees with the wallet, and the loader before it ends.
GateOpens == []GateAgrees /\ LoaderEnds

=============================================================================
