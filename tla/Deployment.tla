----------------------------- MODULE Deployment -----------------------------
(***************************************************************************)
(* The deploy task of lib-ethers.  One run of the script deploys the       *)
(* contracts of a collateral one after the other, sends the transactions   *)
(* that connect them all at once with nonces it counts itself, and records *)
(* the addresses in files that the client reads.  A run may be killed or   *)
(* fail anywhere, and is then simply started again; what it had sent stays *)
(* with the node.                                                          *)
(***************************************************************************)
EXTENDS Integers, FiniteSets

CONSTANTS
  NumDeployed,      \* contracts a run deploys, 13 and two that may exist already
  NumConnections,   \* transactions that connect them, 10
  DeployedAssets,   \* collaterals
  MaxRuns,          \* bound: runs of the script
  MaxFailedTxs      \* bound: transactions that fail

ASSUME DeploymentAssumption ==
  /\ NumDeployed \in Nat /\ NumConnections \in 1..NumDeployed
  /\ MaxRuns \in Nat /\ MaxFailedTxs \in Nat

VARIABLES
  node,      \* external: transactions mined from the deployer's account and those pooled
  minedTxs,  \* external: <<run, contract, "deployed" or "connected" or "failed">>
  script,    \* the run under way
  disk       \* the files of the deployments directory

deployVars == <<node, minedTxs, script, disk>>

DeployTx(run, i, effect) == [run |-> run, contract |-> i, effect |-> effect]
NoDeployment == 0
Torn == -1         \* a file that is opened with w+ and not written yet

DeployInit ==
  /\ node = [latest |-> 0, pool |-> {}]
  /\ minedTxs = {}
  /\ script = [phase |-> "ended", run |-> 0]
  /\ disk = [folders |-> {}, index |-> {},
             files |-> [c \in DeployedAssets |-> NoDeployment]]

Has(effect, i) == <<script.run, i, effect>> \in minedTxs
Taken(nonce) == \E p \in node.pool : p[1] = nonce

\* getTransactionCount with "pending", which the signer uses by itself, and with the
\* default "latest", which connectContracts uses.
PendingCount ==
  CHOOSE n \in node.latest .. node.latest + Cardinality(node.pool) :
    /\ ~Taken(n)
    /\ \A k \in node.latest .. n - 1 : Taken(k)

Pooled(nonce, tx) == node' = [node EXCEPT !.pool = @ \cup {<<nonce, tx>>}]

Goes(phase) == script' = [script EXCEPT !.phase = phase]

-----------------------------------------------------------------------------
(* The task *)

StartTask(c, real) ==
  /\ script.phase = "ended" /\ script.run < MaxRuns
  /\ script' = [phase |-> "deploying", run |-> script.run + 1, collateral |-> c, real |-> real,
                at |-> 1, waits |-> FALSE, first |-> 0, sent |-> {}]
  /\ UNCHANGED <<node, minedTxs, disk>>

\* deployContractAndGetBlockNumber: deploy, and wait for the receipt.
DeployContract ==
  /\ script.phase = "deploying" /\ ~script.waits
  /\ Pooled(PendingCount, DeployTx(script.run, script.at, "deployed"))
  /\ script' = [script EXCEPT !.waits = TRUE]
  /\ UNCHANGED <<minedTxs, disk>>

Deployed ==
  script' = IF script.at < NumDeployed
            THEN [script EXCEPT !.at = @ + 1, !.waits = FALSE]
            ELSE [script EXCEPT !.phase = "counting"]

ContractDeployed ==
  /\ script.phase = "deploying" /\ script.waits
  /\ \/ Has("failed", script.at) /\ Goes("ended")
     \/ Has("deployed", script.at) /\ Deployed
  /\ UNCHANGED <<node, minedTxs, disk>>

\* connectContracts: the nonces are counted once.
CountNonces ==
  /\ script.phase = "counting"
  /\ script' = [script EXCEPT !.phase = "connecting", !.first = node.latest]
  /\ UNCHANGED <<node, minedTxs, disk>>

NonceOf(i) == script.first + i - 1
Refused(i) == NonceOf(i) < node.latest \/ Taken(NonceOf(i))

\* Promise.all over the connections: they reach the node in any order.  The node
\* refuses a nonce that is used, and the task ends with the first refusal.
SendConnection(i) ==
  /\ script.phase = "connecting" /\ i \notin script.sent
  /\ \/ /\ ~Refused(i)
        /\ Pooled(NonceOf(i), DeployTx(script.run, i, "connected"))
        /\ script' = [script EXCEPT !.sent = @ \cup {i}]
     \/ Refused(i) /\ Goes("ended") /\ UNCHANGED node
  /\ UNCHANGED <<minedTxs, disk>>

\* Faulty variant: a failed transaction is not noticed.
AllConnected_NoFailure ==
  /\ script.phase = "connecting"
  /\ \A i \in 1..NumConnections : Has("connected", i)
  /\ Goes(IF script.real THEN "hooking" ELSE "recording")
  /\ UNCHANGED <<node, minedTxs, disk>>

\* The second Promise.all: every receipt, or the first failure.
AllConnected ==
  /\ script.phase = "connecting" /\ script.sent = 1..NumConnections
  /\ \/ (\E i \in 1..NumConnections : Has("failed", i)) /\ Goes("ended")
     \/ /\ \A i \in 1..NumConnections : Has("connected", i)
        /\ Goes(IF script.real THEN "hooking" ELSE "recording")
  /\ UNCHANGED <<node, minedTxs, disk>>

\* useRealPriceFeed: deployTellorCaller, whose receipt is awaited as well.
TellorCaller == NumDeployed + 1

HookUpPriceFeed ==
  /\ script.phase = "hooking"
  /\ Pooled(PendingCount, DeployTx(script.run, TellorCaller, "deployed"))
  /\ Goes("calling")
  /\ UNCHANGED <<minedTxs, disk>>

\* setAddresses gets the overrides where it takes a third address, which ethers rejects:
\* such a run ends whether the TellorCaller was deployed or not.
TellorCallerDeployed ==
  /\ script.phase = "calling"
  /\ Has("deployed", TellorCaller) \/ Has("failed", TellorCaller)
  /\ Goes("ended")
  /\ UNCHANGED <<node, minedTxs, disk>>

\* The folder and the file of the deployment; then, from the folders that exist, the
\* list of collaterals.  An error while writing is only logged.
WriteDeployment ==
  /\ \/ /\ script.phase = "recording"
        /\ disk' = [disk EXCEPT !.folders = @ \cup {script.collateral}]
        /\ Goes("opening")
     \/ /\ script.phase = "opening"
        /\ disk' = [disk EXCEPT !.files[script.collateral] = Torn]
        /\ Goes("writing")
     \/ /\ script.phase = "writing"
        /\ disk' = [disk EXCEPT !.files[script.collateral] = script.run]
        /\ Goes("indexing")
     \/ /\ script.phase = "indexing"
        /\ disk' = [disk EXCEPT !.index = disk.folders]
        /\ Goes("ended")
  /\ UNCHANGED <<node, minedTxs>>

\* The task is killed, or the node does not answer one of its requests.
Killed ==
  /\ script.phase # "ended"
  /\ Goes("ended")
  /\ UNCHANGED <<node, minedTxs, disk>>

-----------------------------------------------------------------------------
(* The node mines the transactions of the account in the order of their    *)
(* nonces.                                                                 *)

Failures == Cardinality({m \in minedTxs : m[3] = "failed"})

MineTx(p, fails) ==
  /\ p[1] = node.latest
  /\ fails => Failures < MaxFailedTxs
  /\ node' = [latest |-> node.latest + 1, pool |-> node.pool \ {p}]
  /\ minedTxs' = minedTxs \cup
       {<<p[2].run, p[2].contract, IF fails THEN "failed" ELSE p[2].effect>>}
  /\ UNCHANGED <<script, disk>>

MineOne == \E p \in node.pool, fails \in BOOLEAN : MineTx(p, fails)

TaskSteps ==
  \/ DeployContract \/ ContractDeployed \/ CountNonces
  \/ \E i \in 1..NumConnections : SendConnection(i)
  \/ AllConnected \/ HookUpPriceFeed \/ TellorCallerDeployed \/ WriteDeployment

DeployNext ==
  \/ \E c \in DeployedAssets, real \in BOOLEAN : StartTask(c, real)
  \/ TaskSteps \/ Killed \/ MineOne

DeploySpec == DeployInit /\ [][DeployNext]_deployVars

\* getCollateralsDeployments: the list names the folders, and a file that cannot be
\* imported is skipped.
getCollateralsDeployments ==
  {c \in disk.index : disk.files[c] \notin {NoDeployment, Torn}}

-----------------------------------------------------------------------------
(* Properties *)

\* Whatever a client finds is a set of contracts of one run of which every contract was
\* deployed and connected, although runs are killed half-way and started again.
RecordedIsConnected ==
  \A c \in getCollateralsDeployments :
    /\ \A i \in 1..NumDeployed : <<disk.files[c], i, "deployed">> \in minedTxs
    /\ \A i \in 1..NumConnections : <<disk.files[c], i, "connected">> \in minedTxs

\* The nonces a run counts for its connections are free, whatever an earlier run has left
\* in the pool behind a gap: the deployments, each awaited, have filled it.
NoncesAreFree ==
  script.phase = "connecting" =>
    \A i \in 1..NumConnections \ script.sent : ~Refused(i)

\* A run does not wait for ever: it records its deployment or reports a failure.
RunsEnd == <>[](script.phase = "ended")

\* A deployment that was killed half-way does no harm to the next one: its nonces are
\* free, it ends, and only what is connected is recorded.
DeploymentsAreSound ==
  /\ []NoncesAreFree
  /\ []RecordedIsConnected
  /\ RunsEnd

=============================================================================
