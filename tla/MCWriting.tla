------------------------------ MODULE MCWriting ------------------------------
(***************************************************************************)
(* Those parts of the client that send transactions, each on its own small *)
(* instance: the shared transaction state, the panel of a vault, the panel *)
(* of a deposit, the deploy task and a call of lib-ethers.  As in MCReading *)
(* a behaviour is about one of them, the subject.                          *)
(***************************************************************************)
EXTENDS Transactions, VaultPanel, StabilityPanel, Deployment, EthersCalls

VARIABLE subject

writingVars == <<subject, txVars, panelVars, stabilityVars, deployVars, ethersVars>>

WritingInit ==
  /\ subject \in {"transaction", "vault", "deposit", "deployment", "call"}
  /\ TxInit /\ PanelInit /\ StabilityPanelInit /\ DeployInit /\ EthersInit
  /\ subject # "vault" => vault.status = "nonExistent"
  /\ subject # "deposit" => depositIsEmpty(deposit)

AboutTransaction(step) ==
  subject = "transaction" /\ step /\ UNCHANGED <<subject, panelVars, stabilityVars, deployVars, ethersVars>>
AboutVault(step) ==
  subject = "vault" /\ step /\ UNCHANGED <<subject, txVars, stabilityVars, deployVars, ethersVars>>
AboutDeposit(step) ==
  subject = "deposit" /\ step /\ UNCHANGED <<subject, txVars, panelVars, deployVars, ethersVars>>
AboutDeployment(step) ==
  subject = "deployment" /\ step /\ UNCHANGED <<subject, txVars, panelVars, stabilityVars, ethersVars>>
AboutCall(step) ==
  subject = "call" /\ step /\ UNCHANGED <<subject, txVars, panelVars, stabilityVars, deployVars>>

WritingNext ==
  \/ AboutTransaction(TxNext)
  \/ AboutVault(VaultNext)
  \/ AboutDeposit(StabilityPanelNext)
  \/ AboutDeployment(DeployNext)
  \/ AboutCall(EthersNext)

\* Transactions are mined or given up, the node answers what it is asked, timers
\* expire, and a script that is not killed goes on.
WritingFairness ==
  /\ WF_writingVars(AboutTransaction(TxSteps))
  /\ WF_writingVars(AboutDeployment(TaskSteps)) /\ WF_writingVars(AboutDeployment(MineOne))

WritingSpec == WritingInit /\ [][WritingNext]_writingVars /\ WritingFairness

=============================================================================
