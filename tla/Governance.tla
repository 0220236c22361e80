---------------------------- MODULE Governance ----------------------------
(***************************************************************************)
(* The governance of THUSDToken: the owner starts a change of the mint     *)
(* list or of the system contracts, may cancel or restart it, and may      *)
(* finalize it once governanceTimeDelay has passed.  The three kinds of    *)
(* change run side by side.  A call that does not satisfy its requires     *)
(* reverts and is no step.                                                 *)
(***************************************************************************)
EXTENDS Naturals

CONSTANTS
  Accounts,             \* addresses, address(0) excluded
  Contracts,            \* the ones with code, see checkContract
  Owners,               \* who may own the token
  NoAddress,            \* address(0)
  governanceTimeDelay,
  Deployer, FirstTroveManager, FirstStabilityPool, FirstBorrowerOperations,
  ContractSets,         \* what the owner may propose: TroveManager,
                        \* StabilityPool and BorrowerOperations of a collateral
  FirstTimestamp,       \* of the block that deploys the token
  MaxTimestamp          \* bound: the last block

ASSUME GovernanceAssumption ==
  /\ Contracts \subseteq Accounts /\ NoAddress \notin Accounts
  /\ Deployer \in Owners /\ Owners \subseteq Accounts
  /\ {FirstTroveManager, FirstStabilityPool, FirstBorrowerOperations} \subseteq Contracts
  /\ ContractSets \subseteq Accounts \X Accounts \X Accounts
  /\ governanceTimeDelay \in Nat
  /\ FirstTimestamp \in Nat \ {0} /\ MaxTimestamp \in Nat

VARIABLES
  timestamp,      \* block.timestamp
  owner,          \* Ownable._owner
  mintList, isTroveManager, isStabilityPools, isBorrowerOperations,
  addMint,        \* pendingAddedMintAddress, addMintListInitiated
  revokeMint,     \* pendingRevokedMintAddress, revokeMintListInitiated
  addContracts,   \* the three pending contracts, addContractsInitiated
  unseen          \* history: when last no pending change named an account

lists == <<mintList, isTroveManager, isStabilityPools, isBorrowerOperations>>
govVars == <<timestamp, owner, lists, addMint, revokeMint, addContracts, unseen>>

Addresses == Accounts \cup {NoAddress}
NoChange == [account |-> NoAddress, initiated |-> 0]
NoContracts == [troveManager |-> NoAddress, stabilityPool |-> NoAddress,
                borrowerOperations |-> NoAddress, initiated |-> 0]

Kinds == {"mint", "revoke", "troveManager", "stabilityPool", "borrowerOperations"}

\* What the token's public getters show to be on its way, for each kind.
Announced(k) ==
  CASE k = "mint" -> {addMint.account, addContracts.borrowerOperations}
    [] k = "revoke" -> {revokeMint.account}
    [] k = "troveManager" -> {addContracts.troveManager}
    [] k = "stabilityPool" -> {addContracts.stabilityPool}
    [] k = "borrowerOperations" -> {addContracts.borrowerOperations}

\* Every step notes which accounts nothing pending names after it.
Watch ==
  unseen' = [k \in Kinds |-> [a \in Addresses |->
               IF a \in Announced(k)' THEN unseen[k][a] ELSE timestamp']]

GovInit ==
  /\ timestamp = FirstTimestamp
  /\ owner = Deployer
  /\ isTroveManager = {FirstTroveManager}
  /\ isStabilityPools = {FirstStabilityPool}
  /\ isBorrowerOperations = {FirstBorrowerOperations}
  /\ mintList = {FirstBorrowerOperations}
  /\ addMint = NoChange /\ revokeMint = NoChange /\ addContracts = NoContracts
  /\ unseen = [k \in Kinds |-> [a \in Addresses |-> FirstTimestamp]]

-----------------------------------------------------------------------------
onlyOwner(caller) == caller = owner

onlyAfterGovernanceDelay(initiated) ==
  /\ initiated > 0
  /\ timestamp >= initiated + governanceTimeDelay

\* A faulty variant: an account without code passes.
checkContract_Any(a) == a \in Accounts

checkContract(a) == a \in Contracts

startRevokeMintList(caller, a) ==
  /\ onlyOwner(caller)
  /\ a \in mintList
  /\ revokeMint' = [account |-> a, initiated |-> timestamp]
  /\ UNCHANGED <<timestamp, owner, lists, addMint, addContracts>>
  /\ Watch

cancelRevokeMintList(caller) ==
  /\ onlyOwner(caller)
  /\ revokeMint.initiated # 0
  /\ revokeMint' = NoChange
  /\ UNCHANGED <<timestamp, owner, lists, addMint, addContracts>>
  /\ Watch

finalizeRevokeMintList(caller) ==
  /\ onlyOwner(caller)
  /\ onlyAfterGovernanceDelay(revokeMint.initiated)
  /\ mintList' = mintList \ {revokeMint.account}
  /\ revokeMint' = NoChange
  /\ UNCHANGED <<timestamp, owner, isTroveManager, isStabilityPools,
                 isBorrowerOperations, addMint, addContracts>>
  /\ Watch

\* A faulty variant: a restarted change keeps the time of the first start.
startAddMintList_KeepsTime(caller, a) ==
  /\ onlyOwner(caller)
  /\ a \notin mintList
  /\ addMint' = [account |-> a, initiated |-> IF addMint.initiated = 0 THEN timestamp
                                              ELSE addMint.initiated]
  /\ UNCHANGED <<timestamp, owner, lists, revokeMint, addContracts>>
  /\ Watch

startAddMintList(caller, a) ==
  /\ onlyOwner(caller)
  /\ a \notin mintList
  /\ addMint' = [account |-> a, initiated |-> timestamp]
  /\ UNCHANGED <<timestamp, owner, lists, revokeMint, addContracts>>
  /\ Watch

cancelAddMintList(caller) ==
  /\ onlyOwner(caller)
  /\ addMint.initiated # 0
  /\ addMint' = NoChange
  /\ UNCHANGED <<timestamp, owner, lists, revokeMint, addContracts>>
  /\ Watch

finalizeAddMintList(caller) ==
  /\ onlyOwner(caller)
  /\ onlyAfterGovernanceDelay(addMint.initiated)
  /\ mintList' = mintList \cup {addMint.account}
  /\ addMint' = NoChange
  /\ UNCHANGED <<timestamp, owner, isTroveManager, isStabilityPools,
                 isBorrowerOperations, revokeMint, addContracts>>
  /\ Watch

startAddContracts(caller, tm, sp, bo) ==
  /\ onlyOwner(caller)
  /\ checkContract(tm) /\ checkContract(sp) /\ checkContract(bo)
  /\ addContracts' = [troveManager |-> tm, stabilityPool |-> sp,
                      borrowerOperations |-> bo, initiated |-> timestamp]
  /\ UNCHANGED <<timestamp, owner, lists, addMint, revokeMint>>
  /\ Watch

cancelAddContracts(caller) ==
  /\ onlyOwner(caller)
  /\ addContracts.initiated # 0
  /\ addContracts' = NoContracts
  /\ UNCHANGED <<timestamp, owner, lists, addMint, revokeMint>>
  /\ Watch

\* The system contracts join their roles and BorrowerOperations may mint.
addSystemContracts(tm, sp, bo) ==
  /\ checkContract(tm) /\ checkContract(sp) /\ checkContract(bo)
  /\ isTroveManager' = isTroveManager \cup {tm}
  /\ isStabilityPools' = isStabilityPools \cup {sp}
  /\ isBorrowerOperations' = isBorrowerOperations \cup {bo}
  /\ mintList' = mintList \cup {bo}

finalizeAddContracts(caller) ==
  /\ onlyOwner(caller)
  /\ onlyAfterGovernanceDelay(addContracts.initiated)
  /\ addSystemContracts(addContracts.troveManager, addContracts.stabilityPool,
                        addContracts.borrowerOperations)
  /\ addContracts' = NoContracts
  /\ UNCHANGED <<timestamp, owner, addMint, revokeMint>>
  /\ Watch

transferOwnership(caller, newOwner) ==
  /\ onlyOwner(caller)
  /\ newOwner # NoAddress
  /\ owner' = newOwner
  /\ UNCHANGED <<timestamp, lists, addMint, revokeMint, addContracts>>
  /\ Watch

\* A later block.
NextBlock ==
  /\ timestamp < MaxTimestamp
  /\ timestamp' = timestamp + 1
  /\ UNCHANGED <<owner, lists, addMint, revokeMint, addContracts>>
  /\ Watch

GovNext ==
  \/ NextBlock
  \/ \E caller \in Owners :
       \/ \E a \in Addresses : startRevokeMintList(caller, a)
       \/ cancelRevokeMintList(caller)
       \/ finalizeRevokeMintList(caller)
       \/ \E a \in Addresses : startAddMintList(caller, a)
       \/ cancelAddMintList(caller)
       \/ finalizeAddMintList(caller)
       \/ \E c \in ContractSets : startAddContracts(caller, c[1], c[2], c[3])
       \/ cancelAddContracts(caller)
       \/ finalizeAddContracts(caller)
       \/ \E newOwner \in Owners : transferOwnership(caller, newOwner)

GovSpec == GovInit /\ [][GovNext]_govVars

-----------------------------------------------------------------------------
(* Properties *)

\* The types of the token's governance state: only contracts get roles, the
\* times of pending changes are not in the future.
GovTypeOK ==
  /\ timestamp \in Nat \ {0} /\ owner \in Owners
  /\ mintList \subseteq Addresses
  /\ isTroveManager \subseteq Contracts /\ isStabilityPools \subseteq Contracts
  /\ isBorrowerOperations \subseteq Contracts
  /\ addMint \in [account : Addresses, initiated : Nat]
  /\ revokeMint \in [account : Addresses, initiated : Nat]
  /\ addContracts \in [troveManager : Addresses, stabilityPool : Addresses,
                       borrowerOperations : Addresses, initiated : Nat]
  /\ unseen \in [Kinds -> [Addresses -> Nat]]
  /\ addMint.initiated <= timestamp /\ revokeMint.initiated <= timestamp
  /\ addContracts.initiated <= timestamp

\* The accounts a step lets into effect for a kind of change.
TakesEffect(k) ==
  CASE k = "mint" -> mintList' \ mintList
    [] k = "revoke" -> mintList \ mintList'
    [] k = "troveManager" -> isTroveManager' \ isTroveManager
    [] k = "stabilityPool" -> isStabilityPools' \ isStabilityPools
    [] k = "borrowerOperations" -> isBorrowerOperations' \ isBorrowerOperations

\* The right to mint and the roles that may burn and move THUSD change only
\* for an account that the token's getters have named as pending, in every
\* block, for the whole governanceTimeDelay: however starts, restarts,
\* cancellations and finalizations of the three kinds of change overlap, none
\* takes effect with the delay of an earlier one (onlyAfterGovernanceDelay).
ChangesAreAnnounced ==
  [][\A k \in Kinds : \A a \in TakesEffect(k) :
       timestamp >= unseen[k][a] + governanceTimeDelay]_govVars
=============================================================================
