-------------------------------- MODULE PCV --------------------------------
(***************************************************************************)
(* The PCV contract: it starts with a loan minted to it, which it puts     *)
(* into the BAMM, receives fees, pays the loan back, and may then pay out  *)
(* to a whitelist.  The owner changes the council and the treasury after a *)
(* delay, except for the first ones.                                       *)
(*                                                                         *)
(* pcv is the contract's storage and the tokens it holds.  The BAMM may    *)
(* return less THUSD than was put in, the rest as collateral.              *)
(***************************************************************************)
EXTENDS Naturals

CONSTANTS
  Members,          \* addresses that may be council or treasury
  Nobody,           \* address(0)
  PcvOwner,
  BOOTSTRAP_LOAN,
  pcvTimeDelay,     \* governanceTimeDelay
  PcvAmounts,       \* inputs
  PcvMaxBalance,    \* bound: what the PCV owns, when fees arrive
  PcvFirstTime, PcvMaxTime

ASSUME PcvAssumption ==
  /\ Nobody \notin Members
  /\ BOOTSTRAP_LOAN \in Nat \ {0} /\ pcvTimeDelay \in Nat
  /\ PcvAmounts \subseteq Nat /\ PcvMaxBalance \in Nat
  /\ PcvFirstTime \in Nat /\ PcvFirstTime > pcvTimeDelay /\ PcvMaxTime \in Nat

VARIABLES
  pcvTime,
  pcv,
  roles,          \* council, treasury, the pending ones and changingRolesInitiated
  loan,           \* history: THUSD minted to the PCV and not burned
  paidOut,        \* history: whether anything was sent to a recipient
  rolesUnseen     \* history: when last the pending pair was not this one

pcvVars == <<pcvTime, pcv, roles, loan, paidOut, rolesUnseen>>

Pairs == (Members \cup {Nobody}) \X (Members \cup {Nobody})

PcvInit ==
  /\ pcvTime = PcvFirstTime
  /\ pcv = [debtToPay |-> 0, isInitialized |-> FALSE, thusd |-> 0, shares |-> 0,
            collateral |-> 0, whitelist |-> {}]
  /\ roles = [current |-> <<Nobody, Nobody>>, pending |-> <<Nobody, Nobody>>, initiated |-> 0]
  /\ loan = 0 /\ paidOut = FALSE
  /\ rolesUnseen = [p \in Pairs |-> PcvFirstTime]

onlyOwnerOrCouncilOrTreasury(caller) ==
  caller \in {PcvOwner, roles.current[1], roles.current[2]}

onlyAfterDebtPaid == pcv.isInitialized /\ pcv.debtToPay = 0

SameRoles == UNCHANGED <<pcvTime, roles, rolesUnseen>>

-----------------------------------------------------------------------------
(* Funds *)

\* The loan is minted and deposited in the BAMM by the same call.
initialize(caller) ==
  /\ onlyOwnerOrCouncilOrTreasury(caller)
  /\ ~pcv.isInitialized
  /\ pcv' = [pcv EXCEPT !.debtToPay = BOOTSTRAP_LOAN, !.isInitialized = TRUE,
                        !.shares = @ + BOOTSTRAP_LOAN]
  /\ loan' = loan + BOOTSTRAP_LOAN
  /\ SameRoles /\ UNCHANGED paidOut

depositToBAMM(caller, amount) ==
  /\ onlyOwnerOrCouncilOrTreasury(caller)
  /\ amount <= pcv.thusd
  /\ pcv' = [pcv EXCEPT !.thusd = @ - amount, !.shares = @ + amount]
  /\ SameRoles /\ UNCHANGED <<loan, paidOut>>

withdrawFromBAMM(caller, shares, thusd) ==
  /\ onlyOwnerOrCouncilOrTreasury(caller)
  /\ shares <= pcv.shares /\ thusd <= shares
  /\ pcv' = [pcv EXCEPT !.shares = @ - shares, !.thusd = @ + thusd,
                        !.collateral = @ + (shares - thusd)]
  /\ SameRoles /\ UNCHANGED <<loan, paidOut>>

withdrawTHUSD(caller, recipient, amount) ==
  /\ onlyAfterDebtPaid /\ onlyOwnerOrCouncilOrTreasury(caller)
  /\ recipient \in pcv.whitelist
  /\ amount <= pcv.thusd
  /\ pcv' = [pcv EXCEPT !.thusd = @ - amount]
  /\ paidOut' = TRUE
  /\ SameRoles /\ UNCHANGED loan

withdrawCollateral(caller, recipient, amount) ==
  /\ onlyAfterDebtPaid /\ onlyOwnerOrCouncilOrTreasury(caller)
  /\ recipient \in pcv.whitelist
  /\ amount <= pcv.collateral
  /\ pcv' = [pcv EXCEPT !.collateral = @ - amount]
  /\ paidOut' = TRUE
  /\ SameRoles /\ UNCHANGED loan

payDebt(caller, thusdToBurn) ==
  LET burned == IF thusdToBurn < pcv.debtToPay THEN thusdToBurn ELSE pcv.debtToPay
  IN  /\ onlyOwnerOrCouncilOrTreasury(caller)
      /\ pcv.debtToPay > 0
      /\ thusdToBurn <= pcv.thusd
      /\ pcv' = [pcv EXCEPT !.debtToPay = @ - burned, !.thusd = @ - burned]
      /\ loan' = loan - burned
      /\ SameRoles /\ UNCHANGED paidOut

\* Borrowing fees arrive.
feesArrive(amount) ==
  /\ pcv.thusd + pcv.shares + pcv.collateral + amount <= PcvMaxBalance
  /\ pcv' = [pcv EXCEPT !.thusd = @ + amount]
  /\ SameRoles /\ UNCHANGED <<loan, paidOut>>

addRecipientToWhitelist(caller, recipient) ==
  /\ caller = PcvOwner /\ recipient \notin pcv.whitelist
  /\ pcv' = [pcv EXCEPT !.whitelist = @ \cup {recipient}]
  /\ SameRoles /\ UNCHANGED <<loan, paidOut>>

removeRecipientFromWhitelist(caller, recipient) ==
  /\ caller = PcvOwner /\ recipient \in pcv.whitelist
  /\ pcv' = [pcv EXCEPT !.whitelist = @ \ {recipient}]
  /\ SameRoles /\ UNCHANGED <<loan, paidOut>>

-----------------------------------------------------------------------------
(* Roles *)

\* Every step notes which pair is pending after it.
WatchRoles ==
  rolesUnseen' = [p \in Pairs |->
    IF roles'.initiated > 0 /\ p = roles'.pending THEN rolesUnseen[p] ELSE pcvTime']

NoPending(r) == [r EXCEPT !.pending = <<Nobody, Nobody>>, !.initiated = 0]

\* Faulty variant: a second change keeps the time of the first.
startChangingRoles_Kept(caller, pair) ==
  /\ caller = PcvOwner /\ pair # roles.current
  /\ roles' = [roles EXCEPT !.pending = pair,
                 !.initiated = IF @ > 0 THEN @
                               ELSE IF roles.current = <<Nobody, Nobody>>
                                    THEN pcvTime - pcvTimeDelay ELSE pcvTime]
  /\ UNCHANGED <<pcvTime, pcv, loan, paidOut>> /\ WatchRoles

startChangingRoles(caller, pair) ==
  /\ caller = PcvOwner /\ pair # roles.current
  /\ roles' = [roles EXCEPT !.pending = pair,
                 !.initiated = IF roles.current = <<Nobody, Nobody>>
                               THEN pcvTime - pcvTimeDelay ELSE pcvTime]
  /\ UNCHANGED <<pcvTime, pcv, loan, paidOut>> /\ WatchRoles

cancelChangingRoles(caller) ==
  /\ caller = PcvOwner /\ roles.initiated # 0
  /\ roles' = NoPending(roles)
  /\ UNCHANGED <<pcvTime, pcv, loan, paidOut>> /\ WatchRoles

finalizeChangingRoles(caller) ==
  /\ caller = PcvOwner /\ roles.initiated > 0
  /\ pcvTime >= roles.initiated + pcvTimeDelay
  /\ roles' = NoPending([roles EXCEPT !.current = roles.pending])
  /\ UNCHANGED <<pcvTime, pcv, loan, paidOut>> /\ WatchRoles

PcvWaits ==
  /\ pcvTime < PcvMaxTime
  /\ pcvTime' = pcvTime + 1
  /\ UNCHANGED <<pcv, roles, loan, paidOut>> /\ WatchRoles

PcvNext ==
  \/ \E caller \in Members \cup {PcvOwner} :
       \/ initialize(caller)
       \/ \E amount \in PcvAmounts :
            \/ depositToBAMM(caller, amount)
            \/ \E thusd \in {0, amount} : withdrawFromBAMM(caller, amount, thusd)
            \/ payDebt(caller, amount)
            \/ \E recipient \in Members :
                 \/ withdrawTHUSD(caller, recipient, amount)
                 \/ withdrawCollateral(caller, recipient, amount)
       \/ \E recipient \in Members :
            \/ addRecipientToWhitelist(caller, recipient)
            \/ removeRecipientFromWhitelist(caller, recipient)
       \/ \E pair \in Pairs : startChangingRoles(caller, pair)
       \/ cancelChangingRoles(caller)
       \/ finalizeChangingRoles(caller)
  \/ \E amount \in PcvAmounts : feesArrive(amount)
  \/ PcvWaits

PcvSpec == PcvInit /\ [][PcvNext]_pcvVars

-----------------------------------------------------------------------------

\* Nothing is paid out before the bootstrap loan was taken and is burned again: the
\* counter debtToPay, the mints and burns and the flag isInitialized agree whatever
\* the order of deposits, losses in the BAMM, fees and repayments.
LoanIsRepaidFirst ==
  /\ loan = pcv.debtToPay
  /\ paidOut => pcv.isInitialized /\ loan = 0

\* A council or treasury once set is replaced only by a pair that was pending for the
\* whole delay.  The first pair may take its place at once.
RolesAreAnnounced ==
  [][roles'.current # roles.current /\ roles.current # <<Nobody, Nobody>>
       => pcvTime >= rolesUnseen[roles'.current] + pcvTimeDelay]_pcvVars

\* Nothing leaves the PCV before the loan is repaid, and after the first appointment
\* nobody gets a role that was not announced for the delay, however starts, cancellations
\* and repayments overlap.
PcvIsBound == []LoanIsRepaidFirst /\ RolesAreAnnounced

=============================================================================
