-------------------------- MODULE PeripheryProofs --------------------------
(***************************************************************************)
(* Proofs about the contracts around the core, those that keep a clock of  *)
(* their own, the PCV, the price feed, the base rate and the token's       *)
(* governance, and the BAMM, and about the pages of the frontend that show *)
(* vaults and totals, for every value of their constants.                  *)
(***************************************************************************)
EXTENDS Governance, PCV, BaseRate, PriceFeed, BAMM, Pages, InductionLemmas, FiniteSetTheorems

-----------------------------------------------------------------------------
(***************************************************************************)
(* The PCV.  LoanIsRepaidFirst is not inductive: that paying debt keeps    *)
(* the loan and the counter equal needs that the counter is zero before    *)
(* the loan is taken, and that a second loan is never taken.  The roles    *)
(* need that a pending pair was announced when its timer started, unless   *)
(* it is to be the first one.                                              *)
(***************************************************************************)

PcvStorage ==
  [debtToPay : Nat, isInitialized : BOOLEAN, thusd : Nat, shares : Nat,
   collateral : Nat, whitelist : SUBSET Members]

\* The types of the PCV's storage and of its history variables.
PcvTypeOK ==
  /\ pcvTime \in Nat /\ pcvTime >= PcvFirstTime
  /\ pcv \in PcvStorage
  /\ roles \in [current : Pairs, pending : Pairs, initiated : Nat]
  /\ loan \in Nat /\ paidOut \in BOOLEAN
  /\ rolesUnseen \in [Pairs -> Nat]

\* The loan is taken once: nothing is owed before it.
NoDebtBeforeTheLoan == ~pcv.isInitialized => pcv.debtToPay = 0

\* No pair was last absent in the future, and a running timer that replaces a pair is
\* not older than the announcement.
PendingSinceStart ==
  /\ \A p \in Pairs : rolesUnseen[p] <= pcvTime
  /\ roles.initiated > 0 /\ roles.current # <<Nobody, Nobody>>
       => rolesUnseen[roles.pending] <= roles.initiated

PcvInv == PcvTypeOK /\ LoanIsRepaidFirst /\ NoDebtBeforeTheLoan /\ PendingSinceStart

\* The initial state satisfies the inductive invariant.
LEMMA PcvInitInv == PcvInit => PcvInv
  <1> SUFFICES ASSUME PcvInit PROVE PcvInv
    OBVIOUS
  <1>1. pcv \in PcvStorage
    BY DEF PcvInit, PcvStorage
  <1>2. roles \in [current : Pairs, pending : Pairs, initiated : Nat]
    BY DEF PcvInit, Pairs
  <1> QED
    <2>0. paidOut \in BOOLEAN
      BY Zenon DEF PcvInit
    <2>1. PcvTypeOK
      BY <1>1, <1>2, <2>0, PcvAssumption DEF PcvInit, PcvTypeOK
    <2>2. PendingSinceStart
      BY <1>2, PcvAssumption DEF PcvInit, PendingSinceStart
    <2> QED
      BY <2>1, <2>2 DEF PcvInit, PcvInv, LoanIsRepaidFirst, NoDebtBeforeTheLoan

\* What WatchRoles leaves of the history: the pair pending afterwards keeps its time.
LEMMA WatchRolesKeeps ==
  ASSUME PcvInv, WatchRoles, pcvTime' \in Nat, pcvTime <= pcvTime'
  PROVE  /\ rolesUnseen' \in [Pairs -> Nat]
         /\ \A p \in Pairs : rolesUnseen'[p] <= pcvTime'
         /\ \A p \in Pairs : roles'.initiated > 0 /\ p = roles'.pending
              => rolesUnseen'[p] = rolesUnseen[p]
  <1>1. \A p \in Pairs : rolesUnseen[p] \in Nat /\ rolesUnseen[p] <= pcvTime
    BY DEF PcvInv, PcvTypeOK, PendingSinceStart
  <1>2. pcvTime \in Nat
    BY DEF PcvInv, PcvTypeOK
  <1> QED
    BY <1>1, <1>2 DEF WatchRoles

\* A step that only moves funds keeps the invariant about the roles.
LEMMA FundsKeepRoles ==
  ASSUME PcvInv, SameRoles
  PROVE  PendingSinceStart'
  BY DEF PcvInv, SameRoles, PendingSinceStart

\* Every step keeps the inductive invariant.
LEMMA PcvNextInv == PcvInv /\ [PcvNext]_pcvVars => PcvInv'
  <1> SUFFICES ASSUME PcvInv, [PcvNext]_pcvVars PROVE PcvInv'
    OBVIOUS
  <1> USE PcvAssumption
  <1>1. CASE UNCHANGED pcvVars
    BY <1>1 DEF pcvVars, PcvInv, PcvTypeOK, LoanIsRepaidFirst, NoDebtBeforeTheLoan,
      PendingSinceStart
  <1>2. ASSUME NEW caller \in Members \cup {PcvOwner}, initialize(caller)
        PROVE  PcvInv'
    <2>1. /\ pcv.debtToPay = 0 /\ ~paidOut /\ loan = 0
          /\ pcv.shares + BOOTSTRAP_LOAN \in Nat
      BY <1>2 DEF initialize, PcvInv, PcvTypeOK, PcvStorage, LoanIsRepaidFirst,
        NoDebtBeforeTheLoan
    <2>2. pcv' = [debtToPay |-> BOOTSTRAP_LOAN, isInitialized |-> TRUE,
                  thusd |-> pcv.thusd, shares |-> pcv.shares + BOOTSTRAP_LOAN,
                  collateral |-> pcv.collateral, whitelist |-> pcv.whitelist]
      BY <1>2 DEF initialize, PcvInv, PcvTypeOK, PcvStorage
    <2>3. pcv' \in PcvStorage
      BY <2>1, <2>2 DEF PcvInv, PcvTypeOK, PcvStorage
    <2> QED
      BY <1>2, <2>1, <2>2, <2>3, FundsKeepRoles DEF initialize, SameRoles, PcvInv,
        PcvTypeOK, LoanIsRepaidFirst, NoDebtBeforeTheLoan
  <1>3. ASSUME NEW caller \in Members \cup {PcvOwner}, NEW amount \in PcvAmounts,
               depositToBAMM(caller, amount)
        PROVE  PcvInv'
    <2>0. pcv.thusd - amount \in Nat /\ pcv.shares + amount \in Nat
      BY <1>3 DEF depositToBAMM, PcvInv, PcvTypeOK, PcvStorage
    <2>1. pcv' \in PcvStorage
      BY <1>3, <2>0 DEF depositToBAMM, PcvInv, PcvTypeOK, PcvStorage
    <2>2. LoanIsRepaidFirst' /\ NoDebtBeforeTheLoan'
      BY <1>3 DEF depositToBAMM, PcvInv, PcvTypeOK, PcvStorage,
        LoanIsRepaidFirst, NoDebtBeforeTheLoan
    <2> QED
      BY <1>3, <2>1, <2>2, FundsKeepRoles DEF depositToBAMM, SameRoles, PcvInv, PcvTypeOK
  <1>4. ASSUME NEW caller \in Members \cup {PcvOwner}, NEW amount \in PcvAmounts,
               NEW thusd \in {0, amount}, withdrawFromBAMM(caller, amount, thusd)
        PROVE  PcvInv'
    <2>0. /\ pcv.shares - amount \in Nat /\ pcv.thusd + thusd \in Nat
          /\ pcv.collateral + (amount - thusd) \in Nat
      BY <1>4 DEF withdrawFromBAMM, PcvInv, PcvTypeOK, PcvStorage
    <2>1. pcv' \in PcvStorage
      BY <1>4, <2>0 DEF withdrawFromBAMM, PcvInv, PcvTypeOK, PcvStorage
    <2>2. LoanIsRepaidFirst' /\ NoDebtBeforeTheLoan'
      BY <1>4 DEF withdrawFromBAMM, PcvInv, PcvTypeOK, PcvStorage,
        LoanIsRepaidFirst, NoDebtBeforeTheLoan
    <2> QED
      BY <1>4, <2>1, <2>2, FundsKeepRoles DEF withdrawFromBAMM, SameRoles, PcvInv, PcvTypeOK
  <1>5. ASSUME NEW caller \in Members \cup {PcvOwner}, NEW amount \in PcvAmounts,
               payDebt(caller, amount)
        PROVE  PcvInv'
    <2> DEFINE burned == IF amount < pcv.debtToPay THEN amount ELSE pcv.debtToPay
    <2>1. /\ burned \in Nat
          /\ pcv.debtToPay - burned \in Nat /\ pcv.thusd - burned \in Nat
      BY <1>5 DEF payDebt, PcvInv, PcvTypeOK, PcvStorage
    <2>2. /\ pcv' = [pcv EXCEPT !.debtToPay = @ - burned, !.thusd = @ - burned]
          /\ loan' = loan - burned
      BY <1>5 DEF payDebt
    <2> HIDE DEF burned
    <2>3. pcv' \in PcvStorage
      BY <2>1, <2>2 DEF PcvInv, PcvTypeOK, PcvStorage
    <2>4. LoanIsRepaidFirst' /\ NoDebtBeforeTheLoan'
      BY <1>5 DEF payDebt, PcvInv, PcvTypeOK, PcvStorage,
        LoanIsRepaidFirst, NoDebtBeforeTheLoan
    <2> QED
      BY <1>5, <2>1, <2>2, <2>3, <2>4, FundsKeepRoles DEF payDebt, SameRoles, PcvInv,
        PcvTypeOK, PcvStorage, LoanIsRepaidFirst
  <1>6. ASSUME NEW caller \in Members \cup {PcvOwner}, NEW amount \in PcvAmounts,
               NEW recipient \in Members,
               \/ withdrawTHUSD(caller, recipient, amount)
               \/ withdrawCollateral(caller, recipient, amount)
        PROVE  PcvInv'
    <2>1. pcv' \in PcvStorage
      BY <1>6 DEF withdrawTHUSD, withdrawCollateral, PcvInv, PcvTypeOK, PcvStorage
    <2>2. LoanIsRepaidFirst' /\ NoDebtBeforeTheLoan'
      BY <1>6 DEF withdrawTHUSD, withdrawCollateral, onlyAfterDebtPaid, PcvInv, PcvTypeOK, PcvStorage,
        LoanIsRepaidFirst, NoDebtBeforeTheLoan
    <2> QED
      BY <1>6, <2>1, <2>2, FundsKeepRoles DEF withdrawTHUSD, withdrawCollateral, SameRoles, PcvInv, PcvTypeOK
  <1>7. ASSUME NEW caller \in Members \cup {PcvOwner}, NEW recipient \in Members,
               \/ addRecipientToWhitelist(caller, recipient)
               \/ removeRecipientFromWhitelist(caller, recipient)
        PROVE  PcvInv'
    <2>1. pcv' \in PcvStorage
      BY <1>7 DEF addRecipientToWhitelist, removeRecipientFromWhitelist, PcvInv, PcvTypeOK, PcvStorage
    <2>2. LoanIsRepaidFirst' /\ NoDebtBeforeTheLoan'
      BY <1>7 DEF addRecipientToWhitelist, removeRecipientFromWhitelist, PcvInv, PcvTypeOK, PcvStorage,
        LoanIsRepaidFirst, NoDebtBeforeTheLoan
    <2> QED
      BY <1>7, <2>1, <2>2, FundsKeepRoles DEF addRecipientToWhitelist, removeRecipientFromWhitelist, SameRoles, PcvInv, PcvTypeOK
  <1>8. ASSUME NEW caller \in Members \cup {PcvOwner}, NEW pair \in Pairs,
               startChangingRoles(caller, pair)
        PROVE  PcvInv'
    <2>1. pcvTime - pcvTimeDelay \in Nat /\ pcvTime \in Nat
      BY DEF PcvInv, PcvTypeOK
    <2>2. /\ roles' \in [current : Pairs, pending : Pairs, initiated : Nat]
          /\ roles'.current = roles.current /\ roles'.pending = pair
          /\ roles.current # <<Nobody, Nobody>> => roles'.initiated = pcvTime
      BY <1>8, <2>1 DEF startChangingRoles, PcvInv, PcvTypeOK
    <2>3. /\ rolesUnseen' \in [Pairs -> Nat]
          /\ \A p \in Pairs : rolesUnseen'[p] <= pcvTime
      BY <1>8, <2>1, WatchRolesKeeps DEF startChangingRoles
    <2>4. PcvTypeOK'
      BY <1>8, <2>2, <2>3 DEF startChangingRoles, PcvInv, PcvTypeOK
    <2>5. PendingSinceStart'
      BY <1>8, <2>2, <2>3 DEF startChangingRoles, PendingSinceStart
    <2> QED
      BY <1>8, <2>4, <2>5 DEF startChangingRoles, PcvInv, LoanIsRepaidFirst,
        NoDebtBeforeTheLoan
  <1>9. ASSUME NEW caller \in Members \cup {PcvOwner},
               cancelChangingRoles(caller) \/ finalizeChangingRoles(caller)
        PROVE  PcvInv'
    <2>1. /\ roles' \in [current : Pairs, pending : Pairs, initiated : Nat]
          /\ roles'.initiated = 0
      <3>1. <<Nobody, Nobody>> \in Pairs
        BY DEF Pairs
      <3>2. PICK c \in Pairs : roles' = [current |-> c, pending |-> <<Nobody, Nobody>>,
                                       initiated |-> 0]
        <4>1. /\ roles = [current |-> roles.current, pending |-> roles.pending,
                          initiated |-> roles.initiated]
              /\ roles.current \in Pairs /\ roles.pending \in Pairs
          BY DEF PcvInv, PcvTypeOK
        <4>2. CASE cancelChangingRoles(caller)
          <5>1. roles' = [current |-> roles.current, pending |-> <<Nobody, Nobody>>,
                          initiated |-> 0]
            BY <4>1, <4>2 DEF cancelChangingRoles, NoPending
          <5> QED
            BY <4>1, <5>1
        <4>3. CASE finalizeChangingRoles(caller)
          <5>1. roles' = [current |-> roles.pending, pending |-> <<Nobody, Nobody>>,
                          initiated |-> 0]
            BY <4>1, <4>3 DEF finalizeChangingRoles, NoPending
          <5> QED
            BY <4>1, <5>1
        <4> QED
          BY <1>9, <4>2, <4>3
      <3> QED
        BY <3>1, <3>2
    <2>2. /\ rolesUnseen' \in [Pairs -> Nat]
          /\ \A p \in Pairs : rolesUnseen'[p] <= pcvTime
      BY <1>9, WatchRolesKeeps DEF cancelChangingRoles, finalizeChangingRoles, PcvInv,
        PcvTypeOK
    <2>3. UNCHANGED <<pcvTime, pcv, loan, paidOut>>
      BY <1>9 DEF cancelChangingRoles, finalizeChangingRoles
    <2> QED
      BY <2>1, <2>2, <2>3 DEF PcvInv, PcvTypeOK, LoanIsRepaidFirst,
        NoDebtBeforeTheLoan, PendingSinceStart
  <1>10. ASSUME NEW amount \in PcvAmounts, feesArrive(amount)
         PROVE  PcvInv'
    <2>1. pcv' \in PcvStorage
      BY <1>10 DEF feesArrive, PcvInv, PcvTypeOK, PcvStorage
    <2>2. LoanIsRepaidFirst' /\ NoDebtBeforeTheLoan'
      BY <1>10 DEF feesArrive, PcvInv, PcvTypeOK, PcvStorage, LoanIsRepaidFirst,
        NoDebtBeforeTheLoan
    <2> QED
      BY <1>10, <2>1, <2>2, FundsKeepRoles DEF feesArrive, SameRoles, PcvInv, PcvTypeOK
  <1>11. CASE PcvWaits
    BY <1>11, WatchRolesKeeps DEF PcvWaits, PcvInv, PcvTypeOK, LoanIsRepaidFirst,
      NoDebtBeforeTheLoan, PendingSinceStart
  <1> QED
    BY <1>1, <1>2, <1>3, <1>4, <1>5, <1>6, <1>7, <1>8, <1>9, <1>10, <1>11 DEF PcvNext

\* Only finalizeChangingRoles appoints, and to replace a pair it needs the delay.
LEMMA AppointmentNeedsDelay ==
  ASSUME PcvInv, [PcvNext]_pcvVars, roles'.current # roles.current,
         roles.current # <<Nobody, Nobody>>
  PROVE  pcvTime >= rolesUnseen[roles'.current] + pcvTimeDelay
  <1>1. PICK caller \in Members \cup {PcvOwner} : finalizeChangingRoles(caller)
    BY DEF PcvNext, pcvVars, SameRoles, initialize, depositToBAMM, withdrawFromBAMM,
      payDebt, withdrawTHUSD, withdrawCollateral, addRecipientToWhitelist,
      removeRecipientFromWhitelist, startChangingRoles, cancelChangingRoles, NoPending,
      feesArrive, PcvWaits, PcvInv, PcvTypeOK
  <1>2. roles'.current = roles.pending
    BY <1>1 DEF finalizeChangingRoles, NoPending, PcvInv, PcvTypeOK
  <1>3. rolesUnseen[roles.pending] \in Nat /\ roles.initiated \in Nat /\ pcvTime \in Nat
    BY DEF PcvInv, PcvTypeOK
  <1> QED
    BY <1>1, <1>2, <1>3, PcvAssumption DEF finalizeChangingRoles, PcvInv,
      PendingSinceStart

\* Whatever the loan, the delay, the members and the order of the calls: the PCV pays
\* nothing out before the loan is burned, and a council or treasury is replaced only by
\* a pair that was pending for the whole delay.
THEOREM PcvStaysBound == PcvSpec => PcvIsBound
  <1>1. PcvInv => LoanIsRepaidFirst
    BY DEF PcvInv
  <1>2. PcvInv /\ [PcvNext]_pcvVars =>
          [roles'.current # roles.current /\ roles.current # <<Nobody, Nobody>>
             => pcvTime >= rolesUnseen[roles'.current] + pcvTimeDelay]_pcvVars
    BY AppointmentNeedsDelay
  <1> QED
    BY <1>1, <1>2, PcvInitInv, PcvNextInv, PTL DEF PcvSpec, PcvIsBound, RolesAreAnnounced

-----------------------------------------------------------------------------
(***************************************************************************)
(* The price feed.  FeedTracksOracle needs to know what the maintenance    *)
(* functions left before the addresses were set: a rate and a factor that  *)
(* are zero or one.  A factor of zero comes of updateDeviationFactor       *)
(* before updateRate; updateAll, which setAddresses calls, repairs it.     *)
(***************************************************************************)

FeedStorage ==
  [owned : BOOLEAN, addressesSet : BOOLEAN, poolSet : BOOLEAN,
   redemptionRate : Nat, LEDPrice : Nat, LEDPriceUpdateTime : Nat,
   deviationFactor : Nat, deviationFactorUpdateTime : Nat]

\* A storage with its types and no factor updated in the future; until the pool is set
\* the rate and the factor are one, or not yet one.
FeedOK(f) ==
  /\ f \in FeedStorage
  /\ f.deviationFactorUpdateTime <= feedTime
  /\ ~f.poolSet => f.redemptionRate \in {0, RAY} /\ f.deviationFactor \in {0, RAY}

\* Both are one.
BothOne(f) == f.redemptionRate = RAY /\ f.deviationFactor = RAY

FeedInv ==
  /\ feedTime \in Nat /\ feedTime > 0
  /\ FeedOK(feed)
  /\ feed.addressesSet /\ ~feed.poolSet => BothOne(feed)

\* One times one is one, rounded down or to the nearest.
LEMMA RayTimesRay == rmulRound(RAY, RAY) = RAY /\ rmultiply(RAY, RAY) = RAY
  <1>1. RAY \in Nat /\ RAY > 0
    BY FeedAssumption
  <1>2. \A r \in Nat : r < RAY => (RAY * RAY + r) \div RAY = RAY
    BY <1>1
  <1>3. RAY \div 2 \in Nat /\ RAY \div 2 < RAY
    BY <1>1
  <1> QED
    BY <1>1, <1>2, <1>3 DEF rmulRound, rmultiply

\* Whatever set holds the first state of the loop and is kept by its rounds, holds every
\* state.
LEMMA RpowerRoundsIn ==
  ASSUME NEW x, NEW n, NEW L, NEW k \in Nat,
         [x |-> x, z |-> IF n % 2 = 0 THEN RAY ELSE x, n |-> n \div 2] \in L,
         \A r \in L : rpowerRound(r) \in L
  PROVE  rpowerRounds(x, n)[k] \in L
  <1> DEFINE s0 == [x |-> x, z |-> IF n % 2 = 0 THEN RAY ELSE x, n |-> n \div 2]
             step == [r \in L |-> rpowerRound(r)]
             Def(s) == [i \in Nat |-> IF i = 0 THEN s0 ELSE rpowerRound(s[i-1])]
  <1>1. s0 \in L /\ step \in [L -> L]
    OBVIOUS
  <1>2. rpowerRounds(x, n) = CHOOSE s : s = Def(s)
    BY DEF rpowerRounds
  <1> HIDE DEF s0
  <1>3. \E s : s = Def(s)
    <2>1. \E t : IsIteration(t, L, s0, step)
      <3> HIDE DEF step
      <3> QED
        BY <1>1, Iteration
    <2>2. PICK t \in [Nat -> L] : t[0] = s0 /\ \A i \in Nat : t[i+1] = step[t[i]]
      BY <2>1 DEF IsIteration
    <2>3. ASSUME NEW i \in Nat PROVE t[i] = IF i = 0 THEN s0 ELSE rpowerRound(t[i-1])
      <3>1. CASE i = 0
        BY <2>2, <3>1
      <3>2. CASE i # 0
        <4>1. i - 1 \in Nat /\ (i - 1) + 1 = i
          BY <3>2
        <4>2. t[(i-1)+1] = step[t[i-1]] /\ t[i-1] \in L
          BY <2>2, <4>1
        <4> QED
          BY <3>2, <4>1, <4>2
      <3> QED
        BY <3>1, <3>2
    <2>4. t = Def(t)
      BY <2>3
    <2> QED
      BY <2>4
  <1> HIDE DEF Def
  <1>4. PICK s : s = Def(s) /\ s = rpowerRounds(x, n)
    BY <1>2, <1>3
  <1>5. s = [i \in Nat |-> IF i = 0 THEN s0 ELSE rpowerRound(s[i-1])]
    BY <1>4 DEF Def
  <1> DEFINE T == {i \in Nat : s[i] \in L}
  <1>6. 0 \in T
    BY <1>1, <1>5
  <1>7. ASSUME NEW i \in Nat, i \in T PROVE i + 1 \in T
    <2>1. i + 1 \in Nat /\ i + 1 # 0 /\ (i + 1) - 1 = i
      OBVIOUS
    <2>2. s[i+1] = rpowerRound(s[i])
      BY <1>5, <2>1
    <2> QED
      BY <1>7, <2>2
  <1> HIDE DEF T
  <1>8. k \in T
    BY <1>6, <1>7, SetInduction
  <1> QED
    BY <1>4, <1>8 DEF T

\* One to any power is one.
LEMMA RayPower == ASSUME NEW n \in Nat PROVE rpower(RAY, n) = RAY
  <1> DEFINE Ones == [x : {RAY}, z : {RAY}, n : Nat]
             s == [x |-> RAY, z |-> IF n % 2 = 0 THEN RAY ELSE RAY, n |-> n \div 2]
  <1>0. RAY \in Nat \ {0}
    BY FeedAssumption
  <1>1. s \in Ones
    BY <1>0
  <1>2. ASSUME NEW r \in Ones PROVE rpowerRound(r) \in Ones
    <2>1. r.x = RAY /\ r.z = RAY /\ r.n \div 2 \in Nat
      OBVIOUS
    <2> QED
      BY <2>1, RayTimesRay DEF rpowerRound
  <1>3. rpowerRounds(RAY, n)[n] \in Ones
    <2> HIDE DEF Ones
    <2> QED
      BY <1>1, <1>2, RpowerRoundsIn
  <1> QED
    BY <1>0, <1>3 DEF rpower

\* A power of a natural is a natural.
LEMMA PowerNat == ASSUME NEW x \in Nat, NEW n \in Nat PROVE rpower(x, n) \in Nat
  <1> DEFINE L == [x : Nat, z : Nat, n : Nat]
  <1>0. RAY \in Nat \ {0}
    BY FeedAssumption
  <1>1. \A a, b \in Nat : rmulRound(a, b) \in Nat
    <2> TAKE a, b \in Nat
    <2>1. a * b \in Nat /\ RAY \div 2 \in Nat
      BY <1>0
    <2>2. a * b + RAY \div 2 \in Nat
      BY <2>1
    <2> QED
      BY <1>0, <2>2 DEF rmulRound
  <1>2. ASSUME NEW s \in L PROVE rpowerRound(s) \in L
    <2>1. s.x \in Nat /\ s.z \in Nat /\ s.n \in Nat /\ s.n \div 2 \in Nat
      OBVIOUS
    <2>2. rmulRound(s.x, s.x) \in Nat
      BY <1>1, <2>1
    <2>3. rmulRound(s.z, rmulRound(s.x, s.x)) \in Nat
      BY <1>1, <2>1, <2>2
    <2> QED
      BY <2>1, <2>2, <2>3 DEF rpowerRound
  <1>3. [x |-> x, z |-> IF n % 2 = 0 THEN RAY ELSE x, n |-> n \div 2] \in L
    BY <1>0
  <1>4. rpowerRounds(x, n)[n] \in L
    <2> HIDE DEF L
    <2> QED
      BY <1>2, <1>3, RpowerRoundsIn
  <1> QED
    BY <1>0, <1>4 DEF rpower

\* updateRate keeps the storage in order, and sets the rate to one until the pool is set.
LEMMA RatesInOrder ==
  ASSUME NEW f, FeedOK(f), NEW g \in updatedRates(f)
  PROVE  /\ FeedOK(g) /\ (~g.poolSet => g.redemptionRate = RAY)
         /\ g.deviationFactor = f.deviationFactor
         /\ g.poolSet = f.poolSet /\ g.addressesSet = f.addressesSet
  <1>1. PICK r \in Nat : g = [f EXCEPT !.redemptionRate = r] /\ (~f.poolSet => r = RAY)
    BY FeedAssumption DEF updatedRates
  <1> QED
    BY <1>1, FeedAssumption DEF FeedOK, FeedStorage

\* updateLEDPrice touches neither the rate nor the factor.
LEMMA PricesInOrder ==
  ASSUME NEW f, FeedOK(f), NEW g \in updatedLEDPrices(f), feedTime \in Nat
  PROVE  /\ FeedOK(g) /\ g.redemptionRate = f.redemptionRate
         /\ g.deviationFactor = f.deviationFactor
         /\ g.poolSet = f.poolSet /\ g.addressesSet = f.addressesSet
  <1>1. PICK q \in Nat : g = [f EXCEPT !.LEDPrice = q, !.LEDPriceUpdateTime = feedTime]
    BY FeedAssumption DEF updatedLEDPrices
  <1> QED
    BY <1>1 DEF FeedOK, FeedStorage

\* updateDeviationFactor keeps the storage in order; with a rate of one the factor becomes
\* one, whatever it was.
LEMMA FactorInOrder ==
  ASSUME NEW f, FeedOK(f), feedTime \in Nat, feedTime > 0
  PROVE  LET g == updatedDeviationFactor(f)
         IN  /\ FeedOK(g)
             /\ ~g.poolSet /\ f.redemptionRate = RAY => BothOne(g)
             /\ g.poolSet = f.poolSet /\ g.addressesSet = f.addressesSet
  <1> DEFINE factor == IF f.deviationFactor = 0 THEN RAY ELSE f.deviationFactor
             since == IF f.deviationFactorUpdateTime = 0 THEN feedTime - 1
                      ELSE f.deviationFactorUpdateTime
             power == rpower(f.redemptionRate, feedTime - since)
             v == rmultiply(power, factor)
             g == updatedDeviationFactor(f)
  <1>0. RAY \in Nat \ {0}
    BY FeedAssumption
  <1>1. g = [f EXCEPT !.deviationFactor = v, !.deviationFactorUpdateTime = feedTime]
    BY DEF updatedDeviationFactor
  <1>2. /\ f.redemptionRate \in Nat /\ factor \in Nat /\ feedTime - since \in Nat
        /\ ~f.poolSet => factor = RAY
    BY <1>0 DEF FeedOK, FeedStorage
  <1> HIDE DEF factor, since
  <1>3. power \in Nat
    BY <1>2, PowerNat
  <1>4. /\ f.redemptionRate = RAY => power = RAY
        /\ f.redemptionRate = 0 => power \in {0, RAY}
    BY <1>0, <1>2, RayPower DEF rpower
  <1> HIDE DEF power
  <1>5. v \in Nat
    <2>1. power * factor \in Nat
      BY <1>2, <1>3
    <2> QED
      BY <1>0, <2>1 DEF rmultiply
  <1>6. ~f.poolSet => /\ f.redemptionRate = RAY => v = RAY
                      /\ v \in {0, RAY}
    <2>1. rmultiply(0, RAY) = 0
      BY <1>0 DEF rmultiply
    <2> QED
      BY <1>2, <1>4, <2>1, RayTimesRay DEF FeedOK
  <1> HIDE DEF v, g
  <1>7. /\ g \in FeedStorage /\ g.deviationFactor = v
        /\ g.deviationFactorUpdateTime = feedTime /\ g.redemptionRate = f.redemptionRate
        /\ g.poolSet = f.poolSet /\ g.addressesSet = f.addressesSet
    BY <1>1, <1>5 DEF FeedOK, FeedStorage
  <1>8. FeedOK(g) /\ (~g.poolSet /\ f.redemptionRate = RAY => BothOne(g))
    BY <1>6, <1>7 DEF FeedOK, BothOne
  <1> QED
    BY <1>7, <1>8 DEF g

\* updateAll leaves both at one until the pool is set, whatever was called before it.
LEMMA AllInOrder ==
  ASSUME NEW f, FeedOK(f), NEW g \in updatedAll(f), feedTime \in Nat, feedTime > 0
  PROVE  FeedOK(g) /\ (~g.poolSet => BothOne(g))
  <1>1. PICK h \in updatedRates(f) : \E k \in updatedLEDPrices(h) :
          g = updatedDeviationFactor(k)
    BY DEF updatedAll
  <1>2. PICK k \in updatedLEDPrices(h) : g = updatedDeviationFactor(k)
    BY <1>1
  <1>3. FeedOK(h) /\ (~h.poolSet => h.redemptionRate = RAY)
    BY RatesInOrder
  <1>4. FeedOK(k) /\ k.redemptionRate = h.redemptionRate /\ k.poolSet = h.poolSet
    BY <1>3, PricesInOrder
  <1> QED
    BY <1>2, <1>3, <1>4, FactorInOrder

\* The initial state satisfies the inductive invariant.
LEMMA FeedInitInv == FeedInit => FeedInv
  <1> SUFFICES ASSUME FeedInit PROVE FeedInv
    OBVIOUS
  <1>1. feed \in FeedStorage
    BY DEF FeedInit, FeedStorage
  <1> QED
    BY <1>1, FeedAssumption DEF FeedInit, FeedInv, FeedOK

\* Every step keeps the inductive invariant.
LEMMA FeedNextInv == FeedInv /\ [FeedNext]_feedVars => FeedInv'
  <1> SUFFICES ASSUME FeedInv, [FeedNext]_feedVars PROVE FeedInv'
    OBVIOUS
  <1>0. feedTime \in Nat /\ feedTime > 0 /\ FeedOK(feed)
    BY DEF FeedInv
  <1>1. CASE UNCHANGED feedVars
    BY <1>1 DEF feedVars, FeedInv, FeedOK, BothOne
  <1>2. CASE updateRate
    <2>1. feed' \in updatedRates(feed) /\ feedTime' = feedTime
      BY <1>2 DEF updateRate
    <2>2. /\ FeedOK(feed') /\ (~feed'.poolSet => feed'.redemptionRate = RAY)
          /\ feed'.deviationFactor = feed.deviationFactor
          /\ feed'.poolSet = feed.poolSet /\ feed'.addressesSet = feed.addressesSet
      BY <1>0, <2>1, RatesInOrder
    <2> QED
      BY <2>1, <2>2 DEF FeedInv, FeedOK, BothOne
  <1>3. CASE updateLEDPrice
    BY <1>0, <1>3, PricesInOrder DEF updateLEDPrice, FeedInv, FeedOK, BothOne
  <1>4. CASE updateDeviationFactor
    BY <1>0, <1>4, FactorInOrder DEF updateDeviationFactor, FeedInv, FeedOK, BothOne
  <1>5. CASE updateAll
    BY <1>0, <1>5, AllInOrder DEF updateAll, FeedInv, FeedOK, BothOne
  <1>6. CASE setAddresses
    <2>0. PICK f : f = [feed EXCEPT !.addressesSet = TRUE]
      OBVIOUS
    <2>1. f = [owned |-> feed.owned, addressesSet |-> TRUE, poolSet |-> feed.poolSet,
               redemptionRate |-> feed.redemptionRate, LEDPrice |-> feed.LEDPrice,
               LEDPriceUpdateTime |-> feed.LEDPriceUpdateTime,
               deviationFactor |-> feed.deviationFactor,
               deviationFactorUpdateTime |-> feed.deviationFactorUpdateTime]
      BY <1>0, <2>0 DEF FeedOK, FeedStorage
    <2>2. f \in FeedStorage
      BY <1>0, <2>1 DEF FeedOK, FeedStorage
    <2>3. FeedOK(f)
      BY <1>0, <2>1, <2>2 DEF FeedOK
    <2>4. feed' \in updatedAll(f) /\ feedTime' = feedTime
      BY <1>6, <2>0 DEF setAddresses
    <2> QED
      BY <1>0, <2>3, <2>4, AllInOrder DEF FeedInv, FeedOK, BothOne
  <1>7. CASE setUniV3PoolAddress
    <2>1. feed' = [owned |-> FALSE, addressesSet |-> feed.addressesSet, poolSet |-> TRUE,
                   redemptionRate |-> feed.redemptionRate, LEDPrice |-> feed.LEDPrice,
                   LEDPriceUpdateTime |-> feed.LEDPriceUpdateTime,
                   deviationFactor |-> feed.deviationFactor,
                   deviationFactorUpdateTime |-> feed.deviationFactorUpdateTime]
      BY <1>0, <1>7 DEF setUniV3PoolAddress, FeedOK, FeedStorage
    <2>2. feed' \in FeedStorage
      BY <1>0, <2>1 DEF FeedOK, FeedStorage
    <2> QED
      BY <1>0, <1>7, <2>1, <2>2 DEF setUniV3PoolAddress, FeedInv, FeedOK
  <1>8. CASE FeedWaits
    BY <1>8 DEF FeedWaits, FeedInv, FeedOK, FeedStorage, BothOne
  <1> QED
    BY <1>1, <1>2, <1>3, <1>4, <1>5, <1>6, <1>7, <1>8 DEF FeedNext

\* Until the pool is set the redemption price is the oracle's, in whatever order and
\* however early the maintenance functions were called, for every unit of the rate.
THEOREM FeedAlwaysTracksOracle == FeedSpec => []FeedTracksOracle
  <1>1. FeedInv => FeedTracksOracle
    <2> SUFFICES ASSUME FeedInv, feed.addressesSet, ~feed.poolSet
                 PROVE  (feed.LEDPrice * RAY) \div RAY = feed.LEDPrice
      BY DEF FeedTracksOracle, FeedInv, BothOne, getRedemptionPrice, rmultiply
    <2>1. feed.LEDPrice \in Nat
      BY DEF FeedInv, FeedOK, FeedStorage
    <2> QED
      BY <2>1, FeedAssumption
  <1> QED
    BY <1>1, FeedInitInv, FeedNextInv, PTL DEF FeedSpec

-----------------------------------------------------------------------------
(***************************************************************************)
(* The base rate.  That waiting never raises the rate needs that the power *)
(* of the decay factor, rounded in every round of the loop, falls with the *)
(* exponent: the runs of the loop for m and for m + 1 minutes are compared *)
(* round by round.                                                         *)
(***************************************************************************)

\* The states of the loop, for a factor of at most one.
Loop == [x : 0..RateUnit, y : 0..RateUnit, n : Nat]

\* Rounded multiplication of parts of one: the result is one too, one is neutral, and a
\* larger factor gives no smaller product.
LEMMA DecMulFacts ==
  ASSUME NEW a \in 0..RateUnit, NEW b \in 0..RateUnit
  PROVE  /\ decMul(a, b) \in 0..RateUnit
         /\ decMul(a, RateUnit) = a
         /\ decMul(a, b) <= a
         /\ \A c \in 0..RateUnit : b <= c => decMul(a, b) <= decMul(a, c)
  <1> USE BaseRateAssumption
  <1> DEFINE U == RateUnit
             H == RateUnit \div 2
  <1>1. U \in Nat /\ U > 0 /\ H \in Nat /\ H < U
    OBVIOUS
  <1> HIDE DEF U, H
  <1>2. \A c, d \in Nat : c <= d => c \div U <= d \div U
    BY <1>1
  <1>3. \A c, d \in Nat : c * d \in Nat
    OBVIOUS
  <1>4. a \in Nat /\ b \in Nat /\ a <= U /\ b <= U
    BY <1>1 DEF U
  <1>5. (a * U + H) \div U = a
    BY <1>1, <1>4
  <1>6. a * b <= a * U
    BY <1>1, <1>4
  <1>7. (a * b + H) \div U <= (a * U + H) \div U /\ (a * b + H) \div U \in Nat
    BY <1>1, <1>2, <1>3, <1>4, <1>6
  <1>8. ASSUME NEW c \in 0..RateUnit, b <= c
        PROVE  (a * b + H) \div U <= (a * c + H) \div U
    <2>1. c \in Nat /\ a * b <= a * c
      BY <1>4, <1>8
    <2> QED
      BY <1>1, <1>2, <1>3, <1>4, <2>1
  <1>9. /\ decMul(a, RateUnit) = a
        /\ decMul(a, b) <= a /\ decMul(a, b) \in Nat
    <2>1. decMul(a, RateUnit) = (a * U + H) \div U /\ decMul(a, b) = (a * b + H) \div U
      BY DEF decMul, U, H
    <2> QED
      BY <1>5, <1>7, <2>1
  <1>10. ASSUME NEW c \in 0..RateUnit, b <= c PROVE decMul(a, b) <= decMul(a, c)
    BY <1>8, <1>10 DEF decMul, U, H
  <1>11. decMul(a, b) \in 0..RateUnit
    BY <1>1, <1>4, <1>9 DEF U
  <1> QED
    BY <1>9, <1>10, <1>11

\* What a round does, case by case.
LEMMA RoundCases ==
  ASSUME NEW s \in Loop
  PROVE  /\ s.n <= 1 => decPowRound(s) = s
         /\ \A k \in Nat \ {0} : s.n = 2 * k =>
              decPowRound(s) = [x |-> decMul(s.x, s.x), y |-> s.y, n |-> k]
         /\ \A k \in Nat \ {0} : s.n = 2 * k + 1 =>
              decPowRound(s) = [x |-> decMul(s.x, s.x), y |-> decMul(s.x, s.y), n |-> k]
         /\ decPowRound(s) \in Loop
         /\ s.n > 1 => decPowRound(s).n < s.n
         /\ powRound(s) = decPowRound(s)
  <1>0. /\ s.x \in 0..RateUnit /\ s.y \in 0..RateUnit /\ s.n \in Nat
        /\ decMul(s.x, s.x) \in 0..RateUnit /\ decMul(s.x, s.y) \in 0..RateUnit
    BY DecMulFacts DEF Loop
  <1>1. \/ s.n <= 1
        \/ \E k \in Nat \ {0} : s.n = 2 * k
        \/ \E k \in Nat \ {0} : s.n = 2 * k + 1
    <2>1. s.n = 2 * (s.n \div 2) \/ s.n = 2 * (s.n \div 2) + 1
      BY <1>0
    <2>2. s.n > 1 => s.n \div 2 \in Nat \ {0}
      BY <1>0
    <2> QED
      BY <1>0, <2>1, <2>2
  <1>2. s.n <= 1 => decPowRound(s) = s /\ powRound(s) = s
    BY <1>0 DEF decPowRound, powRound
  <1>3. ASSUME NEW k \in Nat \ {0}, s.n = 2 * k
        PROVE  /\ decPowRound(s) = [x |-> decMul(s.x, s.x), y |-> s.y, n |-> k]
               /\ powRound(s) = [x |-> decMul(s.x, s.x), y |-> s.y, n |-> k]
    <2>1. ~(s.n <= 1) /\ s.n > 1 /\ s.n % 2 = 0 /\ s.n \div 2 = k
      BY <1>3
    <2> QED
      BY <2>1 DEF decPowRound, powRound
  <1>4. ASSUME NEW k \in Nat \ {0}, s.n = 2 * k + 1
        PROVE  /\ decPowRound(s) =
                    [x |-> decMul(s.x, s.x), y |-> decMul(s.x, s.y), n |-> k]
               /\ powRound(s) =
                    [x |-> decMul(s.x, s.x), y |-> decMul(s.x, s.y), n |-> k]
    <2>1. ~(s.n <= 1) /\ s.n > 1 /\ s.n % 2 = 1 /\ s.n \div 2 = k /\ (s.n - 1) \div 2 = k
      BY <1>4
    <2> QED
      BY <2>1 DEF decPowRound, powRound
  <1>5. /\ decPowRound(s) \in Loop
        /\ s.n > 1 => decPowRound(s).n < s.n
        /\ powRound(s) = decPowRound(s)
    <2> DEFINE Done == /\ decPowRound(s) \in Loop
                       /\ s.n > 1 => decPowRound(s).n < s.n
                       /\ powRound(s) = decPowRound(s)
    <2>1. CASE s.n <= 1
      BY <1>0, <1>2, <2>1
    <2>2. ASSUME NEW k \in Nat \ {0}, s.n = 2 * k
          PROVE  Done
      BY <1>0, <1>3, <2>2 DEF Loop
    <2>3. ASSUME NEW k \in Nat \ {0}, s.n = 2 * k + 1
          PROVE  Done
      BY <1>0, <1>4, <2>3 DEF Loop
    <2> QED
      BY <1>1, <2>1, <2>2, <2>3
  <1> QED
    BY <1>2, <1>3, <1>4, <1>5

\* The rounds of the loop are what their recursive definition says.
LEMMA DecPowRoundsDef ==
  ASSUME NEW base \in 0..RateUnit, NEW m \in Nat
  PROVE  LET s == decPowRounds(base, m)
         IN  /\ s \in [Nat -> Loop]
             /\ s[0] = [x |-> base, y |-> RateUnit, n |-> m]
             /\ \A i \in Nat : s[i+1] = decPowRound(s[i])
  <1> DEFINE s0 == [x |-> base, y |-> RateUnit, n |-> m]
             step == [r \in Loop |-> decPowRound(r)]
             Def(s) == [i \in Nat |-> IF i = 0 THEN s0 ELSE decPowRound(s[i-1])]
  <1>1. s0 \in Loop
    BY BaseRateAssumption DEF Loop
  <1>2. step \in [Loop -> Loop]
    BY RoundCases
  <1> HIDE DEF s0
  <1>3. \E s : s = Def(s)
    <2>1. PICK t \in [Nat -> Loop] : t[0] = s0 /\ \A i \in Nat : t[i+1] = step[t[i]]
      <3>1. \E t : IsIteration(t, Loop, s0, step)
        <4> HIDE DEF step
        <4> QED
          BY <1>1, <1>2, Iteration
      <3> QED
        BY <3>1 DEF IsIteration
    <2>2. ASSUME NEW i \in Nat PROVE t[i] = IF i = 0 THEN s0 ELSE decPowRound(t[i-1])
      <3>1. CASE i = 0
        BY <2>1, <3>1
      <3>2. CASE i # 0
        <4>1. i - 1 \in Nat /\ (i - 1) + 1 = i
          BY <3>2
        <4>2. t[(i-1)+1] = step[t[i-1]] /\ t[i-1] \in Loop
          BY <2>1, <4>1
        <4> QED
          BY <3>2, <4>1, <4>2
      <3> QED
        BY <3>1, <3>2
    <2>3. t = Def(t)
      BY <2>2
    <2> QED
      BY <2>3
  <1>4. decPowRounds(base, m) = CHOOSE s : s = Def(s)
    BY DEF decPowRounds, s0
  <1> HIDE DEF Def
  <1>5. PICK s : s = Def(s) /\ s = decPowRounds(base, m)
    BY <1>3, <1>4
  <1>6. s = [i \in Nat |-> IF i = 0 THEN s0 ELSE decPowRound(s[i-1])]
    BY <1>5 DEF Def
  <1>7. s[0] = s0 /\ \A i \in Nat : s[i+1] = decPowRound(s[i])
    <2>1. s[0] = s0
      BY <1>6
    <2>2. ASSUME NEW i \in Nat PROVE s[i+1] = decPowRound(s[i])
      <3>1. i + 1 \in Nat /\ i + 1 # 0 /\ (i + 1) - 1 = i
        OBVIOUS
      <3> QED
        BY <1>6, <3>1
    <2> QED
      BY <2>1, <2>2
  <1>8. \A i \in Nat : s[i] \in Loop
    <2> DEFINE T == {i \in Nat : s[i] \in Loop}
    <2>1. 0 \in T
      BY <1>1, <1>7
    <2>2. ASSUME NEW i \in Nat, i \in T PROVE i + 1 \in T
      BY <1>7, <2>2, RoundCases
    <2> HIDE DEF T
    <2>3. \A i \in Nat : i \in T
      BY <2>1, <2>2, SetInduction
    <2> QED
      BY <2>3 DEF T
  <1>9. s \in [Nat -> Loop]
    BY <1>6, <1>8
  <1> QED
    BY <1>5, <1>7, <1>9 DEF s0

\* The client's loop takes the same rounds.
LEMMA PowRoundsSame ==
  ASSUME NEW base \in 0..RateUnit, NEW m \in Nat
  PROVE  \A i \in Nat : powRounds(base, m)[i] = decPowRounds(base, m)[i]
  <1> DEFINE s0 == [x |-> base, y |-> RateUnit, n |-> m]
             Def(s) == [i \in Nat |-> IF i = 0 THEN s0 ELSE powRound(s[i-1])]
  <1>1. PICK d : /\ d = decPowRounds(base, m) /\ d \in [Nat -> Loop] /\ d[0] = s0
                 /\ \A i \in Nat : d[i+1] = decPowRound(d[i])
    BY DecPowRoundsDef
  <1> HIDE DEF s0
  <1>2. \A i \in Nat : d[i+1] = powRound(d[i])
    BY <1>1, RoundCases
  <1>3. \A i \in Nat : d[i] = IF i = 0 THEN s0 ELSE powRound(d[i-1])
    <2> TAKE i \in Nat
    <2>1. CASE i = 0
      BY <1>1, <2>1
    <2>2. CASE i # 0
      <3>1. i - 1 \in Nat /\ (i - 1) + 1 = i
        BY <2>2
      <3> QED
        BY <1>2, <2>2, <3>1
    <2> QED
      BY <2>1, <2>2
  <1>4. d = Def(d)
    BY <1>1, <1>3
  <1>5. powRounds(base, m) = CHOOSE s : s = Def(s)
    BY DEF powRounds, s0
  <1> HIDE DEF Def
  <1>6. PICK s : s = Def(s) /\ s = powRounds(base, m)
    BY <1>4, <1>5
  <1>7. s = [i \in Nat |-> IF i = 0 THEN s0 ELSE powRound(s[i-1])]
    BY <1>6 DEF Def
  <1> DEFINE T == {i \in Nat : s[i] = d[i]}
  <1>8. 0 \in T
    BY <1>1, <1>7
  <1>9. ASSUME NEW i \in Nat, i \in T PROVE i + 1 \in T
    <2>1. i + 1 \in Nat /\ i + 1 # 0 /\ (i + 1) - 1 = i
      OBVIOUS
    <2>2. s[i+1] = powRound(s[i])
      BY <1>7, <2>1
    <2> QED
      BY <1>2, <1>9, <2>2
  <1> HIDE DEF T
  <1>10. \A i \in Nat : i \in T
    BY <1>8, <1>9, SetInduction
  <1> QED
    BY <1>1, <1>6, <1>10 DEF T

\* The client's powers are the contract's.
LEMMA SamePower ==
  ASSUME NEW base \in 0..RateUnit, NEW m \in Nat
  PROVE  pow(base, m) = decPow(base, m)
  <1>1. CASE m = 1
    <2>1. PICK s : /\ s = decPowRounds(base, m) /\ s \in [Nat -> Loop]
                   /\ s[0] = [x |-> base, y |-> RateUnit, n |-> m]
                   /\ \A i \in Nat : s[i+1] = decPowRound(s[i])
      BY DecPowRoundsDef
    <2>2. s[0].n <= 1 /\ s[0] \in Loop /\ s[0+1] = decPowRound(s[0])
      BY <1>1, <2>1
    <2>3. s[1] = s[0]
      BY <2>2, RoundCases
    <2>4. decPow(base, m) = decMul(base, RateUnit)
      BY <1>1, <2>1, <2>3 DEF decPow
    <2>5. decMul(base, RateUnit) = base
      BY DecMulFacts
    <2> QED
      BY <1>1, <2>4, <2>5 DEF pow
  <1>2. CASE m # 1
    BY <1>2, PowRoundsSame DEF pow, decPow
  <1> QED
    BY <1>1, <1>2

\* After as many rounds as the exponent, the loop has ended.
LEMMA LoopEnds ==
  ASSUME NEW base \in 0..RateUnit, NEW m \in Nat
  PROVE  decPowRounds(base, m)[m].n <= 1
  <1>1. PICK s : /\ s = decPowRounds(base, m) /\ s \in [Nat -> Loop]
                 /\ s[0] = [x |-> base, y |-> RateUnit, n |-> m]
                 /\ \A i \in Nat : s[i+1] = decPowRound(s[i])
    BY DecPowRoundsDef
  <1> DEFINE T == {i \in Nat : s[i].n <= 1 \/ s[i].n + i <= m}
  <1>2. 0 \in T
    BY <1>1
  <1>3. ASSUME NEW i \in Nat, i \in T PROVE i + 1 \in T
    <2>1. s[i] \in Loop /\ s[i+1] = decPowRound(s[i]) /\ s[i+1] \in Loop
      BY <1>1
    <2>2. s[i].n \in Nat /\ s[i+1].n \in Nat
      BY <2>1 DEF Loop
    <2>3. CASE s[i].n <= 1
      BY <2>1, <2>3, RoundCases
    <2>4. CASE s[i].n > 1
      <3>1. s[i+1].n < s[i].n
        BY <2>1, <2>4, RoundCases
      <3> QED
        BY <1>3, <2>2, <2>4, <3>1
    <2> QED
      BY <2>2, <2>3, <2>4
  <1> HIDE DEF T
  <1>4. m \in T
    BY <1>2, <1>3, SetInduction
  <1>5. s[m].n \in Nat
    BY <1>1 DEF Loop
  <1> QED
    BY <1>1, <1>4, <1>5 DEF T

\* The runs for m (state a) and m + 1 (state b) after the same number of rounds: the carry
\* has been absorbed, or is still on its way, or a has ended a round before b.
Absorbed(a, b) == a.x = b.x /\ a.n = b.n /\ a.n >= 1 /\ b.y <= a.y
Carrying(a, b) == a.x = b.x /\ b.n = a.n + 1 /\ a.n >= 1 /\ b.y = RateUnit /\ a.x <= a.y
OneBehind(a, b) ==
  /\ a.n = 1 /\ b.n = 1 /\ b.x = decMul(a.x, a.x) /\ b.y = RateUnit /\ a.x <= a.y
Paired(a, b) == Absorbed(a, b) \/ Carrying(a, b) \/ OneBehind(a, b)

\* A natural is zero or one, twice another, or one more than that.
LEMMA Halves ==
  ASSUME NEW n \in Nat
  PROVE  n <= 1 \/ \E k \in Nat \ {0} : n = 2 * k \/ n = 2 * k + 1
  <1>1. n = 2 * (n \div 2) \/ n = 2 * (n \div 2) + 1
    OBVIOUS
  <1>2. n > 1 => n \div 2 \in Nat \ {0}
    OBVIOUS
  <1> QED
    BY <1>1, <1>2

\* A round of both runs keeps them paired.
LEMMA RoundKeepsPaired ==
  ASSUME NEW a \in Loop, NEW b \in Loop, Paired(a, b)
  PROVE  Paired(decPowRound(a), decPowRound(b))
  <1>0. /\ a.x \in 0..RateUnit /\ a.y \in 0..RateUnit /\ a.n \in Nat
        /\ b.x \in 0..RateUnit /\ b.y \in 0..RateUnit /\ b.n \in Nat
        /\ RateUnit \in 0..RateUnit
    BY BaseRateAssumption DEF Loop
  <1>1. CASE Absorbed(a, b)
    <2>1. CASE a.n <= 1
      <3>1. decPowRound(a) = a /\ decPowRound(b) = b
        BY <1>1, <2>1, RoundCases DEF Absorbed
      <3> QED
        BY <3>1
    <2>2. ASSUME NEW k \in Nat \ {0}, a.n = 2 * k
          PROVE  Paired(decPowRound(a), decPowRound(b))
      <3>1. /\ decPowRound(a) = [x |-> decMul(a.x, a.x), y |-> a.y, n |-> k]
            /\ decPowRound(b) = [x |-> decMul(a.x, a.x), y |-> b.y, n |-> k]
        BY <1>1, <2>2, RoundCases DEF Absorbed
      <3> QED
        BY <1>1, <3>1 DEF Paired, Absorbed
    <2>3. ASSUME NEW k \in Nat \ {0}, a.n = 2 * k + 1
          PROVE  Paired(decPowRound(a), decPowRound(b))
      <3>1. /\ decPowRound(a) = [x |-> decMul(a.x, a.x), y |-> decMul(a.x, a.y), n |-> k]
            /\ decPowRound(b) = [x |-> decMul(a.x, a.x), y |-> decMul(a.x, b.y), n |-> k]
        BY <1>1, <2>3, RoundCases DEF Absorbed
      <3>2. decMul(a.x, b.y) <= decMul(a.x, a.y)
        BY <1>0, <1>1, DecMulFacts DEF Absorbed
      <3> QED
        BY <3>1, <3>2 DEF Paired, Absorbed
    <2> QED
      BY <1>0, <2>1, <2>2, <2>3, Halves
  <1>2. CASE Carrying(a, b)
    <2>1. CASE a.n <= 1
      <3>1. a.n = 1 /\ b.n = 2 * 1
        BY <1>0, <1>2, <2>1 DEF Carrying
      <3>2. /\ decPowRound(a) = a
            /\ decPowRound(b) = [x |-> decMul(b.x, b.x), y |-> b.y, n |-> 1]
        <4>1. a.n <= 1 /\ 1 \in Nat \ {0}
          BY <3>1
        <4>2. decPowRound(a) = a
          BY <4>1, RoundCases
        <4> QED
          BY <3>1, <4>1, <4>2, RoundCases
      <3> QED
        BY <1>2, <3>1, <3>2 DEF Carrying, Paired, OneBehind
    <2>2. ASSUME NEW k \in Nat \ {0}, a.n = 2 * k
          PROVE  Paired(decPowRound(a), decPowRound(b))
      <3>1. b.n = 2 * k + 1
        BY <1>2, <2>2 DEF Carrying
      <3>2. /\ decPowRound(a) = [x |-> decMul(a.x, a.x), y |-> a.y, n |-> k]
            /\ decPowRound(b) = [x |-> decMul(b.x, b.x), y |-> decMul(b.x, b.y), n |-> k]
        BY <2>2, <3>1, RoundCases
      <3>3. decMul(b.x, b.y) = a.x
        BY <1>0, <1>2, DecMulFacts DEF Carrying
      <3> QED
        BY <1>2, <3>2, <3>3 DEF Carrying, Paired, Absorbed
    <2>3. ASSUME NEW k \in Nat \ {0}, a.n = 2 * k + 1
          PROVE  Paired(decPowRound(a), decPowRound(b))
      <3>1. b.n = 2 * (k + 1) /\ k + 1 \in Nat \ {0}
        BY <1>2, <2>3 DEF Carrying
      <3>2. /\ decPowRound(a) = [x |-> decMul(a.x, a.x), y |-> decMul(a.x, a.y), n |-> k]
            /\ decPowRound(b) = [x |-> decMul(b.x, b.x), y |-> b.y, n |-> k + 1]
        BY <2>3, <3>1, RoundCases
      <3>3. decMul(a.x, a.x) <= decMul(a.x, a.y)
        BY <1>0, <1>2, DecMulFacts DEF Carrying
      <3> QED
        BY <1>2, <3>2, <3>3 DEF Carrying, Paired
    <2> QED
      BY <1>0, <2>1, <2>2, <2>3, Halves
  <1>3. CASE OneBehind(a, b)
    <2>1. decPowRound(a) = a /\ decPowRound(b) = b
      BY <1>3, RoundCases DEF OneBehind
    <2> QED
      BY <2>1
  <1> QED
    BY <1>1, <1>2, <1>3 DEF Paired

\* A power of a part of one is a part of one, and one minute more never raises it.
LEMMA PowerFalls ==
  ASSUME NEW base \in 0..RateUnit, NEW m \in Nat
  PROVE  /\ decPow(base, m) \in 0..RateUnit
         /\ decPow(base, m + 1) <= decPow(base, m)
  <1>0. RateUnit \in Nat /\ RateUnit \in 0..RateUnit
    BY BaseRateAssumption
  <1>1. \A k \in Nat : decPow(base, k) \in 0..RateUnit
    <2> TAKE k \in Nat
    <2>1. decPowRounds(base, k)[k] \in Loop
      BY DecPowRoundsDef
    <2> QED
      BY <1>0, <2>1, DecMulFacts DEF decPow, Loop
  <1>2. CASE m = 0
    <2>1. decPow(base, m) = RateUnit /\ decPow(base, m + 1) \in 0..RateUnit
      BY <1>1, <1>2 DEF decPow
    <2> QED
      BY <1>0, <2>1
  <1>3. CASE m # 0
    <2>1. PICK s : /\ s = decPowRounds(base, m) /\ s \in [Nat -> Loop]
                   /\ s[0] = [x |-> base, y |-> RateUnit, n |-> m]
                   /\ \A i \in Nat : s[i+1] = decPowRound(s[i])
      BY DecPowRoundsDef
    <2>2. PICK t : /\ t = decPowRounds(base, m + 1) /\ t \in [Nat -> Loop]
                   /\ t[0] = [x |-> base, y |-> RateUnit, n |-> m + 1]
                   /\ \A i \in Nat : t[i+1] = decPowRound(t[i])
      BY DecPowRoundsDef
    <2> DEFINE T == {i \in Nat : Paired(s[i], t[i])}
    <2>3. 0 \in T
      BY <1>3, <2>1, <2>2 DEF Paired, Carrying
    <2>4. ASSUME NEW i \in Nat, i \in T PROVE i + 1 \in T
      BY <2>1, <2>2, <2>4, RoundKeepsPaired
    <2> HIDE DEF T
    <2>5. m + 1 \in T
      BY <2>3, <2>4, SetInduction
    <2>6. s[m].n <= 1 /\ t[m+1].n <= 1
      BY <2>1, <2>2, LoopEnds
    <2>7. s[m+1] = s[m]
      BY <2>1, <2>6, RoundCases
    <2> DEFINE a == s[m]
               b == t[m+1]
    <2>8. Paired(a, b) /\ a \in Loop /\ b \in Loop
      BY <2>1, <2>2, <2>5, <2>7 DEF T
    <2>9. decPow(base, m) = decMul(a.x, a.y) /\ decPow(base, m + 1) = decMul(b.x, b.y)
      BY <1>3, <2>1, <2>2 DEF decPow
    <2> HIDE DEF a, b
    <2>10. /\ a.x \in 0..RateUnit /\ a.y \in 0..RateUnit /\ a.n \in Nat
           /\ b.x \in 0..RateUnit /\ b.y \in 0..RateUnit /\ b.n \in Nat
      BY <2>8 DEF Loop
    <2>11. CASE Absorbed(a, b)
      <3>1. decMul(a.x, b.y) <= decMul(a.x, a.y)
        BY <2>10, <2>11, DecMulFacts DEF Absorbed
      <3> QED
        BY <1>1, <2>9, <2>11, <3>1 DEF Absorbed
    <2>12. CASE Carrying(a, b)
      BY <2>6, <2>10, <2>12 DEF Carrying, a, b
    <2>13. CASE OneBehind(a, b)
      <3>1. decMul(b.x, b.y) = decMul(a.x, a.x)
        BY <2>10, <2>13, DecMulFacts DEF OneBehind
      <3>2. decMul(a.x, a.x) <= decMul(a.x, a.y)
        BY <2>10, <2>13, DecMulFacts DEF OneBehind
      <3> QED
        BY <1>1, <2>9, <3>1, <3>2
    <2> QED
      BY <1>1, <2>8, <2>11, <2>12, <2>13 DEF Paired
  <1> QED
    BY <1>1, <1>2, <1>3

\* The rate is a part of one, no fee operation is noted in the future, and the decay is
\* not postponed.
RateInv ==
  /\ baseRate \in 0..RateUnit /\ decayedMinutes \in Nat
  /\ lastFeeOperationTime \in Nat /\ blockTime \in Nat
  /\ lastFeeOperationTime <= blockTime
  /\ DecayIsNotPostponed

\* Whole minutes: at least half of a time of a minute or more is counted.
LEMMA MinutesPassed ==
  ASSUME NEW t \in Nat, NEW sec \in Nat \ {0}
  PROVE  /\ t \div sec \in Nat
         /\ t < sec => t \div sec = 0
         /\ t >= sec => 2 * sec * (t \div sec) >= t
         /\ (t + 1) \div sec \in {t \div sec, t \div sec + 1}
  <1> DEFINE q == t \div sec
             r == t % sec
  <1>1. q \in Nat /\ r \in 0..(sec - 1) /\ t = sec * q + r
    OBVIOUS
  <1>2. t < sec => q = 0
    OBVIOUS
  <1> HIDE DEF q, r
  <1>3. ASSUME t >= sec PROVE 2 * sec * q >= t
    <2>1. q >= 1
      BY <1>1, <1>3
    <2>2. sec * q >= sec /\ sec * q \in Nat
      BY <1>1, <2>1
    <2> QED
      BY <1>1, <2>2
  <1>4. (t + 1) \div sec \in {q, q + 1}
    <2>1. CASE r < sec - 1
      BY <1>1, <2>1
    <2>2. CASE r = sec - 1
      <3>1. t + 1 = sec * (q + 1)
        BY <1>1, <2>2
      <3> QED
        BY <1>1, <3>1
    <2> QED
      BY <1>1, <2>1, <2>2
  <1> QED
    BY <1>1, <1>2, <1>3, <1>4 DEF q

\* One is neutral.
LEMMA ScaledByOne ==
  ASSUME NEW a \in Nat, NEW U \in Nat \ {0}
  PROVE  (a * U) \div U = a
  OBVIOUS

\* A smaller factor gives no larger part, rounded down.
LEMMA ScaledMono ==
  ASSUME NEW a \in Nat, NEW f \in Nat, NEW g \in Nat, NEW U \in Nat \ {0}, g <= f
  PROVE  (a * g) \div U <= (a * f) \div U
  <1>1. a * g <= a * f /\ a * g \in Nat /\ a * f \in Nat
    OBVIOUS
  <1> QED
    BY <1>1

\* The minutes since the last noted fee operation, and the rate decayed by them.
LEMMA DecayFacts ==
  ASSUME RateInv
  PROVE  /\ minutesPassedSinceLastFeeOp \in Nat
         /\ decPow(MINUTE_DECAY_FACTOR, minutesPassedSinceLastFeeOp) \in 0..RateUnit
         /\ decayedBaseRate \in 0..RateUnit
         /\ minutesPassedSinceLastFeeOp = 0 => decayedBaseRate = baseRate
  <1>1. blockTime - lastFeeOperationTime \in Nat
    BY DEF RateInv
  <1>2. minutesPassedSinceLastFeeOp \in Nat
    BY <1>1, BaseRateAssumption DEF minutesPassedSinceLastFeeOp
  <1>3. MINUTE_DECAY_FACTOR \in 0..RateUnit
    BY BaseRateAssumption
  <1> DEFINE f == decPow(MINUTE_DECAY_FACTOR, minutesPassedSinceLastFeeOp)
  <1>4. f \in 0..RateUnit
    BY <1>2, <1>3, PowerFalls
  <1>5. minutesPassedSinceLastFeeOp = 0 => f = RateUnit
    BY DEF decPow
  <1>6. decayedBaseRate = (baseRate * f) \div RateUnit
    BY DEF decayedBaseRate
  <1> HIDE DEF f
  <1>7. RateUnit \in Nat /\ RateUnit > 0 /\ baseRate \in Nat /\ baseRate <= RateUnit
          /\ f \in Nat /\ f <= RateUnit
    BY <1>4, BaseRateAssumption DEF RateInv
  <1>8. (baseRate * RateUnit) \div RateUnit = baseRate
    BY <1>7
  <1>9. baseRate * f \in Nat /\ baseRate * f <= baseRate * RateUnit
          /\ baseRate * RateUnit \in Nat
    BY <1>7
  <1>10. (baseRate * f) \div RateUnit <= (baseRate * RateUnit) \div RateUnit
    BY <1>7, <1>9
  <1>11. (baseRate * f) \div RateUnit \in Nat
    BY <1>7, <1>9
  <1>12. decayedBaseRate \in 0..RateUnit
    BY <1>6, <1>7, <1>8, <1>10, <1>11
  <1>13. minutesPassedSinceLastFeeOp = 0 => decayedBaseRate = baseRate
    BY <1>5, <1>6, <1>8
  <1> QED
    BY <1>2, <1>4, <1>12, <1>13 DEF f

\* A fee operation notes the time and counts the minutes so that the decay is not
\* postponed.
LEMMA FeeOpInTime ==
  ASSUME RateInv, updateLastFeeOpTime, blockTime' = blockTime,
         decayedMinutes' = decayedMinutes + minutesPassedSinceLastFeeOp
  PROVE  /\ decayedMinutes' \in Nat /\ lastFeeOperationTime' \in Nat
         /\ lastFeeOperationTime' <= blockTime /\ DecayIsNotPostponed'
         /\ minutesPassedSinceLastFeeOp' = 0
         /\ minutesPassedSinceLastFeeOp = 0 => lastFeeOperationTime' = lastFeeOperationTime
  <1> DEFINE t == blockTime - lastFeeOperationTime
             sec == SECONDS_IN_ONE_MINUTE
             q == minutesPassedSinceLastFeeOp
  <1>1. t \in Nat /\ sec \in Nat \ {0} /\ q = t \div sec
    BY BaseRateAssumption DEF RateInv, minutesPassedSinceLastFeeOp
  <1>2. /\ q \in Nat /\ (t < sec => q = 0) /\ (t >= sec => 2 * sec * q >= t)
    BY <1>1, MinutesPassed
  <1>3. t >= sec => q # 0
    BY <1>1
  <1>4. /\ decayedMinutes \in Nat /\ lastFeeOperationTime \in Nat /\ blockTime \in Nat
        /\ lastFeeOperationTime <= blockTime
        /\ 2 * sec * decayedMinutes >= lastFeeOperationTime
    BY DEF RateInv, DecayIsNotPostponed
  <1>5. lastFeeOperationTime' = IF t >= sec THEN blockTime ELSE lastFeeOperationTime
    BY DEF updateLastFeeOpTime
  <1>6. t = blockTime - lastFeeOperationTime
    OBVIOUS
  <1> HIDE DEF t, sec, q
  <1>7. decayedMinutes' = decayedMinutes + q
    BY DEF q
  <1>8. 2 * sec * (decayedMinutes + q) = 2 * sec * decayedMinutes + 2 * sec * q
    BY <1>1, <1>2, <1>4
  <1>9. 2 * sec * decayedMinutes \in Nat /\ 2 * sec * q \in Nat
    BY <1>1, <1>2, <1>4
  <1>10. CASE t >= sec
    <2>1. lastFeeOperationTime' = blockTime
      BY <1>5, <1>10
    <2>2. 2 * sec * decayedMinutes' >= blockTime
      BY <1>2, <1>4, <1>6, <1>7, <1>8, <1>9, <1>10
    <2>3. minutesPassedSinceLastFeeOp' = 0 \div sec
      BY <1>4, <2>1 DEF minutesPassedSinceLastFeeOp, sec
    <2>4. 0 \div sec = 0
      BY <1>1
    <2> QED
      BY <1>2, <1>3, <1>4, <1>7, <1>10, <2>1, <2>2, <2>3, <2>4
        DEF DecayIsNotPostponed, sec, q
  <1>11. CASE t < sec
    <2>1. lastFeeOperationTime' = lastFeeOperationTime /\ q = 0
      BY <1>1, <1>2, <1>5, <1>11
    <2>2. decayedMinutes' = decayedMinutes
      BY <1>4, <1>7, <2>1
    <2>3. minutesPassedSinceLastFeeOp' = minutesPassedSinceLastFeeOp
      BY <2>1 DEF minutesPassedSinceLastFeeOp
    <2> QED
      BY <1>4, <2>1, <2>2, <2>3 DEF DecayIsNotPostponed, sec, q
  <1> QED
    BY <1>1, <1>10, <1>11

\* The initial state satisfies the inductive invariant.
LEMMA RateInitInv == RateInit => RateInv
  BY BaseRateAssumption DEF RateInit, RateInv, DecayIsNotPostponed

\* Every step keeps the inductive invariant.
LEMMA RateNextInv == RateInv /\ [RateNext]_rateVars => RateInv'
  <1> SUFFICES ASSUME RateInv, [RateNext]_rateVars PROVE RateInv'
    OBVIOUS
  <1>0. decayedBaseRate \in 0..RateUnit /\ RateUnit \in Nat
    BY DecayFacts, BaseRateAssumption
  <1>1. CASE UNCHANGED rateVars
    BY <1>1 DEF rateVars, RateInv, DecayIsNotPostponed
  <1>2. CASE decayBaseRateFromBorrowing
    BY <1>0, <1>2, FeeOpInTime DEF decayBaseRateFromBorrowing, RateInv
  <1>3. ASSUME NEW rise \in RateRises, updateBaseRateFromRedemption(rise)
        PROVE  RateInv'
    <2>1. rise \in Nat
      BY BaseRateAssumption
    <2>2. baseRate' \in 0..RateUnit
      BY <1>0, <1>3, <2>1 DEF updateBaseRateFromRedemption
    <2> QED
      BY <1>3, <2>2, FeeOpInTime DEF updateBaseRateFromRedemption, RateInv
  <1>4. CASE Wait
    BY <1>4 DEF Wait, RateInv, DecayIsNotPostponed
  <1> QED
    BY <1>1, <1>2, <1>3, <1>4 DEF RateNext

\* A step that is no redemption does not raise the decayed rate.
LEMMA OnlyRedemptionsRaise ==
  ASSUME RateInv, RateInv', [RateNext]_rateVars
  PROVE  \/ decayedBaseRate' <= decayedBaseRate
         \/ \E rise \in RateRises : updateBaseRateFromRedemption(rise)
  <1>0. decayedBaseRate \in 0..RateUnit /\ RateUnit \in Nat
    BY DecayFacts, BaseRateAssumption
  <1>1. CASE UNCHANGED rateVars
    <2>1. decayedBaseRate' = decayedBaseRate
      BY <1>1 DEF rateVars, decayedBaseRate, minutesPassedSinceLastFeeOp
    <2> QED
      BY <1>0, <2>1
  <1>2. CASE decayBaseRateFromBorrowing
    <2>1. minutesPassedSinceLastFeeOp' = 0 /\ baseRate' = decayedBaseRate
      BY <1>2, FeeOpInTime DEF decayBaseRateFromBorrowing
    <2>2. RateInv' => (minutesPassedSinceLastFeeOp' = 0 => decayedBaseRate' = baseRate')
      <3>1. decPow(MINUTE_DECAY_FACTOR, minutesPassedSinceLastFeeOp') = RateUnit
        BY <2>1 DEF decPow
      <3>2. baseRate' \in Nat /\ RateUnit \in Nat \ {0}
        BY <1>0, <2>1, BaseRateAssumption
      <3>3. (baseRate' * RateUnit) \div RateUnit = baseRate'
        BY <3>2, ScaledByOne
      <3> QED
        BY <3>1, <3>3 DEF decayedBaseRate
    <2> QED
      BY <1>0, <2>1, <2>2
  <1>3. CASE Wait
    <2> DEFINE m == minutesPassedSinceLastFeeOp
               t == blockTime - lastFeeOperationTime
               f == decPow(MINUTE_DECAY_FACTOR, m)
    <2>1. m \in Nat /\ MINUTE_DECAY_FACTOR \in 0..RateUnit
      BY DecayFacts, BaseRateAssumption
    <2>2. m' \in {m, m + 1}
      <3>1. t \in Nat /\ (blockTime + 1) - lastFeeOperationTime = t + 1
        BY DEF RateInv
      <3>2. m' = (t + 1) \div SECONDS_IN_ONE_MINUTE /\ m = t \div SECONDS_IN_ONE_MINUTE
        BY <1>3, <3>1 DEF Wait, minutesPassedSinceLastFeeOp
      <3> HIDE DEF t, m
      <3> QED
        BY <3>1, <3>2, MinutesPassed, BaseRateAssumption
    <2>3. PICK g : g = decPow(MINUTE_DECAY_FACTOR, m')
      OBVIOUS
    <2>4. /\ decayedBaseRate = (baseRate * f) \div RateUnit
          /\ decayedBaseRate' = (baseRate * g) \div RateUnit
      BY <1>3, <2>3 DEF Wait, decayedBaseRate
    <2> HIDE DEF m
    <2>5. f \in 0..RateUnit /\ g \in 0..RateUnit /\ g <= f
      <3>1. /\ f \in 0..RateUnit
            /\ decPow(MINUTE_DECAY_FACTOR, m + 1) \in 0..RateUnit
            /\ decPow(MINUTE_DECAY_FACTOR, m + 1) <= f
        <4>1. m + 1 \in Nat
          BY <2>1
        <4>2. decPow(MINUTE_DECAY_FACTOR, m + 1) \in 0..RateUnit
          BY <2>1, <4>1, PowerFalls
        <4> QED
          BY <2>1, <4>2, PowerFalls
      <3> HIDE DEF f
      <3>2. CASE m' = m
        <4>1. g = f
          BY <2>3, <3>2 DEF f
        <4> QED
          BY <3>1, <4>1
      <3>3. CASE m' = m + 1
        BY <2>3, <3>1, <3>3
      <3> QED
        BY <2>2, <3>2, <3>3
    <2> HIDE DEF f
    <2>6. baseRate \in Nat /\ f \in Nat /\ g \in Nat /\ RateUnit \in Nat \ {0}
      BY <2>5, BaseRateAssumption DEF RateInv
    <2> QED
      BY <2>4, <2>5, <2>6, ScaledMono
  <1> QED
    BY <1>1, <1>2, <1>3 DEF RateNext

\* For every decay factor below one, every unit and every series of fee operations: at
\* least half of the time has decayed the rate, only redemptions raise it, and the
\* client's own computation of it is the contract's.
THEOREM BaseRateAlwaysDecays == RateSpec => BaseRateDecays
  <1>1. RateInv => DecayIsNotPostponed
    BY DEF RateInv
  <1>2. RateInv => ClientKnowsTheBaseRate
    <2> SUFFICES ASSUME RateInv PROVE ClientKnowsTheBaseRate
      OBVIOUS
    <2>1. minutesPassedSinceLastFeeOp \in Nat /\ MINUTE_DECAY_FACTOR \in 0..RateUnit
      BY DecayFacts, BaseRateAssumption
    <2> DEFINE f == decPow(MINUTE_DECAY_FACTOR, minutesPassedSinceLastFeeOp)
    <2>2. f = pow(MINUTE_DECAY_FACTOR, minutesPassedSinceLastFeeOp)
      BY <2>1, SamePower
    <2>3. f \in Nat /\ baseRate \in Nat
      BY DecayFacts, BaseRateAssumption DEF RateInv
    <2>4. f * baseRate = baseRate * f
      <3> HIDE DEF f
      <3> QED
        BY <2>3
    <2> QED
      BY <2>2, <2>4 DEF ClientKnowsTheBaseRate, feesBaseRate, decayedBaseRate
  <1>3. RateInv /\ RateInv' /\ [RateNext]_rateVars =>
          [decayedBaseRate' <= decayedBaseRate
             \/ \E rise \in RateRises : updateBaseRateFromRedemption(rise)]_rateVars
    BY OnlyRedemptionsRaise
  <1> QED
    BY <1>1, <1>2, <1>3, RateInitInv, RateNextInv, PTL
      DEF RateSpec, BaseRateDecays, RateRisesByRedemptionOnly

-----------------------------------------------------------------------------
(***************************************************************************)
(* The token's governance, for every set of accounts and                   *)
(* every delay.  The types are not enough: a change may only take effect   *)
(* when its timer is old, so the induction needs that a running timer is   *)
(* never older than the announcement of every account it names.            *)
(***************************************************************************)

\* A pending change has been visible at least since its timer was set.
VisibleSinceStart ==
  /\ addMint.initiated > 0 =>
       unseen["mint"][addMint.account] <= addMint.initiated
  /\ revokeMint.initiated > 0 =>
       unseen["revoke"][revokeMint.account] <= revokeMint.initiated
  /\ addContracts.initiated > 0 =>
       /\ unseen["mint"][addContracts.borrowerOperations] <= addContracts.initiated
       /\ unseen["borrowerOperations"][addContracts.borrowerOperations]
            <= addContracts.initiated
       /\ unseen["troveManager"][addContracts.troveManager] <= addContracts.initiated
       /\ unseen["stabilityPool"][addContracts.stabilityPool] <= addContracts.initiated

\* The past is behind: no account was last unseen in the future.
UnseenInThePast ==
  \A k \in Kinds : \A a \in Addresses : unseen[k][a] <= timestamp

GovInv == GovTypeOK /\ UnseenInThePast /\ VisibleSinceStart

\* GovTypeOK's facts about the history variable, in the form the steps use.
LEMMA UnseenNat ==
  ASSUME GovTypeOK, NEW k \in Kinds, NEW a \in Addresses
  PROVE  unseen[k][a] \in Nat
  BY DEF GovTypeOK

\* The initial state satisfies the inductive invariant.
LEMMA GovInitInv == GovInit => GovInv
  <1> SUFFICES ASSUME GovInit PROVE GovInv
    OBVIOUS
  <1> USE GovernanceAssumption
  <1>1. GovTypeOK
    BY DEF GovInit, GovTypeOK, NoChange, NoContracts, Addresses
  <1>2. UnseenInThePast
    BY DEF GovInit, UnseenInThePast
  <1>3. VisibleSinceStart
    BY DEF GovInit, VisibleSinceStart, NoChange, NoContracts
  <1> QED
    BY <1>1, <1>2, <1>3 DEF GovInv

\* What Watch leaves of the history: an account that is named afterwards keeps
\* its time, every other account was last unseen now.
LEMMA WatchKeeps ==
  ASSUME GovInv, Watch, timestamp' \in Nat, timestamp <= timestamp'
  PROVE  /\ unseen' \in [Kinds -> [Addresses -> Nat]]
         /\ UnseenInThePast'
         /\ \A k \in Kinds : \A a \in Announced(k)' \cap Addresses :
              unseen'[k][a] = unseen[k][a]
  <1>1. \A k \in Kinds : \A a \in Addresses :
          unseen'[k][a] = IF a \in Announced(k)' THEN unseen[k][a] ELSE timestamp'
    BY DEF Watch
  <1>2. \A k \in Kinds : \A a \in Addresses :
          unseen[k][a] \in Nat /\ unseen[k][a] <= timestamp /\ timestamp \in Nat
    BY UnseenNat DEF GovInv, UnseenInThePast, GovTypeOK
  <1>3. \A k \in Kinds : \A a \in Addresses :
          (IF a \in Announced(k)' THEN unseen[k][a] ELSE timestamp') \in Nat
    BY <1>2
  <1>4. unseen' \in [Kinds -> [Addresses -> Nat]]
    BY <1>3 DEF Watch
  <1>5. UnseenInThePast'
    BY <1>1, <1>2 DEF UnseenInThePast
  <1> QED
    BY <1>1, <1>4, <1>5

\* Every step keeps the inductive invariant.
LEMMA GovNextInv == GovInv /\ [GovNext]_govVars => GovInv'
  <1> SUFFICES ASSUME GovInv, [GovNext]_govVars PROVE GovInv'
    OBVIOUS
  <1> USE GovernanceAssumption
  <1>1. CASE UNCHANGED govVars
    BY <1>1 DEF govVars, lists, GovInv, GovTypeOK, UnseenInThePast, VisibleSinceStart
  <1>2. CASE GovNext
    <2>0. timestamp \in Nat /\ NoAddress \in Addresses
      BY DEF GovInv, GovTypeOK, Addresses
    <2>1. CASE NextBlock
      <3>1. Watch /\ timestamp' \in Nat /\ timestamp <= timestamp'
        BY <2>0, <2>1 DEF NextBlock
      <3> QED
        BY <2>1, <3>1, WatchKeeps, SMTT(30) DEF NextBlock, lists, GovInv, GovTypeOK,
          VisibleSinceStart, Announced, Kinds
    <2>2. ASSUME NEW caller \in Owners, NEW a \in Addresses,
                 startRevokeMintList(caller, a)
          PROVE  GovInv'
      <3>1. Watch /\ timestamp' \in Nat /\ timestamp <= timestamp'
        BY <2>0, <2>2 DEF startRevokeMintList
      <3> QED
        BY <2>2, <3>1, WatchKeeps, SMTT(30) DEF startRevokeMintList, lists, GovInv,
          GovTypeOK, UnseenInThePast, VisibleSinceStart, Announced, Kinds
    <2>3. ASSUME NEW caller \in Owners, cancelRevokeMintList(caller)
          PROVE  GovInv'
      <3>1. Watch /\ timestamp' \in Nat /\ timestamp <= timestamp'
        BY <2>0, <2>3 DEF cancelRevokeMintList
      <3> QED
        BY <2>0, <2>3, <3>1, WatchKeeps, SMTT(30) DEF cancelRevokeMintList, NoChange,
          lists, GovInv, GovTypeOK, VisibleSinceStart, Announced, Kinds
    <2>4. ASSUME NEW caller \in Owners, finalizeRevokeMintList(caller)
          PROVE  GovInv'
      <3>1. Watch /\ timestamp' \in Nat /\ timestamp <= timestamp'
        BY <2>0, <2>4 DEF finalizeRevokeMintList
      <3> QED
        BY <2>0, <2>4, <3>1, WatchKeeps, SMTT(30) DEF finalizeRevokeMintList, NoChange,
          lists, GovInv, GovTypeOK, VisibleSinceStart, Announced, Kinds
    <2>5. ASSUME NEW caller \in Owners, NEW a \in Addresses,
                 startAddMintList(caller, a)
          PROVE  GovInv'
      <3>1. Watch /\ timestamp' \in Nat /\ timestamp <= timestamp'
        BY <2>0, <2>5 DEF startAddMintList
      <3> QED
        BY <2>5, <3>1, WatchKeeps, SMTT(30) DEF startAddMintList, lists, GovInv,
          GovTypeOK, UnseenInThePast, VisibleSinceStart, Announced, Kinds
    <2>6. ASSUME NEW caller \in Owners, cancelAddMintList(caller)
          PROVE  GovInv'
      <3>1. Watch /\ timestamp' \in Nat /\ timestamp <= timestamp'
        BY <2>0, <2>6 DEF cancelAddMintList
      <3> QED
        BY <2>0, <2>6, <3>1, WatchKeeps, SMTT(30) DEF cancelAddMintList, NoChange,
          lists, GovInv, GovTypeOK, VisibleSinceStart, Announced, Kinds
    <2>7. ASSUME NEW caller \in Owners, finalizeAddMintList(caller)
          PROVE  GovInv'
      <3>1. Watch /\ timestamp' \in Nat /\ timestamp <= timestamp'
        BY <2>0, <2>7 DEF finalizeAddMintList
      <3> QED
        BY <2>0, <2>7, <3>1, WatchKeeps, SMTT(30) DEF finalizeAddMintList, NoChange,
          lists, GovInv, GovTypeOK, VisibleSinceStart, Announced, Kinds
    <2>8. ASSUME NEW caller \in Owners, NEW c \in ContractSets,
                 startAddContracts(caller, c[1], c[2], c[3])
          PROVE  GovInv'
      <3>1. Watch /\ timestamp' \in Nat /\ timestamp <= timestamp'
        BY <2>0, <2>8 DEF startAddContracts
      <3>2. {c[1], c[2], c[3]} \subseteq Addresses
        BY DEF Addresses
      <3> QED
        BY <2>8, <3>1, <3>2, WatchKeeps, SMTT(30) DEF startAddContracts, lists, GovInv,
          GovTypeOK, UnseenInThePast, VisibleSinceStart, Announced, Kinds
    <2>9. ASSUME NEW caller \in Owners, cancelAddContracts(caller)
          PROVE  GovInv'
      <3>1. Watch /\ timestamp' \in Nat /\ timestamp <= timestamp'
        BY <2>0, <2>9 DEF cancelAddContracts
      <3> QED
        BY <2>0, <2>9, <3>1, WatchKeeps, SMTT(30) DEF cancelAddContracts, NoContracts,
          lists, GovInv, GovTypeOK, VisibleSinceStart, Announced, Kinds
    <2>10. ASSUME NEW caller \in Owners, finalizeAddContracts(caller)
           PROVE  GovInv'
      <3>1. Watch /\ timestamp' \in Nat /\ timestamp <= timestamp'
        BY <2>0, <2>10 DEF finalizeAddContracts
      <3>2. Contracts \subseteq Addresses
        BY DEF Addresses
      <3> QED
        BY <2>0, <2>10, <3>1, <3>2, WatchKeeps, SMTT(30) DEF finalizeAddContracts,
          addSystemContracts, checkContract, NoContracts, GovInv, GovTypeOK,
          VisibleSinceStart, Announced, Kinds
    <2>11. ASSUME NEW caller \in Owners, NEW newOwner \in Owners,
                  transferOwnership(caller, newOwner)
           PROVE  GovInv'
      <3>1. Watch /\ timestamp' \in Nat /\ timestamp <= timestamp'
        BY <2>0, <2>11 DEF transferOwnership
      <3> QED
        BY <2>11, <3>1, WatchKeeps, SMTT(30) DEF transferOwnership, lists, GovInv,
          GovTypeOK, VisibleSinceStart, Announced, Kinds
    <2> QED
      BY <1>2, <2>1, <2>2, <2>3, <2>4, <2>5, <2>6, <2>7, <2>8, <2>9, <2>10, <2>11
        DEF GovNext
  <1> QED
    BY <1>1, <1>2

\* The governance state keeps its types in every reachable state.
THEOREM GovTypeCorrect == GovSpec => []GovTypeOK
  <1>1. GovInv => GovTypeOK
    BY DEF GovInv
  <1> QED
    BY <1>1, GovInitInv, GovNextInv, PTL DEF GovSpec

\* Only the three finalizations let an account into effect, and each one only
\* after its own timer has run out.
LEMMA EffectNeedsDelay ==
  ASSUME GovInv, [GovNext]_govVars, NEW k \in Kinds, NEW a \in TakesEffect(k)
  PROVE  timestamp >= unseen[k][a] + governanceTimeDelay
  <1> USE GovernanceAssumption
  <1>1. PICK caller \in Owners : \/ finalizeRevokeMintList(caller)
                                 \/ finalizeAddMintList(caller)
                                 \/ finalizeAddContracts(caller)
    <2>1. mintList' # mintList \/ isTroveManager' # isTroveManager
            \/ isStabilityPools' # isStabilityPools
            \/ isBorrowerOperations' # isBorrowerOperations
      BY DEF TakesEffect, Kinds
    <2> QED
      BY <2>1 DEF GovNext, govVars, lists, NextBlock, startRevokeMintList,
        cancelRevokeMintList, startAddMintList, cancelAddMintList, startAddContracts,
        cancelAddContracts, transferOwnership
  <1>2. CASE finalizeRevokeMintList(caller)
    <2>1. k = "revoke" /\ a = revokeMint.account
      BY <1>2 DEF finalizeRevokeMintList, TakesEffect, Kinds
    <2>2. revokeMint.account \in Addresses /\ revokeMint.initiated \in Nat
      BY DEF GovInv, GovTypeOK
    <2>3. unseen["revoke"][revokeMint.account] \in Nat
      BY <2>1, <2>2, UnseenNat DEF GovInv
    <2> QED
      BY <1>2, <2>1, <2>2, <2>3 DEF finalizeRevokeMintList, onlyAfterGovernanceDelay,
        GovInv, GovTypeOK, VisibleSinceStart
  <1>3. CASE finalizeAddMintList(caller)
    <2>1. k = "mint" /\ a = addMint.account
      BY <1>3 DEF finalizeAddMintList, TakesEffect, Kinds
    <2>2. addMint.account \in Addresses /\ addMint.initiated \in Nat
      BY DEF GovInv, GovTypeOK
    <2>3. unseen["mint"][addMint.account] \in Nat
      BY <2>1, <2>2, UnseenNat DEF GovInv
    <2> QED
      BY <1>3, <2>1, <2>2, <2>3 DEF finalizeAddMintList, onlyAfterGovernanceDelay,
        GovInv, GovTypeOK, VisibleSinceStart
  <1>4. CASE finalizeAddContracts(caller)
    <2>1. \/ k \in {"mint", "borrowerOperations"} /\ a = addContracts.borrowerOperations
          \/ k = "troveManager" /\ a = addContracts.troveManager
          \/ k = "stabilityPool" /\ a = addContracts.stabilityPool
      BY <1>4 DEF finalizeAddContracts, addSystemContracts, TakesEffect, Kinds
    <2>2. addContracts.initiated \in Nat /\ a \in Addresses /\ timestamp \in Nat
      BY <2>1 DEF GovInv, GovTypeOK
    <2>3. unseen[k][a] \in Nat
      BY <2>2, UnseenNat DEF GovInv
    <2>4. unseen[k][a] <= addContracts.initiated
      BY <1>4, <2>1 DEF finalizeAddContracts, onlyAfterGovernanceDelay, GovInv,
        VisibleSinceStart
    <2> QED
      BY <1>4, <2>2, <2>3, <2>4 DEF finalizeAddContracts, onlyAfterGovernanceDelay
  <1> QED
    BY <1>1, <1>2, <1>3, <1>4

\* No right to mint and no role of the token changes before it has been
\* visibly pending for the whole governance delay.
THEOREM AnnouncedForTheDelay == GovSpec => ChangesAreAnnounced
  <1>1. GovInv /\ [GovNext]_govVars =>
          [\A k \in Kinds : \A a \in TakesEffect(k) :
             timestamp >= unseen[k][a] + governanceTimeDelay]_govVars
    BY EffectNeedsDelay
  <1> QED
    BY <1>1, GovInitInv, GovNextInv, PTL DEF GovSpec, ChangesAreAnnounced

-----------------------------------------------------------------------------
(***************************************************************************)
(* The BAMM.  What rounding costs is bounded by arithmetic on naturals; a  *)
(* fraction is compared after multiplying with its denominator.  That the  *)
(* shares of two holders are at most the total is not inductive; that the  *)
(* shares of any list of holders without repetition are, is.               *)
(***************************************************************************)

\* Floor division loses less than one divisor.
LEMMA Quotient ==
  ASSUME NEW a \in Nat, NEW b \in Nat \ {0}
  PROVE  a \div b \in Nat /\ (a \div b) * b <= a /\ a < (a \div b) * b + b
OBVIOUS

\* Products of naturals.
LEMMA Product == ASSUME NEW a \in Nat, NEW b \in Nat PROVE a * b \in Nat
OBVIOUS

\* Products keep the order.
LEMMA ProductMono ==
  ASSUME NEW a \in Int, NEW b \in Int, NEW c \in Nat, a <= b
  PROVE  a * c <= b * c
OBVIOUS

\* A positive factor can be cancelled.
LEMMA Cancelled ==
  ASSUME NEW a \in Int, NEW b \in Int, NEW c \in Nat \ {0}, a * c < b * c + c
  PROVE  a <= b
  <1> SUFFICES ASSUME b + 1 <= a PROVE FALSE
    OBVIOUS
  <1>1. (b + 1) * c <= a * c
    BY ProductMono
  <1> QED
    BY <1>1

\* A bound on a dividend from below bounds the quotient.
LEMMA QuotientAtLeast ==
  ASSUME NEW a \in Nat, NEW b \in Nat \ {0}, NEW m \in Int, m * b <= a
  PROVE  m <= a \div b
  <1> DEFINE q == a \div b
  <1>1. q \in Nat /\ a < q * b + b
    BY Quotient
  <1> HIDE DEF q
  <1>2. m * b < q * b + b
    BY <1>1
  <1>3. m <= q
    BY <1>1, <1>2, Cancelled
  <1> QED
    BY <1>3 DEF q

\* The value of collateral that is sold for q THUSD at the discount d, at most.
LEMMA SoldValue ==
  ASSUME NEW C \in Nat, NEW a \in Nat, a <= C, NEW p \in Nat \ {0}, NEW P \in Nat \ {0},
         NEW q \in Nat, NEW d \in Nat,
         a <= (((q * P) \div p) * (10000 + d)) \div 10000
  PROVE  (C * p) \div P <= ((C - a) * p) \div P + q + (q * d) \div 10000 + 1
  <1> DEFINE x == (q * P) \div p
             y == (x * (10000 + d)) \div 10000
             z == (C * p) \div P
             w == ((C - a) * p) \div P
             n == z - w - 1 - q
  <1>1. x \in Nat /\ x * p <= q * P
    BY Product, Quotient
  <1>2. a <= y
    OBVIOUS
  <1> HIDE DEF x
  <1>3. y \in Nat /\ y * 10000 <= x * (10000 + d)
    BY <1>1, Product, Quotient
  <1> HIDE DEF y
  <1>4. z \in Nat /\ z * P <= C * p
    BY Product, Quotient
  <1>5. w \in Nat /\ (C - a) * p < w * P + P
    <2>1. (C - a) * p \in Nat
      BY Product
    <2> QED
      BY <2>1, Quotient
  <1> HIDE DEF z, w
  <1>6. (a * 10000) * p <= (q * (10000 + d)) * P
    <2>1. (a * 10000) * p <= (x * (10000 + d)) * p
      <3>1. a * 10000 \in Int /\ x * (10000 + d) \in Int
        BY <1>1, Product
      <3>2. a * 10000 <= x * (10000 + d)
        BY <1>2, <1>3, <3>1
      <3> QED
        BY <3>1, <3>2, ProductMono
    <2>2. (x * p) * (10000 + d) <= (q * P) * (10000 + d)
      <3>1. x * p \in Int /\ q * P \in Int
        BY <1>1, Product
      <3> QED
        BY <1>1, <3>1, ProductMono
    <2>3. (x * (10000 + d)) * p = (x * p) * (10000 + d)
      BY <1>1
    <2>4. (q * P) * (10000 + d) = (q * (10000 + d)) * P
      OBVIOUS
    <2> QED
      BY <1>1, <2>1, <2>2, <2>3, <2>4
  <1>7. ((z - w - 1) * 10000) * P < (a * 10000) * p
    <2>1. (C - a) * p = C * p - a * p
      OBVIOUS
    <2>2. (z - w - 1) * P = z * P - w * P - P
      BY <1>4, <1>5
    <2>3. (z - w - 1) * P < a * p
      BY <1>4, <1>5, <2>1, <2>2
    <2>4. ((z - w - 1) * 10000) * P = ((z - w - 1) * P) * 10000
      BY <1>4, <1>5
    <2>5. (a * 10000) * p = (a * p) * 10000
      OBVIOUS
    <2>6. (z - w - 1) * P \in Int /\ a * p \in Int
      BY <1>4, <1>5
    <2> QED
      BY <2>3, <2>4, <2>5, <2>6
  <1>8. (z - w - 1) * 10000 <= q * (10000 + d)
    <2>1. (z - w - 1) * 10000 \in Int /\ q * (10000 + d) \in Int
      BY <1>4, <1>5
    <2>2. ((z - w - 1) * 10000) * P < (q * (10000 + d)) * P
      BY <1>6, <1>7, <2>1
    <2> QED
      BY <2>1, <2>2, Cancelled
  <1>9. n * 10000 <= q * d
    BY <1>4, <1>5, <1>8
  <1>10. n <= (q * d) \div 10000
    BY <1>4, <1>5, <1>9, Product, QuotientAtLeast
  <1>11. (q * d) \div 10000 \in Nat
    BY Product, Quotient
  <1>12. z <= w + q + (q * d) \div 10000 + 1
    BY <1>4, <1>5, <1>10, <1>11
  <1> QED
    BY <1>12 DEF z, w

\* A fee and a discount are no more together than apart.
LEMMA BasisPoints ==
  ASSUME NEW q \in Nat, NEW d \in Nat, NEW f \in Nat, NEW F \in Nat, f <= F
  PROVE  /\ (q * (10000 + f)) \div 10000 - q \in Nat
         /\ (q * (10000 + f)) \div 10000 - q + (q * d) \div 10000 <= (q * (d + F)) \div 10000
  <1> DEFINE x == (q * (10000 + f)) \div 10000
             y == (q * d) \div 10000
  <1>1. x \in Nat /\ x * 10000 <= q * (10000 + f)
    BY Product, Quotient
  <1>2. y \in Nat /\ y * 10000 <= q * d
    BY Product, Quotient
  <1>3. q <= x
    <2>1. q * 10000 <= q * (10000 + f)
      BY Product
    <2> QED
      BY <2>1, Product, QuotientAtLeast
  <1> HIDE DEF x, y
  <1>4. q * f <= q * F
    BY ProductMono
  <1>5. (x - q + y) * 10000 <= q * (d + F)
    <2>1. q * (10000 + f) = q * 10000 + q * f /\ q * (d + F) = q * d + q * F
      OBVIOUS
    <2>2. q * f \in Int /\ q * F \in Int /\ q * d \in Int
      OBVIOUS
    <2> QED
      BY <1>1, <1>2, <1>4, <2>1, <2>2
  <1>6. x - q + y <= (q * (d + F)) \div 10000
    BY <1>1, <1>2, <1>5, Product, QuotientAtLeast
  <1> QED
    BY <1>1, <1>3, <1>6 DEF x, y

\* What s of S shares of V are worth after x more were paid for n shares.
LEMMA DepositKeeps ==
  ASSUME NEW s \in Nat, NEW S \in Nat \ {0}, s <= S, NEW V \in Nat, NEW x \in Nat,
         NEW n \in Nat, n * V <= x * S + V
  PROVE  (s * V) \div S <= (s * (V + x)) \div (S + n) + V \div S + 1
  <1> DEFINE A == (s * V) \div S
             B == (s * (V + x)) \div (S + n)
             w == V \div S
             m == A - w - 1
  <1>1. A \in Nat /\ A * S <= s * V
    BY Product, Quotient
  <1>2. w \in Nat /\ V < w * S + S
    BY Quotient
  <1> HIDE DEF A, w
  <1>3. (s * (V + x)) * S >= (s * V) * (S + n) - s * V
    <2>1. (n * V) * s <= (x * S + V) * s
      <3>1. n * V \in Int /\ x * S + V \in Int
        OBVIOUS
      <3> QED
        BY <3>1, ProductMono
    <2>2. (s * (V + x)) * S = (s * V) * S + (x * S) * s
      OBVIOUS
    <2>3. (s * V) * (S + n) = (s * V) * S + (n * V) * s
      OBVIOUS
    <2>4. (x * S + V) * s = (x * S) * s + s * V
      OBVIOUS
    <2>5. /\ (s * V) * S \in Int /\ (x * S) * s \in Int /\ (n * V) * s \in Int
          /\ s * V \in Int
      OBVIOUS
    <2> QED
      BY <2>1, <2>2, <2>3, <2>4, <2>5
  <1>4. (A * S) * (S + n) <= (s * V) * (S + n)
    <2>1. A * S \in Int /\ s * V \in Int
      BY <1>1
    <2> QED
      BY <1>1, <2>1, ProductMono
  <1>5. s * V <= ((w + 1) * S) * (S + n)
    <2>1. s * V <= S * V
      BY ProductMono
    <2>2. V <= (w + 1) * (S + n)
      <3>1. (w + 1) * (S + n) = (w * S + S) + (w + 1) * n
        BY <1>2
      <3>2. (w + 1) * n \in Nat /\ w * S \in Nat
        BY <1>2, Product
      <3> QED
        BY <1>2, <3>1, <3>2
    <2>3. (w + 1) * (S + n) \in Int
      BY <1>2
    <2>4. V * S <= ((w + 1) * (S + n)) * S
      BY <2>2, <2>3, ProductMono
    <2>5. ((w + 1) * (S + n)) * S = ((w + 1) * S) * (S + n)
      BY <1>2
    <2>6. s * V \in Int /\ V * S \in Int /\ S * V = V * S
      OBVIOUS
    <2> QED
      BY <2>1, <2>3, <2>4, <2>5, <2>6
  <1>6. (m * (S + n)) * S <= (s * (V + x)) * S
    <2>1. (m * (S + n)) * S = (A * S) * (S + n) - ((w + 1) * S) * (S + n)
      BY <1>1, <1>2
    <2>2. /\ (A * S) * (S + n) \in Int /\ ((w + 1) * S) * (S + n) \in Int
          /\ (s * V) * (S + n) \in Int /\ s * V \in Int /\ (s * (V + x)) * S \in Int
      BY <1>1, <1>2
    <2> QED
      BY <1>3, <1>4, <1>5, <2>1, <2>2
  <1>7. m * (S + n) <= s * (V + x)
    <2>1. m * (S + n) \in Int /\ s * (V + x) \in Int
      BY <1>1, <1>2
    <2>2. (m * (S + n)) * S < (s * (V + x)) * S + S
      <3>1. (m * (S + n)) * S \in Int /\ (s * (V + x)) * S \in Int
        BY <2>1
      <3> QED
        BY <1>6, <3>1
    <2> QED
      BY <2>1, <2>2, Cancelled
  <1>8. m <= B
    BY <1>1, <1>2, <1>7, Product, QuotientAtLeast
  <1>9. B \in Nat
    BY Product, Quotient
  <1> HIDE DEF B
  <1>10. A <= B + w + 1
    BY <1>1, <1>2, <1>8, <1>9
  <1> QED
    BY <1>10 DEF A, B, w

\* What s of S shares are worth after k others took t of the D THUSD and c of the collateral
\* C, at the price p.
LEMMA WithdrawalKeeps ==
  ASSUME NEW s \in Nat, NEW S \in Nat \ {0}, NEW k \in Nat, s + k < S,
         NEW D \in Nat, NEW t \in Nat, t <= D, t * S <= k * (D + 1) + S,
         NEW C \in Nat, NEW c \in Nat, c <= C, c * S <= k * (C + 1),
         NEW p \in Nat, NEW P \in Nat \ {0}
  PROVE  (s * (D + (C * p) \div P + 1)) \div S
           <= (s * (D - t + ((C - c) * p) \div P + 1)) \div (S - k) + p \div P + 3
  <1> DEFINE z == (C * p) \div P
             y == ((C - c) * p) \div P
             w == p \div P
             R == S - k
             V == D + z + 1
             W == D - t + y + 1
             A == (s * V) \div S
             B == (s * W) \div R
             m == A - w - 3
  <1>1. R \in Nat \ {0} /\ s <= R /\ R <= S
    OBVIOUS
  <1>2. z \in Nat /\ z * P <= C * p
    BY Product, Quotient
  <1>3. y \in Nat /\ (C - c) * p < y * P + P
    <2>1. (C - c) * p \in Nat
      BY Product
    <2> QED
      BY <2>1, Quotient
  <1>4. w \in Nat /\ p < w * P + P
    BY Quotient
  <1> HIDE DEF z, y, w
  <1>5. z * R - k * (w + 1) <= (y + 1) * S
    <2>1. (z * R - k * (w + 1)) * P <= ((y + 1) * S) * P
      <3>1. (c * S) * p <= (k * (C + 1)) * p
        <4>1. c * S \in Int /\ k * (C + 1) \in Int
          OBVIOUS
        <4> QED
          BY <4>1, ProductMono
      <3>2. ((C - c) * p) * S <= (y * P + P) * S
        <4>1. (C - c) * p \in Int /\ y * P + P \in Int
          BY <1>3
        <4> QED
          BY <1>3, <4>1, ProductMono
      <3>3. (z * P) * R <= (C * p) * R
        <4>1. z * P \in Int /\ C * p \in Int
          BY <1>2
        <4> QED
          BY <1>1, <1>2, <4>1, ProductMono
      <3>4. p * k <= (w * P + P) * k
        <4>1. w * P + P \in Int
          BY <1>4
        <4> QED
          BY <1>4, <4>1, ProductMono
      <3> HIDE DEF R
      <3>5. S = R + k
        BY <1>1 DEF R
      <3>6. ((C - c) * p) * S = (C * p) * R + (C * p) * k - (c * S) * p
        BY <1>1, <3>5
      <3>7. (k * (C + 1)) * p = (C * p) * k + p * k
        OBVIOUS
      <3>8. (z * R - k * (w + 1)) * P = (z * P) * R - (w * P + P) * k
        BY <1>1, <1>2, <1>4
      <3>9. ((y + 1) * S) * P = (y * P + P) * S
        BY <1>3
      <3>10. /\ (C * p) * R \in Int /\ (C * p) * k \in Int /\ (c * S) * p \in Int
             /\ (z * P) * R \in Int /\ (w * P + P) * k \in Int /\ p * k \in Int
             /\ (y * P + P) * S \in Int
        BY <1>1, <1>2, <1>3, <1>4
      <3> QED
        BY <3>1, <3>2, <3>3, <3>4, <3>6, <3>7, <3>8, <3>9, <3>10
    <2>2. z * R - k * (w + 1) \in Int /\ (y + 1) * S \in Int
      BY <1>1, <1>2, <1>3, <1>4
    <2>3. (z * R - k * (w + 1)) * P < ((y + 1) * S) * P + P
      <3>1. (z * R - k * (w + 1)) * P \in Int /\ ((y + 1) * S) * P \in Int
        BY <2>2
      <3> QED
        BY <2>1, <3>1
    <2> HIDE DEF R
    <2> QED
      BY <2>2, <2>3, Cancelled
  <1>6. V * R - (w + 3) * S <= W * S
    <2>1. k * (w + 1) <= S * (w + 1)
      BY <1>4, ProductMono
    <2>2. W * S = (D + 1) * S - t * S + (y + 1) * S - S
      BY <1>3
    <2>3. V * R = (D + 1) * S - k * (D + 1) + z * R
      <3>1. (D + 1) * R = (D + 1) * S - k * (D + 1)
        OBVIOUS
      <3>2. V * R = (D + 1) * R + z * R
        BY <1>1, <1>2
      <3> QED
        BY <3>1, <3>2
    <2>4. (w + 3) * S = S * (w + 1) + S + S
      BY <1>4
    <2>5. /\ k * (w + 1) \in Int /\ S * (w + 1) \in Int /\ (D + 1) * S \in Int
          /\ t * S \in Int /\ (y + 1) * S \in Int /\ k * (D + 1) \in Int /\ z * R \in Int
      BY <1>1, <1>2, <1>3, <1>4
    <2> HIDE DEF V, W, R
    <2> QED
      BY <1>5, <2>1, <2>2, <2>3, <2>4, <2>5
  <1>7. V \in Nat /\ W \in Nat
    BY <1>2, <1>3
  <1> HIDE DEF V, W, R
  <1>8. A \in Nat /\ A * S <= s * V
    BY <1>7, Product, Quotient
  <1> HIDE DEF A
  <1>9. (m * R) * S <= (s * W) * S
    <2>1. (V * R - (w + 3) * S) * s <= (W * S) * s
      <3>1. V * R - (w + 3) * S \in Int /\ W * S \in Int
        BY <1>1, <1>4, <1>7
      <3> QED
        BY <1>6, <3>1, ProductMono
    <2>2. (A * S) * R <= (s * V) * R
      <3>1. A * S \in Int /\ s * V \in Int
        BY <1>7, <1>8
      <3> QED
        BY <1>1, <1>8, <3>1, ProductMono
    <2>3. s * ((w + 3) * S) <= R * ((w + 3) * S)
      <3>1. (w + 3) * S \in Nat
        BY <1>4, Product
      <3> QED
        BY <1>1, <3>1, ProductMono
    <2>4. (V * R - (w + 3) * S) * s = (s * V) * R - s * ((w + 3) * S)
      BY <1>1, <1>4, <1>7
    <2>5. (m * R) * S = (A * S) * R - R * ((w + 3) * S)
      BY <1>1, <1>4, <1>8
    <2>6. (W * S) * s = (s * W) * S
      BY <1>7
    <2>7. /\ (s * V) * R \in Int /\ s * ((w + 3) * S) \in Int /\ R * ((w + 3) * S) \in Int
          /\ (A * S) * R \in Int /\ (s * W) * S \in Int
      BY <1>1, <1>4, <1>7, <1>8
    <2> HIDE DEF m
    <2> QED
      BY <2>1, <2>2, <2>3, <2>4, <2>5, <2>6, <2>7
  <1>10. m * R <= s * W
    <2>1. m * R \in Int /\ s * W \in Int
      BY <1>1, <1>4, <1>7, <1>8
    <2>2. (m * R) * S < (s * W) * S + S
      <3>1. (m * R) * S \in Int /\ (s * W) * S \in Int
        BY <2>1
      <3> QED
        BY <1>9, <3>1
    <2> QED
      BY <2>1, <2>2, Cancelled
  <1>11. m <= B
    BY <1>1, <1>4, <1>7, <1>8, <1>10, Product, QuotientAtLeast
  <1>12. B \in Nat
    BY <1>1, <1>7, Product, Quotient
  <1> HIDE DEF B
  <1>13. A <= B + w + 3
    BY <1>4, <1>8, <1>11, <1>12
  <1> QED
    BY <1>13 DEF A, B, V, W, R, z, y, w

\* p are the sums of the shares f of the first holders of the list e, none of them twice.
Summed(n, e, f, p) ==
  /\ e \in [1..n -> Holders] /\ \A i, j \in 1..n : e[i] = e[j] => i = j
  /\ p \in [0..n -> Int] /\ p[0] = 0 /\ \A i \in 1..n : p[i] = p[i - 1] + f[e[i]]

\* The shares of any such list are no more than t together.
Covered(f, t) == \A n \in Nat : \A e, p : Summed(n, e, f, p) => p[n] <= t

\* One holder's shares change by x.
LEMMA SumsShifted ==
  ASSUME NEW f \in [Holders -> Int], NEW g \in [Holders -> Int], NEW u \in Holders, NEW x \in Int,
         g[u] = f[u] + x, \A v \in Holders \ {u} : g[v] = f[v],
         NEW n \in Nat, NEW e, NEW q, Summed(n, e, g, q)
  PROVE  \E p : /\ Summed(n, e, f, p)
                /\ p[n] = q[n] - (IF \E j \in 1..n : e[j] = u THEN x ELSE 0)
  <1> DEFINE seen(i) == \E j \in 1..i : e[j] = u
             p == [i \in 0..n |-> q[i] - (IF seen(i) THEN x ELSE 0)]
  <1>0. /\ e \in [1..n -> Holders] /\ q \in [0..n -> Int] /\ q[0] = 0
        /\ \A i, j \in 1..n : e[i] = e[j] => i = j
        /\ \A i \in 1..n : q[i] = q[i - 1] + g[e[i]]
    BY DEF Summed
  <1>1. p \in [0..n -> Int] /\ \A i \in 0..n : p[i] = q[i] - (IF seen(i) THEN x ELSE 0)
    <2> HIDE DEF seen
    <2>1. \A i \in 0..n : q[i] - (IF seen(i) THEN x ELSE 0) \in Int
      BY <1>0
    <2> QED
      BY <2>1
  <1>2. ~seen(0)
    OBVIOUS
  <1>3. ASSUME NEW i \in 1..n
        PROVE  /\ e[i] = u => seen(i) /\ ~seen(i - 1)
               /\ e[i] # u => (seen(i) <=> seen(i - 1))
    <2>1. i \in 1..i /\ \A j \in 1..(i - 1) : j \in 1..n /\ j \in 1..i /\ j # i
      OBVIOUS
    <2>2. \A j \in 1..i : j = i \/ j \in 1..(i - 1)
      OBVIOUS
    <2> QED
      BY <1>0, <2>1, <2>2
  <1> HIDE DEF p, seen
  <1>4. p[0] = 0
    BY <1>0, <1>1, <1>2
  <1>5. ASSUME NEW i \in 1..n PROVE p[i] = p[i - 1] + f[e[i]]
    <2>1. /\ q[i] = q[i - 1] + g[e[i]] /\ e[i] \in Holders /\ i \in 0..n /\ i - 1 \in 0..n
          /\ q[i - 1] \in Int
      BY <1>0
    <2>2. /\ p[i] = q[i] - (IF seen(i) THEN x ELSE 0)
          /\ p[i - 1] = q[i - 1] - (IF seen(i - 1) THEN x ELSE 0)
          /\ f[e[i]] \in Int /\ g[e[i]] \in Int
      BY <1>1, <2>1
    <2>3. CASE e[i] = u
      BY <1>3, <2>1, <2>2, <2>3
    <2>4. CASE e[i] # u
      <3>1. g[e[i]] = f[e[i]] /\ (seen(i) <=> seen(i - 1))
        BY <1>3, <2>1, <2>4
      <3> QED
        BY <2>1, <2>2, <3>1
    <2> QED
      BY <2>3, <2>4
  <1>6. Summed(n, e, f, p)
    BY <1>0, <1>1, <1>4, <1>5 DEF Summed
  <1>7. p[n] = q[n] - (IF seen(n) THEN x ELSE 0)
    BY <1>1
  <1> QED
    BY <1>6, <1>7 DEF seen

\* Shares are issued to one holder.
LEMMA CoveredIssued ==
  ASSUME NEW f \in [Holders -> Nat], NEW t \in Nat, Covered(f, t), NEW u \in Holders, NEW x \in Nat
  PROVE  Covered([f EXCEPT ![u] = @ + x], t + x)
  <1> DEFINE g == [f EXCEPT ![u] = @ + x]
  <1>1. /\ f \in [Holders -> Int] /\ g \in [Holders -> Int] /\ g[u] = f[u] + x
        /\ \A v \in Holders \ {u} : g[v] = f[v]
    OBVIOUS
  <1> HIDE DEF g
  <1>2. ASSUME NEW n \in Nat, NEW e, NEW q, Summed(n, e, g, q) PROVE q[n] <= t + x
    <2>1. PICK p : /\ Summed(n, e, f, p)
                   /\ p[n] = q[n] - (IF \E j \in 1..n : e[j] = u THEN x ELSE 0)
      BY <1>1, <1>2, SumsShifted
    <2>2. p[n] <= t
      BY <2>1 DEF Covered
    <2>3. q[n] \in Int
      BY <1>2 DEF Summed
    <2> QED
      BY <2>1, <2>2, <2>3
  <1> QED
    BY <1>2 DEF Covered, g

\* Shares of one holder are burned.
LEMMA CoveredBurned ==
  ASSUME NEW f \in [Holders -> Nat], NEW t \in Nat, Covered(f, t), NEW u \in Holders,
         NEW k \in Nat, k <= f[u]
  PROVE  Covered([f EXCEPT ![u] = @ - k], t - k)
  <1> DEFINE g == [f EXCEPT ![u] = @ - k]
             x == 0 - k
  <1>1. /\ f \in [Holders -> Int] /\ g \in [Holders -> Int] /\ g[u] = f[u] + x /\ x \in Int
        /\ \A v \in Holders \ {u} : g[v] = f[v]
    OBVIOUS
  <1>a. x = 0 - k
    OBVIOUS
  <1> HIDE DEF g, x
  <1>2. ASSUME NEW n \in Nat, NEW e, NEW q, Summed(n, e, g, q) PROVE q[n] <= t - k
    <2>1. PICK p : /\ Summed(n, e, f, p)
                   /\ p[n] = q[n] - (IF \E j \in 1..n : e[j] = u THEN x ELSE 0)
      BY <1>1, <1>2, SumsShifted
    <2>2. q[n] \in Int /\ p \in [0..n -> Int] /\ e \in [1..n -> Holders]
      BY <1>2, <2>1 DEF Summed
    <2>3. CASE \E j \in 1..n : e[j] = u
      <3>1. p[n] <= t
        BY <2>1 DEF Covered
      <3> QED
        BY <1>a, <2>1, <2>2, <2>3, <3>1
    <2>4. CASE ~\E j \in 1..n : e[j] = u
      <3> DEFINE m == n + 1
                 d == [i \in 1..m |-> IF i = m THEN u ELSE e[i]]
                 r == [i \in 0..m |-> IF i = m THEN p[n] + f[u] ELSE p[i]]
      <3>1. d \in [1..m -> Holders] /\ r \in [0..m -> Int] /\ m \in Nat
        <4>1. \A i \in 1..m : i = m \/ i \in 1..n
          OBVIOUS
        <4>2. \A i \in 0..m : i = m \/ i \in 0..n
          OBVIOUS
        <4> QED
          BY <2>2, <4>1, <4>2
      <3>2. r[0] = 0 /\ r[m] = p[n] + f[u] /\ r[n] = p[n] /\ d[m] = u
        BY <2>1 DEF Summed
      <3>3. ASSUME NEW i \in 1..n
            PROVE  d[i] = e[i] /\ r[i] = p[i] /\ r[i - 1] = p[i - 1]
        OBVIOUS
      <3> HIDE DEF d, r
      <3>4. \A i \in 1..m : r[i] = r[i - 1] + f[d[i]]
        <4>1. r[m] = r[m - 1] + f[d[m]]
          BY <3>2
        <4>2. \A i \in 1..n : r[i] = r[i - 1] + f[d[i]]
          BY <2>1, <3>3 DEF Summed
        <4> QED
          BY <4>1, <4>2
      <3>5. ASSUME NEW i \in 1..m, NEW j \in 1..m, d[i] = d[j] PROVE i = j
        <4>1. (i = m \/ i \in 1..n) /\ (j = m \/ j \in 1..n)
          OBVIOUS
        <4>2. \A l \in 1..n : d[l] = e[l] /\ e[l] # u
          BY <2>4, <3>3
        <4>3. \A l, o \in 1..n : e[l] = e[o] => l = o
          BY <2>1 DEF Summed
        <4> QED
          BY <3>2, <3>5, <4>1, <4>2, <4>3
      <3>6. Summed(m, d, f, r)
        BY <3>1, <3>2, <3>4, <3>5 DEF Summed
      <3>7. r[m] <= t
        BY <3>1, <3>6 DEF Covered
      <3>8. q[n] = p[n] /\ p[n] \in Int
        BY <2>1, <2>2, <2>4
      <3> QED
        BY <3>2, <3>7, <3>8
    <2> QED
      BY <2>3, <2>4
  <1> QED
    BY <1>2 DEF Covered, g

\* The shares of one holder, and of two.
LEMMA CoveredTwo ==
  ASSUME NEW f \in [Holders -> Nat], NEW t \in Nat, Covered(f, t), NEW u \in Holders
  PROVE  f[u] <= t /\ \A v \in Holders \ {u} : f[u] + f[v] <= t
  <1>1. f[u] <= t
    <2> DEFINE e == [i \in 1..1 |-> u]
               p == [i \in 0..1 |-> IF i = 0 THEN 0 ELSE f[u]]
    <2>1. Summed(1, e, f, p)
      BY DEF Summed
    <2>2. p[1] = f[u]
      OBVIOUS
    <2> HIDE DEF e, p
    <2> QED
      BY <2>1, <2>2 DEF Covered
  <1>2. ASSUME NEW v \in Holders \ {u} PROVE f[u] + f[v] <= t
    <2> DEFINE e == [i \in 1..2 |-> IF i = 1 THEN u ELSE v]
               p == [i \in 0..2 |-> IF i = 0 THEN 0 ELSE IF i = 1 THEN f[u] ELSE f[u] + f[v]]
    <2>1. Summed(2, e, f, p)
      <3>1. \A i \in 1..2 : i = 1 \/ i = 2
        OBVIOUS
      <3>2. e[1] = u /\ e[2] = v /\ p[0] = 0 /\ p[1] = f[u] /\ p[2] = f[u] + f[v]
        OBVIOUS
      <3>3. e \in [1..2 -> Holders] /\ p \in [0..2 -> Int]
        OBVIOUS
      <3> HIDE DEF e, p
      <3>4. \A i \in 1..2 : p[i] = p[i - 1] + f[e[i]]
        BY <3>1, <3>2
      <3>5. \A i, j \in 1..2 : e[i] = e[j] => i = j
        BY <3>1, <3>2
      <3> QED
        BY <3>2, <3>3, <3>4, <3>5 DEF Summed
    <2>2. p[2] = f[u] + f[v]
      OBVIOUS
    <2> HIDE DEF e, p
    <2> QED
      BY <2>1, <2>2 DEF Covered
  <1> QED
    BY <1>1, <1>2

\* Nobody has shares.
LEMMA CoveredNothing == Covered([u \in Holders |-> 0], 0)
  <1> DEFINE f == [u \in Holders |-> 0]
  <1>1. ASSUME NEW n \in Nat, NEW e, NEW p, Summed(n, e, f, p) PROVE p[n] <= 0
    <2>1. p[0] = 0 /\ \A i \in 1..n : p[i] = p[i - 1] + 0
      BY <1>1 DEF Summed
    <2> DEFINE T == {i \in Nat : i <= n => p[i] = 0}
    <2>2. 0 \in T
      BY <2>1
    <2>3. \A i \in Nat : i \in T => i + 1 \in T
      <3> SUFFICES ASSUME NEW i \in Nat, i \in T, i + 1 <= n PROVE p[i + 1] = 0
        OBVIOUS
      <3>1. i + 1 \in 1..n /\ (i + 1) - 1 = i /\ p[i] = 0
        OBVIOUS
      <3> QED
        BY <2>1, <3>1
    <2>4. \A i \in Nat : i \in T
      <3> HIDE DEF T
      <3> QED
        BY <2>2, <2>3, SetInduction
    <2> QED
      BY <2>4
  <1> QED
    BY <1>1 DEF Covered

\* The shares that a deposit is given: as many as it is worth, and at most one more.
LEMMA SharesGiven ==
  ASSUME NEW x \in Nat, NEW T \in Nat, NEW A \in Nat
  PROVE  /\ toShares(x, T, A) \in Nat
         /\ toShares(x, T, A) * (A + 1) <= x * (T + VirtualShares) + (A + 1)
  <1> DEFINE S == T + VirtualShares
             V == A + 1
             q == (x * S) \div V
             n == toShares(x, T, A)
  <1>1. S \in Nat /\ V \in Nat \ {0}
    BY BammAssumption
  <1>2. n = q \/ n = q + 1
    BY DEF toShares
  <1> HIDE DEF S, V, n
  <1>3. q \in Nat /\ q * V <= x * S
    BY <1>1, Product, Quotient
  <1> HIDE DEF q
  <1>4. n \in Nat
    BY <1>2, <1>3
  <1>5. (q + 1) * V = q * V + V /\ q * V \in Int /\ x * S \in Int
    BY <1>1, <1>3
  <1>6. n * V <= x * S + V
    BY <1>1, <1>2, <1>3, <1>5
  <1> QED
    BY <1>4, <1>6 DEF n, S, V

\* The THUSD that shares are paid, rounded up, and the collateral, rounded down.
LEMMA AmountsPaid ==
  ASSUME NEW k \in Nat, NEW T \in Nat, NEW A \in Nat
  PROVE  /\ toAmount(k, T, A, TRUE) \in Nat /\ toAmount(k, T, A, FALSE) \in Nat
         /\ toAmount(k, T, A, TRUE) * (T + VirtualShares)
              <= k * (A + 1) + (T + VirtualShares)
         /\ toAmount(k, T, A, FALSE) * (T + VirtualShares) <= k * (A + 1)
  <1> DEFINE S == T + VirtualShares
             V == A + 1
             q == (k * V) \div S
             t == toAmount(k, T, A, TRUE)
             c == toAmount(k, T, A, FALSE)
  <1>1. S \in Nat \ {0} /\ V \in Nat
    BY BammAssumption
  <1>2. (t = q \/ t = q + 1) /\ c = q
    BY DEF toAmount
  <1> HIDE DEF S, V, t, c
  <1>3. q \in Nat /\ q * S <= k * V
    BY <1>1, Product, Quotient
  <1> HIDE DEF q
  <1>4. t \in Nat /\ c \in Nat
    BY <1>2, <1>3
  <1>5. (q + 1) * S = q * S + S /\ q * S \in Int /\ k * V \in Int
    BY <1>1, <1>3
  <1>6. t * S <= k * V + S /\ c * S <= k * V
    BY <1>1, <1>2, <1>3, <1>5
  <1> QED
    BY <1>4, <1>6 DEF t, c, S, V

\* The state of the fund.
BammState ==
  /\ stake \in [Holders -> Nat] /\ total \in Nat /\ collateralHeld \in Nat
  /\ pool \in [recorded : BOOLEAN, deposit : Nat, gain : Nat]
  /\ price \in Nat /\ params.fee \in 0..MAX_FEE

\* The inductive invariant: no holders have more shares together than there are.
BammInv == BammState /\ Covered(stake, total)

\* It holds when the contract is created.
LEMMA BammInitInv == BammInit => BammInv
  <1> SUFFICES ASSUME BammInit PROVE BammInv
    OBVIOUS
  <1>1. Covered(stake, total)
    BY CoveredNothing DEF BammInit
  <1>2. BammState
    BY BammAssumption DEF BammInit, BammState
  <1> QED
    BY <1>1, <1>2 DEF BammInv

\* The values that the fund is counted in.
LEMMA FundValues ==
  ASSUME BammState
  PROVE  /\ getCollateralBalance \in Nat /\ totalValue \in Nat
         /\ total + VirtualShares \in Nat \ {0} /\ PRECISION \in Nat \ {0}
         /\ pool.deposit \in Nat /\ pool.gain \in Nat
  <1>1. pool.deposit \in Nat /\ pool.gain \in Nat
    BY DEF BammState
  <1>2. getCollateralBalance \in Nat
    BY <1>1 DEF BammState, getCollateralBalance
  <1>3. total + VirtualShares \in Nat \ {0} /\ PRECISION \in Nat \ {0}
    BY BammAssumption DEF BammState
  <1>4. (getCollateralBalance * price) \div PRECISION \in Nat
    BY <1>2, <1>3, Product, Quotient DEF BammState
  <1> QED
    BY <1>1, <1>2, <1>3, <1>4 DEF totalValue

\* A deposit keeps it.
LEMMA DepositInv ==
  ASSUME BammInv, NEW u \in Holders, NEW x \in Amounts, deposit(u, x)
  PROVE  BammInv'
  <1> DEFINE n == toShares(x, total, totalValue)
  <1>1. x \in Nat /\ BammState /\ Covered(stake, total)
    BY BammAssumption DEF BammInv
  <1>2. n \in Nat
    BY <1>1, FundValues, SharesGiven DEF BammState
  <1>3. /\ total' = total + n /\ stake' = [stake EXCEPT ![u] = @ + n]
        /\ collateralHeld' = getCollateralBalance /\ price' = price /\ params' = params
        /\ pool' = [recorded |-> TRUE, deposit |-> pool.deposit + x, gain |-> 0]
    BY DEF deposit, provideToSP
  <1> HIDE DEF n
  <1>4. Covered(stake', total')
    <2>1. stake \in [Holders -> Nat] /\ total \in Nat
      BY <1>1 DEF BammState
    <2>2. Covered([stake EXCEPT ![u] = @ + n], total + n)
      BY <1>1, <1>2, <2>1, CoveredIssued
    <2> QED
      BY <1>3, <2>2
  <1>5. BammState'
    <2>1. pool' \in [recorded : BOOLEAN, deposit : Nat, gain : Nat]
      BY <1>1, <1>3, FundValues
    <2>2. stake' \in [Holders -> Nat] /\ total' \in Nat
      BY <1>1, <1>2, <1>3 DEF BammState
    <2>3. collateralHeld' \in Nat
      BY <1>1, <1>3, FundValues
    <2>4. price' \in Nat /\ params'.fee \in 0..MAX_FEE
      BY <1>1, <1>3 DEF BammState
    <2> QED
      BY <2>1, <2>2, <2>3, <2>4 DEF BammState
  <1> QED
    BY <1>4, <1>5 DEF BammInv

\* What a withdrawal takes.
LEMMA WithdrawalStep ==
  ASSUME BammInv, NEW u \in Holders, NEW k \in Nat, NEW safe, withdraw(u, k, safe)
  PROVE  \E t, c \in Nat :
           /\ t <= pool.deposit /\ c <= getCollateralBalance
           /\ t * (total + VirtualShares)
                <= k * (pool.deposit + 1) + (total + VirtualShares)
           /\ c * (total + VirtualShares) <= k * (getCollateralBalance + 1)
           /\ k <= stake[u]
           /\ total' = total - k /\ stake' = [stake EXCEPT ![u] = @ - k]
           /\ pool'.recorded \in BOOLEAN /\ pool'.deposit = pool.deposit - t /\ pool'.gain = 0
           /\ pool' = [recorded |-> pool'.recorded, deposit |-> pool.deposit - t, gain |-> 0]
           /\ collateralHeld' = getCollateralBalance - c /\ price' = price /\ params' = params
  <1> DEFINE t == toAmount(k, total, pool.deposit, TRUE)
             c == toAmount(k, total, getCollateralBalance, FALSE)
             left == IF t < pool.deposit THEN pool.deposit - t ELSE 0
  <1>1. BammState /\ total \in Nat /\ pool.deposit \in Nat /\ getCollateralBalance \in Nat
    BY FundValues DEF BammInv, BammState
  <1>2. /\ t \in Nat /\ c \in Nat
        /\ t * (total + VirtualShares) <= k * (pool.deposit + 1) + (total + VirtualShares)
        /\ c * (total + VirtualShares) <= k * (getCollateralBalance + 1)
    BY <1>1, AmountsPaid
  <1>3. /\ t <= pool.deposit /\ c <= getCollateralBalance /\ k <= stake[u]
        /\ total' = total - k /\ stake' = [stake EXCEPT ![u] = @ - k]
        /\ pool' = [recorded |-> left > 0, deposit |-> left, gain |-> 0]
        /\ collateralHeld' = getCollateralBalance - c /\ price' = price /\ params' = params
    BY DEF withdraw, withdrawFromSP
  <1> HIDE DEF t, c
  <1>4. left = pool.deposit - t
    BY <1>1, <1>2, <1>3
  <1> HIDE DEF left
  <1>5. pool'.recorded \in BOOLEAN /\ pool'.deposit = pool.deposit - t /\ pool'.gain = 0
    BY <1>3, <1>4
  <1>6. pool' = [recorded |-> pool'.recorded, deposit |-> pool.deposit - t, gain |-> 0]
    BY <1>3, <1>4
  <1> QED
    BY <1>2, <1>3, <1>5, <1>6

\* A withdrawal keeps it.
LEMMA WithdrawalInv ==
  ASSUME BammInv, NEW u \in Holders, NEW k \in Nat, NEW safe, withdraw(u, k, safe)
  PROVE  BammInv'
  <1>1. BammState /\ Covered(stake, total) /\ stake \in [Holders -> Nat] /\ total \in Nat
    BY DEF BammInv, BammState
  <1>2. PICK t, c \in Nat :
           /\ t <= pool.deposit /\ c <= getCollateralBalance /\ k <= stake[u]
           /\ total' = total - k /\ stake' = [stake EXCEPT ![u] = @ - k]
           /\ pool'.recorded \in BOOLEAN
           /\ pool' = [recorded |-> pool'.recorded, deposit |-> pool.deposit - t, gain |-> 0]
           /\ collateralHeld' = getCollateralBalance - c /\ price' = price /\ params' = params
    BY WithdrawalStep
  <1>3. pool.deposit \in Nat /\ getCollateralBalance \in Nat
    BY <1>1, FundValues
  <1>4. Covered(stake', total')
    <2>1. Covered([stake EXCEPT ![u] = @ - k], total - k)
      BY <1>1, <1>2, CoveredBurned
    <2> QED
      BY <1>2, <2>1
  <1>5. BammState'
    <2>1. pool' \in [recorded : BOOLEAN, deposit : Nat, gain : Nat]
      BY <1>2, <1>3
    <2>2. stake' \in [Holders -> Nat]
      BY <1>1, <1>2
    <2>3. total' \in Nat
      <3>1. stake[u] <= total /\ stake[u] \in Nat
        BY <1>1, CoveredTwo
      <3> QED
        BY <1>1, <1>2, <3>1
    <2>4. collateralHeld' \in Nat
      BY <1>2, <1>3
    <2>5. price' \in Nat /\ params'.fee \in 0..MAX_FEE
      BY <1>1, <1>2 DEF BammState
    <2> QED
      BY <2>1, <2>2, <2>3, <2>4, <2>5 DEF BammState
  <1> QED
    BY <1>4, <1>5 DEF BammInv

\* What a swap of x THUSD does: the collateral a is at most what x buys at the discount.
LEMMA SwapStep ==
  ASSUME BammState, NEW x \in Nat, NEW least, NEW z \in Nat, swap(x, least, z)
  PROVE  \E a, f \in Nat :
           /\ a <= getCollateralBalance /\ f < x
           /\ price = 0 => a = 0 /\ f = 0
           /\ price # 0 =>
                /\ a <= (((x * PRECISION) \div price) * (10000 + maxDiscount)) \div 10000
                /\ f = (x * (10000 + params.fee)) \div 10000 - x
           /\ pool' = [recorded |-> TRUE, deposit |-> pool.deposit + (x - f), gain |-> 0]
           /\ collateralHeld' = getCollateralBalance - a
           /\ total' = total /\ stake' = stake /\ price' = price /\ params' = params
  <1> DEFINE a == getSwapCollateralAmount(x, z)
             f == feeTHUSDAmount(x)
             m == (((x * PRECISION) \div price) * (10000 + maxDiscount)) \div 10000
  <1>1. /\ a \in Nat /\ a <= getCollateralBalance /\ x - f > 0
        /\ pool' = [recorded |-> TRUE, deposit |-> pool.deposit + (x - f), gain |-> 0]
        /\ collateralHeld' = getCollateralBalance - a
        /\ total' = total /\ stake' = stake /\ price' = price /\ params' = params
    BY DEF swap, provideToSP
  <1> DEFINE Done(aa, ff) ==
               /\ aa <= getCollateralBalance /\ ff < x
               /\ price = 0 => aa = 0 /\ ff = 0
               /\ price # 0 =>
                    /\ aa <= (((x * PRECISION) \div price) * (10000 + maxDiscount)) \div 10000
                    /\ ff = (x * (10000 + params.fee)) \div 10000 - x
               /\ pool' = [recorded |-> TRUE, deposit |-> pool.deposit + (x - ff), gain |-> 0]
               /\ collateralHeld' = getCollateralBalance - aa
               /\ total' = total /\ stake' = stake /\ price' = price /\ params' = params
  <1>0. ASSUME a \in Nat, f \in Nat, Done(a, f) PROVE \E aa, ff \in Nat : Done(aa, ff)
    <2> HIDE DEF a, f, Done
    <2> QED
      BY <1>0
  <1>2. CASE price = 0
    <2>1. a = 0 /\ f = 0
      BY <1>2 DEF getSwapCollateralAmount, feeTHUSDAmount
    <2> HIDE DEF a, f
    <2>2. f < x
      BY <1>1, <2>1
    <2>3. Done(a, f)
      BY <1>1, <1>2, <2>1, <2>2
    <2> QED
      BY <1>0, <1>1, <2>1, <2>3
  <1>3. CASE price # 0
    <2>1. f = (x * (10000 + params.fee)) \div 10000 - x
      BY <1>3 DEF feeTHUSDAmount, addBps
    <2>2. f \in Nat
      BY <2>1, BasisPoints, BammAssumption DEF BammState
    <2>3. m \in Nat
      <3>1. (x * PRECISION) \div price \in Nat
        BY <1>3, BammAssumption, Product, Quotient DEF BammState
      <3> QED
        BY <3>1, BammAssumption, Product, Quotient
    <2>4. \E y : a = Reverted \/ a = Lesser(m, y)
      BY <1>3 DEF getSwapCollateralAmount, addBps
    <2> HIDE DEF a, f, m
    <2>5. a <= m
      BY <1>1, <2>3, <2>4 DEF Reverted, Lesser
    <2>6. f < x
      BY <1>1, <2>2
    <2>7. a <= (((x * PRECISION) \div price) * (10000 + maxDiscount)) \div 10000
      BY <2>5 DEF m
    <2>8. Done(a, f)
      BY <1>1, <1>3, <2>1, <2>6, <2>7
    <2> QED
      BY <1>0, <1>1, <2>2, <2>8
  <1> QED
    BY <1>2, <1>3

\* A swap keeps it.
LEMMA SwapInv ==
  ASSUME BammInv, NEW x \in Nat, NEW least, NEW z \in Nat, swap(x, least, z)
  PROVE  BammInv'
  <1>1. BammState
    BY DEF BammInv
  <1>2. PICK a, f \in Nat :
           /\ a <= getCollateralBalance /\ f < x
           /\ pool' = [recorded |-> TRUE, deposit |-> pool.deposit + (x - f), gain |-> 0]
           /\ collateralHeld' = getCollateralBalance - a
           /\ total' = total /\ stake' = stake /\ price' = price /\ params' = params
    BY <1>1, SwapStep
  <1>3. pool.deposit + (x - f) \in Nat /\ getCollateralBalance - a \in Nat
    BY <1>1, <1>2, FundValues
  <1> QED
    BY <1>2, <1>3 DEF BammInv, BammState

\* Every step keeps it.
LEMMA BammNextInv == BammInv /\ [BammNext]_bammVars => BammInv'
  <1> SUFFICES ASSUME BammInv, [BammNext]_bammVars PROVE BammInv'
    OBVIOUS
  <1>1. CASE UNCHANGED bammVars
    BY <1>1 DEF bammVars, BammInv, BammState
  <1>2. CASE \E u \in Holders, amount \in Amounts : deposit(u, amount)
    BY <1>2, DepositInv
  <1>3. CASE \E u \in Holders : \E n \in ShareChoices(u), safe \in BOOLEAN : withdraw(u, n, safe)
    <2>0. PICK u \in Holders : \E n \in ShareChoices(u), safe \in BOOLEAN : withdraw(u, n, safe)
      BY <1>3
    <2>1. PICK n \in ShareChoices(u), safe \in BOOLEAN : withdraw(u, n, safe)
      BY <2>0
    <2>2. stake[u] \in Nat
      BY DEF BammInv, BammState
    <2>3. n \in Nat
      BY <2>1, <2>2 DEF ShareChoices
    <2> QED
      BY <2>1, <2>3, WithdrawalInv
  <1>4. CASE \E amount \in Amounts, least \in {0, 1}, thusdPrice \in THUSDPrices :
               swap(amount, least, thusdPrice)
    BY <1>4, SwapInv, BammAssumption
  <1>5. CASE \E newA \in Amplifications, newFee \in Fees : setParams(newA, newFee)
    <2>1. PICK newA \in Amplifications, newFee \in Fees : setParams(newA, newFee)
      BY <1>5
    <2>2. params'.fee = newFee /\ newFee \in 0..MAX_FEE
      BY <2>1, BammAssumption DEF setParams
    <2> QED
      BY <2>1, <2>2 DEF setParams, BammInv, BammState
  <1>6. CASE \E loss \in Losses \cup {pool.deposit}, gain \in Gains : offset(loss, gain)
    <2>1. PICK loss \in Losses \cup {pool.deposit}, gain \in Gains : offset(loss, gain)
      BY <1>6
    <2>2. pool.deposit \in Nat /\ pool.gain \in Nat /\ loss \in 1..pool.deposit /\ gain \in Nat
      BY <2>1, BammAssumption DEF offset, BammInv, BammState
    <2>3. pool' = [pool EXCEPT !.deposit = @ - loss, !.gain = @ + gain]
      BY <2>1 DEF offset
    <2>a. pool \in [recorded : BOOLEAN, deposit : Nat, gain : Nat]
      BY DEF BammInv, BammState
    <2>b. /\ pool' = [recorded |-> pool.recorded, deposit |-> pool.deposit - loss,
                      gain |-> pool.gain + gain]
          /\ pool.recorded \in BOOLEAN
      BY <2>3, <2>a
    <2>c. pool.deposit - loss \in Nat /\ pool.gain + gain \in Nat
      BY <2>2
    <2>4. pool' \in [recorded : BOOLEAN, deposit : Nat, gain : Nat]
      BY <2>b, <2>c
    <2> QED
      BY <2>1, <2>4 DEF offset, BammInv, BammState
  <1>7. CASE \E amount \in Gifts : receive(amount)
    BY <1>7, BammAssumption DEF receive, BammInv, BammState
  <1>8. CASE \E newPrice \in Prices : fetchPrice(newPrice)
    BY <1>8, BammAssumption DEF fetchPrice, BammInv, BammState
  <1> QED
    BY <1>1, <1>2, <1>3, <1>4, <1>5, <1>6, <1>7, <1>8 DEF BammNext

\* Only deposits and withdrawals change the number of shares.
LEMMA OnlyTheseMoveShares ==
  ASSUME BammInv, [BammNext]_bammVars, total' # total
  PROVE  \/ \E u \in Holders, x \in Amounts : deposit(u, x)
         \/ \E u \in Holders, k \in Nat, safe \in BOOLEAN : withdraw(u, k, safe)
  <1>1. CASE \E u \in Holders : \E n \in ShareChoices(u), safe \in BOOLEAN : withdraw(u, n, safe)
    <2>0. PICK u \in Holders : \E n \in ShareChoices(u), safe \in BOOLEAN : withdraw(u, n, safe)
      BY <1>1
    <2>1. PICK n \in ShareChoices(u), safe \in BOOLEAN : withdraw(u, n, safe)
      BY <2>0
    <2>2. stake[u] \in Nat
      BY DEF BammInv, BammState
    <2>3. n \in Nat
      BY <2>1, <2>2 DEF ShareChoices
    <2> QED
      BY <2>1, <2>3
  <1>2. CASE \E amount \in Amounts, least \in {0, 1}, thusdPrice \in THUSDPrices :
               swap(amount, least, thusdPrice)
    BY <1>2 DEF swap
  <1>3. CASE \E newA \in Amplifications, newFee \in Fees : setParams(newA, newFee)
    BY <1>3 DEF setParams
  <1>4. CASE \E loss \in Losses \cup {pool.deposit}, gain \in Gains : offset(loss, gain)
    BY <1>4 DEF offset
  <1>5. CASE \E amount \in Gifts : receive(amount)
    BY <1>5 DEF receive
  <1>6. CASE \E newPrice \in Prices : fetchPrice(newPrice)
    BY <1>6 DEF fetchPrice
  <1>7. CASE UNCHANGED bammVars
    BY <1>7 DEF bammVars
  <1> QED
    BY <1>1, <1>2, <1>3, <1>4, <1>5, <1>6, <1>7 DEF BammNext

\* A deposit leaves every other holder the own part.
LEMMA DepositLeavesParts ==
  ASSUME BammInv, NEW w \in Holders, NEW x \in Amounts, deposit(w, x),
         NEW u \in Holders, stake'[u] = stake[u]
  PROVE  ClaimValue(u)' >= ClaimValue(u) - Dust
  <1> DEFINE n == toShares(x, total, totalValue)
             S == total + VirtualShares
             V == totalValue + 1
             s == stake[u]
  <1>1. x \in Nat /\ BammState /\ s \in Nat /\ total \in Nat /\ price \in Nat
    BY BammAssumption DEF BammInv, BammState
  <1>2. S \in Nat \ {0} /\ V \in Nat /\ PRECISION \in Nat \ {0}
    BY <1>1, FundValues
  <1>3. s <= S
    <2>1. s <= total
      BY CoveredTwo DEF BammInv, BammState
    <2> QED
      BY <1>1, <2>1, BammAssumption
  <1>4. n \in Nat /\ n * V <= x * S + V
    BY <1>1, FundValues, SharesGiven
  <1>5. (s * V) \div S <= (s * (V + x)) \div (S + n) + V \div S + 1
    BY <1>1, <1>2, <1>3, <1>4, DepositKeeps
  <1>6. ClaimValue(u) = (s * V) \div S
    BY DEF ClaimValue
  <1>7. Dust = V \div S + price \div PRECISION + 3
    BY DEF Dust
  <1>8. totalValue' + 1 = V + x
    <2>1. /\ collateralHeld' = getCollateralBalance /\ price' = price
          /\ pool'.deposit = pool.deposit + x /\ pool'.gain = 0
      BY DEF deposit, provideToSP
    <2>2. getCollateralBalance' = getCollateralBalance
      BY <1>1, <2>1, FundValues DEF getCollateralBalance
    <2>3. (getCollateralBalance * price) \div PRECISION \in Nat
      BY <1>1, <1>2, FundValues, Product, Quotient
    <2>4. totalValue' = pool.deposit + x + (getCollateralBalance * price) \div PRECISION
      BY <2>1, <2>2 DEF totalValue
    <2> QED
      BY <1>1, <2>3, <2>4, FundValues DEF totalValue
  <1>9. total' + VirtualShares = S + n
    <2>1. total' = total + n
      BY DEF deposit
    <2> HIDE DEF n
    <2> QED
      BY <1>1, <1>4, <2>1, BammAssumption
  <1>10. ClaimValue(u)' = (s * (V + x)) \div (S + n)
    <2>1. ClaimValue(u)' = (stake'[u] * (totalValue' + 1)) \div (total' + VirtualShares)
      BY DEF ClaimValue
    <2> QED
      BY <1>8, <1>9, <2>1
  <1> HIDE DEF n, S, V, s
  <1>11. /\ (s * V) \div S \in Nat /\ (s * (V + x)) \div (S + n) \in Nat /\ V \div S \in Nat
         /\ price \div PRECISION \in Nat
    BY <1>1, <1>2, <1>4, Product, Quotient
  <1> QED
    BY <1>5, <1>6, <1>7, <1>10, <1>11

\* A withdrawal leaves every other holder the own part.
LEMMA WithdrawalLeavesParts ==
  ASSUME BammInv, NEW w \in Holders, NEW k \in Nat, NEW safe, withdraw(w, k, safe),
         total' # total, NEW u \in Holders, stake'[u] = stake[u]
  PROVE  ClaimValue(u)' >= ClaimValue(u) - Dust
  <1> DEFINE S == total + VirtualShares
             D == pool.deposit
             C == getCollateralBalance
             s == stake[u]
             p == price
             P == PRECISION
  <1>1. /\ BammState /\ s \in Nat /\ total \in Nat /\ p \in Nat
        /\ stake \in [Holders -> Nat]
    BY DEF BammInv, BammState
  <1>2. S \in Nat \ {0} /\ D \in Nat /\ C \in Nat /\ P \in Nat \ {0}
    BY <1>1, FundValues
  <1>3. PICK t, c \in Nat :
           /\ t <= D /\ c <= C
           /\ t * S <= k * (D + 1) + S
           /\ c * S <= k * (C + 1)
           /\ k <= stake[w]
           /\ total' = total - k /\ stake' = [stake EXCEPT ![w] = @ - k]
           /\ pool'.deposit = D - t /\ pool'.gain = 0
           /\ collateralHeld' = C - c /\ price' = price
    BY WithdrawalStep
  <1>4. s + k < S
    <2>1. w # u
      BY <1>1, <1>3
    <2>2. stake[u] + stake[w] <= total
      BY <1>1, <2>1, CoveredTwo DEF BammInv
    <2>3. stake[w] \in Nat /\ VirtualShares \in Nat \ {0}
      BY <1>1, BammAssumption
    <2> QED
      BY <1>1, <1>3, <2>2, <2>3
  <1>5. ClaimValue(u) = (s * (D + (C * p) \div P + 1)) \div S
    BY DEF ClaimValue, totalValue
  <1>6. ClaimValue(u)' = (s * (D - t + ((C - c) * p) \div P + 1)) \div (S - k)
    <2>1. ClaimValue(u)' = (stake'[u] * (totalValue' + 1)) \div (total' + VirtualShares)
      BY DEF ClaimValue
    <2>2. getCollateralBalance' = C - c
      BY <1>2, <1>3 DEF getCollateralBalance
    <2>3. totalValue' = D - t + ((C - c) * p) \div P
      BY <1>3, <2>2 DEF totalValue
    <2>4. total' + VirtualShares = S - k
      BY <1>1, <1>3, BammAssumption
    <2> QED
      BY <2>1, <2>3, <2>4
  <1>7. Dust = (D + (C * p) \div P + 1) \div S + p \div P + 3
    BY DEF Dust, totalValue
  <1> HIDE DEF S, D, C, s, p, P
  <1>8. (s * (D + (C * p) \div P + 1)) \div S
           <= (s * (D - t + ((C - c) * p) \div P + 1)) \div (S - k) + p \div P + 3
    BY <1>1, <1>2, <1>3, <1>4, WithdrawalKeeps
  <1>9. /\ (C * p) \div P \in Nat /\ ((C - c) * p) \div P \in Nat /\ p \div P \in Nat
        /\ S - k \in Nat \ {0} /\ D - t \in Nat
    <2>1. C - c \in Nat /\ S - k \in Nat \ {0} /\ D - t \in Nat
      BY <1>1, <1>2, <1>3, <1>4
    <2>2. C * p \in Nat /\ (C - c) * p \in Nat
      BY <1>1, <1>2, <2>1, Product
    <2> QED
      BY <1>1, <1>2, <2>1, <2>2, Quotient
  <1>10. D + (C * p) \div P + 1 \in Nat /\ D - t + ((C - c) * p) \div P + 1 \in Nat
    BY <1>2, <1>9
  <1>11. /\ (s * (D + (C * p) \div P + 1)) \div S \in Nat
         /\ (s * (D - t + ((C - c) * p) \div P + 1)) \div (S - k) \in Nat
         /\ (D + (C * p) \div P + 1) \div S \in Nat
    BY <1>1, <1>2, <1>9, <1>10, Product, Quotient
  <1> QED
    BY <1>5, <1>6, <1>7, <1>8, <1>9, <1>11

\* A swap costs at most the discount and the fee.
LEMMA SwapCosts ==
  ASSUME BammInv, NEW x \in Amounts, NEW least, NEW z \in THUSDPrices, swap(x, least, z)
  PROVE  totalValue' + (x * (maxDiscount + MAX_FEE)) \div 10000 + 1 >= totalValue
  <1> DEFINE D == pool.deposit
             C == getCollateralBalance
             p == price
             P == PRECISION
             d == maxDiscount
             F == MAX_FEE
             v == (C * p) \div P
             e == (x * (d + F)) \div 10000
  <1>1. /\ BammState /\ x \in Nat /\ z \in Nat /\ p \in Nat /\ P \in Nat \ {0} /\ d \in Nat
        /\ F \in Nat /\ params.fee \in Nat /\ params.fee <= F
    BY BammAssumption DEF BammInv, BammState
  <1>2. D \in Nat /\ C \in Nat
    BY <1>1, FundValues
  <1>3. PICK a, f \in Nat :
           /\ a <= C /\ f < x
           /\ p = 0 => a = 0 /\ f = 0
           /\ p # 0 => /\ a <= (((x * P) \div p) * (10000 + d)) \div 10000
                       /\ f = (x * (10000 + params.fee)) \div 10000 - x
           /\ pool' = [recorded |-> TRUE, deposit |-> D + (x - f), gain |-> 0]
           /\ collateralHeld' = C - a /\ price' = price
    BY <1>1, SwapStep
  <1>4. totalValue = D + v
    BY DEF totalValue
  <1>5. totalValue' = D + (x - f) + ((C - a) * p) \div P
    <2>1. getCollateralBalance' = C - a
      BY <1>2, <1>3 DEF getCollateralBalance
    <2>2. pool'.deposit = D + (x - f)
      BY <1>3
    <2> QED
      BY <1>3, <2>1, <2>2 DEF totalValue
  <1>6. v \in Nat /\ ((C - a) * p) \div P \in Nat /\ e \in Nat
    <2>1. C * p \in Nat /\ (C - a) * p \in Nat /\ x * (d + F) \in Nat
      BY <1>1, <1>2, <1>3, Product
    <2> QED
      BY <1>1, <2>1, Quotient
  <1> HIDE DEF D, C, p, P, d, F
  <1>7. CASE p = 0
    <2>1. a = 0 /\ f = 0 /\ C - a = C
      BY <1>2, <1>3, <1>7
    <2>2. ((C - a) * p) \div P = v
      BY <2>1
    <2> HIDE DEF v, e
    <2>3. totalValue' + e + 1 >= totalValue
      BY <1>1, <1>2, <1>4, <1>5, <1>6, <2>1, <2>2
    <2> QED
      BY <2>3 DEF e, d, F
  <1>8. CASE p # 0
    <2>1. v <= ((C - a) * p) \div P + x + (x * d) \div 10000 + 1
      BY <1>1, <1>2, <1>3, <1>8, SoldValue
    <2>2. f + (x * d) \div 10000 <= e
      <3>1. (x * (10000 + params.fee)) \div 10000 - x + (x * d) \div 10000
              <= (x * (d + F)) \div 10000
        <4> DEFINE g == params.fee
        <4>1. g \in Nat /\ g <= F
          BY <1>1
        <4> HIDE DEF g
        <4>2. (x * (10000 + g)) \div 10000 - x + (x * d) \div 10000 <= (x * (d + F)) \div 10000
          BY <1>1, <4>1, BasisPoints
        <4> QED
          BY <4>2 DEF g
      <3> QED
        BY <1>3, <1>8, <3>1
    <2>3. (x * d) \div 10000 \in Nat
      BY <1>1, Product, Quotient
    <2> HIDE DEF v, e
    <2>4. totalValue' + e + 1 >= totalValue
      BY <1>1, <1>2, <1>3, <1>4, <1>5, <1>6, <2>1, <2>2, <2>3
    <2> QED
      BY <2>4 DEF e, d, F
  <1> QED
    BY <1>7, <1>8

\* No deposit and no withdrawal costs another holder more than dust, and no swap the fund more
\* than the discount, the fee and one unit, for every price, parameter, amount and number of
\* holders (deposit, withdraw, swap, getSwapCollateralAmount).
THEOREM BammPartsAreKept == BammSpec => OthersKeepTheirPart /\ SwapsCostAtMostTheDiscount
  <1> DEFINE Kept == \A u \in Holders :
                       total' # total /\ stake'[u] = stake[u] =>
                         ClaimValue(u)' >= ClaimValue(u) - Dust
             Sold == \A amount \in Amounts, least \in {0, 1}, thusdPrice \in THUSDPrices :
                       swap(amount, least, thusdPrice) =>
                         totalValue' + (amount * (maxDiscount + MAX_FEE)) \div 10000 + 1
                           >= totalValue
  <1>1. BammInv /\ [BammNext]_bammVars => [Kept]_bammVars
    <2> SUFFICES ASSUME BammInv, [BammNext]_bammVars PROVE Kept
      OBVIOUS
    <2> SUFFICES ASSUME NEW u \in Holders, total' # total, stake'[u] = stake[u]
                 PROVE  ClaimValue(u)' >= ClaimValue(u) - Dust
      OBVIOUS
    <2>1. CASE \E w \in Holders, x \in Amounts : deposit(w, x)
      BY <2>1, DepositLeavesParts
    <2>2. CASE \E w \in Holders, k \in Nat, safe \in BOOLEAN : withdraw(w, k, safe)
      BY <2>2, WithdrawalLeavesParts
    <2> QED
      BY <2>1, <2>2, OnlyTheseMoveShares
  <1>2. BammInv => [Sold]_bammVars
    <2> SUFFICES ASSUME BammInv PROVE Sold
      OBVIOUS
    <2> QED
      BY SwapCosts
  <1>3. BammSpec => []BammInv
    BY BammInitInv, BammNextInv, PTL DEF BammSpec
  <1>4. BammSpec => [][Kept]_bammVars /\ [][Sold]_bammVars
    <2> HIDE DEF Kept, Sold
    <2> QED
      BY <1>1, <1>2, <1>3, PTL DEF BammSpec
  <1> QED
    BY <1>4 DEF OthersKeepTheirPart, SwapsCostAtMostTheDiscount

-----------------------------------------------------------------------------
(* Pages: a table of vaults, and the cards of the dashboard. *)

\* A call for the page that is current, of a block with the current number of vaults.
AsksForThisPage(r) ==
  /\ r.page = page
  /\ r.block \in 1..Len(vaultCounts) /\ vaultCounts[r.block] = numberOfTroves

\* The newest call is on its way, or shown, or was overtaken; it asks for this page.
TableInv ==
  /\ vaultCounts \in Seq(Int) /\ Len(vaultCounts) >= 1
  /\ page \in Int /\ page = clampedPage(page, numberOfTroves)
  /\ asked \in Nat /\ asked >= 2 /\ overtaken \in BOOLEAN
  /\ \A r \in pageRequests : r.n \in Nat /\ r.n <= asked /\ (r.n = asked => AsksForThisPage(r))
  /\ vaults.n \in Nat /\ vaults.n <= asked /\ (vaults.n = asked => AsksForThisPage(vaults))
  /\ overtaken \/ vaults.n = asked \/ \E r \in pageRequests : r.n = asked

\* The page is clamped to one that exists.
LEMMA Clamping ==
  ASSUME NEW p \in Int, NEW n \in Int
  PROVE  /\ clampedPage(p, n) \in Int
         /\ clampedPage(clampedPage(p, n), n) = clampedPage(p, n)
<1> USE PageSizeAssumption
<1>1. numberOfPages(n) \in Int
  <2>1. n + pageSize - 1 \in Int /\ pageSize \in Int /\ pageSize > 0
    OBVIOUS
  <2>2. (n + pageSize - 1) \div pageSize \in Int
    BY <2>1
  <2> QED BY <2>2 DEF numberOfPages
<1> QED BY <1>1 DEF clampedPage

\* As many calls as there are reasons, numbered on from the last one.
LEMMA CallsOfARender ==
  ASSUME asked \in Nat, NEW was, NEW is, NEW before, NEW after, NEW block,
         NEW more, more = getTroves(was, is, before, after, block)
  PROVE  /\ more = {} <=> was = is /\ before = after
         /\ Cardinality(more) \in Nat
         /\ \A r \in more : /\ r.n \in Nat /\ r.n > asked /\ r.n <= asked + Cardinality(more)
                            /\ r.page = is /\ r.block = block
         /\ more # {} => \E r \in more : r.n = asked + Cardinality(more)
         /\ more = {} => Cardinality(more) = 0
<1> DEFINE S == {x \in {"page", "reload"} : IF x = "page" THEN was # is ELSE before # after}
           k == Cardinality(S)
           call(i) == [n |-> asked + i, page |-> is, block |-> block]
           f == [i \in 1..k |-> call(i)]
<1>1. IsFiniteSet(S)
  <2>1. IsFiniteSet({"page"} \cup {"reload"})
    BY FS_Singleton, FS_AddElement
  <2>2. S \in SUBSET ({"page"} \cup {"reload"})
    OBVIOUS
  <2> HIDE DEF S
  <2> QED BY <2>1, <2>2, FS_Subset
<1>2. S = {} <=> was = is /\ before = after
  <2>1. "page" \in S <=> was # is
    OBVIOUS
  <2>2. "reload" \in S <=> before # after
    OBVIOUS
  <2>3. \A x \in S : x \in {"page", "reload"}
    OBVIOUS
  <2> HIDE DEF S
  <2> QED BY <2>1, <2>2, <2>3
<1>3. more = {call(i) : i \in 1..k}
  BY DEF getTroves
<1> HIDE DEF S
<1>4. k \in Nat /\ (k = 0 <=> S = {})
  BY <1>1, FS_CardinalityType, FS_EmptySet
<1> HIDE DEF k
<1>5. \A i \in 1..k : call(i).n = asked + i /\ call(i).page = is /\ call(i).block = block
  OBVIOUS
<1>6. f \in Bijection(1..k, more)
  <2>1. f \in [1..k -> more]
    BY <1>3
  <2>2. \A i, j \in 1..k : f[i] = f[j] => i = j
    <3> TAKE i, j \in 1..k
    <3> HAVE f[i] = f[j]
    <3>1. call(i) = call(j)
      OBVIOUS
    <3>2. call(i).n = call(j).n
      BY <3>1
    <3>3. asked + i = asked + j
      BY <3>2, <1>5
    <3> QED BY <3>3, <1>4
  <2>3. \A r \in more : \E i \in 1..k : f[i] = r
    BY <1>3
  <2> HIDE DEF f
  <2> QED BY <2>1, <2>2, <2>3 DEF Bijection, Injection, IsInjective, Surjection
<1> HIDE DEF call
<1>7. Cardinality(more) = k
  <2>1. IsFiniteSet(1..k) /\ Cardinality(1..k) = k
    <3>1. IsFiniteSet(1..k) /\ Cardinality(1..k) = IF 1 > k THEN 0 ELSE k - 1 + 1
      BY <1>4, FS_Interval
    <3> QED BY <3>1, <1>4
  <2> HIDE DEF f
  <2> QED BY <2>1, <1>6, FS_Bijection DEF ExistsBijection
<1>8. ASSUME NEW r \in more
      PROVE  r.n \in Nat /\ r.n > asked /\ r.n <= asked + k /\ r.page = is /\ r.block = block
  <2>1. PICK i \in 1..k : r = call(i)
    BY <1>3
  <2> QED BY <2>1, <1>4, <1>5
<1>9. k # 0 => \E r \in more : r.n = asked + k
  <2> HAVE k # 0
  <2>1. k \in 1..k
    BY <1>4
  <2>2. call(k) \in more
    BY <2>1, <1>3
  <2> QED BY <2>1, <2>2, <1>5
<1>10. more = {} <=> k = 0
  <2>1. k = 0 => more = {}
    BY <1>3
  <2> QED BY <2>1, <1>9
<1> QED BY <1>2, <1>4, <1>7, <1>8, <1>9, <1>10

\* A render, for whatever number of vaults and whichever page was chosen.
LEMMA RenderKeepsTable ==
  ASSUME TableInv, NEW p \in Int, NEW counts \in Seq(Int), Len(counts) >= 1, RenderTable(p, counts),
         \A i \in 1..Len(vaultCounts) : i \in 1..Len(counts) /\ counts[i] = vaultCounts[i]
  PROVE  TableInv'
<1>a. PICK before : before = numberOfTroves
  OBVIOUS
<1>b. PICK after : after = Last(counts)
  OBVIOUS
<1>c. PICK is : is = clampedPage(p, after)
  OBVIOUS
<1>d. PICK more : more = getTroves(page, is, before, after, Len(counts))
  OBVIOUS
<1>1. before \in Int /\ after \in Int /\ page = clampedPage(page, before) /\ asked \in Nat /\ page \in Int
  BY <1>a, <1>b DEF TableInv, Last, numberOfTroves
<1>2. /\ page' = is /\ vaultCounts' = counts /\ pageRequests' = pageRequests \cup more
      /\ asked' = asked + Cardinality(more) /\ (overtaken' <=> overtaken /\ more = {})
      /\ overtaken' \in BOOLEAN /\ vaults' = vaults
  BY <1>a, <1>b, <1>c, <1>d, <1>1 DEF RenderTable
<1>3. is \in Int /\ is = clampedPage(is, after)
  BY <1>c, <1>1, Clamping
<1>4. numberOfTroves' = after
  BY <1>b, <1>2 DEF numberOfTroves
<1>5. /\ more = {} <=> page = is /\ before = after
      /\ Cardinality(more) \in Nat
      /\ \A r \in more : /\ r.n \in Nat /\ r.n > asked /\ r.n <= asked + Cardinality(more)
                         /\ r.page = is /\ r.block = Len(counts)
      /\ more # {} => \E r \in more : r.n = asked + Cardinality(more)
      /\ more = {} => Cardinality(more) = 0
  BY <1>d, <1>1, CallsOfARender
<1>6. (vaultCounts \in Seq(Int) /\ Len(vaultCounts) >= 1)'
  BY <1>2
<1>7. (page \in Int /\ page = clampedPage(page, numberOfTroves))'
  BY <1>2, <1>3, <1>4 DEF clampedPage, numberOfPages
<1>8. (asked \in Nat /\ asked >= 2 /\ overtaken \in BOOLEAN)'
  BY <1>2, <1>5 DEF TableInv
<1>9. CASE more = {}
  <2>1. page' = page /\ numberOfTroves' = numberOfTroves /\ asked' = asked /\ pageRequests' = pageRequests
        /\ (overtaken' <=> overtaken)
    BY <1>a, <1>1, <1>2, <1>4, <1>5, <1>9
  <2>2. \A r : AsksForThisPage(r) => AsksForThisPage(r)'
    BY <1>2, <2>1 DEF AsksForThisPage
  <2>3. \A r \in pageRequests : r.n \in Nat /\ r.n <= asked /\ (r.n = asked => AsksForThisPage(r)')
    BY <2>2 DEF TableInv
  <2>4. (vaults.n \in Nat /\ vaults.n <= asked /\ (vaults.n = asked => AsksForThisPage(vaults)))'
    BY <1>2, <2>1 DEF TableInv, AsksForThisPage
  <2>5. (overtaken \/ vaults.n = asked \/ \E r \in pageRequests : r.n = asked)'
    BY <1>2, <2>1 DEF TableInv
  <2> QED BY <1>6, <1>7, <1>8, <2>1, <2>3, <2>4, <2>5 DEF TableInv
<1>10. CASE more # {}
  <2>1. Cardinality(more) > 0
    BY <1>1, <1>5, <1>10
  <2>2. ASSUME NEW r \in more PROVE AsksForThisPage(r)'
    <3>1. r.page = is /\ r.block = Len(counts)
      BY <1>5
    <3>2. Len(counts) \in 1..Len(counts)
      OBVIOUS
    <3> QED BY <3>1, <3>2, <1>b, <1>2, <1>4 DEF AsksForThisPage, Last
  <2>3. ASSUME NEW r \in pageRequests' PROVE r.n \in Nat /\ r.n <= asked' /\ (r.n = asked' => AsksForThisPage(r)')
    <3>1. CASE r \in more
      BY <3>1, <1>2, <1>5, <2>2
    <3>2. CASE r \in pageRequests
      BY <3>2, <1>1, <1>2, <1>5, <2>1 DEF TableInv
    <3> QED BY <3>1, <3>2, <1>2
  <2>4. vaults'.n \in Nat /\ vaults'.n <= asked' /\ vaults'.n # asked'
    BY <1>1, <1>2, <1>5, <2>1 DEF TableInv
  <2>5. \E r \in pageRequests' : r.n = asked'
    BY <1>2, <1>5, <1>10
  <2> QED BY <1>6, <1>7, <1>8, <2>3, <2>4, <2>5 DEF TableInv
<1> QED BY <1>9, <1>10

\* An answer, or an error.
LEMMA AnswerKeepsTable ==
  ASSUME TableInv, NEW r \in pageRequests, TableAnswer(r) \/ TableError(r)
  PROVE  TableInv'
<1>1. page' = page /\ vaultCounts' = vaultCounts /\ asked' = asked /\ pageRequests' = pageRequests \ {r}
  BY DEF TableAnswer, TableError
<1>2. \A q : AsksForThisPage(q)' <=> AsksForThisPage(q)
  BY <1>1 DEF AsksForThisPage, numberOfTroves
<1>3. /\ (vaultCounts \in Seq(Int) /\ Len(vaultCounts) >= 1)'
      /\ (page \in Int /\ page = clampedPage(page, numberOfTroves))'
      /\ (asked \in Nat /\ asked >= 2)'
  BY <1>1 DEF TableInv, clampedPage, numberOfTroves, numberOfPages
<1>4. \A q \in pageRequests' : q.n \in Nat /\ q.n <= asked' /\ (q.n = asked' => AsksForThisPage(q)')
  BY <1>1, <1>2 DEF TableInv
<1>5. r.n \in Nat /\ r.n <= asked /\ (r.n = asked => AsksForThisPage(r)) /\ overtaken \in BOOLEAN
  BY DEF TableInv
<1>6. CASE TableAnswer(r)
  <2>1. /\ vaults' = r /\ overtaken' \in BOOLEAN
        /\ overtaken' <=> r.n # asked /\ (overtaken \/ vaults.n = asked)
    BY <1>5, <1>6 DEF TableAnswer
  <2>2. (vaults.n \in Nat /\ vaults.n <= asked)'
    BY <1>1, <1>5, <2>1
  <2>3. (vaults.n = asked => AsksForThisPage(vaults))'
    BY <1>1, <1>5, <2>1 DEF AsksForThisPage, numberOfTroves
  <2>4. (overtaken \/ vaults.n = asked \/ \E q \in pageRequests : q.n = asked)'
    BY <1>1, <2>1 DEF TableInv
  <2> QED BY <1>3, <1>4, <2>1, <2>2, <2>3, <2>4 DEF TableInv
<1>7. CASE TableError(r)
  <2>1. /\ vaults' = vaults /\ overtaken' \in BOOLEAN
        /\ overtaken' <=> overtaken \/ r.n = asked
    BY <1>5, <1>7 DEF TableError
  <2>2. (vaults.n \in Nat /\ vaults.n <= asked)'
    BY <1>1, <2>1 DEF TableInv
  <2>3. (vaults.n = asked => AsksForThisPage(vaults))'
    BY <1>1, <2>1 DEF TableInv, AsksForThisPage, numberOfTroves
  <2>4. (overtaken \/ vaults.n = asked \/ \E q \in pageRequests : q.n = asked)'
    BY <1>1, <2>1 DEF TableInv
  <2> QED BY <1>3, <1>4, <2>1, <2>2, <2>3, <2>4 DEF TableInv
<1> QED BY <1>6, <1>7

\* Everything the table of traders does leaves the table of vaults alone.
LEMMA OthersKeepTable ==
  ASSUME TableInv, UNCHANGED tableVars
  PROVE  TableInv'
<1>1. /\ vaultCounts' = vaultCounts /\ page' = page /\ pageRequests' = pageRequests /\ asked' = asked
      /\ vaults' = vaults /\ overtaken' = overtaken
  BY DEF tableVars
<1> QED BY <1>1 DEF TableInv, AsksForThisPage, numberOfTroves, clampedPage, numberOfPages

\* RiskyVaults.tsx: for any size of a page, any numbers of vaults, blocks and presses, and
\* whatever order the answers come in, a table without open calls whose newest call was
\* not overtaken or failed shows the rows that its heading counts.
THEOREM TableAlwaysShowsItsPage == TablesSpec => []TableShowsItsPage
<1>1. PagesInit => TableInv
  <2> SUFFICES ASSUME PagesInit PROVE TableInv
    OBVIOUS
  <2>1. PICK n0 \in 0..MaxVaults : vaultCounts = <<n0>>
    BY DEF PagesInit
  <2>2. /\ vaultCounts \in Seq(Int) /\ Len(vaultCounts) = 1 /\ numberOfTroves = n0 /\ n0 \in Int
        /\ vaultCounts[1] = n0
    BY <2>1 DEF numberOfTroves, Last
  <2>3. /\ page = 0 /\ asked = 2 /\ overtaken = FALSE /\ vaults.n = 0
        /\ pageRequests = {[n |-> i, page |-> 0, block |-> 1] : i \in 1..2}
    BY DEF PagesInit, Loading
  <2>4. page = clampedPage(page, numberOfTroves)
    <3>1. n0 >= 0
      BY <2>1
    <3>2. numberOfPages(n0) \in Int /\ numberOfPages(n0) > 0
      <4>1. CASE n0 = 0
        BY <4>1 DEF numberOfPages
      <4>2. CASE n0 # 0
        <5>1. pageSize \in Int /\ pageSize > 0 /\ n0 + pageSize - 1 \in Int /\ n0 + pageSize - 1 >= pageSize
          BY <2>2, <3>1, <4>2, PageSizeAssumption
        <5>2. PICK m : m = n0 + pageSize - 1
          OBVIOUS
        <5>3. m \div pageSize \in Int /\ m \div pageSize > 0
          <6>1. m \in Int /\ m >= pageSize
            BY <5>1, <5>2
          <6>2. m \div pageSize \in Int
            BY <6>1, <5>1
          <6>3. m \div pageSize >= 1
            BY <6>1, <5>1
          <6> QED BY <6>2, <6>3
        <5> QED BY <4>2, <5>2, <5>3 DEF numberOfPages
      <4> QED BY <4>1, <4>2
    <3> QED BY <3>2, <2>2, <2>3 DEF clampedPage
  <2>5. \A r \in pageRequests : r.n \in Nat /\ r.n <= asked /\ AsksForThisPage(r)
    BY <2>2, <2>3 DEF AsksForThisPage
  <2>6. \E r \in pageRequests : r.n = asked
    <3>1. [n |-> 2, page |-> 0, block |-> 1] \in pageRequests
      BY <2>3
    <3>2. [n |-> 2, page |-> 0, block |-> 1].n = 2
      OBVIOUS
    <3> QED BY <3>1, <3>2, <2>3
  <2>7. /\ page \in Int /\ asked \in Nat /\ asked >= 2
        /\ overtaken \in BOOLEAN
    <3>1. overtaken \in BOOLEAN
      BY <2>3, Zenon
    <3> QED BY <3>1, <2>3
  <2>8. vaults.n \in Nat /\ vaults.n <= asked /\ vaults.n # asked
    BY <2>3
  <2>9. Len(vaultCounts) >= 1
    BY <2>2
  <2> QED BY <2>2, <2>4, <2>5, <2>6, <2>7, <2>8, <2>9 DEF TableInv
<1>2. TableInv /\ [TableNext \/ RankingNext]_pageVars => TableInv'
  <2> SUFFICES ASSUME TableInv, [TableNext \/ RankingNext]_pageVars PROVE TableInv'
    OBVIOUS
  <2>0. /\ vaultCounts \in Seq(Int) /\ Len(vaultCounts) >= 1 /\ page \in Int
        /\ page = clampedPage(page, numberOfTroves)
    BY DEF TableInv
  <2>1. ASSUME NEW n \in 0..MaxVaults, StoreMoves(n) PROVE TableInv'
    <3>a. PICK counts : counts = Append(vaultCounts, n)
      OBVIOUS
    <3>1. /\ counts \in Seq(Int) /\ Len(counts) >= 1
          /\ \A i \in 1..Len(vaultCounts) : i \in 1..Len(counts) /\ counts[i] = vaultCounts[i]
      BY <3>a, <2>0
    <3>2. RenderTable(page, counts)
      BY <3>a, <2>1 DEF StoreMoves
    <3> QED BY <3>1, <3>2, <2>0, RenderKeepsTable
  <2>2. ASSUME NEW p \in Int, RenderTable(p, vaultCounts) PROVE TableInv'
    BY <2>0, <2>2, RenderKeepsTable
  <2>3. CASE nextPage
    <3>1. page + 1 \in Int /\ RenderTable(page + 1, vaultCounts)
      BY <2>0, <2>3 DEF nextPage
    <3> QED BY <3>1, <2>2
  <2>4. CASE previousPage
    <3>1. page - 1 \in Int /\ RenderTable(page - 1, vaultCounts)
      BY <2>0, <2>4 DEF previousPage
    <3> QED BY <3>1, <2>2
  <2>5. ASSUME NEW r \in pageRequests, TableAnswer(r) \/ TableError(r) PROVE TableInv'
    BY <2>5, AnswerKeepsTable
  <2>6. CASE RankingNext
    <3>1. UNCHANGED tableVars
      BY <2>6 DEF RankingNext, FetchRanking, RankingAnswer, TurnRankPage
    <3> QED BY <3>1, OthersKeepTable
  <2>7. CASE UNCHANGED pageVars
    <3>1. UNCHANGED tableVars
      BY <2>7 DEF pageVars, tableVars
    <3> QED BY <3>1, OthersKeepTable
  <2> QED BY <2>1, <2>3, <2>4, <2>5, <2>6, <2>7 DEF TableNext
<1>3. TableInv => TableShowsItsPage
  <2> SUFFICES ASSUME TableInv, pageRequests = {}, ~overtaken PROVE Rows = Positions(page, numberOfTroves)
    BY DEF TableShowsItsPage
  <2>1. vaults.n = asked /\ AsksForThisPage(vaults) /\ asked >= 2 /\ asked \in Nat
    BY DEF TableInv
  <2>2. vaults # Loading
    <3>1. Loading.n = 0
      BY DEF Loading
    <3> QED BY <2>1, <3>1
  <2> QED BY <2>1, <2>2 DEF Rows, AsksForThisPage
<1> QED BY <1>1, <1>2, <1>3, PTL DEF TablesSpec

\* What a card shows does not change with an update that does not render it.
LEMMA UnrenderedStaysRight ==
  ASSUME DOMAIN stat = StatStores, NEW s \in StatStores, NEW new, NEW mount, NEW card \in Cards,
         new # stat[s], ~rerenders(card, s, stat[s], new)
  PROVE  CardView(card, [stat EXCEPT ![s] = new], mount) = CardView(card, stat, mount)
<1> DEFINE states == [stat EXCEPT ![s] = new]
<1>1. states[s] = new /\ \A t \in StatStores \ {s} : states[t] = stat[t]
  OBVIOUS
<1> HIDE DEF states
<1>2. CASE card = "price"
  <2>1. select("price", stat[s]) = select("price", new)
    BY <1>2 DEF rerenders
  <2>2. select("price", states[MainStore]) = select("price", stat[MainStore])
    <3>1. CASE MainStore = s
      BY <3>1, <2>1, <1>1
    <3>2. CASE MainStore # s
      <4>1. states[MainStore] = stat[MainStore]
        BY <3>2, <1>1, MainStoreAssumption
      <4> QED BY <4>1
    <3> QED BY <3>1, <3>2
  <2>3. \A x \in {MainStore} : select("price", states[x]) = select("price", stat[x])
    BY <2>2
  <2>4. priceView(states) = priceView(stat)
    BY <2>3 DEF priceView
  <2> QED BY <2>4, <1>2 DEF CardView, states
<1>3. CASE card = "system"
  BY <1>3 DEF rerenders, select
<1>4. CASE card = "ratio"
  BY <1>4 DEF CardView
<1> QED BY <1>2, <1>3, <1>4 DEF Cards

\* What the cards show, before and after they have subscribed: before, the price cards
\* show what the first render read; the ratio card always does.
CardsInv ==
  /\ DOMAIN stat = StatStores /\ missed \in BOOLEAN
  /\ dashboard \in {"away", "rendered", "subscribed"}
  /\ dashboard # "away" =>
       /\ DOMAIN shown = Cards
       /\ missed \/ shown["price"] = CardView("price", stat, atMount)
       /\ shown["ratio"] = CardView("ratio", stat, atMount)
  /\ dashboard = "subscribed" => shown["system"] = CardView("system", stat, atMount)

\* useThresholdSelector.ts: for any stores, updates and visits, although a card is rendered
\* only when the part of the state that it selects changes, and subscribes some time after
\* it has read, the dashboard shows the stores' present state, but for the price cards
\* after an update in between.
THEOREM CardsAlwaysShowTheStores == DashboardSpec => []CardsShowTheStores
<1>0. CardsInv => CardsShowTheStores
  BY DEF CardsInv, CardsShowTheStores, Cards
<1>1. DashboardInit => CardsInv
  BY DEF DashboardInit, CardsInv
<1>2. CardsInv /\ [StatNext \/ ChartNext]_<<statVars, chartVars>> => CardsInv'
  <2> SUFFICES ASSUME CardsInv, [StatNext \/ ChartNext]_<<statVars, chartVars>> PROVE CardsInv'
    OBVIOUS
  <2>a. "price" \in Cards /\ "system" \in Cards /\ "ratio" \in Cards
    BY DEF Cards
  <2>1. CASE VisitDashboard
    <3>1. /\ stat' = stat /\ atMount' = stat /\ dashboard' = "rendered" /\ missed' = FALSE
          /\ shown' = [card \in Cards |-> CardView(card, stat, stat)]
      BY <2>1 DEF VisitDashboard
    <3>2. \A card \in Cards : CardView(card, stat, atMount)' = CardView(card, stat, stat)
      BY <3>1 DEF CardView, priceView
    <3> QED BY <2>a, <3>1, <3>2 DEF CardsInv
  <2>2. CASE SubscribeCards
    <3>1. /\ stat' = stat /\ atMount' = atMount /\ missed' = missed
          /\ dashboard = "rendered" /\ dashboard' = "subscribed"
          /\ shown' = [shown EXCEPT !["system"] = CardView("system", stat, atMount)]
      BY <2>2 DEF SubscribeCards
    <3>2. \A card \in Cards : CardView(card, stat, atMount)' = CardView(card, stat, atMount)
      BY <3>1 DEF CardView, priceView
    <3>3. DOMAIN shown = Cards
      BY <3>1 DEF CardsInv
    <3>4. /\ DOMAIN shown' = Cards /\ shown'["system"] = CardView("system", stat, atMount)
          /\ shown'["price"] = shown["price"] /\ shown'["ratio"] = shown["ratio"]
      BY <2>a, <3>1, <3>3
    <3> QED BY <2>a, <3>1, <3>2, <3>4 DEF CardsInv
  <2>3. CASE LeaveDashboard
    BY <2>3 DEF LeaveDashboard, CardsInv
  <2>4. ASSUME NEW s \in StatStores, NEW new \in StatState, StatUpdate(s, new) PROVE CardsInv'
    <3>a. PICK states : states = [stat EXCEPT ![s] = new]
      OBVIOUS
    <3>1. /\ stat' = states /\ new # stat[s] /\ dashboard' = dashboard /\ atMount' = atMount
          /\ shown' = [card \in Cards |-> IF dashboard = "subscribed" /\ rerenders(card, s, stat[s], new)
                                         THEN CardView(card, states, atMount) ELSE shown[card]]
          /\ missed' = IF rerenders("price", s, stat[s], new) THEN dashboard = "rendered" ELSE missed
      BY <3>a, <2>4 DEF StatUpdate
    <3>2. DOMAIN stat' = StatStores /\ missed' \in BOOLEAN /\ DOMAIN stat = StatStores
      BY <3>a, <3>1 DEF CardsInv
    <3>3. ASSUME NEW card \in Cards, ~rerenders(card, s, stat[s], new)
          PROVE  CardView(card, states, atMount) = CardView(card, stat, atMount)
      <4>1. CardView(card, [stat EXCEPT ![s] = new], atMount) = CardView(card, stat, atMount)
        BY <3>1, <3>2, <3>3, UnrenderedStaysRight
      <4> QED BY <4>1, <3>a
    <3>4. \A card \in Cards : CardView(card, stat, atMount)' = CardView(card, states, atMount)
      BY <3>1 DEF CardView, priceView
    <3>5. CardView("ratio", states, atMount) = CardView("ratio", stat, atMount)
      BY DEF CardView
    <3>6. CASE dashboard = "subscribed"
      <4>1. ASSUME NEW card \in Cards, shown[card] = CardView(card, stat, atMount)
            PROVE  shown'[card] = CardView(card, states, atMount)
        BY <3>1, <3>3, <3>6, <4>1
      <4>2. shown'["system"] = CardView("system", states, atMount)
        BY <2>a, <3>6, <4>1 DEF CardsInv
      <4>3. shown'["ratio"] = CardView("ratio", states, atMount)
        BY <2>a, <3>6, <4>1 DEF CardsInv
      <4>4. missed' \/ shown'["price"] = CardView("price", states, atMount)
        <5>1. CASE rerenders("price", s, stat[s], new)
          BY <2>a, <3>1, <3>6, <5>1
        <5>2. CASE ~rerenders("price", s, stat[s], new)
          BY <2>a, <3>1, <3>6, <4>1, <5>2 DEF CardsInv
        <5> QED BY <5>1, <5>2
      <4> QED BY <2>a, <3>1, <3>2, <3>4, <3>6, <4>2, <4>3, <4>4 DEF CardsInv
    <3>7. CASE dashboard = "rendered"
      <4>1. shown'["price"] = shown["price"] /\ shown'["ratio"] = shown["ratio"] /\ DOMAIN shown' = Cards
        BY <2>a, <3>1, <3>7
      <4>2. missed' \/ shown'["price"] = CardView("price", states, atMount)
        <5>1. CASE rerenders("price", s, stat[s], new)
          BY <3>1, <3>7, <5>1
        <5>2. CASE ~rerenders("price", s, stat[s], new)
          BY <2>a, <3>1, <3>3, <3>7, <4>1, <5>2 DEF CardsInv
        <5> QED BY <5>1, <5>2
      <4>3. shown'["ratio"] = CardView("ratio", states, atMount)
        BY <3>5, <3>7, <4>1 DEF CardsInv
      <4> QED BY <2>a, <3>1, <3>2, <3>4, <3>7, <4>1, <4>2, <4>3 DEF CardsInv
    <3>8. CASE dashboard = "away"
      BY <3>1, <3>2, <3>8 DEF CardsInv
    <3> QED BY <3>6, <3>7, <3>8 DEF CardsInv
  <2>5. CASE ChartNext \/ UNCHANGED <<statVars, chartVars>>
    <3>1. UNCHANGED statVars
      BY <2>5 DEF ChartNext, ChartSteps, ChartThen, ChartAnswer, MountChart
    <3>2. /\ stat' = stat /\ shown' = shown /\ dashboard' = dashboard /\ atMount' = atMount
          /\ missed' = missed
      BY <3>1 DEF statVars
    <3>3. \A card \in Cards : CardView(card, stat, atMount)' = CardView(card, stat, atMount)
      BY <3>2 DEF CardView, priceView
    <3> QED BY <2>a, <3>2, <3>3 DEF CardsInv
  <2> QED BY <2>1, <2>2, <2>3, <2>4, <2>5 DEF StatNext
<1> QED BY <1>0, <1>1, <1>2, PTL DEF DashboardSpec

=============================================================================
