------------------------------ MODULE BaseRate ------------------------------
(***************************************************************************)
(* The base rate of the fees over time: TroveManager raises it with every  *)
(* redemption and lets it decay by the minute, in steps taken by whoever   *)
(* borrows or redeems; the client computes the decayed rate on its own     *)
(* (Fees and Decimal.pow of lib-base).                                     *)
(***************************************************************************)
EXTENDS Naturals

CONSTANTS
  RateUnit,                \* DECIMAL_PRECISION
  MINUTE_DECAY_FACTOR,     \* half-life of 12 hours
  SECONDS_IN_ONE_MINUTE,
  RateRises,               \* redeemedTHUSDFraction / BETA of a redemption
  DeployedAt, LastBlockAt  \* bounds of the time

ASSUME BaseRateAssumption ==
  /\ RateUnit \in Nat \ {0} /\ MINUTE_DECAY_FACTOR \in 0..(RateUnit - 1)
  /\ SECONDS_IN_ONE_MINUTE \in Nat \ {0}
  /\ RateRises \subseteq Nat
  /\ DeployedAt \in Nat /\ LastBlockAt \in Nat

VARIABLES
  baseRate,
  lastFeeOperationTime,    \* 0 before the first fee operation
  blockTime,
  decayedMinutes           \* history: minutes of decay applied so far

rateVars == <<baseRate, lastFeeOperationTime, blockTime, decayedMinutes>>

RateInit ==
  /\ baseRate = 0 /\ lastFeeOperationTime = 0
  /\ blockTime = DeployedAt /\ decayedMinutes = 0

-----------------------------------------------------------------------------
(* Powers by squaring.  s is the state of the loop; a round more than the  *)
(* loop takes changes nothing, so that the loop ends in as many rounds as  *)
(* the exponent.  The exponents are below the cap of a thousand years.     *)

decMul(x, y) == (x * y + RateUnit \div 2) \div RateUnit

decPowRound(s) ==
  CASE s.n <= 1 -> s
    [] s.n > 1 /\ s.n % 2 = 0 ->
         [x |-> decMul(s.x, s.x), y |-> s.y, n |-> s.n \div 2]
    [] OTHER ->
         [x |-> decMul(s.x, s.x), y |-> decMul(s.x, s.y), n |-> (s.n - 1) \div 2]

decPowRounds(base, minutes) ==
  LET s[i \in Nat] == IF i = 0 THEN [x |-> base, y |-> RateUnit, n |-> minutes]
                      ELSE decPowRound(s[i-1])
  IN  s

decPow(base, minutes) ==
  LET last == decPowRounds(base, minutes)[minutes]
  IN  IF minutes = 0 THEN RateUnit ELSE decMul(last.x, last.y)

\* Decimal.pow of the client.
powRound(s) ==
  IF s.n <= 1
  THEN s
  ELSE [x |-> decMul(s.x, s.x),
        y |-> IF s.n % 2 = 1 THEN decMul(s.x, s.y) ELSE s.y,
        n |-> s.n \div 2]

powRounds(base, exponent) ==
  LET s[i \in Nat] == IF i = 0 THEN [x |-> base, y |-> RateUnit, n |-> exponent]
                      ELSE powRound(s[i-1])
  IN  s

pow(base, exponent) ==
  LET last == powRounds(base, exponent)[exponent]
  IN  CASE exponent = 0 -> RateUnit
        [] exponent = 1 -> base
        [] OTHER -> decMul(last.x, last.y)

-----------------------------------------------------------------------------

minutesPassedSinceLastFeeOp ==
  (blockTime - lastFeeOperationTime) \div SECONDS_IN_ONE_MINUTE

decayedBaseRate ==
  (baseRate * decPow(MINUTE_DECAY_FACTOR, minutesPassedSinceLastFeeOp)) \div RateUnit

\* Fees.baseRate at the time of the latest block.
feesBaseRate ==
  (pow(MINUTE_DECAY_FACTOR, minutesPassedSinceLastFeeOp) * baseRate) \div RateUnit

updateLastFeeOpTime ==
  lastFeeOperationTime' =
    IF blockTime - lastFeeOperationTime >= SECONDS_IN_ONE_MINUTE
    THEN blockTime ELSE lastFeeOperationTime

\* Faulty variant: the decay is applied and its time is not noted.
decayBaseRateFromBorrowing_Undecayed ==
  /\ baseRate' = baseRate
  /\ decayedMinutes' = decayedMinutes + minutesPassedSinceLastFeeOp
  /\ updateLastFeeOpTime
  /\ UNCHANGED blockTime

decayBaseRateFromBorrowing ==
  /\ baseRate' = decayedBaseRate
  /\ decayedMinutes' = decayedMinutes + minutesPassedSinceLastFeeOp
  /\ updateLastFeeOpTime
  /\ UNCHANGED blockTime

updateBaseRateFromRedemption(rise) ==
  /\ decayedBaseRate + rise > 0
  /\ baseRate' = IF decayedBaseRate + rise < RateUnit
                 THEN decayedBaseRate + rise ELSE RateUnit
  /\ decayedMinutes' = decayedMinutes + minutesPassedSinceLastFeeOp
  /\ updateLastFeeOpTime
  /\ UNCHANGED blockTime

Wait ==
  /\ blockTime < LastBlockAt
  /\ blockTime' = blockTime + 1
  /\ UNCHANGED <<baseRate, lastFeeOperationTime, decayedMinutes>>

RateNext ==
  \/ decayBaseRateFromBorrowing
  \/ \E rise \in RateRises : updateBaseRateFromRedemption(rise)
  \/ Wait

RateSpec == RateInit /\ [][RateNext]_rateVars

-----------------------------------------------------------------------------

\* "This prevents base rate griefing" (TroveManager, _updateLastFeeOpTime): however
\* often and whenever fee operations come, at least half of the time up to the last
\* noted one has decayed the rate.
DecayIsNotPostponed ==
  2 * SECONDS_IN_ONE_MINUTE * decayedMinutes >= lastFeeOperationTime

\* The client's decayed rate is the contract's, to the last unit.
ClientKnowsTheBaseRate == feesBaseRate = decayedBaseRate

\* Unless somebody redeems, the rate a borrower has seen is not exceeded later,
\* whoever lets it decay in between: the maximum the client sends with the call
\* holds.
RateRisesByRedemptionOnly ==
  [][decayedBaseRate' <= decayedBaseRate
       \/ \E rise \in RateRises : updateBaseRateFromRedemption(rise)]_rateVars

\* The base rate decays with time and rises by redemptions only: no series of fee
\* operations holds it up, and the client knows the rate that the next one will find.
BaseRateDecays ==
  /\ []DecayIsNotPostponed
  /\ RateRisesByRedemptionOnly
  /\ []ClientKnowsTheBaseRate

=============================================================================
