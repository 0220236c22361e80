------------------------------ MODULE PriceFeed ------------------------------
(***************************************************************************)
(* The PriceFeed contract: the redemption price is the LED oracle's price  *)
(* times a deviation factor that compounds the redemption rate by the      *)
(* second.  Anybody may call the three maintenance functions, in any       *)
(* order and before the owner has set the addresses.  The oracle, the pool *)
(* reader and the PI controller answer from small sets; conversions        *)
(* between WAD and RAY cancel.  fetchPrice inverts the redemption price    *)
(* and changes nothing that is read again.                                 *)
(***************************************************************************)
EXTENDS Naturals

CONSTANTS
  RAY,                  \* 1 of the rate and the factor
  LEDPrices,            \* led.getUSDPerLED
  MarketPrices,         \* uniV3Reader.getTWAP
  ControllerRates,      \* pidCalculator.computeRate
  FeedMaxTime

ASSUME FeedAssumption ==
  /\ RAY \in Nat \ {0} /\ LEDPrices \subseteq Nat /\ MarketPrices \subseteq Nat
  /\ ControllerRates \subseteq Nat
  /\ FeedMaxTime \in Nat

VARIABLES
  feedTime,
  feed     \* the storage of the contract

feedVars == <<feedTime, feed>>

FeedInit ==
  /\ feedTime = 1
  /\ feed = [owned |-> TRUE, addressesSet |-> FALSE, poolSet |-> FALSE,
             redemptionRate |-> 0, LEDPrice |-> 0, LEDPriceUpdateTime |-> 0,
             deviationFactor |-> 0, deviationFactorUpdateTime |-> 0]

rmultiply(x, y) == (x * y) \div RAY

\* GebMath: powers by squaring, rounded to the nearest.  s is the state of the
\* loop; a round more than it takes changes nothing, and n rounds are enough.
rmulRound(a, b) == (a * b + RAY \div 2) \div RAY

rpowerRound(s) ==
  LET xx == rmulRound(s.x, s.x)
  IN  IF s.n = 0 THEN s
      ELSE [x |-> xx, z |-> IF s.n % 2 = 1 THEN rmulRound(s.z, xx) ELSE s.z,
            n |-> s.n \div 2]

rpowerRounds(x, n) ==
  LET s[i \in Nat] ==
        IF i = 0 THEN [x |-> x, z |-> IF n % 2 = 0 THEN RAY ELSE x, n |-> n \div 2]
        ELSE rpowerRound(s[i-1])
  IN  s

rpower(x, n) ==
  IF x = 0 THEN (IF n = 0 THEN RAY ELSE 0) ELSE rpowerRounds(x, n)[n].z

getRedemptionPrice(f) == rmultiply(f.LEDPrice, f.deviationFactor)

-----------------------------------------------------------------------------
(* Maintenance: the storage that may follow f; none if the call reverts. *)

updatedRates(f) ==
  IF ~f.poolSet \/ f.redemptionRate = 0
  THEN {[f EXCEPT !.redemptionRate = RAY]}
  ELSE {[f EXCEPT !.redemptionRate = rate] :
          rate \in {r \in ControllerRates :
                      f.addressesSet /\ \E market \in MarketPrices : market > 0}}

updatedLEDPrices(f) ==
  {[f EXCEPT !.LEDPrice = p, !.LEDPriceUpdateTime = feedTime] :
     p \in {q \in LEDPrices : f.addressesSet /\ q > 0}}

\* Faulty variant: a factor of zero is not set to one again.
updatedDeviationFactor_InitOnce(f) ==
  LET first == f.deviationFactorUpdateTime = 0
      since == IF first THEN feedTime - 1 ELSE f.deviationFactorUpdateTime
      factor == IF first THEN RAY ELSE f.deviationFactor
  IN  [f EXCEPT !.deviationFactor =
                  rmultiply(rpower(f.redemptionRate, feedTime - since), factor),
                !.deviationFactorUpdateTime = feedTime]

updatedDeviationFactor(f) ==
  LET factor == IF f.deviationFactor = 0 THEN RAY ELSE f.deviationFactor
      since  == IF f.deviationFactorUpdateTime = 0 THEN feedTime - 1
                ELSE f.deviationFactorUpdateTime
  IN  [f EXCEPT !.deviationFactor =
                  rmultiply(rpower(f.redemptionRate, feedTime - since), factor),
                !.deviationFactorUpdateTime = feedTime]

updatedAll(f) ==
  {updatedDeviationFactor(g) : g \in UNION {updatedLEDPrices(h) : h \in updatedRates(f)}}

updateRate == feed' \in updatedRates(feed) /\ UNCHANGED feedTime
updateLEDPrice == feed' \in updatedLEDPrices(feed) /\ UNCHANGED feedTime
updateDeviationFactor == feed' = updatedDeviationFactor(feed) /\ UNCHANGED feedTime
updateAll == feed' \in updatedAll(feed) /\ UNCHANGED feedTime

setAddresses ==
  /\ feed.owned
  /\ feed' \in updatedAll([feed EXCEPT !.addressesSet = TRUE])
  /\ UNCHANGED feedTime

\* Renounces the ownership, so nothing can be set any more.
setUniV3PoolAddress ==
  /\ feed.owned
  /\ feed' = [feed EXCEPT !.poolSet = TRUE, !.owned = FALSE]
  /\ UNCHANGED feedTime

FeedWaits ==
  /\ feedTime < FeedMaxTime
  /\ feedTime' = feedTime + 1
  /\ UNCHANGED feed

FeedNext ==
  \/ updateRate \/ updateLEDPrice \/ updateDeviationFactor \/ updateAll
  \/ setAddresses \/ setUniV3PoolAddress
  \/ FeedWaits

FeedSpec == FeedInit /\ [][FeedNext]_feedVars

-----------------------------------------------------------------------------

\* "This means we track the LED oracle price" (updateRate): until the pool is set the
\* redemption price is the oracle's, in whatever order and however early the public
\* maintenance functions were called.
FeedTracksOracle ==
  feed.addressesSet /\ ~feed.poolSet => getRedemptionPrice(feed) = feed.LEDPrice
=============================================================================
