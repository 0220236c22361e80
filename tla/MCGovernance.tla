--------------------------- MODULE MCGovernance ---------------------------
(***************************************************************************)
(* The contracts around the core, each on its own small instance: the      *)
(* governance of the token, the PCV, the base rate, the price feed and the *)
(* BAMM.  They share no state here, so a behaviour is one of a single      *)
(* contract, the subject, and the others keep still.                       *)
(***************************************************************************)
EXTENDS Governance, PCV, BaseRate, PriceFeed, BAMM, TLC

CONSTANTS eoa, old, new   \* an account without code and two contracts

\* A set that shares a contract with the first one, and one that names an
\* account without code.
MCContractSets == {<<old, new, new>>, <<eoa, new, new>>}

VARIABLE subject

timedVars == <<subject, govVars, pcvVars, rateVars, feedVars, bammVars>>

TimedInit ==
  /\ subject \in {"token", "pcv", "rate", "feed", "bamm"}
  /\ GovInit /\ PcvInit /\ RateInit /\ FeedInit /\ BammInit
  /\ subject # "bamm" => price = CHOOSE p \in Prices : TRUE

TimedNext ==
  /\ UNCHANGED subject
  /\ \/ subject = "token" /\ GovNext /\ UNCHANGED <<pcvVars, rateVars, feedVars, bammVars>>
     \/ subject = "pcv" /\ PcvNext /\ UNCHANGED <<govVars, rateVars, feedVars, bammVars>>
     \/ subject = "rate" /\ RateNext /\ UNCHANGED <<govVars, pcvVars, feedVars, bammVars>>
     \/ subject = "feed" /\ FeedNext /\ UNCHANGED <<govVars, pcvVars, rateVars, bammVars>>
     \/ subject = "bamm" /\ BammNext /\ UNCHANGED <<govVars, pcvVars, rateVars, feedVars>>

TimedSpec == TimedInit /\ [][TimedNext]_timedVars

\* Nothing tells one holder of BAMM shares from another.
HoldersAlike == Permutations(Holders)
=============================================================================
