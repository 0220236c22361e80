---------------------------- MODULE LiquityBase ----------------------------
(***************************************************************************)
(* The system constants and the pure functions that the contracts share    *)
(* (Dependencies/LiquityBase.sol and LiquityMath.sol).                      *)
(*                                                                         *)
(* Amounts, prices and ratios are fixed-point numbers: DECIMAL_PRECISION   *)
(* stands for 1.  Solidity's integer division is \div.  Arithmetic is      *)
(* checked by the compiler (pragma ^0.8.17): an operation that would       *)
(* underflow reverts the whole transaction, so every subtraction of the    *)
(* code whose result could be negative is a guard of the action.           *)
(***************************************************************************)
EXTENDS Integers

CONSTANTS
  DECIMAL_PRECISION,       \* 1e18, the fixed-point unit
  MCR,                     \* minimum collateral ratio of a trove
  CCR,                     \* critical collateral ratio of the system
  THUSD_GAS_COMPENSATION,  \* THUSD locked in the gas pool for each trove
  MIN_NET_DEBT,            \* smallest net debt of a trove
  PERCENT_DIVISOR,         \* liquidated collateral paid to the liquidator
  MaxUint,                 \* 2**256 - 1, the ratio of a trove without debt
  NumUsers                 \* the accounts of users are 1..NumUsers

\* What the contracts' own values satisfy (1e18, 1.1e18, 1.5e18, 200e18,
\* 1800e18, 200) and the properties rest on.
ASSUME BaseAssumption ==
  /\ DECIMAL_PRECISION \in Nat \ {0}
  /\ MCR \in Nat /\ CCR \in Nat /\ MaxUint \in Nat
  /\ DECIMAL_PRECISION < MCR /\ MCR < CCR /\ CCR < MaxUint
  /\ THUSD_GAS_COMPENSATION \in Nat \ {0}
  /\ MIN_NET_DEBT \in Nat
  /\ PERCENT_DIVISOR \in Nat \ {0}
  /\ NumUsers \in Nat \ {0}

Users == 1..NumUsers

\* Totals over the accounts 1..n: the last of the prefix sums, which are a recursive
\* function so that the proofs can unfold them.
PrefixSums(f, n) ==
  LET p[i \in 0..n] == IF i = 0 THEN 0 ELSE p[i-1] + f[i]
  IN  p

\* f[1] + ... + f[n]
SumOf(f, n) == PrefixSums(f, n)[n]

MinOf(a, b) == IF a < b THEN a ELSE b
MaxOf(a, b) == IF a >= b THEN a ELSE b

\* NICR_PRECISION is 1e20, a hundred times the fixed-point unit.
computeNominalCR(coll, debt) ==
  IF debt > 0 THEN (coll * 100 * DECIMAL_PRECISION) \div debt ELSE MaxUint

computeCR(coll, debt, price) ==
  IF debt > 0 THEN (coll * price) \div debt ELSE MaxUint

getCompositeDebt(debt) == debt + THUSD_GAS_COMPENSATION

getNetDebt(debt) == debt - THUSD_GAS_COMPENSATION

getCollGasCompensation(entireColl) == entireColl \div PERCENT_DIVISOR

=============================================================================
