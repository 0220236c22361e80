------------------------- MODULE StabilityPoolSpec -------------------------
(***************************************************************************)
(* The StabilityPool on its own: any depositor may call it at any time,    *)
(* and the TroveManager may offset any debt the pool can absorb, with any  *)
(* collateral.                                                             *)
(***************************************************************************)
EXTENDS StabilityPool

CONSTANTS
  Amounts,     \* amounts of THUSD a depositor provides or asks for
  Offsets,     \* <<debt, collateral>> pairs the TroveManager offsets
  MaxTHUSD,    \* bound: THUSD the pool holds at most
  MaxCalls     \* bound: calls of a behaviour

ASSUME InputAssumption ==
  /\ Amounts \subseteq Nat
  /\ Offsets \subseteq Nat \X Nat
  /\ MaxTHUSD \in Nat
  /\ MaxCalls \in Nat

VARIABLE calls   \* calls made so far

vars == <<spVars, calls>>

Call ==
  /\ calls < MaxCalls
  /\ calls' = calls + 1

Provide(u, amount) ==
  /\ Call
  /\ totalTHUSDDeposits + amount <= MaxTHUSD
  /\ provideToSP(u, amount)

Withdraw(u, amount) ==
  /\ Call
  /\ \E lowestICR \in {MCR - 1, MCR} : withdrawFromSP(u, amount, lowestICR)

GainToTrove(u) ==
  /\ Call
  /\ \E hasTrove \in BOOLEAN : withdrawCollateralGainToTrove(u, hasTrove)

Offset(debt, coll) ==
  /\ Call
  /\ offset(debt, coll)

Init == SPInit /\ calls = 0

Next ==
  \/ \E u \in Users, amount \in Amounts : Provide(u, amount)
  \/ \E u \in Users, amount \in Amounts : Withdraw(u, amount)
  \/ \E u \in Users : GainToTrove(u)
  \/ \E o \in Offsets : Offset(o[1], o[2])

Spec == Init /\ [][Next]_vars

-----------------------------------------------------------------------------
(* Properties. *)

Compounded == [u \in Users |-> getCompoundedTHUSDDeposit(u)]
Gains      == [u \in Users |-> getDepositorCollateralGain(u)]

\* Every variable of the pool has its type.  P is never 0 (the assert at the
\* end of _updateRewardSumAndProduct) and never above 1.
TypeOK == SPTypeOK /\ calls \in 0..MaxCalls

\* The sums of epochs and scales the pool has not reached are still 0.
FutureSumsZero ==
  \A e \in Epochs, s \in 0..MaxScale + 1 :
    e > currentEpoch \/ (e = currentEpoch /\ s > currentScale)
      => epochToScaleToSum[<<e, s>>] = 0

\* No depositor call can revert in the reward formulas: the subtractions
\* initialDeposit - compoundedTHUSDDeposit and S - S_Snapshot never
\* underflow, over any history of offsets, scale changes and epochs.
RewardFormulasNeverUnderflow ==
  \A u \in Users :
    /\ getCompoundedTHUSDDeposit(u) <= deposits[u]
    /\ deposits[u] > 0 =>
         LET snap == depositSnapshots[u]
         IN  snap.S <= epochToScaleToSum[<<snap.epoch, snap.scale>>]

\* The pool owes its depositors at most MaxTHUSD / DECIMAL_PRECISION more
\* than it holds: the error feedback of _computeRewardsPerUnitStaked keeps
\* the rounding of P from accumulating over offsets, deposits and
\* withdrawals.
ShortfallBounded ==
  SumOf(Compounded, NumUsers) * DECIMAL_PRECISION
    <= totalTHUSDDeposits * DECIMAL_PRECISION + MaxTHUSD

\* An offset never raises a compounded deposit and never takes a gain away,
\* whatever scale or epoch change it makes.
OffsetsCutDepositsAndAddGains ==
  [][(deposits' = deposits /\ depositSnapshots' = depositSnapshots)
       => \A u \in Users : /\ Compounded'[u] <= Compounded[u]
                           /\ Gains'[u] >= Gains[u]]_vars

\* A deposit that has just been recorded is worth what was recorded and has
\* no gain yet: it takes no part in offsets that happened before, not even
\* in those of an earlier epoch or scale.
FreshDepositHasNoPast ==
  [][\A u \in Users :
       <<deposits[u], depositSnapshots[u]>>' # <<deposits[u], depositSnapshots[u]>>
         => /\ Compounded'[u] = deposits'[u]
            /\ Gains'[u] = 0]_vars

\* A depositor gets what this deposit has earned and no more: a deposit that was just
\* made has no past, and no sum of a scale or epoch to come holds anything yet; from
\* then on offsets only cut it and only add to its gains, through every change of
\* scale and epoch (_updateRewardSumAndProduct, _updateDepositAndSnapshots).
DepositsEarnTheirOwn ==
  /\ FreshDepositHasNoPast
  /\ []FutureSumsZero
  /\ OffsetsCutDepositsAndAddGains

-----------------------------------------------------------------------------
(* Instances of StabilityPoolSpec for TLC. *)

\* Offsets that leave P above and below the scale boundary, and offsets that
\* empty the pool.
MCOffsets == {<<0, 7>>, <<13, 14>>, <<60, 66>>, <<97, 110>>, <<100, 110>>}

=============================================================================
