--------------------------- MODULE LiquityProofs ---------------------------
(***************************************************************************)
(* The books of the contracts agree, whatever users, liquidators and       *)
(* redeemers do, for every number of users and every amount: Spec implies  *)
(* []BooksAgree.                                                           *)
(*                                                                         *)
(* Every external function is a chain of states, each of which changes the *)
(* gaps of the books (module LiquityLemmas) by a known amount; over the    *)
(* whole transaction the amounts cancel.                                   *)
(***************************************************************************)
EXTENDS LiquityLemmas

-----------------------------------------------------------------------------
(* BorrowerOperations. *)

\* _withdrawTHUSD: debt is created and THUSD minted.
LEMMA LeadWithdraw ==
  ASSUME NEW w, Ready(w), NEW b \in Accounts, NEW a, NEW n, w.ok => a \in Nat /\ n \in Nat
  PROVE  /\ Ready(withdrawTHUSD(w, b, a, n))
         /\ Leads(w, withdrawTHUSD(w, b, a, n), n, 0, a - n, At(b, gasPoolAddress, a), 0,
                  At(b, stabilityPoolAddress, a))
         /\ Follows(w, withdrawTHUSD(w, b, a, n))
         /\ Shifts(w, withdrawTHUSD(w, b, a, n), 0, n)
  <1> DEFINE w1 == activePoolIncreaseTHUSDDebt(w, n)
             v == thusdMint(w1, b, a)
  <1>1. /\ Ready(w1) /\ Leads(w, w1, n, 0, -n, 0, 0, 0)
        /\ Follows(w, w1) /\ Shifts(w, w1, 0, n)
    BY LeadIncrease, PoolsFollow, ActiveShifts DEF Ready
  <1>2. v = withdrawTHUSD(w, b, a, n)
    BY DEF withdrawTHUSD
  <1> HIDE DEF w1
  <1>3. w1.ok => a \in Nat /\ n \in Nat
    BY <1>1 DEF Leads
  <1>4. /\ Ready(v)
        /\ Leads(w1, v, 0, 0, a, At(b, gasPoolAddress, a), 0, At(b, stabilityPoolAddress, a))
    BY <1>1, <1>3, LeadMint
  <1> HIDE DEF v
  <1>5. Leads(w, v, n, 0, a - n, At(b, gasPoolAddress, a), 0, At(b, stabilityPoolAddress, a))
    <2> SUFFICES ASSUME v.ok
                 PROVE  Leads(w, v, n, 0, a - n, At(b, gasPoolAddress, a), 0,
                              At(b, stabilityPoolAddress, a))
      BY DEF Leads
    <2>1. w1.ok /\ w.ok /\ a \in Nat /\ n \in Nat
      BY <1>1, <1>3, <1>4 DEF Leads
    <2>2. Sound(w)
      BY <2>1 DEF Ready
    <2> QED
      BY <1>1, <1>4, <2>1, <2>2, GapTypes DEF Leads
  <1>6. Follows(w1, v) /\ Shifts(w1, v, 0, 0)
    BY <1>1, PoolsFollow, TokenShifts DEF Ready, v
  <1>7. Follows(w, v) /\ Shifts(w, v, 0, n)
    BY <1>1, <1>6, ShiftsOnce DEF Follows, SameTroves
  <1> QED
    BY <1>2, <1>4, <1>5, <1>7

\* _repayTHUSD: debt is repaid and THUSD burnt.
LEMMA LeadRepay ==
  ASSUME NEW w, Ready(w), NEW b \in Accounts, NEW a, w.ok => a \in Nat
  PROVE  /\ Ready(repayTHUSD(w, b, a))
         /\ Leads(w, repayTHUSD(w, b, a), -a, 0, 0, -At(b, gasPoolAddress, a), 0,
                  -At(b, stabilityPoolAddress, a))
         /\ Follows(w, repayTHUSD(w, b, a))
         /\ Shifts(w, repayTHUSD(w, b, a), 0, 0 - a)
  <1> DEFINE w1 == activePoolDecreaseTHUSDDebt(w, a)
             v == thusdBurn(w1, b, a)
  <1>1. /\ Ready(w1) /\ Leads(w, w1, -a, 0, a, 0, 0, 0)
        /\ Follows(w, w1) /\ Shifts(w, w1, 0, 0 - a)
    BY LeadDecrease, PoolsFollow, ActiveShifts DEF Ready
  <1>2. v = repayTHUSD(w, b, a)
    BY DEF repayTHUSD
  <1> HIDE DEF w1
  <1>3. w1.ok => a \in Nat
    BY <1>1 DEF Leads
  <1>4. /\ Ready(v)
        /\ Leads(w1, v, 0, 0, -a, -At(b, gasPoolAddress, a), 0, -At(b, stabilityPoolAddress, a))
    BY <1>1, <1>3, LeadBurn
  <1> HIDE DEF v
  <1>5. Leads(w, v, -a, 0, 0, -At(b, gasPoolAddress, a), 0, -At(b, stabilityPoolAddress, a))
    <2> SUFFICES ASSUME v.ok
                 PROVE  Leads(w, v, -a, 0, 0, -At(b, gasPoolAddress, a), 0,
                              -At(b, stabilityPoolAddress, a))
      BY DEF Leads
    <2>1. w1.ok /\ w.ok /\ a \in Nat
      BY <1>1, <1>3, <1>4 DEF Leads
    <2>2. Sound(w)
      BY <2>1 DEF Ready
    <2> QED
      BY <1>1, <1>4, <2>1, <2>2, GapTypes DEF Leads
  <1>6. Follows(w1, v) /\ Shifts(w1, v, 0, 0)
    BY <1>1, PoolsFollow, TokenShifts DEF Ready, v
  <1>7. Follows(w, v) /\ Shifts(w, v, 0, 0 - a)
    BY <1>1, <1>6, ShiftsOnce DEF Follows, SameTroves
  <1> QED
    BY <1>2, <1>4, <1>5, <1>7

\* A borrowing fee is an amount.
LEMMA FeeType ==
  ASSUME NEW w, Sound(w), NEW a \in Nat
  PROVE  getBorrowingFee(w, a) \in Nat
  <1>1. /\ calcBorrowingRate(w.baseRate) \in Nat
        /\ DECIMAL_PRECISION \in Nat \ {0}
    BY BaseAssumption, FeeAssumption DEF calcBorrowingRate, MinOf, Sound, TroveTypes
  <1>2. calcBorrowingRate(w.baseRate) * a \in Nat
    BY <1>1, MulNat
  <1> QED
    BY <1>1, <1>2, DivNat DEF getBorrowingFee

\* _triggerBorrowingFee mints the fee to the PCV when there is one.
LEMMA LeadFee ==
  ASSUME NEW w, Ready(w), NEW a, w.ok => a \in Nat, NEW m, NEW decay \in 0..DECIMAL_PRECISION,
         NEW r, r = triggerBorrowingFee(w, a, m, decay)
  PROVE  /\ Ready(r.w)
         /\ Leads(w, r.w, 0, 0, IF HasPCV THEN r.fee ELSE 0, 0, 0, 0)
         /\ r.w.status = w.status
         /\ w.ok => r.fee \in Nat
         /\ Spares(w, r.w) /\ Shifts(w, r.w, 0, 0)
  <1> DEFINE w1 == decayBaseRateFromBorrowing(w, decay)
             fee == getBorrowingFee(w1, a)
             c == a > 0 /\ userAcceptsFee(fee, a, m)
             w2 == Require(w1, c)
             v == IF HasPCV THEN thusdMint(w2, pcvAddress, fee) ELSE w2
  <1>1. r.fee = fee /\ r.w = v
    BY DEF triggerBorrowingFee
  <1>2. Rated(w, w1, calcDecayedBaseRate(w, decay)) /\ w1.ok = w.ok
    BY DEF decayBaseRateFromBorrowing, Rated, Ready, IsState, StateFields, SamePools
  <1>3. w.ok => calcDecayedBaseRate(w, decay) \in 0..DECIMAL_PRECISION
    BY DecayedRate DEF Ready
  <1> HIDE DEF w1
  <1>4. Ready(w1) /\ Leads(w, w1, 0, 0, 0, 0, 0, 0) /\ w1.status = w.status
    BY <1>2, <1>3, LeadRated DEF Rated
  <1>a. Spares(w, w1) /\ Shifts(w, w1, 0, 0)
    BY <1>2, SamePoolsShift DEF Rated, SamePools, Spares, OwesMinimum, Peopled
  <1>5. w.ok => fee \in Nat
    BY <1>2, <1>4, FeeType DEF Ready
  <1>6. c \in BOOLEAN
    OBVIOUS
  <1> HIDE DEF c, fee
  <1>7. /\ Ready(w2) /\ Leads(w1, w2, 0, 0, 0, 0, 0, 0) /\ Follows(w1, w2)
        /\ Shifts(w1, w2, 0, 0)
    BY <1>4, <1>6, LeadRequire, PoolsFollow, TokenShifts DEF Ready
  <1> HIDE DEF w2
  <1>8. w2.status = w.status /\ (w2.ok => w.ok /\ fee \in Nat)
    BY <1>2, <1>4, <1>5, <1>7 DEF Follows, SameTroves
  <1>9. /\ Ready(v) /\ v.status = w.status
        /\ Leads(w2, v, 0, 0, IF HasPCV THEN fee ELSE 0, 0, 0, 0)
        /\ Spares(w2, v) /\ Shifts(w2, v, 0, 0)
    <2>1. CASE HasPCV
      <3>1. v = thusdMint(w2, pcvAddress, fee)
        BY <2>1
      <3> HIDE DEF v
      <3>2. pcvAddress \in Accounts /\ pcvAddress # gasPoolAddress
            /\ pcvAddress # stabilityPoolAddress
        BY Addresses
      <3>3. Follows(w2, v)
        BY <1>7, <3>1, PoolsFollow DEF Ready
      <3>4. /\ Ready(v)
            /\ Leads(w2, v, 0, 0, fee, At(pcvAddress, gasPoolAddress, fee), 0,
                     At(pcvAddress, stabilityPoolAddress, fee))
        BY <1>7, <1>8, <3>1, <3>2, LeadMint
      <3>5. /\ At(pcvAddress, gasPoolAddress, fee) = 0
            /\ At(pcvAddress, stabilityPoolAddress, fee) = 0
        BY <3>2 DEF At
      <3>6. Spares(w2, v) /\ Shifts(w2, v, 0, 0)
        BY <1>7, <3>1, <3>3, FollowsSpares, TokenShifts
      <3> QED
        BY <1>8, <2>1, <3>3, <3>4, <3>5, <3>6 DEF Follows, SameTroves
    <2>2. CASE ~HasPCV
      <3>1. v = w2
        BY <2>2
      <3>2. Leads(w2, w2, 0, 0, 0, 0, 0, 0)
        BY <1>7, GapTypes DEF Leads, Ready
      <3>3. Spares(w2, w2) /\ Shifts(w2, w2, 0, 0)
        BY <1>7, SamePoolsShift DEF Spares
      <3> QED
        BY <1>7, <1>8, <2>2, <3>1, <3>2, <3>3
    <2> QED
      BY <2>1, <2>2
  <1> HIDE DEF v
  <1>10. Leads(w, v, 0, 0, IF HasPCV THEN fee ELSE 0, 0, 0, 0)
    <2> SUFFICES ASSUME v.ok PROVE Leads(w, v, 0, 0, IF HasPCV THEN fee ELSE 0, 0, 0, 0)
      BY DEF Leads
    <2>1. w2.ok /\ w1.ok /\ w.ok /\ fee \in Nat
      BY <1>4, <1>7, <1>8, <1>9 DEF Leads
    <2>2. Sound(w)
      BY <2>1 DEF Ready
    <2> QED
      BY <1>4, <1>7, <1>9, <2>1, <2>2, GapTypes DEF Leads
  <1>11. Spares(w, v) /\ Shifts(w, v, 0, 0)
    <2>1. Spares(w1, v) /\ Shifts(w1, v, 0, 0)
      BY <1>4, <1>7, <1>9, FollowsSpares, SparesBoth, ShiftsOnce
    <2> QED
      BY <1>a, <2>1, SparesBoth, ShiftsOnce
  <1> QED
    BY <1>1, <1>5, <1>9, <1>10, <1>11

\* The books agree: no gap, but for collateral and debt that fees leave behind when there
\* is no PCV contract.
Books(w) ==
  /\ DebtGap(w) = 0 /\ ReserveGap(w) = 0 /\ SurplusGap(w) = 0
  /\ IF HasPCV THEN CollGap(w) = 0 /\ SupplyGap(w) = 0
               ELSE CollGap(w) >= 0 /\ SupplyGap(w) <= 0

\* What leads from w to v keeps the system in Normal Mode while BorrowerOperations may mint.
KeepsMode(w, v, pr) ==
  v.ok /\ w.mintList /\ ~checkRecoveryMode(w, pr) => getTCR(v, pr) >= CCR

\* A change of the totals that was checked beforehand.
LEMMA CheckedMode ==
  ASSUME NEW w, NEW v, NEW c, NEW d, NEW pr, Shifts(w, v, c, d), v.ok,
         getNewTCRFromTroveChange(w, c, d, pr) >= CCR
  PROVE  getTCR(v, pr) >= CCR
BY DEF Shifts, getNewTCRFromTroveChange, getTCR

\* A transaction that has reached w left the books in agreement, unless it has reverted.
Balanced(w) == IsState(w) /\ (w.ok => Sound(w) /\ Books(w))

\* A user is an account of the token, and none of the contracts.
LEMMA UserAccounts ==
  ASSUME NEW u \in Users
  PROVE  /\ u \in Accounts /\ u # gasPoolAddress /\ u # stabilityPoolAddress
         /\ \A a : At(u, gasPoolAddress, a) = 0 /\ At(u, stabilityPoolAddress, a) = 0
BY BaseAssumption DEF Users, Accounts, NumAccounts, gasPoolAddress, stabilityPoolAddress, At

\* The transaction's request for the price changes no balance.
LEMMA PricedBalanced ==
  ASSUME NEW w, Balanced(w), NEW x, NEW v, v = Emit(w, x)
  PROVE  /\ Balanced(v) /\ v.status = w.status /\ v.ok = w.ok
         /\ (w.ok => Pooled(v) = Pooled(w)) /\ SamePools(w, v) /\ SameTroves(w, v)
  <1>1. Ready(w)
    BY DEF Ready, Balanced
  <1>2. Ready(v) /\ Leads(w, v, 0, 0, 0, 0, 0, 0)
    BY <1>1, LeadEmit
  <1>3. v.ok = w.ok /\ SamePools(w, v) /\ Moves(w, v, Still)
    BY <1>1, EmitMoves DEF Ready
  <1>4. ASSUME w.ok PROVE Sound(v) /\ Books(v) /\ Pooled(v) = Pooled(w)
    <2>1. Sound(w) /\ Books(w) /\ Sound(v)
      BY <1>2, <1>3, <1>4 DEF Balanced, Ready
    <2> QED
      BY <1>2, <1>3, <1>4, <2>1, GapTypes DEF Leads, Books
  <1> QED
    BY <1>2, <1>3, <1>4 DEF Balanced, Ready, Moves, SameTroves

\* openTrove
LEMMA OpenTroveBalanced ==
  ASSUME NEW w, Balanced(w), NEW u \in Users, NEW a \in Nat, NEW c \in Nat, NEW pos, NEW m,
         NEW pr, NEW fs, NEW decay \in 0..DECIMAL_PRECISION,
         NEW v, v = openTrove(w, u, a, c, pos, m, pr, fs, decay)
  PROVE  /\ Balanced(v) /\ (v.ok => w.ok /\ Pooled(v) = Pooled(w))
         /\ Spares(w, v) /\ KeepsMode(w, v, pr)
  <1> DEFINE rec == checkRecoveryMode(w, pr)
             r == IF rec THEN [w |-> w, fee |-> 0] ELSE triggerBorrowingFee(w, a, m, decay)
             w1 == r.w
             fee == r.fee
             d == getCompositeDebt(a + fee)
             cond == /\ feedIsActive(fs)
                     /\ validMaxFeePercentage(m, rec)
                     /\ w.status[u] # "active"
                     /\ getNetDebt(d) >= MIN_NET_DEBT
                     /\ LET ICR == computeCR(c, d, pr)
                        IN  IF rec
                            THEN ICR >= CCR
                            ELSE /\ ICR >= MCR
                                 /\ getNewTCRFromTroveChange(w, c, d, pr) >= CCR
             w2 == Require(w1, cond)
             q == computeNominalCR(c, d)
             w3 == insertAt(updateStakeAndTotalStakes(
                      updateTroveRewardSnapshots(
                        [w2 EXCEPT !.status[u] = "active", !.coll[u] = @ + c,
                                   !.debt[u] = @ + d], u), u), u, q, pos)
             w4 == activePoolReceive(w3, c)
             w5 == withdrawTHUSD(w4, u, a, a + fee)
             g == THUSD_GAS_COMPENSATION
             w6 == withdrawTHUSD(w5, gasPoolAddress, g, g)
             w7 == Emit(w6, TroveUpdated(w6, u, "openTrove"))
             e8 == [event |-> "THUSDBorrowingFeePaid", fee |-> fee]
  <1>1. v = Emit(w7, e8)
    BY DEF openTrove, emitBorrowed, emitTroveUpdated
  <1>2. Ready(w)
    BY DEF Balanced, Ready
  <1>3. /\ Ready(w1) /\ Leads(w, w1, 0, 0, IF HasPCV THEN fee ELSE 0, 0, 0, 0)
        /\ w1.status = w.status /\ (w.ok => fee \in Nat)
        /\ Spares(w, w1) /\ Shifts(w, w1, 0, 0)
    <2>1. CASE rec
      <3>1. w1 = w /\ fee = 0
        BY <2>1
      <3> HIDE DEF w1, fee
      <3>2. Leads(w, w, 0, 0, 0, 0, 0, 0)
        BY <1>2, GapTypes DEF Leads, Ready
      <3>3. Spares(w, w) /\ Shifts(w, w, 0, 0)
        BY <1>2, SamePoolsShift DEF Spares
      <3> QED
        BY <1>2, <3>1, <3>2, <3>3
    <2>2. CASE ~rec
      <3>1. r = triggerBorrowingFee(w, a, m, decay)
        BY <2>2
      <3> HIDE DEF r, rec
      <3> QED
        BY <1>2, <3>1, LeadFee
    <2> QED
      BY <2>1, <2>2
  <1>4. /\ cond \in BOOLEAN
        /\ cond => /\ w.status[u] # "active" /\ getNetDebt(d) >= MIN_NET_DEBT
                   /\ ~rec => getNewTCRFromTroveChange(w, c, d, pr) >= CCR
    OBVIOUS
  <1> HIDE DEF r, w1, fee, cond, rec
  <1>5. /\ Ready(w2) /\ Leads(w1, w2, 0, 0, 0, 0, 0, 0) /\ Follows(w1, w2)
        /\ (w2.ok => cond) /\ Shifts(w1, w2, 0, 0)
    BY <1>3, <1>4, LeadRequire, PoolsFollow, RequireOk, TokenShifts DEF Ready
  <1> HIDE DEF w2
  <1>6. w2.ok => w2.status[u] # "active" /\ w.ok /\ fee \in Nat /\ d \in Nat
    BY <1>3, <1>4, <1>5, BaseAssumption DEF Follows, SameTroves, Leads, getCompositeDebt
  <1>7. d = a + fee + g
    BY DEF getCompositeDebt
  <1> HIDE DEF d, q
  <1>8. /\ Ready(w3) /\ Leads(w2, w3, -d, -c, 0, -g, 0, 0)
        /\ Rewrites(w2, w3, u, "active", d)
    BY <1>5, <1>6, LeadOpen
  <1> HIDE DEF w3
  <1>a. Spares(w2, w3) /\ Shifts(w2, w3, 0, 0)
    <2>1. w3.ok => getNetDebt(d) >= MIN_NET_DEBT
      BY <1>4, <1>5, <1>8 DEF Rewrites
    <2> QED
      BY <1>5, <1>8, <2>1, RewriteSpares
  <1>9. /\ Ready(w4) /\ Leads(w3, w4, 0, c, 0, 0, 0, 0)
        /\ Follows(w3, w4) /\ Shifts(w3, w4, c, 0)
    BY <1>8, LeadReceive, PoolsFollow, ActiveShifts DEF Ready
  <1> HIDE DEF w4
  <1>10. w4.ok => a \in Nat /\ a + fee \in Nat
    BY <1>6, <1>8, <1>9 DEF Leads
  <1>11. u \in Accounts /\ gasPoolAddress \in Accounts
    BY UserAccounts, Addresses
  <1>12. /\ Ready(w5)
         /\ Leads(w4, w5, a + fee, 0, a - (a + fee), At(u, gasPoolAddress, a), 0,
                  At(u, stabilityPoolAddress, a))
         /\ Follows(w4, w5) /\ Shifts(w4, w5, 0, a + fee)
    BY <1>9, <1>10, <1>11, LeadWithdraw
  <1> HIDE DEF w5
  <1>13. g \in Nat
    BY BaseAssumption
  <1> HIDE DEF g
  <1>14. /\ Ready(w6)
         /\ Leads(w5, w6, g, 0, g - g, At(gasPoolAddress, gasPoolAddress, g), 0,
                  At(gasPoolAddress, stabilityPoolAddress, g))
         /\ Follows(w5, w6) /\ Shifts(w5, w6, 0, g)
    BY <1>11, <1>12, <1>13, LeadWithdraw
  <1> HIDE DEF w6
  <1>15. /\ Ready(w7) /\ Leads(w6, w7, 0, 0, 0, 0, 0, 0)
         /\ Follows(w6, w7) /\ Shifts(w6, w7, 0, 0)
    BY <1>14, LeadEmit, PoolsFollow, TokenShifts DEF Ready
  <1> HIDE DEF w7, e8
  <1>16. /\ Ready(v) /\ Leads(w7, v, 0, 0, 0, 0, 0, 0)
         /\ Follows(w7, v) /\ Shifts(w7, v, 0, 0)
    BY <1>1, <1>15, LeadEmit, PoolsFollow, TokenShifts DEF Ready
  <1>17. ASSUME v.ok PROVE Sound(v) /\ Books(v) /\ w.ok /\ Pooled(v) = Pooled(w)
    <2>1. w7.ok /\ w6.ok /\ w5.ok /\ w4.ok /\ w3.ok /\ w2.ok /\ w1.ok /\ w.ok
      BY <1>3, <1>5, <1>8, <1>9, <1>12, <1>14, <1>15, <1>16, <1>17 DEF Leads
    <2>2. Sound(v) /\ Sound(w) /\ Books(w) /\ fee \in Nat
      BY <1>6, <1>16, <1>17, <2>1 DEF Ready, Balanced
    <2>3. /\ At(u, gasPoolAddress, a) = 0 /\ At(u, stabilityPoolAddress, a) = 0
          /\ At(gasPoolAddress, gasPoolAddress, g) = g
          /\ At(gasPoolAddress, stabilityPoolAddress, g) = 0
      BY UserAccounts, Addresses DEF At
    <2>4. /\ DebtGap(w) \in Int /\ CollGap(w) \in Int /\ SupplyGap(w) \in Int
          /\ ReserveGap(w) \in Int /\ SurplusGap(w) \in Int /\ Pooled(w) \in Nat
      BY <2>2, GapTypes
    <2>5. DebtGap(v) = DebtGap(w) /\ CollGap(v) = CollGap(w)
      BY <1>3, <1>5, <1>7, <1>8, <1>9, <1>12, <1>13, <1>14, <1>15, <1>16, <1>17,
         <2>1, <2>2, <2>4 DEF Leads
    <2>6. SupplyGap(v) = SupplyGap(w) + (IF HasPCV THEN fee ELSE 0) - fee
      BY <1>3, <1>5, <1>8, <1>9, <1>12, <1>13, <1>14, <1>15, <1>16, <1>17,
         <2>1, <2>2, <2>4 DEF Leads
    <2>7. /\ ReserveGap(v) = ReserveGap(w) /\ SurplusGap(v) = SurplusGap(w)
          /\ Pooled(v) = Pooled(w)
      BY <1>3, <1>5, <1>8, <1>9, <1>12, <1>13, <1>14, <1>15, <1>16, <1>17,
         <2>1, <2>2, <2>3, <2>4 DEF Leads
    <2> QED
      BY <2>1, <2>2, <2>4, <2>5, <2>6, <2>7 DEF Books
  <1>18. Spares(w, v)
    <2>1. Spares(w3, v)
      <3>1. Follows(w3, v)
        BY <1>9, <1>12, <1>14, <1>15, <1>16 DEF Follows, SameTroves
      <3> QED
        BY <3>1, FollowsSpares
    <2>2. Spares(w1, w2)
      BY <1>5, FollowsSpares
    <2> QED
      BY <1>3, <1>a, <2>1, <2>2, SparesBoth
  <1>19. KeepsMode(w, v, pr)
    <2> SUFFICES ASSUME v.ok, ~rec PROVE getTCR(v, pr) >= CCR
      BY DEF KeepsMode, rec
    <2>1. w7.ok /\ w6.ok /\ w5.ok /\ w4.ok /\ w3.ok /\ w2.ok /\ w1.ok /\ w.ok /\ Sound(w)
      BY <1>2, <1>3, <1>5, <1>8, <1>9, <1>12, <1>14, <1>15, <1>16 DEF Leads, Ready
    <2>2. /\ getEntireSystemColl(w) \in Nat /\ getEntireSystemDebt(w) \in Nat
          /\ fee \in Nat /\ d \in Nat
      BY <1>2, <1>6, <2>1, SystemTotals
    <2>3. Shifts(w, v, c, d)
      BY <1>3, <1>5, <1>7, <1>a, <1>9, <1>12, <1>13, <1>14, <1>15, <1>16, <2>1, <2>2
         DEF Shifts
    <2>4. getNewTCRFromTroveChange(w, c, d, pr) >= CCR
      BY <1>4, <1>5, <2>1
    <2> QED
      BY <2>3, <2>4, CheckedMode
  <1> QED
    BY <1>16, <1>17, <1>18, <1>19 DEF Balanced, Ready

\* The end of _adjustTrove: what the trove gains or loses, the pools and the token do.
LEMMA LeadSettle ==
  ASSUME NEW w, Ready(w), w.ok, NEW u \in Users, NEW cc \in Int, NEW t \in Int, NEW fee \in Nat,
         t <= 0 => fee = 0, w.status[u] = "active",
         w.coll[u] + cc >= 0, w.debt[u] + t + fee >= 0, NEW pos,
         t < 0 => getNetDebt(w.debt[u]) + t >= MIN_NET_DEBT,
         NEW v, v = settleAdjustment(w, u, cc, t, fee, pos)
  PROVE  /\ Ready(v) /\ Leads(w, v, 0, 0, 0 - fee, 0, 0, 0)
         /\ Spares(w, v) /\ Shifts(w, v, cc, t + fee)
  <1> DEFINE c == w.coll[u] + cc
             d == w.debt[u] + t + fee
             q == computeNominalCR(c, d)
             w1 == insertAt(updateStakeAndTotalStakes(
                              [w EXCEPT !.coll[u] = c, !.debt[u] = d], u), u, q, pos)
             w2 == Emit(w1, TroveUpdated(w1, u, "adjustTrove"))
             w3 == Emit(w2, [event |-> "THUSDBorrowingFeePaid", fee |-> fee])
             w4 == IF t > 0 THEN withdrawTHUSD(w3, u, t, t + fee) ELSE repayTHUSD(w3, u, -t)
  <1>1. v = IF cc > 0 THEN activePoolReceive(w4, cc)
                      ELSE activePoolSendCollateral(w4, u, -cc)
    BY DEF settleAdjustment, emitBorrowed, emitTroveUpdated
  <1>2. Sound(w) /\ w.coll[u] \in Nat /\ w.debt[u] \in Nat
    BY PendingTypes DEF Ready
  <1>3. c \in Nat /\ d \in Nat /\ w.coll[u] - c = -cc /\ w.debt[u] - d = -(t + fee)
    BY <1>2
  <1>a. OwesMinimum(w) => getNetDebt(d) >= MIN_NET_DEBT
    <2>1. OwesMinimum(w) => getNetDebt(w.debt[u]) >= MIN_NET_DEBT
      BY DEF OwesMinimum
    <2> QED
      BY <1>2, <2>1, BaseAssumption DEF getNetDebt
  <1> HIDE DEF c, d, q
  <1>4. /\ Ready(w1) /\ Leads(w, w1, w.debt[u] - d, w.coll[u] - c, 0, 0, 0, 0)
        /\ Rewrites(w, w1, u, "active", d)
    BY <1>3, LeadAdjust
  <1> HIDE DEF w1
  <1>b. Spares(w, w1) /\ Shifts(w, w1, 0, 0)
    BY <1>a, <1>4, RewriteSpares
  <1>5. /\ Ready(w2) /\ Leads(w1, w2, 0, 0, 0, 0, 0, 0)
        /\ Follows(w1, w2) /\ Shifts(w1, w2, 0, 0)
    BY <1>4, LeadEmit, PoolsFollow, TokenShifts DEF Ready
  <1> HIDE DEF w2
  <1>6. /\ Ready(w3) /\ Leads(w2, w3, 0, 0, 0, 0, 0, 0)
        /\ Follows(w2, w3) /\ Shifts(w2, w3, 0, 0)
    BY <1>5, LeadEmit, PoolsFollow, TokenShifts DEF Ready
  <1> HIDE DEF w3
  <1>7. /\ u \in Accounts
        /\ \A a : At(u, gasPoolAddress, a) = 0 /\ At(u, stabilityPoolAddress, a) = 0
    BY UserAccounts
  <1>8. /\ Ready(w4) /\ Leads(w3, w4, t + fee, 0, 0 - fee, 0, 0, 0)
        /\ Follows(w3, w4) /\ Shifts(w3, w4, 0, t + fee)
    <2>1. CASE t > 0
      <3>1. w4 = withdrawTHUSD(w3, u, t, t + fee)
        BY <2>1
      <3>2. t \in Nat /\ t + fee \in Nat
        BY <2>1
      <3> HIDE DEF w4
      <3>3. /\ Ready(w4)
            /\ Leads(w3, w4, t + fee, 0, t - (t + fee), At(u, gasPoolAddress, t), 0,
                     At(u, stabilityPoolAddress, t))
            /\ Follows(w3, w4) /\ Shifts(w3, w4, 0, t + fee)
        BY <1>6, <1>7, <3>1, <3>2, LeadWithdraw
      <3>4. t - (t + fee) = 0 - fee
        BY <3>2
      <3> QED
        BY <1>7, <3>3, <3>4
    <2>2. CASE ~(t > 0)
      <3>1. w4 = repayTHUSD(w3, u, -t)
        BY <2>2
      <3>2. -t \in Nat /\ fee = 0 /\ -(-t) = t + fee
        BY <2>2
      <3> HIDE DEF w4
      <3>3. /\ Ready(w4)
            /\ Leads(w3, w4, -(-t), 0, 0, -At(u, gasPoolAddress, -t), 0,
                     -At(u, stabilityPoolAddress, -t))
            /\ Follows(w3, w4) /\ Shifts(w3, w4, 0, 0 - (-t))
        BY <1>6, <1>7, <3>1, <3>2, LeadRepay
      <3>4. At(u, gasPoolAddress, -t) = 0 /\ At(u, stabilityPoolAddress, -t) = 0
        BY <1>7
      <3>5. Leads(w3, w4, t + fee, 0, 0, 0, 0, 0)
        BY <3>2, <3>3, <3>4 DEF Leads
      <3>6. 0 - fee = 0 /\ 0 - (-t) = t + fee
        BY <3>2
      <3> QED
        BY <3>3, <3>5, <3>6
    <2> QED
      BY <2>1, <2>2
  <1> HIDE DEF w4
  <1>9. /\ Ready(v) /\ Leads(w4, v, 0, cc, 0, 0, 0, 0)
        /\ Follows(w4, v) /\ Shifts(w4, v, cc, 0)
    <2>1. CASE cc > 0
      <3>1. v = activePoolReceive(w4, cc) /\ cc \in Nat
        BY <1>1, <2>1
      <3> QED
        BY <1>8, <3>1, LeadReceive, PoolsFollow, ActiveShifts DEF Ready
    <2>2. CASE ~(cc > 0)
      <3>1. /\ v = activePoolSendCollateral(w4, u, -cc) /\ -cc \in Nat
            /\ -(-cc) = cc /\ 0 - (-cc) = cc
        BY <1>1, <2>2
      <3>2. Ready(v) /\ Leads(w4, v, 0, -(-cc), 0, 0, 0, 0)
        BY <1>8, <3>1, LeadSend
      <3>3. Follows(w4, v) /\ Shifts(w4, v, 0 - (-cc), 0)
        BY <1>8, <3>1, PoolsFollow, ActiveShifts DEF Ready
      <3> QED
        BY <3>1, <3>2, <3>3
    <2> QED
      BY <2>1, <2>2
  <1>10. ASSUME v.ok PROVE Leads(w, v, 0, 0, 0 - fee, 0, 0, 0)
    <2>1. w4.ok /\ w3.ok /\ w2.ok /\ w1.ok
      BY <1>4, <1>5, <1>6, <1>8, <1>9, <1>10 DEF Leads
    <2> QED
      BY <1>2, <1>3, <1>4, <1>5, <1>6, <1>8, <1>9, <1>10, <2>1, GapTypes DEF Leads
  <1>11. Spares(w, v)
    <2>1. Follows(w1, v)
      BY <1>5, <1>6, <1>8, <1>9 DEF Follows, SameTroves
    <2> QED
      BY <1>b, <2>1, FollowsSpares, SparesBoth
  <1>12. Shifts(w, v, cc, t + fee)
    <2>1. getEntireSystemColl(w) \in Nat /\ getEntireSystemDebt(w) \in Nat
      BY SystemTotals
    <2> QED
      BY <1>b, <1>5, <1>6, <1>8, <1>9, <2>1 DEF Shifts
  <1>13. Leads(w, v, 0, 0, 0 - fee, 0, 0, 0)
    BY <1>10 DEF Leads
  <1> QED
    BY <1>9, <1>11, <1>12, <1>13

\* _adjustTrove, and with it every function that changes a trove.
LEMMA AdjustTroveBalanced ==
  ASSUME NEW w, Balanced(w), NEW u \in Users, NEW cc \in Int, NEW t \in Int, NEW pos, NEW m,
         NEW pr, NEW decay \in 0..DECIMAL_PRECISION,
         NEW v, v = adjustTrove(w, u, cc, t, pos, m, pr, decay)
  PROVE  /\ Balanced(v) /\ (v.ok => w.ok /\ Pooled(v) = Pooled(w))
         /\ Spares(w, v) /\ KeepsMode(w, v, pr)
  <1> DEFINE rec == checkRecoveryMode(w, pr)
             inc == t > 0
             cond1 == /\ inc => validMaxFeePercentage(m, rec)
                      /\ cc # 0 \/ t # 0
                      /\ w.status[u] = "active"
             w1 == Require(w, cond1)
             w2 == applyPendingRewards(w1, u)
             r == IF inc /\ ~rec THEN triggerBorrowingFee(w2, t, m, decay)
                                 ELSE [w |-> w2, fee |-> 0]
             w3 == r.w
             fee == r.fee
             cond2 == /\ w3.coll[u] + cc >= 0 /\ w3.debt[u] + t + fee >= 0
                      /\ validAdjustmentInCurrentMode(w3, w3.coll[u], w3.debt[u], cc,
                           t + fee, rec, pr)
                      /\ t < 0 => validRepayment(w3, u, w3.debt[u], -t)
             w4 == Require(w3, cond2)
  <1>1. v = IF w4.ok THEN settleAdjustment(w4, u, cc, t, fee, pos) ELSE w4
    BY DEF adjustTrove, checkAdjustment
  <1>2. Ready(w) /\ IsState(w)
    BY DEF Balanced, Ready
  <1>3. cond1 \in BOOLEAN /\ (cond1 => w.status[u] = "active")
    OBVIOUS
  <1> HIDE DEF rec, cond1
  <1>4. /\ Ready(w1) /\ Leads(w, w1, 0, 0, 0, 0, 0, 0) /\ Follows(w, w1)
        /\ (w1.ok => cond1) /\ Spares(w, w1)
    BY <1>2, <1>3, LeadRequire, PoolsFollow, RequireOk, FollowsSpares
  <1> HIDE DEF w1
  <1>5. /\ Ready(w2) /\ Leads(w1, w2, 0, 0, 0, 0, 0, 0) /\ w2.status = w1.status
        /\ Spares(w1, w2)
    BY <1>4, LeadApply
  <1> HIDE DEF w2
  <1>6. /\ Ready(w3) /\ Leads(w2, w3, 0, 0, IF HasPCV THEN fee ELSE 0, 0, 0, 0)
        /\ w3.status = w2.status /\ (w3.ok => fee \in Nat) /\ (w3.ok => (t <= 0 => fee = 0))
        /\ Spares(w2, w3)
    <2>1. CASE inc /\ ~rec
      <3>1. t \in Nat /\ ~(t <= 0)
        BY <2>1
      <3>a. r = triggerBorrowingFee(w2, t, m, decay)
        BY <2>1
      <3>b. Ready(w2) /\ (w2.ok => t \in Nat)
        BY <1>5, <3>1
      <3> HIDE DEF r, inc
      <3>2. /\ Ready(w3) /\ Leads(w2, w3, 0, 0, IF HasPCV THEN fee ELSE 0, 0, 0, 0)
            /\ w3.status = w2.status /\ (w2.ok => fee \in Nat) /\ Spares(w2, w3)
        BY <3>a, <3>b, LeadFee
      <3> QED
        BY <3>1, <3>2 DEF Leads
    <2>2. CASE ~(inc /\ ~rec)
      <3>1. w3 = w2 /\ fee = 0
        BY <2>2
      <3> HIDE DEF w3, fee
      <3>2. Leads(w2, w2, 0, 0, 0, 0, 0, 0)
        BY <1>5, GapTypes DEF Leads, Ready
      <3>3. Spares(w2, w2)
        BY DEF Spares
      <3> QED
        BY <1>5, <3>1, <3>2, <3>3
    <2> QED
      BY <2>1, <2>2
  <1>7. cond2 \in BOOLEAN
        /\ (cond2 => w3.coll[u] + cc >= 0 /\ w3.debt[u] + t + fee >= 0)
        /\ (cond2 /\ t < 0 => getNetDebt(w3.debt[u]) - (-t) >= MIN_NET_DEBT)
        /\ (cond2 /\ w3.mintList /\ ~rec =>
              getNewTCRFromTroveChange(w3, cc, t + fee, pr) >= CCR)
    BY DEF validRepayment, validAdjustmentInCurrentMode
  <1> HIDE DEF r, w3, fee, cond2
  <1>8. /\ Ready(w4) /\ Leads(w3, w4, 0, 0, 0, 0, 0, 0) /\ Follows(w3, w4)
        /\ (w4.ok => cond2) /\ Shifts(w3, w4, 0, 0) /\ Spares(w3, w4)
    BY <1>6, <1>7, LeadRequire, PoolsFollow, RequireOk, TokenShifts, FollowsSpares DEF Ready
  <1> HIDE DEF w4
  <1>9. CASE ~w4.ok
    <2>1. v = w4
      BY <1>1, <1>9
    <2> QED
      BY <1>8, <1>9, <2>1 DEF Balanced, Ready, Spares, KeepsMode
  <1>10. CASE w4.ok
    <2>1. w3.ok /\ w2.ok /\ w1.ok /\ w.ok /\ fee \in Nat /\ (t <= 0 => fee = 0)
      BY <1>4, <1>5, <1>6, <1>8, <1>10 DEF Leads
    <2>2. w4.status[u] = "active"
      BY <1>3, <1>4, <1>5, <1>6, <1>8, <2>1 DEF Follows, SameTroves
    <2>3. w4.coll[u] + cc >= 0 /\ w4.debt[u] + t + fee >= 0
      BY <1>7, <1>8, <1>10 DEF Follows, SameTroves
    <2>4. v = settleAdjustment(w4, u, cc, t, fee, pos)
      BY <1>1, <1>10
    <2>a. t < 0 => getNetDebt(w4.debt[u]) + t >= MIN_NET_DEBT
      <3>1. w4.debt[u] \in Nat /\ w4.debt = w3.debt
        BY <1>8, <1>10, PendingTypes DEF Ready, Follows, SameTroves
      <3> QED
        BY <1>7, <1>8, <1>10, <3>1, BaseAssumption DEF getNetDebt
    <2>5. /\ Ready(v) /\ Leads(w4, v, 0, 0, 0 - fee, 0, 0, 0)
          /\ Spares(w4, v) /\ Shifts(w4, v, cc, t + fee)
      BY <1>8, <1>10, <2>1, <2>2, <2>3, <2>4, <2>a, LeadSettle
    <2>6. ASSUME v.ok PROVE Sound(v) /\ Books(v) /\ Pooled(v) = Pooled(w)
      <3>1. Sound(v) /\ Sound(w) /\ Books(w)
        BY <2>1, <2>5, <2>6 DEF Ready, Balanced
      <3>2. /\ DebtGap(w) \in Int /\ CollGap(w) \in Int /\ SupplyGap(w) \in Int
            /\ ReserveGap(w) \in Int /\ SurplusGap(w) \in Int /\ Pooled(w) \in Nat
        BY <3>1, GapTypes
      <3>3. /\ DebtGap(v) = DebtGap(w) /\ CollGap(v) = CollGap(w)
            /\ ReserveGap(v) = ReserveGap(w) /\ SurplusGap(v) = SurplusGap(w)
            /\ Pooled(v) = Pooled(w)
        BY <1>4, <1>5, <1>6, <1>8, <1>10, <2>1, <2>5, <2>6, <3>2 DEF Leads
      <3>4. SupplyGap(v) = SupplyGap(w) + (IF HasPCV THEN fee ELSE 0) - fee
        BY <1>4, <1>5, <1>6, <1>8, <1>10, <2>1, <2>5, <2>6, <3>2 DEF Leads
      <3> QED
        BY <2>1, <3>1, <3>2, <3>3, <3>4 DEF Books
    <2>7. Spares(w, v)
      BY <1>4, <1>5, <1>6, <1>8, <2>5, SparesBoth
    <2>8. KeepsMode(w, v, pr)
      <3> SUFFICES ASSUME v.ok, w.mintList, ~rec PROVE getTCR(v, pr) >= CCR
        BY DEF KeepsMode, rec
      <3>1. w3.mintList
        BY <1>4, <1>5, <1>6, <2>1 DEF Spares
      <3>2. Shifts(w3, v, cc, t + fee)
        BY <1>6, <1>8, <2>5, ShiftsOnce
      <3> QED
        BY <1>7, <1>8, <1>10, <3>1, <3>2, CheckedMode
    <2> QED
      BY <2>1, <2>5, <2>6, <2>7, <2>8 DEF Balanced, Ready
  <1> QED
    BY <1>9, <1>10

\* closeTrove: the owner repays the debt, the gas pool its part, and takes the collateral.
LEMMA CloseTroveBalanced ==
  ASSUME NEW w, Balanced(w), NEW u \in Users, NEW pr,
         NEW v, v = closeTroveByOwner(w, u, pr)
  PROVE  /\ Balanced(v) /\ (v.ok => w.ok /\ Pooled(v) = Pooled(w))
         /\ Spares(w, v) /\ KeepsMode(w, v, pr)
  <1> DEFINE g == THUSD_GAS_COMPENSATION
             cond1 == /\ w.status[u] = "active"
                      /\ w.mintList => ~checkRecoveryMode(w, pr)
             w1 == Require(w, cond1)
             w2 == applyPendingRewards(w1, u)
             cond2 == /\ w2.debt[u] >= g
                      /\ w2.thusd[u] >= w2.debt[u] - g
                      /\ w2.mintList =>
                           getNewTCRFromTroveChange(w2, -w2.coll[u], -w2.debt[u], pr) >= CCR
             w3 == Require(w2, cond2)
             d == w3.debt[u]
             c == w3.coll[u]
             w4 == closeTrove(removeStake(w3, u), u, "closedByOwner")
             w5 == Emit(w4, TroveUpdated(w4, u, "closeTrove"))
             w6 == repayTHUSD(w5, u, d - g)
             w7 == repayTHUSD(w6, gasPoolAddress, g)
  <1>1. v = IF w3.ok THEN activePoolSendCollateral(w7, u, c) ELSE w3
    BY DEF closeTroveByOwner, emitTroveUpdated
  <1>2. Ready(w) /\ IsState(w) /\ g \in Nat
    BY BaseAssumption DEF Balanced, Ready
  <1>3. cond1 \in BOOLEAN /\ (cond1 => w.status[u] = "active")
    OBVIOUS
  <1> HIDE DEF cond1
  <1>4. /\ Ready(w1) /\ Leads(w, w1, 0, 0, 0, 0, 0, 0) /\ Follows(w, w1)
        /\ (w1.ok => cond1) /\ Spares(w, w1)
    BY <1>2, <1>3, LeadRequire, PoolsFollow, RequireOk, FollowsSpares
  <1> HIDE DEF w1
  <1>5. /\ Ready(w2) /\ Leads(w1, w2, 0, 0, 0, 0, 0, 0) /\ w2.status = w1.status
        /\ Spares(w1, w2)
    BY <1>4, LeadApply
  <1> HIDE DEF w2
  <1>6. /\ cond2 \in BOOLEAN /\ (cond2 => w2.debt[u] >= g)
        /\ (cond2 /\ w2.mintList =>
              getNewTCRFromTroveChange(w2, -w2.coll[u], -w2.debt[u], pr) >= CCR)
    OBVIOUS
  <1> HIDE DEF cond2
  <1>7. /\ Ready(w3) /\ Leads(w2, w3, 0, 0, 0, 0, 0, 0) /\ Follows(w2, w3)
        /\ (w3.ok => cond2) /\ Shifts(w2, w3, 0, 0) /\ Spares(w2, w3)
    BY <1>5, <1>6, LeadRequire, PoolsFollow, RequireOk, TokenShifts, FollowsSpares DEF Ready
  <1> HIDE DEF w3
  <1>8. CASE ~w3.ok
    <2>1. v = w3
      BY <1>1, <1>8
    <2> QED
      BY <1>7, <1>8, <2>1 DEF Balanced, Ready, Spares, KeepsMode
  <1>9. CASE w3.ok
    <2>1. w2.ok /\ w1.ok /\ w.ok /\ Sound(w3)
      BY <1>4, <1>5, <1>7, <1>9 DEF Leads, Ready
    <2>2. w3.status[u] = "active"
      BY <1>3, <1>4, <1>5, <1>7, <2>1 DEF Follows, SameTroves
    <2>3. d \in Nat /\ c \in Nat
      BY <2>1, PendingTypes
    <2>4. d >= g
      BY <1>6, <1>7, <1>9 DEF Follows, SameTroves
    <2>5. "closedByOwner" \in Statuses \ {"active"}
      BY DEF Statuses
    <2>a. (w2.mintList => getNewTCRFromTroveChange(w2, -c, -d, pr) >= CCR) /\ w2.debt[u] = d
      BY <1>6, <1>7, <1>9 DEF Follows, SameTroves
    <2>6. /\ Ready(w4) /\ Leads(w3, w4, d, c, 0, g, 0, 0)
          /\ Rewrites(w3, w4, u, "closedByOwner", 0)
      BY <1>7, <2>2, <2>5, LeadClose
    <2>c. w4.ok /\ w3.mintList => Others(w3, u)
      BY <1>7, <2>2, <2>5, LeadClose
    <2> HIDE DEF w4, d, c
    <2>b. Spares(w3, w4) /\ Shifts(w3, w4, 0, 0)
      <3>1. "closedByOwner" # "closedByLiquidation" /\ "closedByOwner" # "active"
        OBVIOUS
      <3> QED
        BY <1>7, <2>6, <2>c, <3>1, RewriteSpares
    <2>7. /\ Ready(w5) /\ Leads(w4, w5, 0, 0, 0, 0, 0, 0)
          /\ Follows(w4, w5) /\ Shifts(w4, w5, 0, 0)
      BY <2>6, LeadEmit, PoolsFollow, TokenShifts DEF Ready
    <2> HIDE DEF w5
    <2>8. u \in Accounts /\ gasPoolAddress \in Accounts /\ d - g \in Nat
      BY <1>2, <2>3, <2>4, UserAccounts, Addresses
    <2>9. /\ Ready(w6)
          /\ Leads(w5, w6, -(d - g), 0, 0, -At(u, gasPoolAddress, d - g), 0,
                   -At(u, stabilityPoolAddress, d - g))
          /\ Follows(w5, w6) /\ Shifts(w5, w6, 0, 0 - (d - g))
      BY <2>7, <2>8, LeadRepay
    <2> HIDE DEF w6, g
    <2>10. /\ Ready(w7)
           /\ Leads(w6, w7, -g, 0, 0, -At(gasPoolAddress, gasPoolAddress, g), 0,
                    -At(gasPoolAddress, stabilityPoolAddress, g))
           /\ Follows(w6, w7) /\ Shifts(w6, w7, 0, 0 - g)
      BY <1>2, <2>8, <2>9, LeadRepay
    <2> HIDE DEF w7
    <2>11. v = activePoolSendCollateral(w7, u, c)
      BY <1>1, <1>9
    <2>12. /\ Ready(v) /\ Leads(w7, v, 0, -c, 0, 0, 0, 0)
           /\ Follows(w7, v) /\ Shifts(w7, v, 0 - c, 0)
      BY <2>3, <2>10, <2>11, LeadSend, PoolsFollow, ActiveShifts DEF Ready
    <2>13. /\ At(u, gasPoolAddress, d - g) = 0 /\ At(u, stabilityPoolAddress, d - g) = 0
           /\ At(gasPoolAddress, gasPoolAddress, g) = g
           /\ At(gasPoolAddress, stabilityPoolAddress, g) = 0
      BY UserAccounts, Addresses DEF At
    <2>14. ASSUME v.ok PROVE Sound(v) /\ Books(v) /\ Pooled(v) = Pooled(w)
      <3>1. Sound(v) /\ Sound(w) /\ Books(w)
        BY <2>1, <2>12, <2>14 DEF Ready, Balanced
      <3>2. /\ DebtGap(w) \in Int /\ CollGap(w) \in Int /\ SupplyGap(w) \in Int
            /\ ReserveGap(w) \in Int /\ SurplusGap(w) \in Int /\ Pooled(w) \in Nat
        BY <3>1, GapTypes
      <3>3. w7.ok /\ w6.ok /\ w5.ok /\ w4.ok
        BY <2>7, <2>9, <2>10, <2>12, <2>14 DEF Leads
      <3>4. /\ DebtGap(v) = DebtGap(w) /\ CollGap(v) = CollGap(w)
            /\ SupplyGap(v) = SupplyGap(w)
        BY <1>2, <1>4, <1>5, <1>7, <1>9, <2>1, <2>3, <2>6, <2>7, <2>9, <2>10, <2>12, <2>14,
           <3>2, <3>3 DEF Leads
      <3>5. /\ ReserveGap(v) = ReserveGap(w) /\ SurplusGap(v) = SurplusGap(w)
            /\ Pooled(v) = Pooled(w)
        BY <1>2, <1>4, <1>5, <1>7, <1>9, <2>1, <2>3, <2>6, <2>7, <2>9, <2>10, <2>12, <2>13,
           <2>14, <3>2, <3>3 DEF Leads
      <3> QED
        BY <3>1, <3>4, <3>5 DEF Books
    <2>15. Spares(w, v)
      <3>1. Follows(w4, v)
        BY <2>7, <2>9, <2>10, <2>12 DEF Follows, SameTroves
      <3>2. Spares(w4, v)
        BY <3>1, FollowsSpares
      <3> QED
        BY <1>4, <1>5, <1>7, <2>b, <3>2, SparesBoth
    <2>16. KeepsMode(w, v, pr)
      <3> SUFFICES ASSUME v.ok, w.mintList PROVE getTCR(v, pr) >= CCR
        BY DEF KeepsMode
      <3>1. w2.mintList
        BY <1>4, <1>5, <2>1 DEF Spares
      <3>2. getEntireSystemColl(w2) \in Nat /\ getEntireSystemDebt(w2) \in Nat
        BY <1>5, <2>1, SystemTotals
      <3>3. Shifts(w2, v, -c, -d)
        BY <1>2, <1>7, <2>1, <2>3, <2>b, <2>7, <2>9, <2>10, <2>12, <3>2 DEF Shifts
      <3> QED
        BY <2>a, <3>1, <3>3, CheckedMode
    <2> QED
      BY <2>1, <2>12, <2>14, <2>15, <2>16 DEF Balanced, Ready
  <1> QED
    BY <1>8, <1>9

-----------------------------------------------------------------------------
(* Liquidations. *)

\* _movePendingTroveRewardsToActivePool, _removeStake and _closeTrove of a liquidation.
LEMMA LeadCloseLiquidated ==
  ASSUME NEW w, Ready(w), NEW b \in Users, w.ok => w.status[b] = "active",
         NEW v, v = closeLiquidated(w, b)
  PROVE  /\ Ready(v)
         /\ Leads(w, v, entireDebt(w, b), entireColl(w, b), 0, THUSD_GAS_COMPENSATION, 0, 0)
         /\ v.status = [w.status EXCEPT ![b] = "closedByLiquidation"]
  <1> DEFINE a == getPendingTHUSDDebtReward(w, b)
             c == getPendingCollateralReward(w, b)
             w1 == movePendingTroveRewardsToActivePool(w, a, c)
  <1>1. v = closeTrove(removeStake(w1, b), b, "closedByLiquidation")
    BY DEF closeLiquidated
  <1>2. w.ok => a \in Nat /\ c \in Nat /\ w.debt[b] \in Nat /\ w.coll[b] \in Nat
    BY PendingTypes DEF Ready
  <1>3. entireDebt(w, b) = w.debt[b] + a /\ entireColl(w, b) = w.coll[b] + c
    BY DEF entireDebt, entireColl
  <1> HIDE DEF a, c
  <1>4. Ready(w1) /\ Leads(w, w1, a, c, 0, 0, 0, 0) /\ Follows(w, w1)
    BY <1>2, LeadRewards
  <1> HIDE DEF w1
  <1>5. /\ w1.status = w.status /\ w1.debt = w.debt /\ w1.coll = w.coll
        /\ (w1.ok => w1.status[b] = "active")
    BY <1>4 DEF Follows, SameTroves
  <1>6. "closedByLiquidation" \in Statuses \ {"active"}
    BY DEF Statuses
  <1>7. /\ Ready(v)
        /\ Leads(w1, v, w1.debt[b], w1.coll[b], 0, THUSD_GAS_COMPENSATION, 0, 0)
        /\ v.status = [w1.status EXCEPT ![b] = "closedByLiquidation"]
    BY <1>1, <1>4, <1>5, <1>6, LeadClose
  <1>8. Leads(w, v, w.debt[b] + a, w.coll[b] + c, 0, THUSD_GAS_COMPENSATION, 0, 0)
    <2> SUFFICES ASSUME v.ok
                 PROVE  Leads(w, v, w.debt[b] + a, w.coll[b] + c, 0,
                              THUSD_GAS_COMPENSATION, 0, 0)
      BY DEF Leads
    <2>1. w1.ok /\ w.ok
      BY <1>4, <1>7 DEF Leads
    <2>2. Sound(w)
      BY <2>1 DEF Ready
    <2> QED
      BY <1>2, <1>4, <1>5, <1>7, <2>1, <2>2, GapTypes DEF Leads
  <1> QED
    BY <1>3, <1>5, <1>7, <1>8

\* The events of a liquidation change no balance.
LEMMA LeadEmitLiquidated ==
  ASSUME NEW w, Ready(w), NEW b, NEW op, NEW v, v = emitLiquidated(w, b, op)
  PROVE  Ready(v) /\ Leads(w, v, 0, 0, 0, 0, 0, 0) /\ v.status = w.status
  <1> DEFINE e == [event |-> "TroveLiquidated", user |-> b, operation |-> op]
             w1 == Emit(w, e)
             f == TroveUpdated(w1, b, op)
  <1>1. v = Emit(w1, f)
    BY DEF emitLiquidated, emitTroveUpdated
  <1> HIDE DEF e
  <1>2. Ready(w1) /\ Leads(w, w1, 0, 0, 0, 0, 0, 0) /\ Follows(w, w1)
    BY LeadEmit, PoolsFollow DEF Ready
  <1> HIDE DEF w1, f
  <1>3. Ready(v) /\ Leads(w1, v, 0, 0, 0, 0, 0, 0) /\ Follows(w1, v)
    BY <1>1, <1>2, LeadEmit, PoolsFollow DEF Ready
  <1>4. Leads(w, v, 0, 0, 0, 0, 0, 0)
    <2> SUFFICES ASSUME v.ok PROVE Leads(w, v, 0, 0, 0, 0, 0, 0)
      BY DEF Leads
    <2>1. w1.ok /\ w.ok
      BY <1>2, <1>3 DEF Leads
    <2>2. Sound(w)
      BY <2>1 DEF Ready
    <2> QED
      BY <1>2, <1>3, <2>1, <2>2, GapTypes DEF Leads
  <1> QED
    BY <1>2, <1>3, <1>4 DEF Follows, SameTroves

\* What a liquidation takes from a trove: all of its debt is offset or redistributed, with
\* at most pool offset; all of its collateral goes somewhere; and collateral is
\* redistributed, or sent to the Stability Pool, only together with debt.
SoundVals(t, pool) ==
  /\ t.entireTroveDebt \in Nat /\ t.entireTroveColl \in Nat
  /\ t.collGasCompensation \in Nat /\ t.THUSDGasCompensation \in Nat
  /\ t.debtToOffset \in Nat /\ t.collToSendToSP \in Nat
  /\ t.debtToRedistribute \in Nat /\ t.collToRedistribute \in Nat
  /\ t.collSurplus \in Nat
  /\ t.debtToOffset + t.debtToRedistribute = t.entireTroveDebt
  /\ t.collGasCompensation + t.collToSendToSP + t.collToRedistribute + t.collSurplus
       = t.entireTroveColl
  /\ t.debtToOffset <= pool
  /\ t.debtToRedistribute = 0 => t.collToRedistribute = 0
  /\ t.debtToOffset = 0 => t.collToSendToSP = 0

\* The compensation of the liquidator is part of the collateral.
LEMMA GasCompensation ==
  ASSUME NEW c \in Nat
  PROVE  getCollGasCompensation(c) \in Nat /\ getCollGasCompensation(c) <= c
  <1> DEFINE n == PERCENT_DIVISOR
  <1>1. n \in Nat \ {0} /\ getCollGasCompensation(c) = c \div n
    BY BaseAssumption DEF getCollGasCompensation
  <1> HIDE DEF n
  <1>2. c <= c * n
    <2>1. 1 * c <= n * c
      BY <1>1, MulMono
    <2>2. 1 * c = c /\ n * c = c * n
      BY <1>1
    <2> QED
      BY <2>1, <2>2
  <1> QED
    BY <1>1, <1>2, DivNat, DivLeq

\* _getOffsetAndRedistributionVals splits debt and collateral.
LEMMA ValsSound ==
  ASSUME NEW d \in Nat, NEW c \in Nat, d > 0, NEW x \in Nat, x <= d, NEW pool \in Nat, x <= pool
  PROVE  SoundVals(LiquidationVals(d, c, x), pool)
  <1> DEFINE g == getCollGasCompensation(c)
             l == c - g
             sp == (l * x) \div d
             t == LiquidationVals(d, c, x)
  <1>1. /\ t.entireTroveDebt = d /\ t.entireTroveColl = c /\ t.collGasCompensation = g
        /\ t.THUSDGasCompensation = THUSD_GAS_COMPENSATION /\ t.debtToOffset = x
        /\ t.collToSendToSP = sp /\ t.debtToRedistribute = d - x
        /\ t.collToRedistribute = l - sp /\ t.collSurplus = 0
    BY DEF LiquidationVals
  <1>2. g \in Nat /\ g <= c /\ l \in Nat /\ THUSD_GAS_COMPENSATION \in Nat
    BY GasCompensation, BaseAssumption
  <1> HIDE DEF t, g, l
  <1>3. l * x \in Nat /\ x * l = l * x /\ d * l = l * d
    BY <1>2, MulNat
  <1>4. l * x <= l * d
    <2>1. x * l <= d * l
      BY <1>2, MulMono
    <2> QED
      BY <1>3, <2>1
  <1>5. sp \in Nat /\ sp <= l
    BY <1>2, <1>3, <1>4, DivNat, DivLeq
  <1>6. x = d => sp = l
    BY <1>2, DivExact
  <1>7. x = 0 => sp = 0
    <2> SUFFICES ASSUME x = 0 PROVE sp = 0
      OBVIOUS
    <2>1. l * x = 0 /\ 0 \div d = 0
      BY <1>2
    <2> QED
      BY <2>1
  <1> HIDE DEF sp
  <1>8. /\ d - x \in Nat /\ l - sp \in Nat /\ x + (d - x) = d
        /\ g + sp + (l - sp) + 0 = c /\ (d - x = 0 => l - sp = 0)
    <2>1. l = c - g
      BY DEF l
    <2> QED
      BY <1>2, <1>5, <1>6, <2>1
  <1> QED
    BY <1>1, <1>2, <1>5, <1>7, <1>8 DEF SoundVals, t

\* _getCappedOffsetVals takes at most the collateral of a trove at or above MCR.
LEMMA CappedSound ==
  ASSUME NEW d \in Nat, NEW c \in Nat, NEW pr \in Nat \ {0}, computeCR(c, d, pr) >= MCR,
         NEW pool \in Nat, d <= pool
  PROVE  SoundVals(getCappedOffsetVals(d, c, pr), pool)
  <1> DEFINE p == (d * MCR) \div pr
             g == getCollGasCompensation(p)
             t == getCappedOffsetVals(d, c, pr)
  <1>1. /\ t.entireTroveDebt = d /\ t.entireTroveColl = c /\ t.collGasCompensation = g
        /\ t.THUSDGasCompensation = THUSD_GAS_COMPENSATION /\ t.debtToOffset = d
        /\ t.collToSendToSP = p - g /\ t.debtToRedistribute = 0
        /\ t.collToRedistribute = 0 /\ t.collSurplus = c - p
    BY DEF getCappedOffsetVals
  <1>2. MCR \in Nat /\ THUSD_GAS_COMPENSATION \in Nat
    BY BaseAssumption
  <1>3. d * MCR \in Nat /\ c * pr \in Nat
    BY <1>2, MulNat
  <1>4. d * MCR <= c * pr
    <2>1. CASE d = 0
      <3>1. d * MCR = 0
        BY <1>2, <2>1
      <3> QED
        BY <1>3, <3>1
    <2>2. CASE d > 0
      <3> DEFINE q == (c * pr) \div d
      <3>1. q \in Nat /\ q * d <= c * pr /\ q >= MCR
        BY <1>3, <2>2, DivNat, DivBounds DEF computeCR
      <3> HIDE DEF q
      <3>2. MCR * d <= q * d
        BY <1>2, <3>1, MulMono
      <3>3. MCR * d = d * MCR /\ q * d \in Nat
        BY <1>2, <3>1, MulNat
      <3> QED
        BY <1>3, <3>1, <3>2, <3>3
    <2> QED
      BY <2>1, <2>2
  <1>5. p \in Nat /\ p <= c
    BY <1>3, <1>4, DivNat, DivLeq
  <1>6. d = 0 => p = 0
    <2> SUFFICES ASSUME d = 0 PROVE p = 0
      OBVIOUS
    <2>1. d * MCR = 0 /\ 0 \div pr = 0
      BY <1>2
    <2> QED
      BY <2>1
  <1> HIDE DEF p
  <1>7. g \in Nat /\ g <= p
    BY <1>5, GasCompensation
  <1> HIDE DEF g, t
  <1>8. /\ p - g \in Nat /\ c - p \in Nat /\ g + (p - g) + 0 + (c - p) = c
        /\ d + 0 = d /\ (d = 0 => p - g = 0)
    BY <1>5, <1>6, <1>7
  <1> QED
    BY <1>1, <1>2, <1>7, <1>8 DEF SoundVals, t

\* The liquidation r of b, or its refusal, did to the state w what its values say.
Taken(w, b, pool, r) ==
  /\ Ready(r.w)
  /\ r.w.ok => SoundVals(r.vals, pool)
  /\ Leads(w, r.w, r.vals.entireTroveDebt, r.vals.entireTroveColl, 0,
           r.vals.THUSDGasCompensation, 0 - r.vals.collSurplus, 0)
  /\ \A u \in Users \ {b} : r.w.status[u] = w.status[u]

\* Nothing is taken.
LEMMA NothingTaken ==
  ASSUME NEW w, Ready(w), NEW b, NEW pool, w.ok => pool \in Nat,
         NEW r, r = [w |-> w, vals |-> ZeroVals]
  PROVE  Taken(w, b, pool, r)
  <1>1. r.w = w /\ r.vals = ZeroVals
    OBVIOUS
  <1>2. /\ ZeroVals.entireTroveDebt = 0 /\ ZeroVals.entireTroveColl = 0
        /\ ZeroVals.collGasCompensation = 0 /\ ZeroVals.THUSDGasCompensation = 0
        /\ ZeroVals.debtToOffset = 0 /\ ZeroVals.collToSendToSP = 0
        /\ ZeroVals.debtToRedistribute = 0 /\ ZeroVals.collToRedistribute = 0
        /\ ZeroVals.collSurplus = 0
    BY DEF ZeroVals
  <1>3. w.ok => SoundVals(ZeroVals, pool)
    BY <1>2 DEF SoundVals
  <1>4. Leads(w, w, 0, 0, 0, 0, 0, 0)
    BY GapTypes DEF Leads, Ready
  <1> QED
    BY <1>1, <1>2, <1>3, <1>4 DEF Taken

\* A liquidation that offsets x of the debt and redistributes the rest.
LEMMA SplitTaken ==
  ASSUME NEW w, Ready(w), NEW b \in Users, w.ok => w.status[b] = "active",
         NEW pool, NEW x, NEW op,
         w.ok => /\ pool \in Nat /\ x \in Nat /\ x <= pool /\ x <= entireDebt(w, b)
                 /\ entireDebt(w, b) > 0,
         NEW r, r = [w |-> emitLiquidated(closeLiquidated(w, b), b, op),
                     vals |-> LiquidationVals(entireDebt(w, b), entireColl(w, b), x)]
  PROVE  Taken(w, b, pool, r)
  <1> DEFINE d == entireDebt(w, b)
             c == entireColl(w, b)
             w1 == closeLiquidated(w, b)
             v == emitLiquidated(w1, b, op)
             t == LiquidationVals(d, c, x)
  <1>1. r.w = v /\ r.vals = t
    OBVIOUS
  <1>2. w.ok => d \in Nat /\ c \in Nat
    BY PendingTypes DEF Ready
  <1>3. /\ t.entireTroveDebt = d /\ t.entireTroveColl = c
        /\ t.THUSDGasCompensation = THUSD_GAS_COMPENSATION /\ t.collSurplus = 0
    BY DEF LiquidationVals
  <1>4. w.ok => SoundVals(t, pool)
    BY <1>2, ValsSound
  <1>5. /\ Ready(w1)
        /\ Leads(w, w1, d, c, 0, THUSD_GAS_COMPENSATION, 0, 0)
        /\ w1.status = [w.status EXCEPT ![b] = "closedByLiquidation"]
    BY LeadCloseLiquidated
  <1> HIDE DEF w1, d, c, t
  <1>6. Ready(v) /\ Leads(w1, v, 0, 0, 0, 0, 0, 0) /\ v.status = w1.status
    BY <1>5, LeadEmitLiquidated
  <1> HIDE DEF v
  <1>7. Leads(w, v, d, c, 0, THUSD_GAS_COMPENSATION, 0, 0)
    <2> SUFFICES ASSUME v.ok PROVE Leads(w, v, d, c, 0, THUSD_GAS_COMPENSATION, 0, 0)
      BY DEF Leads
    <2>1. w1.ok /\ w.ok
      BY <1>5, <1>6 DEF Leads
    <2>2. Sound(w)
      BY <2>1 DEF Ready
    <2> QED
      BY <1>5, <1>6, <2>1, <2>2, GapTypes DEF Leads
  <1>8. \A u \in Users \ {b} : v.status[u] = w.status[u]
    BY <1>5, <1>6
  <1>9. v.ok => SoundVals(t, pool)
    BY <1>4, <1>7 DEF Leads
  <1> QED
    BY <1>1, <1>3, <1>6, <1>7, <1>8, <1>9 DEF Taken

\* A capped liquidation leaves the surplus to its owner.
LEMMA CappedTaken ==
  ASSUME NEW w, Ready(w), NEW b \in Users, w.ok => w.status[b] = "active",
         NEW pool, NEW pr \in Nat \ {0}, NEW op, NEW cond, cond \in BOOLEAN,
         w.ok => /\ pool \in Nat /\ entireDebt(w, b) <= pool
                 /\ computeCR(entireColl(w, b), entireDebt(w, b), pr) >= MCR,
         NEW t, t = getCappedOffsetVals(entireDebt(w, b), entireColl(w, b), pr),
         NEW r, r = [w |-> emitLiquidated(
                             creditSurplus(Require(closeLiquidated(w, b), cond), b,
                                           t.collSurplus), b, op),
                     vals |-> t]
  PROVE  Taken(w, b, pool, r)
  <1> DEFINE d == entireDebt(w, b)
             c == entireColl(w, b)
             y == t.collSurplus
             w1 == closeLiquidated(w, b)
             w2 == Require(w1, cond)
             w3 == creditSurplus(w2, b, y)
             v == emitLiquidated(w3, b, op)
  <1>1. r.w = v /\ r.vals = t
    OBVIOUS
  <1>2. w.ok => d \in Nat /\ c \in Nat
    BY PendingTypes DEF Ready
  <1>3. /\ t.entireTroveDebt = d /\ t.entireTroveColl = c
        /\ t.THUSDGasCompensation = THUSD_GAS_COMPENSATION
    BY DEF getCappedOffsetVals
  <1>4. w.ok => SoundVals(t, pool)
    BY <1>2, CappedSound
  <1>5. w.ok => y \in Nat
    BY <1>4 DEF SoundVals
  <1>6. /\ Ready(w1)
        /\ Leads(w, w1, d, c, 0, THUSD_GAS_COMPENSATION, 0, 0)
        /\ w1.status = [w.status EXCEPT ![b] = "closedByLiquidation"]
    BY LeadCloseLiquidated
  <1> HIDE DEF w1, d, c, y
  <1>7. Ready(w2) /\ Leads(w1, w2, 0, 0, 0, 0, 0, 0) /\ Follows(w1, w2)
    BY <1>6, LeadRequire, PoolsFollow DEF Ready
  <1> HIDE DEF w2
  <1>8. w2.ok => y \in Nat /\ w1.ok /\ w.ok
    BY <1>5, <1>6, <1>7 DEF Leads
  <1>9. Ready(w3) /\ Leads(w2, w3, 0, 0, 0, 0, 0 - y, 0) /\ w3.status = w2.status
    <2>1. CASE y > 0
      <3>1. w3 = accountSurplus(w2, b, y)
        BY <2>1 DEF creditSurplus
      <3> HIDE DEF w3
      <3>2. Ready(w3) /\ Leads(w2, w3, 0, 0, 0, 0, -y, 0) /\ Follows(w2, w3)
        BY <1>7, <1>8, <3>1, LeadAccountSurplus, PoolsFollow DEF Ready
      <3>3. w3.ok => -y = 0 - y
        BY <1>8, <3>2 DEF Leads
      <3> QED
        BY <3>2, <3>3 DEF Follows, SameTroves, Leads
    <2>2. CASE ~(y > 0)
      <3>1. w3 = w2
        BY <2>2 DEF creditSurplus
      <3>2. Leads(w2, w2, 0, 0, 0, 0, 0, 0)
        BY <1>7, GapTypes DEF Leads, Ready
      <3>3. w2.ok => 0 - y = 0
        BY <1>8, <2>2
      <3> QED
        BY <1>7, <3>1, <3>2, <3>3 DEF Leads
    <2> QED
      BY <2>1, <2>2
  <1> HIDE DEF w3
  <1>10. Ready(v) /\ Leads(w3, v, 0, 0, 0, 0, 0, 0) /\ v.status = w3.status
    BY <1>9, LeadEmitLiquidated
  <1> HIDE DEF v
  <1>11. Leads(w, v, d, c, 0, THUSD_GAS_COMPENSATION, 0 - y, 0)
    <2> SUFFICES ASSUME v.ok PROVE Leads(w, v, d, c, 0, THUSD_GAS_COMPENSATION, 0 - y, 0)
      BY DEF Leads
    <2>1. w3.ok /\ w2.ok /\ w1.ok /\ w.ok /\ y \in Nat
      BY <1>8, <1>9, <1>10 DEF Leads
    <2>2. Sound(w)
      BY <2>1 DEF Ready
    <2> QED
      BY <1>6, <1>7, <1>9, <1>10, <2>1, <2>2, GapTypes DEF Leads
  <1>12. \A u \in Users \ {b} : v.status[u] = w.status[u]
    BY <1>6, <1>7, <1>9, <1>10 DEF Follows, SameTroves
  <1>13. v.ok => SoundVals(t, pool)
    BY <1>4, <1>11 DEF Leads
  <1> QED
    BY <1>1, <1>3, <1>10, <1>11, <1>12, <1>13 DEF Taken, y

\* A trove below MCR has debt.
LEMMA UnsafeOwes ==
  ASSUME NEW d \in Nat, NEW c, NEW pr, computeCR(c, d, pr) < MCR
  PROVE  d > 0
BY BaseAssumption DEF computeCR

\* _liquidateNormalMode, and _liquidateRecoveryMode below MCR.
LEMMA OffsetTaken ==
  ASSUME NEW w, Ready(w), NEW b \in Users, w.ok => w.status[b] = "active",
         NEW pool, NEW pr, NEW op, w.ok => pool \in Nat /\ getCurrentICR(w, b, pr) < MCR,
         NEW r, r = offsetAndRedistribute(w, b, pool, op)
  PROVE  Taken(w, b, pool, r)
  <1> DEFINE x == MinOf(entireDebt(w, b), pool)
  <1>1. r = [w |-> emitLiquidated(closeLiquidated(w, b), b, op),
             vals |-> LiquidationVals(entireDebt(w, b), entireColl(w, b), x)]
    BY DEF offsetAndRedistribute
  <1>2. w.ok => /\ pool \in Nat /\ x \in Nat /\ x <= pool /\ x <= entireDebt(w, b)
                /\ entireDebt(w, b) > 0
    <2> SUFFICES ASSUME w.ok
                 PROVE  /\ pool \in Nat /\ x \in Nat /\ x <= pool /\ x <= entireDebt(w, b)
                        /\ entireDebt(w, b) > 0
      OBVIOUS
    <2>1. entireDebt(w, b) \in Nat
      BY PendingTypes DEF Ready
    <2>2. entireDebt(w, b) > 0
      BY <2>1, UnsafeOwes DEF getCurrentICR
    <2> QED
      BY <2>1, <2>2 DEF MinOf
  <1> HIDE DEF x
  <1> QED
    BY <1>1, <1>2, SplitTaken

\* _liquidateRecoveryMode
LEMMA RecoveryTaken ==
  ASSUME NEW w, Ready(w), NEW b \in Users, w.ok => w.status[b] = "active",
         NEW pool, NEW pr \in Nat \ {0}, NEW tcr, w.ok => pool \in Nat,
         NEW r, r = liquidateRecoveryMode(w, b, getCurrentICR(w, b, pr), pool, tcr, pr)
  PROVE  Taken(w, b, pool, r)
  <1> DEFINE icr == getCurrentICR(w, b, pr)
             op == "liquidateInRecoveryMode"
             t == getCappedOffsetVals(entireDebt(w, b), entireColl(w, b), pr)
             cond == pool # 0
             none == [w |-> w, vals |-> ZeroVals]
             all == [w |-> emitLiquidated(closeLiquidated(w, b), b, op),
                     vals |-> LiquidationVals(entireDebt(w, b), entireColl(w, b), 0)]
             some == offsetAndRedistribute(w, b, pool, op)
             capped == [w |-> emitLiquidated(
                                creditSurplus(Require(closeLiquidated(w, b), cond), b,
                                              t.collSurplus), b, op),
                        vals |-> t]
  <1>1. \/ r = none
        \/ r = all /\ icr <= DECIMAL_PRECISION
        \/ r = some /\ icr < MCR
        \/ r = capped /\ icr >= MCR /\ entireDebt(w, b) <= pool
    <2> HIDE DEF icr, none, all, some, capped
    <2>1. r = CASE Len(w.sortedTroves) <= 1 -> none
                [] Len(w.sortedTroves) > 1 /\ icr <= DECIMAL_PRECISION -> all
                [] Len(w.sortedTroves) > 1 /\ icr > DECIMAL_PRECISION /\ icr < MCR -> some
                [] /\ Len(w.sortedTroves) > 1
                   /\ icr >= MCR /\ icr < tcr /\ entireDebt(w, b) <= pool -> capped
                [] OTHER -> none
      BY DEF liquidateRecoveryMode, icr, none, all, some, capped
    <2> QED
      BY <2>1, SMT
  <1>2. CASE r = none
    BY <1>2, NothingTaken
  <1>3. CASE r = all /\ icr <= DECIMAL_PRECISION
    <2>1. w.ok => /\ pool \in Nat /\ 0 \in Nat /\ 0 <= pool /\ 0 <= entireDebt(w, b)
                  /\ entireDebt(w, b) > 0
      <3> SUFFICES ASSUME w.ok PROVE pool \in Nat /\ entireDebt(w, b) \in Nat
                                     /\ entireDebt(w, b) > 0
        OBVIOUS
      <3>1. entireDebt(w, b) \in Nat /\ entireColl(w, b) \in Nat
        BY PendingTypes DEF Ready
      <3>2. entireColl(w, b) * pr \in Nat
        BY <3>1, MulNat
      <3>3. icr \in Nat
        BY <3>1, <3>2, DivNat, BaseAssumption DEF getCurrentICR, computeCR
      <3>4. icr < MCR
        BY <1>3, <3>3, BaseAssumption
      <3> QED
        BY <3>1, <3>4, UnsafeOwes DEF getCurrentICR
    <2> QED
      BY <1>3, <2>1, SplitTaken
  <1>4. CASE r = some /\ icr < MCR
    BY <1>4, OffsetTaken
  <1>5. CASE r = capped /\ icr >= MCR /\ entireDebt(w, b) <= pool
    <2>1. cond \in BOOLEAN
      OBVIOUS
    <2>2. w.ok => /\ pool \in Nat /\ entireDebt(w, b) <= pool
                  /\ computeCR(entireColl(w, b), entireDebt(w, b), pr) >= MCR
      BY <1>5 DEF getCurrentICR
    <2> HIDE DEF cond, t
    <2> QED
      BY <1>5, <2>1, <2>2, CappedTaken DEF t
  <1> QED
    BY <1>1, <1>2, <1>3, <1>4, <1>5

ValFields ==
  {"entireTroveDebt", "entireTroveColl", "collGasCompensation", "THUSDGasCompensation",
   "debtToOffset", "collToSendToSP", "debtToRedistribute", "collToRedistribute",
   "collSurplus"}

LoopFields ==
  {"w", "totals", "remainingTHUSDInStabPool", "entireSystemDebt", "entireSystemColl",
   "backToNormalMode", "stopped"}

\* A sequence of liquidations that began in w and has reached s: its totals are the sum of
\* what was taken, the rest of the pool is what is not yet offset, and the books of s.w
\* lack what was taken.
LoopSound(w, pool, s) ==
  /\ s = [k \in LoopFields |-> s[k]]
  /\ Ready(s.w)
  /\ DOMAIN s.totals = ValFields
  /\ s.w.ok => /\ SoundVals(s.totals, pool)
               /\ s.remainingTHUSDInStabPool = pool - s.totals.debtToOffset
  /\ Leads(w, s.w, s.totals.entireTroveDebt, s.totals.entireTroveColl, 0,
           s.totals.THUSDGasCompensation, 0 - s.totals.collSurplus, 0)

\* A sequence begins with nothing taken.
LEMMA LoopStarts ==
  ASSUME NEW w, Ready(w), NEW pool \in Nat, NEW pr, NEW s, s = SequenceStart(w, pool, pr)
  PROVE  LoopSound(w, pool, s) /\ s.w = w
  <1>1. /\ s = [k \in LoopFields |-> s[k]]
        /\ s.w = w /\ s.totals = ZeroVals /\ s.remainingTHUSDInStabPool = pool
    BY DEF SequenceStart, LoopFields
  <1>2. /\ ZeroVals.entireTroveDebt = 0 /\ ZeroVals.entireTroveColl = 0
        /\ ZeroVals.collGasCompensation = 0 /\ ZeroVals.THUSDGasCompensation = 0
        /\ ZeroVals.debtToOffset = 0 /\ ZeroVals.collToSendToSP = 0
        /\ ZeroVals.debtToRedistribute = 0 /\ ZeroVals.collToRedistribute = 0
        /\ ZeroVals.collSurplus = 0 /\ DOMAIN ZeroVals = ValFields
    BY DEF ZeroVals, ValFields
  <1>3. SoundVals(ZeroVals, pool)
    BY <1>2 DEF SoundVals
  <1>4. Leads(w, w, 0, 0, 0, 0, 0, 0)
    BY GapTypes DEF Leads, Ready
  <1> QED
    BY <1>1, <1>2, <1>3, <1>4 DEF LoopSound

\* The loop state v adds the liquidation r to s.
Added(s, r, v) ==
  /\ v = [k \in LoopFields |-> v[k]]
  /\ v.w = r.w
  /\ v.totals = addLiquidationValuesToTotals(s.totals, r.vals)
  /\ v.remainingTHUSDInStabPool = s.remainingTHUSDInStabPool - r.vals.debtToOffset

\* One liquidation more, _addLiquidationValuesToTotals.
LEMMA LoopAdds ==
  ASSUME NEW w, Ready(w), NEW pool \in Nat, NEW s, LoopSound(w, pool, s), NEW b, NEW r,
         Taken(s.w, b, s.remainingTHUSDInStabPool, r), NEW v, Added(s, r, v)
  PROVE  LoopSound(w, pool, v)
  <1> DEFINE t == s.totals
             x == r.vals
             y == v.totals
  <1>1. /\ DOMAIN t = ValFields /\ y = [f \in DOMAIN t |-> t[f] + x[f]]
    BY DEF LoopSound, Added, addLiquidationValuesToTotals
  <1>2. /\ DOMAIN y = ValFields
        /\ y.entireTroveDebt = t.entireTroveDebt + x.entireTroveDebt
        /\ y.entireTroveColl = t.entireTroveColl + x.entireTroveColl
        /\ y.collGasCompensation = t.collGasCompensation + x.collGasCompensation
        /\ y.THUSDGasCompensation = t.THUSDGasCompensation + x.THUSDGasCompensation
        /\ y.debtToOffset = t.debtToOffset + x.debtToOffset
        /\ y.collToSendToSP = t.collToSendToSP + x.collToSendToSP
        /\ y.debtToRedistribute = t.debtToRedistribute + x.debtToRedistribute
        /\ y.collToRedistribute = t.collToRedistribute + x.collToRedistribute
        /\ y.collSurplus = t.collSurplus + x.collSurplus
    BY <1>1 DEF ValFields
  <1>3. /\ v = [k \in LoopFields |-> v[k]] /\ v.w = r.w /\ Ready(v.w)
        /\ v.remainingTHUSDInStabPool = s.remainingTHUSDInStabPool - x.debtToOffset
        /\ (v.w.ok => SoundVals(x, s.remainingTHUSDInStabPool))
        /\ Leads(s.w, v.w, x.entireTroveDebt, x.entireTroveColl, 0,
                 x.THUSDGasCompensation, 0 - x.collSurplus, 0)
    BY DEF Added, Taken
  <1>4. /\ (s.w.ok => SoundVals(t, pool) /\ s.remainingTHUSDInStabPool = pool - t.debtToOffset)
        /\ Leads(w, s.w, t.entireTroveDebt, t.entireTroveColl, 0,
                 t.THUSDGasCompensation, 0 - t.collSurplus, 0)
    BY DEF LoopSound
  <1> HIDE DEF t, x, y
  <1>5. ASSUME v.w.ok
        PROVE  /\ SoundVals(y, pool)
               /\ v.remainingTHUSDInStabPool = pool - y.debtToOffset
               /\ Leads(w, v.w, y.entireTroveDebt, y.entireTroveColl, 0,
                        y.THUSDGasCompensation, 0 - y.collSurplus, 0)
    <2>1. s.w.ok /\ w.ok
      BY <1>3, <1>4, <1>5 DEF Leads
    <2>2. /\ SoundVals(x, s.remainingTHUSDInStabPool) /\ SoundVals(t, pool)
          /\ s.remainingTHUSDInStabPool = pool - t.debtToOffset /\ Sound(w)
      BY <1>3, <1>4, <1>5, <2>1 DEF Ready
    <2>3. SoundVals(y, pool)
      <3>1. /\ t.entireTroveDebt \in Nat /\ t.entireTroveColl \in Nat
            /\ t.collGasCompensation \in Nat /\ t.THUSDGasCompensation \in Nat
            /\ t.debtToOffset \in Nat /\ t.collToSendToSP \in Nat
            /\ t.debtToRedistribute \in Nat /\ t.collToRedistribute \in Nat
            /\ t.collSurplus \in Nat
        BY <2>2 DEF SoundVals
      <3>2. /\ x.entireTroveDebt \in Nat /\ x.entireTroveColl \in Nat
            /\ x.collGasCompensation \in Nat /\ x.THUSDGasCompensation \in Nat
            /\ x.debtToOffset \in Nat /\ x.collToSendToSP \in Nat
            /\ x.debtToRedistribute \in Nat /\ x.collToRedistribute \in Nat
            /\ x.collSurplus \in Nat
        BY <2>2 DEF SoundVals
      <3>3. /\ y.entireTroveDebt \in Nat /\ y.entireTroveColl \in Nat
            /\ y.collGasCompensation \in Nat /\ y.THUSDGasCompensation \in Nat
            /\ y.debtToOffset \in Nat /\ y.collToSendToSP \in Nat
            /\ y.debtToRedistribute \in Nat /\ y.collToRedistribute \in Nat
            /\ y.collSurplus \in Nat
        BY <1>2, <3>1, <3>2
      <3>4. y.debtToOffset + y.debtToRedistribute = y.entireTroveDebt
        BY <1>2, <2>2, <3>1, <3>2 DEF SoundVals
      <3>5. y.collGasCompensation + y.collToSendToSP + y.collToRedistribute + y.collSurplus
              = y.entireTroveColl
        BY <1>2, <2>2, <3>1, <3>2 DEF SoundVals
      <3>6. y.debtToOffset <= pool
        BY <1>2, <2>2, <3>1, <3>2 DEF SoundVals
      <3>7. /\ y.debtToRedistribute = 0 => y.collToRedistribute = 0
            /\ y.debtToOffset = 0 => y.collToSendToSP = 0
        BY <1>2, <2>2, <3>1, <3>2 DEF SoundVals
      <3> QED
        BY <3>3, <3>4, <3>5, <3>6, <3>7 DEF SoundVals
    <2>4. v.remainingTHUSDInStabPool = pool - y.debtToOffset
      BY <1>2, <1>3, <2>2 DEF SoundVals
    <2>5. /\ DebtGap(w) \in Int /\ CollGap(w) \in Int /\ SupplyGap(w) \in Int
          /\ ReserveGap(w) \in Int /\ SurplusGap(w) \in Int /\ Pooled(w) \in Int
      BY <2>2, GapTypes
    <2>6. Leads(w, v.w, y.entireTroveDebt, y.entireTroveColl, 0,
                y.THUSDGasCompensation, 0 - y.collSurplus, 0)
      BY <1>2, <1>3, <1>4, <1>5, <2>1, <2>2, <2>5 DEF Leads, SoundVals
    <2> QED
      BY <2>3, <2>4, <2>6
  <1>6. Leads(w, v.w, y.entireTroveDebt, y.entireTroveColl, 0,
              y.THUSDGasCompensation, 0 - y.collSurplus, 0)
    BY <1>5 DEF Leads
  <1> QED
    BY <1>2, <1>3, <1>5, <1>6 DEF LoopSound, y

\* One iteration of a loop.
LEMMA LoopSteps ==
  ASSUME NEW w, Ready(w), NEW pool \in Nat, NEW s, LoopSound(w, pool, s), NEW b \in Users,
         s.w.ok => s.w.status[b] = "active", NEW pr \in Nat \ {0}, NEW stop,
         NEW v, v = sequenceStep(s, b, pr, stop)
  PROVE  /\ LoopSound(w, pool, v) /\ (v.w.ok => s.w.ok)
         /\ \A u \in Users \ {b} : v.w.status[u] = s.w.status[u]
  <1> DEFINE icr == getCurrentICR(s.w, b, pr)
             rem == s.remainingTHUSDInStabPool
             nv == normalModeStep(s, b)
             rv == recoveryModeStep(s, b, pr)
             sv == [s EXCEPT !.stopped = stop]
  <1>1. v = s \/ (v = nv /\ icr < MCR) \/ v = rv \/ v = sv
    <2> HIDE DEF icr, nv, rv, sv
    <2>1. v = CASE s.stopped -> s
                [] ~s.stopped /\ s.backToNormalMode /\ icr < MCR -> nv
                [] /\ ~s.stopped /\ ~s.backToNormalMode
                   /\ ~(icr >= MCR /\ s.remainingTHUSDInStabPool = 0) -> rv
                [] OTHER -> sv
      BY DEF sequenceStep, icr, nv, rv, sv
    <2> QED
      BY <2>1, SMT
  <1>2. /\ Ready(s.w) /\ s = [k \in LoopFields |-> s[k]]
        /\ (s.w.ok => rem \in Nat)
    BY DEF LoopSound, SoundVals
  <1>3. CASE v = s
    BY <1>3
  <1>4. CASE v = nv /\ icr < MCR
    <2> DEFINE r == offsetAndRedistribute(s.w, b, rem, "liquidateInNormalMode")
    <2>1. Taken(s.w, b, rem, r)
      BY <1>2, <1>4, OffsetTaken
    <2>2. Added(s, r, v)
      <3>1. v = [s EXCEPT !.w = r.w,
                          !.totals = addLiquidationValuesToTotals(@, r.vals),
                          !.remainingTHUSDInStabPool = @ - r.vals.debtToOffset]
        BY <1>4 DEF normalModeStep, liquidateNormalMode
      <3> HIDE DEF r
      <3> QED
        BY <1>2, <3>1 DEF Added, LoopFields
    <2> HIDE DEF r
    <2>3. LoopSound(w, pool, v)
      BY <2>1, <2>2, LoopAdds
    <2> QED
      BY <2>1, <2>2, <2>3 DEF Taken, Added, Leads
  <1>5. CASE v = rv
    <2> DEFINE tcr == computeCR(s.entireSystemColl, s.entireSystemDebt, pr)
               r == liquidateRecoveryMode(s.w, b, getCurrentICR(s.w, b, pr), rem, tcr, pr)
    <2>1. Taken(s.w, b, rem, r)
      BY <1>2, RecoveryTaken
    <2>2. Added(s, r, v)
      <3>1. v = addRecoveryModeLiquidation(s, r, pr)
        BY <1>5 DEF recoveryModeStep
      <3> HIDE DEF r
      <3> QED
        BY <1>2, <3>1 DEF Added, LoopFields, addRecoveryModeLiquidation
    <2> HIDE DEF r
    <2>3. LoopSound(w, pool, v)
      BY <2>1, <2>2, LoopAdds
    <2> QED
      BY <2>1, <2>2, <2>3 DEF Taken, Added, Leads
  <1>6. CASE v = sv
    <2>1. /\ v = [k \in LoopFields |-> v[k]] /\ v.w = s.w /\ v.totals = s.totals
          /\ v.remainingTHUSDInStabPool = s.remainingTHUSDInStabPool
      BY <1>2, <1>6 DEF LoopFields
    <2> QED
      BY <2>1 DEF LoopSound
  <1> QED
    BY <1>1, <1>3, <1>4, <1>5, <1>6

\* The trove of u, and what its owner may claim, are in v as in w.
Untouched(w, v, u) ==
  /\ SameTrove(w, v, u)
  /\ v.collSurplusPool.balances[u] = w.collSurplusPool.balances[u]

\* The sums of the redistributions and the mint list are in v as in w.
SameTerms(w, v) ==
  /\ v.L_Collateral = w.L_Collateral /\ v.L_THUSDDebt = w.L_THUSDDebt
  /\ v.mintList = w.mintList

\* What leads from w to v liquidates b, leaves y to its owner, touches no other trove, and
\* has one to leave while BorrowerOperations may mint, unless it reverts.
Seizes(w, v, b, y) ==
  v.ok => /\ w.ok /\ SameTerms(w, v)
          /\ \A u \in Users \ {b} : Untouched(w, v, u)
          /\ v.status[b] = "closedByLiquidation"
          /\ v.collSurplusPool.balances[b] = w.collSurplusPool.balances[b] + y
          /\ w.mintList => Others(w, b)

\* Moving rewards leaves the CollSurplusPool alone.
LEMMA RewardsKeepSurplus ==
  ASSUME NEW w, IsState(w), NEW a, NEW c, NEW v,
         v = movePendingTroveRewardsToActivePool(w, a, c)
  PROVE  v.collSurplusPool = w.collSurplusPool
  <1> DEFINE w1 == defaultPoolDecreaseTHUSDDebt(w, a)
             w2 == activePoolIncreaseTHUSDDebt(w1, a)
  <1>1. v = defaultPoolSendCollateralToActivePool(w2, c)
    BY DEF movePendingTroveRewardsToActivePool
  <1>2. IsState(w1) /\ w1.collSurplusPool = w.collSurplusPool
    <2>1. Follows(w, w1)
      BY PoolsFollow
    <2>2. w1.collSurplusPool = w.collSurplusPool
      BY DEF IsState, StateFields, defaultPoolDecreaseTHUSDDebt, Require
    <2> QED
      BY <2>1, <2>2 DEF Follows
  <1> HIDE DEF w1
  <1>3. IsState(w2) /\ w2.collSurplusPool = w1.collSurplusPool
    BY <1>2, PoolsFollow DEF Follows, IsState, StateFields, activePoolIncreaseTHUSDDebt
  <1> HIDE DEF w2
  <1>4. v.collSurplusPool = w2.collSurplusPool
    BY <1>1, <1>3 DEF IsState, StateFields, defaultPoolSendCollateralToActivePool,
                      activePoolReceive, Require
  <1> QED
    BY <1>2, <1>3, <1>4

\* Closing a trove leaves its owner nothing yet.
LEMMA CloseSeizes ==
  ASSUME NEW w, Ready(w), NEW b \in Users, w.ok => w.status[b] = "active",
         NEW v, v = closeLiquidated(w, b)
  PROVE  Seizes(w, v, b, 0) /\ Ready(v)
  <1> DEFINE a == getPendingTHUSDDebtReward(w, b)
             c == getPendingCollateralReward(w, b)
             w1 == movePendingTroveRewardsToActivePool(w, a, c)
             st == "closedByLiquidation"
  <1>1. v = closeTrove(removeStake(w1, b), b, st)
    BY DEF closeLiquidated
  <1>2. w.ok => a \in Nat /\ c \in Nat
    BY PendingTypes DEF Ready
  <1> HIDE DEF a, c
  <1>3. Ready(w1) /\ Follows(w, w1) /\ w1.collSurplusPool = w.collSurplusPool
    BY <1>2, LeadRewards, RewardsKeepSurplus DEF Ready
  <1> HIDE DEF w1
  <1>4. w1.ok => w1.status[b] = "active"
    BY <1>3 DEF Follows, SameTroves
  <1>5. st \in Statuses \ {"active"}
    BY DEF Statuses
  <1> HIDE DEF st
  <1>6. Rewrites(w1, v, b, st, 0)
    <2>1. Rewrites(w1, closeTrove(removeStake(w1, b), b, st), b, st, 0)
      BY <1>3, <1>4, <1>5, LeadClose
    <2> QED
      BY <1>1, <2>1
  <1>a. v.ok /\ w1.mintList => Others(w1, b)
    <2>1. closeTrove(removeStake(w1, b), b, st).ok /\ w1.mintList => Others(w1, b)
      BY <1>3, <1>4, <1>5, LeadClose
    <2> QED
      BY <1>1, <2>1
  <1>7. Ready(v)
    BY LeadCloseLiquidated
  <1> SUFFICES ASSUME v.ok PROVE Seizes(w, v, b, 0)
    BY <1>7 DEF Seizes
  <1>8. /\ w1.ok /\ SamePools(w1, v) /\ SameSums(w1, v) /\ v.status[b] = st
        /\ \A u \in Users \ {b} : SameTrove(w1, v, u)
    BY <1>6 DEF Rewrites
  <1>9. w.ok /\ SameTerms(w, v)
    BY <1>3, <1>8 DEF Follows, SameTroves, SameSums, SameTerms
  <1>10. v.collSurplusPool = w.collSurplusPool
    BY <1>3, <1>8 DEF SamePools
  <1>11. w.collSurplusPool.balances[b] \in Nat
    BY <1>9 DEF Ready, Sound, PoolTypes
  <1>12. \A u \in Users \ {b} : Untouched(w, v, u)
    BY <1>3, <1>8, <1>10 DEF Untouched, SameTrove, Follows, SameTroves
  <1>13. w.mintList => Others(w, b)
    BY <1>3, <1>a DEF Others, Follows, SameTroves
  <1> QED
    BY <1>8, <1>9, <1>10, <1>11, <1>12, <1>13 DEF Seizes, st

\* The events of a liquidation leave troves and claims alone.
LEMMA EmitSeizes ==
  ASSUME NEW w, NEW x, Ready(x), NEW b, NEW y, Seizes(w, x, b, y), NEW op,
         NEW v, v = emitLiquidated(x, b, op)
  PROVE  Seizes(w, v, b, y)
  <1> DEFINE e == [event |-> "TroveLiquidated", user |-> b, operation |-> op]
             x1 == Emit(x, e)
             f == TroveUpdated(x1, b, op)
  <1>1. v = Emit(x1, f)
    BY DEF emitLiquidated, emitTroveUpdated
  <1> HIDE DEF e
  <1>2. Follows(x, x1) /\ x1.collSurplusPool = x.collSurplusPool
    BY PoolsFollow DEF Ready, Emit, IsState, StateFields
  <1> HIDE DEF x1, f
  <1>3. Follows(x1, v) /\ v.collSurplusPool = x1.collSurplusPool
    <2>1. Follows(x1, v)
      BY <1>1, <1>2, PoolsFollow DEF Follows
    <2>2. IsState(x1)
      BY <1>2 DEF Follows
    <2> QED
      BY <1>1, <2>1, <2>2 DEF Emit, IsState, StateFields
  <1> SUFFICES ASSUME v.ok PROVE Seizes(w, v, b, y)
    BY DEF Seizes
  <1>4. x.ok
    BY <1>2, <1>3 DEF Follows
  <1>5. /\ w.ok /\ SameTerms(w, x) /\ \A u \in Users \ {b} : Untouched(w, x, u)
        /\ x.status[b] = "closedByLiquidation"
        /\ x.collSurplusPool.balances[b] = w.collSurplusPool.balances[b] + y
        /\ w.mintList => Others(w, b)
    BY <1>4 DEF Seizes
  <1>6. SameTroves(x, v) /\ v.collSurplusPool = x.collSurplusPool
    BY <1>2, <1>3 DEF Follows, SameTroves
  <1>7. \A u \in Users \ {b} : Untouched(w, v, u)
    BY <1>5, <1>6 DEF Untouched, SameTrove, SameTroves
  <1>8. SameTerms(w, v) /\ v.status[b] = x.status[b]
    BY <1>5, <1>6 DEF SameTerms, SameTroves
  <1> QED
    BY <1>5, <1>6, <1>7, <1>8 DEF Seizes

\* The surplus of a capped liquidation, nothing included.
LEMMA CreditSeizes ==
  ASSUME NEW w, NEW x, Ready(x), NEW b \in Users, Seizes(w, x, b, 0), NEW y,
         x.ok => y \in Nat /\ w.collSurplusPool.balances[b] \in Nat,
         NEW v, v = creditSurplus(x, b, y)
  PROVE  Seizes(w, v, b, y) /\ Ready(v)
  <1>1. CASE y > 0
    <2> DEFINE n == x.collSurplusPool.balances[b] + y
               e == CollBalanceUpdated(b, n)
    <2>1. v = accountSurplus(x, b, y)
      BY <1>1 DEF creditSurplus
    <2>2. Ready(v) /\ Follows(x, v)
      BY <2>1, LeadAccountSurplus, PoolsFollow DEF Ready
    <2> HIDE DEF n, e
    <2>3. v = Emit([x EXCEPT !.collSurplusPool.balances[b] = n], e)
      BY <2>1 DEF accountSurplus, n, e
    <2>4. v.collSurplusPool = [x.collSurplusPool EXCEPT !.balances[b] = n]
      BY <2>3 DEF Ready, Emit, IsState, StateFields
    <2> SUFFICES ASSUME v.ok PROVE Seizes(w, v, b, y)
      BY <2>2 DEF Seizes
    <2>5. x.ok
      BY <2>2 DEF Follows
    <2>6. /\ w.ok /\ SameTerms(w, x) /\ \A u \in Users \ {b} : Untouched(w, x, u)
          /\ x.status[b] = "closedByLiquidation"
          /\ x.collSurplusPool.balances[b] = w.collSurplusPool.balances[b] + 0
          /\ w.mintList => Others(w, b)
      BY <2>5 DEF Seizes
    <2>7. x.collSurplusPool \in [collateral : Nat, balances : [Users -> Nat]]
      BY <2>5 DEF Ready, Sound, PoolTypes
    <2>8. \A u \in Users : v.collSurplusPool.balances[u]
                             = IF u = b THEN n ELSE x.collSurplusPool.balances[u]
      BY <2>4, <2>7
    <2>9. n = w.collSurplusPool.balances[b] + y
      BY <2>5, <2>6 DEF n
    <2>10. \A u \in Users \ {b} : Untouched(w, v, u)
      BY <2>2, <2>6, <2>8 DEF Untouched, SameTrove, Follows, SameTroves
    <2>11. SameTerms(w, v) /\ v.status[b] = x.status[b]
      BY <2>2, <2>6 DEF SameTerms, Follows, SameTroves
    <2> QED
      BY <2>6, <2>8, <2>9, <2>10, <2>11 DEF Seizes
  <1>2. CASE ~(y > 0)
    <2>1. v = x
      BY <1>2 DEF creditSurplus
    <2>2. x.ok => y = 0
      BY <1>2
    <2> QED
      BY <2>1, <2>2 DEF Seizes
  <1> QED
    BY <1>1, <1>2

\* The ratio of b allows its liquidation: below MCR, or below top when y, which its owner
\* keeps, is what is above MCR.
MayTake(w, b, pr, top, y) ==
  /\ getCurrentICR(w, b, pr) < MCR \/ getCurrentICR(w, b, pr) < top
  /\ getCurrentICR(w, b, pr) >= MCR =>
       (entireColl(w, b) - y) * pr <= MCR * entireDebt(w, b)

\* The liquidation r of b takes nothing, or the trove of b where its ratio allows it: below
\* MCR, or below top.
FairTake(w, b, pr, top, r) ==
  \/ r.w = w /\ r.vals.entireTroveDebt = 0
  \/ \E y : Seizes(w, r.w, b, y) /\ (w.ok => y \in Nat /\ MayTake(w, b, pr, top, y))

\* Below MCR everything may be taken.
LEMMA SplitFair ==
  ASSUME NEW w, Ready(w), NEW b \in Users, w.ok => w.status[b] = "active",
         NEW pr, NEW top, NEW op, NEW r,
         w.ok => getCurrentICR(w, b, pr) < MCR /\ getCurrentICR(w, b, pr) \in Int,
         r.w = emitLiquidated(closeLiquidated(w, b), b, op)
  PROVE  FairTake(w, b, pr, top, r)
  <1> DEFINE w1 == closeLiquidated(w, b)
             v == emitLiquidated(w1, b, op)
  <1>1. Seizes(w, w1, b, 0) /\ Ready(w1)
    BY CloseSeizes
  <1> HIDE DEF w1
  <1>2. Seizes(w, v, b, 0)
    BY <1>1, EmitSeizes
  <1>3. r.w = v
    BY DEF w1
  <1> HIDE DEF v
  <1>4. w.ok => MayTake(w, b, pr, top, 0)
    BY BaseAssumption DEF MayTake
  <1>5. 0 \in Nat
    OBVIOUS
  <1> QED
    BY <1>2, <1>3, <1>4, <1>5 DEF FairTake

\* What _getCappedOffsetVals leaves to the borrower.
LEMMA CappedKeeps ==
  ASSUME NEW d \in Nat, NEW c \in Nat, NEW pr \in Nat \ {0}
  PROVE  (c - getCappedOffsetVals(d, c, pr).collSurplus) * pr <= MCR * d
  <1> DEFINE p == (d * MCR) \div pr
  <1>1. getCappedOffsetVals(d, c, pr).collSurplus = c - p
    BY DEF getCappedOffsetVals
  <1>2. MCR \in Nat /\ d * MCR \in Nat
    BY MulNat, BaseAssumption
  <1>3. p \in Nat /\ p * pr <= d * MCR
    BY <1>2, DivNat, DivBounds
  <1> HIDE DEF p
  <1>4. c - (c - p) = p /\ d * MCR = MCR * d
    BY <1>2, <1>3
  <1> QED
    BY <1>1, <1>3, <1>4

\* The ratio of a trove is an amount.
LEMMA RatioType ==
  ASSUME NEW c \in Int, NEW d \in Int, NEW pr \in Nat \ {0}
  PROVE  computeCR(c, d, pr) \in Int
  <1>1. c * pr \in Int
    OBVIOUS
  <1> DEFINE x == c * pr
  <1>2. d > 0 => x \div d \in Int
    <2> HIDE DEF x
    <2> QED
      BY <1>1 DEF x
  <1> QED
    BY <1>2, BaseAssumption DEF computeCR

\* The ratio of an open trove.
LEMMA TroveRatio ==
  ASSUME NEW w, Ready(w), w.ok, NEW b \in Users, NEW pr \in Nat \ {0}
  PROVE  getCurrentICR(w, b, pr) \in Int
  <1>1. entireDebt(w, b) \in Int /\ entireColl(w, b) \in Int
    <2>1. entireDebt(w, b) \in Nat /\ entireColl(w, b) \in Nat
      BY PendingTypes DEF Ready
    <2> QED
      BY <2>1
  <1> QED
    BY <1>1, RatioType DEF getCurrentICR

\* _liquidateRecoveryMode takes troves below MCR, and others below the ratio of the system
\* only against what their borrowers keep.
LEMMA RecoveryFair ==
  ASSUME NEW w, Ready(w), NEW b \in Users, w.ok => w.status[b] = "active",
         NEW pool, NEW pr \in Nat \ {0}, NEW tcr, w.ok => pool \in Nat,
         NEW r, r = liquidateRecoveryMode(w, b, getCurrentICR(w, b, pr), pool, tcr, pr)
  PROVE  FairTake(w, b, pr, tcr, r)
  <1> DEFINE icr == getCurrentICR(w, b, pr)
             op == "liquidateInRecoveryMode"
             t == getCappedOffsetVals(entireDebt(w, b), entireColl(w, b), pr)
             cond == pool # 0
             none == [w |-> w, vals |-> ZeroVals]
             all == [w |-> emitLiquidated(closeLiquidated(w, b), b, op),
                     vals |-> LiquidationVals(entireDebt(w, b), entireColl(w, b), 0)]
             some == offsetAndRedistribute(w, b, pool, op)
             capped == [w |-> emitLiquidated(
                                creditSurplus(Require(closeLiquidated(w, b), cond), b,
                                              t.collSurplus), b, op),
                        vals |-> t]
  <1>1. \/ r = none
        \/ r = all /\ icr <= DECIMAL_PRECISION
        \/ r = some /\ icr < MCR
        \/ r = capped /\ icr >= MCR /\ icr < tcr /\ entireDebt(w, b) <= pool
    <2> HIDE DEF icr, none, all, some, capped
    <2>1. r = CASE Len(w.sortedTroves) <= 1 -> none
                [] Len(w.sortedTroves) > 1 /\ icr <= DECIMAL_PRECISION -> all
                [] Len(w.sortedTroves) > 1 /\ icr > DECIMAL_PRECISION /\ icr < MCR -> some
                [] /\ Len(w.sortedTroves) > 1
                   /\ icr >= MCR /\ icr < tcr /\ entireDebt(w, b) <= pool -> capped
                [] OTHER -> none
      BY DEF liquidateRecoveryMode, icr, none, all, some, capped
    <2> QED
      BY <2>1, SMT
  <1>2. w.ok => icr \in Int
    BY TroveRatio
  <1>3. CASE r = none
    BY <1>3 DEF FairTake, ZeroVals
  <1>4. CASE r = all /\ icr <= DECIMAL_PRECISION
    <2>1. w.ok => icr < MCR
      BY <1>2, <1>4, BaseAssumption
    <2>2. r.w = emitLiquidated(closeLiquidated(w, b), b, op)
      BY <1>4
    <2> QED
      BY <1>2, <2>1, <2>2, SplitFair
  <1>5. CASE r = some /\ icr < MCR
    <2>1. r.w = emitLiquidated(closeLiquidated(w, b), b, op)
      BY <1>5 DEF offsetAndRedistribute
    <2> QED
      BY <1>2, <1>5, <2>1, SplitFair
  <1>6. CASE r = capped /\ icr >= MCR /\ icr < tcr /\ entireDebt(w, b) <= pool
    <2> DEFINE y == t.collSurplus
               w1 == closeLiquidated(w, b)
               w2 == Require(w1, cond)
               w3 == creditSurplus(w2, b, y)
               v == emitLiquidated(w3, b, op)
    <2>1. r.w = v /\ cond \in BOOLEAN
      BY <1>6
    <2>2. w.ok => /\ entireDebt(w, b) \in Nat /\ entireColl(w, b) \in Nat
                  /\ w.collSurplusPool.balances[b] \in Nat
      BY PendingTypes DEF Ready, Sound, PoolTypes
    <2>3. w.ok => y \in Nat
      <3> SUFFICES ASSUME w.ok PROVE y \in Nat
        OBVIOUS
      <3>1. computeCR(entireColl(w, b), entireDebt(w, b), pr) >= MCR
        BY <1>6 DEF getCurrentICR
      <3>2. SoundVals(t, pool)
        BY <1>6, <2>2, <3>1, CappedSound
      <3> QED
        BY <3>2 DEF SoundVals
    <2>4. w.ok => (entireColl(w, b) - y) * pr <= MCR * entireDebt(w, b)
      BY <2>2, CappedKeeps
    <2>5. w.ok => MayTake(w, b, pr, tcr, y)
      BY <1>6, <2>4 DEF MayTake
    <2>6. Seizes(w, w1, b, 0) /\ Ready(w1)
      BY CloseSeizes
    <2> HIDE DEF w1, y, cond
    <2>7. Ready(w2) /\ Follows(w1, w2) /\ w2.collSurplusPool = w1.collSurplusPool
      <3>1. Ready(w2) /\ Follows(w1, w2)
        BY <2>1, <2>6, LeadRequire, PoolsFollow DEF Ready
      <3>2. w2.collSurplusPool = w1.collSurplusPool
        BY <2>6 DEF Ready, Require, IsState, StateFields
      <3> QED
        BY <3>1, <3>2
    <2> HIDE DEF w2
    <2>8. Seizes(w, w2, b, 0)
      BY <2>6, <2>7 DEF Seizes, Follows, SameTroves, SameTerms, Untouched, SameTrove
    <2>9. w2.ok => y \in Nat /\ w.collSurplusPool.balances[b] \in Nat
      BY <2>2, <2>3, <2>8 DEF Seizes
    <2>10. Seizes(w, w3, b, y) /\ Ready(w3)
      BY <2>7, <2>8, <2>9, CreditSeizes
    <2> HIDE DEF w3
    <2>11. Seizes(w, v, b, y)
      BY <2>10, EmitSeizes
    <2> HIDE DEF v
    <2> QED
      BY <2>1, <2>3, <2>5, <2>11 DEF FairTake
  <1> QED
    BY <1>1, <1>3, <1>4, <1>5, <1>6

\* The trove of u was open in w, was liquidated on the way to v, and its ratio in w, at the
\* price pr, was below MCR, or below CCR in Recovery Mode; its owner keeps in the second
\* case what is above MCR.
FairlyTaken(w, v, pr, u) ==
  /\ w.status[u] = "active" /\ v.status[u] = "closedByLiquidation"
  /\ \/ getCurrentICR(w, u, pr) < MCR
     \/ checkRecoveryMode(w, pr) /\ getCurrentICR(w, u, pr) < CCR
  /\ getCurrentICR(w, u, pr) >= MCR =>
       (entireColl(w, u) - (v.collSurplusPool.balances[u] - w.collSurplusPool.balances[u])) * pr
         <= MCR * entireDebt(w, u)

\* The ratio of the system that a sequence at s goes by.
LoopTCR(s, pr) == computeCR(s.entireSystemColl, s.entireSystemDebt, pr)

\* A sequence of liquidations that began in w and has reached s has touched no trove but
\* those it took fairly, has left one while BorrowerOperations may mint, goes on in Recovery
\* Mode only below CCR, and has taken a trove if it has taken debt.
LoopFair(w, pr, s) ==
  s.w.ok =>
    /\ w.ok /\ SameTerms(w, s.w)
    /\ s.entireSystemColl \in Int /\ s.entireSystemDebt \in Int
    /\ ~s.backToNormalMode => checkRecoveryMode(w, pr) /\ ~(LoopTCR(s, pr) >= CCR)
    /\ \A u \in Users : Untouched(w, s.w, u) \/ FairlyTaken(w, s.w, pr, u)
    /\ w.mintList /\ Peopled(w) => Peopled(s.w)
    /\ s.totals.entireTroveDebt # 0 => \E u \in Users : FairlyTaken(w, s.w, pr, u)

\* A sequence begins with the mode of the system.
LEMMA FairStarts ==
  ASSUME NEW w, Ready(w), NEW pool, NEW pr \in Nat \ {0}, NEW s, s = SequenceStart(w, pool, pr)
  PROVE  LoopFair(w, pr, s)
  <1>1. /\ s.w = w /\ s.totals = ZeroVals /\ ZeroVals.entireTroveDebt = 0
        /\ s.entireSystemDebt = getEntireSystemDebt(w)
        /\ s.entireSystemColl = getEntireSystemColl(w)
        /\ s.backToNormalMode = ~checkRecoveryMode(w, pr)
    BY DEF SequenceStart, ZeroVals
  <1> SUFFICES ASSUME w.ok PROVE LoopFair(w, pr, s)
    BY <1>1 DEF LoopFair
  <1>2. getEntireSystemDebt(w) \in Int /\ getEntireSystemColl(w) \in Int
    BY SystemTotals
  <1>3. LoopTCR(s, pr) = getTCR(w, pr) /\ getTCR(w, pr) \in Int
    BY <1>1, <1>2, RatioType DEF LoopTCR, getTCR
  <1>4. ~s.backToNormalMode => checkRecoveryMode(w, pr) /\ ~(LoopTCR(s, pr) >= CCR)
    <2>1. ~s.backToNormalMode => checkRecoveryMode(w, pr)
      BY <1>1, Zenon
    <2>2. checkRecoveryMode(w, pr) => ~(LoopTCR(s, pr) >= CCR)
      BY <1>3, BaseAssumption DEF checkRecoveryMode
    <2> QED
      BY <2>1, <2>2
  <1>5. SameTerms(w, w) /\ \A u \in Users : Untouched(w, w, u)
    BY DEF SameTerms, Untouched, SameTrove
  <1> QED
    BY <1>1, <1>2, <1>4, <1>5 DEF LoopFair

\* A trove that has not been touched has the ratio it had.
LEMMA UntouchedRatio ==
  ASSUME NEW w, NEW v, SameTerms(w, v), NEW u, Untouched(w, v, u), NEW pr
  PROVE  /\ entireDebt(v, u) = entireDebt(w, u) /\ entireColl(v, u) = entireColl(w, u)
         /\ getCurrentICR(v, u, pr) = getCurrentICR(w, u, pr)
  <1>1. entireDebt(v, u) = entireDebt(w, u)
    BY DEF SameTerms, Untouched, SameTrove, entireDebt, getPendingTHUSDDebtReward
  <1>2. entireColl(v, u) = entireColl(w, u)
    BY DEF SameTerms, Untouched, SameTrove, entireColl, getPendingCollateralReward
  <1> QED
    BY <1>1, <1>2 DEF getCurrentICR

\* One fair liquidation more.
LEMMA FairAdds ==
  ASSUME NEW w, Ready(w), NEW pr \in Nat \ {0}, NEW s, LoopFair(w, pr, s), NEW b \in Users,
         s.w.ok => s.w.status[b] = "active", Ready(s.w),
         NEW top, s.w.ok => \/ top = MCR
                            \/ top \in Int /\ top < CCR /\ checkRecoveryMode(w, pr),
         NEW r, FairTake(s.w, b, pr, top, r), r.w.ok
  PROVE  /\ w.ok /\ SameTerms(w, r.w)
         /\ \A u \in Users : Untouched(w, r.w, u) \/ FairlyTaken(w, r.w, pr, u)
         /\ w.mintList /\ Peopled(w) => Peopled(r.w)
         /\ (s.totals.entireTroveDebt # 0 \/ r.vals.entireTroveDebt # 0) =>
              \E u \in Users : FairlyTaken(w, r.w, pr, u)
  <1>1. CASE r.w = s.w /\ r.vals.entireTroveDebt = 0
    BY <1>1 DEF LoopFair
  <1>2. ASSUME NEW y, Seizes(s.w, r.w, b, y),
               s.w.ok => y \in Nat /\ MayTake(s.w, b, pr, top, y)
        PROVE  /\ w.ok /\ SameTerms(w, r.w)
               /\ \A u \in Users : Untouched(w, r.w, u) \/ FairlyTaken(w, r.w, pr, u)
               /\ FairlyTaken(w, r.w, pr, b)
               /\ w.mintList => Peopled(r.w)
    <2>1. /\ s.w.ok /\ SameTerms(s.w, r.w)
          /\ \A u \in Users \ {b} : Untouched(s.w, r.w, u)
          /\ r.w.status[b] = "closedByLiquidation"
          /\ r.w.collSurplusPool.balances[b] = s.w.collSurplusPool.balances[b] + y
          /\ s.w.mintList => Others(s.w, b)
      BY <1>2 DEF Seizes
    <2>2. /\ y \in Nat /\ MayTake(s.w, b, pr, top, y) /\ s.w.status[b] = "active"
          /\ w.ok /\ SameTerms(w, s.w)
          /\ \A u \in Users : Untouched(w, s.w, u) \/ FairlyTaken(w, s.w, pr, u)
      BY <1>2, <2>1 DEF LoopFair
    <2>3. SameTerms(w, r.w)
      BY <2>1, <2>2 DEF SameTerms
    <2>4. ASSUME NEW u \in Users \ {b}
          PROVE  Untouched(w, r.w, u) \/ FairlyTaken(w, r.w, pr, u)
      <3>1. Untouched(s.w, r.w, u)
        BY <2>1
      <3>2. CASE Untouched(w, s.w, u)
        BY <3>1, <3>2 DEF Untouched, SameTrove
      <3>3. CASE FairlyTaken(w, s.w, pr, u)
        <4>1. /\ r.w.status[u] = s.w.status[u]
              /\ r.w.collSurplusPool.balances[u] = s.w.collSurplusPool.balances[u]
          BY <3>1 DEF Untouched, SameTrove
        <4> QED
          BY <3>3, <4>1 DEF FairlyTaken
      <3> QED
        BY <2>2, <3>2, <3>3
    <2>5. Untouched(w, s.w, b)
      <3>1. "active" # "closedByLiquidation"
        OBVIOUS
      <3> QED
        BY <2>2, <3>1 DEF FairlyTaken
    <2>6. /\ entireDebt(s.w, b) = entireDebt(w, b) /\ entireColl(s.w, b) = entireColl(w, b)
          /\ getCurrentICR(s.w, b, pr) = getCurrentICR(w, b, pr)
      BY <2>2, <2>5, UntouchedRatio
    <2>7. getCurrentICR(w, b, pr) \in Int
      BY <2>2, TroveRatio
    <2>8. \/ getCurrentICR(w, b, pr) < MCR
          \/ checkRecoveryMode(w, pr) /\ getCurrentICR(w, b, pr) < CCR
      <3>1. getCurrentICR(w, b, pr) < MCR \/ getCurrentICR(w, b, pr) < top
        BY <2>2, <2>6 DEF MayTake
      <3>2. CASE top = MCR
        BY <3>1, <3>2
      <3>3. CASE top \in Int /\ top < CCR /\ checkRecoveryMode(w, pr)
        BY <2>7, <3>1, <3>3, BaseAssumption
      <3> QED
        BY <2>1, <3>2, <3>3
    <2>9. r.w.collSurplusPool.balances[b] - w.collSurplusPool.balances[b] = y
      <3>1. s.w.collSurplusPool.balances[b] = w.collSurplusPool.balances[b]
        BY <2>5 DEF Untouched
      <3>2. w.collSurplusPool.balances[b] \in Nat
        BY <2>2 DEF Ready, Sound, PoolTypes
      <3> QED
        BY <2>1, <2>2, <3>1, <3>2
    <2>10. getCurrentICR(w, b, pr) >= MCR =>
             (entireColl(w, b) - y) * pr <= MCR * entireDebt(w, b)
      BY <2>2, <2>6 DEF MayTake
    <2>11. w.status[b] = "active"
      BY <2>2, <2>5 DEF Untouched, SameTrove
    <2>12. FairlyTaken(w, r.w, pr, b)
      BY <2>1, <2>8, <2>9, <2>10, <2>11 DEF FairlyTaken
    <2>13. w.mintList => Peopled(r.w)
      BY <2>1, <2>2 DEF SameTerms, Others, Peopled, Untouched, SameTrove
    <2> QED
      BY <2>2, <2>3, <2>4, <2>12, <2>13
  <1> QED
    BY <1>1, <1>2 DEF FairTake

\* The debt taken adds up.
LEMMA DebtAdds ==
  ASSUME NEW w, NEW pool, NEW s, LoopSound(w, pool, s), s.w.ok, NEW b, NEW p, NEW r,
         Taken(s.w, b, p, r), r.w.ok, NEW v, Added(s, r, v), v.totals.entireTroveDebt # 0
  PROVE  s.totals.entireTroveDebt # 0 \/ r.vals.entireTroveDebt # 0
  <1>1. v.totals.entireTroveDebt = s.totals.entireTroveDebt + r.vals.entireTroveDebt
    BY DEF LoopSound, Added, addLiquidationValuesToTotals, ValFields
  <1>2. s.totals.entireTroveDebt \in Nat /\ r.vals.entireTroveDebt \in Nat
    BY DEF LoopSound, Taken, SoundVals
  <1> QED
    BY <1>1, <1>2

\* One iteration of a loop is fair.
LEMMA FairSteps ==
  ASSUME NEW w, Ready(w), NEW pool \in Nat, NEW s, LoopSound(w, pool, s), NEW b \in Users,
         s.w.ok => s.w.status[b] = "active", NEW pr \in Nat \ {0}, LoopFair(w, pr, s),
         NEW stop, NEW v, v = sequenceStep(s, b, pr, stop)
  PROVE  LoopFair(w, pr, v)
  <1> DEFINE icr == getCurrentICR(s.w, b, pr)
             rem == s.remainingTHUSDInStabPool
             nv == normalModeStep(s, b)
             rv == recoveryModeStep(s, b, pr)
             sv == [s EXCEPT !.stopped = stop]
  <1>1. v = s \/ (v = nv /\ icr < MCR) \/ (v = rv /\ ~s.backToNormalMode) \/ v = sv
    <2> HIDE DEF icr, nv, rv, sv
    <2>1. v = CASE s.stopped -> s
                [] ~s.stopped /\ s.backToNormalMode /\ icr < MCR -> nv
                [] /\ ~s.stopped /\ ~s.backToNormalMode
                   /\ ~(icr >= MCR /\ s.remainingTHUSDInStabPool = 0) -> rv
                [] OTHER -> sv
      BY DEF sequenceStep, icr, nv, rv, sv
    <2> QED
      BY <2>1, SMT
  <1>2. /\ Ready(s.w) /\ s = [k \in LoopFields |-> s[k]]
        /\ (s.w.ok => rem \in Nat)
    BY DEF LoopSound, SoundVals
  <1>3. CASE v = s
    BY <1>3
  <1>4. CASE v = nv /\ icr < MCR
    <2> DEFINE op == "liquidateInNormalMode"
               r == offsetAndRedistribute(s.w, b, rem, op)
               top == MCR
    <2>1. Taken(s.w, b, rem, r)
      BY <1>2, <1>4, OffsetTaken
    <2>2. r.w = emitLiquidated(closeLiquidated(s.w, b), b, op)
      BY DEF offsetAndRedistribute
    <2>3. v = [s EXCEPT !.w = r.w,
                        !.totals = addLiquidationValuesToTotals(@, r.vals),
                        !.remainingTHUSDInStabPool = @ - r.vals.debtToOffset]
      BY <1>4 DEF normalModeStep, liquidateNormalMode
    <2> HIDE DEF r, op, top
    <2>4. /\ Added(s, r, v) /\ v.w = r.w /\ v.backToNormalMode = s.backToNormalMode
          /\ v.entireSystemColl = s.entireSystemColl
          /\ v.entireSystemDebt = s.entireSystemDebt
      BY <1>2, <2>3 DEF Added, LoopFields
    <2>5. s.w.ok => icr \in Int
      BY <1>2, TroveRatio
    <2>6. FairTake(s.w, b, pr, top, r)
      BY <1>2, <1>4, <2>2, <2>5, SplitFair
    <2> SUFFICES ASSUME v.w.ok PROVE LoopFair(w, pr, v)
      BY DEF LoopFair
    <2>7. r.w.ok /\ s.w.ok
      BY <2>1, <2>4 DEF Taken, Leads
    <2>8. top = MCR
      BY DEF top
    <2>9. /\ w.ok /\ SameTerms(w, r.w)
          /\ \A u \in Users : Untouched(w, r.w, u) \/ FairlyTaken(w, r.w, pr, u)
          /\ w.mintList /\ Peopled(w) => Peopled(r.w)
          /\ (s.totals.entireTroveDebt # 0 \/ r.vals.entireTroveDebt # 0) =>
               \E u \in Users : FairlyTaken(w, r.w, pr, u)
      BY <1>2, <2>6, <2>7, <2>8, FairAdds
    <2>10. v.totals.entireTroveDebt # 0 => \E u \in Users : FairlyTaken(w, r.w, pr, u)
      BY <2>1, <2>4, <2>7, <2>9, DebtAdds
    <2>11. /\ v.entireSystemColl \in Int /\ v.entireSystemDebt \in Int
           /\ ~v.backToNormalMode => checkRecoveryMode(w, pr) /\ ~(LoopTCR(v, pr) >= CCR)
      BY <2>4, <2>7 DEF LoopFair, LoopTCR
    <2> QED
      BY <2>4, <2>9, <2>10, <2>11 DEF LoopFair
  <1>5. CASE v = rv /\ ~s.backToNormalMode
    <2> DEFINE tcr == LoopTCR(s, pr)
               r == liquidateRecoveryMode(s.w, b, getCurrentICR(s.w, b, pr), rem, tcr, pr)
               debtLeft == s.entireSystemDebt - r.vals.debtToOffset
               collLeft == s.entireSystemColl - (r.vals.collToSendToSP
                             + r.vals.collGasCompensation + r.vals.collSurplus)
    <2> HIDE DEF tcr
    <2>1. Taken(s.w, b, rem, r) /\ FairTake(s.w, b, pr, tcr, r)
      BY <1>2, RecoveryTaken, RecoveryFair
    <2>2. v = addRecoveryModeLiquidation(s, r, pr)
      BY <1>5 DEF recoveryModeStep, tcr, LoopTCR
    <2> HIDE DEF r
    <2>3. v = [s EXCEPT !.w = r.w,
                !.totals = addLiquidationValuesToTotals(@, r.vals),
                !.remainingTHUSDInStabPool = @ - r.vals.debtToOffset,
                !.entireSystemDebt = debtLeft,
                !.entireSystemColl = collLeft,
                !.backToNormalMode = computeCR(collLeft, debtLeft, pr) >= CCR]
      BY <2>2 DEF addRecoveryModeLiquidation
    <2> HIDE DEF debtLeft, collLeft
    <2>4. /\ Added(s, r, v) /\ v.w = r.w
          /\ v.entireSystemColl = collLeft /\ v.entireSystemDebt = debtLeft
          /\ v.backToNormalMode = (computeCR(collLeft, debtLeft, pr) >= CCR)
      BY <1>2, <2>3 DEF Added, LoopFields
    <2> SUFFICES ASSUME v.w.ok PROVE LoopFair(w, pr, v)
      BY DEF LoopFair
    <2>5. r.w.ok /\ s.w.ok
      BY <2>1, <2>4 DEF Taken, Leads
    <2>6. /\ s.entireSystemColl \in Int /\ s.entireSystemDebt \in Int
          /\ checkRecoveryMode(w, pr) /\ ~(tcr >= CCR)
      BY <1>5, <2>5 DEF LoopFair, tcr
    <2>7. tcr \in Int
      BY <2>6, RatioType DEF tcr, LoopTCR
    <2>8. tcr < CCR
      BY <2>6, <2>7, BaseAssumption
    <2>9. /\ w.ok /\ SameTerms(w, r.w)
          /\ \A u \in Users : Untouched(w, r.w, u) \/ FairlyTaken(w, r.w, pr, u)
          /\ w.mintList /\ Peopled(w) => Peopled(r.w)
          /\ (s.totals.entireTroveDebt # 0 \/ r.vals.entireTroveDebt # 0) =>
               \E u \in Users : FairlyTaken(w, r.w, pr, u)
      BY <1>2, <2>1, <2>5, <2>6, <2>7, <2>8, FairAdds
    <2>10. v.totals.entireTroveDebt # 0 => \E u \in Users : FairlyTaken(w, r.w, pr, u)
      BY <2>1, <2>4, <2>5, <2>9, DebtAdds
    <2>11. SoundVals(r.vals, rem)
      BY <2>1, <2>5 DEF Taken
    <2>12. collLeft \in Int /\ debtLeft \in Int
      BY <2>6, <2>11 DEF SoundVals, collLeft, debtLeft
    <2>13. ~v.backToNormalMode => ~(LoopTCR(v, pr) >= CCR)
      BY <2>4, Zenon DEF LoopTCR
    <2> QED
      BY <2>4, <2>6, <2>9, <2>10, <2>12, <2>13 DEF LoopFair
  <1>6. CASE v = sv
    <2>1. /\ v.w = s.w /\ v.totals = s.totals /\ v.entireSystemColl = s.entireSystemColl
          /\ v.entireSystemDebt = s.entireSystemDebt
          /\ v.backToNormalMode = s.backToNormalMode
      BY <1>2, <1>6 DEF LoopFields
    <2> QED
      BY <2>1 DEF LoopFair, LoopTCR
  <1> QED
    BY <1>1, <1>3, <1>4, <1>5, <1>6

\* A sequence keeps the books and is fair.
LoopRuns(w, pool, pr, s) == LoopSound(w, pool, s) /\ LoopFair(w, pr, s)

\* batchLiquidateTroves: the sequence over the troves that the caller names.
LEMMA BatchSound ==
  ASSUME NEW w, Ready(w), NEW pool \in Nat, NEW pr \in Nat \ {0}, NEW arr \in Seq(Users),
         NEW v, v = batchSequence(w, arr, pool, pr)
  PROVE  LoopRuns(w, pool, pr, v)
  <1> DEFINE n == Len(arr)
             s0 == SequenceStart(w, pool, pr)
             St(x, i) == IF x.w.status[arr[i]] = "active"
                         THEN sequenceStep(x, arr[i], pr, FALSE)
                         ELSE x
             Def(p) == [i \in 0..n |-> IF i = 0 THEN s0 ELSE St(p[i-1], i)]
  <1>1. n \in Nat /\ \A i \in 1..n : arr[i] \in Users
    OBVIOUS
  <1>2. v = (CHOOSE p : p = Def(p))[n]
    BY DEF batchSequence
  <1>3. LoopRuns(w, pool, pr, s0)
    BY LoopStarts, FairStarts DEF LoopRuns
  <1>4. ASSUME NEW x, LoopRuns(w, pool, pr, x), NEW i \in 1..n
        PROVE  LoopRuns(w, pool, pr, St(x, i))
    <2>1. CASE x.w.status[arr[i]] = "active"
      <3> DEFINE y == sequenceStep(x, arr[i], pr, FALSE)
      <3>1. LoopRuns(w, pool, pr, y)
        <4> DEFINE stop == FALSE
        <4>1. y = sequenceStep(x, arr[i], pr, stop) /\ arr[i] \in Users
          BY <1>1
        <4> HIDE DEF y, stop
        <4> QED
          BY <1>4, <2>1, <4>1, LoopSteps, FairSteps DEF LoopRuns
      <3> QED
        BY <2>1, <3>1
    <2>2. CASE x.w.status[arr[i]] # "active"
      BY <1>4, <2>2
    <2> QED
      BY <2>1, <2>2
  <1> HIDE DEF s0, St, n
  <1>5. \E q : q = Def(q)
    <2> DEFINE T == {m \in Nat : \E f : f = [i \in 0..m |-> IF i = 0 THEN s0
                                                            ELSE St(f[i-1], i)]}
    <2>1. 0 \in T
      <3> DEFINE f == [i \in 0..0 |-> s0]
      <3>1. f = [i \in 0..0 |-> IF i = 0 THEN s0 ELSE St(f[i-1], i)]
        OBVIOUS
      <3> QED
        BY <3>1
    <2>2. ASSUME NEW m \in Nat, m \in T PROVE m + 1 \in T
      <3>1. PICK f : f = [i \in 0..m |-> IF i = 0 THEN s0 ELSE St(f[i-1], i)]
        BY <2>2
      <3> DEFINE h == [i \in 0..m + 1 |-> IF i <= m THEN f[i] ELSE St(f[m], m + 1)]
      <3>2. ASSUME NEW i \in 0..m + 1
            PROVE  h[i] = IF i = 0 THEN s0 ELSE St(h[i-1], i)
        <4>1. CASE i = 0
          BY <3>1, <4>1
        <4>2. CASE i # 0 /\ i <= m
          <5>1. i \in 0..m /\ i - 1 \in 0..m /\ i - 1 \in 0..m + 1 /\ i - 1 <= m
            BY <4>2
          <5>2. h[i] = f[i] /\ h[i-1] = f[i-1]
            BY <4>2, <5>1
          <5>3. f[i] = St(f[i-1], i)
            BY <3>1, <4>2, <5>1
          <5> QED
            BY <4>2, <5>2, <5>3
        <4>3. CASE i = m + 1
          <5>1. i - 1 = m /\ m \in 0..m + 1 /\ ~(m + 1 <= m) /\ m <= m
            BY <4>3
          <5>2. h[i] = St(f[m], m + 1) /\ h[m] = f[m]
            BY <4>3, <5>1
          <5> QED
            BY <4>3, <5>1, <5>2
        <4> QED
          BY <4>1, <4>2, <4>3
      <3>3. h = [i \in 0..m + 1 |-> IF i = 0 THEN s0 ELSE St(h[i-1], i)]
        <4> HIDE DEF h
        <4>1. h = [i \in 0..m + 1 |-> h[i]]
          BY DEF h
        <4> QED
          BY <3>2, <4>1
      <3>4. \E g : g = [i \in 0..m + 1 |-> IF i = 0 THEN s0 ELSE St(g[i-1], i)]
        <4> HIDE DEF h
        <4> QED
          BY <3>3
      <3>5. m + 1 \in Nat
        OBVIOUS
      <3> QED
        BY <3>4, <3>5, Zenon
    <2> HIDE DEF T
    <2>3. n \in T
      BY <1>1, <2>1, <2>2, SetInduction
    <2> QED
      BY <2>3 DEF T
  <1> HIDE DEF Def
  <1>6. PICK p : p = Def(p) /\ v = p[n]
    BY <1>2, <1>5
  <1>7. p = [i \in 0..n |-> IF i = 0 THEN s0 ELSE St(p[i-1], i)]
    BY <1>6 DEF Def
  <1> DEFINE U == {k \in Nat : k <= n => LoopRuns(w, pool, pr, p[k])}
  <1>8. 0 \in U
    BY <1>1, <1>3, <1>7
  <1>9. ASSUME NEW k \in Nat, k \in U PROVE k + 1 \in U
    <2> SUFFICES ASSUME k + 1 <= n PROVE LoopRuns(w, pool, pr, p[k + 1])
      OBVIOUS
    <2>1. k <= n /\ k + 1 \in 1..n /\ k + 1 \in 0..n /\ (k + 1) - 1 = k /\ k + 1 # 0
      BY <1>1
    <2>2. LoopRuns(w, pool, pr, p[k])
      BY <1>9, <2>1
    <2>3. p[k + 1] = St(p[k], k + 1)
      BY <1>7, <2>1
    <2> QED
      BY <1>4, <2>1, <2>2, <2>3
  <1> HIDE DEF U
  <1>10. n \in U
    BY <1>1, <1>8, <1>9, SetInduction
  <1> QED
    BY <1>1, <1>6, <1>10 DEF U

\* liquidateTroves: the sequence over the last troves of the list, each of which is open
\* when its turn comes.
LEMMA SequenceSound ==
  ASSUME NEW w, Ready(w), w.ok, NEW pool \in Nat, NEW pr \in Nat \ {0}, NEW k \in Nat,
         NEW v, v = troveSequence(w, k, pool, pr)
  PROVE  LoopRuns(w, pool, pr, v)
  <1> DEFINE list == w.sortedTroves
             first == IF checkRecoveryMode(w, pr) THEN 2 ELSE 1
             n == MaxOf(0, MinOf(k, Len(list) + 1 - first))
             s0 == SequenceStart(w, pool, pr)
             St(x, i) == sequenceStep(x, list[Len(list) + 1 - i], pr, TRUE)
             Def(p) == [i \in 0..n |-> IF i = 0 THEN s0 ELSE St(p[i-1], i)]
             InTurn(x, i) == x.w.ok => \A j \in 1..Len(list) - i : x.w.status[list[j]] = "active"
  <1>0. /\ ListOf(list, Open(w)) /\ Len(list) \in Nat
        /\ \A j \in 1..Len(list) : list[j] \in Users /\ w.status[list[j]] = "active"
    BY DEF Ready, Sound, ListOf, Open
  <1>1. n \in Nat /\ n <= Len(list)
    <2>1. first \in {1, 2}
      OBVIOUS
    <2> HIDE DEF first, list
    <2>2. /\ Len(list) + 1 - first \in Int /\ Len(list) + 1 - first <= Len(list)
      BY <1>0, <2>1
    <2> QED
      BY <1>0, <2>2 DEF MaxOf, MinOf
  <1>2. v = (CHOOSE p : p = Def(p))[n]
    BY DEF troveSequence
  <1> HIDE DEF n
  <1>3. LoopRuns(w, pool, pr, s0) /\ InTurn(s0, 0)
    <2>1. LoopRuns(w, pool, pr, s0) /\ s0.w = w
      BY LoopStarts, FairStarts DEF LoopRuns
    <2> QED
      BY <1>0, <2>1
  <1>4. ASSUME NEW x, NEW i \in 1..n, LoopRuns(w, pool, pr, x), InTurn(x, i - 1)
        PROVE  LoopRuns(w, pool, pr, St(x, i)) /\ InTurn(St(x, i), i)
    <2> DEFINE b == list[Len(list) + 1 - i]
               y == sequenceStep(x, b, pr, TRUE)
    <2>1. Len(list) + 1 - i \in 1..Len(list) /\ Len(list) + 1 - i = Len(list) - (i - 1)
      BY <1>0, <1>1
    <2>2. b \in Users /\ (x.w.ok => x.w.status[b] = "active")
      BY <1>0, <1>4, <2>1
    <2> HIDE DEF b
    <2>3. /\ LoopRuns(w, pool, pr, y) /\ (y.w.ok => x.w.ok)
          /\ \A u \in Users \ {b} : y.w.status[u] = x.w.status[u]
      <3>1. LoopRuns(w, pool, pr, x)
        BY <1>4
      <3>2. b \in Users
        BY <2>2
      <3>3. x.w.ok => x.w.status[b] = "active"
        BY <2>2
      <3> DEFINE stop == TRUE
      <3>4. y = sequenceStep(x, b, pr, stop)
        OBVIOUS
      <3> HIDE DEF InTurn, y, list, stop
      <3> QED
        BY <3>1, <3>2, <3>3, <3>4, LoopSteps, FairSteps DEF LoopRuns
    <2>4. InTurn(y, i)
      <3> SUFFICES ASSUME y.w.ok, NEW j \in 1..Len(list) - i
                   PROVE  y.w.status[list[j]] = "active"
        OBVIOUS
      <3>1. /\ j \in 1..Len(list) /\ j # Len(list) + 1 - i /\ j \in 1..Len(list) - (i - 1)
        BY <1>0, <1>1
      <3>2. list[j] # b /\ list[j] \in Users
        BY <1>0, <2>1, <3>1 DEF ListOf, b
      <3>3. x.w.ok
        BY <2>3
      <3> QED
        BY <1>4, <2>3, <3>1, <3>2, <3>3
    <2> HIDE DEF y
    <2>5. St(x, i) = y
      BY DEF y, b
    <2> QED
      BY <2>3, <2>4, <2>5
  <1> HIDE DEF s0, St, InTurn
  <1>5. \E q : q = Def(q)
    <2> DEFINE T == {m \in Nat : \E f : f = [i \in 0..m |-> IF i = 0 THEN s0
                                                            ELSE St(f[i-1], i)]}
    <2>1. 0 \in T
      <3> DEFINE f == [i \in 0..0 |-> s0]
      <3>1. f = [i \in 0..0 |-> IF i = 0 THEN s0 ELSE St(f[i-1], i)]
        OBVIOUS
      <3> QED
        BY <3>1
    <2>2. ASSUME NEW m \in Nat, m \in T PROVE m + 1 \in T
      <3>1. PICK f : f = [i \in 0..m |-> IF i = 0 THEN s0 ELSE St(f[i-1], i)]
        BY <2>2
      <3> DEFINE h == [i \in 0..m + 1 |-> IF i <= m THEN f[i] ELSE St(f[m], m + 1)]
      <3>2. ASSUME NEW i \in 0..m + 1
            PROVE  h[i] = IF i = 0 THEN s0 ELSE St(h[i-1], i)
        <4>1. CASE i = 0
          BY <3>1, <4>1
        <4>2. CASE i # 0 /\ i <= m
          <5>1. i \in 0..m /\ i - 1 \in 0..m /\ i - 1 \in 0..m + 1 /\ i - 1 <= m
            BY <4>2
          <5>2. h[i] = f[i] /\ h[i-1] = f[i-1]
            BY <4>2, <5>1
          <5>3. f[i] = St(f[i-1], i)
            BY <3>1, <4>2, <5>1
          <5> QED
            BY <4>2, <5>2, <5>3
        <4>3. CASE i = m + 1
          <5>1. i - 1 = m /\ m \in 0..m + 1 /\ ~(m + 1 <= m) /\ m <= m
            BY <4>3
          <5>2. h[i] = St(f[m], m + 1) /\ h[m] = f[m]
            BY <4>3, <5>1
          <5> QED
            BY <4>3, <5>1, <5>2
        <4> QED
          BY <4>1, <4>2, <4>3
      <3>3. h = [i \in 0..m + 1 |-> IF i = 0 THEN s0 ELSE St(h[i-1], i)]
        <4> HIDE DEF h
        <4>1. h = [i \in 0..m + 1 |-> h[i]]
          BY DEF h
        <4> QED
          BY <3>2, <4>1
      <3>4. \E g : g = [i \in 0..m + 1 |-> IF i = 0 THEN s0 ELSE St(g[i-1], i)]
        <4> HIDE DEF h
        <4> QED
          BY <3>3
      <3>5. m + 1 \in Nat
        OBVIOUS
      <3> QED
        BY <3>4, <3>5, Zenon
    <2> HIDE DEF T
    <2>3. n \in T
      BY <1>1, <2>1, <2>2, SetInduction
    <2> QED
      BY <2>3 DEF T
  <1> HIDE DEF Def
  <1>6. PICK p : p = Def(p) /\ v = p[n]
    BY <1>2, <1>5
  <1>7. p = [i \in 0..n |-> IF i = 0 THEN s0 ELSE St(p[i-1], i)]
    BY <1>6 DEF Def
  <1> DEFINE U == {m \in Nat : m <= n => LoopRuns(w, pool, pr, p[m]) /\ InTurn(p[m], m)}
  <1>8. 0 \in U
    BY <1>1, <1>3, <1>7
  <1>9. ASSUME NEW m \in Nat, m \in U PROVE m + 1 \in U
    <2> SUFFICES ASSUME m + 1 <= n
                 PROVE  LoopRuns(w, pool, pr, p[m + 1]) /\ InTurn(p[m + 1], m + 1)
      OBVIOUS
    <2>1. m <= n /\ m + 1 \in 1..n /\ m + 1 \in 0..n /\ (m + 1) - 1 = m /\ m + 1 # 0
      BY <1>1
    <2>2. LoopRuns(w, pool, pr, p[m]) /\ InTurn(p[m], (m + 1) - 1)
      BY <1>9, <2>1
    <2>3. p[m + 1] = St(p[m], m + 1)
      BY <1>7, <2>1
    <2> QED
      BY <1>4, <2>1, <2>2, <2>3
  <1> HIDE DEF U
  <1>10. n \in U
    BY <1>1, <1>8, <1>9, SetInduction
  <1> QED
    BY <1>1, <1>6, <1>10 DEF U

\* _moveOffsetCollAndDebt: debt and deposits are burnt, collateral goes to the Stability Pool.
LEMMA LeadOffset ==
  ASSUME NEW w, Ready(w), NEW t, NEW pool \in Nat, w.ok => SoundVals(t, pool),
         NEW v, v = moveOffsetCollAndDebt(w, t, pool)
  PROVE  /\ Ready(v)
         /\ Leads(w, v, 0 - t.debtToOffset, 0 - t.collToSendToSP, 0, 0, 0,
                  0 - t.debtToOffset)
  <1> DEFINE x == t.debtToOffset
             c == t.collToSendToSP
  <1>1. w.ok => /\ x \in Nat /\ c \in Nat /\ x <= pool /\ (x = 0 => c = 0)
    BY DEF SoundVals
  <1>2. CASE pool = 0 \/ x = 0
    <2>1. v = w
      BY <1>2 DEF moveOffsetCollAndDebt
    <2>2. Leads(w, w, 0, 0, 0, 0, 0, 0)
      BY GapTypes DEF Leads, Ready
    <2>3. w.ok => x = 0 /\ c = 0
      BY <1>1, <1>2
    <2> QED
      BY <2>1, <2>2, <2>3 DEF Leads
  <1>3. CASE ~(pool = 0 \/ x = 0)
    <2> DEFINE w1 == activePoolDecreaseTHUSDDebt(w, x)
               w2 == thusdBurn(w1, stabilityPoolAddress, x)
    <2>1. v = activePoolSendCollateral(w2, stabilityPoolAddress, c)
      BY <1>3 DEF moveOffsetCollAndDebt
    <2> HIDE DEF x, c
    <2>2. Ready(w1) /\ Leads(w, w1, -x, 0, x, 0, 0, 0)
      BY <1>1, LeadDecrease
    <2> HIDE DEF w1
    <2>3. w1.ok => w.ok /\ x \in Nat /\ c \in Nat
      BY <1>1, <2>2 DEF Leads
    <2>4. stabilityPoolAddress \in Accounts /\ gasPoolAddress # stabilityPoolAddress
      BY Addresses
    <2>5. /\ Ready(w2)
          /\ Leads(w1, w2, 0, 0, -x, -At(stabilityPoolAddress, gasPoolAddress, x), 0,
                   -At(stabilityPoolAddress, stabilityPoolAddress, x))
      BY <2>2, <2>3, <2>4, LeadBurn
    <2> HIDE DEF w2
    <2>6. w2.ok => c \in Nat
      BY <2>3, <2>5 DEF Leads
    <2>7. Ready(v) /\ Leads(w2, v, 0, -c, 0, 0, 0, 0)
      BY <2>1, <2>5, <2>6, LeadSend
    <2>8. Leads(w, v, 0 - x, 0 - c, 0, 0, 0, 0 - x)
      <3> SUFFICES ASSUME v.ok PROVE Leads(w, v, 0 - x, 0 - c, 0, 0, 0, 0 - x)
        BY DEF Leads
      <3>1. w2.ok /\ w1.ok /\ w.ok /\ x \in Nat /\ c \in Nat
        BY <2>3, <2>5, <2>7 DEF Leads
      <3>2. Sound(w)
        BY <3>1 DEF Ready
      <3>3. /\ At(stabilityPoolAddress, gasPoolAddress, x) = 0
            /\ At(stabilityPoolAddress, stabilityPoolAddress, x) = x
        BY <2>4 DEF At
      <3> QED
        BY <2>2, <2>5, <2>7, <3>1, <3>2, <3>3, GapTypes DEF Leads
    <2> QED
      BY <2>7, <2>8 DEF x, c
  <1> QED
    BY <1>2, <1>3

\* What follows a sequence moves what the sequence has taken: the books agree again.
LEMMA LiquidationBalanced ==
  ASSUME NEW w, Balanced(w), NEW pool \in Nat, NEW s, LoopSound(w, pool, s), NEW u \in Users,
         NEW v, v = finishLiquidation(s, u, pool)
  PROVE  /\ Balanced(v)
         /\ v.ok => /\ s.w.ok /\ SoundVals(s.totals, pool)
                    /\ Pooled(v) = Pooled(w) - s.totals.debtToOffset
  <1> DEFINE t == s.totals
             x == t.debtToOffset
             k == t.collToSendToSP
             a == t.debtToRedistribute
             c == t.collToRedistribute
             y == t.collSurplus
             g == t.collGasCompensation
             h == t.THUSDGasCompensation
             cond == t.entireTroveDebt > 0
             w1 == Require(s.w, cond)
             w2 == moveOffsetCollAndDebt(w1, t, pool)
             w3 == redistributeDebtAndColl(w2, a, c)
             w4 == activePoolSendCollateral(w3, collSurplusPoolAddress, y)
             w5 == collSurplusPoolReceive(w4, y)
             w6 == updateSystemSnapshots_excludeCollRemainder(w5, g)
             e == [event |-> "Liquidation",
                   liquidatedDebt |-> t.entireTroveDebt,
                   liquidatedColl |-> t.entireTroveColl - g - y,
                   collGasCompensation |-> g,
                   THUSDGasCompensation |-> h]
             w7 == Emit(w6, e)
             w8 == thusdTransfer(w7, gasPoolAddress, u, h)
  <1>1. v = activePoolSendCollateral(w8, u, g)
    BY DEF finishLiquidation, sendCollSurplus, sendGasCompensation
  <1>2. /\ Ready(w) /\ Ready(s.w)
        /\ (s.w.ok => SoundVals(t, pool))
        /\ Leads(w, s.w, t.entireTroveDebt, t.entireTroveColl, 0, h, 0 - y, 0)
    BY DEF Balanced, Ready, LoopSound
  <1>3. cond \in BOOLEAN
    OBVIOUS
  <1> HIDE DEF cond
  <1>4. Ready(w1) /\ Leads(s.w, w1, 0, 0, 0, 0, 0, 0)
    BY <1>2, <1>3, LeadRequire
  <1> HIDE DEF w1
  <1>5. w1.ok => SoundVals(t, pool)
    BY <1>2, <1>4 DEF Leads
  <1>6. Ready(w2) /\ Leads(w1, w2, 0 - x, 0 - k, 0, 0, 0, 0 - x)
    BY <1>4, <1>5, LeadOffset
  <1> HIDE DEF w2
  <1>7. w2.ok => /\ SoundVals(t, pool) /\ a \in Nat /\ c \in Nat /\ (a = 0 => c = 0)
                 /\ y \in Nat /\ g \in Nat /\ h \in Nat
    BY <1>5, <1>6 DEF Leads, SoundVals
  <1> HIDE DEF a, c, y, g, h, x, k, e, t
  <1>8. Ready(w3) /\ Leads(w2, w3, -a, -c, 0, 0, 0, 0)
    BY <1>6, <1>7, LeadRedistribute
  <1> HIDE DEF w3
  <1>9. w3.ok => w2.ok /\ y \in Nat
    BY <1>7, <1>8 DEF Leads
  <1>10. Ready(w4) /\ Leads(w3, w4, 0, -y, 0, 0, 0, 0)
    BY <1>8, <1>9, LeadSend
  <1> HIDE DEF w4
  <1>11. w4.ok => w2.ok /\ y \in Nat
    BY <1>9, <1>10 DEF Leads
  <1>12. Ready(w5) /\ Leads(w4, w5, 0, 0, 0, 0, y, 0)
    BY <1>10, <1>11, LeadSurplusReceive
  <1> HIDE DEF w5
  <1>13. w5.ok => w2.ok /\ g \in Nat
    BY <1>7, <1>11, <1>12 DEF Leads
  <1>14. Ready(w6) /\ Leads(w5, w6, 0, 0, 0, 0, 0, 0)
    BY <1>12, <1>13, LeadSnapshots
  <1> HIDE DEF w6
  <1>15. Ready(w7) /\ Leads(w6, w7, 0, 0, 0, 0, 0, 0)
    BY <1>14, LeadEmit
  <1> HIDE DEF w7
  <1>16. w7.ok => w2.ok /\ h \in Nat /\ g \in Nat
    BY <1>7, <1>13, <1>14, <1>15 DEF Leads
  <1>17. /\ u \in Accounts /\ gasPoolAddress \in Accounts /\ gasPoolAddress # u
         /\ At(u, gasPoolAddress, h) = 0 /\ At(u, stabilityPoolAddress, h) = 0
         /\ At(gasPoolAddress, gasPoolAddress, h) = h
         /\ At(gasPoolAddress, stabilityPoolAddress, h) = 0
    BY UserAccounts, Addresses DEF At
  <1>18. /\ Ready(w8)
         /\ Leads(w7, w8, 0, 0, 0, At(u, gasPoolAddress, h) - At(gasPoolAddress, gasPoolAddress, h),
                  0, At(u, stabilityPoolAddress, h) - At(gasPoolAddress, stabilityPoolAddress, h))
    BY <1>15, <1>16, <1>17, LeadTransfer
  <1> HIDE DEF w8
  <1>19. w8.ok => g \in Nat
    BY <1>16, <1>18 DEF Leads
  <1>20. Ready(v) /\ Leads(w8, v, 0, -g, 0, 0, 0, 0)
    BY <1>1, <1>18, <1>19, LeadSend
  <1>21. ASSUME v.ok
         PROVE  /\ Sound(v) /\ Books(v) /\ SoundVals(t, pool) /\ Pooled(v) = Pooled(w) - x
                /\ s.w.ok
    <2>1. w8.ok /\ w7.ok /\ w6.ok /\ w5.ok /\ w4.ok /\ w3.ok /\ w2.ok /\ w1.ok /\ s.w.ok /\ w.ok
      BY <1>2, <1>4, <1>6, <1>8, <1>10, <1>12, <1>14, <1>15, <1>18, <1>20, <1>21 DEF Leads
    <2>2. Sound(v) /\ Sound(w) /\ Books(w) /\ SoundVals(t, pool)
      BY <1>7, <1>20, <1>21, <2>1 DEF Ready, Balanced
    <2>3. /\ DebtGap(w) \in Int /\ CollGap(w) \in Int /\ SupplyGap(w) \in Int
          /\ ReserveGap(w) \in Int /\ SurplusGap(w) \in Int /\ Pooled(w) \in Int
      BY <2>2, GapTypes
    <2>4. /\ t.entireTroveDebt \in Nat /\ t.entireTroveColl \in Nat
          /\ x \in Nat /\ k \in Nat /\ a \in Nat /\ c \in Nat /\ y \in Nat /\ g \in Nat
          /\ h \in Nat /\ x + a = t.entireTroveDebt /\ g + k + c + y = t.entireTroveColl
      BY <2>2 DEF SoundVals, x, k, a, c, y, g, h
    <2>5. DebtGap(v) = DebtGap(w)
      BY <1>2, <1>4, <1>6, <1>8, <1>10, <1>12, <1>14, <1>15, <1>18, <1>20, <1>21, <2>1, <2>3,
         <2>4 DEF Leads
    <2>6. CollGap(v) = CollGap(w)
      BY <1>2, <1>4, <1>6, <1>8, <1>10, <1>12, <1>14, <1>15, <1>18, <1>20, <1>21, <2>1, <2>3,
         <2>4 DEF Leads
    <2>7. SupplyGap(v) = SupplyGap(w) /\ SurplusGap(v) = SurplusGap(w)
      BY <1>2, <1>4, <1>6, <1>8, <1>10, <1>12, <1>14, <1>15, <1>18, <1>20, <1>21, <2>1, <2>3,
         <2>4 DEF Leads
    <2>8. ReserveGap(v) = ReserveGap(w) /\ Pooled(v) = Pooled(w) - x
      BY <1>2, <1>4, <1>6, <1>8, <1>10, <1>12, <1>14, <1>15, <1>17, <1>18, <1>20, <1>21, <2>1,
         <2>3, <2>4 DEF Leads
    <2> QED
      BY <2>1, <2>2, <2>5, <2>6, <2>7, <2>8 DEF Books
  <1> QED
    BY <1>20, <1>21 DEF Balanced, Ready, t, x

\* The CollSurplusPool of the state w has its two fields.
HasClaims(w) ==
  /\ IsState(w)
  /\ w.collSurplusPool = [k \in {"collateral", "balances"} |-> w.collSurplusPool[k]]

\* What leads from w to v opens, closes and writes no trove, leaves the claims and the mint
\* list alone and never undoes a revert.
KeepsClaims(w, v) ==
  HasClaims(w) => /\ HasClaims(v) /\ (v.ok => w.ok)
                  /\ v.status = w.status /\ v.debt = w.debt /\ v.mintList = w.mintList
                  /\ v.collSurplusPool.balances = w.collSurplusPool.balances

\* One function after the other.
LEMMA KeepsBoth ==
  ASSUME NEW w, NEW v, NEW x, KeepsClaims(w, v), KeepsClaims(v, x)
  PROVE  KeepsClaims(w, x)
BY DEF KeepsClaims

\* A function that touches no trove and not the CollSurplusPool.
LEMMA FollowsKeeps ==
  ASSUME NEW w, NEW v, Follows(w, v), v.collSurplusPool = w.collSurplusPool
  PROVE  KeepsClaims(w, v)
BY DEF KeepsClaims, HasClaims, Follows, SameTroves

\* The functions that end a liquidation.
LEMMA PoolsKeep ==
  ASSUME NEW w, HasClaims(w), NEW a, NEW b, NEW to
  PROVE  /\ KeepsClaims(w, Require(w, a))
         /\ KeepsClaims(w, Emit(w, a))
         /\ KeepsClaims(w, activePoolSendCollateral(w, to, a))
         /\ KeepsClaims(w, activePoolDecreaseTHUSDDebt(w, a))
         /\ KeepsClaims(w, defaultPoolReceive(w, a))
         /\ KeepsClaims(w, defaultPoolIncreaseTHUSDDebt(w, a))
         /\ KeepsClaims(w, collSurplusPoolReceive(w, a))
         /\ KeepsClaims(w, thusdBurn(w, to, a))
         /\ KeepsClaims(w, thusdTransfer(w, b, to, a))
         /\ KeepsClaims(w, updateSystemSnapshots_excludeCollRemainder(w, a))
  <1>1. IsState(w)
    BY DEF HasClaims
  <1>2. KeepsClaims(w, Require(w, a))
    <2>1. Require(w, a).collSurplusPool = w.collSurplusPool
      BY <1>1 DEF IsState, StateFields, Require
    <2> QED
      BY <1>1, <2>1, PoolsFollow, FollowsKeeps
  <1>3. KeepsClaims(w, Emit(w, a))
    <2>1. Emit(w, a).collSurplusPool = w.collSurplusPool
      BY <1>1 DEF IsState, StateFields, Emit
    <2> QED
      BY <1>1, <2>1, PoolsFollow, FollowsKeeps
  <1>4. KeepsClaims(w, activePoolSendCollateral(w, to, a))
    <2>1. activePoolSendCollateral(w, to, a).collSurplusPool = w.collSurplusPool
      BY <1>1 DEF IsState, StateFields, activePoolSendCollateral, Emit, Require
    <2> QED
      BY <1>1, <2>1, PoolsFollow, FollowsKeeps
  <1>5. KeepsClaims(w, activePoolDecreaseTHUSDDebt(w, a))
    <2>1. activePoolDecreaseTHUSDDebt(w, a).collSurplusPool = w.collSurplusPool
      BY <1>1 DEF IsState, StateFields, activePoolDecreaseTHUSDDebt, Require
    <2> QED
      BY <1>1, <2>1, PoolsFollow, FollowsKeeps
  <1>6. KeepsClaims(w, defaultPoolReceive(w, a))
    <2>1. defaultPoolReceive(w, a).collSurplusPool = w.collSurplusPool
      BY <1>1 DEF IsState, StateFields, defaultPoolReceive
    <2> QED
      BY <1>1, <2>1, PoolsFollow, FollowsKeeps
  <1>7. KeepsClaims(w, defaultPoolIncreaseTHUSDDebt(w, a))
    <2>1. defaultPoolIncreaseTHUSDDebt(w, a).collSurplusPool = w.collSurplusPool
      BY <1>1 DEF IsState, StateFields, defaultPoolIncreaseTHUSDDebt
    <2> QED
      BY <1>1, <2>1, PoolsFollow, FollowsKeeps
  <1>8. KeepsClaims(w, collSurplusPoolReceive(w, a))
    <2> DEFINE v == collSurplusPoolReceive(w, a)
               p == w.collSurplusPool
    <2>1. Follows(w, v)
      BY <1>1, PoolsFollow
    <2>2. v.collSurplusPool = [p EXCEPT !.collateral = @ + a]
      BY <1>1 DEF IsState, StateFields, collSurplusPoolReceive
    <2>3. p = [k \in {"collateral", "balances"} |-> p[k]]
      BY DEF HasClaims
    <2> HIDE DEF v, p
    <2>4. /\ v.collSurplusPool.balances = p.balances
          /\ v.collSurplusPool = [k \in {"collateral", "balances"} |-> v.collSurplusPool[k]]
      BY <2>2, <2>3
    <2> QED
      BY <2>1, <2>4 DEF KeepsClaims, HasClaims, Follows, SameTroves, v, p
  <1>9. KeepsClaims(w, thusdBurn(w, to, a))
    <2>1. thusdBurn(w, to, a).collSurplusPool = w.collSurplusPool
      BY <1>1 DEF IsState, StateFields, thusdBurn, Emit, Require
    <2> QED
      BY <1>1, <2>1, PoolsFollow, FollowsKeeps
  <1>10. KeepsClaims(w, thusdTransfer(w, b, to, a))
    <2>1. thusdTransfer(w, b, to, a).collSurplusPool = w.collSurplusPool
      BY <1>1 DEF IsState, StateFields, thusdTransfer, Emit, Require
    <2> QED
      BY <1>1, <2>1, PoolsFollow, FollowsKeeps
  <1>11. KeepsClaims(w, updateSystemSnapshots_excludeCollRemainder(w, a))
    <2> DEFINE v == updateSystemSnapshots_excludeCollRemainder(w, a)
    <2>1. /\ IsState(v) /\ (v.ok => w.ok) /\ v.status = w.status /\ v.debt = w.debt
          /\ v.mintList = w.mintList /\ v.collSurplusPool = w.collSurplusPool
      BY <1>1 DEF IsState, StateFields, updateSystemSnapshots_excludeCollRemainder, Require
    <2> HIDE DEF v
    <2>2. KeepsClaims(w, v)
      BY <2>1 DEF KeepsClaims, HasClaims
    <2> QED
      BY <2>2 DEF v
  <1> QED
    BY <1>2, <1>3, <1>4, <1>5, <1>6, <1>7, <1>8, <1>9, <1>10, <1>11

\* redistributeDebtAndColl
LEMMA RedistributeKeeps ==
  ASSUME NEW w, HasClaims(w), NEW a, NEW c, NEW v, v = redistributeDebtAndColl(w, a, c)
  PROVE  KeepsClaims(w, v)
  <1> DEFINE x == c * DECIMAL_PRECISION + w.lastCollateralError_Redistribution
             y == a * DECIMAL_PRECISION + w.lastTHUSDDebtError_Redistribution
             w1 == [w EXCEPT !.L_Collateral = @ + x \div w.totalStakes,
                             !.L_THUSDDebt = @ + y \div w.totalStakes,
                             !.lastCollateralError_Redistribution = x % w.totalStakes,
                             !.lastTHUSDDebtError_Redistribution = y % w.totalStakes]
             e == [event |-> "LTermsUpdated", L_Collateral |-> w1.L_Collateral,
                   L_THUSDDebt |-> w1.L_THUSDDebt]
             w2 == Emit(w1, e)
             w3 == activePoolDecreaseTHUSDDebt(w2, a)
             w4 == defaultPoolIncreaseTHUSDDebt(w3, a)
             w5 == activePoolSendCollateral(w4, defaultPoolAddress, c)
  <1>1. CASE a = 0
    <2>1. v = w
      BY <1>1 DEF redistributeDebtAndColl
    <2> QED
      BY <2>1 DEF KeepsClaims
  <1>2. CASE a # 0 /\ w.totalStakes = 0
    <2> DEFINE no == FALSE
    <2>1. v = Require(w, no)
      BY <1>2 DEF redistributeDebtAndColl
    <2> HIDE DEF no
    <2> QED
      BY <2>1, PoolsKeep
  <1>3. CASE a # 0 /\ w.totalStakes # 0
    <2>1. v = defaultPoolReceive(w5, c)
      BY <1>3 DEF redistributeDebtAndColl, emitLTermsUpdated
    <2>2. /\ IsState(w1) /\ w1.ok = w.ok /\ w1.status = w.status /\ w1.debt = w.debt
          /\ w1.mintList = w.mintList /\ w1.collSurplusPool = w.collSurplusPool
      BY DEF HasClaims, IsState, StateFields
    <2> HIDE DEF w1
    <2>3. HasClaims(w1) /\ KeepsClaims(w, w1)
      BY <2>2 DEF KeepsClaims, HasClaims
    <2> HIDE DEF e
    <2>4. HasClaims(w2) /\ KeepsClaims(w1, w2)
      BY <2>3, PoolsKeep DEF KeepsClaims
    <2> HIDE DEF w2
    <2>5. HasClaims(w3) /\ KeepsClaims(w2, w3)
      BY <2>4, PoolsKeep DEF KeepsClaims
    <2> HIDE DEF w3
    <2>6. HasClaims(w4) /\ KeepsClaims(w3, w4)
      BY <2>5, PoolsKeep DEF KeepsClaims
    <2> HIDE DEF w4
    <2>7. HasClaims(w5) /\ KeepsClaims(w4, w5)
      BY <2>6, PoolsKeep DEF KeepsClaims
    <2> HIDE DEF w5
    <2>8. KeepsClaims(w5, v)
      BY <2>1, <2>7, PoolsKeep
    <2> QED
      BY <2>3, <2>4, <2>5, <2>6, <2>7, <2>8, KeepsBoth
  <1> QED
    BY <1>1, <1>2, <1>3

\* _moveOffsetCollAndDebt
LEMMA OffsetKeeps ==
  ASSUME NEW w, HasClaims(w), NEW t, NEW pool, NEW v, v = moveOffsetCollAndDebt(w, t, pool)
  PROVE  KeepsClaims(w, v)
  <1> DEFINE x == t.debtToOffset
             c == t.collToSendToSP
             w1 == activePoolDecreaseTHUSDDebt(w, x)
             w2 == thusdBurn(w1, stabilityPoolAddress, x)
  <1>1. CASE pool = 0 \/ x = 0
    <2>1. v = w
      BY <1>1 DEF moveOffsetCollAndDebt
    <2> QED
      BY <2>1 DEF KeepsClaims
  <1>2. CASE ~(pool = 0 \/ x = 0)
    <2>1. v = activePoolSendCollateral(w2, stabilityPoolAddress, c)
      BY <1>2 DEF moveOffsetCollAndDebt
    <2> HIDE DEF x, c
    <2>2. HasClaims(w1) /\ KeepsClaims(w, w1)
      BY PoolsKeep DEF KeepsClaims
    <2> HIDE DEF w1
    <2>3. HasClaims(w2) /\ KeepsClaims(w1, w2)
      BY <2>2, PoolsKeep DEF KeepsClaims
    <2> HIDE DEF w2
    <2>4. KeepsClaims(w2, v)
      BY <2>1, <2>3, PoolsKeep
    <2> QED
      BY <2>2, <2>3, <2>4, KeepsBoth
  <1> QED
    BY <1>1, <1>2

\* What follows a sequence changes no trove and no claim, and refuses a sequence that has
\* taken no debt ("nothing to liquidate").
LEMMA FinishKeeps ==
  ASSUME NEW s, HasClaims(s.w), NEW u, NEW pool, NEW v, v = finishLiquidation(s, u, pool)
  PROVE  KeepsClaims(s.w, v) /\ (v.ok => s.totals.entireTroveDebt > 0)
  <1> DEFINE t == s.totals
             g == t.collGasCompensation
             h == t.THUSDGasCompensation
             y == t.collSurplus
             cond == t.entireTroveDebt > 0
             w1 == Require(s.w, cond)
             w2 == moveOffsetCollAndDebt(w1, t, pool)
             w3 == redistributeDebtAndColl(w2, t.debtToRedistribute, t.collToRedistribute)
             w4 == activePoolSendCollateral(w3, collSurplusPoolAddress, y)
             w5 == collSurplusPoolReceive(w4, y)
             w6 == updateSystemSnapshots_excludeCollRemainder(w5, g)
             e == [event |-> "Liquidation",
                   liquidatedDebt |-> t.entireTroveDebt,
                   liquidatedColl |-> t.entireTroveColl - g - y,
                   collGasCompensation |-> g,
                   THUSDGasCompensation |-> h]
             w7 == Emit(w6, e)
             w8 == thusdTransfer(w7, gasPoolAddress, u, h)
  <1>1. v = activePoolSendCollateral(w8, u, g)
    BY DEF finishLiquidation, sendCollSurplus, sendGasCompensation
  <1>2. w1.ok => cond
    <2>1. IsState(s.w)
      BY DEF HasClaims
    <2> QED
      BY <2>1 DEF Require, IsState, StateFields
  <1>3. HasClaims(w1) /\ KeepsClaims(s.w, w1)
    BY PoolsKeep DEF KeepsClaims
  <1> HIDE DEF w1, g, h, y, e
  <1>4. HasClaims(w2) /\ KeepsClaims(w1, w2)
    BY <1>3, OffsetKeeps DEF KeepsClaims
  <1> HIDE DEF w2
  <1>5. HasClaims(w3) /\ KeepsClaims(w2, w3)
    BY <1>4, RedistributeKeeps DEF KeepsClaims
  <1> HIDE DEF w3
  <1>6. HasClaims(w4) /\ KeepsClaims(w3, w4)
    BY <1>5, PoolsKeep DEF KeepsClaims
  <1> HIDE DEF w4
  <1>7. HasClaims(w5) /\ KeepsClaims(w4, w5)
    BY <1>6, PoolsKeep DEF KeepsClaims
  <1> HIDE DEF w5
  <1>8. HasClaims(w6) /\ KeepsClaims(w5, w6)
    BY <1>7, PoolsKeep DEF KeepsClaims
  <1> HIDE DEF w6
  <1>9. HasClaims(w7) /\ KeepsClaims(w6, w7)
    BY <1>8, PoolsKeep DEF KeepsClaims
  <1> HIDE DEF w7
  <1>10. HasClaims(w8) /\ KeepsClaims(w7, w8)
    BY <1>9, PoolsKeep DEF KeepsClaims
  <1> HIDE DEF w8
  <1>11. KeepsClaims(w8, v)
    BY <1>1, <1>10, PoolsKeep
  <1>12. KeepsClaims(w1, v)
    BY <1>4, <1>5, <1>6, <1>7, <1>8, <1>9, <1>10, <1>11, KeepsBoth
  <1>13. v.ok => w1.ok
    BY <1>3, <1>12 DEF KeepsClaims
  <1> QED
    BY <1>2, <1>3, <1>12, <1>13, KeepsBoth

\* A whole liquidation that does not revert liquidates some trove, takes only troves that
\* may be taken, and opens or writes no other.
LEMMA LiquidationFair ==
  ASSUME NEW w, Balanced(w), NEW pool \in Nat, NEW pr, NEW s, LoopRuns(w, pool, pr, s),
         NEW u \in Users, NEW v, v = finishLiquidation(s, u, pool), v.ok
  PROVE  /\ v.mintList = w.mintList
         /\ \A b \in Users : \/ FairlyTaken(w, v, pr, b)
                             \/ v.status[b] = w.status[b] /\ v.debt[b] = w.debt[b]
         /\ \E b \in Users : FairlyTaken(w, v, pr, b)
         /\ w.mintList /\ Peopled(w) => Peopled(v)
  <1> DEFINE x == s.w
  <1>1. LoopSound(w, pool, s) /\ LoopFair(w, pr, s) /\ Ready(x)
    BY DEF LoopRuns, LoopSound
  <1>2. x.ok
    BY <1>1, LiquidationBalanced
  <1>3. HasClaims(x)
    <2>1. IsState(x) /\ x.collSurplusPool \in [collateral : Nat, balances : [Users -> Nat]]
      BY <1>1, <1>2 DEF Ready, Sound, PoolTypes
    <2> HIDE DEF x
    <2> QED
      BY <2>1 DEF HasClaims
  <1>4. KeepsClaims(x, v) /\ s.totals.entireTroveDebt > 0
    BY <1>3, FinishKeeps
  <1>5. /\ v.status = x.status /\ v.debt = x.debt /\ v.mintList = x.mintList
        /\ v.collSurplusPool.balances = x.collSurplusPool.balances
    BY <1>3, <1>4 DEF KeepsClaims
  <1>6. s.totals.entireTroveDebt # 0
    <2>1. s.totals.entireTroveDebt \in Nat
      BY <1>1, <1>2 DEF LoopSound, SoundVals
    <2> QED
      BY <1>4, <2>1
  <1>7. /\ SameTerms(w, x)
        /\ \A b \in Users : Untouched(w, x, b) \/ FairlyTaken(w, x, pr, b)
        /\ \E b \in Users : FairlyTaken(w, x, pr, b)
        /\ w.mintList /\ Peopled(w) => Peopled(x)
    BY <1>1, <1>2, <1>6 DEF LoopFair
  <1> HIDE DEF x
  <1>8. \A b \in Users : FairlyTaken(w, x, pr, b) => FairlyTaken(w, v, pr, b)
    BY <1>5 DEF FairlyTaken
  <1> QED
    BY <1>5, <1>7, <1>8 DEF SameTerms, Untouched, SameTrove, Peopled

-----------------------------------------------------------------------------
(* Redemptions. *)

\* _redeemCloseTrove burns the gas compensation and leaves the rest to the owner.
LEMMA LeadRedeemClose ==
  ASSUME NEW w, Ready(w), NEW b \in Users, NEW c, w.ok => c \in Nat,
         NEW v, v = redeemCloseTrove(w, b, c)
  PROVE  /\ Ready(v)
         /\ Leads(w, v, 0 - THUSD_GAS_COMPENSATION, 0 - c, 0, 0 - THUSD_GAS_COMPENSATION, 0, 0)
         /\ Follows(w, v)
  <1> DEFINE g == THUSD_GAS_COMPENSATION
             w1 == thusdBurn(w, gasPoolAddress, g)
             w2 == activePoolDecreaseTHUSDDebt(w1, g)
             w3 == accountSurplus(w2, b, c)
             w4 == collSurplusPoolReceive(w3, c)
  <1>1. v = activePoolSendCollateral(w4, collSurplusPoolAddress, c)
    BY DEF redeemCloseTrove
  <1>2. /\ g \in Nat /\ gasPoolAddress \in Accounts
        /\ At(gasPoolAddress, gasPoolAddress, g) = g
        /\ At(gasPoolAddress, stabilityPoolAddress, g) = 0
    BY BaseAssumption, Addresses DEF At
  <1> HIDE DEF g
  <1>3. /\ Ready(w1)
        /\ Leads(w, w1, 0, 0, -g, -At(gasPoolAddress, gasPoolAddress, g), 0,
                 -At(gasPoolAddress, stabilityPoolAddress, g))
        /\ Follows(w, w1)
    BY <1>2, LeadBurn, PoolsFollow DEF Ready
  <1> HIDE DEF w1
  <1>4. Ready(w2) /\ Leads(w1, w2, -g, 0, g, 0, 0, 0) /\ Follows(w1, w2)
    BY <1>2, <1>3, LeadDecrease, PoolsFollow DEF Ready
  <1> HIDE DEF w2
  <1>5. w2.ok => c \in Nat
    BY <1>3, <1>4 DEF Leads
  <1>6. Ready(w3) /\ Leads(w2, w3, 0, 0, 0, 0, -c, 0) /\ Follows(w2, w3)
    BY <1>4, <1>5, LeadAccountSurplus, PoolsFollow DEF Ready
  <1> HIDE DEF w3
  <1>7. w3.ok => c \in Nat
    BY <1>5, <1>6 DEF Leads
  <1>8. Ready(w4) /\ Leads(w3, w4, 0, 0, 0, 0, c, 0) /\ Follows(w3, w4)
    BY <1>6, <1>7, LeadSurplusReceive, PoolsFollow DEF Ready
  <1> HIDE DEF w4
  <1>9. w4.ok => c \in Nat
    BY <1>7, <1>8 DEF Leads
  <1>10. Ready(v) /\ Leads(w4, v, 0, -c, 0, 0, 0, 0) /\ Follows(w4, v)
    BY <1>1, <1>8, <1>9, LeadSend, PoolsFollow DEF Ready
  <1>11. Leads(w, v, 0 - g, 0 - c, 0, 0 - g, 0, 0)
    <2> SUFFICES ASSUME v.ok PROVE Leads(w, v, 0 - g, 0 - c, 0, 0 - g, 0, 0)
      BY DEF Leads
    <2>1. w4.ok /\ w3.ok /\ w2.ok /\ w1.ok /\ w.ok /\ c \in Nat
      BY <1>3, <1>4, <1>6, <1>8, <1>9, <1>10 DEF Leads
    <2>2. Sound(w)
      BY <2>1 DEF Ready
    <2>3. /\ DebtGap(w) \in Int /\ CollGap(w) \in Int /\ SupplyGap(w) \in Int
          /\ ReserveGap(w) \in Int /\ SurplusGap(w) \in Int /\ Pooled(w) \in Int
      BY <2>2, GapTypes
    <2> QED
      BY <1>2, <1>3, <1>4, <1>6, <1>8, <1>10, <2>1, <2>3 DEF Leads
  <1>12. Follows(w, v)
    BY <1>3, <1>4, <1>6, <1>8, <1>10 DEF Follows, SameTroves
  <1> QED
    BY <1>10, <1>11, <1>12 DEF g

\* The redemption r from one trove took r.lot of the debt and r.collLot of the collateral.
Redeemed(w, most, r) ==
  /\ Ready(r.w)
  /\ r.w.ok => r.lot \in Nat /\ r.collLot \in Nat /\ r.lot <= most
  /\ Leads(w, r.w, r.lot, r.collLot, 0, 0, 0, 0)
  /\ Spares(w, r.w)

\* _redeemCollateralFromTrove: a trove is closed, reduced or passed over.
LEMMA TroveRedeemed ==
  ASSUME NEW w, Ready(w), NEW b \in Users, NEW most, w.ok => most \in Nat,
         NEW pr \in Nat \ {0}, NEW fresh, NEW pos,
         NEW r, r = redeemCollateralFromTrove(w, b, most, pr, fresh, pos)
  PROVE  Redeemed(w, most, r)
  <1> DEFINE g == THUSD_GAS_COMPENSATION
             lot == MinOf(most, w.debt[b] - g)
             collLot == (lot * DECIMAL_PRECISION) \div pr
             d == w.debt[b] - lot
             c == w.coll[b] - collLot
             cond == c >= 0 /\ lot >= 0
             checked == Require(w, cond)
             q == computeNominalCR(c, d)
             w1 == closeTrove(removeStake(w, b), b, "closedByRedemption")
             w2 == redeemCloseTrove(w1, b, c)
             w3 == updateStakeAndTotalStakes(
                     [insertAt(w, b, q, pos) EXCEPT !.debt[b] = d, !.coll[b] = c], b)
             e2 == TroveUpdated(w2, b, "redeemCollateral")
             e3 == TroveUpdated(w3, b, "redeemCollateral")
             Done(x) == [w |-> x, lot |-> lot, collLot |-> collLot, cancelledPartial |-> FALSE]
             refused == Done(checked)
             closed == Done(Emit(w2, e2))
             kept == [w |-> w, lot |-> 0, collLot |-> 0, cancelledPartial |-> TRUE]
             partial == Done(Emit(w3, e3))
  <1>1. \/ r = refused /\ ~checked.ok
        \/ r = closed /\ checked.ok /\ d = g
        \/ r = kept /\ checked.ok
        \/ r = partial /\ checked.ok /\ ~(getNetDebt(d) < MIN_NET_DEBT)
    <2> HIDE DEF refused, closed, kept, partial, checked, d
    <2>1. r = CASE ~checked.ok -> refused
                [] checked.ok /\ d = THUSD_GAS_COMPENSATION -> closed
                [] /\ checked.ok /\ d # THUSD_GAS_COMPENSATION
                   /\ ~fresh \/ getNetDebt(d) < MIN_NET_DEBT -> kept
                [] OTHER -> partial
      BY DEF redeemCollateralFromTrove, refused, closed, kept, partial, checked, d,
             emitTroveUpdated
    <2> QED
      BY <2>1, SMT
  <1>2. IsState(w) /\ cond \in BOOLEAN
    BY DEF Ready
  <1>3. /\ Ready(checked) /\ (checked.ok => w.ok /\ cond)
    BY <1>2, LeadRequire, RequireOk
  <1>4. g \in Nat \ {0} /\ DECIMAL_PRECISION \in Nat
    BY BaseAssumption
  <1>5. ASSUME checked.ok
        PROVE  /\ w.ok /\ w.status[b] = "active"
               /\ lot \in Nat /\ collLot \in Nat /\ d \in Nat /\ c \in Nat /\ lot <= most
               /\ w.debt[b] - d = lot /\ w.coll[b] - c = collLot
               /\ w.debt[b] \in Nat /\ w.coll[b] \in Nat
    <2>1. /\ w.ok /\ cond /\ Sound(w)
      BY <1>3, <1>5 DEF Ready
    <2>2. w.debt[b] \in Nat /\ w.coll[b] \in Nat /\ most \in Nat
      BY <2>1, PendingTypes
    <2>3. lot \in Nat /\ lot <= most /\ lot <= w.debt[b] - g /\ w.debt[b] > 0
      BY <1>4, <2>1, <2>2 DEF MinOf
    <2>4. w.status[b] = "active"
      <3>1. TroveOf(w, b)
        BY <2>1 DEF Sound
      <3> QED
        BY <2>3, <3>1 DEF TroveOf
    <2> HIDE DEF lot
    <2>5. lot * DECIMAL_PRECISION \in Nat
      BY <1>4, <2>3, MulNat
    <2>6. collLot \in Nat
      BY <2>5, DivNat
    <2> HIDE DEF collLot
    <2> QED
      BY <1>4, <2>1, <2>2, <2>3, <2>4, <2>6
  <1> HIDE DEF checked, cond, c, d, lot, collLot, q, g
  <1>6. CASE r = refused /\ ~checked.ok
    <2>1. r.w = checked
      BY <1>6
    <2> QED
      BY <1>3, <1>6, <2>1 DEF Redeemed, Leads, Spares
  <1>7. CASE r = closed /\ checked.ok /\ d = g
    <2>1. r.w = Emit(w2, e2) /\ r.lot = lot /\ r.collLot = collLot
      BY <1>7
    <2>2. "closedByRedemption" \in Statuses \ {"active"}
      BY DEF Statuses
    <2>3. /\ Ready(w1) /\ Leads(w, w1, w.debt[b], w.coll[b], 0, g, 0, 0)
          /\ Rewrites(w, w1, b, "closedByRedemption", 0)
      BY <1>5, <1>7, <2>2, LeadClose DEF g
    <2>a. Spares(w, w1)
      <3>1. w1.ok /\ w.mintList => Others(w, b)
        BY <1>5, <1>7, <2>2, LeadClose
      <3>2. "closedByRedemption" # "closedByLiquidation" /\ "closedByRedemption" # "active"
        OBVIOUS
      <3> QED
        BY <2>3, <3>1, <3>2, RewriteSpares
    <2> HIDE DEF w1
    <2>4. c \in Nat
      BY <1>5, <1>7
    <2>5. Ready(w2) /\ Leads(w1, w2, 0 - g, 0 - c, 0, 0 - g, 0, 0) /\ Follows(w1, w2)
      BY <2>3, <2>4, LeadRedeemClose DEF g
    <2> HIDE DEF w2, e2
    <2> DEFINE v == Emit(w2, e2)
    <2>6. Ready(v) /\ Leads(w2, v, 0, 0, 0, 0, 0, 0) /\ Follows(w2, v)
      BY <2>5, LeadEmit, PoolsFollow DEF Ready
    <2> HIDE DEF v
    <2>b. Spares(w, v)
      BY <2>a, <2>5, <2>6, FollowsSpares, SparesBoth
    <2>7. Leads(w, v, lot, collLot, 0, 0, 0, 0)
      <3> SUFFICES ASSUME v.ok PROVE Leads(w, v, lot, collLot, 0, 0, 0, 0)
        BY DEF Leads
      <3>1. w2.ok /\ w1.ok /\ w.ok
        BY <2>3, <2>5, <2>6 DEF Leads
      <3>2. Sound(w)
        BY <3>1 DEF Ready
      <3>3. /\ DebtGap(w) \in Int /\ CollGap(w) \in Int /\ SupplyGap(w) \in Int
            /\ ReserveGap(w) \in Int /\ SurplusGap(w) \in Int /\ Pooled(w) \in Int
        BY <3>2, GapTypes
      <3>4. /\ Leads(w, w1, w.debt[b], w.coll[b], 0, g, 0, 0)
            /\ Leads(w1, w2, 0 - g, 0 - c, 0, 0 - g, 0, 0) /\ Leads(w2, v, 0, 0, 0, 0, 0, 0)
        BY <2>3, <2>5, <2>6
      <3>5. lot \in Nat /\ collLot \in Nat /\ c \in Nat /\ w.debt[b] - g = lot
            /\ w.coll[b] - c = collLot /\ w.debt[b] \in Nat /\ w.coll[b] \in Nat
        BY <1>5, <1>7
      <3>6. DebtGap(v) = DebtGap(w) + lot /\ CollGap(v) = CollGap(w) + collLot
        <4>1. /\ DebtGap(w1) = DebtGap(w) + w.debt[b] /\ CollGap(w1) = CollGap(w) + w.coll[b]
          BY <3>1, <3>4 DEF Leads
        <4>2. /\ DebtGap(w2) = DebtGap(w1) + (0 - g) /\ CollGap(w2) = CollGap(w1) + (0 - c)
          BY <3>1, <3>4 DEF Leads
        <4>3. DebtGap(v) = DebtGap(w2) + 0 /\ CollGap(v) = CollGap(w2) + 0
          BY <3>4 DEF Leads
        <4>4. DebtGap(v) = DebtGap(w) + lot
          <5>1. lot \in Nat /\ w.debt[b] = lot + g
            BY <1>4, <3>5
          <5>2. DebtGap(w1) = DebtGap(w) + (lot + g)
            BY <4>1, <5>1
          <5> QED
            BY <1>4, <3>3, <4>2, <4>3, <5>1, <5>2
        <4>5. CollGap(v) = CollGap(w) + collLot
          BY <3>3, <3>5, <4>1, <4>2, <4>3
        <4> QED
          BY <4>4, <4>5
      <3>7. /\ SupplyGap(v) = SupplyGap(w) /\ ReserveGap(v) = ReserveGap(w)
            /\ SurplusGap(v) = SurplusGap(w) /\ Pooled(v) = Pooled(w)
        BY <1>4, <3>1, <3>3, <3>4 DEF Leads
      <3> QED
        BY <3>1, <3>3, <3>5, <3>6, <3>7 DEF Leads
    <2> QED
      BY <1>5, <1>7, <2>1, <2>6, <2>7, <2>b DEF Redeemed, v
  <1>8. CASE r = kept /\ checked.ok
    <2>1. r.w = w /\ r.lot = 0 /\ r.collLot = 0
      BY <1>8
    <2>2. Leads(w, w, 0, 0, 0, 0, 0, 0)
      BY GapTypes DEF Leads, Ready
    <2>3. 0 <= most
      BY <1>5, <1>8
    <2>4. Spares(w, w)
      BY DEF Spares
    <2> QED
      BY <2>1, <2>2, <2>3, <2>4 DEF Redeemed
  <1>9. CASE r = partial /\ checked.ok /\ ~(getNetDebt(d) < MIN_NET_DEBT)
    <2>1. r.w = Emit(w3, e3) /\ r.lot = lot /\ r.collLot = collLot
      BY <1>9
    <2>2. w.status[b] = "active" /\ c \in Nat /\ d \in Nat
      BY <1>5, <1>9
    <2>3. /\ Ready(w3) /\ Leads(w, w3, w.debt[b] - d, w.coll[b] - c, 0, 0, 0, 0)
          /\ Rewrites(w, w3, b, "active", d)
      BY <2>2, LeadPartial
    <2>a. Spares(w, w3)
      <3>1. getNetDebt(d) >= MIN_NET_DEBT
        BY <1>9, <2>2, BaseAssumption DEF getNetDebt
      <3> QED
        BY <2>3, <3>1, RewriteSpares
    <2> HIDE DEF w3, e3
    <2> DEFINE v == Emit(w3, e3)
    <2>4. Ready(v) /\ Leads(w3, v, 0, 0, 0, 0, 0, 0) /\ Follows(w3, v)
      BY <2>3, LeadEmit, PoolsFollow DEF Ready
    <2> HIDE DEF v
    <2>b. Spares(w, v)
      BY <2>a, <2>4, FollowsSpares, SparesBoth
    <2>5. Leads(w, v, lot, collLot, 0, 0, 0, 0)
      <3> SUFFICES ASSUME v.ok PROVE Leads(w, v, lot, collLot, 0, 0, 0, 0)
        BY DEF Leads
      <3>1. w3.ok /\ w.ok
        BY <2>3, <2>4 DEF Leads
      <3>2. Sound(w)
        BY <3>1 DEF Ready
      <3>3. /\ DebtGap(w) \in Int /\ CollGap(w) \in Int /\ SupplyGap(w) \in Int
            /\ ReserveGap(w) \in Int /\ SurplusGap(w) \in Int /\ Pooled(w) \in Int
        BY <3>2, GapTypes
      <3> QED
        BY <1>5, <1>9, <2>3, <2>4, <3>1, <3>3 DEF Leads
    <2> QED
      BY <1>5, <1>9, <2>1, <2>4, <2>5, <2>b DEF Redeemed, v
  <1> QED
    BY <1>1, <1>6, <1>7, <1>8, <1>9

\* A redemption that began in w and has reached s: the books of s.w lack what was redeemed.
RedeemSound(w, s) ==
  /\ Ready(s.w)
  /\ s.w.ok => /\ s.remainingTHUSD \in Nat /\ s.totalTHUSDToRedeem \in Nat
               /\ s.totalCollateralDrawn \in Nat
  /\ Leads(w, s.w, s.totalTHUSDToRedeem, s.totalCollateralDrawn, 0, 0, 0, 0)
  /\ Spares(w, s.w)

\* One iteration of the loop of redeemCollateral.
LEMMA RedeemSteps ==
  ASSUME NEW w, Ready(w), NEW s, RedeemSound(w, s), NEW b \in Users, NEW pr \in Nat \ {0},
         NEW fresh, NEW pos,
         NEW v, v = addRedemption(s, redeemCollateralFromTrove(
                                       applyPendingRewards(s.w, b), b, s.remainingTHUSD,
                                       pr, fresh, pos))
  PROVE  RedeemSound(w, v)
  <1> DEFINE w1 == applyPendingRewards(s.w, b)
             most == s.remainingTHUSD
             r == redeemCollateralFromTrove(w1, b, most, pr, fresh, pos)
             d == s.totalTHUSDToRedeem
             c == s.totalCollateralDrawn
  <1>1. /\ v.w = r.w /\ v.remainingTHUSD = most - r.lot
        /\ v.totalTHUSDToRedeem = d + r.lot /\ v.totalCollateralDrawn = c + r.collLot
    BY DEF addRedemption
  <1>2. /\ Ready(s.w) /\ (s.w.ok => most \in Nat /\ d \in Nat /\ c \in Nat)
        /\ Leads(w, s.w, d, c, 0, 0, 0, 0) /\ Spares(w, s.w)
    BY DEF RedeemSound
  <1>3. Ready(w1) /\ Leads(s.w, w1, 0, 0, 0, 0, 0, 0) /\ Spares(s.w, w1)
    BY <1>2, LeadApply
  <1> HIDE DEF w1
  <1>4. w1.ok => most \in Nat
    BY <1>2, <1>3 DEF Leads
  <1>5. Redeemed(w1, most, r)
    BY <1>3, <1>4, TroveRedeemed
  <1> HIDE DEF r
  <1>6. /\ Ready(r.w) /\ (r.w.ok => r.lot \in Nat /\ r.collLot \in Nat /\ r.lot <= most)
        /\ Leads(w1, r.w, r.lot, r.collLot, 0, 0, 0, 0) /\ Spares(w1, r.w)
    BY <1>5 DEF Redeemed
  <1> HIDE DEF most, d, c
  <1>7. ASSUME r.w.ok
        PROVE  /\ most - r.lot \in Nat /\ d + r.lot \in Nat /\ c + r.collLot \in Nat
               /\ Leads(w, r.w, d + r.lot, c + r.collLot, 0, 0, 0, 0)
    <2>1. w1.ok /\ s.w.ok /\ w.ok
      BY <1>2, <1>3, <1>6, <1>7 DEF Leads
    <2>2. Sound(w) /\ most \in Nat /\ d \in Nat /\ c \in Nat
      BY <1>2, <2>1 DEF Ready
    <2>3. /\ DebtGap(w) \in Int /\ CollGap(w) \in Int /\ SupplyGap(w) \in Int
          /\ ReserveGap(w) \in Int /\ SurplusGap(w) \in Int /\ Pooled(w) \in Int
      BY <2>2, GapTypes
    <2>4. r.lot \in Nat /\ r.collLot \in Nat /\ r.lot <= most
      BY <1>6, <1>7
    <2> QED
      BY <1>2, <1>3, <1>6, <1>7, <2>1, <2>2, <2>3, <2>4 DEF Leads
  <1>8. Leads(w, r.w, d + r.lot, c + r.collLot, 0, 0, 0, 0)
    BY <1>7 DEF Leads
  <1>9. Spares(w, r.w)
    BY <1>2, <1>3, <1>6, SparesBoth
  <1> QED
    BY <1>1, <1>6, <1>7, <1>8, <1>9 DEF RedeemSound

\* The loop starts at a place of the list, or not at all.
LEMMA FirstRedeemed ==
  ASSUME NEW w, NEW hint, NEW pr, Len(w.sortedTroves) \in Nat
  PROVE  firstRedeemed(w, hint, pr) \in 0..Len(w.sortedTroves)
  <1> DEFINE list == w.sortedTroves
             n == Len(list)
             R == {i \in 1..n : /\ getCurrentICR(w, list[i], pr) >= MCR
                                /\ isValidFirstRedemptionHint(w, hint, pr) => list[i] = hint}
             T == {m \in 0..n : n - m \in R \cup {0}}
  <1>1. firstRedeemed(w, hint, pr)
          = CHOOSE i \in R \cup {0} : \A j \in R \cup {0} : j <= i
    BY DEF firstRedeemed
  <1>2. n \in Nat /\ R \subseteq 1..n
    OBVIOUS
  <1> HIDE DEF R, n
  <1>3. n \in T /\ T \subseteq Nat
    BY <1>2
  <1>4. PICK m \in T : \A k \in T : m <= k
    <2> HIDE DEF T
    <2> QED
      BY <1>3, LeastNat
  <1>5. n - m \in R \cup {0} /\ \A j \in R \cup {0} : j <= n - m
    <2>1. ASSUME NEW j \in R \cup {0} PROVE j <= n - m
      <3>1. n - j \in 0..n /\ n - (n - j) = j
        BY <1>2
      <3>2. n - j \in T
        BY <3>1
      <3>3. j \in Nat
        BY <1>2
      <3> HIDE DEF T
      <3>4. m <= n - j /\ m \in Nat
        BY <1>3, <1>4, <3>2
      <3> QED
        BY <1>2, <3>3, <3>4
    <2> QED
      BY <1>4, <2>1
  <1>6. (CHOOSE i \in R \cup {0} : \A j \in R \cup {0} : j <= i) \in R \cup {0}
    BY <1>5
  <1> DEFINE f == CHOOSE i \in R \cup {0} : \A j \in R \cup {0} : j <= i
  <1>7. f \in R \cup {0}
    BY <1>6
  <1> HIDE DEF f
  <1>8. f \in 0..n
    BY <1>2, <1>7
  <1> QED
    BY <1>1, <1>8 DEF n, f

\* The loop of redeemCollateral, over the troves from the first redeemed one to the head.
LEMMA RedeemLoopSound ==
  ASSUME NEW w, Ready(w), w.ok, NEW a \in Nat, NEW hint, NEW pr \in Nat \ {0}, NEW fresh,
         NEW pos, NEW most \in Nat,
         NEW v, v = redeemLoop(w, a, hint, pr, fresh, pos, most)
  PROVE  RedeemSound(w, v)
  <1> DEFINE list == w.sortedTroves
             start == firstRedeemed(w, hint, pr)
             n == IF most = 0 THEN start ELSE MinOf(start, most)
             s0 == [w |-> w, remainingTHUSD |-> a, totalTHUSDToRedeem |-> 0,
                    totalCollateralDrawn |-> 0, stopped |-> FALSE]
             One(x, b) == addRedemption(x, redeemCollateralFromTrove(
                            applyPendingRewards(x.w, b), b, x.remainingTHUSD, pr, fresh, pos))
             St(x, i) == IF x.stopped \/ x.remainingTHUSD = 0
                         THEN x ELSE One(x, list[start + 1 - i])
             Def(p) == [i \in 0..n |-> IF i = 0 THEN s0 ELSE St(p[i-1], i)]
  <1>0. Len(list) \in Nat /\ \A j \in 1..Len(list) : list[j] \in Users
    BY DEF Ready, Sound, ListOf
  <1>1. start \in 0..Len(list) /\ n \in Nat /\ n <= start
    <2>1. start \in 0..Len(list)
      BY <1>0, FirstRedeemed
    <2> HIDE DEF start
    <2> QED
      BY <1>0, <2>1 DEF MinOf
  <1>2. v = (CHOOSE p : p = Def(p))[n]
    BY DEF redeemLoop
  <1> HIDE DEF n, start
  <1>3. RedeemSound(w, s0)
    <2>1. Leads(w, w, 0, 0, 0, 0, 0, 0)
      BY GapTypes DEF Leads, Ready
    <2>2. Spares(w, w)
      BY DEF Spares
    <2> QED
      BY <2>1, <2>2 DEF RedeemSound
  <1>4. ASSUME NEW x, NEW i \in 1..n, RedeemSound(w, x)
        PROVE  RedeemSound(w, St(x, i))
    <2> DEFINE b == list[start + 1 - i]
    <2>1. start + 1 - i \in 1..Len(list)
      BY <1>0, <1>1
    <2>2. b \in Users
      BY <1>0, <2>1
    <2> HIDE DEF b
    <2>3. RedeemSound(w, One(x, b))
      BY <1>4, <2>2, RedeemSteps
    <2> HIDE DEF One
    <2>4. St(x, i) = x \/ St(x, i) = One(x, b)
      BY DEF b
    <2> HIDE DEF St
    <2> QED
      BY <1>4, <2>3, <2>4
  <1> HIDE DEF s0, St
  <1>5. \E q : q = Def(q)
    <2> DEFINE T == {m \in Nat : \E f : f = [i \in 0..m |-> IF i = 0 THEN s0
                                                            ELSE St(f[i-1], i)]}
    <2>1. 0 \in T
      <3> DEFINE f == [i \in 0..0 |-> s0]
      <3>1. f = [i \in 0..0 |-> IF i = 0 THEN s0 ELSE St(f[i-1], i)]
        OBVIOUS
      <3> QED
        BY <3>1
    <2>2. ASSUME NEW m \in Nat, m \in T PROVE m + 1 \in T
      <3>1. PICK f : f = [i \in 0..m |-> IF i = 0 THEN s0 ELSE St(f[i-1], i)]
        BY <2>2
      <3> DEFINE h == [i \in 0..m + 1 |-> IF i <= m THEN f[i] ELSE St(f[m], m + 1)]
      <3>2. ASSUME NEW i \in 0..m + 1
            PROVE  h[i] = IF i = 0 THEN s0 ELSE St(h[i-1], i)
        <4>1. CASE i = 0
          BY <3>1, <4>1
        <4>2. CASE i # 0 /\ i <= m
          <5>1. i \in 0..m /\ i - 1 \in 0..m /\ i - 1 \in 0..m + 1 /\ i - 1 <= m
            BY <4>2
          <5>2. h[i] = f[i] /\ h[i-1] = f[i-1]
            BY <4>2, <5>1
          <5>3. f[i] = St(f[i-1], i)
            BY <3>1, <4>2, <5>1
          <5> QED
            BY <4>2, <5>2, <5>3
        <4>3. CASE i = m + 1
          <5>1. i - 1 = m /\ m \in 0..m + 1 /\ ~(m + 1 <= m) /\ m <= m
            BY <4>3
          <5>2. h[i] = St(f[m], m + 1) /\ h[m] = f[m]
            BY <4>3, <5>1
          <5> QED
            BY <4>3, <5>1, <5>2
        <4> QED
          BY <4>1, <4>2, <4>3
      <3>3. h = [i \in 0..m + 1 |-> IF i = 0 THEN s0 ELSE St(h[i-1], i)]
        <4> HIDE DEF h
        <4>1. h = [i \in 0..m + 1 |-> h[i]]
          BY DEF h
        <4> QED
          BY <3>2, <4>1
      <3>4. \E g : g = [i \in 0..m + 1 |-> IF i = 0 THEN s0 ELSE St(g[i-1], i)]
        <4> HIDE DEF h
        <4> QED
          BY <3>3
      <3>5. m + 1 \in Nat
        OBVIOUS
      <3> QED
        BY <3>4, <3>5, Zenon
    <2> HIDE DEF T
    <2>3. n \in T
      BY <1>1, <2>1, <2>2, SetInduction
    <2> QED
      BY <2>3 DEF T
  <1> HIDE DEF Def
  <1>6. PICK p : p = Def(p) /\ v = p[n]
    BY <1>2, <1>5
  <1>7. p = [i \in 0..n |-> IF i = 0 THEN s0 ELSE St(p[i-1], i)]
    BY <1>6 DEF Def
  <1> DEFINE U == {m \in Nat : m <= n => RedeemSound(w, p[m])}
  <1>8. 0 \in U
    BY <1>1, <1>3, <1>7
  <1>9. ASSUME NEW m \in Nat, m \in U PROVE m + 1 \in U
    <2> SUFFICES ASSUME m + 1 <= n PROVE RedeemSound(w, p[m + 1])
      OBVIOUS
    <2>1. m <= n /\ m + 1 \in 1..n /\ m + 1 \in 0..n /\ (m + 1) - 1 = m /\ m + 1 # 0
      BY <1>1
    <2>2. RedeemSound(w, p[m])
      BY <1>9, <2>1
    <2>3. p[m + 1] = St(p[m], m + 1)
      BY <1>7, <2>1
    <2> QED
      BY <1>4, <2>1, <2>2, <2>3
  <1> HIDE DEF U
  <1>10. n \in U
    BY <1>1, <1>8, <1>9, SetInduction
  <1> QED
    BY <1>1, <1>6, <1>10 DEF U

\* _updateBaseRateFromRedemption, whatever is drawn.
LEMMA RedemptionRated ==
  ASSUME NEW w, Ready(w), w.ok, NEW c \in Nat, NEW pr \in Nat \ {0}, NEW supply \in Nat \ {0},
         NEW decay \in 0..DECIMAL_PRECISION,
         NEW v, v = updateBaseRateFromRedemption(w, c, pr, supply, decay)
  PROVE  /\ Ready(v) /\ Leads(w, v, 0, 0, 0, 0, 0, 0)
         /\ v.baseRate \in 0..DECIMAL_PRECISION
         /\ Spares(w, v)
  <1> DEFINE f == (c * pr) \div supply
             old == calcDecayedBaseRate(w, decay)
             rate == MinOf(old + f \div BETA, DECIMAL_PRECISION)
             cond == rate > 0
             x == Require(w, cond)
  <1>1. v = [x EXCEPT !.baseRate = rate]
    BY DEF updateBaseRateFromRedemption
  <1>2. DECIMAL_PRECISION \in Nat /\ BETA \in Nat \ {0}
    BY BaseAssumption, FeeAssumption
  <1>3. c * pr \in Nat
    BY MulNat
  <1>4. f \in Nat
    BY <1>3, DivNat
  <1> HIDE DEF f
  <1>5. f \div BETA \in Nat
    BY <1>2, <1>4, DivNat
  <1>6. old \in Nat
    BY <1>2, DecayedRate DEF Ready
  <1> HIDE DEF old
  <1>7. rate \in 0..DECIMAL_PRECISION
    BY <1>2, <1>5, <1>6 DEF MinOf
  <1> HIDE DEF rate
  <1>8. cond \in BOOLEAN
    OBVIOUS
  <1> HIDE DEF cond
  <1>9. IsState(x) /\ (x.ok => w.ok) /\ SameTroves(w, x) /\ SamePools(w, x)
    BY <1>8 DEF Ready, IsState, StateFields, SameTroves, SamePools, Require
  <1> HIDE DEF x
  <1>10. Rated(w, v, rate)
    BY <1>1, <1>9 DEF Rated, IsState, StateFields, SameTroves, SamePools
  <1>11. Ready(v) /\ Leads(w, v, 0, 0, 0, 0, 0, 0)
    BY <1>7, <1>10, LeadRated
  <1>12. Spares(w, v)
    BY <1>10 DEF Rated, Spares, OwesMinimum, Peopled
  <1> QED
    BY <1>7, <1>10, <1>11, <1>12 DEF Rated

\* A redemption fee is an amount of collateral.
LEMMA RedemptionFeeType ==
  ASSUME NEW w, w.baseRate \in 0..DECIMAL_PRECISION, NEW c \in Nat
  PROVE  calcRedemptionFee(w, c) \in Nat
  <1>1. calcRedemptionRate(w.baseRate) \in Nat /\ DECIMAL_PRECISION \in Nat \ {0}
    BY BaseAssumption, FeeAssumption DEF calcRedemptionRate, MinOf
  <1>2. calcRedemptionRate(w.baseRate) * c \in Nat
    BY <1>1, MulNat
  <1> QED
    BY <1>1, <1>2, DivNat DEF calcRedemptionFee

\* The end of redeemCollateral moves what the loop has redeemed; a fee that no PCV contract
\* receives stays in the ActivePool.
LEMMA SettledBalanced ==
  ASSUME NEW w, Balanced(w), NEW s, RedeemSound(w, s), s.w.ok, NEW u \in Users, NEW tried,
         NEW pr \in Nat \ {0}, NEW supply \in Nat \ {0}, NEW m, NEW decay \in 0..DECIMAL_PRECISION,
         NEW v, v = settleRedemption(s, u, tried, pr, supply, m, decay)
  PROVE  Balanced(v) /\ (v.ok => w.ok /\ Pooled(v) = Pooled(w)) /\ Spares(w, v)
  <1> DEFINE c == s.totalCollateralDrawn
             d == s.totalTHUSDToRedeem
             w1 == updateBaseRateFromRedemption(s.w, c, pr, supply, decay)
             fee == calcRedemptionFee(w1, c)
             w2 == IF HasPCV THEN activePoolSendCollateral(w1, pcvAddress, fee) ELSE w1
             cond == fee < c /\ userAcceptsFee(fee, c, m)
             w3 == Require(w2, cond)
             e == [event |-> "Redemption", attempted |-> tried, actual |-> d,
                   collateralSent |-> c, fee |-> fee]
             w4 == Emit(w3, e)
             w5 == thusdBurn(w4, u, d)
             w6 == activePoolDecreaseTHUSDDebt(w5, d)
             paid == IF HasPCV THEN fee ELSE 0
  <1>1. v = activePoolSendCollateral(w6, u, c - fee)
    BY DEF settleRedemption
  <1>2. /\ Ready(s.w) /\ d \in Nat /\ c \in Nat /\ Leads(w, s.w, d, c, 0, 0, 0, 0)
        /\ Spares(w, s.w)
    BY DEF RedeemSound
  <1> HIDE DEF c, d
  <1>3. /\ Ready(w1) /\ Leads(s.w, w1, 0, 0, 0, 0, 0, 0)
        /\ w1.baseRate \in 0..DECIMAL_PRECISION /\ Spares(s.w, w1)
    BY <1>2, RedemptionRated
  <1> HIDE DEF w1
  <1>4. fee \in Nat
    BY <1>2, <1>3, RedemptionFeeType
  <1> HIDE DEF fee
  <1>5. /\ Ready(w2) /\ Leads(w1, w2, 0, 0 - paid, 0, 0, 0, 0) /\ paid \in Nat
        /\ Spares(w1, w2)
    <2>1. CASE HasPCV
      <3>1. w2 = activePoolSendCollateral(w1, pcvAddress, fee)
        BY <2>1
      <3> HIDE DEF w2
      <3>2. Ready(w2) /\ Leads(w1, w2, 0, -fee, 0, 0, 0, 0)
        BY <1>3, <1>4, <3>1, LeadSend
      <3>3. paid = fee /\ 0 - paid = -fee
        BY <1>4, <2>1
      <3>4. Spares(w1, w2)
        BY <1>3, <3>1, PoolsFollow, FollowsSpares DEF Ready
      <3> QED
        BY <1>4, <3>2, <3>3, <3>4
    <2>2. CASE ~HasPCV
      <3>1. w2 = w1 /\ paid = 0
        BY <2>2
      <3>2. Leads(w1, w1, 0, 0, 0, 0, 0, 0)
        BY <1>3, GapTypes DEF Leads, Ready
      <3>3. Spares(w1, w1)
        BY DEF Spares
      <3> QED
        BY <1>3, <3>1, <3>2, <3>3
    <2> QED
      BY <2>1, <2>2
  <1> HIDE DEF w2
  <1>6. cond \in BOOLEAN /\ (cond => fee < c)
    OBVIOUS
  <1> HIDE DEF cond
  <1>7. /\ Ready(w3) /\ Leads(w2, w3, 0, 0, 0, 0, 0, 0) /\ (w3.ok => fee < c)
        /\ Follows(w2, w3)
    BY <1>5, <1>6, LeadRequire, RequireOk, PoolsFollow DEF Ready
  <1> HIDE DEF w3, e
  <1>8. Ready(w4) /\ Leads(w3, w4, 0, 0, 0, 0, 0, 0) /\ Follows(w3, w4)
    BY <1>7, LeadEmit, PoolsFollow DEF Ready
  <1> HIDE DEF w4
  <1>9. /\ u \in Accounts /\ At(u, gasPoolAddress, d) = 0 /\ At(u, stabilityPoolAddress, d) = 0
    BY UserAccounts
  <1>10. /\ Ready(w5)
         /\ Leads(w4, w5, 0, 0, -d, -At(u, gasPoolAddress, d), 0, -At(u, stabilityPoolAddress, d))
         /\ Follows(w4, w5)
    BY <1>2, <1>8, <1>9, LeadBurn, PoolsFollow DEF Ready
  <1> HIDE DEF w5
  <1>11. Ready(w6) /\ Leads(w5, w6, -d, 0, d, 0, 0, 0) /\ Follows(w5, w6)
    BY <1>2, <1>10, LeadDecrease, PoolsFollow DEF Ready
  <1> HIDE DEF w6
  <1>12. w6.ok => c - fee \in Nat
    BY <1>2, <1>4, <1>7, <1>8, <1>10, <1>11 DEF Leads
  <1>13. Ready(v) /\ Leads(w6, v, 0, -(c - fee), 0, 0, 0, 0) /\ Follows(w6, v)
    BY <1>1, <1>11, <1>12, LeadSend, PoolsFollow DEF Ready
  <1>14. ASSUME v.ok PROVE Sound(v) /\ Books(v) /\ w.ok /\ Pooled(v) = Pooled(w)
    <2>1. w6.ok /\ w5.ok /\ w4.ok /\ w3.ok /\ w2.ok /\ w1.ok /\ w.ok
      BY <1>2, <1>3, <1>5, <1>7, <1>8, <1>10, <1>11, <1>13, <1>14 DEF Leads
    <2>2. Sound(v) /\ Sound(w) /\ Books(w)
      BY <1>13, <1>14, <2>1 DEF Ready, Balanced
    <2>3. /\ DebtGap(w) \in Int /\ CollGap(w) \in Int /\ SupplyGap(w) \in Int
          /\ ReserveGap(w) \in Int /\ SurplusGap(w) \in Int /\ Pooled(w) \in Int
      BY <2>2, GapTypes
    <2>4. CollGap(v) = CollGap(w) + fee - paid
      BY <1>2, <1>3, <1>4, <1>5, <1>7, <1>8, <1>10, <1>11, <1>12, <1>13, <1>14, <2>1, <2>3
      DEF Leads
    <2>5. /\ DebtGap(v) = DebtGap(w) /\ SupplyGap(v) = SupplyGap(w)
          /\ ReserveGap(v) = ReserveGap(w) /\ SurplusGap(v) = SurplusGap(w)
          /\ Pooled(v) = Pooled(w)
      BY <1>2, <1>3, <1>4, <1>5, <1>7, <1>8, <1>9, <1>10, <1>11, <1>12, <1>13, <1>14, <2>1,
         <2>3 DEF Leads
    <2> QED
      BY <1>4, <2>1, <2>2, <2>3, <2>4, <2>5 DEF Books
  <1>15. Spares(w, v)
    <2>1. Follows(w2, v)
      BY <1>7, <1>8, <1>10, <1>11, <1>13 DEF Follows, SameTroves
    <2>2. Spares(w2, v)
      BY <2>1, FollowsSpares
    <2> QED
      BY <1>2, <1>3, <1>5, <2>2, SparesBoth
  <1> QED
    BY <1>13, <1>14, <1>15 DEF Balanced, Ready

\* redeemCollateral
LEMMA RedemptionBalanced ==
  ASSUME NEW w, Balanced(w), w.ok, NEW u \in Users, NEW a \in Nat, NEW hint, NEW fresh, NEW pos,
         NEW most \in Nat, NEW m, NEW pr \in Nat \ {0}, NEW fs, NEW decay \in 0..DECIMAL_PRECISION,
         NEW v, v = redeemCollateral(w, u, a, hint, fresh, pos, most, m, pr, fs, decay)
  PROVE  /\ Balanced(v) /\ (v.ok => Pooled(v) = Pooled(w))
         /\ Spares(w, v) /\ (v.ok => fs # "active")
  <1> DEFINE supply == getEntireSystemDebt(w)
             cond == /\ m \in REDEMPTION_FEE_FLOOR..DECIMAL_PRECISION
                     /\ fs \in {"stale", "disabled"}
                     /\ getTCR(w, pr) >= MCR
                     /\ a > 0
                     /\ w.thusd[u] >= a
                     /\ w.thusd[u] <= supply
             w1 == Require(w, cond)
             s == redeemLoop(w1, a, hint, pr, fresh, pos, most)
  <1>1. v = IF w1.ok
            THEN IF s.w.ok /\ s.totalCollateralDrawn > 0
                 THEN settleRedemption(s, u, a, pr, supply, m, decay)
                 ELSE Require(s.w, FALSE)
            ELSE w1
    BY DEF redeemCollateral
  <1>2. Ready(w) /\ IsState(w) /\ Sound(w) /\ Books(w)
    BY DEF Balanced, Ready
  <1>3. u \in Accounts
    BY UserAccounts
  <1>4. supply \in Nat /\ w.thusd[u] \in Nat
    BY <1>2, <1>3, PoolSums DEF Sound, PoolTypes, getEntireSystemDebt
  <1> HIDE DEF supply
  <1>5. cond \in BOOLEAN /\ (cond => supply \in Nat \ {0} /\ fs # "active")
    BY <1>4
  <1> HIDE DEF cond
  <1>6. Ready(w1) /\ Leads(w, w1, 0, 0, 0, 0, 0, 0) /\ (w1.ok => cond) /\ Spares(w, w1)
    BY <1>2, <1>5, LeadRequire, RequireOk, PoolsFollow, FollowsSpares
  <1> HIDE DEF w1
  <1>7. CASE ~w1.ok
    <2>1. v = w1
      BY <1>1, <1>7
    <2> QED
      BY <1>6, <1>7, <2>1 DEF Balanced, Ready, Spares
  <1>8. CASE w1.ok
    <2>1. RedeemSound(w1, s)
      BY <1>6, <1>8, RedeemLoopSound
    <2> HIDE DEF s
    <2>2. Balanced(w1) /\ Pooled(w1) = Pooled(w)
      <3>1. /\ DebtGap(w) \in Int /\ CollGap(w) \in Int /\ SupplyGap(w) \in Int
            /\ ReserveGap(w) \in Int /\ SurplusGap(w) \in Int /\ Pooled(w) \in Int
        BY <1>2, GapTypes
      <3> QED
        BY <1>2, <1>6, <1>8, <3>1 DEF Balanced, Books, Leads, Ready
    <2>3. CASE s.w.ok /\ s.totalCollateralDrawn > 0
      <3>1. v = settleRedemption(s, u, a, pr, supply, m, decay)
        BY <1>1, <1>8, <2>3
      <3>2. supply \in Nat \ {0}
        BY <1>5, <1>6, <1>8
      <3>3. Balanced(v) /\ (v.ok => w1.ok /\ Pooled(v) = Pooled(w1)) /\ Spares(w1, v)
        BY <2>1, <2>2, <2>3, <3>1, <3>2, SettledBalanced
      <3>4. Spares(w, v) /\ fs # "active"
        BY <1>5, <1>6, <1>8, <3>3, SparesBoth
      <3> QED
        BY <2>2, <3>3, <3>4
    <2>4. CASE ~(s.w.ok /\ s.totalCollateralDrawn > 0)
      <3>1. v = Require(s.w, FALSE)
        BY <1>1, <1>8, <2>4
      <3>2. IsState(s.w)
        BY <2>1 DEF RedeemSound, Ready
      <3>3. IsState(v) /\ ~v.ok
        BY <3>1, <3>2 DEF IsState, StateFields, Require
      <3> QED
        BY <3>3 DEF Balanced, Spares
    <2> QED
      BY <2>3, <2>4
  <1> QED
    BY <1>7, <1>8


-----------------------------------------------------------------------------
(* The remaining transactions. *)

\* What changes no gap keeps the books in agreement.
LEMMA LeadBalanced ==
  ASSUME NEW w, Balanced(w), NEW v, Ready(v), NEW x, Leads(w, v, 0, 0, 0, 0, 0, x)
  PROVE  Balanced(v) /\ (v.ok => w.ok /\ Pooled(v) = Pooled(w) + x)
  <1>1. ASSUME v.ok PROVE w.ok /\ Sound(v) /\ Books(v) /\ Pooled(v) = Pooled(w) + x
    <2>1. w.ok /\ Sound(v) /\ Sound(w) /\ Books(w)
      BY <1>1 DEF Leads, Ready, Balanced
    <2>2. /\ DebtGap(v) = DebtGap(w) /\ CollGap(v) = CollGap(w) /\ SupplyGap(v) = SupplyGap(w)
          /\ ReserveGap(v) = ReserveGap(w) /\ SurplusGap(v) = SurplusGap(w)
          /\ Pooled(v) = Pooled(w) + x
      BY <1>1, <2>1, GapTypes DEF Leads
    <2> QED
      BY <2>1, <2>2 DEF Books
  <1> QED
    BY <1>1 DEF Balanced, Ready

\* claimCollateral: what the pool pays is what it owed to the borrower.
LEMMA ClaimBalanced ==
  ASSUME NEW w, Balanced(w), NEW u \in Users, NEW v, v = claimCollateral(w, u)
  PROVE  Balanced(v) /\ (v.ok => w.ok /\ Pooled(v) = Pooled(w))
  <1> DEFINE x == w.collSurplusPool.balances[u]
             e == [Still EXCEPT !.surplus = -x, !.claims = -x]
  <1>0. v = claimColl(w, u)
    BY DEF claimCollateral
  <1>1. Ready(w) /\ IsState(w)
    BY DEF Balanced, Ready
  <1>2. IsState(v) /\ (v.ok => w.ok)
    BY <1>0, <1>1, PoolsFollow DEF Follows
  <1>3. w.ok => PoolTypes(w) /\ x \in Nat
    BY DEF Balanced, Sound, PoolTypes
  <1>4. w.ok => Moves(w, v, e)
    BY <1>0, <1>1, <1>3, ClaimColl
  <1>5. /\ e.activeDebt = 0 /\ e.activeColl = 0 /\ e.defaultDebt = 0
        /\ e.surplus = -x /\ e.claims = -x
        /\ e.supply = 0 /\ e.reserve = 0 /\ e.pooled = 0
    BY DEF Still
  <1> HIDE DEF e, x
  <1>6. w.ok => /\ e.activeDebt \in Int /\ e.activeColl \in Int /\ e.defaultDebt \in Int
                /\ e.surplus \in Int /\ e.claims \in Int /\ e.supply \in Int
                /\ e.reserve \in Int /\ e.pooled \in Int
    BY <1>3, <1>5
  <1>7. /\ Ready(v)
        /\ Leads(w, v, e.activeDebt, e.activeColl, e.supply - e.activeDebt - e.defaultDebt,
                 e.reserve, e.surplus - e.claims, e.pooled)
    BY <1>1, <1>2, <1>4, <1>6, MovesLead
  <1>8. Leads(w, v, 0, 0, 0, 0, 0, 0)
    BY <1>3, <1>5, <1>7 DEF Leads
  <1>9. Balanced(v) /\ (v.ok => w.ok /\ Pooled(v) = Pooled(w) + 0)
    BY <1>7, <1>8, LeadBalanced
  <1> QED
    BY <1>3, <1>9, PoolSums DEF Pooled

\* A transfer between accounts other than the gas pool.
LEMMA TransferBalanced ==
  ASSUME NEW w, Balanced(w), NEW b \in Accounts, NEW to \in Accounts, b # to, NEW a \in Nat,
         b # gasPoolAddress, to # gasPoolAddress, NEW v, v = thusdTransfer(w, b, to, a)
  PROVE  /\ Balanced(v)
         /\ v.ok => /\ w.ok
                    /\ Pooled(v) = Pooled(w) + (At(to, stabilityPoolAddress, a)
                                                  - At(b, stabilityPoolAddress, a))
  <1> DEFINE x == At(to, stabilityPoolAddress, a) - At(b, stabilityPoolAddress, a)
  <1>1. Ready(w)
    BY DEF Balanced, Ready
  <1>2. /\ Ready(v)
        /\ Leads(w, v, 0, 0, 0, At(to, gasPoolAddress, a) - At(b, gasPoolAddress, a), 0, x)
    BY <1>1, LeadTransfer
  <1>3. At(to, gasPoolAddress, a) - At(b, gasPoolAddress, a) = 0
    BY DEF At
  <1> HIDE DEF x
  <1>4. Leads(w, v, 0, 0, 0, 0, 0, x)
    BY <1>2, <1>3
  <1>5. Balanced(v) /\ (v.ok => w.ok /\ Pooled(v) = Pooled(w) + x)
    BY <1>2, <1>4, LeadBalanced
  <1> QED
    BY <1>5 DEF x

\* provideToSP
LEMMA ProvidedBalanced ==
  ASSUME NEW w, Balanced(w), NEW u \in Users, NEW a \in Nat, NEW x, NEW y,
         NEW v, v = Emit(Emit(thusdTransfer(w, u, stabilityPoolAddress, a), x), y)
  PROVE  Balanced(v) /\ (v.ok => w.ok /\ Pooled(v) = Pooled(w) + a)
  <1> DEFINE to == stabilityPoolAddress
             w1 == thusdTransfer(w, u, to, a)
             w2 == Emit(w1, x)
  <1>1. /\ u \in Accounts /\ to \in Accounts /\ u # to
        /\ u # gasPoolAddress /\ to # gasPoolAddress
    BY UserAccounts, Addresses
  <1>2. At(to, stabilityPoolAddress, a) - At(u, stabilityPoolAddress, a) = a
    BY <1>1 DEF At
  <1>3. /\ Balanced(w1)
        /\ w1.ok => w.ok /\ Pooled(w1) = Pooled(w) + (At(to, stabilityPoolAddress, a)
                                                  - At(u, stabilityPoolAddress, a))
    BY <1>1, TransferBalanced
  <1> HIDE DEF w1, to
  <1>4. Balanced(w2) /\ w2.ok = w1.ok /\ (w1.ok => Pooled(w2) = Pooled(w1))
    BY <1>3, PricedBalanced
  <1>5. v = Emit(w2, y)
    BY DEF w1, to
  <1> HIDE DEF w2
  <1>6. Balanced(v) /\ v.ok = w2.ok /\ (w2.ok => Pooled(v) = Pooled(w2))
    BY <1>4, <1>5, PricedBalanced
  <1> QED
    BY <1>2, <1>3, <1>4, <1>6

\* withdrawFromSP: the amount may be nothing, and then nothing is transferred.
LEMMA WithdrawnBalanced ==
  ASSUME NEW w, Balanced(w), NEW u \in Users, NEW a \in Nat, NEW x, NEW y,
         NEW s, s = (IF a = 0 THEN w ELSE thusdTransfer(w, stabilityPoolAddress, u, a)),
         NEW v, v = Emit(Emit(s, x), y)
  PROVE  Balanced(v) /\ (v.ok => w.ok /\ Pooled(v) = Pooled(w) - a)
  <1> DEFINE b == stabilityPoolAddress
             w2 == Emit(s, x)
  <1>1. /\ u \in Accounts /\ b \in Accounts /\ u # b
        /\ u # gasPoolAddress /\ b # gasPoolAddress
    BY UserAccounts, Addresses
  <1>2. At(u, stabilityPoolAddress, a) - At(b, stabilityPoolAddress, a) = 0 - a
    BY <1>1 DEF At
  <1>3. w.ok => Pooled(w) \in Nat
    BY GapTypes DEF Balanced
  <1>4. Balanced(s) /\ (s.ok => w.ok /\ Pooled(s) = Pooled(w) - a)
    <2>1. CASE a = 0
      BY <1>3, <2>1
    <2>2. CASE a # 0
      <3>1. s = thusdTransfer(w, b, u, a)
        BY <2>2
      <3>2. /\ Balanced(s)
            /\ s.ok => w.ok /\ Pooled(s) = Pooled(w) + (At(u, stabilityPoolAddress, a)
                                                      - At(b, stabilityPoolAddress, a))
        BY <1>1, <3>1, TransferBalanced
      <3> QED
        BY <1>2, <1>3, <3>2
    <2> QED
      BY <2>1, <2>2
  <1>5. Balanced(w2) /\ w2.ok = s.ok /\ (s.ok => Pooled(w2) = Pooled(s))
    BY <1>4, PricedBalanced
  <1>6. v = Emit(w2, y)
    OBVIOUS
  <1> HIDE DEF w2
  <1>7. Balanced(v) /\ v.ok = w2.ok /\ (w2.ok => Pooled(v) = Pooled(w2))
    BY <1>5, <1>6, PricedBalanced
  <1> QED
    BY <1>4, <1>5, <1>7

\* w once another BorrowerOperations has minted, see BorrowElsewhere.
LentElsewhere(w, u, a, x) ==
  Emit([w EXCEPT !.thusd[u] = @ + a, !.otherDebt = @ + a], x)

\* Another BorrowerOperations mints: the supply grows by what is owed elsewhere.
LEMMA ElsewhereBalanced ==
  ASSUME NEW w, Balanced(w), w.ok, NEW u \in Users, NEW a \in Nat, NEW x,
         NEW v, v = LentElsewhere(w, u, a, x)
  PROVE  Balanced(v) /\ Pooled(v) = Pooled(w)
  <1>1. Sound(w) /\ Books(w) /\ IsState(w) /\ PoolTypes(w)
    BY DEF Balanced, Sound
  <1>2. /\ IsState(v) /\ SameTroves(w, v) /\ v.ok = w.ok
        /\ v.thusd = [w.thusd EXCEPT ![u] = @ + a] /\ v.otherDebt = w.otherDebt + a
        /\ v.activePool = w.activePool /\ v.defaultPool = w.defaultPool
        /\ v.collSurplusPool = w.collSurplusPool
    BY <1>1 DEF IsState, StateFields, SameTroves, Emit, LentElsewhere
  <1>3. /\ u \in Accounts /\ u # gasPoolAddress /\ u # stabilityPoolAddress
        /\ gasPoolAddress \in Accounts /\ stabilityPoolAddress \in Accounts
    BY UserAccounts, Addresses
  <1> DEFINE y == w.thusd[u] + a
  <1>4. /\ w.thusd \in [Accounts -> Nat] /\ w.thusd[u] \in Nat /\ y \in Nat
        /\ w.otherDebt \in Nat
    BY <1>1, <1>3 DEF PoolTypes
  <1>5. v.thusd = [w.thusd EXCEPT ![u] = y]
    BY <1>2, <1>4
  <1>6. /\ v.thusd \in [Accounts -> Nat]
        /\ SumOf(v.thusd, NumAccounts) = SumOf(w.thusd, NumAccounts) - w.thusd[u] + y
        /\ SumOf(w.thusd, NumAccounts) \in Nat
        /\ \A c \in Accounts : v.thusd[c] = IF c = u THEN y ELSE w.thusd[c]
    BY <1>3, <1>4, <1>5, BalanceWritten
  <1>7. PoolTypes(v)
    BY <1>1, <1>2, <1>4, <1>6 DEF PoolTypes
  <1>8. /\ Sound(v) /\ Open(v) = Open(w)
        /\ Total(v.debt) = Total(w.debt) /\ Total(v.coll) = Total(w.coll)
    BY <1>1, <1>2, <1>7, SameTrovesSound
  <1>9. /\ v.thusd[gasPoolAddress] = w.thusd[gasPoolAddress]
        /\ v.thusd[stabilityPoolAddress] = w.thusd[stabilityPoolAddress]
    BY <1>3, <1>6
  <1>10. SumOf(v.thusd, NumAccounts) - v.otherDebt = SumOf(w.thusd, NumAccounts) - w.otherDebt
    BY <1>2, <1>4, <1>6
  <1>11. /\ DebtGap(v) = DebtGap(w) /\ CollGap(v) = CollGap(w) /\ SupplyGap(v) = SupplyGap(w)
         /\ ReserveGap(v) = ReserveGap(w) /\ SurplusGap(v) = SurplusGap(w)
         /\ Pooled(v) = Pooled(w)
    BY <1>2, <1>8, <1>9, <1>10
    DEF DebtGap, CollGap, SupplyGap, ReserveGap, SurplusGap, Pooled, getEntireSystemDebt
  <1> QED
    BY <1>1, <1>2, <1>8, <1>11 DEF Balanced, Books


\* withdrawCollateralGainToTrove: the gain is added to the trove like collateral of its
\* owner.
LEMMA GainBalanced ==
  ASSUME NEW w, Balanced(w), NEW u \in Users, NEW gain \in Nat, NEW x, NEW y, NEW z, NEW pos,
         NEW pr, NEW v,
         v = adjustTrove(Emit(Emit(Emit(w, x), y), z), u, gain, 0, pos, 0, pr, DECIMAL_PRECISION)
  PROVE  /\ Balanced(v) /\ (v.ok => w.ok /\ Pooled(v) = Pooled(w))
         /\ Spares(w, v) /\ KeepsMode(w, v, pr)
  <1> DEFINE w1 == Emit(w, x)
             w2 == Emit(w1, y)
             w3 == Emit(w2, z)
  <1>1. Balanced(w1) /\ w1.ok = w.ok /\ (w.ok => Pooled(w1) = Pooled(w))
        /\ SamePools(w, w1) /\ SameTroves(w, w1)
    BY PricedBalanced
  <1> HIDE DEF w1
  <1>2. Balanced(w2) /\ w2.ok = w1.ok /\ (w1.ok => Pooled(w2) = Pooled(w1))
        /\ SamePools(w1, w2) /\ SameTroves(w1, w2)
    BY <1>1, PricedBalanced
  <1> HIDE DEF w2
  <1>3. Balanced(w3) /\ w3.ok = w2.ok /\ (w2.ok => Pooled(w3) = Pooled(w2))
        /\ SamePools(w2, w3) /\ SameTroves(w2, w3)
    BY <1>2, PricedBalanced
  <1>4. v = adjustTrove(w3, u, gain, 0, pos, 0, pr, DECIMAL_PRECISION)
    BY DEF w1, w2
  <1> HIDE DEF w3
  <1>5. gain \in Int /\ 0 \in Int /\ DECIMAL_PRECISION \in 0..DECIMAL_PRECISION
    BY BaseAssumption
  <1>6. /\ Balanced(v) /\ (v.ok => w3.ok /\ Pooled(v) = Pooled(w3))
        /\ Spares(w3, v) /\ KeepsMode(w3, v, pr)
    BY <1>3, <1>4, <1>5, AdjustTroveBalanced
  <1>7. SamePools(w, w3) /\ SameTroves(w, w3) /\ w3.ok = w.ok
    BY <1>1, <1>2, <1>3 DEF SamePools, SameTroves
  <1>8. Spares(w, v)
    <2>1. Spares(w, w3)
      BY <1>7 DEF Spares, OwesMinimum, Peopled, SameTroves
    <2> QED
      BY <1>6, <2>1, SparesBoth
  <1>9. KeepsMode(w, v, pr)
    <2>1. w3.mintList = w.mintList /\ checkRecoveryMode(w3, pr) = checkRecoveryMode(w, pr)
      BY <1>7 DEF SamePools, SameTroves, checkRecoveryMode, getTCR, getEntireSystemColl,
                  getEntireSystemDebt
    <2> QED
      BY <1>6, <2>1 DEF KeepsMode
  <1> QED
    BY <1>1, <1>2, <1>3, <1>6, <1>8, <1>9

-----------------------------------------------------------------------------
(* The inductive invariant. *)

\* Between transactions the books agree, nothing is reverted half-way, the Stability Pool
\* holds the deposits it counts, and its own invariant (module StabilityPoolLemmas) holds:
\* a liquidation offsets no more than the deposits, and a gain is an amount.
BooksInv ==
  /\ Balanced(system) /\ system.ok /\ system.events = <<>>
  /\ Pooled(system) = totalTHUSDDeposits
  /\ price \in Prices /\ feedStatus \in FeedStatuses
  /\ SPInv

\* What is left of the system invariant to show for a transaction that leads to w.
LEMMA Committed ==
  ASSUME NEW w, Balanced(w), Commit(w)
  PROVE  /\ Balanced(system') /\ system'.ok /\ system'.events = <<>>
         /\ Pooled(system') = Pooled(w)
  <1> DEFINE v == [w EXCEPT !.events = <<>>]
  <1>1. w.ok /\ system' = v
    BY DEF Commit
  <1>2. IsState(w) /\ Ready(w) /\ Sound(w) /\ Books(w)
    BY <1>1 DEF Balanced, Ready
  <1>3. Rated(w, v, w.baseRate) /\ v.ok = w.ok /\ v.events = <<>>
    BY <1>2 DEF Rated, IsState, StateFields, SamePools
  <1>4. w.baseRate \in 0..DECIMAL_PRECISION
    BY <1>2 DEF Sound, TroveTypes
  <1> HIDE DEF v
  <1>5. Ready(v) /\ Leads(w, v, 0, 0, 0, 0, 0, 0)
    BY <1>2, <1>3, <1>4, LeadRated
  <1>6. Balanced(v) /\ (v.ok => w.ok /\ Pooled(v) = Pooled(w) + 0)
    BY <1>5, LeadBalanced
  <1>7. Pooled(w) \in Nat
    BY <1>2, GapTypes
  <1> QED
    BY <1>1, <1>3, <1>6, <1>7

\* A transaction that leaves the Stability Pool alone.
LEMMA CommitKeepsBooks ==
  ASSUME BooksInv, UserCall, UNCHANGED spVars, NEW w, Balanced(w), Commit(w),
         Pooled(w) = Pooled(system)
  PROVE  BooksInv'
  <1>1. /\ Balanced(system') /\ system'.ok /\ system'.events = <<>>
        /\ Pooled(system') = Pooled(w)
    BY Committed
  <1>2. SPInv'
    BY DEF BooksInv, SPInv, SPTypeOK, SnapshotsBehindPool, BehindPool, spVars
  <1>3. totalTHUSDDeposits' = totalTHUSDDeposits /\ price' = price /\ feedStatus' = feedStatus
    BY DEF spVars, UserCall
  <1> QED
    BY <1>1, <1>2, <1>3 DEF BooksInv

\* A transaction that changes the Stability Pool: its deposits and the THUSD it holds
\* change alike.
LEMMA CommitMovesDeposits ==
  ASSUME BooksInv, UserCall, SPInv', NEW w, Balanced(w), Commit(w),
         Pooled(w) = totalTHUSDDeposits'
  PROVE  BooksInv'
  <1>1. /\ Balanced(system') /\ system'.ok /\ system'.events = <<>>
        /\ Pooled(system') = Pooled(w)
    BY Committed
  <1>2. price' = price /\ feedStatus' = feedStatus
    BY DEF UserCall
  <1> QED
    BY <1>1, <1>2 DEF BooksInv


-----------------------------------------------------------------------------
(* Every action preserves the invariant. *)

\* The transaction has asked for the price.
LEMMA PricedSystem ==
  ASSUME BooksInv
  PROVE  Balanced(Priced) /\ Priced.ok /\ Pooled(Priced) = Pooled(system)
  <1> DEFINE x == [event |-> "LastGoodPrice",
                   newPrice |-> (DECIMAL_PRECISION * DECIMAL_PRECISION) \div price]
  <1>1. Priced = Emit(system, x)
    BY DEF Priced, fetchPrice
  <1> HIDE DEF x
  <1>2. Balanced(system) /\ system.ok
    BY DEF BooksInv
  <1> QED
    BY <1>1, <1>2, PricedBalanced

\* The users' inputs have their types.
LEMMA Inputs ==
  ASSUME BooksInv
  PROVE  price \in Nat \ {0}
  BY InputAssumption DEF BooksInv

\* Opening, adjusting and closing a trove.
LEMMA BorrowersKeepBooks ==
  ASSUME BooksInv, NEW u \in Users, OpenTrove(u) \/ AdjustTrove(u) \/ CloseTrove(u)
  PROVE  BooksInv'
  <1> DEFINE w == Priced
  <1>1. Balanced(w) /\ w.ok /\ Pooled(w) = Pooled(system)
    BY PricedSystem
  <1> HIDE DEF w
  <1>2. ASSUME OpenTrove(u) PROVE BooksInv'
    <2>1. PICK amount \in BorrowAmounts, asset \in CollAmounts, pos \in Positions,
               maxFee \in MaxFees, decay \in DecayFactors :
            Commit(openTrove(w, u, amount, asset, pos, maxFee, price, feedStatus, decay))
      BY <1>2 DEF OpenTrove, w
    <2> DEFINE v == openTrove(w, u, amount, asset, pos, maxFee, price, feedStatus, decay)
    <2>2. amount \in Nat /\ asset \in Nat /\ decay \in 0..DECIMAL_PRECISION
      BY InputAssumption
    <2>3. Balanced(v) /\ (v.ok => w.ok /\ Pooled(v) = Pooled(w))
      BY <1>1, <2>2, OpenTroveBalanced
    <2> HIDE DEF v
    <2>4. Commit(v) /\ v.ok
      BY <2>1 DEF v, Commit
    <2> QED
      BY <1>1, <1>2, <2>3, <2>4, CommitKeepsBooks DEF OpenTrove
  <1>3. ASSUME AdjustTrove(u) PROVE BooksInv'
    <2>1. PICK collChange \in CollChanges, debtChange \in DebtChanges,
               pos \in Positions, maxFee \in MaxFees, decay \in DecayFactors :
            Commit(adjustTrove(w, u, collChange, debtChange, pos, maxFee, price, decay))
      BY <1>3 DEF AdjustTrove, w
    <2> DEFINE v == adjustTrove(w, u, collChange, debtChange, pos, maxFee, price, decay)
    <2>2. collChange \in Int /\ debtChange \in Int /\ decay \in 0..DECIMAL_PRECISION
      BY InputAssumption
    <2>3. Balanced(v) /\ (v.ok => w.ok /\ Pooled(v) = Pooled(w))
      BY <1>1, <2>2, AdjustTroveBalanced
    <2> HIDE DEF v
    <2>4. Commit(v) /\ v.ok
      BY <2>1 DEF v, Commit
    <2> QED
      BY <1>1, <1>3, <2>3, <2>4, CommitKeepsBooks DEF AdjustTrove
  <1>4. ASSUME CloseTrove(u) PROVE BooksInv'
    <2> DEFINE v == closeTroveByOwner(w, u, price)
    <2>3. Balanced(v) /\ (v.ok => w.ok /\ Pooled(v) = Pooled(w))
      BY <1>1, CloseTroveBalanced
    <2>4. Commit(v)
      BY <1>4 DEF CloseTrove, w
    <2> HIDE DEF v
    <2>5. v.ok
      BY <2>4 DEF Commit
    <2> QED
      BY <1>1, <1>4, <2>3, <2>4, <2>5, CommitKeepsBooks DEF CloseTrove
  <1> QED
    BY <1>2, <1>3, <1>4

\* Claims, transfers, and loans against another collateral.
LEMMA HoldersKeepBooks ==
  ASSUME BooksInv, NEW u \in Users,
         \/ ClaimCollateral(u)
         \/ \E v \in Users \ {u} : Transfer(u, v)
         \/ BorrowElsewhere(u)
  PROVE  BooksInv'
  <1> DEFINE w == system
  <1>1. Balanced(w) /\ w.ok
    BY DEF BooksInv
  <1> HIDE DEF w
  <1>2. ASSUME ClaimCollateral(u) PROVE BooksInv'
    <2> DEFINE v == claimCollateral(w, u)
    <2>1. Balanced(v) /\ (v.ok => w.ok /\ Pooled(v) = Pooled(w))
      BY <1>1, ClaimBalanced
    <2>2. Commit(v)
      BY <1>2 DEF ClaimCollateral, w
    <2> HIDE DEF v
    <2>3. v.ok
      BY <2>2 DEF Commit
    <2> QED
      BY <1>2, <2>1, <2>2, <2>3, CommitKeepsBooks DEF ClaimCollateral, w
  <1>3. ASSUME NEW to \in Users \ {u}, Transfer(u, to) PROVE BooksInv'
    <2>1. PICK amount \in TransferAmounts : Commit(thusdTransfer(w, u, to, amount))
      BY <1>3 DEF Transfer, w
    <2> DEFINE v == thusdTransfer(w, u, to, amount)
    <2>2. /\ u \in Accounts /\ to \in Accounts /\ u # to /\ amount \in Nat
          /\ u # gasPoolAddress /\ to # gasPoolAddress
          /\ At(to, stabilityPoolAddress, amount) - At(u, stabilityPoolAddress, amount) = 0
      BY InputAssumption, UserAccounts
    <2>3. /\ Balanced(v)
          /\ v.ok => /\ w.ok
                     /\ Pooled(v) = Pooled(w) + (At(to, stabilityPoolAddress, amount)
                                                   - At(u, stabilityPoolAddress, amount))
      BY <1>1, <2>2, TransferBalanced
    <2> HIDE DEF v
    <2>4. Commit(v) /\ v.ok
      BY <2>1 DEF v, Commit
    <2>5. Pooled(w) \in Nat
      BY <1>1, GapTypes DEF Balanced
    <2>6. Pooled(v) = Pooled(w)
      BY <2>2, <2>3, <2>4, <2>5
    <2> QED
      BY <1>3, <2>3, <2>4, <2>6, CommitKeepsBooks DEF Transfer, w
  <1>4. ASSUME BorrowElsewhere(u) PROVE BooksInv'
    <2>1. PICK amount \in OtherLoans :
            Commit(Emit([w EXCEPT !.thusd[u] = @ + amount, !.otherDebt = @ + amount],
                        TransferEvent(0, u, amount)))
      BY <1>4 DEF BorrowElsewhere, w
    <2> DEFINE x == TransferEvent(0, u, amount)
               v == LentElsewhere(w, u, amount, x)
    <2>2. amount \in Nat
      BY InputAssumption
    <2>4. Commit(v)
      BY <2>1 DEF LentElsewhere
    <2> HIDE DEF x
    <2>3. Balanced(v) /\ Pooled(v) = Pooled(w)
      BY <1>1, <2>2, ElsewhereBalanced
    <2> HIDE DEF v
    <2> QED
      BY <1>4, <2>3, <2>4, CommitKeepsBooks DEF BorrowElsewhere, w
  <1> QED
    BY <1>2, <1>3, <1>4

\* The end of a liquidation: the Stability Pool burns the THUSD it counts as lost.
LEMMA FinishKeepsBooks ==
  ASSUME BooksInv, UserCall, NEW u \in Users, NEW s, LoopSound(Priced, totalTHUSDDeposits, s),
         FinishLiquidation(u, s)
  PROVE  BooksInv'
  <1> DEFINE w == Priced
             v == finishLiquidation(s, u, totalTHUSDDeposits)
             d == s.totals.debtToOffset
             c == s.totals.collToSendToSP
  <1>1. Balanced(w) /\ w.ok /\ Pooled(w) = Pooled(system)
    BY PricedSystem
  <1>2. SPInv /\ totalTHUSDDeposits \in Nat /\ Pooled(system) = totalTHUSDDeposits
    BY DEF BooksInv, SPInv, SPTypeOK
  <1>3. LoopSound(w, totalTHUSDDeposits, s)
    OBVIOUS
  <1>4. Commit(v) /\ offset(d, c)
    BY DEF FinishLiquidation
  <1> HIDE DEF w
  <1>5. /\ Balanced(v)
        /\ v.ok => /\ SoundVals(s.totals, totalTHUSDDeposits)
                   /\ Pooled(v) = Pooled(w) - d
    BY <1>1, <1>2, <1>3, LiquidationBalanced
  <1> HIDE DEF v
  <1>6. v.ok
    BY <1>4 DEF Commit
  <1>7. d \in Nat /\ c \in Nat /\ d <= totalTHUSDDeposits
    BY <1>5, <1>6 DEF SoundVals
  <1> HIDE DEF d, c
  <1>8. SPInv'
    BY <1>2, <1>4, <1>7, OffsetPreservesSPInv
  <1>9. totalTHUSDDeposits' = totalTHUSDDeposits - d
    BY <1>2, <1>4, <1>7 DEF offset, spVars
  <1>10. Pooled(v) = totalTHUSDDeposits'
    BY <1>1, <1>2, <1>5, <1>6, <1>9
  <1> QED
    BY <1>4, <1>5, <1>8, <1>10, CommitMovesDeposits

\* Every liquidation is a sequence and what follows it.
LEMMA SequencesRun ==
  ASSUME BooksInv, NEW u \in Users, BatchLiquidateTroves(u) \/ LiquidateTroves(u)
  PROVE  /\ UserCall
         /\ \E s : LoopRuns(Priced, totalTHUSDDeposits, price, s) /\ FinishLiquidation(u, s)
  <1>1. Balanced(Priced) /\ Priced.ok
    BY PricedSystem
  <1>2. Ready(Priced)
    BY <1>1 DEF Balanced, Ready
  <1>3. totalTHUSDDeposits \in Nat /\ price \in Nat \ {0}
    BY Inputs DEF BooksInv, SPInv, SPTypeOK
  <1>4. CASE BatchLiquidateTroves(u)
    <2>1. PICK first \in Users, second \in Users :
            FinishLiquidation(u,
              batchSequence(Priced,
                IF first = second THEN <<first>> ELSE <<first, second>>,
                totalTHUSDDeposits, price))
      BY <1>4 DEF BatchLiquidateTroves
    <2> DEFINE arr == IF first = second THEN <<first>> ELSE <<first, second>>
               s == batchSequence(Priced, arr, totalTHUSDDeposits, price)
    <2>2. arr \in Seq(Users)
      OBVIOUS
    <2> HIDE DEF arr
    <2>3. LoopRuns(Priced, totalTHUSDDeposits, price, s)
      BY <1>2, <1>3, <2>2, BatchSound
    <2> HIDE DEF s
    <2>4. FinishLiquidation(u, s)
      BY <2>1 DEF s, arr
    <2> QED
      BY <1>4, <2>3, <2>4 DEF BatchLiquidateTroves
  <1>5. CASE LiquidateTroves(u)
    <2>1. PICK n \in 1..NumUsers :
            FinishLiquidation(u, troveSequence(Priced, n, totalTHUSDDeposits, price))
      BY <1>5 DEF LiquidateTroves
    <2> DEFINE s == troveSequence(Priced, n, totalTHUSDDeposits, price)
    <2>2. n \in Nat
      BY BaseAssumption
    <2>3. LoopRuns(Priced, totalTHUSDDeposits, price, s)
      BY <1>1, <1>2, <1>3, <2>2, SequenceSound
    <2> HIDE DEF s
    <2>4. FinishLiquidation(u, s)
      BY <2>1 DEF s
    <2> QED
      BY <1>5, <2>3, <2>4 DEF LiquidateTroves
  <1> QED
    BY <1>4, <1>5

\* Liquidations.
LEMMA LiquidatorsKeepBooks ==
  ASSUME BooksInv, NEW u \in Users, BatchLiquidateTroves(u) \/ LiquidateTroves(u)
  PROVE  BooksInv'
  <1>1. PICK s : LoopRuns(Priced, totalTHUSDDeposits, price, s) /\ FinishLiquidation(u, s)
    BY SequencesRun
  <1>2. UserCall
    BY SequencesRun
  <1>3. LoopSound(Priced, totalTHUSDDeposits, s)
    BY <1>1 DEF LoopRuns
  <1> QED
    BY <1>1, <1>2, <1>3, FinishKeepsBooks

\* Redemptions.
LEMMA RedeemersKeepBooks ==
  ASSUME BooksInv, NEW u \in Users, RedeemCollateral(u)
  PROVE  BooksInv'
  <1> DEFINE w == Priced
  <1>1. Balanced(w) /\ w.ok /\ Pooled(w) = Pooled(system)
    BY PricedSystem
  <1> HIDE DEF w
  <1>2. PICK amount \in RedeemAmounts, hint \in Users \cup {0},
             hintFresh \in BOOLEAN, pos \in Positions, maxIterations \in 0..1,
             maxFee \in MaxFees, decay \in DecayFactors :
          Commit(redeemCollateral(w, u, amount, hint, hintFresh, pos,
                   maxIterations, maxFee, price, feedStatus, decay))
    BY DEF RedeemCollateral, w
  <1> DEFINE v == redeemCollateral(w, u, amount, hint, hintFresh, pos,
                   maxIterations, maxFee, price, feedStatus, decay)
  <1>3. /\ amount \in Nat /\ maxIterations \in Nat /\ decay \in 0..DECIMAL_PRECISION
        /\ price \in Nat \ {0}
    BY InputAssumption, Inputs
  <1>4. Balanced(v) /\ (v.ok => Pooled(v) = Pooled(w))
    BY <1>1, <1>3, RedemptionBalanced
  <1> HIDE DEF v
  <1>5. Commit(v) /\ v.ok
    BY <1>2 DEF v, Commit
  <1> QED
    BY <1>1, <1>4, <1>5, CommitKeepsBooks DEF RedeemCollateral

\* The Stability Pool's depositors.
LEMMA DepositorsKeepBooks ==
  ASSUME BooksInv, NEW u \in Users,
         ProvideToSP(u) \/ WithdrawFromSP(u) \/ WithdrawCollateralGainToTrove(u)
  PROVE  BooksInv'
  <1>1. /\ Balanced(system) /\ system.ok /\ Pooled(system) = totalTHUSDDeposits
        /\ SPInv /\ totalTHUSDDeposits \in Nat
    BY DEF BooksInv, SPInv, SPTypeOK
  <1> DEFINE k == getCompoundedTHUSDDeposit(u)
             gain == getDepositorCollateralGain(u)
  <1>2. k \in Nat /\ gain \in Nat
    BY <1>1, CompoundedBounds, GainNat
  <1>3. ASSUME ProvideToSP(u) PROVE BooksInv'
    <2>1. PICK amount \in DepositAmounts :
            provideToSP(u, amount) /\ Commit(providedToSP(u, amount))
      BY <1>3 DEF ProvideToSP
    <2> DEFINE v == providedToSP(u, amount)
    <2>2. amount \in Nat
      BY InputAssumption
    <2>3. totalTHUSDDeposits' = totalTHUSDDeposits + amount
      BY <2>1 DEF provideToSP
    <2>4. SPInv'
      <3>1. k + amount \in Nat /\ totalTHUSDDeposits' \in Nat
        BY <1>1, <1>2, <2>2, <2>3
      <3> QED
        BY <1>1, <2>1, <3>1, RecordPreservesSPInv DEF provideToSP
    <2>5. Balanced(v) /\ (v.ok => system.ok /\ Pooled(v) = Pooled(system) + amount)
      BY <1>1, <2>2, ProvidedBalanced DEF providedToSP
    <2> HIDE DEF v
    <2>6. Commit(v) /\ v.ok
      BY <2>1 DEF v, Commit
    <2>7. Pooled(v) = totalTHUSDDeposits'
      BY <1>1, <2>3, <2>5, <2>6
    <2> QED
      BY <1>3, <2>4, <2>5, <2>6, <2>7, CommitMovesDeposits DEF ProvideToSP
  <1>4. ASSUME WithdrawFromSP(u) PROVE BooksInv'
    <2>1. PICK amount \in DepositAmounts \cup {0} :
            withdrawFromSP(u, amount, lowestICR) /\ Commit(withdrawnFromSP(u, amount))
      BY <1>4 DEF WithdrawFromSP
    <2> DEFINE v == withdrawnFromSP(u, amount)
               a == Withdrawable(u, amount)
               w == IF amount # 0 THEN Priced ELSE system
               s == IF a = 0 THEN w ELSE thusdTransfer(w, stabilityPoolAddress, u, a)
    <2>2. amount \in Nat /\ a \in Nat /\ a <= k
      BY <1>2, InputAssumption DEF Withdrawable, MinOf
    <2>3. a <= totalTHUSDDeposits /\ totalTHUSDDeposits' = totalTHUSDDeposits - a
      BY <2>1 DEF withdrawFromSP
    <2>4. SPInv'
      <3>1. k - a \in Nat /\ totalTHUSDDeposits' \in Nat
        BY <1>1, <1>2, <2>2, <2>3
      <3> QED
        BY <1>1, <2>1, <3>1, RecordPreservesSPInv DEF withdrawFromSP
    <2>5. Balanced(w) /\ w.ok /\ Pooled(w) = Pooled(system)
      BY <1>1, PricedSystem
    <2>6. v = Emit(Emit(s, UserDepositChanged(u, k - a)), CollateralGainWithdrawn(u))
      BY DEF withdrawnFromSP
    <2> HIDE DEF v, w, a
    <2>7. Balanced(v) /\ (v.ok => w.ok /\ Pooled(v) = Pooled(w) - a)
      BY <2>2, <2>5, <2>6, WithdrawnBalanced
    <2>8. Commit(v) /\ v.ok
      BY <2>1 DEF v, Commit
    <2>9. Pooled(v) = totalTHUSDDeposits'
      BY <1>1, <2>3, <2>5, <2>7, <2>8
    <2> QED
      BY <1>4, <2>4, <2>7, <2>8, <2>9, CommitMovesDeposits DEF WithdrawFromSP
  <1>5. ASSUME WithdrawCollateralGainToTrove(u) PROVE BooksInv'
    <2>1. PICK pos \in Positions : Commit(gainMovedToTrove(u, pos))
      BY <1>5 DEF WithdrawCollateralGainToTrove
    <2>2. withdrawCollateralGainToTrove(u, system.status[u] = "active")
      BY <1>5 DEF WithdrawCollateralGainToTrove
    <2> DEFINE v == gainMovedToTrove(u, pos)
    <2>3. totalTHUSDDeposits' = totalTHUSDDeposits
      BY <2>2 DEF withdrawCollateralGainToTrove
    <2>4. SPInv'
      <3>1. totalTHUSDDeposits' \in Nat
        BY <1>1, <2>3
      <3> QED
        BY <1>1, <1>2, <2>2, <3>1, RecordPreservesSPInv DEF withdrawCollateralGainToTrove
    <2>5. Balanced(v) /\ (v.ok => system.ok /\ Pooled(v) = Pooled(system))
      BY <1>1, <1>2, GainBalanced DEF gainMovedToTrove, fetchPrice
    <2> HIDE DEF v
    <2>6. Commit(v) /\ v.ok
      BY <2>1 DEF v, Commit
    <2>7. Pooled(v) = totalTHUSDDeposits'
      BY <1>1, <2>3, <2>5, <2>6
    <2> QED
      BY <1>5, <2>4, <2>5, <2>6, <2>7, CommitMovesDeposits DEF WithdrawCollateralGainToTrove
  <1> QED
    BY <1>3, <1>4, <1>5

\* The price moves, and governance changes the mint list.
LEMMA EnvironmentKeepsBooks ==
  ASSUME BooksInv, ChangePrice \/ ChangeMintList \/ UNCHANGED vars
  PROVE  BooksInv'
  <1>1. UNCHANGED spVars
    BY DEF ChangePrice, ChangeMintList, vars
  <1>2. SPInv' /\ totalTHUSDDeposits' = totalTHUSDDeposits
    BY <1>1 DEF BooksInv, SPInv, SPTypeOK, SnapshotsBehindPool, BehindPool, spVars
  <1>3. CASE ChangePrice
    BY <1>2, <1>3 DEF ChangePrice, BooksInv
  <1>4. CASE ChangeMintList
    <2> DEFINE w == system
               v == [w EXCEPT !.mintList = ~@]
    <2>1. /\ Balanced(w) /\ w.ok /\ w.events = <<>> /\ Pooled(w) = totalTHUSDDeposits
          /\ price \in Prices /\ feedStatus \in FeedStatuses
      BY DEF BooksInv
    <2>2. Sound(w) /\ Books(w) /\ IsState(w) /\ TroveTypes(w)
      BY <2>1 DEF Balanced, Sound
    <2>3. system' = v /\ price' = price /\ feedStatus' = feedStatus
      BY <1>4 DEF ChangeMintList
    <2>4. /\ IsState(v) /\ v.ok = w.ok /\ v.events = w.events /\ SamePools(w, v)
          /\ v.status = w.status /\ v.coll = w.coll /\ v.debt = w.debt /\ v.stake = w.stake
          /\ v.snapshotCollateral = w.snapshotCollateral
          /\ v.snapshotTHUSDDebt = w.snapshotTHUSDDebt
          /\ v.totalStakes = w.totalStakes /\ v.sortedTroves = w.sortedTroves
          /\ v.totalStakesSnapshot = w.totalStakesSnapshot
          /\ v.totalCollateralSnapshot = w.totalCollateralSnapshot
          /\ v.L_Collateral = w.L_Collateral /\ v.L_THUSDDebt = w.L_THUSDDebt
          /\ v.lastCollateralError_Redistribution = w.lastCollateralError_Redistribution
          /\ v.lastTHUSDDebtError_Redistribution = w.lastTHUSDDebtError_Redistribution
          /\ v.baseRate = w.baseRate /\ v.mintList \in BOOLEAN
      BY <2>2 DEF IsState, StateFields, SamePools
    <2> HIDE DEF v, w
    <2>5. /\ w.totalStakesSnapshot \in Nat /\ w.totalCollateralSnapshot \in Nat
          /\ w.L_Collateral \in Nat /\ w.L_THUSDDebt \in Nat
          /\ w.lastCollateralError_Redistribution \in Nat
          /\ w.lastTHUSDDebtError_Redistribution \in Nat
          /\ w.L_Collateral <= w.L_Collateral /\ w.L_THUSDDebt <= w.L_THUSDDebt
          /\ w.baseRate \in 0..DECIMAL_PRECISION
      BY <2>2 DEF TroveTypes
    <2>6. /\ Sound(v)
          /\ DebtGap(v) = DebtGap(w) /\ CollGap(v) = CollGap(w)
          /\ SupplyGap(v) = SupplyGap(w) /\ ReserveGap(v) = ReserveGap(w)
          /\ SurplusGap(v) = SurplusGap(w) /\ Pooled(v) = Pooled(w)
      BY <2>2, <2>4, <2>5, SumsWritten
    <2>7. Balanced(v)
      BY <2>2, <2>4, <2>6 DEF Balanced, Books
    <2> QED
      BY <1>2, <2>1, <2>3, <2>4, <2>6, <2>7 DEF BooksInv
  <1>5. CASE UNCHANGED vars
    BY <1>2, <1>5 DEF vars, BooksInv
  <1> QED
    BY <1>3, <1>4, <1>5

\* Every step preserves the invariant.
LEMMA NextBooksInv == BooksInv /\ [Next]_vars => BooksInv'
  <1> SUFFICES ASSUME BooksInv, [Next]_vars PROVE BooksInv'
    OBVIOUS
  <1>1. ASSUME NEW u \in Users, OpenTrove(u) \/ AdjustTrove(u) \/ CloseTrove(u)
        PROVE  BooksInv'
    BY <1>1, BorrowersKeepBooks
  <1>2. ASSUME NEW u \in Users, \/ ClaimCollateral(u)
                                \/ \E v \in Users \ {u} : Transfer(u, v)
                                \/ BorrowElsewhere(u)
        PROVE  BooksInv'
    BY <1>2, HoldersKeepBooks
  <1>3. ASSUME NEW u \in Users, BatchLiquidateTroves(u) \/ LiquidateTroves(u)
        PROVE  BooksInv'
    BY <1>3, LiquidatorsKeepBooks
  <1>4. ASSUME NEW u \in Users, RedeemCollateral(u) PROVE BooksInv'
    BY <1>4, RedeemersKeepBooks
  <1>5. ASSUME NEW u \in Users,
               ProvideToSP(u) \/ WithdrawFromSP(u) \/ WithdrawCollateralGainToTrove(u)
        PROVE  BooksInv'
    BY <1>5, DepositorsKeepBooks
  <1>6. CASE ChangePrice \/ ChangeMintList \/ UNCHANGED vars
    BY <1>6, EnvironmentKeepsBooks
  <1> QED
    BY <1>1, <1>2, <1>3, <1>4, <1>5, <1>6 DEF Next


-----------------------------------------------------------------------------
(* The theorem. *)

\* Nothing adds up to nothing.
LEMMA ZeroSum ==
  ASSUME NEW n \in Nat
  PROVE  SumOf([i \in 1..n |-> 0], n) = 0
  <1> DEFINE z == [i \in 1..n |-> 0]
  <1>1. z \in [1..n -> Int] /\ \A i \in 1..n : z[i] = z[i] * 0
    OBVIOUS
  <1> HIDE DEF z
  <1>2. SumOf(z, n) = SumOf(z, n) * 0 /\ SumOf(z, n) \in Int
    BY <1>1, SumScale, SumType
  <1> QED
    BY <1>2 DEF z

\* After deployment there is nothing to account for.
LEMMA InitBooksInv == Init => BooksInv
  <1> SUFFICES ASSUME Init PROVE BooksInv
    OBVIOUS
  <1> DEFINE w == InitSystem
             zero == [u \in Users |-> 0]
             none == [b \in Accounts |-> 0]
  <1>1. /\ IsState(w) /\ w.ok /\ w.events = <<>> /\ w.status = [u \in Users |-> "nonExistent"]
        /\ w.coll = zero /\ w.debt = zero /\ w.stake = zero
        /\ w.snapshotCollateral = zero /\ w.snapshotTHUSDDebt = zero
        /\ w.totalStakes = 0 /\ w.totalStakesSnapshot = 0 /\ w.totalCollateralSnapshot = 0
        /\ w.L_Collateral = 0 /\ w.L_THUSDDebt = 0
        /\ w.lastCollateralError_Redistribution = 0 /\ w.lastTHUSDDebtError_Redistribution = 0
        /\ w.baseRate = 0 /\ w.sortedTroves = <<>> /\ w.mintList \in BOOLEAN
        /\ w.activePool = [collateral |-> 0, THUSDDebt |-> 0]
        /\ w.defaultPool = [collateral |-> 0, THUSDDebt |-> 0]
        /\ w.collSurplusPool = [collateral |-> 0, balances |-> zero]
        /\ w.thusd = none /\ w.otherDebt = 0
    BY DEF InitSystem, IsState, StateFields
  <1> HIDE DEF w
  <1>2. Total(zero) = 0 /\ SumOf(none, NumAccounts) = 0
    <2>1. NumUsers \in Nat /\ NumAccounts \in Nat
      BY BaseAssumption DEF NumAccounts
    <2> QED
      BY <2>1, ZeroSum DEF Total, Users, Accounts
  <1>3. zero \in [Users -> Nat] /\ none \in [Accounts -> Nat] /\ \A u \in Users : zero[u] = 0
    OBVIOUS
  <1>4. none[gasPoolAddress] = 0 /\ none[stabilityPoolAddress] = 0
    BY Addresses
  <1> HIDE DEF zero, none
  <1>5. Open(w) = {} /\ Cardinality(Open(w)) = 0
    <2>1. Open(w) = {}
      BY <1>1 DEF Open
    <2> QED
      BY <2>1, FS_EmptySet
  <1>6. TroveTypes(w)
    <2>1. w.status \in [Users -> Statuses]
      BY <1>1 DEF Statuses
    <2>2. 0 \in 0..DECIMAL_PRECISION
      BY BaseAssumption
    <2> QED
      BY <1>1, <1>3, <2>1, <2>2 DEF TroveTypes
  <1>7. PoolTypes(w)
    BY <1>1, <1>3 DEF PoolTypes, Amount
  <1>8. ListOf(w.sortedTroves, Open(w))
    BY <1>1, <1>5 DEF ListOf
  <1>9. \A u \in Users : TroveOf(w, u)
    BY <1>1, <1>3 DEF TroveOf
  <1>10. Sound(w)
    BY <1>1, <1>2, <1>6, <1>7, <1>8, <1>9 DEF Sound
  <1>11. THUSD_GAS_COMPENSATION * 0 = 0
    BY BaseAssumption
  <1>12. /\ DebtGap(w) = 0 /\ CollGap(w) = 0 /\ SupplyGap(w) = 0
         /\ SurplusGap(w) = 0 /\ Pooled(w) = 0
    BY <1>1, <1>2, <1>4
    DEF DebtGap, CollGap, SupplyGap, SurplusGap, Pooled, getEntireSystemDebt
  <1>13. ReserveGap(w) = 0
    BY <1>1, <1>4, <1>5, <1>11 DEF ReserveGap
  <1>14. Balanced(w)
    BY <1>1, <1>10, <1>12, <1>13 DEF Balanced, Books
  <1>15. SPInv /\ totalTHUSDDeposits = 0 /\ price \in Prices /\ feedStatus \in FeedStatuses
    BY InitSPInv DEF Init, SPInit
  <1>16. system = w
    BY DEF Init, w
  <1> QED
    BY <1>1, <1>12, <1>14, <1>15, <1>16 DEF BooksInv

\* The inductive invariant has the books of BooksAgree, part by part.
LEMMA BooksInvAgree == BooksInv => BooksAgree
  <1> SUFFICES ASSUME BooksInv PROVE BooksAgree
    OBVIOUS
  <1> DEFINE w == system
  <1>0. /\ w.ok /\ w.events = <<>> /\ Pooled(w) = totalTHUSDDeposits
        /\ Sound(w) /\ Books(w) /\ SPTypeOK
        /\ price \in Prices /\ feedStatus \in FeedStatuses
    BY DEF BooksInv, Balanced, SPInv
  <1>1. /\ IsState(w) /\ PoolTypes(w) /\ TroveTypes(w) /\ ListOf(w.sortedTroves, Open(w))
        /\ w.totalStakes = Total(w.stake) /\ \A u \in Users : TroveOf(w, u)
    BY <1>0 DEF Sound
  <1>2. ActiveTroves = Open(w)
    BY DEF ActiveTroves, Open
  <1>3. TypeOK
    <2>1. w.sortedTroves \in Seq(Users)
      BY <1>1 DEF ListOf
    <2> HIDE DEF w
    <2>2. w \in
       [status : [Users -> Statuses],
        coll : [Users -> Nat], debt : [Users -> Nat], stake : [Users -> Nat],
        snapshotCollateral : [Users -> Nat],
        snapshotTHUSDDebt : [Users -> Nat],
        totalStakes : Nat, totalStakesSnapshot : Nat,
        totalCollateralSnapshot : Nat,
        L_Collateral : Nat, L_THUSDDebt : Nat,
        lastCollateralError_Redistribution : Nat,
        lastTHUSDDebtError_Redistribution : Nat,
        baseRate : 0..DECIMAL_PRECISION,
        activePool : Amount, defaultPool : Amount,
        collSurplusPool : [collateral : Nat, balances : [Users -> Nat]],
        sortedTroves : Seq(Users),
        thusd : [Accounts -> Nat], otherDebt : Nat,
        mintList : BOOLEAN, events : {<<>>}, ok : BOOLEAN]
      BY <1>0, <1>1, <2>1 DEF IsState, StateFields, PoolTypes, TroveTypes
    <2> QED
      BY <1>0, <2>2 DEF TypeOK, w
  <1>4. /\ Total(w.collSurplusPool.balances) \in Nat
        /\ SumOf(w.thusd, NumAccounts) \in Nat
        /\ w.activePool.THUSDDebt \in Nat /\ w.activePool.collateral \in Nat
        /\ w.defaultPool.THUSDDebt \in Nat
        /\ w.collSurplusPool.collateral \in Nat
        /\ w.thusd[gasPoolAddress] \in Nat /\ w.otherDebt \in Nat
        /\ Total(w.debt) \in Nat /\ Total(w.coll) \in Nat
    BY <1>0, <1>1, PoolSums, GapTypes
  <1>5. THUSD_GAS_COMPENSATION * Cardinality(Open(w)) \in Nat
    BY OpenFinite, BaseAssumption, MulNat
  <1>6. ActivePoolMatchesTroves
    BY <1>0, <1>4 DEF Books, DebtGap, CollGap, ActivePoolMatchesTroves
  <1>7. SupplyMatchesDebt
    <2>1. getEntireSystemDebt(w) \in Nat
      BY <1>4 DEF getEntireSystemDebt
    <2>2. IF HasPCV THEN SupplyGap(w) = 0 ELSE SupplyGap(w) <= 0
      BY <1>0 DEF Books
    <2> QED
      BY <1>4, <2>1, <2>2 DEF SupplyGap, SupplyMatchesDebt
  <1>8. GasPoolBacksTroves
    BY <1>0, <1>2, <1>4, <1>5 DEF Books, ReserveGap, GasPoolBacksTroves
  <1>9. StakesAddUp
    BY <1>1, <1>2 DEF StakesAddUp, TroveOf, Open
  <1>10. PoolsHoldWhatTheyOwe
    BY <1>0, <1>4 DEF Books, SurplusGap, Pooled, PoolsHoldWhatTheyOwe
  <1>11. ListHoldsOpenTroves
    <2>1. Open(w) \in SUBSET Users
      BY DEF Open
    <2> QED
      BY <1>1, <1>2, <2>1, ListLength DEF ListHoldsOpenTroves
  <1> QED
    BY <1>3, <1>6, <1>7, <1>8, <1>9, <1>10, <1>11 DEF BooksAgree

\* The books of all contracts agree between any two transactions: the ActivePool holds what
\* the troves record, every THUSD is owed by somebody, the gas pool backs every open trove,
\* the CollSurplusPool and the StabilityPool hold what they owe, the stakes add up, and the
\* sorted list has every open trove once (openTrove, _adjustTrove, closeTrove, liquidateTroves,
\* batchLiquidateTroves, redeemCollateral, provideToSP, withdrawFromSP and the functions
\* they call).
THEOREM BooksAlwaysAgree == Spec => []BooksAgree
  <1>1. Spec => []BooksInv
    BY InitBooksInv, NextBooksInv, PTL DEF Spec
  <1> QED
    BY <1>1, BooksInvAgree, PTL

-----------------------------------------------------------------------------
(* Liquidations are fair, and borrowers keep the system safe. *)

\* The step from w to v at the price pr, with the feed in the status fs: open troves still
\* owe the minimum, a trove that is liquidated may be, the last trove stays while
\* BorrowerOperations may mint, and without liquidation, redemption or a change of the mint
\* list the system does not enter Recovery Mode.
SafeStep(w, v, pr, fs) ==
  /\ OwesMinimum(w) => OwesMinimum(v)
  /\ w.mintList /\ Peopled(w) => Peopled(v)
  /\ \A u \in Users : w.status[u] = "active" /\ v.status[u] = "closedByLiquidation"
                        => FairlyTaken(w, v, pr, u)
  /\ /\ w.mintList /\ v.mintList /\ fs = "active" /\ ~checkRecoveryMode(w, pr)
     /\ \A u \in Users : w.status[u] = "active" => v.status[u] # "closedByLiquidation"
     => ~checkRecoveryMode(v, pr)

\* What no property tells apart.
Alike(w, v) ==
  /\ SameTroves(w, v)
  /\ v.activePool = w.activePool /\ v.defaultPool = w.defaultPool
  /\ v.collSurplusPool = w.collSurplusPool

\* The ratios of two such states.
LEMMA AlikeRatios ==
  ASSUME NEW w, NEW v, Alike(w, v), NEW pr
  PROVE  /\ checkRecoveryMode(v, pr) = checkRecoveryMode(w, pr)
         /\ OwesMinimum(v) = OwesMinimum(w)
         /\ \A u \in Users :
              /\ entireDebt(v, u) = entireDebt(w, u) /\ entireColl(v, u) = entireColl(w, u)
              /\ getCurrentICR(v, u, pr) = getCurrentICR(w, u, pr)
  <1>1. checkRecoveryMode(v, pr) = checkRecoveryMode(w, pr)
    BY DEF Alike, checkRecoveryMode, getTCR, getEntireSystemColl, getEntireSystemDebt
  <1>2. OwesMinimum(v) = OwesMinimum(w)
    BY DEF Alike, SameTroves, OwesMinimum
  <1>3. ASSUME NEW u \in Users
        PROVE  /\ entireDebt(v, u) = entireDebt(w, u) /\ entireColl(v, u) = entireColl(w, u)
               /\ getCurrentICR(v, u, pr) = getCurrentICR(w, u, pr)
    <2>1. SameTerms(w, v) /\ Untouched(w, v, u)
      BY DEF Alike, SameTroves, SameTerms, Untouched, SameTrove
    <2> QED
      BY <2>1, UntouchedRatio
  <1> QED
    BY <1>1, <1>2, <1>3

\* The request for the price before a transaction and the end of it do not matter.
LEMMA SafeAlike ==
  ASSUME NEW w, NEW x, NEW y, NEW v, NEW pr, NEW fs, SafeStep(x, y, pr, fs),
         Alike(w, x), Alike(y, v)
  PROVE  SafeStep(w, v, pr, fs)
  <1>1. /\ checkRecoveryMode(x, pr) = checkRecoveryMode(w, pr)
        /\ OwesMinimum(x) = OwesMinimum(w)
        /\ \A u \in Users :
              /\ entireDebt(x, u) = entireDebt(w, u) /\ entireColl(x, u) = entireColl(w, u)
              /\ getCurrentICR(x, u, pr) = getCurrentICR(w, u, pr)
    BY AlikeRatios
  <1>2. /\ checkRecoveryMode(v, pr) = checkRecoveryMode(y, pr)
        /\ OwesMinimum(v) = OwesMinimum(y)
    BY AlikeRatios
  <1>3. /\ x.status = w.status /\ x.mintList = w.mintList
        /\ v.status = y.status /\ v.mintList = y.mintList
        /\ x.collSurplusPool = w.collSurplusPool /\ v.collSurplusPool = y.collSurplusPool
    BY DEF Alike, SameTroves
  <1>4. ASSUME NEW u \in Users, FairlyTaken(x, y, pr, u) PROVE FairlyTaken(w, v, pr, u)
    BY <1>1, <1>3, <1>4 DEF FairlyTaken
  <1>5. OwesMinimum(w) => OwesMinimum(v)
    BY <1>1, <1>2 DEF SafeStep
  <1>a. w.mintList /\ Peopled(w) => Peopled(v)
    BY <1>3 DEF SafeStep, Peopled
  <1>6. \A u \in Users : w.status[u] = "active" /\ v.status[u] = "closedByLiquidation"
                           => FairlyTaken(w, v, pr, u)
    BY <1>3, <1>4 DEF SafeStep
  <1>7. /\ w.mintList /\ v.mintList /\ fs = "active" /\ ~checkRecoveryMode(w, pr)
        /\ \A u \in Users : w.status[u] = "active" => v.status[u] # "closedByLiquidation"
        => ~checkRecoveryMode(v, pr)
    BY <1>1, <1>2, <1>3 DEF SafeStep
  <1> QED
    BY <1>5, <1>6, <1>7, <1>a DEF SafeStep

\* Operations of borrowers.
LEMMA SparedSafe ==
  ASSUME NEW w, NEW v, v.ok, Balanced(v), NEW pr \in Nat \ {0}, NEW fs, Spares(w, v),
         KeepsMode(w, v, pr) \/ fs # "active"
  PROVE  SafeStep(w, v, pr, fs)
  <1>1. "active" # "closedByLiquidation"
    OBVIOUS
  <1>2. getTCR(v, pr) \in Int
    <2>1. getEntireSystemColl(v) \in Int /\ getEntireSystemDebt(v) \in Int
      BY SystemTotals DEF Balanced, Ready
    <2> QED
      BY <2>1, RatioType DEF getTCR
  <1>3. getTCR(v, pr) >= CCR => ~checkRecoveryMode(v, pr)
    BY <1>2, BaseAssumption DEF checkRecoveryMode
  <1>4. /\ OwesMinimum(w) => OwesMinimum(v)
        /\ w.mintList /\ Peopled(w) => Peopled(v)
        /\ \A u \in Users :
             v.status[u] = "closedByLiquidation" => w.status[u] = "closedByLiquidation"
    BY DEF Spares
  <1>5. w.mintList /\ fs = "active" /\ ~checkRecoveryMode(w, pr) => getTCR(v, pr) >= CCR
    BY DEF KeepsMode
  <1> QED
    BY <1>1, <1>3, <1>4, <1>5 DEF SafeStep

\* Transactions that leave the troves and both pools alone.
LEMMA IdleSafe ==
  ASSUME NEW w, NEW v, SameTroves(w, v), v.activePool = w.activePool,
         v.defaultPool = w.defaultPool, NEW pr, NEW fs
  PROVE  SafeStep(w, v, pr, fs)
  <1>1. checkRecoveryMode(v, pr) = checkRecoveryMode(w, pr)
    BY DEF checkRecoveryMode, getTCR, getEntireSystemColl, getEntireSystemDebt
  <1>2. OwesMinimum(w) => OwesMinimum(v)
    BY DEF SameTroves, OwesMinimum
  <1>3. "active" # "closedByLiquidation" /\ v.status = w.status
    BY DEF SameTroves
  <1> QED
    BY <1>1, <1>2, <1>3 DEF SafeStep, Peopled

\* Liquidations.
LEMMA LiquidatedSafe ==
  ASSUME NEW w, NEW v, NEW pr, NEW fs,
         \A b \in Users : \/ FairlyTaken(w, v, pr, b)
                          \/ v.status[b] = w.status[b] /\ v.debt[b] = w.debt[b],
         \E b \in Users : FairlyTaken(w, v, pr, b),
         w.mintList /\ Peopled(w) => Peopled(v)
  PROVE  SafeStep(w, v, pr, fs)
  <1>1. "active" # "closedByLiquidation"
    OBVIOUS
  <1>2. OwesMinimum(w) => OwesMinimum(v)
    BY <1>1 DEF OwesMinimum, FairlyTaken
  <1>3. \A u \in Users : w.status[u] = "active" /\ v.status[u] = "closedByLiquidation"
                           => FairlyTaken(w, v, pr, u)
    BY <1>1
  <1>4. ~(\A u \in Users : w.status[u] = "active" => v.status[u] # "closedByLiquidation")
    BY DEF FairlyTaken
  <1> QED
    BY <1>2, <1>3, <1>4 DEF SafeStep

\* The request for the price and the end of a transaction.
LEMMA CommitSafe ==
  ASSUME BooksInv, NEW w, Alike(system, w), NEW v, IsState(v), Commit(v),
         SafeStep(w, v, price, feedStatus)
  PROVE  SafeStep(system, system', price, feedStatus)
  <1> DEFINE y == [v EXCEPT !.events = <<>>]
  <1>1. system' = y
    BY DEF Commit
  <1>2. Alike(v, y)
    BY DEF Alike, SameTroves, IsState, StateFields
  <1> HIDE DEF y
  <1> QED
    BY <1>1, <1>2, SafeAlike

\* The transaction has asked for the price, and nothing else has changed.
LEMMA PricedAlike ==
  ASSUME BooksInv
  PROVE  Alike(system, system) /\ Alike(system, Priced)
  <1> DEFINE x == [event |-> "LastGoodPrice",
                   newPrice |-> (DECIMAL_PRECISION * DECIMAL_PRECISION) \div price]
  <1>1. Priced = Emit(system, x)
    BY DEF Priced, fetchPrice
  <1> HIDE DEF x
  <1>2. Balanced(system)
    BY DEF BooksInv
  <1>3. SamePools(system, Priced) /\ SameTroves(system, Priced)
    BY <1>1, <1>2, PricedBalanced
  <1> QED
    BY <1>3 DEF Alike, SamePools, SameTroves

\* Opening, adjusting and closing a trove.
LEMMA BorrowersSafe ==
  ASSUME BooksInv, NEW u \in Users, OpenTrove(u) \/ AdjustTrove(u) \/ CloseTrove(u)
  PROVE  SafeStep(system, system', price, feedStatus)
  <1> DEFINE w == Priced
  <1>1. Balanced(w) /\ w.ok /\ Alike(system, w) /\ price \in Nat \ {0}
    BY PricedSystem, PricedAlike, Inputs
  <1> HIDE DEF w
  <1>2. ASSUME NEW v, Balanced(v), Spares(w, v), KeepsMode(w, v, price), Commit(v)
        PROVE  SafeStep(system, system', price, feedStatus)
    <2>1. v.ok /\ IsState(v)
      BY <1>2 DEF Commit, Balanced
    <2>2. SafeStep(w, v, price, feedStatus)
      BY <1>1, <1>2, <2>1, SparedSafe
    <2> QED
      BY <1>1, <1>2, <2>1, <2>2, CommitSafe
  <1>3. CASE OpenTrove(u)
    <2>1. PICK amount \in BorrowAmounts, asset \in CollAmounts, pos \in Positions,
               maxFee \in MaxFees, decay \in DecayFactors :
            Commit(openTrove(w, u, amount, asset, pos, maxFee, price, feedStatus, decay))
      BY <1>3 DEF OpenTrove, w
    <2> DEFINE v == openTrove(w, u, amount, asset, pos, maxFee, price, feedStatus, decay)
    <2>2. amount \in Nat /\ asset \in Nat /\ decay \in 0..DECIMAL_PRECISION
      BY InputAssumption
    <2>3. Balanced(v) /\ Spares(w, v) /\ KeepsMode(w, v, price)
      BY <1>1, <2>2, OpenTroveBalanced
    <2> HIDE DEF v
    <2> QED
      BY <1>2, <2>1, <2>3 DEF v
  <1>4. CASE AdjustTrove(u)
    <2>1. PICK collChange \in CollChanges, debtChange \in DebtChanges,
               pos \in Positions, maxFee \in MaxFees, decay \in DecayFactors :
            Commit(adjustTrove(w, u, collChange, debtChange, pos, maxFee, price, decay))
      BY <1>4 DEF AdjustTrove, w
    <2> DEFINE v == adjustTrove(w, u, collChange, debtChange, pos, maxFee, price, decay)
    <2>2. collChange \in Int /\ debtChange \in Int /\ decay \in 0..DECIMAL_PRECISION
      BY InputAssumption
    <2>3. Balanced(v) /\ Spares(w, v) /\ KeepsMode(w, v, price)
      BY <1>1, <2>2, AdjustTroveBalanced
    <2> HIDE DEF v
    <2> QED
      BY <1>2, <2>1, <2>3 DEF v
  <1>5. CASE CloseTrove(u)
    <2> DEFINE v == closeTroveByOwner(w, u, price)
    <2>1. Commit(v)
      BY <1>5 DEF CloseTrove, w
    <2>2. Balanced(v) /\ Spares(w, v) /\ KeepsMode(w, v, price)
      BY <1>1, CloseTroveBalanced
    <2> HIDE DEF v
    <2> QED
      BY <1>2, <2>1, <2>2
  <1> QED
    BY <1>3, <1>4, <1>5

\* Redemptions, which an active feed does not allow.
LEMMA RedeemersSafe ==
  ASSUME BooksInv, NEW u \in Users, RedeemCollateral(u)
  PROVE  SafeStep(system, system', price, feedStatus)
  <1> DEFINE w == Priced
  <1>1. Balanced(w) /\ w.ok /\ Alike(system, w) /\ price \in Nat \ {0}
    BY PricedSystem, PricedAlike, Inputs
  <1> HIDE DEF w
  <1>2. PICK amount \in RedeemAmounts, hint \in Users \cup {0},
             hintFresh \in BOOLEAN, pos \in Positions, maxIterations \in 0..1,
             maxFee \in MaxFees, decay \in DecayFactors :
          Commit(redeemCollateral(w, u, amount, hint, hintFresh, pos,
                   maxIterations, maxFee, price, feedStatus, decay))
    BY DEF RedeemCollateral, w
  <1> DEFINE v == redeemCollateral(w, u, amount, hint, hintFresh, pos,
                   maxIterations, maxFee, price, feedStatus, decay)
  <1>3. /\ amount \in Nat /\ maxIterations \in Nat /\ decay \in 0..DECIMAL_PRECISION
    BY InputAssumption
  <1>4. Balanced(v) /\ Spares(w, v) /\ (v.ok => feedStatus # "active")
    BY <1>1, <1>3, RedemptionBalanced
  <1>5. Commit(v)
    BY <1>2
  <1> HIDE DEF v
  <1>6. v.ok /\ IsState(v)
    BY <1>4, <1>5 DEF Commit, Balanced
  <1>7. SafeStep(w, v, price, feedStatus)
    BY <1>1, <1>4, <1>6, SparedSafe
  <1> QED
    BY <1>1, <1>5, <1>6, <1>7, CommitSafe

\* Liquidations.
LEMMA LiquidatorsSafe ==
  ASSUME BooksInv, NEW u \in Users, BatchLiquidateTroves(u) \/ LiquidateTroves(u)
  PROVE  SafeStep(system, system', price, feedStatus)
  <1> DEFINE w == Priced
  <1>1. Balanced(w) /\ w.ok /\ Alike(system, w) /\ totalTHUSDDeposits \in Nat
    BY PricedSystem, PricedAlike DEF BooksInv, SPInv, SPTypeOK
  <1>2. PICK s : LoopRuns(w, totalTHUSDDeposits, price, s) /\ FinishLiquidation(u, s)
    BY SequencesRun
  <1> HIDE DEF w
  <1> DEFINE v == finishLiquidation(s, u, totalTHUSDDeposits)
  <1>3. Commit(v)
    BY <1>2 DEF FinishLiquidation
  <1>4. v.ok
    BY <1>3 DEF Commit
  <1>5. Balanced(v)
    BY <1>1, <1>2, LiquidationBalanced DEF LoopRuns
  <1>6. /\ \A b \in Users : \/ FairlyTaken(w, v, price, b)
                            \/ v.status[b] = w.status[b] /\ v.debt[b] = w.debt[b]
        /\ \E b \in Users : FairlyTaken(w, v, price, b)
        /\ w.mintList /\ Peopled(w) => Peopled(v)
    BY <1>1, <1>2, <1>4, LiquidationFair
  <1> HIDE DEF v
  <1>7. SafeStep(w, v, price, feedStatus)
    BY <1>6, LiquidatedSafe
  <1>8. IsState(v)
    BY <1>5 DEF Balanced
  <1> QED
    BY <1>1, <1>3, <1>7, <1>8, CommitSafe

\* What leads from w to v touches neither the troves nor the two pools.
Idle(w, v) ==
  IsState(w) => /\ IsState(v) /\ SameTroves(w, v)
                /\ v.activePool = w.activePool /\ v.defaultPool = w.defaultPool

\* The token, the claims and the events.
LEMMA TokensIdle ==
  ASSUME NEW w, NEW a, NEW b, NEW to
  PROVE  /\ Idle(w, w) /\ Idle(w, Emit(w, a)) /\ Idle(w, claimColl(w, to))
         /\ Idle(w, thusdTransfer(w, b, to, a)) /\ Idle(w, LentElsewhere(w, to, a, b))
  <1>1. Idle(w, w)
    BY DEF Idle, SameTroves
  <1>2. Idle(w, Emit(w, a))
    BY DEF Idle, SameTroves, IsState, StateFields, Emit
  <1>3. Idle(w, claimColl(w, to))
    BY DEF Idle, SameTroves, IsState, StateFields, claimColl, Emit, Require
  <1>4. Idle(w, thusdTransfer(w, b, to, a))
    BY DEF Idle, SameTroves, IsState, StateFields, thusdTransfer, Emit, Require
  <1>5. Idle(w, LentElsewhere(w, to, a, b))
    BY DEF Idle, SameTroves, IsState, StateFields, LentElsewhere, Emit
  <1> QED
    BY <1>1, <1>2, <1>3, <1>4, <1>5

\* One after the other.
LEMMA IdleBoth ==
  ASSUME NEW w, NEW v, NEW x, Idle(w, v), Idle(v, x)
  PROVE  Idle(w, x)
BY DEF Idle, SameTroves

\* A transaction that touches neither.
LEMMA IdleCommit ==
  ASSUME BooksInv, NEW v, Idle(system, v), Commit(v)
  PROVE  SafeStep(system, system', price, feedStatus)
  <1>1. IsState(system) /\ Alike(system, system)
    BY PricedAlike DEF BooksInv, Balanced
  <1>2. /\ IsState(v) /\ SameTroves(system, v)
        /\ v.activePool = system.activePool /\ v.defaultPool = system.defaultPool
    BY <1>1 DEF Idle
  <1>3. SafeStep(system, v, price, feedStatus)
    BY <1>2, IdleSafe
  <1> QED
    BY <1>1, <1>2, <1>3, CommitSafe

\* Claims, transfers, and loans against another collateral.
LEMMA HoldersSafe ==
  ASSUME BooksInv, NEW u \in Users,
         \/ ClaimCollateral(u)
         \/ \E v \in Users \ {u} : Transfer(u, v)
         \/ BorrowElsewhere(u)
  PROVE  SafeStep(system, system', price, feedStatus)
  <1>1. CASE ClaimCollateral(u)
    <2>1. Commit(claimColl(system, u))
      BY <1>1 DEF ClaimCollateral, claimCollateral
    <2> QED
      BY <2>1, TokensIdle, IdleCommit
  <1>2. ASSUME NEW to \in Users \ {u}, Transfer(u, to)
        PROVE  SafeStep(system, system', price, feedStatus)
    <2>1. PICK amount \in TransferAmounts : Commit(thusdTransfer(system, u, to, amount))
      BY <1>2 DEF Transfer
    <2> QED
      BY <2>1, TokensIdle, IdleCommit
  <1>3. CASE BorrowElsewhere(u)
    <2>1. PICK amount \in OtherLoans :
            Commit(LentElsewhere(system, u, amount, TransferEvent(0, u, amount)))
      BY <1>3 DEF BorrowElsewhere, LentElsewhere
    <2> QED
      BY <2>1, TokensIdle, IdleCommit
  <1> QED
    BY <1>1, <1>2, <1>3

\* The Stability Pool's depositors.
LEMMA DepositorsSafe ==
  ASSUME BooksInv, NEW u \in Users,
         ProvideToSP(u) \/ WithdrawFromSP(u) \/ WithdrawCollateralGainToTrove(u)
  PROVE  SafeStep(system, system', price, feedStatus)
  <1>1. CASE ProvideToSP(u)
    <2>1. PICK amount \in DepositAmounts : Commit(providedToSP(u, amount))
      BY <1>1 DEF ProvideToSP
    <2> DEFINE x == UserDepositChanged(u, getCompoundedTHUSDDeposit(u) + amount)
               y == CollateralGainWithdrawn(u)
               w1 == thusdTransfer(system, u, stabilityPoolAddress, amount)
               w2 == Emit(w1, x)
               v == Emit(w2, y)
    <2>2. Commit(v)
      BY <2>1 DEF providedToSP
    <2> HIDE DEF x, y
    <2>3. Idle(system, w1)
      BY TokensIdle
    <2> HIDE DEF w1
    <2>4. Idle(w1, w2)
      BY TokensIdle
    <2> HIDE DEF w2
    <2>5. Idle(w2, v)
      BY TokensIdle
    <2> HIDE DEF v
    <2>6. Idle(system, v)
      BY <2>3, <2>4, <2>5, IdleBoth
    <2> QED
      BY <2>2, <2>6, IdleCommit
  <1>2. CASE WithdrawFromSP(u)
    <2>1. PICK amount \in DepositAmounts \cup {0} : Commit(withdrawnFromSP(u, amount))
      BY <1>2 DEF WithdrawFromSP
    <2> DEFINE a == Withdrawable(u, amount)
               p == [event |-> "LastGoodPrice",
                     newPrice |-> (DECIMAL_PRECISION * DECIMAL_PRECISION) \div price]
               w1 == IF amount # 0 THEN Emit(system, p) ELSE system
               w2 == IF a = 0 THEN w1 ELSE thusdTransfer(w1, stabilityPoolAddress, u, a)
               x == UserDepositChanged(u, getCompoundedTHUSDDeposit(u) - a)
               y == CollateralGainWithdrawn(u)
               w3 == Emit(w2, x)
               v == Emit(w3, y)
    <2>2. Commit(v)
      BY <2>1 DEF withdrawnFromSP, Priced, fetchPrice
    <2> HIDE DEF a, x, y, p
    <2>3. Idle(system, w1)
      BY TokensIdle
    <2> HIDE DEF w1
    <2>4. Idle(w1, w2)
      BY TokensIdle
    <2> HIDE DEF w2
    <2>5. Idle(w2, w3)
      BY TokensIdle
    <2> HIDE DEF w3
    <2>6. Idle(w3, v)
      BY TokensIdle
    <2> HIDE DEF v
    <2>7. Idle(system, v)
      BY <2>3, <2>4, <2>5, <2>6, IdleBoth
    <2> QED
      BY <2>2, <2>7, IdleCommit
  <1>3. CASE WithdrawCollateralGainToTrove(u)
    <2>1. PICK pos \in Positions : Commit(gainMovedToTrove(u, pos))
      BY <1>3 DEF WithdrawCollateralGainToTrove
    <2> DEFINE v == gainMovedToTrove(u, pos)
               gain == getDepositorCollateralGain(u)
    <2>2. /\ Balanced(system) /\ SPInv /\ Alike(system, system) /\ price \in Nat \ {0}
      BY PricedAlike, Inputs DEF BooksInv
    <2>3. gain \in Nat
      BY <2>2, GainNat
    <2>4. Balanced(v) /\ Spares(system, v) /\ KeepsMode(system, v, price)
      BY <2>2, <2>3, GainBalanced DEF gainMovedToTrove, fetchPrice
    <2> HIDE DEF v
    <2>5. Commit(v)
      BY <2>1 DEF v
    <2>6. v.ok /\ IsState(v)
      BY <2>4, <2>5 DEF Commit, Balanced
    <2>7. SafeStep(system, v, price, feedStatus)
      BY <2>2, <2>4, <2>6, SparedSafe
    <2> QED
      BY <2>2, <2>5, <2>6, <2>7, CommitSafe
  <1> QED
    BY <1>1, <1>2, <1>3

\* The price moves, and governance changes the mint list.
LEMMA EnvironmentSafe ==
  ASSUME BooksInv, ChangePrice \/ ChangeMintList \/ UNCHANGED vars
  PROVE  SafeStep(system, system', price, feedStatus)
  <1>1. CASE ChangePrice \/ UNCHANGED vars
    <2>1. system' = system
      BY <1>1 DEF ChangePrice, vars
    <2>2. SafeStep(system, system, price, feedStatus)
      BY IdleSafe DEF SameTroves
    <2> QED
      BY <2>1, <2>2
  <1>2. CASE ChangeMintList
    <2> DEFINE w == system
               v == [w EXCEPT !.mintList = ~@]
    <2>1. IsState(w)
      BY DEF BooksInv, Balanced
    <2>2. system' = v
      BY <1>2 DEF ChangeMintList
    <2>3. v.mintList = ~w.mintList /\ v.status = w.status /\ v.debt = w.debt
      BY <2>1 DEF IsState, StateFields
    <2> HIDE DEF v, w
    <2>4. "active" # "closedByLiquidation"
      OBVIOUS
    <2>5. ~(w.mintList /\ v.mintList)
      BY <2>3
    <2>6. SafeStep(w, v, price, feedStatus)
      BY <2>3, <2>4, <2>5 DEF SafeStep, OwesMinimum, Peopled
    <2> QED
      BY <2>2, <2>6 DEF w
  <1> QED
    BY <1>1, <1>2

\* Every step is safe.
LEMMA NextSafe == BooksInv /\ [Next]_vars => SafeStep(system, system', price, feedStatus)
  <1> SUFFICES ASSUME BooksInv, [Next]_vars
               PROVE  SafeStep(system, system', price, feedStatus)
    OBVIOUS
  <1>1. ASSUME NEW u \in Users, OpenTrove(u) \/ AdjustTrove(u) \/ CloseTrove(u)
        PROVE  SafeStep(system, system', price, feedStatus)
    BY <1>1, BorrowersSafe
  <1>2. ASSUME NEW u \in Users, \/ ClaimCollateral(u)
                                \/ \E v \in Users \ {u} : Transfer(u, v)
                                \/ BorrowElsewhere(u)
        PROVE  SafeStep(system, system', price, feedStatus)
    BY <1>2, HoldersSafe
  <1>3. ASSUME NEW u \in Users, BatchLiquidateTroves(u) \/ LiquidateTroves(u)
        PROVE  SafeStep(system, system', price, feedStatus)
    BY <1>3, LiquidatorsSafe
  <1>4. ASSUME NEW u \in Users, RedeemCollateral(u)
        PROVE  SafeStep(system, system', price, feedStatus)
    BY <1>4, RedeemersSafe
  <1>5. ASSUME NEW u \in Users,
               ProvideToSP(u) \/ WithdrawFromSP(u) \/ WithdrawCollateralGainToTrove(u)
        PROVE  SafeStep(system, system', price, feedStatus)
    BY <1>5, DepositorsSafe
  <1>6. CASE ChangePrice \/ ChangeMintList \/ UNCHANGED vars
    BY <1>6, EnvironmentSafe
  <1> QED
    BY <1>1, <1>2, <1>3, <1>4, <1>5, <1>6 DEF Next

\* Whatever the sequence, a liquidation takes only troves that were below the minimum ratio
\* before the transaction, or below the critical ratio in Recovery Mode, and leaves the owner
\* of one above the minimum ratio what is above 110% of its debt: also when earlier troves of
\* the sequence end Recovery Mode, empty the pool or change the reward terms
\* (_liquidateRecoveryMode, _getTotalsFromBatchLiquidate_RecoveryMode,
\* _getTotalsFromLiquidateTrovesSequence_RecoveryMode, _getCappedOffsetVals).
THEOREM LiquidationsStayFair ==
  Spec => OnlyUnsafeTrovesAreLiquidated /\ CappedLiquidationLeavesSurplus
  <1> DEFINE Unsafe ==
               \A u \in ActiveTroves :
                 system'.status[u] = "closedByLiquidation" =>
                   \/ getCurrentICR(system, u, price) < MCR
                   \/ /\ checkRecoveryMode(system, price)
                      /\ getCurrentICR(system, u, price) < CCR
             Capped ==
               \A u \in ActiveTroves :
                 /\ system'.status[u] = "closedByLiquidation"
                 /\ getCurrentICR(system, u, price) >= MCR
                 => LET kept == system'.collSurplusPool.balances[u]
                                  - system.collSurplusPool.balances[u]
                    IN  (entireColl(system, u) - kept) * price
                          <= MCR * entireDebt(system, u)
  <1>1. BooksInv /\ [Next]_vars => [Unsafe]_vars /\ [Capped]_vars
    <2> SUFFICES ASSUME BooksInv, [Next]_vars PROVE Unsafe /\ Capped
      OBVIOUS
    <2>1. \A u \in ActiveTroves : system'.status[u] = "closedByLiquidation"
                                   => FairlyTaken(system, system', price, u)
      BY NextSafe DEF SafeStep, ActiveTroves
    <2>2. Unsafe
      BY <2>1 DEF FairlyTaken
    <2>3. Capped
      BY <2>1 DEF FairlyTaken
    <2> QED
      BY <2>2, <2>3
  <1>2. Spec => [][Unsafe]_vars /\ [][Capped]_vars
    <2> HIDE DEF Unsafe, Capped
    <2> QED
      BY InitBooksInv, NextBooksInv, <1>1, PTL DEF Spec
  <1> QED
    BY <1>2 DEF OnlyUnsafeTrovesAreLiquidated, CappedLiquidationLeavesSurplus

\* While BorrowerOperations may mint, the last open trove is never closed: no close,
\* redemption or sequence of liquidations empties the system, wherever in the sequence the
\* troves are closed (_requireMoreThanOneTroveInSystem, called by _closeTrove).
THEOREM LastTroveAlwaysStays == Spec => LastTroveStays
  <1> DEFINE Stays == system.mintList /\ ActiveTroves # {} => ActiveTroves' # {}
  <1>1. BooksInv /\ [Next]_vars => [Stays]_vars
    <2> SUFFICES ASSUME BooksInv, [Next]_vars, system.mintList, ActiveTroves # {}
                 PROVE  ActiveTroves' # {}
      OBVIOUS
    <2>1. Peopled(system')
      BY NextSafe DEF SafeStep, Peopled, ActiveTroves
    <2> QED
      BY <2>1 DEF Peopled, ActiveTroves
  <1>2. Spec => [][Stays]_vars
    <2> HIDE DEF Stays
    <2> QED
      BY InitBooksInv, NextBooksInv, <1>1, PTL DEF Spec
  <1> QED
    BY <1>2 DEF LastTroveStays

\* No open trove, in the beginning.
LEMMA InitOwesMinimum == Init => OwesMinimum(system)
  <1> SUFFICES ASSUME Init PROVE OwesMinimum(system)
    OBVIOUS
  <1>1. system.status = [u \in Users |-> "nonExistent"]
    BY DEF Init, InitSystem
  <1>2. "nonExistent" # "active"
    OBVIOUS
  <1> QED
    BY <1>1, <1>2 DEF OwesMinimum

\* What the invariant says of each trove.
LEMMA TrovesWellFormed == BooksInv /\ OwesMinimum(system) => TrovesAreWellFormed
  <1> SUFFICES ASSUME BooksInv, OwesMinimum(system) PROVE TrovesAreWellFormed
    OBVIOUS
  <1>1. \A u \in Users : TroveOf(system, u)
    BY DEF BooksInv, Balanced, Sound
  <1> QED
    BY <1>1 DEF TroveOf, OwesMinimum, TrovesAreWellFormed, ActiveTroves

\* Open troves always owe the minimum above the gas reserve, have snapshots that are not
\* ahead of the sums, and closed ones owe nothing; and while BorrowerOperations may mint,
\* no operation of borrowers and depositors at a given price takes the system from Normal
\* Mode into Recovery Mode, whatever fees, pending rewards and moved gains it adds after
\* the check (_requireAtLeastMinNetDebt, _requireNewTCRisAboveCCR, _requireNotInRecoveryMode,
\* _redeemCollateralFromTrove).
THEOREM BorrowingStaysSafe == Spec => []TrovesAreWellFormed /\ OrdinaryStepsKeepNormalMode
  <1> DEFINE Inv == BooksInv /\ OwesMinimum(system)
             Keeps == OrdinaryStep /\ ~checkRecoveryMode(system, price)
                        => ~checkRecoveryMode(system', price)
  <1>1. Init => Inv
    BY InitBooksInv, InitOwesMinimum
  <1>2. Inv /\ [Next]_vars => Inv'
    <2> SUFFICES ASSUME Inv, [Next]_vars PROVE BooksInv' /\ OwesMinimum(system')
      BY DEF OwesMinimum
    <2>1. BooksInv'
      BY NextBooksInv
    <2>2. OwesMinimum(system')
      BY NextSafe DEF SafeStep
    <2> QED
      BY <2>1, <2>2
  <1>3. Inv /\ [Next]_vars => [Keeps]_vars
    <2> SUFFICES ASSUME Inv, [Next]_vars, OrdinaryStep, ~checkRecoveryMode(system, price)
                 PROVE  ~checkRecoveryMode(system', price)
      OBVIOUS
    <2>1. \A u \in Users : system.status[u] = "active"
                             => system'.status[u] # "closedByLiquidation"
      BY DEF OrdinaryStep, ActiveTroves
    <2>2. system.mintList /\ system'.mintList /\ feedStatus = "active"
      BY DEF OrdinaryStep
    <2> QED
      BY <2>1, <2>2, NextSafe DEF SafeStep
  <1>4. Inv => TrovesAreWellFormed
    BY TrovesWellFormed
  <1>5. Spec => []TrovesAreWellFormed /\ [][Keeps]_vars
    <2> HIDE DEF Inv, Keeps
    <2> QED
      BY <1>1, <1>2, <1>3, <1>4, PTL DEF Spec
  <1> QED
    BY <1>5 DEF OrdinaryStepsKeepNormalMode

=============================================================================
