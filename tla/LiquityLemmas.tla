--------------------------- MODULE LiquityLemmas ---------------------------
(***************************************************************************)
(* What the functions of the contracts do to the books, for every number   *)
(* of users and every amount.                                              *)
(*                                                                         *)
(* A function leads from a state w of the transaction to a state v.  The   *)
(* lemmas say: v has the fields of a state; when v has not reverted, w had *)
(* not; the functions of the pools and the token leave the troves alone    *)
(* and change the balances by the amounts named (Moves); and the functions *)
(* of the TroveManager write one trove, with its stake and its place in    *)
(* the list (Sound, TroveWritten).                                         *)
(***************************************************************************)
EXTENDS LiquityProperties, StabilityPoolLemmas, FiniteSetTheorems

-----------------------------------------------------------------------------
(* States. *)

StateFields ==
  {"status", "coll", "debt", "stake", "snapshotCollateral", "snapshotTHUSDDebt",
   "totalStakes", "totalStakesSnapshot", "totalCollateralSnapshot",
   "L_Collateral", "L_THUSDDebt", "lastCollateralError_Redistribution",
   "lastTHUSDDebtError_Redistribution", "baseRate", "activePool", "defaultPool",
   "collSurplusPool", "sortedTroves", "thusd", "otherDebt", "mintList",
   "events", "ok"}

IsState(w) == w = [k \in StateFields |-> w[k]] /\ w.ok \in BOOLEAN

\* The balances are amounts.
PoolTypes(w) ==
  /\ w.activePool \in Amount
  /\ w.defaultPool \in Amount
  /\ w.collSurplusPool \in [collateral : Nat, balances : [Users -> Nat]]
  /\ w.thusd \in [Accounts -> Nat]
  /\ w.otherDebt \in Nat

\* v has the troves of w, and everything else that is not a balance.
SameTroves(w, v) ==
  /\ v.status = w.status /\ v.coll = w.coll /\ v.debt = w.debt /\ v.stake = w.stake
  /\ v.snapshotCollateral = w.snapshotCollateral
  /\ v.snapshotTHUSDDebt = w.snapshotTHUSDDebt
  /\ v.totalStakes = w.totalStakes
  /\ v.totalStakesSnapshot = w.totalStakesSnapshot
  /\ v.totalCollateralSnapshot = w.totalCollateralSnapshot
  /\ v.L_Collateral = w.L_Collateral /\ v.L_THUSDDebt = w.L_THUSDDebt
  /\ v.lastCollateralError_Redistribution = w.lastCollateralError_Redistribution
  /\ v.lastTHUSDDebtError_Redistribution = w.lastTHUSDDebtError_Redistribution
  /\ v.sortedTroves = w.sortedTroves
  /\ v.baseRate = w.baseRate /\ v.mintList = w.mintList

\* v has the balances of w.
SamePools(w, v) ==
  /\ v.activePool = w.activePool /\ v.defaultPool = w.defaultPool
  /\ v.collSurplusPool = w.collSurplusPool
  /\ v.thusd = w.thusd /\ v.otherDebt = w.otherDebt

\* A change of the balances that changes nothing.
Still ==
  [activeDebt |-> 0, activeColl |-> 0, defaultDebt |-> 0, defaultColl |-> 0,
   surplus |-> 0, claims |-> 0, supply |-> 0, reserve |-> 0, pooled |-> 0]

\* The balances of v are those of w, changed by d.
Changed(w, v, d) ==
  /\ v.activePool.THUSDDebt = w.activePool.THUSDDebt + d.activeDebt
  /\ v.activePool.collateral = w.activePool.collateral + d.activeColl
  /\ v.defaultPool.THUSDDebt = w.defaultPool.THUSDDebt + d.defaultDebt
  /\ v.defaultPool.collateral = w.defaultPool.collateral + d.defaultColl
  /\ v.collSurplusPool.collateral = w.collSurplusPool.collateral + d.surplus
  /\ Total(v.collSurplusPool.balances) = Total(w.collSurplusPool.balances) + d.claims
  /\ SumOf(v.thusd, NumAccounts) = SumOf(w.thusd, NumAccounts) + d.supply
  /\ v.thusd[gasPoolAddress] = w.thusd[gasPoolAddress] + d.reserve
  /\ v.thusd[stabilityPoolAddress] = w.thusd[stabilityPoolAddress] + d.pooled
  /\ v.otherDebt = w.otherDebt

\* What a function of the pools and the token does: it changes the balances by d unless
\* it reverts, and nothing else.
Moves(w, v, d) ==
  /\ IsState(v)
  /\ v.ok => w.ok
  /\ SameTroves(w, v)
  /\ v.ok /\ PoolTypes(w) => PoolTypes(v) /\ Changed(w, v, d)

\* The prefix sums are about integers.
LEMMA NatsAreInts ==
  ASSUME NEW n, NEW f \in [1..n -> Nat]
  PROVE  f \in [1..n -> Int] /\ \A i \in 1..n : f[i] \in Nat
OBVIOUS

\* The sums that occur are integers.
LEMMA PoolSums ==
  ASSUME NEW w, PoolTypes(w)
  PROVE  /\ Total(w.collSurplusPool.balances) \in Nat
         /\ SumOf(w.thusd, NumAccounts) \in Nat
         /\ w.activePool.THUSDDebt \in Nat /\ w.activePool.collateral \in Nat
         /\ w.defaultPool.THUSDDebt \in Nat /\ w.defaultPool.collateral \in Nat
         /\ w.collSurplusPool.collateral \in Nat
         /\ w.thusd[gasPoolAddress] \in Nat /\ w.thusd[stabilityPoolAddress] \in Nat
         /\ w.otherDebt \in Nat
  <1>0. /\ w.collSurplusPool.balances \in [1..NumUsers -> Nat]
        /\ w.thusd \in [1..NumAccounts -> Nat]
    BY DEF PoolTypes, Users, Accounts
  <1>1. /\ w.collSurplusPool.balances \in [1..NumUsers -> Int]
        /\ \A i \in 1..NumUsers : w.collSurplusPool.balances[i] \in Nat
    BY <1>0, NatsAreInts
  <1>2. /\ w.thusd \in [1..NumAccounts -> Int]
        /\ \A i \in 1..NumAccounts : w.thusd[i] \in Nat
    BY <1>0, NatsAreInts
  <1>3. NumUsers \in Nat /\ NumAccounts \in Nat
    BY BaseAssumption DEF NumAccounts
  <1>4. Total(w.collSurplusPool.balances) \in Nat
    BY <1>1, <1>3, SumType DEF Total
  <1>5. SumOf(w.thusd, NumAccounts) \in Nat
    BY <1>2, <1>3, SumType
  <1>6. gasPoolAddress \in Accounts /\ stabilityPoolAddress \in Accounts
    BY BaseAssumption DEF gasPoolAddress, stabilityPoolAddress, Accounts, NumAccounts
  <1> QED
    BY <1>4, <1>5, <1>6 DEF PoolTypes, Amount

-----------------------------------------------------------------------------
(* The functions of the pools and of the token. *)

\* A require moves nothing, and holds when the transaction goes on.
LEMMA RequireMoves ==
  ASSUME NEW w, IsState(w), NEW c \in BOOLEAN
  PROVE  /\ Moves(w, Require(w, c), Still)
         /\ SamePools(w, Require(w, c))
         /\ Require(w, c).ok => c
  <1> DEFINE v == Require(w, c)
  <1>1. IsState(v) /\ SameTroves(w, v) /\ SamePools(w, v) /\ (v.ok => w.ok /\ c)
    BY DEF IsState, StateFields, Require, SameTroves, SamePools
  <1> HIDE DEF v
  <1>2. ASSUME PoolTypes(w) PROVE PoolTypes(v) /\ Changed(w, v, Still)
    BY <1>1, <1>2, PoolSums DEF SamePools, PoolTypes, Changed, Still
  <1> QED
    BY <1>1, <1>2 DEF Moves, v

\* An event moves nothing.
LEMMA EmitMoves ==
  ASSUME NEW w, IsState(w), NEW e
  PROVE  /\ Moves(w, Emit(w, e), Still)
         /\ SamePools(w, Emit(w, e))
         /\ Emit(w, e).ok = w.ok
  <1> DEFINE v == Emit(w, e)
  <1>1. IsState(v) /\ SameTroves(w, v) /\ SamePools(w, v) /\ v.ok = w.ok
    BY DEF IsState, StateFields, Emit, SameTroves, SamePools
  <1> HIDE DEF v
  <1>2. ASSUME PoolTypes(w) PROVE PoolTypes(v) /\ Changed(w, v, Still)
    BY <1>1, <1>2, PoolSums DEF SamePools, PoolTypes, Changed, Still
  <1> QED
    BY <1>1, <1>2 DEF Moves, v

\* Nothing but the ActivePool and the DefaultPool changes.
LEMMA AmountMoves ==
  ASSUME NEW w, NEW v, IsState(v), v.ok => w.ok, SameTroves(w, v),
         NEW e, e.activeColl \in Int, e.activeDebt \in Int,
         e.defaultColl \in Int, e.defaultDebt \in Int,
         e.surplus = 0, e.claims = 0, e.supply = 0, e.reserve = 0, e.pooled = 0,
         v.collSurplusPool = w.collSurplusPool,
         v.thusd = w.thusd, v.otherDebt = w.otherDebt,
         v.ok /\ PoolTypes(w) =>
           /\ v.activePool \in Amount /\ v.defaultPool \in Amount
           /\ v.activePool.collateral = w.activePool.collateral + e.activeColl
           /\ v.activePool.THUSDDebt = w.activePool.THUSDDebt + e.activeDebt
           /\ v.defaultPool.collateral = w.defaultPool.collateral + e.defaultColl
           /\ v.defaultPool.THUSDDebt = w.defaultPool.THUSDDebt + e.defaultDebt
  PROVE  Moves(w, v, e)
  <1>1. ASSUME v.ok, PoolTypes(w) PROVE PoolTypes(v) /\ Changed(w, v, e)
    <2>1. PoolTypes(v)
      BY <1>1 DEF PoolTypes
    <2>2. Changed(w, v, e)
      BY <1>1, PoolSums DEF Changed
    <2> QED
      BY <2>1, <2>2
  <1> QED
    BY <1>1 DEF Moves

\* ActivePool.updateCollateralBalance and receive: its collateral grows.
LEMMA ActiveReceive ==
  ASSUME NEW w, IsState(w), NEW a \in Nat
  PROVE  Moves(w, activePoolReceive(w, a), [Still EXCEPT !.activeColl = a])
  <1> DEFINE v == activePoolReceive(w, a)
             e == [Still EXCEPT !.activeColl = a]
  <1>1. /\ IsState(v) /\ SameTroves(w, v) /\ v.ok = w.ok
        /\ v.activePool = [w.activePool EXCEPT !.collateral = @ + a]
        /\ v.defaultPool = w.defaultPool /\ v.collSurplusPool = w.collSurplusPool
        /\ v.thusd = w.thusd /\ v.otherDebt = w.otherDebt
    BY DEF IsState, StateFields, SameTroves, activePoolReceive
  <1>2. /\ e.activeDebt = 0 /\ e.activeColl = a /\ e.defaultDebt = 0 /\ e.defaultColl = 0
        /\ e.surplus = 0 /\ e.claims = 0 /\ e.supply = 0 /\ e.reserve = 0 /\ e.pooled = 0
    BY DEF Still
  <1> HIDE DEF v, e
  <1>3. ASSUME v.ok, PoolTypes(w)
        PROVE  /\ v.activePool \in Amount /\ v.defaultPool \in Amount
               /\ v.activePool.collateral = w.activePool.collateral + e.activeColl
               /\ v.activePool.THUSDDebt = w.activePool.THUSDDebt + e.activeDebt
               /\ v.defaultPool.collateral = w.defaultPool.collateral + e.defaultColl
               /\ v.defaultPool.THUSDDebt = w.defaultPool.THUSDDebt + e.defaultDebt
    BY <1>1, <1>2, <1>3 DEF PoolTypes, Amount
  <1>4. /\ e.activeColl \in Int /\ e.activeDebt \in Int
        /\ e.defaultColl \in Int /\ e.defaultDebt \in Int
    BY <1>2
  <1>5. Moves(w, v, e)
    BY <1>1, <1>2, <1>3, <1>4, AmountMoves
  <1> QED
    BY <1>5 DEF v, e

\* ActivePool.sendCollateral: its collateral shrinks, not below zero.
LEMMA ActiveSend ==
  ASSUME NEW w, IsState(w), NEW a \in Nat, NEW to
  PROVE  Moves(w, activePoolSendCollateral(w, to, a), [Still EXCEPT !.activeColl = -a])
  <1> DEFINE v == activePoolSendCollateral(w, to, a)
             e == [Still EXCEPT !.activeColl = -a]
  <1>1. /\ IsState(v) /\ SameTroves(w, v) /\ (v.ok => w.ok /\ a <= w.activePool.collateral)
        /\ v.activePool = [w.activePool EXCEPT !.collateral = @ - a]
        /\ v.defaultPool = w.defaultPool /\ v.collSurplusPool = w.collSurplusPool
        /\ v.thusd = w.thusd /\ v.otherDebt = w.otherDebt
    BY DEF IsState, StateFields, SameTroves, activePoolSendCollateral, Emit, Require
  <1>2. /\ e.activeDebt = 0 /\ e.activeColl = -a /\ e.defaultDebt = 0 /\ e.defaultColl = 0
        /\ e.surplus = 0 /\ e.claims = 0 /\ e.supply = 0 /\ e.reserve = 0 /\ e.pooled = 0
    BY DEF Still
  <1> HIDE DEF v, e
  <1>3. ASSUME v.ok, PoolTypes(w)
        PROVE  /\ v.activePool \in Amount /\ v.defaultPool \in Amount
               /\ v.activePool.collateral = w.activePool.collateral + e.activeColl
               /\ v.activePool.THUSDDebt = w.activePool.THUSDDebt + e.activeDebt
               /\ v.defaultPool.collateral = w.defaultPool.collateral + e.defaultColl
               /\ v.defaultPool.THUSDDebt = w.defaultPool.THUSDDebt + e.defaultDebt
    BY <1>1, <1>2, <1>3 DEF PoolTypes, Amount
  <1>4. /\ e.activeColl \in Int /\ e.activeDebt \in Int
        /\ e.defaultColl \in Int /\ e.defaultDebt \in Int
    BY <1>2
  <1>5. Moves(w, v, e)
    BY <1>1, <1>2, <1>3, <1>4, AmountMoves
  <1> QED
    BY <1>5 DEF v, e

\* ActivePool.increaseTHUSDDebt
LEMMA ActiveIncrease ==
  ASSUME NEW w, IsState(w), NEW a \in Nat
  PROVE  Moves(w, activePoolIncreaseTHUSDDebt(w, a), [Still EXCEPT !.activeDebt = a])
  <1> DEFINE v == activePoolIncreaseTHUSDDebt(w, a)
             e == [Still EXCEPT !.activeDebt = a]
  <1>1. /\ IsState(v) /\ SameTroves(w, v) /\ v.ok = w.ok
        /\ v.activePool = [w.activePool EXCEPT !.THUSDDebt = @ + a]
        /\ v.defaultPool = w.defaultPool /\ v.collSurplusPool = w.collSurplusPool
        /\ v.thusd = w.thusd /\ v.otherDebt = w.otherDebt
    BY DEF IsState, StateFields, SameTroves, activePoolIncreaseTHUSDDebt
  <1>2. /\ e.activeDebt = a /\ e.activeColl = 0 /\ e.defaultDebt = 0 /\ e.defaultColl = 0
        /\ e.surplus = 0 /\ e.claims = 0 /\ e.supply = 0 /\ e.reserve = 0 /\ e.pooled = 0
    BY DEF Still
  <1> HIDE DEF v, e
  <1>3. ASSUME v.ok, PoolTypes(w)
        PROVE  /\ v.activePool \in Amount /\ v.defaultPool \in Amount
               /\ v.activePool.collateral = w.activePool.collateral + e.activeColl
               /\ v.activePool.THUSDDebt = w.activePool.THUSDDebt + e.activeDebt
               /\ v.defaultPool.collateral = w.defaultPool.collateral + e.defaultColl
               /\ v.defaultPool.THUSDDebt = w.defaultPool.THUSDDebt + e.defaultDebt
    BY <1>1, <1>2, <1>3 DEF PoolTypes, Amount
  <1>4. /\ e.activeColl \in Int /\ e.activeDebt \in Int
        /\ e.defaultColl \in Int /\ e.defaultDebt \in Int
    BY <1>2
  <1>5. Moves(w, v, e)
    BY <1>1, <1>2, <1>3, <1>4, AmountMoves
  <1> QED
    BY <1>5 DEF v, e

\* ActivePool.decreaseTHUSDDebt: not below zero.
LEMMA ActiveDecrease ==
  ASSUME NEW w, IsState(w), NEW a \in Nat
  PROVE  Moves(w, activePoolDecreaseTHUSDDebt(w, a), [Still EXCEPT !.activeDebt = -a])
  <1> DEFINE v == activePoolDecreaseTHUSDDebt(w, a)
             e == [Still EXCEPT !.activeDebt = -a]
  <1>1. /\ IsState(v) /\ SameTroves(w, v) /\ (v.ok => w.ok /\ a <= w.activePool.THUSDDebt)
        /\ v.activePool = [w.activePool EXCEPT !.THUSDDebt = @ - a]
        /\ v.defaultPool = w.defaultPool /\ v.collSurplusPool = w.collSurplusPool
        /\ v.thusd = w.thusd /\ v.otherDebt = w.otherDebt
    BY DEF IsState, StateFields, SameTroves, activePoolDecreaseTHUSDDebt, Require
  <1>2. /\ e.activeDebt = -a /\ e.activeColl = 0 /\ e.defaultDebt = 0 /\ e.defaultColl = 0
        /\ e.surplus = 0 /\ e.claims = 0 /\ e.supply = 0 /\ e.reserve = 0 /\ e.pooled = 0
    BY DEF Still
  <1> HIDE DEF v, e
  <1>3. ASSUME v.ok, PoolTypes(w)
        PROVE  /\ v.activePool \in Amount /\ v.defaultPool \in Amount
               /\ v.activePool.collateral = w.activePool.collateral + e.activeColl
               /\ v.activePool.THUSDDebt = w.activePool.THUSDDebt + e.activeDebt
               /\ v.defaultPool.collateral = w.defaultPool.collateral + e.defaultColl
               /\ v.defaultPool.THUSDDebt = w.defaultPool.THUSDDebt + e.defaultDebt
    BY <1>1, <1>2, <1>3 DEF PoolTypes, Amount
  <1>4. /\ e.activeColl \in Int /\ e.activeDebt \in Int
        /\ e.defaultColl \in Int /\ e.defaultDebt \in Int
    BY <1>2
  <1>5. Moves(w, v, e)
    BY <1>1, <1>2, <1>3, <1>4, AmountMoves
  <1> QED
    BY <1>5 DEF v, e

\* DefaultPool.updateCollateralBalance and receive: its collateral grows.
LEMMA DefaultReceive ==
  ASSUME NEW w, IsState(w), NEW a \in Nat
  PROVE  Moves(w, defaultPoolReceive(w, a), [Still EXCEPT !.defaultColl = a])
  <1> DEFINE v == defaultPoolReceive(w, a)
             e == [Still EXCEPT !.defaultColl = a]
  <1>1. /\ IsState(v) /\ SameTroves(w, v) /\ v.ok = w.ok
        /\ v.defaultPool = [w.defaultPool EXCEPT !.collateral = @ + a]
        /\ v.activePool = w.activePool /\ v.collSurplusPool = w.collSurplusPool
        /\ v.thusd = w.thusd /\ v.otherDebt = w.otherDebt
    BY DEF IsState, StateFields, SameTroves, defaultPoolReceive
  <1>2. /\ e.activeDebt = 0 /\ e.activeColl = 0 /\ e.defaultDebt = 0 /\ e.defaultColl = a
        /\ e.surplus = 0 /\ e.claims = 0 /\ e.supply = 0 /\ e.reserve = 0 /\ e.pooled = 0
    BY DEF Still
  <1> HIDE DEF v, e
  <1>3. ASSUME v.ok, PoolTypes(w)
        PROVE  /\ v.activePool \in Amount /\ v.defaultPool \in Amount
               /\ v.activePool.collateral = w.activePool.collateral + e.activeColl
               /\ v.activePool.THUSDDebt = w.activePool.THUSDDebt + e.activeDebt
               /\ v.defaultPool.collateral = w.defaultPool.collateral + e.defaultColl
               /\ v.defaultPool.THUSDDebt = w.defaultPool.THUSDDebt + e.defaultDebt
    BY <1>1, <1>2, <1>3 DEF PoolTypes, Amount
  <1>4. /\ e.activeColl \in Int /\ e.activeDebt \in Int
        /\ e.defaultColl \in Int /\ e.defaultDebt \in Int
    BY <1>2
  <1>5. Moves(w, v, e)
    BY <1>1, <1>2, <1>3, <1>4, AmountMoves
  <1> QED
    BY <1>5 DEF v, e

\* DefaultPool.increaseTHUSDDebt
LEMMA DefaultIncrease ==
  ASSUME NEW w, IsState(w), NEW a \in Nat
  PROVE  Moves(w, defaultPoolIncreaseTHUSDDebt(w, a), [Still EXCEPT !.defaultDebt = a])
  <1> DEFINE v == defaultPoolIncreaseTHUSDDebt(w, a)
             e == [Still EXCEPT !.defaultDebt = a]
  <1>1. /\ IsState(v) /\ SameTroves(w, v) /\ v.ok = w.ok
        /\ v.defaultPool = [w.defaultPool EXCEPT !.THUSDDebt = @ + a]
        /\ v.activePool = w.activePool /\ v.collSurplusPool = w.collSurplusPool
        /\ v.thusd = w.thusd /\ v.otherDebt = w.otherDebt
    BY DEF IsState, StateFields, SameTroves, defaultPoolIncreaseTHUSDDebt
  <1>2. /\ e.activeDebt = 0 /\ e.activeColl = 0 /\ e.defaultDebt = a /\ e.defaultColl = 0
        /\ e.surplus = 0 /\ e.claims = 0 /\ e.supply = 0 /\ e.reserve = 0 /\ e.pooled = 0
    BY DEF Still
  <1> HIDE DEF v, e
  <1>3. ASSUME v.ok, PoolTypes(w)
        PROVE  /\ v.activePool \in Amount /\ v.defaultPool \in Amount
               /\ v.activePool.collateral = w.activePool.collateral + e.activeColl
               /\ v.activePool.THUSDDebt = w.activePool.THUSDDebt + e.activeDebt
               /\ v.defaultPool.collateral = w.defaultPool.collateral + e.defaultColl
               /\ v.defaultPool.THUSDDebt = w.defaultPool.THUSDDebt + e.defaultDebt
    BY <1>1, <1>2, <1>3 DEF PoolTypes, Amount
  <1>4. /\ e.activeColl \in Int /\ e.activeDebt \in Int
        /\ e.defaultColl \in Int /\ e.defaultDebt \in Int
    BY <1>2
  <1>5. Moves(w, v, e)
    BY <1>1, <1>2, <1>3, <1>4, AmountMoves
  <1> QED
    BY <1>5 DEF v, e

\* DefaultPool.decreaseTHUSDDebt: not below zero.
LEMMA DefaultDecrease ==
  ASSUME NEW w, IsState(w), NEW a \in Nat
  PROVE  Moves(w, defaultPoolDecreaseTHUSDDebt(w, a), [Still EXCEPT !.defaultDebt = -a])
  <1> DEFINE v == defaultPoolDecreaseTHUSDDebt(w, a)
             e == [Still EXCEPT !.defaultDebt = -a]
  <1>1. /\ IsState(v) /\ SameTroves(w, v) /\ (v.ok => w.ok /\ a <= w.defaultPool.THUSDDebt)
        /\ v.defaultPool = [w.defaultPool EXCEPT !.THUSDDebt = @ - a]
        /\ v.activePool = w.activePool /\ v.collSurplusPool = w.collSurplusPool
        /\ v.thusd = w.thusd /\ v.otherDebt = w.otherDebt
    BY DEF IsState, StateFields, SameTroves, defaultPoolDecreaseTHUSDDebt, Require
  <1>2. /\ e.activeDebt = 0 /\ e.activeColl = 0 /\ e.defaultDebt = -a /\ e.defaultColl = 0
        /\ e.surplus = 0 /\ e.claims = 0 /\ e.supply = 0 /\ e.reserve = 0 /\ e.pooled = 0
    BY DEF Still
  <1> HIDE DEF v, e
  <1>3. ASSUME v.ok, PoolTypes(w)
        PROVE  /\ v.activePool \in Amount /\ v.defaultPool \in Amount
               /\ v.activePool.collateral = w.activePool.collateral + e.activeColl
               /\ v.activePool.THUSDDebt = w.activePool.THUSDDebt + e.activeDebt
               /\ v.defaultPool.collateral = w.defaultPool.collateral + e.defaultColl
               /\ v.defaultPool.THUSDDebt = w.defaultPool.THUSDDebt + e.defaultDebt
    BY <1>1, <1>2, <1>3 DEF PoolTypes, Amount
  <1>4. /\ e.activeColl \in Int /\ e.activeDebt \in Int
        /\ e.defaultColl \in Int /\ e.defaultDebt \in Int
    BY <1>2
  <1>5. Moves(w, v, e)
    BY <1>1, <1>2, <1>3, <1>4, AmountMoves
  <1> QED
    BY <1>5 DEF v, e

\* DefaultPool.sendCollateralToActivePool: one pool loses what the other receives.
LEMMA DefaultToActive ==
  ASSUME NEW w, IsState(w), NEW a \in Nat
  PROVE  Moves(w, defaultPoolSendCollateralToActivePool(w, a), [Still EXCEPT !.activeColl = a, !.defaultColl = -a])
  <1> DEFINE v == defaultPoolSendCollateralToActivePool(w, a)
             e == [Still EXCEPT !.activeColl = a, !.defaultColl = -a]
  <1>1. /\ IsState(v) /\ SameTroves(w, v) /\ (v.ok => w.ok /\ a <= w.defaultPool.collateral)
        /\ v.activePool = [w.activePool EXCEPT !.collateral = @ + a]
        /\ v.defaultPool = [w.defaultPool EXCEPT !.collateral = @ - a]
        /\ v.collSurplusPool = w.collSurplusPool
        /\ v.thusd = w.thusd /\ v.otherDebt = w.otherDebt
    BY DEF IsState, StateFields, SameTroves, defaultPoolSendCollateralToActivePool, activePoolReceive, Require
  <1>2. /\ e.activeDebt = 0 /\ e.activeColl = a /\ e.defaultDebt = 0 /\ e.defaultColl = -a
        /\ e.surplus = 0 /\ e.claims = 0 /\ e.supply = 0 /\ e.reserve = 0 /\ e.pooled = 0
    BY DEF Still
  <1> HIDE DEF v, e
  <1>3. ASSUME v.ok, PoolTypes(w)
        PROVE  /\ v.activePool \in Amount /\ v.defaultPool \in Amount
               /\ v.activePool.collateral = w.activePool.collateral + e.activeColl
               /\ v.activePool.THUSDDebt = w.activePool.THUSDDebt + e.activeDebt
               /\ v.defaultPool.collateral = w.defaultPool.collateral + e.defaultColl
               /\ v.defaultPool.THUSDDebt = w.defaultPool.THUSDDebt + e.defaultDebt
    BY <1>1, <1>2, <1>3 DEF PoolTypes, Amount
  <1>4. /\ e.activeColl \in Int /\ e.activeDebt \in Int
        /\ e.defaultColl \in Int /\ e.defaultDebt \in Int
    BY <1>2
  <1>5. Moves(w, v, e)
    BY <1>1, <1>2, <1>3, <1>4, AmountMoves
  <1> QED
    BY <1>5 DEF v, e

\* Nothing but the CollSurplusPool changes.
LEMMA SurplusMoves ==
  ASSUME NEW w, NEW v, IsState(v), v.ok => w.ok, SameTroves(w, v),
         NEW e, e.surplus \in Int, e.claims \in Int,
         e.activeColl = 0, e.activeDebt = 0, e.defaultColl = 0, e.defaultDebt = 0,
         e.supply = 0, e.reserve = 0, e.pooled = 0,
         v.activePool = w.activePool, v.defaultPool = w.defaultPool,
         v.thusd = w.thusd, v.otherDebt = w.otherDebt,
         v.ok /\ PoolTypes(w) =>
           /\ v.collSurplusPool \in [collateral : Nat, balances : [Users -> Nat]]
           /\ v.collSurplusPool.collateral = w.collSurplusPool.collateral + e.surplus
           /\ Total(v.collSurplusPool.balances) = Total(w.collSurplusPool.balances) + e.claims
  PROVE  Moves(w, v, e)
  <1>1. ASSUME v.ok, PoolTypes(w) PROVE PoolTypes(v) /\ Changed(w, v, e)
    <2>1. PoolTypes(v)
      BY <1>1 DEF PoolTypes
    <2>2. Changed(w, v, e)
      BY <1>1, PoolSums DEF Changed
    <2> QED
      BY <2>1, <2>2
  <1> QED
    BY <1>1 DEF Moves

\* One claim is written.
LEMMA ClaimWritten ==
  ASSUME NEW w, PoolTypes(w), NEW b \in Users, NEW x \in Nat
  PROVE  /\ [w.collSurplusPool.balances EXCEPT ![b] = x] \in [Users -> Nat]
         /\ Total([w.collSurplusPool.balances EXCEPT ![b] = x])
              = Total(w.collSurplusPool.balances) - w.collSurplusPool.balances[b] + x
  <1>1. w.collSurplusPool.balances \in [1..NumUsers -> Nat] /\ b \in 1..NumUsers
    BY DEF PoolTypes, Users
  <1>2. w.collSurplusPool.balances \in [1..NumUsers -> Int] /\ x \in Int
    BY <1>1, NatsAreInts
  <1>3. NumUsers \in Nat
    BY BaseAssumption
  <1>4. Total([w.collSurplusPool.balances EXCEPT ![b] = x])
          = Total(w.collSurplusPool.balances) - w.collSurplusPool.balances[b] + x
    BY <1>1, <1>2, <1>3, SumUpdate DEF Total
  <1> QED
    BY <1>1, <1>4 DEF Users

\* CollSurplusPool.updateCollateralBalance and receive: its collateral grows, no claim does.
LEMMA SurplusReceive ==
  ASSUME NEW w, IsState(w), NEW a \in Nat
  PROVE  Moves(w, collSurplusPoolReceive(w, a), [Still EXCEPT !.surplus = a])
  <1> DEFINE v == collSurplusPoolReceive(w, a)
             e == [Still EXCEPT !.surplus = a]
  <1>1. /\ IsState(v) /\ SameTroves(w, v) /\ v.ok = w.ok
        /\ v.collSurplusPool = [w.collSurplusPool EXCEPT !.collateral = @ + a]
        /\ v.activePool = w.activePool /\ v.defaultPool = w.defaultPool
        /\ v.thusd = w.thusd /\ v.otherDebt = w.otherDebt
    BY DEF IsState, StateFields, SameTroves, collSurplusPoolReceive
  <1>2. /\ e.surplus = a /\ e.claims = 0
        /\ e.activeColl = 0 /\ e.activeDebt = 0 /\ e.defaultColl = 0 /\ e.defaultDebt = 0
        /\ e.supply = 0 /\ e.reserve = 0 /\ e.pooled = 0
    BY DEF Still
  <1> HIDE DEF v, e
  <1>3. ASSUME v.ok, PoolTypes(w)
        PROVE  /\ v.collSurplusPool \in [collateral : Nat, balances : [Users -> Nat]]
               /\ v.collSurplusPool.collateral = w.collSurplusPool.collateral + e.surplus
               /\ Total(v.collSurplusPool.balances)
                    = Total(w.collSurplusPool.balances) + e.claims
    <2>1. v.collSurplusPool.balances = w.collSurplusPool.balances
      BY <1>1, <1>3 DEF PoolTypes
    <2>2. /\ v.collSurplusPool \in [collateral : Nat, balances : [Users -> Nat]]
          /\ v.collSurplusPool.collateral = w.collSurplusPool.collateral + e.surplus
      BY <1>1, <1>2, <1>3 DEF PoolTypes
    <2> QED
      BY <1>2, <1>3, <2>1, <2>2, PoolSums
  <1>4. e.surplus \in Int /\ e.claims \in Int
    BY <1>2
  <1>5. Moves(w, v, e)
    BY <1>1, <1>2, <1>3, <1>4, SurplusMoves
  <1> QED
    BY <1>5 DEF v, e

\* CollSurplusPool.accountSurplus: a claim grows, the collateral does not.
LEMMA AccountSurplus ==
  ASSUME NEW w, IsState(w), NEW b \in Users, NEW a \in Nat
  PROVE  Moves(w, accountSurplus(w, b, a), [Still EXCEPT !.claims = a])
  <1> DEFINE v == accountSurplus(w, b, a)
             e == [Still EXCEPT !.claims = a]
             x == w.collSurplusPool.balances[b] + a
  <1>1. /\ IsState(v) /\ SameTroves(w, v) /\ v.ok = w.ok
        /\ v.collSurplusPool = [w.collSurplusPool EXCEPT !.balances[b] = x]
        /\ v.activePool = w.activePool /\ v.defaultPool = w.defaultPool
        /\ v.thusd = w.thusd /\ v.otherDebt = w.otherDebt
    BY DEF IsState, StateFields, SameTroves, accountSurplus, Emit
  <1>2. /\ e.surplus = 0 /\ e.claims = a
        /\ e.activeColl = 0 /\ e.activeDebt = 0 /\ e.defaultColl = 0 /\ e.defaultDebt = 0
        /\ e.supply = 0 /\ e.reserve = 0 /\ e.pooled = 0
    BY DEF Still
  <1> HIDE DEF v, e
  <1>3. ASSUME v.ok, PoolTypes(w)
        PROVE  /\ v.collSurplusPool \in [collateral : Nat, balances : [Users -> Nat]]
               /\ v.collSurplusPool.collateral = w.collSurplusPool.collateral + e.surplus
               /\ Total(v.collSurplusPool.balances)
                    = Total(w.collSurplusPool.balances) + e.claims
    <2>1. w.collSurplusPool.balances[b] \in Nat /\ x \in Nat
      BY <1>3 DEF PoolTypes
    <2>2. v.collSurplusPool.balances = [w.collSurplusPool.balances EXCEPT ![b] = x]
      BY <1>1, <1>3 DEF PoolTypes
    <2>3. /\ [w.collSurplusPool.balances EXCEPT ![b] = x] \in [Users -> Nat]
          /\ Total([w.collSurplusPool.balances EXCEPT ![b] = x])
               = Total(w.collSurplusPool.balances) - w.collSurplusPool.balances[b] + x
      BY <1>3, <2>1, ClaimWritten
    <2>4. /\ v.collSurplusPool \in [collateral : Nat, balances : [Users -> Nat]]
          /\ v.collSurplusPool.collateral = w.collSurplusPool.collateral + e.surplus
      BY <1>1, <1>2, <1>3, <2>2, <2>3 DEF PoolTypes
    <2> QED
      BY <1>2, <1>3, <2>1, <2>2, <2>3, <2>4, PoolSums
  <1>4. e.surplus \in Int /\ e.claims \in Int
    BY <1>2
  <1>5. Moves(w, v, e)
    BY <1>1, <1>2, <1>3, <1>4, SurplusMoves
  <1> QED
    BY <1>5 DEF v, e

\* CollSurplusPool.claimColl: the claim and the collateral shrink alike.
LEMMA ClaimColl ==
  ASSUME NEW w, IsState(w), NEW b \in Users, PoolTypes(w)
  PROVE  Moves(w, claimColl(w, b), [Still EXCEPT !.surplus = -w.collSurplusPool.balances[b],
                                                !.claims = -w.collSurplusPool.balances[b]])
  <1> DEFINE v == claimColl(w, b)
             x == w.collSurplusPool.balances[b]
             e == [Still EXCEPT !.surplus = -x, !.claims = -x]
  <1>1. /\ IsState(v) /\ SameTroves(w, v)
        /\ (v.ok => w.ok /\ x <= w.collSurplusPool.collateral)
        /\ v.collSurplusPool = [w.collSurplusPool EXCEPT !.balances[b] = 0,
                                                         !.collateral = @ - x]
        /\ v.activePool = w.activePool /\ v.defaultPool = w.defaultPool
        /\ v.thusd = w.thusd /\ v.otherDebt = w.otherDebt
    BY DEF IsState, StateFields, SameTroves, claimColl, Emit, Require
  <1>2. /\ e.surplus = -x /\ e.claims = -x
        /\ e.activeColl = 0 /\ e.activeDebt = 0 /\ e.defaultColl = 0 /\ e.defaultDebt = 0
        /\ e.supply = 0 /\ e.reserve = 0 /\ e.pooled = 0
    BY DEF Still
  <1>a. x \in Nat
    BY DEF PoolTypes
  <1> HIDE DEF v, e, x
  <1>3. ASSUME v.ok
        PROVE  /\ v.collSurplusPool \in [collateral : Nat, balances : [Users -> Nat]]
               /\ v.collSurplusPool.collateral = w.collSurplusPool.collateral + e.surplus
               /\ Total(v.collSurplusPool.balances)
                    = Total(w.collSurplusPool.balances) + e.claims
    <2>2. v.collSurplusPool.balances = [w.collSurplusPool.balances EXCEPT ![b] = 0]
      BY <1>1 DEF PoolTypes
    <2>3. /\ [w.collSurplusPool.balances EXCEPT ![b] = 0] \in [Users -> Nat]
          /\ Total([w.collSurplusPool.balances EXCEPT ![b] = 0])
               = Total(w.collSurplusPool.balances) - x + 0
      BY ClaimWritten DEF x
    <2>4. /\ v.collSurplusPool \in [collateral : Nat, balances : [Users -> Nat]]
          /\ v.collSurplusPool.collateral = w.collSurplusPool.collateral + e.surplus
      <3>1. v.collSurplusPool.collateral = w.collSurplusPool.collateral - x
        BY <1>1 DEF PoolTypes
      <3>2. v.collSurplusPool = [collateral |-> v.collSurplusPool.collateral,
                                 balances |-> v.collSurplusPool.balances]
        BY <1>1 DEF PoolTypes
      <3>3. w.collSurplusPool.collateral - x \in Nat
        BY <1>1, <1>3, <1>a DEF PoolTypes
      <3>4. v.collSurplusPool.collateral = w.collSurplusPool.collateral + e.surplus
        BY <1>2, <1>a, <3>1, PoolSums
      <3> QED
        BY <2>2, <2>3, <3>1, <3>2, <3>3, <3>4
    <2> QED
      BY <1>2, <1>a, <2>2, <2>3, <2>4, PoolSums
  <1>4. e.surplus \in Int /\ e.claims \in Int
    BY <1>2, <1>a
  <1>5. Moves(w, v, e)
    BY <1>1, <1>2, <1>3, <1>4, SurplusMoves
  <1> QED
    BY <1>5 DEF v, e, x

\* Nothing but THUSD balances change.
LEMMA TokenMoves ==
  ASSUME NEW w, NEW v, IsState(v), v.ok => w.ok, SameTroves(w, v),
         NEW e, e.supply \in Int, e.reserve \in Int, e.pooled \in Int,
         e.activeColl = 0, e.activeDebt = 0, e.defaultColl = 0, e.defaultDebt = 0,
         e.surplus = 0, e.claims = 0,
         v.activePool = w.activePool, v.defaultPool = w.defaultPool,
         v.collSurplusPool = w.collSurplusPool, v.otherDebt = w.otherDebt,
         v.ok /\ PoolTypes(w) =>
           /\ v.thusd \in [Accounts -> Nat]
           /\ SumOf(v.thusd, NumAccounts) = SumOf(w.thusd, NumAccounts) + e.supply
           /\ v.thusd[gasPoolAddress] = w.thusd[gasPoolAddress] + e.reserve
           /\ v.thusd[stabilityPoolAddress] = w.thusd[stabilityPoolAddress] + e.pooled
  PROVE  Moves(w, v, e)
  <1>1. ASSUME v.ok, PoolTypes(w) PROVE PoolTypes(v) /\ Changed(w, v, e)
    <2>1. PoolTypes(v)
      BY <1>1 DEF PoolTypes
    <2>2. Changed(w, v, e)
      BY <1>1, PoolSums DEF Changed
    <2> QED
      BY <2>1, <2>2
  <1> QED
    BY <1>1 DEF Moves

\* One balance is written.
LEMMA BalanceWritten ==
  ASSUME NEW f \in [Accounts -> Nat], NEW b \in Accounts, NEW x \in Nat
  PROVE  /\ [f EXCEPT ![b] = x] \in [Accounts -> Nat]
         /\ SumOf([f EXCEPT ![b] = x], NumAccounts) = SumOf(f, NumAccounts) - f[b] + x
         /\ SumOf(f, NumAccounts) \in Nat
         /\ \A c \in Accounts : [f EXCEPT ![b] = x][c] = IF c = b THEN x ELSE f[c]
  <1>1. f \in [1..NumAccounts -> Nat] /\ b \in 1..NumAccounts
    BY DEF Accounts
  <1>2. /\ f \in [1..NumAccounts -> Int] /\ x \in Int
        /\ \A i \in 1..NumAccounts : f[i] \in Nat
    BY <1>1, NatsAreInts
  <1>3. NumAccounts \in Nat
    BY BaseAssumption DEF NumAccounts
  <1>4. SumOf([f EXCEPT ![b] = x], NumAccounts) = SumOf(f, NumAccounts) - f[b] + x
    BY <1>1, <1>2, <1>3, SumUpdate
  <1>5. SumOf(f, NumAccounts) \in Nat
    BY <1>2, <1>3, SumType
  <1> QED
    BY <1>4, <1>5

\* The addresses of users and contracts differ.
LEMMA Addresses ==
  /\ Users \subseteq Accounts
  /\ gasPoolAddress \in Accounts /\ gasPoolAddress \notin Users
  /\ stabilityPoolAddress \in Accounts /\ stabilityPoolAddress \notin Users
  /\ pcvAddress \in Accounts /\ pcvAddress \notin Users
  /\ gasPoolAddress # stabilityPoolAddress
  /\ gasPoolAddress # pcvAddress /\ stabilityPoolAddress # pcvAddress
BY BaseAssumption DEF Users, Accounts, NumAccounts, gasPoolAddress, stabilityPoolAddress,
                      pcvAddress

\* What account c gets when amount a goes to account b.
At(b, c, a) == IF c = b THEN a ELSE 0

\* THUSDToken.mint: the supply and one balance grow.
LEMMA ThusdMint ==
  ASSUME NEW w, IsState(w), NEW b \in Accounts, NEW a \in Nat
  PROVE  Moves(w, thusdMint(w, b, a),
           [Still EXCEPT !.supply = a, !.reserve = At(b, gasPoolAddress, a),
                         !.pooled = At(b, stabilityPoolAddress, a)])
  <1> DEFINE v == thusdMint(w, b, a)
             e == [Still EXCEPT !.supply = a, !.reserve = At(b, gasPoolAddress, a),
                                !.pooled = At(b, stabilityPoolAddress, a)]
  <1>1. /\ IsState(v) /\ SameTroves(w, v) /\ (v.ok => w.ok)
        /\ v.thusd = [w.thusd EXCEPT ![b] = @ + a]
        /\ v.activePool = w.activePool /\ v.defaultPool = w.defaultPool
        /\ v.collSurplusPool = w.collSurplusPool /\ v.otherDebt = w.otherDebt
    BY DEF IsState, StateFields, SameTroves, thusdMint, Emit, Require
  <1>2. /\ e.supply = a
        /\ e.reserve = At(b, gasPoolAddress, a) /\ e.pooled = At(b, stabilityPoolAddress, a)
        /\ e.activeColl = 0 /\ e.activeDebt = 0 /\ e.defaultColl = 0 /\ e.defaultDebt = 0
        /\ e.surplus = 0 /\ e.claims = 0
    BY DEF Still
  <1> HIDE DEF v, e
  <1>3. ASSUME v.ok, PoolTypes(w)
        PROVE  /\ v.thusd \in [Accounts -> Nat]
               /\ SumOf(v.thusd, NumAccounts) = SumOf(w.thusd, NumAccounts) + e.supply
               /\ v.thusd[gasPoolAddress] = w.thusd[gasPoolAddress] + e.reserve
               /\ v.thusd[stabilityPoolAddress] = w.thusd[stabilityPoolAddress] + e.pooled
    <2> DEFINE x == w.thusd[b] + a
    <2>1. w.thusd \in [Accounts -> Nat] /\ w.thusd[b] \in Nat /\ x \in Nat
      BY <1>3 DEF PoolTypes
    <2>2. v.thusd = [w.thusd EXCEPT ![b] = x]
      BY <1>1, <2>1
    <2>3. /\ v.thusd \in [Accounts -> Nat]
          /\ SumOf(v.thusd, NumAccounts) = SumOf(w.thusd, NumAccounts) - w.thusd[b] + x
          /\ SumOf(w.thusd, NumAccounts) \in Nat
          /\ \A c \in Accounts : v.thusd[c] = IF c = b THEN x ELSE w.thusd[c]
      BY <2>1, <2>2, BalanceWritten
    <2>4. /\ v.thusd[gasPoolAddress] = w.thusd[gasPoolAddress] + e.reserve
          /\ v.thusd[stabilityPoolAddress] = w.thusd[stabilityPoolAddress] + e.pooled
      BY <1>2, <2>1, <2>3, Addresses DEF At
    <2> QED
      BY <1>2, <2>1, <2>3, <2>4
  <1>4. e.supply \in Int /\ e.reserve \in Int /\ e.pooled \in Int
    BY <1>2 DEF At
  <1>5. Moves(w, v, e)
    BY <1>1, <1>2, <1>3, <1>4, TokenMoves
  <1> QED
    BY <1>5 DEF v, e

\* THUSDToken.burn: the supply and one balance shrink, not below zero.
LEMMA ThusdBurn ==
  ASSUME NEW w, IsState(w), NEW b \in Accounts, NEW a \in Nat
  PROVE  Moves(w, thusdBurn(w, b, a),
           [Still EXCEPT !.supply = -a, !.reserve = -At(b, gasPoolAddress, a),
                         !.pooled = -At(b, stabilityPoolAddress, a)])
  <1> DEFINE v == thusdBurn(w, b, a)
             e == [Still EXCEPT !.supply = -a, !.reserve = -At(b, gasPoolAddress, a),
                                !.pooled = -At(b, stabilityPoolAddress, a)]
  <1>1. /\ IsState(v) /\ SameTroves(w, v) /\ (v.ok => w.ok /\ a <= w.thusd[b])
        /\ v.thusd = [w.thusd EXCEPT ![b] = @ - a]
        /\ v.activePool = w.activePool /\ v.defaultPool = w.defaultPool
        /\ v.collSurplusPool = w.collSurplusPool /\ v.otherDebt = w.otherDebt
    BY DEF IsState, StateFields, SameTroves, thusdBurn, Emit, Require
  <1>2. /\ e.supply = -a
        /\ e.reserve = -At(b, gasPoolAddress, a) /\ e.pooled = -At(b, stabilityPoolAddress, a)
        /\ e.activeColl = 0 /\ e.activeDebt = 0 /\ e.defaultColl = 0 /\ e.defaultDebt = 0
        /\ e.surplus = 0 /\ e.claims = 0
    BY DEF Still
  <1> HIDE DEF v, e
  <1>3. ASSUME v.ok, PoolTypes(w)
        PROVE  /\ v.thusd \in [Accounts -> Nat]
               /\ SumOf(v.thusd, NumAccounts) = SumOf(w.thusd, NumAccounts) + e.supply
               /\ v.thusd[gasPoolAddress] = w.thusd[gasPoolAddress] + e.reserve
               /\ v.thusd[stabilityPoolAddress] = w.thusd[stabilityPoolAddress] + e.pooled
    <2> DEFINE x == w.thusd[b] - a
    <2>1. w.thusd \in [Accounts -> Nat] /\ w.thusd[b] \in Nat /\ x \in Nat
      BY <1>1, <1>3 DEF PoolTypes
    <2>2. v.thusd = [w.thusd EXCEPT ![b] = x]
      BY <1>1, <2>1
    <2>3. /\ v.thusd \in [Accounts -> Nat]
          /\ SumOf(v.thusd, NumAccounts) = SumOf(w.thusd, NumAccounts) - w.thusd[b] + x
          /\ SumOf(w.thusd, NumAccounts) \in Nat
          /\ \A c \in Accounts : v.thusd[c] = IF c = b THEN x ELSE w.thusd[c]
      BY <2>1, <2>2, BalanceWritten
    <2>4. /\ v.thusd[gasPoolAddress] = w.thusd[gasPoolAddress] + e.reserve
          /\ v.thusd[stabilityPoolAddress] = w.thusd[stabilityPoolAddress] + e.pooled
      BY <1>2, <2>1, <2>3, Addresses DEF At
    <2> QED
      BY <1>2, <2>1, <2>3, <2>4
  <1>4. e.supply \in Int /\ e.reserve \in Int /\ e.pooled \in Int
    BY <1>2 DEF At
  <1>5. Moves(w, v, e)
    BY <1>1, <1>2, <1>3, <1>4, TokenMoves
  <1> QED
    BY <1>5 DEF v, e

\* THUSDToken._transfer: the supply stays.
LEMMA ThusdTransfer ==
  ASSUME NEW w, IsState(w), NEW b \in Accounts, NEW to \in Accounts, b # to, NEW a \in Nat
  PROVE  Moves(w, thusdTransfer(w, b, to, a),
           [Still EXCEPT
              !.reserve = At(to, gasPoolAddress, a) - At(b, gasPoolAddress, a),
              !.pooled = At(to, stabilityPoolAddress, a) - At(b, stabilityPoolAddress, a)])
  <1> DEFINE v == thusdTransfer(w, b, to, a)
             e == [Still EXCEPT
                     !.reserve = At(to, gasPoolAddress, a) - At(b, gasPoolAddress, a),
                     !.pooled = At(to, stabilityPoolAddress, a)
                                  - At(b, stabilityPoolAddress, a)]
  <1>1. /\ IsState(v) /\ SameTroves(w, v) /\ (v.ok => w.ok /\ a <= w.thusd[b])
        /\ v.thusd = [w.thusd EXCEPT ![b] = @ - a, ![to] = @ + a]
        /\ v.activePool = w.activePool /\ v.defaultPool = w.defaultPool
        /\ v.collSurplusPool = w.collSurplusPool /\ v.otherDebt = w.otherDebt
    BY DEF IsState, StateFields, SameTroves, thusdTransfer, Emit, Require
  <1>2. /\ e.supply = 0
        /\ e.reserve = At(to, gasPoolAddress, a) - At(b, gasPoolAddress, a)
        /\ e.pooled = At(to, stabilityPoolAddress, a) - At(b, stabilityPoolAddress, a)
        /\ e.activeColl = 0 /\ e.activeDebt = 0 /\ e.defaultColl = 0 /\ e.defaultDebt = 0
        /\ e.surplus = 0 /\ e.claims = 0
    BY DEF Still
  <1> HIDE DEF v, e
  <1>3. ASSUME v.ok, PoolTypes(w)
        PROVE  /\ v.thusd \in [Accounts -> Nat]
               /\ SumOf(v.thusd, NumAccounts) = SumOf(w.thusd, NumAccounts) + e.supply
               /\ v.thusd[gasPoolAddress] = w.thusd[gasPoolAddress] + e.reserve
               /\ v.thusd[stabilityPoolAddress] = w.thusd[stabilityPoolAddress] + e.pooled
    <2> DEFINE x == w.thusd[b] - a
               y == w.thusd[to] + a
               f == [w.thusd EXCEPT ![b] = x]
    <2>1. /\ w.thusd \in [Accounts -> Nat] /\ w.thusd[b] \in Nat /\ w.thusd[to] \in Nat
          /\ x \in Nat /\ y \in Nat
      BY <1>1, <1>3 DEF PoolTypes
    <2>2. v.thusd = [f EXCEPT ![to] = y]
      BY <1>1, <2>1
    <2>3. /\ f \in [Accounts -> Nat]
          /\ SumOf(f, NumAccounts) = SumOf(w.thusd, NumAccounts) - w.thusd[b] + x
          /\ SumOf(w.thusd, NumAccounts) \in Nat
          /\ \A c \in Accounts : f[c] = IF c = b THEN x ELSE w.thusd[c]
      BY <2>1, BalanceWritten
    <2> HIDE DEF f, x, y
    <2>4. /\ v.thusd \in [Accounts -> Nat]
          /\ SumOf(v.thusd, NumAccounts) = SumOf(f, NumAccounts) - f[to] + y
          /\ SumOf(f, NumAccounts) \in Nat
          /\ \A c \in Accounts : v.thusd[c] = IF c = to THEN y ELSE f[c]
      <3>1. /\ [f EXCEPT ![to] = y] \in [Accounts -> Nat]
            /\ SumOf([f EXCEPT ![to] = y], NumAccounts) = SumOf(f, NumAccounts) - f[to] + y
            /\ SumOf(f, NumAccounts) \in Nat
            /\ \A c \in Accounts : [f EXCEPT ![to] = y][c] = IF c = to THEN y ELSE f[c]
        BY <2>1, <2>3, BalanceWritten
      <3> QED
        BY <2>2, <3>1
    <2>5. f[to] = w.thusd[to]
      BY <2>3
    <2> USE DEF x, y
    <2>6. /\ v.thusd[gasPoolAddress] = w.thusd[gasPoolAddress] + e.reserve
          /\ v.thusd[stabilityPoolAddress] = w.thusd[stabilityPoolAddress] + e.pooled
      BY <1>2, <2>1, <2>3, <2>4, Addresses DEF At
    <2> QED
      BY <1>2, <2>1, <2>3, <2>4, <2>5, <2>6
  <1>4. e.supply \in Int /\ e.reserve \in Int /\ e.pooled \in Int
    BY <1>2 DEF At
  <1>5. Moves(w, v, e)
    BY <1>1, <1>2, <1>3, <1>4, TokenMoves
  <1> QED
    BY <1>5 DEF v, e

-----------------------------------------------------------------------------
(* The list of troves. *)

\* seq lists the troves of the set T, each once.
ListOf(seq, T) ==
  /\ seq \in Seq(Users)
  /\ \A i \in 1..Len(seq) : seq[i] \in T
  /\ \A i, j \in 1..Len(seq) : seq[i] = seq[j] => i = j
  /\ \A u \in T : \E i \in 1..Len(seq) : seq[i] = u

\* Removing a trove (SortedTroves.remove) leaves the others.
LEMMA WithoutList ==
  ASSUME NEW seq, NEW T \in SUBSET Users, ListOf(seq, T), NEW b \in Users
  PROVE  ListOf(Without(b, seq), T \ {b})
  <1> DEFINE n == Len(seq)
             v == Without(b, seq)
  <1>0. /\ seq \in [1..n -> Users] /\ n \in Nat
        /\ \A i \in 1..n : seq[i] \in T
        /\ \A i, j \in 1..n : seq[i] = seq[j] => i = j
        /\ \A u \in T : \E i \in 1..n : seq[i] = u
    BY DEF ListOf
  <1>1. CASE ~ \E i \in 1..n : seq[i] = b
    <2>1. v = seq
      BY <1>1 DEF Without
    <2>2. \A i \in 1..n : seq[i] \in T \ {b}
      BY <1>0, <1>1
    <2>3. seq \in Seq(Users)
      BY DEF ListOf
    <2> QED
      BY <1>0, <2>1, <2>2, <2>3 DEF ListOf
  <1>2. CASE \E i \in 1..n : seq[i] = b
    <2> DEFINE at == CHOOSE i \in 1..n : seq[i] = b
    <2>1. v = [j \in 1..n - 1 |-> seq[IF j < at THEN j ELSE j + 1]]
      BY <1>2 DEF Without
    <2>2. at \in 1..n /\ seq[at] = b
      BY <1>2
    <2> HIDE DEF at, v, n
    <2>3. n - 1 \in Nat
      BY <1>0, <2>2
    <2>4. \A j \in 1..n - 1 : /\ v[j] = seq[IF j < at THEN j ELSE j + 1]
                              /\ (IF j < at THEN j ELSE j + 1) \in 1..n
                              /\ (IF j < at THEN j ELSE j + 1) # at
      BY <1>0, <2>1, <2>2
    <2>5. \A j \in 1..n - 1 : v[j] \in Users /\ v[j] \in T /\ v[j] # b
      BY <1>0, <2>2, <2>4
    <2>6. v \in [1..n - 1 -> Users]
      BY <2>1, <2>5
    <2>7. v \in Seq(Users) /\ Len(v) = n - 1
      BY <2>3, <2>6
    <2>8. \A i, j \in 1..n - 1 : v[i] = v[j] => i = j
      <3> SUFFICES ASSUME NEW i \in 1..n - 1, NEW j \in 1..n - 1, v[i] = v[j] PROVE i = j
        OBVIOUS
      <3>1. (IF i < at THEN i ELSE i + 1) = (IF j < at THEN j ELSE j + 1)
        BY <1>0, <2>4
      <3> QED
        BY <1>0, <2>2, <3>1
    <2>9. \A u \in T \ {b} : \E j \in 1..n - 1 : v[j] = u
      <3> SUFFICES ASSUME NEW u \in T \ {b} PROVE \E j \in 1..n - 1 : v[j] = u
        OBVIOUS
      <3>1. PICK i \in 1..n : seq[i] = u
        BY <1>0
      <3>2. i # at
        BY <2>2, <3>1
      <3>3. CASE i < at
        BY <1>0, <2>2, <2>4, <3>1, <3>3
      <3>4. CASE i > at
        <4>1. i - 1 \in 1..n - 1 /\ ~(i - 1 < at) /\ (i - 1) + 1 = i
          BY <1>0, <2>2, <3>4
        <4>2. v[i - 1] = u
          BY <2>4, <3>1, <4>1
        <4> QED
          BY <4>1, <4>2
      <3> QED
        BY <1>0, <2>2, <3>2, <3>3, <3>4
    <2> QED
      BY <2>5, <2>7, <2>8, <2>9 DEF ListOf, v
  <1> QED
    BY <1>1, <1>2

\* Inserting a trove puts it among the others (SortedTroves.insert).
LEMMA PlacedList ==
  ASSUME NEW seq, NEW T \in SUBSET Users, ListOf(seq, T), NEW b \in Users, b \notin T,
         NEW pos \in 1..Len(seq) + 1
  PROVE  ListOf(placeAt(seq, b, pos), T \cup {b})
  <1> DEFINE n == Len(seq)
             v == placeAt(seq, b, pos)
  <1>0. /\ seq \in [1..n -> Users] /\ n \in Nat
        /\ \A i \in 1..n : seq[i] \in T
        /\ \A i, j \in 1..n : seq[i] = seq[j] => i = j
        /\ \A u \in T : \E i \in 1..n : seq[i] = u
        /\ pos \in 1..n + 1
    BY DEF ListOf
  <1>1. v = [j \in 1..n + 1 |-> IF j = pos THEN b ELSE seq[IF j < pos THEN j ELSE j - 1]]
    BY DEF placeAt
  <1> HIDE DEF v, n
  <1>2. v[pos] = b
    BY <1>0, <1>1
  <1>3. \A j \in 1..n + 1 : j # pos => /\ v[j] = seq[IF j < pos THEN j ELSE j - 1]
                                       /\ (IF j < pos THEN j ELSE j - 1) \in 1..n
    BY <1>0, <1>1
  <1>4. \A j \in 1..n + 1 : v[j] \in Users /\ v[j] \in T \cup {b} /\ (j # pos => v[j] # b)
    BY <1>0, <1>2, <1>3
  <1>5. v \in [1..n + 1 -> Users]
    BY <1>1, <1>4
  <1>6. v \in Seq(Users) /\ Len(v) = n + 1
    BY <1>0, <1>5
  <1>7. \A i, j \in 1..n + 1 : v[i] = v[j] => i = j
    <2> SUFFICES ASSUME NEW i \in 1..n + 1, NEW j \in 1..n + 1, v[i] = v[j] PROVE i = j
      OBVIOUS
    <2>1. CASE i = pos \/ j = pos
      BY <1>2, <1>4, <2>1
    <2>2. CASE i # pos /\ j # pos
      <3>1. (IF i < pos THEN i ELSE i - 1) = (IF j < pos THEN j ELSE j - 1)
        BY <1>0, <1>3, <2>2
      <3> QED
        BY <1>0, <2>2, <3>1
    <2> QED
      BY <2>1, <2>2
  <1>8. \A u \in T \cup {b} : \E j \in 1..n + 1 : v[j] = u
    <2> SUFFICES ASSUME NEW u \in T \cup {b} PROVE \E j \in 1..n + 1 : v[j] = u
      OBVIOUS
    <2>1. CASE u = b
      BY <1>0, <1>2, <2>1
    <2>2. CASE u # b
      <3>1. PICK i \in 1..n : seq[i] = u
        BY <1>0, <2>2
      <3>2. CASE i < pos
        <4>1. i \in 1..n + 1 /\ i # pos
          BY <1>0, <3>2
        <4>2. v[i] = u
          BY <1>3, <3>1, <3>2, <4>1
        <4> QED
          BY <4>1, <4>2
      <3>3. CASE ~(i < pos)
        <4>1. i + 1 \in 1..n + 1 /\ i + 1 # pos /\ ~(i + 1 < pos) /\ (i + 1) - 1 = i
          BY <1>0, <3>3
        <4>2. v[i + 1] = u
          BY <1>3, <3>1, <4>1
        <4> QED
          BY <4>1, <4>2
      <3> QED
        BY <3>2, <3>3
    <2> QED
      BY <2>1, <2>2
  <1> QED
    BY <1>4, <1>6, <1>7, <1>8 DEF ListOf, v

\* The list is as long as the set is large.
LEMMA ListLength ==
  ASSUME NEW seq, NEW T \in SUBSET Users, ListOf(seq, T)
  PROVE  Len(seq) = Cardinality(T) /\ {seq[i] : i \in 1..Len(seq)} = T
  <1> DEFINE n == Len(seq)
  <1>0. /\ seq \in Seq(Users)
        /\ \A i \in 1..n : seq[i] \in T
        /\ \A i, j \in 1..n : seq[i] = seq[j] => i = j
        /\ \A u \in T : \E i \in 1..n : seq[i] = u
    BY DEF ListOf
  <1>1. n \in Nat /\ seq \in [1..n -> Users]
    BY <1>0
  <1> HIDE DEF n
  <1>2. seq \in [1..n -> T]
    BY <1>0, <1>1
  <1>3. seq \in Bijection(1..n, T)
    BY <1>0, <1>2 DEF Bijection, Injection, Surjection, IsInjective
  <1>4. ExistsBijection(1..n, T)
    BY <1>3 DEF ExistsBijection
  <1>5. IsFiniteSet(1..n) /\ Cardinality(1..n) = n
    BY <1>1, FS_Interval
  <1>6. Cardinality(T) = n
    BY <1>4, <1>5, FS_Bijection
  <1>7. {seq[i] : i \in 1..n} = T
    BY <1>0
  <1> QED
    BY <1>6, <1>7 DEF n

-----------------------------------------------------------------------------
(* The books.  Between two statements of a transaction they differ by what *)
(* is still to be moved; the gaps say by how much.                         *)

Open(w) == {u \in Users : w.status[u] = "active"}

\* The trove of u is closed and empty, or its snapshots are not ahead of the sums.
TroveOf(w, u) ==
  IF w.status[u] = "active"
  THEN /\ w.snapshotCollateral[u] <= w.L_Collateral
       /\ w.snapshotTHUSDDebt[u] <= w.L_THUSDDebt
  ELSE w.coll[u] = 0 /\ w.debt[u] = 0 /\ w.stake[u] = 0

TroveTypes(w) ==
  /\ w.status \in [Users -> Statuses]
  /\ w.coll \in [Users -> Nat] /\ w.debt \in [Users -> Nat] /\ w.stake \in [Users -> Nat]
  /\ w.snapshotCollateral \in [Users -> Nat] /\ w.snapshotTHUSDDebt \in [Users -> Nat]
  /\ w.totalStakes \in Nat /\ w.totalStakesSnapshot \in Nat
  /\ w.totalCollateralSnapshot \in Nat
  /\ w.L_Collateral \in Nat /\ w.L_THUSDDebt \in Nat
  /\ w.lastCollateralError_Redistribution \in Nat
  /\ w.lastTHUSDDebtError_Redistribution \in Nat
  /\ w.baseRate \in 0..DECIMAL_PRECISION
  /\ w.mintList \in BOOLEAN

\* What holds between any two statements that do not write the same trove.
Sound(w) ==
  /\ IsState(w)
  /\ PoolTypes(w)
  /\ TroveTypes(w)
  /\ ListOf(w.sortedTroves, Open(w))
  /\ w.totalStakes = Total(w.stake)
  /\ \A u \in Users : TroveOf(w, u)

DebtGap(w) == w.activePool.THUSDDebt - Total(w.debt)
CollGap(w) == w.activePool.collateral - Total(w.coll)
SupplyGap(w) == SumOf(w.thusd, NumAccounts) - w.otherDebt - getEntireSystemDebt(w)
ReserveGap(w) == w.thusd[gasPoolAddress] - THUSD_GAS_COMPENSATION * Cardinality(Open(w))
SurplusGap(w) == w.collSurplusPool.collateral - Total(w.collSurplusPool.balances)
Pooled(w) == w.thusd[stabilityPoolAddress]

\* A transaction has reached w; unless it has reverted, w is sound.
Ready(w) == IsState(w) /\ (w.ok => Sound(w))

\* The function that leads from w to v changes the gaps by these amounts unless it reverts.
Leads(w, v, debt, coll, supply, reserve, surplus, pooled) ==
  v.ok => /\ w.ok
          /\ debt \in Int /\ coll \in Int /\ supply \in Int /\ reserve \in Int
          /\ surplus \in Int /\ pooled \in Int
          /\ DebtGap(v) = DebtGap(w) + debt
          /\ CollGap(v) = CollGap(w) + coll
          /\ SupplyGap(v) = SupplyGap(w) + supply
          /\ ReserveGap(v) = ReserveGap(w) + reserve
          /\ SurplusGap(v) = SurplusGap(w) + surplus
          /\ Pooled(v) = Pooled(w) + pooled

\* The open troves are finitely many.
LEMMA OpenFinite ==
  ASSUME NEW w
  PROVE  IsFiniteSet(Open(w)) /\ Cardinality(Open(w)) \in Nat
  <1>1. IsFiniteSet(Users)
    BY BaseAssumption, FS_Interval DEF Users
  <1>2. Open(w) \subseteq Users
    BY DEF Open
  <1> QED
    BY <1>1, <1>2, FS_Subset, FS_CardinalityType

\* The totals over the troves are natural numbers.
LEMMA TroveSums ==
  ASSUME NEW f \in [Users -> Nat]
  PROVE  Total(f) \in Nat
  <1>1. f \in [1..NumUsers -> Nat] /\ NumUsers \in Nat
    BY BaseAssumption DEF Users
  <1>2. f \in [1..NumUsers -> Int] /\ \A i \in 1..NumUsers : f[i] \in Nat
    BY <1>1, NatsAreInts
  <1> QED
    BY <1>1, <1>2, SumType DEF Total

\* The gaps of a sound state are integers.
LEMMA GapTypes ==
  ASSUME NEW w, Sound(w)
  PROVE  /\ DebtGap(w) \in Int /\ CollGap(w) \in Int /\ SupplyGap(w) \in Int
         /\ ReserveGap(w) \in Int /\ SurplusGap(w) \in Int /\ Pooled(w) \in Nat
         /\ Total(w.debt) \in Nat /\ Total(w.coll) \in Nat
  <1>1. PoolTypes(w) /\ w.debt \in [Users -> Nat] /\ w.coll \in [Users -> Nat]
    BY DEF Sound, TroveTypes
  <1>2. Total(w.debt) \in Nat /\ Total(w.coll) \in Nat
    BY <1>1, TroveSums
  <1>3. Cardinality(Open(w)) \in Nat /\ THUSD_GAS_COMPENSATION \in Nat
    BY OpenFinite, BaseAssumption
  <1>4. THUSD_GAS_COMPENSATION * Cardinality(Open(w)) \in Nat
    BY <1>3, MulNat
  <1> QED
    BY <1>1, <1>2, <1>4, PoolSums
    DEF DebtGap, CollGap, SupplyGap, ReserveGap, SurplusGap, Pooled, getEntireSystemDebt

\* What writes no trove keeps the troves sound.
LEMMA SameTrovesSound ==
  ASSUME NEW w, NEW v, Sound(w), IsState(v), PoolTypes(v), SameTroves(w, v)
  PROVE  /\ Sound(v) /\ Open(v) = Open(w)
         /\ Total(v.debt) = Total(w.debt) /\ Total(v.coll) = Total(w.coll)
  <1>1. Open(v) = Open(w)
    BY DEF SameTroves, Open
  <1>2. TroveTypes(v)
    BY DEF SameTroves, Sound, TroveTypes
  <1>3. ListOf(v.sortedTroves, Open(v)) /\ v.totalStakes = Total(v.stake)
    BY <1>1 DEF SameTroves, Sound
  <1>4. \A u \in Users : TroveOf(v, u)
    BY DEF SameTroves, Sound, TroveOf
  <1> QED
    BY <1>1, <1>2, <1>3, <1>4 DEF Sound, SameTroves

\* What moves balances by d changes the gaps accordingly.
LEMMA MovesLead ==
  ASSUME NEW w, NEW v, NEW d, Ready(w), IsState(v), v.ok => w.ok,
         w.ok => /\ Moves(w, v, d)
                 /\ d.activeDebt \in Int /\ d.activeColl \in Int /\ d.defaultDebt \in Int
                 /\ d.surplus \in Int /\ d.claims \in Int /\ d.supply \in Int
                 /\ d.reserve \in Int /\ d.pooled \in Int
  PROVE  /\ Ready(v)
         /\ Leads(w, v, d.activeDebt, d.activeColl, d.supply - d.activeDebt - d.defaultDebt,
                  d.reserve, d.surplus - d.claims, d.pooled)
  <1> SUFFICES ASSUME v.ok
               PROVE  /\ Sound(v)
                      /\ Leads(w, v, d.activeDebt, d.activeColl,
                               d.supply - d.activeDebt - d.defaultDebt,
                               d.reserve, d.surplus - d.claims, d.pooled)
    BY DEF Ready, Leads
  <1>1. w.ok /\ Sound(w) /\ Moves(w, v, d)
    BY DEF Ready
  <1>2. PoolTypes(w) /\ PoolTypes(v) /\ Changed(w, v, d) /\ SameTroves(w, v)
    BY <1>1 DEF Moves, Sound
  <1>3. /\ Sound(v) /\ Open(v) = Open(w)
        /\ Total(v.debt) = Total(w.debt) /\ Total(v.coll) = Total(w.coll)
    BY <1>1, <1>2, SameTrovesSound
  <1>4. /\ Total(w.collSurplusPool.balances) \in Nat
        /\ SumOf(w.thusd, NumAccounts) \in Nat
        /\ w.activePool.THUSDDebt \in Nat /\ w.activePool.collateral \in Nat
        /\ w.defaultPool.THUSDDebt \in Nat
        /\ w.collSurplusPool.collateral \in Nat
        /\ w.thusd[gasPoolAddress] \in Nat /\ w.thusd[stabilityPoolAddress] \in Nat
        /\ w.otherDebt \in Nat
    BY <1>2, PoolSums
  <1>5. Total(w.debt) \in Nat /\ Total(w.coll) \in Nat
    BY <1>1, GapTypes
  <1>6. THUSD_GAS_COMPENSATION * Cardinality(Open(w)) \in Nat
    BY OpenFinite, BaseAssumption, MulNat
  <1>7. /\ DebtGap(v) = DebtGap(w) + d.activeDebt
        /\ CollGap(v) = CollGap(w) + d.activeColl
    BY <1>1, <1>2, <1>3, <1>4, <1>5 DEF DebtGap, CollGap, Changed
  <1>8. SupplyGap(v) = SupplyGap(w) + (d.supply - d.activeDebt - d.defaultDebt)
    BY <1>1, <1>2, <1>4 DEF SupplyGap, getEntireSystemDebt, Changed
  <1>9. /\ ReserveGap(v) = ReserveGap(w) + d.reserve
        /\ SurplusGap(v) = SurplusGap(w) + (d.surplus - d.claims)
        /\ Pooled(v) = Pooled(w) + d.pooled
    BY <1>1, <1>2, <1>3, <1>4, <1>6 DEF ReserveGap, SurplusGap, Pooled, Changed
  <1> QED
    BY <1>1, <1>3, <1>7, <1>8, <1>9 DEF Leads

-----------------------------------------------------------------------------
(* The functions of the pools and of the token, by what they do to the     *)
(* gaps.                                                                   *)

\* v is a state with the troves of w, and reverted if w was.
Follows(w, v) == IsState(v) /\ (v.ok => w.ok) /\ SameTroves(w, v)

\* A function of the pools or of the token never undoes a revert, whatever its arguments.
LEMMA PoolsFollow ==
  ASSUME NEW w, IsState(w), NEW a, NEW b, NEW to
  PROVE  /\ Follows(w, Require(w, a))
         /\ Follows(w, Emit(w, a))
         /\ Follows(w, activePoolReceive(w, a))
         /\ Follows(w, activePoolSendCollateral(w, to, a))
         /\ Follows(w, activePoolIncreaseTHUSDDebt(w, a))
         /\ Follows(w, activePoolDecreaseTHUSDDebt(w, a))
         /\ Follows(w, defaultPoolReceive(w, a))
         /\ Follows(w, defaultPoolIncreaseTHUSDDebt(w, a))
         /\ Follows(w, defaultPoolDecreaseTHUSDDebt(w, a))
         /\ Follows(w, defaultPoolSendCollateralToActivePool(w, a))
         /\ Follows(w, collSurplusPoolReceive(w, a))
         /\ Follows(w, accountSurplus(w, to, a))
         /\ Follows(w, claimColl(w, to))
         /\ Follows(w, thusdMint(w, to, a))
         /\ Follows(w, thusdBurn(w, to, a))
         /\ Follows(w, thusdTransfer(w, b, to, a))
  <1>1. Follows(w, Require(w, a))
    BY DEF Follows, SameTroves, IsState, StateFields, Require
  <1>2. Follows(w, Emit(w, a))
    BY DEF Follows, SameTroves, IsState, StateFields, Emit
  <1>3. Follows(w, activePoolReceive(w, a))
    BY DEF Follows, SameTroves, IsState, StateFields, activePoolReceive
  <1>4. Follows(w, activePoolSendCollateral(w, to, a))
    BY DEF Follows, SameTroves, IsState, StateFields, activePoolSendCollateral, Emit, Require
  <1>5. Follows(w, activePoolIncreaseTHUSDDebt(w, a))
    BY DEF Follows, SameTroves, IsState, StateFields, activePoolIncreaseTHUSDDebt
  <1>6. Follows(w, activePoolDecreaseTHUSDDebt(w, a))
    BY DEF Follows, SameTroves, IsState, StateFields, activePoolDecreaseTHUSDDebt, Require
  <1>7. Follows(w, defaultPoolReceive(w, a))
    BY DEF Follows, SameTroves, IsState, StateFields, defaultPoolReceive
  <1>8. Follows(w, defaultPoolIncreaseTHUSDDebt(w, a))
    BY DEF Follows, SameTroves, IsState, StateFields, defaultPoolIncreaseTHUSDDebt
  <1>9. Follows(w, defaultPoolDecreaseTHUSDDebt(w, a))
    BY DEF Follows, SameTroves, IsState, StateFields, defaultPoolDecreaseTHUSDDebt, Require
  <1>10. Follows(w, defaultPoolSendCollateralToActivePool(w, a))
    BY DEF Follows, SameTroves, IsState, StateFields, defaultPoolSendCollateralToActivePool, activePoolReceive, Require
  <1>11. Follows(w, collSurplusPoolReceive(w, a))
    BY DEF Follows, SameTroves, IsState, StateFields, collSurplusPoolReceive
  <1>12. Follows(w, accountSurplus(w, to, a))
    BY DEF Follows, SameTroves, IsState, StateFields, accountSurplus, Emit
  <1>13. Follows(w, claimColl(w, to))
    BY DEF Follows, SameTroves, IsState, StateFields, claimColl, Emit, Require
  <1>14. Follows(w, thusdMint(w, to, a))
    BY DEF Follows, SameTroves, IsState, StateFields, thusdMint, Emit, Require
  <1>15. Follows(w, thusdBurn(w, to, a))
    BY DEF Follows, SameTroves, IsState, StateFields, thusdBurn, Emit, Require
  <1>16. Follows(w, thusdTransfer(w, b, to, a))
    BY DEF Follows, SameTroves, IsState, StateFields, thusdTransfer, Emit, Require
  <1> QED
    BY <1>1, <1>2, <1>3, <1>4, <1>5, <1>6, <1>7, <1>8, <1>9, <1>10, <1>11,
       <1>12, <1>13, <1>14, <1>15, <1>16

\* A require changes no balance; it holds when the transaction goes on.
LEMMA LeadRequire ==
  ASSUME NEW w, Ready(w), NEW c, c \in BOOLEAN
  PROVE  /\ Ready(Require(w, c))
         /\ Leads(w, Require(w, c), 0, 0, 0, 0, 0, 0)
  <1> DEFINE v == Require(w, c)
             e == Still
  <1>1. IsState(v) /\ (v.ok => w.ok)
    BY PoolsFollow DEF Ready, Follows
  <1>2. w.ok => Moves(w, v, e)
    BY RequireMoves DEF Ready
  <1>3. /\ e.activeDebt = 0 /\ e.activeColl = 0 /\ e.defaultDebt = 0
        /\ e.defaultColl = 0 /\ e.surplus = 0 /\ e.claims = 0
        /\ e.supply = 0 /\ e.reserve = 0 /\ e.pooled = 0
    BY DEF Still
  <1> HIDE DEF v, e
  <1>4. w.ok => /\ e.activeDebt \in Int /\ e.activeColl \in Int /\ e.defaultDebt \in Int
                /\ e.surplus \in Int /\ e.claims \in Int /\ e.supply \in Int
                /\ e.reserve \in Int /\ e.pooled \in Int
    BY <1>3
  <1>5. /\ Ready(v)
        /\ Leads(w, v, e.activeDebt, e.activeColl, e.supply - e.activeDebt - e.defaultDebt,
                 e.reserve, e.surplus - e.claims, e.pooled)
    BY <1>1, <1>2, <1>4, MovesLead
  <1> QED
    BY <1>3, <1>4, <1>5 DEF Leads, v

\* An event changes no balance.
LEMMA LeadEmit ==
  ASSUME NEW w, Ready(w), NEW x
  PROVE  /\ Ready(Emit(w, x))
         /\ Leads(w, Emit(w, x), 0, 0, 0, 0, 0, 0)
  <1> DEFINE v == Emit(w, x)
             e == Still
  <1>1. IsState(v) /\ (v.ok => w.ok)
    BY PoolsFollow DEF Ready, Follows
  <1>2. w.ok => Moves(w, v, e)
    BY EmitMoves DEF Ready
  <1>3. /\ e.activeDebt = 0 /\ e.activeColl = 0 /\ e.defaultDebt = 0
        /\ e.defaultColl = 0 /\ e.surplus = 0 /\ e.claims = 0
        /\ e.supply = 0 /\ e.reserve = 0 /\ e.pooled = 0
    BY DEF Still
  <1> HIDE DEF v, e
  <1>4. w.ok => /\ e.activeDebt \in Int /\ e.activeColl \in Int /\ e.defaultDebt \in Int
                /\ e.surplus \in Int /\ e.claims \in Int /\ e.supply \in Int
                /\ e.reserve \in Int /\ e.pooled \in Int
    BY <1>3
  <1>5. /\ Ready(v)
        /\ Leads(w, v, e.activeDebt, e.activeColl, e.supply - e.activeDebt - e.defaultDebt,
                 e.reserve, e.surplus - e.claims, e.pooled)
    BY <1>1, <1>2, <1>4, MovesLead
  <1> QED
    BY <1>3, <1>4, <1>5 DEF Leads, v

\* The ActivePool receives collateral.
LEMMA LeadReceive ==
  ASSUME NEW w, Ready(w), NEW a, w.ok => a \in Nat
  PROVE  /\ Ready(activePoolReceive(w, a))
         /\ Leads(w, activePoolReceive(w, a), 0, a, 0, 0, 0, 0)
  <1> DEFINE v == activePoolReceive(w, a)
             e == [Still EXCEPT !.activeColl = a]
  <1>1. IsState(v) /\ (v.ok => w.ok)
    BY PoolsFollow DEF Ready, Follows
  <1>2. w.ok => Moves(w, v, e)
    BY ActiveReceive DEF Ready
  <1>3. /\ e.activeDebt = 0 /\ e.activeColl = a /\ e.defaultDebt = 0
        /\ e.defaultColl = 0 /\ e.surplus = 0 /\ e.claims = 0
        /\ e.supply = 0 /\ e.reserve = 0 /\ e.pooled = 0
    BY DEF Still
  <1> HIDE DEF v, e
  <1>4. w.ok => /\ e.activeDebt \in Int /\ e.activeColl \in Int /\ e.defaultDebt \in Int
                /\ e.surplus \in Int /\ e.claims \in Int /\ e.supply \in Int
                /\ e.reserve \in Int /\ e.pooled \in Int
    BY <1>3
  <1>5. /\ Ready(v)
        /\ Leads(w, v, e.activeDebt, e.activeColl, e.supply - e.activeDebt - e.defaultDebt,
                 e.reserve, e.surplus - e.claims, e.pooled)
    BY <1>1, <1>2, <1>4, MovesLead
  <1> QED
    BY <1>3, <1>4, <1>5 DEF Leads, v

\* The ActivePool sends collateral.
LEMMA LeadSend ==
  ASSUME NEW w, Ready(w), NEW to, NEW a, w.ok => a \in Nat
  PROVE  /\ Ready(activePoolSendCollateral(w, to, a))
         /\ Leads(w, activePoolSendCollateral(w, to, a), 0, -a, 0, 0, 0, 0)
  <1> DEFINE v == activePoolSendCollateral(w, to, a)
             e == [Still EXCEPT !.activeColl = -a]
  <1>1. IsState(v) /\ (v.ok => w.ok)
    BY PoolsFollow DEF Ready, Follows
  <1>2. w.ok => Moves(w, v, e)
    BY ActiveSend DEF Ready
  <1>3. /\ e.activeDebt = 0 /\ e.activeColl = -a /\ e.defaultDebt = 0
        /\ e.defaultColl = 0 /\ e.surplus = 0 /\ e.claims = 0
        /\ e.supply = 0 /\ e.reserve = 0 /\ e.pooled = 0
    BY DEF Still
  <1> HIDE DEF v, e
  <1>4. w.ok => /\ e.activeDebt \in Int /\ e.activeColl \in Int /\ e.defaultDebt \in Int
                /\ e.surplus \in Int /\ e.claims \in Int /\ e.supply \in Int
                /\ e.reserve \in Int /\ e.pooled \in Int
    BY <1>3
  <1>5. /\ Ready(v)
        /\ Leads(w, v, e.activeDebt, e.activeColl, e.supply - e.activeDebt - e.defaultDebt,
                 e.reserve, e.surplus - e.claims, e.pooled)
    BY <1>1, <1>2, <1>4, MovesLead
  <1> QED
    BY <1>3, <1>4, <1>5 DEF Leads, v

\* The ActivePool's debt is increased.
LEMMA LeadIncrease ==
  ASSUME NEW w, Ready(w), NEW a, w.ok => a \in Nat
  PROVE  /\ Ready(activePoolIncreaseTHUSDDebt(w, a))
         /\ Leads(w, activePoolIncreaseTHUSDDebt(w, a), a, 0, -a, 0, 0, 0)
  <1> DEFINE v == activePoolIncreaseTHUSDDebt(w, a)
             e == [Still EXCEPT !.activeDebt = a]
  <1>1. IsState(v) /\ (v.ok => w.ok)
    BY PoolsFollow DEF Ready, Follows
  <1>2. w.ok => Moves(w, v, e)
    BY ActiveIncrease DEF Ready
  <1>3. /\ e.activeDebt = a /\ e.activeColl = 0 /\ e.defaultDebt = 0
        /\ e.defaultColl = 0 /\ e.surplus = 0 /\ e.claims = 0
        /\ e.supply = 0 /\ e.reserve = 0 /\ e.pooled = 0
    BY DEF Still
  <1> HIDE DEF v, e
  <1>4. w.ok => /\ e.activeDebt \in Int /\ e.activeColl \in Int /\ e.defaultDebt \in Int
                /\ e.surplus \in Int /\ e.claims \in Int /\ e.supply \in Int
                /\ e.reserve \in Int /\ e.pooled \in Int
    BY <1>3
  <1>5. /\ Ready(v)
        /\ Leads(w, v, e.activeDebt, e.activeColl, e.supply - e.activeDebt - e.defaultDebt,
                 e.reserve, e.surplus - e.claims, e.pooled)
    BY <1>1, <1>2, <1>4, MovesLead
  <1> QED
    BY <1>3, <1>4, <1>5 DEF Leads, v

\* The ActivePool's debt is decreased.
LEMMA LeadDecrease ==
  ASSUME NEW w, Ready(w), NEW a, w.ok => a \in Nat
  PROVE  /\ Ready(activePoolDecreaseTHUSDDebt(w, a))
         /\ Leads(w, activePoolDecreaseTHUSDDebt(w, a), -a, 0, a, 0, 0, 0)
  <1> DEFINE v == activePoolDecreaseTHUSDDebt(w, a)
             e == [Still EXCEPT !.activeDebt = -a]
  <1>1. IsState(v) /\ (v.ok => w.ok)
    BY PoolsFollow DEF Ready, Follows
  <1>2. w.ok => Moves(w, v, e)
    BY ActiveDecrease DEF Ready
  <1>3. /\ e.activeDebt = -a /\ e.activeColl = 0 /\ e.defaultDebt = 0
        /\ e.defaultColl = 0 /\ e.surplus = 0 /\ e.claims = 0
        /\ e.supply = 0 /\ e.reserve = 0 /\ e.pooled = 0
    BY DEF Still
  <1> HIDE DEF v, e
  <1>4. w.ok => /\ e.activeDebt \in Int /\ e.activeColl \in Int /\ e.defaultDebt \in Int
                /\ e.surplus \in Int /\ e.claims \in Int /\ e.supply \in Int
                /\ e.reserve \in Int /\ e.pooled \in Int
    BY <1>3
  <1>5. /\ Ready(v)
        /\ Leads(w, v, e.activeDebt, e.activeColl, e.supply - e.activeDebt - e.defaultDebt,
                 e.reserve, e.surplus - e.claims, e.pooled)
    BY <1>1, <1>2, <1>4, MovesLead
  <1> QED
    BY <1>3, <1>4, <1>5 DEF Leads, v

\* The DefaultPool receives collateral, which no gap counts.
LEMMA LeadDefaultReceive ==
  ASSUME NEW w, Ready(w), NEW a, w.ok => a \in Nat
  PROVE  /\ Ready(defaultPoolReceive(w, a))
         /\ Leads(w, defaultPoolReceive(w, a), 0, 0, 0, 0, 0, 0)
  <1> DEFINE v == defaultPoolReceive(w, a)
             e == [Still EXCEPT !.defaultColl = a]
  <1>1. IsState(v) /\ (v.ok => w.ok)
    BY PoolsFollow DEF Ready, Follows
  <1>2. w.ok => Moves(w, v, e)
    BY DefaultReceive DEF Ready
  <1>3. /\ e.activeDebt = 0 /\ e.activeColl = 0 /\ e.defaultDebt = 0
        /\ e.defaultColl = a /\ e.surplus = 0 /\ e.claims = 0
        /\ e.supply = 0 /\ e.reserve = 0 /\ e.pooled = 0
    BY DEF Still
  <1> HIDE DEF v, e
  <1>4. w.ok => /\ e.activeDebt \in Int /\ e.activeColl \in Int /\ e.defaultDebt \in Int
                /\ e.surplus \in Int /\ e.claims \in Int /\ e.supply \in Int
                /\ e.reserve \in Int /\ e.pooled \in Int
    BY <1>3
  <1>5. /\ Ready(v)
        /\ Leads(w, v, e.activeDebt, e.activeColl, e.supply - e.activeDebt - e.defaultDebt,
                 e.reserve, e.surplus - e.claims, e.pooled)
    BY <1>1, <1>2, <1>4, MovesLead
  <1> QED
    BY <1>3, <1>4, <1>5 DEF Leads, v

\* The DefaultPool's debt is increased.
LEMMA LeadDefaultIncrease ==
  ASSUME NEW w, Ready(w), NEW a, w.ok => a \in Nat
  PROVE  /\ Ready(defaultPoolIncreaseTHUSDDebt(w, a))
         /\ Leads(w, defaultPoolIncreaseTHUSDDebt(w, a), 0, 0, -a, 0, 0, 0)
  <1> DEFINE v == defaultPoolIncreaseTHUSDDebt(w, a)
             e == [Still EXCEPT !.defaultDebt = a]
  <1>1. IsState(v) /\ (v.ok => w.ok)
    BY PoolsFollow DEF Ready, Follows
  <1>2. w.ok => Moves(w, v, e)
    BY DefaultIncrease DEF Ready
  <1>3. /\ e.activeDebt = 0 /\ e.activeColl = 0 /\ e.defaultDebt = a
        /\ e.defaultColl = 0 /\ e.surplus = 0 /\ e.claims = 0
        /\ e.supply = 0 /\ e.reserve = 0 /\ e.pooled = 0
    BY DEF Still
  <1> HIDE DEF v, e
  <1>4. w.ok => /\ e.activeDebt \in Int /\ e.activeColl \in Int /\ e.defaultDebt \in Int
                /\ e.surplus \in Int /\ e.claims \in Int /\ e.supply \in Int
                /\ e.reserve \in Int /\ e.pooled \in Int
    BY <1>3
  <1>5. /\ Ready(v)
        /\ Leads(w, v, e.activeDebt, e.activeColl, e.supply - e.activeDebt - e.defaultDebt,
                 e.reserve, e.surplus - e.claims, e.pooled)
    BY <1>1, <1>2, <1>4, MovesLead
  <1> QED
    BY <1>3, <1>4, <1>5 DEF Leads, v

\* The DefaultPool's debt is decreased.
LEMMA LeadDefaultDecrease ==
  ASSUME NEW w, Ready(w), NEW a, w.ok => a \in Nat
  PROVE  /\ Ready(defaultPoolDecreaseTHUSDDebt(w, a))
         /\ Leads(w, defaultPoolDecreaseTHUSDDebt(w, a), 0, 0, a, 0, 0, 0)
  <1> DEFINE v == defaultPoolDecreaseTHUSDDebt(w, a)
             e == [Still EXCEPT !.defaultDebt = -a]
  <1>1. IsState(v) /\ (v.ok => w.ok)
    BY PoolsFollow DEF Ready, Follows
  <1>2. w.ok => Moves(w, v, e)
    BY DefaultDecrease DEF Ready
  <1>3. /\ e.activeDebt = 0 /\ e.activeColl = 0 /\ e.defaultDebt = -a
        /\ e.defaultColl = 0 /\ e.surplus = 0 /\ e.claims = 0
        /\ e.supply = 0 /\ e.reserve = 0 /\ e.pooled = 0
    BY DEF Still
  <1> HIDE DEF v, e
  <1>4. w.ok => /\ e.activeDebt \in Int /\ e.activeColl \in Int /\ e.defaultDebt \in Int
                /\ e.surplus \in Int /\ e.claims \in Int /\ e.supply \in Int
                /\ e.reserve \in Int /\ e.pooled \in Int
    BY <1>3
  <1>5. /\ Ready(v)
        /\ Leads(w, v, e.activeDebt, e.activeColl, e.supply - e.activeDebt - e.defaultDebt,
                 e.reserve, e.surplus - e.claims, e.pooled)
    BY <1>1, <1>2, <1>4, MovesLead
  <1> QED
    BY <1>3, <1>4, <1>5 DEF Leads, v

\* The DefaultPool sends collateral to the ActivePool.
LEMMA LeadToActive ==
  ASSUME NEW w, Ready(w), NEW a, w.ok => a \in Nat
  PROVE  /\ Ready(defaultPoolSendCollateralToActivePool(w, a))
         /\ Leads(w, defaultPoolSendCollateralToActivePool(w, a), 0, a, 0, 0, 0, 0)
  <1> DEFINE v == defaultPoolSendCollateralToActivePool(w, a)
             e == [Still EXCEPT !.activeColl = a, !.defaultColl = -a]
  <1>1. IsState(v) /\ (v.ok => w.ok)
    BY PoolsFollow DEF Ready, Follows
  <1>2. w.ok => Moves(w, v, e)
    BY DefaultToActive DEF Ready
  <1>3. /\ e.activeDebt = 0 /\ e.activeColl = a /\ e.defaultDebt = 0
        /\ e.defaultColl = -a /\ e.surplus = 0 /\ e.claims = 0
        /\ e.supply = 0 /\ e.reserve = 0 /\ e.pooled = 0
    BY DEF Still
  <1> HIDE DEF v, e
  <1>4. w.ok => /\ e.activeDebt \in Int /\ e.activeColl \in Int /\ e.defaultDebt \in Int
                /\ e.surplus \in Int /\ e.claims \in Int /\ e.supply \in Int
                /\ e.reserve \in Int /\ e.pooled \in Int
    BY <1>3
  <1>5. /\ Ready(v)
        /\ Leads(w, v, e.activeDebt, e.activeColl, e.supply - e.activeDebt - e.defaultDebt,
                 e.reserve, e.surplus - e.claims, e.pooled)
    BY <1>1, <1>2, <1>4, MovesLead
  <1> QED
    BY <1>3, <1>4, <1>5 DEF Leads, v

\* The CollSurplusPool receives collateral.
LEMMA LeadSurplusReceive ==
  ASSUME NEW w, Ready(w), NEW a, w.ok => a \in Nat
  PROVE  /\ Ready(collSurplusPoolReceive(w, a))
         /\ Leads(w, collSurplusPoolReceive(w, a), 0, 0, 0, 0, a, 0)
  <1> DEFINE v == collSurplusPoolReceive(w, a)
             e == [Still EXCEPT !.surplus = a]
  <1>1. IsState(v) /\ (v.ok => w.ok)
    BY PoolsFollow DEF Ready, Follows
  <1>2. w.ok => Moves(w, v, e)
    BY SurplusReceive DEF Ready
  <1>3. /\ e.activeDebt = 0 /\ e.activeColl = 0 /\ e.defaultDebt = 0
        /\ e.defaultColl = 0 /\ e.surplus = a /\ e.claims = 0
        /\ e.supply = 0 /\ e.reserve = 0 /\ e.pooled = 0
    BY DEF Still
  <1> HIDE DEF v, e
  <1>4. w.ok => /\ e.activeDebt \in Int /\ e.activeColl \in Int /\ e.defaultDebt \in Int
                /\ e.surplus \in Int /\ e.claims \in Int /\ e.supply \in Int
                /\ e.reserve \in Int /\ e.pooled \in Int
    BY <1>3
  <1>5. /\ Ready(v)
        /\ Leads(w, v, e.activeDebt, e.activeColl, e.supply - e.activeDebt - e.defaultDebt,
                 e.reserve, e.surplus - e.claims, e.pooled)
    BY <1>1, <1>2, <1>4, MovesLead
  <1> QED
    BY <1>3, <1>4, <1>5 DEF Leads, v

\* The CollSurplusPool owes a borrower more.
LEMMA LeadAccountSurplus ==
  ASSUME NEW w, Ready(w), NEW b \in Users, NEW a, w.ok => a \in Nat
  PROVE  /\ Ready(accountSurplus(w, b, a))
         /\ Leads(w, accountSurplus(w, b, a), 0, 0, 0, 0, -a, 0)
  <1> DEFINE v == accountSurplus(w, b, a)
             e == [Still EXCEPT !.claims = a]
  <1>1. IsState(v) /\ (v.ok => w.ok)
    BY PoolsFollow DEF Ready, Follows
  <1>2. w.ok => Moves(w, v, e)
    BY AccountSurplus DEF Ready
  <1>3. /\ e.activeDebt = 0 /\ e.activeColl = 0 /\ e.defaultDebt = 0
        /\ e.defaultColl = 0 /\ e.surplus = 0 /\ e.claims = a
        /\ e.supply = 0 /\ e.reserve = 0 /\ e.pooled = 0
    BY DEF Still
  <1> HIDE DEF v, e
  <1>4. w.ok => /\ e.activeDebt \in Int /\ e.activeColl \in Int /\ e.defaultDebt \in Int
                /\ e.surplus \in Int /\ e.claims \in Int /\ e.supply \in Int
                /\ e.reserve \in Int /\ e.pooled \in Int
    BY <1>3
  <1>5. /\ Ready(v)
        /\ Leads(w, v, e.activeDebt, e.activeColl, e.supply - e.activeDebt - e.defaultDebt,
                 e.reserve, e.surplus - e.claims, e.pooled)
    BY <1>1, <1>2, <1>4, MovesLead
  <1> QED
    BY <1>3, <1>4, <1>5 DEF Leads, v

\* THUSD is minted.
LEMMA LeadMint ==
  ASSUME NEW w, Ready(w), NEW b \in Accounts, NEW a, w.ok => a \in Nat
  PROVE  /\ Ready(thusdMint(w, b, a))
         /\ Leads(w, thusdMint(w, b, a), 0, 0, a, At(b, gasPoolAddress, a), 0, At(b, stabilityPoolAddress, a))
  <1> DEFINE v == thusdMint(w, b, a)
             e == [Still EXCEPT !.supply = a, !.reserve = At(b, gasPoolAddress, a), !.pooled = At(b, stabilityPoolAddress, a)]
  <1>1. IsState(v) /\ (v.ok => w.ok)
    BY PoolsFollow DEF Ready, Follows
  <1>2. w.ok => Moves(w, v, e)
    BY ThusdMint DEF Ready
  <1>3. /\ e.activeDebt = 0 /\ e.activeColl = 0 /\ e.defaultDebt = 0
        /\ e.defaultColl = 0 /\ e.surplus = 0 /\ e.claims = 0
        /\ e.supply = a /\ e.reserve = At(b, gasPoolAddress, a) /\ e.pooled = At(b, stabilityPoolAddress, a)
    BY DEF Still
  <1> HIDE DEF v, e
  <1>4. w.ok => /\ e.activeDebt \in Int /\ e.activeColl \in Int /\ e.defaultDebt \in Int
                /\ e.surplus \in Int /\ e.claims \in Int /\ e.supply \in Int
                /\ e.reserve \in Int /\ e.pooled \in Int
    BY <1>3 DEF At
  <1>5. /\ Ready(v)
        /\ Leads(w, v, e.activeDebt, e.activeColl, e.supply - e.activeDebt - e.defaultDebt,
                 e.reserve, e.surplus - e.claims, e.pooled)
    BY <1>1, <1>2, <1>4, MovesLead
  <1> QED
    BY <1>3, <1>4, <1>5 DEF Leads, v

\* THUSD is burnt.
LEMMA LeadBurn ==
  ASSUME NEW w, Ready(w), NEW b \in Accounts, NEW a, w.ok => a \in Nat
  PROVE  /\ Ready(thusdBurn(w, b, a))
         /\ Leads(w, thusdBurn(w, b, a), 0, 0, -a, -At(b, gasPoolAddress, a), 0, -At(b, stabilityPoolAddress, a))
  <1> DEFINE v == thusdBurn(w, b, a)
             e == [Still EXCEPT !.supply = -a, !.reserve = -At(b, gasPoolAddress, a), !.pooled = -At(b, stabilityPoolAddress, a)]
  <1>1. IsState(v) /\ (v.ok => w.ok)
    BY PoolsFollow DEF Ready, Follows
  <1>2. w.ok => Moves(w, v, e)
    BY ThusdBurn DEF Ready
  <1>3. /\ e.activeDebt = 0 /\ e.activeColl = 0 /\ e.defaultDebt = 0
        /\ e.defaultColl = 0 /\ e.surplus = 0 /\ e.claims = 0
        /\ e.supply = -a /\ e.reserve = -At(b, gasPoolAddress, a) /\ e.pooled = -At(b, stabilityPoolAddress, a)
    BY DEF Still
  <1> HIDE DEF v, e
  <1>4. w.ok => /\ e.activeDebt \in Int /\ e.activeColl \in Int /\ e.defaultDebt \in Int
                /\ e.surplus \in Int /\ e.claims \in Int /\ e.supply \in Int
                /\ e.reserve \in Int /\ e.pooled \in Int
    BY <1>3 DEF At
  <1>5. /\ Ready(v)
        /\ Leads(w, v, e.activeDebt, e.activeColl, e.supply - e.activeDebt - e.defaultDebt,
                 e.reserve, e.surplus - e.claims, e.pooled)
    BY <1>1, <1>2, <1>4, MovesLead
  <1> QED
    BY <1>3, <1>4, <1>5 DEF Leads, v

\* THUSD is transferred to another account.
LEMMA LeadTransfer ==
  ASSUME NEW w, Ready(w), NEW b \in Accounts, NEW to \in Accounts, b # to, NEW a, w.ok => a \in Nat
  PROVE  /\ Ready(thusdTransfer(w, b, to, a))
         /\ Leads(w, thusdTransfer(w, b, to, a), 0, 0, 0, At(to, gasPoolAddress, a) - At(b, gasPoolAddress, a), 0, At(to, stabilityPoolAddress, a) - At(b, stabilityPoolAddress, a))
  <1> DEFINE v == thusdTransfer(w, b, to, a)
             e == [Still EXCEPT !.reserve = At(to, gasPoolAddress, a) - At(b, gasPoolAddress, a), !.pooled = At(to, stabilityPoolAddress, a) - At(b, stabilityPoolAddress, a)]
  <1>1. IsState(v) /\ (v.ok => w.ok)
    BY PoolsFollow DEF Ready, Follows
  <1>2. w.ok => Moves(w, v, e)
    BY ThusdTransfer DEF Ready
  <1>3. /\ e.activeDebt = 0 /\ e.activeColl = 0 /\ e.defaultDebt = 0
        /\ e.defaultColl = 0 /\ e.surplus = 0 /\ e.claims = 0
        /\ e.supply = 0 /\ e.reserve = At(to, gasPoolAddress, a) - At(b, gasPoolAddress, a) /\ e.pooled = At(to, stabilityPoolAddress, a) - At(b, stabilityPoolAddress, a)
    BY DEF Still
  <1> HIDE DEF v, e
  <1>4. w.ok => /\ e.activeDebt \in Int /\ e.activeColl \in Int /\ e.defaultDebt \in Int
                /\ e.surplus \in Int /\ e.claims \in Int /\ e.supply \in Int
                /\ e.reserve \in Int /\ e.pooled \in Int
    BY <1>3 DEF At
  <1>5. /\ Ready(v)
        /\ Leads(w, v, e.activeDebt, e.activeColl, e.supply - e.activeDebt - e.defaultDebt,
                 e.reserve, e.surplus - e.claims, e.pooled)
    BY <1>1, <1>2, <1>4, MovesLead
  <1> QED
    BY <1>3, <1>4, <1>5 DEF Leads, v

\* What was required holds unless the transaction reverts.
LEMMA RequireOk ==
  ASSUME NEW w, IsState(w), NEW c
  PROVE  Require(w, c).ok => w.ok /\ c
BY DEF Require, IsState, StateFields

-----------------------------------------------------------------------------
(* Writing a trove. *)

\* What a function that writes one trove leaves alone.
SameSums(w, v) ==
  /\ v.totalStakesSnapshot = w.totalStakesSnapshot
  /\ v.totalCollateralSnapshot = w.totalCollateralSnapshot
  /\ v.L_Collateral = w.L_Collateral /\ v.L_THUSDDebt = w.L_THUSDDebt
  /\ v.lastCollateralError_Redistribution = w.lastCollateralError_Redistribution
  /\ v.lastTHUSDDebtError_Redistribution = w.lastTHUSDDebtError_Redistribution
  /\ v.baseRate = w.baseRate /\ v.mintList = w.mintList

\* The open troves when the trove of b gets the status st.
OpenWith(w, b, st) == IF st = "active" THEN Open(w) \cup {b} ELSE Open(w) \ {b}

\* The gas compensation that opening or closing the trove of b leaves to be moved.
ReserveDue(w, b, st) ==
  IF w.status[b] = "active"
  THEN IF st = "active" THEN 0 ELSE THUSD_GAS_COMPENSATION
  ELSE IF st = "active" THEN -THUSD_GAS_COMPENSATION ELSE 0

\* Opening or closing a trove changes their number by one.
LEMMA OpenCounted ==
  ASSUME NEW w, NEW v, w.status \in [Users -> Statuses], NEW b \in Users, NEW st,
         v.status = [w.status EXCEPT ![b] = st]
  PROVE  /\ Open(v) = OpenWith(w, b, st)
         /\ THUSD_GAS_COMPENSATION * Cardinality(Open(w)) \in Nat
         /\ THUSD_GAS_COMPENSATION * Cardinality(Open(v))
              = THUSD_GAS_COMPENSATION * Cardinality(Open(w)) - ReserveDue(w, b, st)
  <1> DEFINE m == Cardinality(Open(w))
             n == Cardinality(Open(v))
             g == THUSD_GAS_COMPENSATION
  <1>1. Open(v) = OpenWith(w, b, st)
    BY DEF Open, OpenWith
  <1>2. IsFiniteSet(Open(w)) /\ m \in Nat
    BY OpenFinite
  <1>3. n \in Nat /\ g \in Nat
    BY OpenFinite, BaseAssumption
  <1>4. (b \in Open(w)) <=> (w.status[b] = "active")
    BY DEF Open
  <1>5. n = IF w.status[b] = "active"
            THEN IF st = "active" THEN m ELSE m - 1
            ELSE IF st = "active" THEN m + 1 ELSE m
    <2>1. CASE w.status[b] = "active" /\ st = "active"
      <3>1. Open(v) = Open(w)
        BY <1>1, <1>4, <2>1 DEF OpenWith
      <3> QED
        BY <2>1, <3>1
    <2>2. CASE w.status[b] = "active" /\ st # "active"
      BY <1>1, <1>2, <1>4, <2>2, FS_RemoveElement DEF OpenWith
    <2>3. CASE w.status[b] # "active" /\ st = "active"
      BY <1>1, <1>2, <1>4, <2>3, FS_AddElement DEF OpenWith
    <2>4. CASE w.status[b] # "active" /\ st # "active"
      <3>1. Open(v) = Open(w)
        BY <1>1, <1>4, <2>4 DEF OpenWith
      <3> QED
        BY <2>4, <3>1
    <2> QED
      BY <2>1, <2>2, <2>3, <2>4
  <1> HIDE DEF m, n, g
  <1>6. g * m \in Nat /\ g * (m - 1) = g * m - g /\ g * (m + 1) = g * m + g
    BY <1>2, <1>3
  <1>7. g * n = g * m - (IF w.status[b] = "active"
                         THEN IF st = "active" THEN 0 ELSE g
                         ELSE IF st = "active" THEN -g ELSE 0)
    BY <1>2, <1>3, <1>5, <1>6
  <1> QED
    BY <1>1, <1>6, <1>7 DEF m, n, g, ReserveDue

\* Writing one entry changes a total over the users by the difference.
LEMMA TotalWritten ==
  ASSUME NEW f \in [Users -> Nat], NEW b \in Users, NEW x \in Nat
  PROVE  /\ [f EXCEPT ![b] = x] \in [Users -> Nat]
         /\ Total([f EXCEPT ![b] = x]) = Total(f) - f[b] + x
         /\ Total(f) \in Nat /\ f[b] \in Nat
         /\ Total([f EXCEPT ![b] = x]) \in Nat
  <1>1. f \in [1..NumUsers -> Int] /\ NumUsers \in Nat /\ b \in 1..NumUsers /\ x \in Int
    BY BaseAssumption DEF Users
  <1>2. Total([f EXCEPT ![b] = x]) = Total(f) - f[b] + x
    BY <1>1, SumUpdate DEF Total
  <1>3. [f EXCEPT ![b] = x] \in [Users -> Nat]
    OBVIOUS
  <1> QED
    BY <1>2, <1>3, TroveSums

\* v is w with the trove of b written: status, collateral, debt, stake and snapshots.
Written(w, v, b, st, c, d, s, x, y) ==
  /\ Sound(w) /\ IsState(v) /\ SamePools(w, v) /\ SameSums(w, v)
  /\ b \in Users /\ st \in Statuses /\ c \in Nat /\ d \in Nat /\ s \in Nat
  /\ x \in Nat /\ y \in Nat
  /\ v.status = [w.status EXCEPT ![b] = st]
  /\ v.coll = [w.coll EXCEPT ![b] = c]
  /\ v.debt = [w.debt EXCEPT ![b] = d]
  /\ v.stake = [w.stake EXCEPT ![b] = s]
  /\ v.snapshotCollateral = [w.snapshotCollateral EXCEPT ![b] = x]
  /\ v.snapshotTHUSDDebt = [w.snapshotTHUSDDebt EXCEPT ![b] = y]
  /\ v.totalStakes = w.totalStakes - w.stake[b] + s
  /\ IF st = "active" THEN x <= w.L_Collateral /\ y <= w.L_THUSDDebt
                      ELSE c = 0 /\ d = 0 /\ s = 0
  /\ ListOf(v.sortedTroves, OpenWith(w, b, st))

\* A function that writes the trove of b, its stake and its place in the list, and moves
\* nothing: the state stays sound and the gaps change by what the trove gained or lost.
LEMMA TroveWritten ==
  ASSUME NEW w, NEW v, NEW b, NEW st, NEW c, NEW d, NEW s, NEW x, NEW y,
         Written(w, v, b, st, c, d, s, x, y)
  PROVE  /\ Sound(v)
         /\ DebtGap(v) = DebtGap(w) + w.debt[b] - d
         /\ CollGap(v) = CollGap(w) + w.coll[b] - c
         /\ SupplyGap(v) = SupplyGap(w)
         /\ ReserveGap(v) = ReserveGap(w) + ReserveDue(w, b, st)
         /\ SurplusGap(v) = SurplusGap(w)
         /\ Pooled(v) = Pooled(w)
  <1> USE DEF Written
  <1>0. /\ TroveTypes(w) /\ PoolTypes(w) /\ w.totalStakes = Total(w.stake)
        /\ \A u \in Users : TroveOf(w, u)
    BY DEF Sound
  <1>1. /\ v.coll \in [Users -> Nat] /\ Total(v.coll) = Total(w.coll) - w.coll[b] + c
        /\ Total(w.coll) \in Nat /\ w.coll[b] \in Nat
    <2>1. w.coll \in [Users -> Nat]
      BY <1>0 DEF TroveTypes
    <2> QED
      BY <2>1, TotalWritten
  <1>2. /\ v.debt \in [Users -> Nat] /\ Total(v.debt) = Total(w.debt) - w.debt[b] + d
        /\ Total(w.debt) \in Nat /\ w.debt[b] \in Nat
    <2>1. w.debt \in [Users -> Nat]
      BY <1>0 DEF TroveTypes
    <2> QED
      BY <2>1, TotalWritten
  <1>3. /\ v.stake \in [Users -> Nat] /\ v.totalStakes = Total(v.stake)
        /\ v.totalStakes \in Nat
    <2>1. w.stake \in [Users -> Nat]
      BY <1>0 DEF TroveTypes
    <2>2. /\ v.stake \in [Users -> Nat] /\ Total(v.stake) = Total(w.stake) - w.stake[b] + s
          /\ Total(v.stake) \in Nat
      BY <2>1, TotalWritten
    <2> QED
      BY <1>0, <2>2
  <1>4. /\ v.snapshotCollateral \in [Users -> Nat] /\ v.snapshotTHUSDDebt \in [Users -> Nat]
        /\ v.status \in [Users -> Statuses]
    BY <1>0 DEF TroveTypes
  <1>5. TroveTypes(v)
    BY <1>0, <1>1, <1>2, <1>3, <1>4 DEF TroveTypes, SameSums
  <1>6. w.status \in [Users -> Statuses]
    BY <1>0 DEF TroveTypes
  <1>7. /\ Open(v) = OpenWith(w, b, st)
        /\ THUSD_GAS_COMPENSATION * Cardinality(Open(w)) \in Nat
        /\ THUSD_GAS_COMPENSATION * Cardinality(Open(v))
             = THUSD_GAS_COMPENSATION * Cardinality(Open(w)) - ReserveDue(w, b, st)
    BY <1>6, OpenCounted
  <1>8. \A u \in Users : TroveOf(v, u)
    <2> SUFFICES ASSUME NEW u \in Users PROVE TroveOf(v, u)
      OBVIOUS
    <2>1. CASE u = b
      BY <1>0, <2>1 DEF TroveOf, TroveTypes, SameSums
    <2>2. CASE u # b
      <3>1. TroveOf(w, u)
        BY <1>0
      <3>2. /\ v.status[u] = w.status[u] /\ v.coll[u] = w.coll[u] /\ v.debt[u] = w.debt[u]
            /\ v.stake[u] = w.stake[u] /\ v.snapshotCollateral[u] = w.snapshotCollateral[u]
            /\ v.snapshotTHUSDDebt[u] = w.snapshotTHUSDDebt[u]
        BY <1>0, <2>2 DEF TroveTypes
      <3> QED
        BY <3>1, <3>2 DEF TroveOf, SameSums
    <2> QED
      BY <2>1, <2>2
  <1>9. PoolTypes(v)
    BY <1>0 DEF PoolTypes, SamePools
  <1>10. Sound(v)
    BY <1>3, <1>5, <1>7, <1>8, <1>9 DEF Sound
  <1>11. /\ w.activePool.THUSDDebt \in Nat /\ w.activePool.collateral \in Nat
         /\ w.thusd[gasPoolAddress] \in Nat
    BY <1>0, PoolSums
  <1>12. /\ DebtGap(v) = DebtGap(w) + w.debt[b] - d
         /\ CollGap(v) = CollGap(w) + w.coll[b] - c
    BY <1>1, <1>2, <1>11 DEF DebtGap, CollGap, SamePools
  <1>13. ReserveDue(w, b, st) \in Int
    BY BaseAssumption DEF ReserveDue
  <1>14. ReserveGap(v) = ReserveGap(w) + ReserveDue(w, b, st)
    BY <1>7, <1>11, <1>13 DEF ReserveGap, SamePools
  <1>15. SupplyGap(v) = SupplyGap(w) /\ SurplusGap(v) = SurplusGap(w) /\ Pooled(v) = Pooled(w)
    BY DEF SupplyGap, SurplusGap, Pooled, SamePools, getEntireSystemDebt
  <1> QED
    BY <1>10, <1>12, <1>14, <1>15

-----------------------------------------------------------------------------
(* The functions of the TroveManager. *)

\* A function that writes none of the troves: rates, snapshots of the totals, and the sums
\* per unit of stake, which only grow.
LEMMA SumsWritten ==
  ASSUME NEW w, Sound(w), NEW v, IsState(v), SamePools(w, v),
         v.status = w.status, v.coll = w.coll, v.debt = w.debt, v.stake = w.stake,
         v.snapshotCollateral = w.snapshotCollateral,
         v.snapshotTHUSDDebt = w.snapshotTHUSDDebt,
         v.totalStakes = w.totalStakes, v.sortedTroves = w.sortedTroves,
         v.totalStakesSnapshot \in Nat, v.totalCollateralSnapshot \in Nat,
         v.L_Collateral \in Nat, v.L_THUSDDebt \in Nat,
         w.L_Collateral <= v.L_Collateral, w.L_THUSDDebt <= v.L_THUSDDebt,
         v.lastCollateralError_Redistribution \in Nat,
         v.lastTHUSDDebtError_Redistribution \in Nat,
         v.baseRate \in 0..DECIMAL_PRECISION, v.mintList \in BOOLEAN
  PROVE  /\ Sound(v)
         /\ DebtGap(v) = DebtGap(w) /\ CollGap(v) = CollGap(w) /\ SupplyGap(v) = SupplyGap(w)
         /\ ReserveGap(v) = ReserveGap(w) /\ SurplusGap(v) = SurplusGap(w)
         /\ Pooled(v) = Pooled(w)
  <1>1. /\ TroveTypes(w) /\ PoolTypes(w) /\ w.totalStakes = Total(w.stake)
        /\ ListOf(w.sortedTroves, Open(w)) /\ \A u \in Users : TroveOf(w, u)
    BY DEF Sound
  <1>2. TroveTypes(v) /\ PoolTypes(v)
    BY <1>1 DEF TroveTypes, PoolTypes, SamePools
  <1>3. Open(v) = Open(w)
    BY DEF Open
  <1>4. \A u \in Users : TroveOf(v, u)
    BY <1>1 DEF TroveOf, TroveTypes
  <1>5. Sound(v)
    BY <1>1, <1>2, <1>3, <1>4 DEF Sound
  <1> QED
    BY <1>3, <1>5 DEF DebtGap, CollGap, SupplyGap, ReserveGap, SurplusGap, Pooled,
                      SamePools, getEntireSystemDebt

\* A trove's pending rewards are amounts.
LEMMA PendingTypes ==
  ASSUME NEW w, Sound(w), NEW b \in Users
  PROVE  /\ getPendingCollateralReward(w, b) \in Nat
         /\ getPendingTHUSDDebtReward(w, b) \in Nat
         /\ entireColl(w, b) \in Nat /\ entireDebt(w, b) \in Nat
         /\ w.coll[b] \in Nat /\ w.debt[b] \in Nat /\ w.stake[b] \in Nat
  <1> DEFINE x == w.L_Collateral - w.snapshotCollateral[b]
             y == w.L_THUSDDebt - w.snapshotTHUSDDebt[b]
  <1>1. /\ w.coll[b] \in Nat /\ w.debt[b] \in Nat /\ w.stake[b] \in Nat
        /\ TroveOf(w, b) /\ w.snapshotCollateral[b] \in Nat
        /\ w.snapshotTHUSDDebt[b] \in Nat /\ w.L_Collateral \in Nat /\ w.L_THUSDDebt \in Nat
    BY DEF Sound, TroveTypes
  <1>2. DECIMAL_PRECISION \in Nat \ {0}
    BY BaseAssumption
  <1>3. CASE w.status[b] # "active"
    BY <1>1, <1>3 DEF getPendingCollateralReward, getPendingTHUSDDebtReward, entireColl,
                      entireDebt
  <1>4. CASE w.status[b] = "active"
    <2>1. x \in Nat /\ y \in Nat
      BY <1>1, <1>4 DEF TroveOf
    <2> HIDE DEF x, y
    <2>2. w.stake[b] * x \in Nat /\ w.stake[b] * y \in Nat
      BY <1>1, <2>1, MulNat
    <2>3. /\ (w.stake[b] * x) \div DECIMAL_PRECISION \in Nat
          /\ (w.stake[b] * y) \div DECIMAL_PRECISION \in Nat
      BY <1>2, <2>2, DivNat
    <2>4. /\ getPendingCollateralReward(w, b) \in Nat
          /\ getPendingTHUSDDebtReward(w, b) \in Nat
      BY <1>4, <2>3 DEF getPendingCollateralReward, getPendingTHUSDDebtReward, x, y
    <2> QED
      BY <1>1, <2>4 DEF entireColl, entireDebt
  <1> QED
    BY <1>3, <1>4

-----------------------------------------------------------------------------
(* The collateral ratio of the system, the mint list, and the statuses and *)
(* debts of the troves.                                                     *)

\* Every open trove owes the minimum besides its gas compensation.
OwesMinimum(w) ==
  \A b \in Users : w.status[b] = "active" => getNetDebt(w.debt[b]) >= MIN_NET_DEBT

\* Some trove is open, or some trove besides that of b.
Peopled(w) == \E u \in Users : w.status[u] = "active"
Others(w, b) == \E u \in Users \ {b} : w.status[u] = "active"

\* The function that leads from w to v liquidates no trove, leaves none with too little debt,
\* closes the last one only when BorrowerOperations may not mint, and keeps the mint list,
\* unless it reverts.
Spares(w, v) ==
  v.ok => /\ w.ok
          /\ v.mintList = w.mintList
          /\ OwesMinimum(w) => OwesMinimum(v)
          /\ w.mintList /\ Peopled(w) => Peopled(v)
          /\ \A b \in Users :
               v.status[b] = "closedByLiquidation" => w.status[b] = "closedByLiquidation"

\* It changes the collateral and the debt of the system by c and d, unless it reverts.
Shifts(w, v, c, d) ==
  v.ok => /\ w.ok /\ c \in Int /\ d \in Int
          /\ getEntireSystemColl(v) = getEntireSystemColl(w) + c
          /\ getEntireSystemDebt(v) = getEntireSystemDebt(w) + d

\* One function after the other.
LEMMA SparesBoth ==
  ASSUME NEW w, NEW v, NEW x, Spares(w, v), Spares(v, x)
  PROVE  Spares(w, x)
BY DEF Spares

\* What writes no trove spares all of them.
LEMMA FollowsSpares ==
  ASSUME NEW w, NEW v, Follows(w, v)
  PROVE  Spares(w, v)
BY DEF Follows, SameTroves, Spares, OwesMinimum, Peopled

\* The totals are amounts.
LEMMA SystemTotals ==
  ASSUME NEW w, Ready(w), w.ok
  PROVE  getEntireSystemColl(w) \in Nat /\ getEntireSystemDebt(w) \in Nat
BY PoolSums DEF Ready, Sound, getEntireSystemColl, getEntireSystemDebt

\* One function after the other.
LEMMA ShiftsBoth ==
  ASSUME NEW w, Ready(w), NEW v, NEW x, NEW c, NEW d, NEW e, NEW f,
         Shifts(w, v, c, d), Shifts(v, x, e, f)
  PROVE  Shifts(w, x, c + e, d + f)
  <1> SUFFICES ASSUME x.ok PROVE Shifts(w, x, c + e, d + f)
    BY DEF Shifts
  <1>1. v.ok /\ w.ok
    BY DEF Shifts
  <1>2. getEntireSystemColl(w) \in Nat /\ getEntireSystemDebt(w) \in Nat
    BY <1>1, SystemTotals
  <1> QED
    BY <1>1, <1>2 DEF Shifts

\* One function after the other, when one of them shifts nothing.
LEMMA ShiftsOnce ==
  ASSUME NEW w, Ready(w), NEW v, NEW x, NEW c, NEW d
  PROVE  /\ Shifts(w, v, c, d) /\ Shifts(v, x, 0, 0) => Shifts(w, x, c, d)
         /\ Shifts(w, v, 0, 0) /\ Shifts(v, x, c, d) => Shifts(w, x, c, d)
  <1>1. w.ok => getEntireSystemColl(w) \in Nat /\ getEntireSystemDebt(w) \in Nat
    BY SystemTotals
  <1> QED
    BY <1>1 DEF Shifts

\* What leaves both pools alone shifts nothing.
LEMMA SamePoolsShift ==
  ASSUME NEW w, Ready(w), NEW v, v.ok => w.ok,
         v.ok => v.activePool = w.activePool /\ v.defaultPool = w.defaultPool
  PROVE  Shifts(w, v, 0, 0)
  <1>1. w.ok => getEntireSystemColl(w) \in Nat /\ getEntireSystemDebt(w) \in Nat
    BY SystemTotals
  <1>2. v.ok => /\ getEntireSystemColl(v) = getEntireSystemColl(w)
                /\ getEntireSystemDebt(v) = getEntireSystemDebt(w)
    BY DEF getEntireSystemColl, getEntireSystemDebt
  <1> QED
    BY <1>1, <1>2 DEF Shifts

\* Requires, events, the token and the surpluses shift nothing.
LEMMA TokenShifts ==
  ASSUME NEW w, Ready(w), NEW a, NEW b, NEW to
  PROVE  /\ Shifts(w, Require(w, a), 0, 0)
         /\ Shifts(w, Emit(w, a), 0, 0)
         /\ Shifts(w, claimColl(w, b), 0, 0)
         /\ Shifts(w, thusdMint(w, b, a), 0, 0)
         /\ Shifts(w, thusdBurn(w, b, a), 0, 0)
         /\ Shifts(w, thusdTransfer(w, b, to, a), 0, 0)
  <1>0. IsState(w)
    BY DEF Ready
  <1>1. Shifts(w, Require(w, a), 0, 0)
    <2> DEFINE v == Require(w, a)
    <2>1. (v.ok => w.ok) /\ v.activePool = w.activePool /\ v.defaultPool = w.defaultPool
      BY <1>0 DEF IsState, StateFields, Require
    <2> HIDE DEF v
    <2>2. Shifts(w, v, 0, 0)
      BY <2>1, SamePoolsShift
    <2> QED
      BY <2>2 DEF v
  <1>2. Shifts(w, Emit(w, a), 0, 0)
    <2> DEFINE v == Emit(w, a)
    <2>1. (v.ok => w.ok) /\ v.activePool = w.activePool /\ v.defaultPool = w.defaultPool
      BY <1>0 DEF IsState, StateFields, Emit
    <2> HIDE DEF v
    <2>2. Shifts(w, v, 0, 0)
      BY <2>1, SamePoolsShift
    <2> QED
      BY <2>2 DEF v
  <1>3. Shifts(w, claimColl(w, b), 0, 0)
    <2> DEFINE v == claimColl(w, b)
    <2>1. (v.ok => w.ok) /\ v.activePool = w.activePool /\ v.defaultPool = w.defaultPool
      BY <1>0 DEF IsState, StateFields, claimColl, Emit, Require
    <2> HIDE DEF v
    <2>2. Shifts(w, v, 0, 0)
      BY <2>1, SamePoolsShift
    <2> QED
      BY <2>2 DEF v
  <1>4. Shifts(w, thusdMint(w, b, a), 0, 0)
    <2> DEFINE v == thusdMint(w, b, a)
    <2>1. (v.ok => w.ok) /\ v.activePool = w.activePool /\ v.defaultPool = w.defaultPool
      BY <1>0 DEF IsState, StateFields, thusdMint, Emit, Require
    <2> HIDE DEF v
    <2>2. Shifts(w, v, 0, 0)
      BY <2>1, SamePoolsShift
    <2> QED
      BY <2>2 DEF v
  <1>5. Shifts(w, thusdBurn(w, b, a), 0, 0)
    <2> DEFINE v == thusdBurn(w, b, a)
    <2>1. (v.ok => w.ok) /\ v.activePool = w.activePool /\ v.defaultPool = w.defaultPool
      BY <1>0 DEF IsState, StateFields, thusdBurn, Emit, Require
    <2> HIDE DEF v
    <2>2. Shifts(w, v, 0, 0)
      BY <2>1, SamePoolsShift
    <2> QED
      BY <2>2 DEF v
  <1>6. Shifts(w, thusdTransfer(w, b, to, a), 0, 0)
    <2> DEFINE v == thusdTransfer(w, b, to, a)
    <2>1. (v.ok => w.ok) /\ v.activePool = w.activePool /\ v.defaultPool = w.defaultPool
      BY <1>0 DEF IsState, StateFields, thusdTransfer, Emit, Require
    <2> HIDE DEF v
    <2>2. Shifts(w, v, 0, 0)
      BY <2>1, SamePoolsShift
    <2> QED
      BY <2>2 DEF v
  <1> QED
    BY <1>1, <1>2, <1>3, <1>4, <1>5, <1>6

\* What the ActivePool receives or sends, and the debt that it adds or drops.
LEMMA ActiveShifts ==
  ASSUME NEW w, Ready(w), NEW a, w.ok => a \in Nat, NEW to
  PROVE  /\ Shifts(w, activePoolReceive(w, a), a, 0)
         /\ Shifts(w, activePoolSendCollateral(w, to, a), 0 - a, 0)
         /\ Shifts(w, activePoolIncreaseTHUSDDebt(w, a), 0, a)
         /\ Shifts(w, activePoolDecreaseTHUSDDebt(w, a), 0, 0 - a)
  <1>0. /\ IsState(w)
        /\ w.ok => /\ w.activePool \in Amount /\ w.defaultPool \in Amount /\ a \in Nat
                   /\ w.defaultPool.collateral \in Nat /\ w.defaultPool.THUSDDebt \in Nat
                   /\ w.activePool.collateral \in Nat /\ w.activePool.THUSDDebt \in Nat
    BY PoolSums DEF Ready, Sound, PoolTypes
  <1>1. Shifts(w, activePoolReceive(w, a), a, 0)
    <2> DEFINE v == activePoolReceive(w, a)
    <2>1. /\ (v.ok => w.ok) /\ v.defaultPool = w.defaultPool
          /\ v.activePool = [w.activePool EXCEPT !.collateral = @ + a]
      BY <1>0 DEF IsState, StateFields, activePoolReceive
    <2> HIDE DEF v
    <2>2. w.ok => /\ v.activePool.collateral = w.activePool.collateral + a
                  /\ v.activePool.THUSDDebt = w.activePool.THUSDDebt
      BY <1>0, <2>1 DEF Amount
    <2> QED
      BY <1>0, <2>1, <2>2 DEF Shifts, getEntireSystemColl, getEntireSystemDebt, v
  <1>2. Shifts(w, activePoolSendCollateral(w, to, a), 0 - a, 0)
    <2> DEFINE v == activePoolSendCollateral(w, to, a)
    <2>1. /\ (v.ok => w.ok) /\ v.defaultPool = w.defaultPool
          /\ v.activePool = [w.activePool EXCEPT !.collateral = @ - a]
      BY <1>0 DEF IsState, StateFields, activePoolSendCollateral, Emit, Require
    <2> HIDE DEF v
    <2>2. w.ok => /\ v.activePool.collateral = w.activePool.collateral - a
                  /\ v.activePool.THUSDDebt = w.activePool.THUSDDebt
      BY <1>0, <2>1 DEF Amount
    <2> QED
      BY <1>0, <2>1, <2>2 DEF Shifts, getEntireSystemColl, getEntireSystemDebt, v
  <1>3. Shifts(w, activePoolIncreaseTHUSDDebt(w, a), 0, a)
    <2> DEFINE v == activePoolIncreaseTHUSDDebt(w, a)
    <2>1. /\ (v.ok => w.ok) /\ v.defaultPool = w.defaultPool
          /\ v.activePool = [w.activePool EXCEPT !.THUSDDebt = @ + a]
      BY <1>0 DEF IsState, StateFields, activePoolIncreaseTHUSDDebt
    <2> HIDE DEF v
    <2>2. w.ok => /\ v.activePool.collateral = w.activePool.collateral
                  /\ v.activePool.THUSDDebt = w.activePool.THUSDDebt + a
      BY <1>0, <2>1 DEF Amount
    <2> QED
      BY <1>0, <2>1, <2>2 DEF Shifts, getEntireSystemColl, getEntireSystemDebt, v
  <1>4. Shifts(w, activePoolDecreaseTHUSDDebt(w, a), 0, 0 - a)
    <2> DEFINE v == activePoolDecreaseTHUSDDebt(w, a)
    <2>1. /\ (v.ok => w.ok) /\ v.defaultPool = w.defaultPool
          /\ v.activePool = [w.activePool EXCEPT !.THUSDDebt = @ - a]
      BY <1>0 DEF IsState, StateFields, activePoolDecreaseTHUSDDebt, Require
    <2> HIDE DEF v
    <2>2. w.ok => /\ v.activePool.collateral = w.activePool.collateral
                  /\ v.activePool.THUSDDebt = w.activePool.THUSDDebt - a
      BY <1>0, <2>1 DEF Amount
    <2> QED
      BY <1>0, <2>1, <2>2 DEF Shifts, getEntireSystemColl, getEntireSystemDebt, v
  <1> QED
    BY <1>1, <1>2, <1>3, <1>4

\* Rewards move from the DefaultPool to the ActivePool: the totals stay.
LEMMA RewardShifts ==
  ASSUME NEW w, Ready(w), NEW a, NEW c, w.ok => a \in Nat /\ c \in Nat
  PROVE  Shifts(w, movePendingTroveRewardsToActivePool(w, a, c), 0, 0)
  <1> DEFINE v == movePendingTroveRewardsToActivePool(w, a, c)
  <1>0. /\ IsState(w)
        /\ w.ok => /\ w.activePool \in Amount /\ w.defaultPool \in Amount
                   /\ a \in Nat /\ c \in Nat
                   /\ w.defaultPool.collateral \in Nat /\ w.defaultPool.THUSDDebt \in Nat
                   /\ w.activePool.collateral \in Nat /\ w.activePool.THUSDDebt \in Nat
    BY PoolSums DEF Ready, Sound, PoolTypes
  <1>1. /\ (v.ok => w.ok)
        /\ v.activePool = [[w.activePool EXCEPT !.THUSDDebt = @ + a] EXCEPT !.collateral = @ + c]
        /\ v.defaultPool = [[w.defaultPool EXCEPT !.THUSDDebt = @ - a]
                              EXCEPT !.collateral = @ - c]
    BY <1>0 DEF IsState, StateFields, movePendingTroveRewardsToActivePool, Require,
                defaultPoolDecreaseTHUSDDebt, activePoolIncreaseTHUSDDebt,
                defaultPoolSendCollateralToActivePool, activePoolReceive
  <1> HIDE DEF v
  <1>2. w.ok => /\ v.activePool.collateral = w.activePool.collateral + c
                /\ v.activePool.THUSDDebt = w.activePool.THUSDDebt + a
                /\ v.defaultPool.collateral = w.defaultPool.collateral - c
                /\ v.defaultPool.THUSDDebt = w.defaultPool.THUSDDebt - a
    BY <1>0, <1>1 DEF Amount
  <1> QED
    BY <1>0, <1>1, <1>2 DEF Shifts, getEntireSystemColl, getEntireSystemDebt, v

-----------------------------------------------------------------------------
(* Writing a trove: who is spared. *)

\* The trove of u is in v what it is in w.
SameTrove(w, v, u) ==
  /\ v.status[u] = w.status[u] /\ v.coll[u] = w.coll[u] /\ v.debt[u] = w.debt[u]
  /\ v.stake[u] = w.stake[u] /\ v.snapshotCollateral[u] = w.snapshotCollateral[u]
  /\ v.snapshotTHUSDDebt[u] = w.snapshotTHUSDDebt[u]

\* The function that leads from w to v gives the trove of b the status st and the debt d and
\* touches no other trove, pool or sum, unless it reverts.
Rewrites(w, v, b, st, d) ==
  v.ok => /\ w.ok /\ SamePools(w, v) /\ SameSums(w, v)
          /\ v.status[b] = st /\ v.debt[b] = d
          /\ \A u \in Users \ {b} : SameTrove(w, v, u)

\* What writes a trove rewrites it.
LEMMA WrittenRewrites ==
  ASSUME NEW w, NEW v, w.ok, NEW b, NEW st, NEW c, NEW d, NEW s, NEW x, NEW y,
         Written(w, v, b, st, c, d, s, x, y)
  PROVE  Rewrites(w, v, b, st, d)
  <1>1. TroveTypes(w) /\ b \in Users
    BY DEF Written, Sound
  <1>2. v.status[b] = st /\ v.debt[b] = d
    BY <1>1 DEF Written, TroveTypes
  <1>3. ASSUME NEW u \in Users \ {b} PROVE SameTrove(w, v, u)
    BY <1>1 DEF Written, TroveTypes, SameTrove
  <1>4. SamePools(w, v) /\ SameSums(w, v)
    BY DEF Written
  <1> QED
    BY <1>2, <1>3, <1>4 DEF Rewrites

\* A trove that is closed, or keeps enough debt, leaves the others and the system as they were.
LEMMA RewriteSpares ==
  ASSUME NEW w, Ready(w), NEW v, NEW b \in Users, NEW st, NEW d, Rewrites(w, v, b, st, d),
         v.ok => st # "closedByLiquidation",
         v.ok /\ st = "active" /\ OwesMinimum(w) => getNetDebt(d) >= MIN_NET_DEBT,
         v.ok /\ w.mintList => st = "active" \/ Others(w, b)
  PROVE  Spares(w, v) /\ Shifts(w, v, 0, 0)
  <1>1. Shifts(w, v, 0, 0)
    <2>1. v.ok => w.ok
      BY DEF Rewrites
    <2>2. v.ok => v.activePool = w.activePool /\ v.defaultPool = w.defaultPool
      BY DEF Rewrites, SamePools
    <2> QED
      BY <2>1, <2>2, SamePoolsShift
  <1>2. Spares(w, v)
    <2> SUFFICES ASSUME v.ok PROVE Spares(w, v)
      BY DEF Spares
    <2>1. w.ok /\ v.mintList = w.mintList /\ v.status[b] = st /\ v.debt[b] = d
      BY DEF Rewrites, SameSums
    <2>2. \A u \in Users \ {b} : v.status[u] = w.status[u] /\ v.debt[u] = w.debt[u]
      BY DEF Rewrites, SameTrove
    <2>3. ASSUME NEW u \in Users, v.status[u] = "closedByLiquidation"
          PROVE  w.status[u] = "closedByLiquidation"
      BY <2>1, <2>2, <2>3
    <2>4. ASSUME OwesMinimum(w), NEW u \in Users, v.status[u] = "active"
          PROVE  getNetDebt(v.debt[u]) >= MIN_NET_DEBT
      BY <2>1, <2>2, <2>4 DEF OwesMinimum
    <2>5. w.mintList => Peopled(v)
      BY <2>1, <2>2 DEF Others, Peopled
    <2> QED
      BY <2>1, <2>3, <2>4, <2>5 DEF Spares, OwesMinimum
  <1> QED
    BY <1>1, <1>2

-----------------------------------------------------------------------------
(* The functions of the TroveManager that write a trove. *)

\* Moving rewards: the ActivePool takes over debt and collateral from the DefaultPool.
LEMMA LeadRewards ==
  ASSUME NEW w, Ready(w), NEW a, NEW c, w.ok => a \in Nat /\ c \in Nat
  PROVE  /\ Ready(movePendingTroveRewardsToActivePool(w, a, c))
         /\ Leads(w, movePendingTroveRewardsToActivePool(w, a, c), a, c, 0, 0, 0, 0)
         /\ Follows(w, movePendingTroveRewardsToActivePool(w, a, c))
  <1> DEFINE w1 == defaultPoolDecreaseTHUSDDebt(w, a)
             w2 == activePoolIncreaseTHUSDDebt(w1, a)
             v == defaultPoolSendCollateralToActivePool(w2, c)
  <1>1. v = movePendingTroveRewardsToActivePool(w, a, c)
    BY DEF movePendingTroveRewardsToActivePool
  <1>2. Ready(w1) /\ Leads(w, w1, 0, 0, a, 0, 0, 0) /\ Follows(w, w1)
    BY LeadDefaultDecrease, PoolsFollow DEF Ready
  <1> HIDE DEF w1
  <1>3. w1.ok => a \in Nat /\ c \in Nat
    BY <1>2 DEF Follows
  <1>4. Ready(w2) /\ Leads(w1, w2, a, 0, -a, 0, 0, 0) /\ Follows(w1, w2)
    BY <1>2, <1>3, LeadIncrease, PoolsFollow DEF Ready
  <1> HIDE DEF w2
  <1>5. w2.ok => a \in Nat /\ c \in Nat
    BY <1>3, <1>4 DEF Follows
  <1>6. Ready(v) /\ Leads(w2, v, 0, c, 0, 0, 0, 0) /\ Follows(w2, v)
    BY <1>4, <1>5, LeadToActive, PoolsFollow DEF Ready
  <1> HIDE DEF v
  <1>7. Follows(w, v)
    BY <1>2, <1>4, <1>6 DEF Follows, SameTroves
  <1>8. Leads(w, v, a, c, 0, 0, 0, 0)
    <2> SUFFICES ASSUME v.ok PROVE Leads(w, v, a, c, 0, 0, 0, 0)
      BY DEF Leads
    <2>1. w2.ok /\ w1.ok /\ w.ok
      BY <1>2, <1>4, <1>6 DEF Leads
    <2>2. Sound(w) /\ a \in Nat /\ c \in Nat
      BY <2>1 DEF Ready
    <2> QED
      BY <1>2, <1>4, <1>6, <2>1, <2>2, GapTypes DEF Leads
  <1> QED
    BY <1>1, <1>6, <1>7, <1>8

\* applyPendingRewards: what the trove gains the ActivePool gains.
LEMMA LeadApply ==
  ASSUME NEW w, Ready(w), NEW b \in Users
  PROVE  /\ Ready(applyPendingRewards(w, b))
         /\ Leads(w, applyPendingRewards(w, b), 0, 0, 0, 0, 0, 0)
         /\ applyPendingRewards(w, b).status = w.status
         /\ Spares(w, applyPendingRewards(w, b))
         /\ Shifts(w, applyPendingRewards(w, b), 0, 0)
  <1> DEFINE v == applyPendingRewards(w, b)
             a == getPendingTHUSDDebtReward(w, b)
             c == getPendingCollateralReward(w, b)
             w1 == updateTroveRewardSnapshots(
                     [w EXCEPT !.coll[b] = entireColl(w, b),
                               !.debt[b] = entireDebt(w, b)], b)
             w2 == movePendingTroveRewardsToActivePool(w1, a, c)
  <1>1. CASE ~hasPendingRewards(w, b)
    <2>1. v = w
      BY <1>1 DEF applyPendingRewards
    <2>2. Leads(w, w, 0, 0, 0, 0, 0, 0)
      BY GapTypes DEF Leads, Ready
    <2>3. Spares(w, w) /\ Shifts(w, w, 0, 0)
      BY SamePoolsShift DEF Spares
    <2> QED
      BY <2>1, <2>2, <2>3
  <1>2. CASE hasPendingRewards(w, b)
    <2>1. v = Emit(w2, TroveUpdated(w2, b, "applyPendingRewards"))
      BY <1>2 DEF applyPendingRewards, emitTroveUpdated
    <2>2. /\ IsState(w1) /\ w1.ok = w.ok /\ SamePools(w, w1) /\ SameSums(w, w1)
          /\ w1.status = w.status /\ w1.stake = w.stake /\ w1.totalStakes = w.totalStakes
          /\ w1.sortedTroves = w.sortedTroves
          /\ w1.coll = [w.coll EXCEPT ![b] = entireColl(w, b)]
          /\ w1.debt = [w.debt EXCEPT ![b] = entireDebt(w, b)]
          /\ w1.snapshotCollateral = [w.snapshotCollateral EXCEPT ![b] = w.L_Collateral]
          /\ w1.snapshotTHUSDDebt = [w.snapshotTHUSDDebt EXCEPT ![b] = w.L_THUSDDebt]
      BY DEF Ready, IsState, StateFields, updateTroveRewardSnapshots, SamePools, SameSums
    <2> HIDE DEF w1
    <2>3. /\ w.ok => Sound(w1) /\ a \in Nat /\ c \in Nat
          /\ Leads(w, w1, -a, -c, 0, 0, 0, 0)
          /\ Rewrites(w, w1, b, "active", entireDebt(w, b))
          /\ w.ok => entireDebt(w, b) = w.debt[b] + a
          /\ w.ok => w.debt[b] \in Nat /\ w.status[b] = "active"
      <3> SUFFICES ASSUME w.ok
                   PROVE  /\ Sound(w1) /\ a \in Nat /\ c \in Nat
                          /\ Leads(w, w1, -a, -c, 0, 0, 0, 0)
                          /\ Rewrites(w, w1, b, "active", entireDebt(w, b))
                          /\ entireDebt(w, b) = w.debt[b] + a
                          /\ w.debt[b] \in Nat /\ w.status[b] = "active"
        BY <2>2 DEF Leads, Rewrites
      <3>1. Sound(w)
        BY DEF Ready
      <3>2. /\ a \in Nat /\ c \in Nat /\ entireColl(w, b) \in Nat /\ entireDebt(w, b) \in Nat
            /\ w.coll[b] \in Nat /\ w.debt[b] \in Nat /\ w.stake[b] \in Nat
        BY <3>1, PendingTypes
      <3>3. /\ w.status \in [Users -> Statuses] /\ w.stake \in [Users -> Nat]
            /\ w.totalStakes \in Nat /\ w.L_Collateral \in Nat /\ w.L_THUSDDebt \in Nat
        BY <3>1 DEF Sound, TroveTypes
      <3>4. w.status[b] = "active" /\ "active" \in Statuses
        BY <1>2 DEF hasPendingRewards, Statuses
      <3>5. /\ w1.status = [w.status EXCEPT ![b] = "active"]
            /\ w1.stake = [w.stake EXCEPT ![b] = w.stake[b]]
            /\ w1.totalStakes = w.totalStakes - w.stake[b] + w.stake[b]
        BY <2>2, <3>2, <3>3, <3>4
      <3>6. ListOf(w1.sortedTroves, OpenWith(w, b, "active"))
        <4>1. OpenWith(w, b, "active") = Open(w)
          BY <3>4 DEF OpenWith, Open
        <4> QED
          BY <2>2, <3>1, <4>1 DEF Sound
      <3>7. IF "active" = "active"
            THEN w.L_Collateral <= w.L_Collateral /\ w.L_THUSDDebt <= w.L_THUSDDebt
            ELSE entireColl(w, b) = 0 /\ entireDebt(w, b) = 0 /\ w.stake[b] = 0
        BY <3>3
      <3>a. Written(w, w1, b, "active", entireColl(w, b), entireDebt(w, b), w.stake[b],
                    w.L_Collateral, w.L_THUSDDebt)
        BY <2>2, <3>1, <3>2, <3>3, <3>4, <3>5, <3>6, <3>7 DEF Written
      <3>8. /\ Sound(w1)
            /\ DebtGap(w1) = DebtGap(w) + w.debt[b] - entireDebt(w, b)
            /\ CollGap(w1) = CollGap(w) + w.coll[b] - entireColl(w, b)
            /\ SupplyGap(w1) = SupplyGap(w)
            /\ ReserveGap(w1) = ReserveGap(w) + ReserveDue(w, b, "active")
            /\ SurplusGap(w1) = SurplusGap(w) /\ Pooled(w1) = Pooled(w)
        BY <3>a, TroveWritten
      <3>9. entireDebt(w, b) = w.debt[b] + a /\ entireColl(w, b) = w.coll[b] + c
        BY DEF entireDebt, entireColl
      <3>10. ReserveDue(w, b, "active") = 0
        BY <3>4 DEF ReserveDue
      <3>11. Rewrites(w, w1, b, "active", entireDebt(w, b))
        BY <3>a, WrittenRewrites
      <3> HIDE DEF a, c
      <3>12. Leads(w, w1, -a, -c, 0, 0, 0, 0)
        BY <3>1, <3>2, <3>8, <3>9, <3>10, GapTypes DEF Leads
      <3> QED
        BY <3>2, <3>4, <3>8, <3>9, <3>11, <3>12
    <2>4. Ready(w1) /\ (w1.ok => a \in Nat /\ c \in Nat)
      BY <2>2, <2>3 DEF Ready
    <2> HIDE DEF a, c
    <2>a. Spares(w, w1) /\ Shifts(w, w1, 0, 0)
      <3>1. ASSUME w1.ok, OwesMinimum(w) PROVE getNetDebt(entireDebt(w, b)) >= MIN_NET_DEBT
        <4>1. w.ok /\ w.debt[b] \in Nat /\ a \in Nat /\ entireDebt(w, b) = w.debt[b] + a
          BY <2>2, <2>3, <3>1
        <4>2. getNetDebt(w.debt[b]) >= MIN_NET_DEBT
          BY <2>3, <3>1, <4>1 DEF OwesMinimum
        <4> QED
          BY <4>1, <4>2, BaseAssumption DEF getNetDebt
      <3> QED
        BY <2>3, <3>1, RewriteSpares
    <2>5. /\ Ready(w2) /\ Leads(w1, w2, a, c, 0, 0, 0, 0) /\ Follows(w1, w2)
          /\ Shifts(w1, w2, 0, 0)
      BY <2>4, LeadRewards, RewardShifts
    <2> HIDE DEF w2
    <2>6. /\ Ready(v) /\ Leads(w2, v, 0, 0, 0, 0, 0, 0) /\ Follows(w2, v)
          /\ Shifts(w2, v, 0, 0)
      BY <2>1, <2>5, LeadEmit, PoolsFollow, TokenShifts DEF Ready
    <2> HIDE DEF v
    <2>b. Spares(w, v)
      BY <2>a, <2>5, <2>6, FollowsSpares, SparesBoth
    <2>c. Shifts(w, v, 0, 0)
      <3>1. Shifts(w1, v, 0, 0)
        BY <2>4, <2>5, <2>6, ShiftsBoth
      <3>2. Shifts(w, v, 0 + 0, 0 + 0)
        BY <2>a, <3>1, ShiftsBoth
      <3> QED
        BY <3>2
    <2>7. v.status = w.status
      BY <2>2, <2>5, <2>6 DEF Follows, SameTroves
    <2>8. Leads(w, v, 0, 0, 0, 0, 0, 0)
      <3> SUFFICES ASSUME v.ok PROVE Leads(w, v, 0, 0, 0, 0, 0, 0)
        BY DEF Leads
      <3>1. w2.ok /\ w1.ok /\ w.ok
        BY <2>3, <2>5, <2>6 DEF Leads
      <3>2. Sound(w) /\ a \in Nat /\ c \in Nat
        BY <2>4, <3>1 DEF Ready
      <3> QED
        BY <2>3, <2>5, <2>6, <3>1, <3>2, GapTypes DEF Leads
    <2> QED
      BY <2>6, <2>7, <2>8, <2>b, <2>c DEF v
  <1> QED
    BY <1>1, <1>2

\* A list of two troves or more has another one.
LEMMA ListOthers ==
  ASSUME NEW w, ListOf(w.sortedTroves, Open(w)), Len(w.sortedTroves) > 1, NEW b
  PROVE  Others(w, b)
  <1> DEFINE seq == w.sortedTroves
  <1>1. 1 \in 1..Len(seq) /\ 2 \in 1..Len(seq)
    BY DEF ListOf
  <1>2. seq[1] \in Open(w) /\ seq[2] \in Open(w) /\ seq[1] # seq[2]
    BY <1>1 DEF ListOf
  <1>3. \E u \in Open(w) : u # b
    BY <1>2
  <1> QED
    BY <1>3 DEF Others, Open

\* Closing a trove (removeStake, _closeTrove): its debt, its collateral and its gas
\* compensation are still to be moved, and it is not the last one while BorrowerOperations
\* may mint.
LEMMA LeadClose ==
  ASSUME NEW w, Ready(w), NEW b \in Users, NEW st \in Statuses \ {"active"},
         w.ok => w.status[b] = "active"
  PROVE  /\ Ready(closeTrove(removeStake(w, b), b, st))
         /\ Leads(w, closeTrove(removeStake(w, b), b, st), w.debt[b], w.coll[b], 0,
                  THUSD_GAS_COMPENSATION, 0, 0)
         /\ closeTrove(removeStake(w, b), b, st).status = [w.status EXCEPT ![b] = st]
         /\ Rewrites(w, closeTrove(removeStake(w, b), b, st), b, st, 0)
         /\ closeTrove(removeStake(w, b), b, st).ok /\ w.mintList => Others(w, b)
  <1> DEFINE w1 == removeStake(w, b)
             v == closeTrove(w1, b, st)
  <1>0. /\ IsState(w1) /\ w1.ok = w.ok /\ SamePools(w, w1) /\ SameSums(w, w1)
        /\ w1.status = w.status /\ w1.coll = w.coll /\ w1.debt = w.debt
        /\ w1.stake = [w.stake EXCEPT ![b] = 0]
        /\ w1.snapshotCollateral = w.snapshotCollateral
        /\ w1.snapshotTHUSDDebt = w.snapshotTHUSDDebt
        /\ w1.totalStakes = w.totalStakes - w.stake[b]
        /\ w1.sortedTroves = w.sortedTroves
    BY DEF Ready, IsState, StateFields, removeStake, SamePools, SameSums
  <1> HIDE DEF w1
  <1>1. /\ IsState(v) /\ (v.ok => w.ok) /\ SamePools(w, v) /\ SameSums(w, v)
        /\ v.status = [w.status EXCEPT ![b] = st]
        /\ v.coll = [w.coll EXCEPT ![b] = 0] /\ v.debt = [w.debt EXCEPT ![b] = 0]
        /\ v.stake = [w.stake EXCEPT ![b] = 0]
        /\ v.snapshotCollateral = [w.snapshotCollateral EXCEPT ![b] = 0]
        /\ v.snapshotTHUSDDebt = [w.snapshotTHUSDDebt EXCEPT ![b] = 0]
        /\ v.totalStakes = w.totalStakes - w.stake[b]
        /\ v.sortedTroves = Without(b, w.sortedTroves)
        /\ v.ok /\ w.mintList => Len(w.sortedTroves) > 1
    <2> DEFINE x == Require(w1, w1.mintList => Len(w1.sortedTroves) > 1)
    <2>1. /\ IsState(x) /\ (x.ok => w.ok) /\ SamePools(w, x) /\ SameSums(w, x)
          /\ x.status = w.status /\ x.coll = w.coll /\ x.debt = w.debt
          /\ x.stake = [w.stake EXCEPT ![b] = 0]
          /\ x.snapshotCollateral = w.snapshotCollateral
          /\ x.snapshotTHUSDDebt = w.snapshotTHUSDDebt
          /\ x.totalStakes = w.totalStakes - w.stake[b]
          /\ x.sortedTroves = w.sortedTroves
      BY <1>0 DEF IsState, StateFields, Require, SamePools, SameSums
    <2>a. x.ok /\ w.mintList => Len(w.sortedTroves) > 1
      BY <1>0 DEF IsState, StateFields, Require, SameSums
    <2>2. v = [x EXCEPT !.status[b] = st, !.coll[b] = 0, !.debt[b] = 0,
                        !.snapshotCollateral[b] = 0, !.snapshotTHUSDDebt[b] = 0,
                        !.sortedTroves = Without(b, x.sortedTroves)]
      BY DEF closeTrove
    <2> HIDE DEF x, v
    <2>3. IsState(v) /\ v.ok = x.ok
      BY <2>1, <2>2 DEF IsState, StateFields
    <2>4. SamePools(w, v) /\ SameSums(w, v)
      BY <2>1, <2>2 DEF IsState, StateFields, SamePools, SameSums
    <2>5. /\ v.status = [w.status EXCEPT ![b] = st]
          /\ v.coll = [w.coll EXCEPT ![b] = 0] /\ v.debt = [w.debt EXCEPT ![b] = 0]
          /\ v.stake = [w.stake EXCEPT ![b] = 0]
          /\ v.snapshotCollateral = [w.snapshotCollateral EXCEPT ![b] = 0]
          /\ v.snapshotTHUSDDebt = [w.snapshotTHUSDDebt EXCEPT ![b] = 0]
          /\ v.totalStakes = w.totalStakes - w.stake[b]
          /\ v.sortedTroves = Without(b, w.sortedTroves)
      BY <2>1, <2>2 DEF IsState, StateFields
    <2> QED
      BY <2>1, <2>a, <2>3, <2>4, <2>5
  <1> HIDE DEF v
  <1>2. ASSUME v.ok
        PROVE  /\ Sound(v)
               /\ Leads(w, v, w.debt[b], w.coll[b], 0, THUSD_GAS_COMPENSATION, 0, 0)
               /\ Rewrites(w, v, b, st, 0)
    <2>1. w.ok /\ Sound(w) /\ w.status[b] = "active"
      BY <1>1, <1>2 DEF Ready
    <2>2. /\ w.coll[b] \in Nat /\ w.debt[b] \in Nat /\ w.stake[b] \in Nat
          /\ w.totalStakes \in Nat
      BY <2>1, PendingTypes DEF Sound, TroveTypes
    <2>3. ListOf(v.sortedTroves, OpenWith(w, b, st))
      <3>1. Open(w) \in SUBSET Users /\ OpenWith(w, b, st) = Open(w) \ {b}
        BY DEF Open, OpenWith
      <3>2. ListOf(w.sortedTroves, Open(w))
        BY <2>1 DEF Sound
      <3> QED
        BY <1>1, <3>1, <3>2, WithoutList
    <2>4. v.totalStakes = w.totalStakes - w.stake[b] + 0
      BY <1>1, <2>2
    <2>5. Written(w, v, b, st, 0, 0, 0, 0, 0)
      BY <1>1, <2>1, <2>3, <2>4 DEF Written
    <2>6. /\ Sound(v)
          /\ DebtGap(v) = DebtGap(w) + w.debt[b] - 0
          /\ CollGap(v) = CollGap(w) + w.coll[b] - 0
          /\ SupplyGap(v) = SupplyGap(w)
          /\ ReserveGap(v) = ReserveGap(w) + ReserveDue(w, b, st)
          /\ SurplusGap(v) = SurplusGap(w) /\ Pooled(v) = Pooled(w)
      BY <2>5, TroveWritten
    <2>7. ReserveDue(w, b, st) = THUSD_GAS_COMPENSATION /\ THUSD_GAS_COMPENSATION \in Nat
      BY <2>1, BaseAssumption DEF ReserveDue
    <2>8. Rewrites(w, v, b, st, 0)
      BY <2>1, <2>5, WrittenRewrites
    <2>9. Leads(w, v, w.debt[b], w.coll[b], 0, THUSD_GAS_COMPENSATION, 0, 0)
      BY <2>1, <2>2, <2>6, <2>7, GapTypes DEF Leads
    <2> QED
      BY <2>6, <2>8, <2>9
  <1>3. Ready(v) /\ Rewrites(w, v, b, st, 0)
    BY <1>1, <1>2 DEF Ready, Rewrites
  <1>4. Leads(w, v, w.debt[b], w.coll[b], 0, THUSD_GAS_COMPENSATION, 0, 0)
    BY <1>2 DEF Leads
  <1>5. v.ok /\ w.mintList => Others(w, b)
    BY <1>1, ListOthers DEF Ready, Sound
  <1> QED
    BY <1>1, <1>3, <1>4, <1>5 DEF v, w1

\* insertAt moves b to a place of the list; when the place is valid nothing else changes.
LEMMA InsertedAt ==
  ASSUME NEW w, IsState(w), NEW b \in Users, NEW q, NEW pos, NEW T \in SUBSET Users,
         NEW v, v = insertAt(w, b, q, pos)
  PROVE  /\ IsState(v) /\ (v.ok => w.ok) /\ SamePools(w, v) /\ SameSums(w, v)
         /\ v.status = w.status /\ v.coll = w.coll /\ v.debt = w.debt /\ v.stake = w.stake
         /\ v.totalStakes = w.totalStakes /\ v.snapshotCollateral = w.snapshotCollateral
         /\ v.snapshotTHUSDDebt = w.snapshotTHUSDDebt
         /\ ListOf(w.sortedTroves, T) /\ v.ok => ListOf(v.sortedTroves, T \cup {b})
  <1> DEFINE seq == Without(b, w.sortedTroves)
             ratio == [t \in Users |-> getNominalICR(w, t)]
             fits == q > 0 /\ validInsertPosition(ratio, seq, q, pos)
  <1>1. v = IF fits THEN [w EXCEPT !.sortedTroves = placeAt(seq, b, pos)]
                    ELSE Require(w, FALSE)
    BY DEF insertAt
  <1>2. fits => pos \in 1..Len(seq) + 1
    BY DEF validInsertPosition
  <1> HIDE DEF fits, seq
  <1>3. /\ IsState(v) /\ (v.ok => w.ok /\ fits)
        /\ (fits => v.sortedTroves = placeAt(seq, b, pos))
        /\ SamePools(w, v) /\ SameSums(w, v)
        /\ v.status = w.status /\ v.coll = w.coll /\ v.debt = w.debt /\ v.stake = w.stake
        /\ v.totalStakes = w.totalStakes /\ v.snapshotCollateral = w.snapshotCollateral
        /\ v.snapshotTHUSDDebt = w.snapshotTHUSDDebt
    <2>1. CASE fits
      BY <1>1, <2>1 DEF IsState, StateFields, SamePools, SameSums
    <2>2. CASE ~fits
      BY <1>1, <2>2 DEF IsState, StateFields, SamePools, SameSums, Require
    <2> QED
      BY <2>1, <2>2
  <1>4. ASSUME ListOf(w.sortedTroves, T), v.ok PROVE ListOf(v.sortedTroves, T \cup {b})
    <2>1. v.sortedTroves = placeAt(seq, b, pos) /\ pos \in 1..Len(seq) + 1
      BY <1>2, <1>3, <1>4
    <2>2. ListOf(seq, T \ {b})
      BY <1>4, WithoutList DEF seq
    <2>3. T \ {b} \in SUBSET Users /\ b \notin T \ {b} /\ (T \ {b}) \cup {b} = T \cup {b}
      OBVIOUS
    <2>4. ListOf(placeAt(seq, b, pos), (T \ {b}) \cup {b})
      BY <2>1, <2>2, <2>3, PlacedList
    <2> QED
      BY <2>1, <2>3, <2>4
  <1> QED
    BY <1>3, <1>4

\* A new stake is an amount, unless the division by the snapshot fails.
LEMMA StakeType ==
  ASSUME NEW w, NEW c \in Nat, w.totalCollateralSnapshot \in Nat, w.totalStakesSnapshot \in Nat
  PROVE  computeNewStake(w, c) \in Nat
  <1>1. CASE w.totalCollateralSnapshot = 0
    BY <1>1 DEF computeNewStake
  <1>2. CASE w.totalCollateralSnapshot # 0
    <2>1. c * w.totalStakesSnapshot \in Nat /\ w.totalCollateralSnapshot \in Nat \ {0}
      BY <1>2, MulNat
    <2>2. (c * w.totalStakesSnapshot) \div w.totalCollateralSnapshot \in Nat
      BY <2>1, DivNat
    <2> QED
      BY <1>2, <2>2 DEF computeNewStake
  <1> QED
    BY <1>1, <1>2

\* _adjustTrove rewrites an open trove: amounts, stake, place.
LEMMA LeadAdjust ==
  ASSUME NEW w, Ready(w), NEW b \in Users, NEW c, NEW d, NEW q, NEW pos,
         w.ok => w.status[b] = "active" /\ c \in Nat /\ d \in Nat,
         NEW v, v = insertAt(updateStakeAndTotalStakes(
                               [w EXCEPT !.coll[b] = c, !.debt[b] = d], b), b, q, pos)
  PROVE  /\ Ready(v)
         /\ Leads(w, v, w.debt[b] - d, w.coll[b] - c, 0, 0, 0, 0)
         /\ Rewrites(w, v, b, "active", d)
  <1> DEFINE w1 == [w EXCEPT !.coll[b] = c, !.debt[b] = d]
             s == computeNewStake(w1, w1.coll[b])
             w2 == updateStakeAndTotalStakes(w1, b)
  <1>0. IsState(w)
    BY DEF Ready
  <1>1. /\ IsState(w1) /\ SamePools(w, w1) /\ SameSums(w, w1) /\ w1.ok = w.ok
        /\ w1.status = w.status /\ w1.stake = w.stake /\ w1.totalStakes = w.totalStakes
        /\ w1.sortedTroves = w.sortedTroves
        /\ w1.coll = [w.coll EXCEPT ![b] = c] /\ w1.debt = [w.debt EXCEPT ![b] = d]
        /\ w1.snapshotCollateral = w.snapshotCollateral
        /\ w1.snapshotTHUSDDebt = w.snapshotTHUSDDebt
    BY <1>0 DEF IsState, StateFields, SamePools, SameSums
  <1> HIDE DEF w1
  <1>2. /\ IsState(w2) /\ SamePools(w1, w2) /\ SameSums(w1, w2) /\ (w2.ok => w1.ok)
        /\ w2.status = w1.status /\ w2.stake = [w1.stake EXCEPT ![b] = s]
        /\ w2.totalStakes = w1.totalStakes - w1.stake[b] + s
        /\ w2.sortedTroves = w1.sortedTroves
        /\ w2.coll = w1.coll /\ w2.debt = w1.debt
        /\ w2.snapshotCollateral = w1.snapshotCollateral
        /\ w2.snapshotTHUSDDebt = w1.snapshotTHUSDDebt
    BY <1>1 DEF IsState, StateFields, SamePools, SameSums, updateStakeAndTotalStakes, Require
  <1> HIDE DEF w2, s
  <1>3. v = insertAt(w2, b, q, pos)
    BY DEF w1, w2
  <1>4. Open(w) \in SUBSET Users
    BY DEF Open
  <1>5. /\ IsState(v) /\ SamePools(w2, v) /\ SameSums(w2, v) /\ (v.ok => w2.ok)
        /\ v.status = w2.status /\ v.coll = w2.coll /\ v.debt = w2.debt
        /\ v.stake = w2.stake /\ v.totalStakes = w2.totalStakes
        /\ v.snapshotCollateral = w2.snapshotCollateral
        /\ v.snapshotTHUSDDebt = w2.snapshotTHUSDDebt
        /\ (ListOf(w2.sortedTroves, Open(w)) /\ v.ok =>
              ListOf(v.sortedTroves, Open(w) \cup {b}))
    <2>1. IsState(w2)
      BY <1>2
    <2> QED
      BY <1>3, <1>4, <2>1, InsertedAt
  <1>6. ASSUME v.ok
        PROVE  /\ Sound(v)
               /\ Leads(w, v, w.debt[b] - d, w.coll[b] - c, 0, 0, 0, 0)
               /\ Rewrites(w, v, b, "active", d)
    <2>1. w.ok /\ Sound(w) /\ w.status[b] = "active" /\ c \in Nat /\ d \in Nat
      BY <1>1, <1>2, <1>5, <1>6 DEF Ready
    <2>2. TroveTypes(w) /\ TroveOf(w, b) /\ ListOf(w.sortedTroves, Open(w))
      BY <2>1 DEF Sound
    <2>3. s \in Nat
      <3>1. w1.coll[b] = c
        BY <1>1, <2>2 DEF TroveTypes
      <3>2. w1.totalCollateralSnapshot \in Nat /\ w1.totalStakesSnapshot \in Nat
        BY <1>1, <2>2 DEF SameSums, TroveTypes
      <3> QED
        BY <2>1, <3>1, <3>2, StakeType DEF s
    <2>4. /\ SamePools(w, v) /\ SameSums(w, v)
      BY <1>1, <1>2, <1>5 DEF SamePools, SameSums
    <2>5. ListOf(v.sortedTroves, OpenWith(w, b, "active"))
      BY <1>1, <1>2, <1>5, <1>6, <2>2 DEF OpenWith
    <2>6. /\ v.status = [w.status EXCEPT ![b] = "active"]
          /\ v.snapshotCollateral = [w.snapshotCollateral EXCEPT ![b] = w.snapshotCollateral[b]]
          /\ v.snapshotTHUSDDebt = [w.snapshotTHUSDDebt EXCEPT ![b] = w.snapshotTHUSDDebt[b]]
          /\ w.snapshotCollateral[b] \in Nat /\ w.snapshotTHUSDDebt[b] \in Nat
      BY <1>1, <1>2, <1>5, <2>1, <2>2 DEF TroveTypes
    <2>7. IF "active" = "active"
          THEN /\ w.snapshotCollateral[b] <= w.L_Collateral
               /\ w.snapshotTHUSDDebt[b] <= w.L_THUSDDebt
          ELSE c = 0 /\ d = 0 /\ s = 0
      BY <2>1, <2>2 DEF TroveOf
    <2>8. "active" \in Statuses
      BY DEF Statuses
    <2>9. /\ v.coll = [w.coll EXCEPT ![b] = c] /\ v.debt = [w.debt EXCEPT ![b] = d]
          /\ v.stake = [w.stake EXCEPT ![b] = s]
          /\ v.totalStakes = w.totalStakes - w.stake[b] + s
      BY <1>1, <1>2, <1>5
    <2>10. Written(w, v, b, "active", c, d, s, w.snapshotCollateral[b], w.snapshotTHUSDDebt[b])
      BY <1>5, <2>1, <2>3, <2>4, <2>5, <2>6, <2>7, <2>8, <2>9 DEF Written
    <2>11. /\ Sound(v)
           /\ DebtGap(v) = DebtGap(w) + w.debt[b] - d
           /\ CollGap(v) = CollGap(w) + w.coll[b] - c
           /\ SupplyGap(v) = SupplyGap(w)
           /\ ReserveGap(v) = ReserveGap(w) + ReserveDue(w, b, "active")
           /\ SurplusGap(v) = SurplusGap(w) /\ Pooled(v) = Pooled(w)
      BY <2>10, TroveWritten
    <2>12. ReserveDue(w, b, "active") = 0 /\ w.coll[b] \in Nat /\ w.debt[b] \in Nat
      BY <2>1, <2>2 DEF ReserveDue, TroveTypes
    <2>13. Rewrites(w, v, b, "active", d)
      BY <2>1, <2>10, WrittenRewrites
    <2>14. Leads(w, v, w.debt[b] - d, w.coll[b] - c, 0, 0, 0, 0)
      BY <2>1, <2>11, <2>12, GapTypes DEF Leads
    <2> QED
      BY <2>11, <2>13, <2>14
  <1>7. Ready(v) /\ Rewrites(w, v, b, "active", d)
    BY <1>5, <1>6 DEF Ready, Rewrites
  <1>8. Leads(w, v, w.debt[b] - d, w.coll[b] - c, 0, 0, 0, 0)
    BY <1>6 DEF Leads
  <1> QED
    BY <1>7, <1>8

\* v is w with the new stake s of b.
Restaked(w, v, b, s) ==
  /\ IsState(v) /\ SamePools(w, v) /\ SameSums(w, v) /\ (v.ok => w.ok)
  /\ v.status = w.status
  /\ v.stake = [w.stake EXCEPT ![b] = s]
  /\ v.totalStakes = w.totalStakes - w.stake[b] + s
  /\ v.sortedTroves = w.sortedTroves /\ v.coll = w.coll /\ v.debt = w.debt
  /\ v.snapshotCollateral = w.snapshotCollateral
  /\ v.snapshotTHUSDDebt = w.snapshotTHUSDDebt

\* The fields that updateStakeAndTotalStakes writes.
LEMMA StakeUpdated ==
  ASSUME NEW w, IsState(w), NEW b
  PROVE  Restaked(w, updateStakeAndTotalStakes(w, b), b, computeNewStake(w, w.coll[b]))
  <1> DEFINE s == computeNewStake(w, w.coll[b])
             x == Require(w, w.totalCollateralSnapshot = 0 \/ w.totalStakesSnapshot > 0)
             v == updateStakeAndTotalStakes(w, b)
  <1>1. v = [x EXCEPT !.stake[b] = s, !.totalStakes = @ - w.stake[b] + s]
    BY DEF updateStakeAndTotalStakes
  <1> HIDE DEF s, v
  <1>2. IsState(v) /\ SamePools(w, v) /\ SameSums(w, v) /\ (v.ok => w.ok)
    BY <1>1 DEF IsState, StateFields, SamePools, SameSums, Require
  <1>3. /\ v.status = w.status /\ v.stake = [w.stake EXCEPT ![b] = s]
        /\ v.totalStakes = w.totalStakes - w.stake[b] + s
        /\ v.sortedTroves = w.sortedTroves /\ v.coll = w.coll /\ v.debt = w.debt
        /\ v.snapshotCollateral = w.snapshotCollateral
        /\ v.snapshotTHUSDDebt = w.snapshotTHUSDDebt
    BY <1>1 DEF IsState, StateFields, Require
  <1> QED
    BY <1>2, <1>3 DEF s, v, Restaked

\* A partial redemption rewrites an open trove: place, amounts, stake.
LEMMA LeadPartial ==
  ASSUME NEW w, Ready(w), NEW b \in Users, NEW c, NEW d, NEW q, NEW pos,
         w.ok => w.status[b] = "active" /\ c \in Nat /\ d \in Nat,
         NEW v, v = updateStakeAndTotalStakes(
                      [insertAt(w, b, q, pos) EXCEPT !.debt[b] = d, !.coll[b] = c], b)
  PROVE  /\ Ready(v)
         /\ Leads(w, v, w.debt[b] - d, w.coll[b] - c, 0, 0, 0, 0)
         /\ v.status = w.status
         /\ Rewrites(w, v, b, "active", d)
  <1> DEFINE w1 == insertAt(w, b, q, pos)
             w2 == [w1 EXCEPT !.debt[b] = d, !.coll[b] = c]
             s == computeNewStake(w2, w2.coll[b])
  <1>0. IsState(w) /\ Open(w) \in SUBSET Users
    BY DEF Ready, Open
  <1>1. /\ IsState(w1) /\ (w1.ok => w.ok) /\ SamePools(w, w1) /\ SameSums(w, w1)
        /\ w1.status = w.status /\ w1.coll = w.coll /\ w1.debt = w.debt
        /\ w1.stake = w.stake /\ w1.totalStakes = w.totalStakes
        /\ w1.snapshotCollateral = w.snapshotCollateral
        /\ w1.snapshotTHUSDDebt = w.snapshotTHUSDDebt
        /\ (ListOf(w.sortedTroves, Open(w)) /\ w1.ok =>
              ListOf(w1.sortedTroves, Open(w) \cup {b}))
    BY <1>0, InsertedAt
  <1> HIDE DEF w1
  <1>2. /\ IsState(w2) /\ SamePools(w1, w2) /\ SameSums(w1, w2) /\ w2.ok = w1.ok
        /\ w2.status = w1.status /\ w2.stake = w1.stake /\ w2.totalStakes = w1.totalStakes
        /\ w2.sortedTroves = w1.sortedTroves
        /\ w2.coll = [w1.coll EXCEPT ![b] = c] /\ w2.debt = [w1.debt EXCEPT ![b] = d]
        /\ w2.snapshotCollateral = w1.snapshotCollateral
        /\ w2.snapshotTHUSDDebt = w1.snapshotTHUSDDebt
    BY <1>1 DEF IsState, StateFields, SamePools, SameSums
  <1>3. v = updateStakeAndTotalStakes(w2, b)
    BY DEF w1
  <1> HIDE DEF w2
  <1>4. /\ IsState(v) /\ SamePools(w2, v) /\ SameSums(w2, v) /\ (v.ok => w2.ok)
        /\ v.status = w2.status /\ v.stake = [w2.stake EXCEPT ![b] = s]
        /\ v.totalStakes = w2.totalStakes - w2.stake[b] + s
        /\ v.sortedTroves = w2.sortedTroves
        /\ v.coll = w2.coll /\ v.debt = w2.debt
        /\ v.snapshotCollateral = w2.snapshotCollateral
        /\ v.snapshotTHUSDDebt = w2.snapshotTHUSDDebt
    <2>1. IsState(w2)
      BY <1>2
    <2>2. Restaked(w2, v, b, s)
      BY <1>3, <2>1, StakeUpdated
    <2> HIDE DEF s
    <2> QED
      BY <2>2 DEF Restaked
  <1> HIDE DEF s
  <1>5. ASSUME v.ok
        PROVE  /\ Sound(v)
               /\ Leads(w, v, w.debt[b] - d, w.coll[b] - c, 0, 0, 0, 0)
               /\ Rewrites(w, v, b, "active", d)
    <2>1. w.ok /\ Sound(w) /\ w.status[b] = "active" /\ c \in Nat /\ d \in Nat
      BY <1>1, <1>2, <1>4, <1>5 DEF Ready
    <2>2. TroveTypes(w) /\ TroveOf(w, b) /\ ListOf(w.sortedTroves, Open(w))
      BY <2>1 DEF Sound
    <2>3. s \in Nat
      <3>1. w2.coll[b] = c
        BY <1>1, <1>2, <2>2 DEF TroveTypes
      <3>2. w2.totalCollateralSnapshot \in Nat /\ w2.totalStakesSnapshot \in Nat
        BY <1>1, <1>2, <2>2 DEF SameSums, TroveTypes
      <3> QED
        BY <2>1, <3>1, <3>2, StakeType DEF s
    <2>4. /\ SamePools(w, v) /\ SameSums(w, v)
      BY <1>1, <1>2, <1>4 DEF SamePools, SameSums
    <2>5. ListOf(v.sortedTroves, OpenWith(w, b, "active"))
      BY <1>1, <1>2, <1>4, <1>5, <2>2 DEF OpenWith
    <2>6. /\ v.status = [w.status EXCEPT ![b] = "active"]
          /\ v.snapshotCollateral = [w.snapshotCollateral EXCEPT ![b] = w.snapshotCollateral[b]]
          /\ v.snapshotTHUSDDebt = [w.snapshotTHUSDDebt EXCEPT ![b] = w.snapshotTHUSDDebt[b]]
          /\ w.snapshotCollateral[b] \in Nat /\ w.snapshotTHUSDDebt[b] \in Nat
      BY <1>1, <1>2, <1>4, <2>1, <2>2 DEF TroveTypes
    <2>7. IF "active" = "active"
          THEN /\ w.snapshotCollateral[b] <= w.L_Collateral
               /\ w.snapshotTHUSDDebt[b] <= w.L_THUSDDebt
          ELSE c = 0 /\ d = 0 /\ s = 0
      BY <2>1, <2>2 DEF TroveOf
    <2>8. "active" \in Statuses
      BY DEF Statuses
    <2>9. /\ v.coll = [w.coll EXCEPT ![b] = c] /\ v.debt = [w.debt EXCEPT ![b] = d]
          /\ v.stake = [w.stake EXCEPT ![b] = s]
          /\ v.totalStakes = w.totalStakes - w.stake[b] + s
      BY <1>1, <1>2, <1>4
    <2>10. Written(w, v, b, "active", c, d, s, w.snapshotCollateral[b], w.snapshotTHUSDDebt[b])
      BY <1>4, <2>1, <2>3, <2>4, <2>5, <2>6, <2>7, <2>8, <2>9 DEF Written
    <2>11. /\ Sound(v)
           /\ DebtGap(v) = DebtGap(w) + w.debt[b] - d
           /\ CollGap(v) = CollGap(w) + w.coll[b] - c
           /\ SupplyGap(v) = SupplyGap(w)
           /\ ReserveGap(v) = ReserveGap(w) + ReserveDue(w, b, "active")
           /\ SurplusGap(v) = SurplusGap(w) /\ Pooled(v) = Pooled(w)
      BY <2>10, TroveWritten
    <2>12. ReserveDue(w, b, "active") = 0 /\ w.coll[b] \in Nat /\ w.debt[b] \in Nat
      BY <2>1, <2>2 DEF ReserveDue, TroveTypes
    <2>13. Rewrites(w, v, b, "active", d)
      BY <2>1, <2>10, WrittenRewrites
    <2>14. Leads(w, v, w.debt[b] - d, w.coll[b] - c, 0, 0, 0, 0)
      BY <2>1, <2>11, <2>12, GapTypes DEF Leads
    <2> QED
      BY <2>11, <2>13, <2>14
  <1>6. v.status = w.status
    BY <1>1, <1>2, <1>4
  <1>7. Ready(v) /\ Rewrites(w, v, b, "active", d)
    BY <1>4, <1>5 DEF Ready, Rewrites
  <1>8. Leads(w, v, w.debt[b] - d, w.coll[b] - c, 0, 0, 0, 0)
    BY <1>5 DEF Leads
  <1> QED
    BY <1>6, <1>7, <1>8

\* openTrove writes a new trove: amounts, snapshots, stake, place.
LEMMA LeadOpen ==
  ASSUME NEW w, Ready(w), NEW b \in Users, NEW c, NEW d, NEW q, NEW pos,
         w.ok => w.status[b] # "active" /\ c \in Nat /\ d \in Nat,
         NEW v, v = insertAt(updateStakeAndTotalStakes(
                      updateTroveRewardSnapshots(
                        [w EXCEPT !.status[b] = "active", !.coll[b] = @ + c,
                                  !.debt[b] = @ + d], b), b), b, q, pos)
  PROVE  /\ Ready(v)
         /\ Leads(w, v, -d, -c, 0, -THUSD_GAS_COMPENSATION, 0, 0)
         /\ Rewrites(w, v, b, "active", d)
  <1> DEFINE w1 == updateTroveRewardSnapshots(
                     [w EXCEPT !.status[b] = "active", !.coll[b] = @ + c,
                               !.debt[b] = @ + d], b)
             w2 == updateStakeAndTotalStakes(w1, b)
             s == computeNewStake(w1, w1.coll[b])
  <1>0. IsState(w) /\ Open(w) \in SUBSET Users
    BY DEF Ready, Open
  <1>1. /\ IsState(w1) /\ SamePools(w, w1) /\ SameSums(w, w1) /\ w1.ok = w.ok
        /\ w1.status = [w.status EXCEPT ![b] = "active"]
        /\ w1.stake = w.stake /\ w1.totalStakes = w.totalStakes
        /\ w1.sortedTroves = w.sortedTroves
        /\ w1.coll = [w.coll EXCEPT ![b] = w.coll[b] + c]
        /\ w1.debt = [w.debt EXCEPT ![b] = w.debt[b] + d]
        /\ w1.snapshotCollateral = [w.snapshotCollateral EXCEPT ![b] = w.L_Collateral]
        /\ w1.snapshotTHUSDDebt = [w.snapshotTHUSDDebt EXCEPT ![b] = w.L_THUSDDebt]
    <2> DEFINE x == [w EXCEPT !.status[b] = "active", !.coll[b] = @ + c, !.debt[b] = @ + d]
    <2>1. /\ IsState(x) /\ SamePools(w, x) /\ SameSums(w, x) /\ x.ok = w.ok
          /\ x.status = [w.status EXCEPT ![b] = "active"]
          /\ x.stake = w.stake /\ x.totalStakes = w.totalStakes
          /\ x.sortedTroves = w.sortedTroves
          /\ x.coll = [w.coll EXCEPT ![b] = @ + c]
          /\ x.debt = [w.debt EXCEPT ![b] = @ + d]
          /\ x.snapshotCollateral = w.snapshotCollateral
          /\ x.snapshotTHUSDDebt = w.snapshotTHUSDDebt
          /\ x.L_Collateral = w.L_Collateral /\ x.L_THUSDDebt = w.L_THUSDDebt
      BY <1>0 DEF IsState, StateFields, SamePools, SameSums
    <2>2. w1 = updateTroveRewardSnapshots(x, b)
      OBVIOUS
    <2> HIDE DEF x, w1
    <2>3. w1 = [x EXCEPT !.snapshotCollateral[b] = x.L_Collateral,
                         !.snapshotTHUSDDebt[b] = x.L_THUSDDebt]
      BY <2>2 DEF updateTroveRewardSnapshots
    <2>4. IsState(w1) /\ SamePools(w, w1) /\ SameSums(w, w1) /\ w1.ok = w.ok
      BY <2>1, <2>3 DEF IsState, StateFields, SamePools, SameSums
    <2>5. /\ w1.status = x.status /\ w1.stake = x.stake /\ w1.totalStakes = x.totalStakes
          /\ w1.sortedTroves = x.sortedTroves /\ w1.coll = x.coll /\ w1.debt = x.debt
          /\ w1.snapshotCollateral = [x.snapshotCollateral EXCEPT ![b] = x.L_Collateral]
          /\ w1.snapshotTHUSDDebt = [x.snapshotTHUSDDebt EXCEPT ![b] = x.L_THUSDDebt]
      BY <2>1, <2>3 DEF IsState, StateFields
    <2> QED
      BY <2>1, <2>4, <2>5
  <1>2. v = insertAt(w2, b, q, pos)
    OBVIOUS
  <1> HIDE DEF w1
  <1>3. /\ IsState(w2) /\ SamePools(w1, w2) /\ SameSums(w1, w2) /\ (w2.ok => w1.ok)
        /\ w2.status = w1.status /\ w2.stake = [w1.stake EXCEPT ![b] = s]
        /\ w2.totalStakes = w1.totalStakes - w1.stake[b] + s
        /\ w2.sortedTroves = w1.sortedTroves
        /\ w2.coll = w1.coll /\ w2.debt = w1.debt
        /\ w2.snapshotCollateral = w1.snapshotCollateral
        /\ w2.snapshotTHUSDDebt = w1.snapshotTHUSDDebt
    <2>1. IsState(w1)
      BY <1>1
    <2>2. Restaked(w1, w2, b, s)
      BY <2>1, StakeUpdated
    <2> HIDE DEF s, w2
    <2> QED
      BY <2>2 DEF Restaked
  <1> HIDE DEF w2, s
  <1>4. /\ IsState(v) /\ SamePools(w2, v) /\ SameSums(w2, v) /\ (v.ok => w2.ok)
        /\ v.status = w2.status /\ v.coll = w2.coll /\ v.debt = w2.debt
        /\ v.stake = w2.stake /\ v.totalStakes = w2.totalStakes
        /\ v.snapshotCollateral = w2.snapshotCollateral
        /\ v.snapshotTHUSDDebt = w2.snapshotTHUSDDebt
        /\ (ListOf(w2.sortedTroves, Open(w)) /\ v.ok =>
              ListOf(v.sortedTroves, Open(w) \cup {b}))
    <2>1. IsState(w2)
      BY <1>3
    <2> QED
      BY <1>0, <1>2, <2>1, InsertedAt
  <1>5. ASSUME v.ok
        PROVE  /\ Sound(v)
               /\ Leads(w, v, -d, -c, 0, -THUSD_GAS_COMPENSATION, 0, 0)
               /\ Rewrites(w, v, b, "active", d)
    <2>1. w.ok /\ Sound(w) /\ w.status[b] # "active" /\ c \in Nat /\ d \in Nat
      BY <1>1, <1>3, <1>4, <1>5 DEF Ready
    <2>2. TroveTypes(w) /\ TroveOf(w, b) /\ ListOf(w.sortedTroves, Open(w))
      BY <2>1 DEF Sound
    <2>3. w.coll[b] = 0 /\ w.debt[b] = 0 /\ w.coll[b] + c = c /\ w.debt[b] + d = d
      BY <2>1, <2>2 DEF TroveOf
    <2>4. s \in Nat
      <3>1. w1.coll[b] = c
        BY <1>1, <2>2, <2>3 DEF TroveTypes
      <3>2. w1.totalCollateralSnapshot \in Nat /\ w1.totalStakesSnapshot \in Nat
        BY <1>1, <2>2 DEF SameSums, TroveTypes
      <3> QED
        BY <2>1, <3>1, <3>2, StakeType DEF s
    <2>5. /\ SamePools(w, v) /\ SameSums(w, v)
      BY <1>1, <1>3, <1>4 DEF SamePools, SameSums
    <2>6. ListOf(v.sortedTroves, OpenWith(w, b, "active"))
      BY <1>1, <1>3, <1>4, <1>5, <2>2 DEF OpenWith
    <2>7. /\ v.status = [w.status EXCEPT ![b] = "active"]
          /\ v.snapshotCollateral = [w.snapshotCollateral EXCEPT ![b] = w.L_Collateral]
          /\ v.snapshotTHUSDDebt = [w.snapshotTHUSDDebt EXCEPT ![b] = w.L_THUSDDebt]
          /\ w.L_Collateral \in Nat /\ w.L_THUSDDebt \in Nat
      BY <1>1, <1>3, <1>4, <2>2 DEF TroveTypes
    <2>8. IF "active" = "active"
          THEN w.L_Collateral <= w.L_Collateral /\ w.L_THUSDDebt <= w.L_THUSDDebt
          ELSE c = 0 /\ d = 0 /\ s = 0
      BY <2>7
    <2>9. "active" \in Statuses
      BY DEF Statuses
    <2>10. /\ v.coll = [w.coll EXCEPT ![b] = c] /\ v.debt = [w.debt EXCEPT ![b] = d]
           /\ v.stake = [w.stake EXCEPT ![b] = s]
           /\ v.totalStakes = w.totalStakes - w.stake[b] + s
      BY <1>1, <1>3, <1>4, <2>3
    <2>11. Written(w, v, b, "active", c, d, s, w.L_Collateral, w.L_THUSDDebt)
      BY <1>4, <2>1, <2>4, <2>5, <2>6, <2>7, <2>8, <2>9, <2>10 DEF Written
    <2>12. /\ Sound(v)
           /\ DebtGap(v) = DebtGap(w) + w.debt[b] - d
           /\ CollGap(v) = CollGap(w) + w.coll[b] - c
           /\ SupplyGap(v) = SupplyGap(w)
           /\ ReserveGap(v) = ReserveGap(w) + ReserveDue(w, b, "active")
           /\ SurplusGap(v) = SurplusGap(w) /\ Pooled(v) = Pooled(w)
      BY <2>11, TroveWritten
    <2>13. /\ ReserveDue(w, b, "active") = -THUSD_GAS_COMPENSATION
           /\ THUSD_GAS_COMPENSATION \in Nat
      BY <2>1, BaseAssumption DEF ReserveDue
    <2>14. Rewrites(w, v, b, "active", d)
      BY <2>1, <2>11, WrittenRewrites
    <2>15. Leads(w, v, -d, -c, 0, -THUSD_GAS_COMPENSATION, 0, 0)
      BY <2>1, <2>3, <2>12, <2>13, GapTypes DEF Leads
    <2> QED
      BY <2>12, <2>14, <2>15
  <1>6. Ready(v) /\ Rewrites(w, v, b, "active", d)
    BY <1>4, <1>5 DEF Ready, Rewrites
  <1>7. Leads(w, v, -d, -c, 0, -THUSD_GAS_COMPENSATION, 0, 0)
    BY <1>5 DEF Leads
  <1> QED
    BY <1>6, <1>7

\* The base rate decays and stays a rate.
LEMMA DecayedRate ==
  ASSUME NEW w, Sound(w), NEW decay \in 0..DECIMAL_PRECISION
  PROVE  calcDecayedBaseRate(w, decay) \in 0..DECIMAL_PRECISION
  <1>1. /\ w.baseRate \in Nat /\ w.baseRate <= DECIMAL_PRECISION
        /\ DECIMAL_PRECISION \in Nat \ {0} /\ decay \in Nat /\ decay <= DECIMAL_PRECISION
    BY BaseAssumption DEF Sound, TroveTypes
  <1>2. w.baseRate * decay \in Nat
    BY <1>1, MulNat
  <1>3. w.baseRate * decay <= DECIMAL_PRECISION * decay
    BY <1>1, MulMono
  <1>4. decay * DECIMAL_PRECISION <= DECIMAL_PRECISION * DECIMAL_PRECISION
    BY <1>1, MulMono
  <1>5. DECIMAL_PRECISION * decay = decay * DECIMAL_PRECISION
    BY <1>1
  <1>6. w.baseRate * decay <= DECIMAL_PRECISION * DECIMAL_PRECISION
    BY <1>1, <1>2, <1>3, <1>4, <1>5
  <1>7. (w.baseRate * decay) \div DECIMAL_PRECISION <= DECIMAL_PRECISION
    BY <1>1, <1>2, <1>6, DivLeq
  <1>8. (w.baseRate * decay) \div DECIMAL_PRECISION \in Nat
    BY <1>1, <1>2, DivNat
  <1> QED
    BY <1>1, <1>7, <1>8 DEF calcDecayedBaseRate

\* v is w with another base rate.
Rated(w, v, rate) ==
  /\ IsState(v) /\ (v.ok => w.ok) /\ SamePools(w, v)
  /\ v.status = w.status /\ v.coll = w.coll /\ v.debt = w.debt /\ v.stake = w.stake
  /\ v.snapshotCollateral = w.snapshotCollateral
  /\ v.snapshotTHUSDDebt = w.snapshotTHUSDDebt
  /\ v.totalStakes = w.totalStakes /\ v.sortedTroves = w.sortedTroves
  /\ v.totalStakesSnapshot = w.totalStakesSnapshot
  /\ v.totalCollateralSnapshot = w.totalCollateralSnapshot
  /\ v.L_Collateral = w.L_Collateral /\ v.L_THUSDDebt = w.L_THUSDDebt
  /\ v.lastCollateralError_Redistribution = w.lastCollateralError_Redistribution
  /\ v.lastTHUSDDebtError_Redistribution = w.lastTHUSDDebtError_Redistribution
  /\ v.mintList = w.mintList /\ v.baseRate = rate

\* A new base rate changes no gap.
LEMMA LeadRated ==
  ASSUME NEW w, Ready(w), NEW v, NEW rate, Rated(w, v, rate),
         w.ok => rate \in 0..DECIMAL_PRECISION
  PROVE  Ready(v) /\ Leads(w, v, 0, 0, 0, 0, 0, 0)
  <1>1. ASSUME v.ok PROVE Sound(v) /\ Leads(w, v, 0, 0, 0, 0, 0, 0)
    <2>1. w.ok /\ Sound(w) /\ TroveTypes(w)
      BY <1>1 DEF Ready, Rated, Sound
    <2>2. /\ w.totalStakesSnapshot \in Nat /\ w.totalCollateralSnapshot \in Nat
          /\ w.L_Collateral \in Nat /\ w.L_THUSDDebt \in Nat
          /\ w.lastCollateralError_Redistribution \in Nat
          /\ w.lastTHUSDDebtError_Redistribution \in Nat /\ w.mintList \in BOOLEAN
          /\ w.L_Collateral <= w.L_Collateral /\ w.L_THUSDDebt <= w.L_THUSDDebt
      BY <2>1 DEF TroveTypes
    <2>3. /\ Sound(v)
          /\ DebtGap(v) = DebtGap(w) /\ CollGap(v) = CollGap(w)
          /\ SupplyGap(v) = SupplyGap(w) /\ ReserveGap(v) = ReserveGap(w)
          /\ SurplusGap(v) = SurplusGap(w) /\ Pooled(v) = Pooled(w)
      BY <2>1, <2>2, SumsWritten DEF Rated
    <2> QED
      BY <2>1, <2>3, GapTypes DEF Leads
  <1> QED
    BY <1>1 DEF Ready, Leads, Rated

\* _updateSystemSnapshots_excludeCollRemainder changes no gap.
LEMMA LeadSnapshots ==
  ASSUME NEW w, Ready(w), NEW a, w.ok => a \in Nat
  PROVE  /\ Ready(updateSystemSnapshots_excludeCollRemainder(w, a))
         /\ Leads(w, updateSystemSnapshots_excludeCollRemainder(w, a), 0, 0, 0, 0, 0, 0)
  <1> DEFINE v == updateSystemSnapshots_excludeCollRemainder(w, a)
             n == w.activePool.collateral - a + w.defaultPool.collateral
  <1>1. /\ IsState(v) /\ (v.ok => w.ok /\ a <= w.activePool.collateral) /\ SamePools(w, v)
        /\ v.totalStakesSnapshot = w.totalStakes /\ v.totalCollateralSnapshot = n
    BY DEF Ready, IsState, StateFields, updateSystemSnapshots_excludeCollRemainder, Require,
           SamePools
  <1>2. /\ v.status = w.status /\ v.coll = w.coll /\ v.debt = w.debt /\ v.stake = w.stake
        /\ v.snapshotCollateral = w.snapshotCollateral
        /\ v.snapshotTHUSDDebt = w.snapshotTHUSDDebt
        /\ v.totalStakes = w.totalStakes /\ v.sortedTroves = w.sortedTroves
        /\ v.L_Collateral = w.L_Collateral /\ v.L_THUSDDebt = w.L_THUSDDebt
        /\ v.lastCollateralError_Redistribution = w.lastCollateralError_Redistribution
        /\ v.lastTHUSDDebtError_Redistribution = w.lastTHUSDDebtError_Redistribution
        /\ v.mintList = w.mintList /\ v.baseRate = w.baseRate
    BY DEF Ready, IsState, StateFields, updateSystemSnapshots_excludeCollRemainder, Require
  <1> HIDE DEF v
  <1>3. ASSUME v.ok PROVE Sound(v) /\ Leads(w, v, 0, 0, 0, 0, 0, 0)
    <2>1. w.ok /\ Sound(w) /\ TroveTypes(w) /\ PoolTypes(w) /\ a \in Nat
      BY <1>1, <1>3 DEF Ready, Sound
    <2>2. w.activePool.collateral \in Nat /\ w.defaultPool.collateral \in Nat
      BY <2>1, PoolSums
    <2>3. n \in Nat
      BY <1>1, <1>3, <2>1, <2>2
    <2>4. /\ w.totalStakes \in Nat /\ w.baseRate \in 0..DECIMAL_PRECISION
          /\ w.L_Collateral \in Nat /\ w.L_THUSDDebt \in Nat
          /\ w.lastCollateralError_Redistribution \in Nat
          /\ w.lastTHUSDDebtError_Redistribution \in Nat /\ w.mintList \in BOOLEAN
          /\ w.L_Collateral <= w.L_Collateral /\ w.L_THUSDDebt <= w.L_THUSDDebt
      BY <2>1 DEF TroveTypes
    <2> HIDE DEF n
    <2>5. /\ v.totalStakesSnapshot \in Nat /\ v.totalCollateralSnapshot \in Nat
          /\ v.baseRate \in 0..DECIMAL_PRECISION
          /\ v.L_Collateral \in Nat /\ v.L_THUSDDebt \in Nat
          /\ v.lastCollateralError_Redistribution \in Nat
          /\ v.lastTHUSDDebtError_Redistribution \in Nat /\ v.mintList \in BOOLEAN
          /\ w.L_Collateral <= v.L_Collateral /\ w.L_THUSDDebt <= v.L_THUSDDebt
      BY <1>1, <1>2, <2>3, <2>4
    <2>6. /\ Sound(v)
          /\ DebtGap(v) = DebtGap(w) /\ CollGap(v) = CollGap(w)
          /\ SupplyGap(v) = SupplyGap(w) /\ ReserveGap(v) = ReserveGap(w)
          /\ SurplusGap(v) = SurplusGap(w) /\ Pooled(v) = Pooled(w)
      BY <1>1, <1>2, <2>1, <2>5, SumsWritten
    <2> QED
      BY <2>1, <2>6, GapTypes DEF Leads
  <1> QED
    BY <1>1, <1>3 DEF Ready, Leads, v

\* _redistributeDebtAndColl hands debt and collateral of the ActivePool to the DefaultPool,
\* and the sums per unit of stake do not fall.
LEMMA LeadRedistribute ==
  ASSUME NEW w, Ready(w), NEW a, NEW c, w.ok => a \in Nat /\ c \in Nat /\ (a = 0 => c = 0)
  PROVE  /\ Ready(redistributeDebtAndColl(w, a, c))
         /\ Leads(w, redistributeDebtAndColl(w, a, c), -a, -c, 0, 0, 0, 0)
  <1> DEFINE v == redistributeDebtAndColl(w, a, c)
             x == c * DECIMAL_PRECISION + w.lastCollateralError_Redistribution
             y == a * DECIMAL_PRECISION + w.lastTHUSDDebtError_Redistribution
             w1 == [w EXCEPT !.L_Collateral = @ + x \div w.totalStakes,
                             !.L_THUSDDebt = @ + y \div w.totalStakes,
                             !.lastCollateralError_Redistribution = x % w.totalStakes,
                             !.lastTHUSDDebtError_Redistribution = y % w.totalStakes]
             w2 == Emit(w1, [event |-> "LTermsUpdated", L_Collateral |-> w1.L_Collateral,
                             L_THUSDDebt |-> w1.L_THUSDDebt])
             w3 == activePoolDecreaseTHUSDDebt(w2, a)
             w4 == defaultPoolIncreaseTHUSDDebt(w3, a)
             w5 == activePoolSendCollateral(w4, defaultPoolAddress, c)
  <1>1. CASE a = 0
    <2>1. v = w
      BY <1>1 DEF redistributeDebtAndColl
    <2>2. Leads(w, w, -a, -c, 0, 0, 0, 0)
      BY <1>1, GapTypes DEF Leads, Ready
    <2> QED
      BY <2>1, <2>2
  <1>2. CASE a # 0 /\ w.totalStakes = 0
    <2>1. v = Require(w, FALSE)
      BY <1>2 DEF redistributeDebtAndColl
    <2> HIDE DEF v
    <2>2. IsState(v) /\ ~v.ok
      BY <2>1 DEF Ready, IsState, StateFields, Require
    <2> QED
      BY <2>2 DEF Ready, Leads, v
  <1>3. CASE a # 0 /\ w.totalStakes # 0
    <2>1. v = defaultPoolReceive(w5, c)
      BY <1>3 DEF redistributeDebtAndColl, emitLTermsUpdated
    <2>2. /\ IsState(w1) /\ w1.ok = w.ok /\ SamePools(w, w1)
          /\ w1.L_Collateral = w.L_Collateral + x \div w.totalStakes
          /\ w1.L_THUSDDebt = w.L_THUSDDebt + y \div w.totalStakes
          /\ w1.lastCollateralError_Redistribution = x % w.totalStakes
          /\ w1.lastTHUSDDebtError_Redistribution = y % w.totalStakes
      BY DEF Ready, IsState, StateFields, SamePools
    <2>3. /\ w1.status = w.status /\ w1.coll = w.coll /\ w1.debt = w.debt
          /\ w1.stake = w.stake
          /\ w1.snapshotCollateral = w.snapshotCollateral
          /\ w1.snapshotTHUSDDebt = w.snapshotTHUSDDebt
          /\ w1.totalStakes = w.totalStakes /\ w1.sortedTroves = w.sortedTroves
          /\ w1.totalStakesSnapshot = w.totalStakesSnapshot
          /\ w1.totalCollateralSnapshot = w.totalCollateralSnapshot
          /\ w1.mintList = w.mintList /\ w1.baseRate = w.baseRate
      BY DEF Ready, IsState, StateFields
    <2> HIDE DEF w1, v
    <2>4. ASSUME w.ok PROVE Sound(w1) /\ Leads(w, w1, 0, 0, 0, 0, 0, 0)
      <3>1. Sound(w) /\ TroveTypes(w) /\ a \in Nat /\ c \in Nat
        BY <2>4 DEF Ready, Sound
      <3>2. /\ w.totalStakes \in Nat \ {0}
            /\ w.lastCollateralError_Redistribution \in Nat
            /\ w.lastTHUSDDebtError_Redistribution \in Nat
            /\ w.L_Collateral \in Nat /\ w.L_THUSDDebt \in Nat
            /\ w.totalStakesSnapshot \in Nat /\ w.totalCollateralSnapshot \in Nat
            /\ w.baseRate \in 0..DECIMAL_PRECISION /\ w.mintList \in BOOLEAN
        BY <1>3, <3>1 DEF TroveTypes
      <3>3. DECIMAL_PRECISION \in Nat
        BY BaseAssumption
      <3>4. c * DECIMAL_PRECISION \in Nat /\ a * DECIMAL_PRECISION \in Nat
        BY <3>1, <3>3, MulNat
      <3>5. x \in Nat /\ y \in Nat
        BY <3>2, <3>4
      <3> HIDE DEF x, y
      <3>6. /\ x \div w.totalStakes \in Nat /\ y \div w.totalStakes \in Nat
        BY <3>2, <3>5, DivNat
      <3>7. x % w.totalStakes \in Nat /\ y % w.totalStakes \in Nat
        BY <3>2, <3>5
      <3>8. /\ w1.totalStakesSnapshot \in Nat /\ w1.totalCollateralSnapshot \in Nat
            /\ w1.baseRate \in 0..DECIMAL_PRECISION
            /\ w1.L_Collateral \in Nat /\ w1.L_THUSDDebt \in Nat
            /\ w1.lastCollateralError_Redistribution \in Nat
            /\ w1.lastTHUSDDebtError_Redistribution \in Nat /\ w1.mintList \in BOOLEAN
            /\ w.L_Collateral <= w1.L_Collateral /\ w.L_THUSDDebt <= w1.L_THUSDDebt
        BY <2>2, <2>3, <3>2, <3>6, <3>7
      <3>9. /\ Sound(w1)
            /\ DebtGap(w1) = DebtGap(w) /\ CollGap(w1) = CollGap(w)
            /\ SupplyGap(w1) = SupplyGap(w) /\ ReserveGap(w1) = ReserveGap(w)
            /\ SurplusGap(w1) = SurplusGap(w) /\ Pooled(w1) = Pooled(w)
        BY <2>2, <2>3, <3>1, <3>8, SumsWritten
      <3> QED
        BY <2>4, <3>1, <3>9, GapTypes DEF Leads
    <2>5. Ready(w1) /\ Leads(w, w1, 0, 0, 0, 0, 0, 0)
      BY <2>2, <2>4 DEF Ready, Leads
    <2>6. Ready(w2) /\ Leads(w1, w2, 0, 0, 0, 0, 0, 0)
      BY <2>5, LeadEmit
    <2> HIDE DEF w2
    <2>7. w2.ok => a \in Nat /\ c \in Nat
      BY <2>5, <2>6 DEF Leads
    <2>8. Ready(w3) /\ Leads(w2, w3, -a, 0, a, 0, 0, 0)
      BY <2>6, <2>7, LeadDecrease
    <2> HIDE DEF w3
    <2>9. w3.ok => a \in Nat /\ c \in Nat
      BY <2>7, <2>8 DEF Leads
    <2>10. Ready(w4) /\ Leads(w3, w4, 0, 0, -a, 0, 0, 0)
      BY <2>8, <2>9, LeadDefaultIncrease
    <2> HIDE DEF w4
    <2>11. w4.ok => a \in Nat /\ c \in Nat
      BY <2>9, <2>10 DEF Leads
    <2>12. Ready(w5) /\ Leads(w4, w5, 0, -c, 0, 0, 0, 0)
      BY <2>10, <2>11, LeadSend
    <2> HIDE DEF w5
    <2>13. w5.ok => a \in Nat /\ c \in Nat
      BY <2>11, <2>12 DEF Leads
    <2>14. Ready(v) /\ Leads(w5, v, 0, 0, 0, 0, 0, 0)
      BY <2>1, <2>12, <2>13, LeadDefaultReceive
    <2>15. Leads(w, v, -a, -c, 0, 0, 0, 0)
      <3> SUFFICES ASSUME v.ok PROVE Leads(w, v, -a, -c, 0, 0, 0, 0)
        BY DEF Leads
      <3>1. w5.ok /\ w4.ok /\ w3.ok /\ w2.ok /\ w1.ok /\ w.ok
        BY <2>5, <2>6, <2>8, <2>10, <2>12, <2>14 DEF Leads
      <3>2. Sound(w) /\ a \in Nat /\ c \in Nat
        BY <2>13, <3>1 DEF Ready
      <3> QED
        BY <2>5, <2>6, <2>8, <2>10, <2>12, <2>14, <3>1, <3>2, GapTypes DEF Leads
    <2> QED
      BY <2>14, <2>15 DEF v
  <1> QED
    BY <1>1, <1>2, <1>3

=============================================================================
