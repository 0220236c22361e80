-------------------------------- MODULE BAMM --------------------------------
(***************************************************************************)
(* The BAMM: holders of shares own a deposit in the Stability Pool         *)
(* together.  Collateral that the deposit earns is sold for THUSD, which   *)
(* is deposited again.                                                     *)
(*                                                                         *)
(* Of the Stability Pool only what it answers to this depositor is kept:   *)
(* the compounded deposit, the collateral gain, and whether a deposit is   *)
(* recorded.  Liquidations lower the first and raise the second.           *)
(***************************************************************************)
EXTENDS Integers, FiniteSets, Functions

-----------------------------------------------------------------------------
(***************************************************************************)
(* The curve by which the BAMM sells collateral.  Both roots are found by  *)
(* iteration in whole numbers, at most 255 times and until two successive  *)
(* values differ by at most 1.                                             *)
(***************************************************************************)

MaxIterations == 255

Near(a, b) == a <= b + 1 /\ b <= a + 1

\* A call that reverts has no result.
Reverted == -1

\* The invariant of the curve for the balances x and y.
getSumFixedPoint(x, y, amp) ==
  LET next(sum) ==
        LET dP == (((sum * sum) \div (x * 2 + 1)) * sum) \div (y * 2 + 1)
        IN  ((amp * 2 * (x + y) + dP * 2) * sum) \div ((amp * 2 - 1) * sum + dP * 3)
      iterate[i \in 1..MaxIterations, sum \in Nat] ==
        IF i = MaxIterations \/ Near(next(sum), sum)
        THEN next(sum)
        ELSE iterate[i + 1, next(sum)]
  IN  IF x = 0 /\ y = 0 THEN 0 ELSE iterate[1, x + y]

\* What the curve gives for xQty; the checked subtractions revert.
getReturn(xQty, xBalance, yBalance, amp) ==
  LET sum == getSumFixedPoint(xBalance, yBalance, amp)
      c == (((sum * sum) \div ((xQty + xBalance) * 2)) * sum) \div (amp * 4)
      b == xQty + xBalance + sum \div (amp * 2)
      iterate[i \in 1..MaxIterations, y \in Nat] ==
        LET d == y * 2 + b - sum
            next == (y * y + c) \div d
        IN  IF d <= 0
            THEN yBalance + 1
            ELSE IF i = MaxIterations \/ Near(next, y) THEN next ELSE iterate[i + 1, next]
      y == iterate[1, sum]
  IN  IF xQty + xBalance = 0 \/ y + 1 > yBalance THEN Reverted ELSE yBalance - y - 1

-----------------------------------------------------------------------------
(* The fund *)

CONSTANTS
  Holders,
  VirtualShares,      \* 1e8, the shares that exist from the start
  PRECISION,          \* 1e18, one dollar and one unit of collateral
  MIN_A, MAX_A, MAX_FEE,
  maxDiscount,        \* in basis points
  Amplifications,     \* values of A that the owner may ask for
  Fees,               \* fees, in basis points, that the owner may ask for
  Prices,             \* answers of priceAggregator, 0 when it is down
  THUSDPrices,        \* answers of thusd2UsdPriceAggregator; PRECISION without one
  Amounts,            \* THUSD amounts of deposits and swaps
  Losses, Gains,      \* what a liquidation takes from the deposit and adds
  Gifts,              \* collateral sent to the contract
  MaxCalls            \* bound on the steps

ASSUME BammAssumption ==
  /\ VirtualShares \in Nat \ {0} /\ PRECISION \in Nat \ {0}
  /\ MIN_A \in Nat \ {0} /\ MAX_A \in Nat /\ MAX_FEE \in 0..10000
  /\ MIN_A <= MAX_A /\ maxDiscount \in 0..10000
  /\ Amplifications \subseteq Nat /\ Fees \subseteq Nat
  /\ Prices \subseteq Nat /\ THUSDPrices \subseteq Nat
  /\ Amounts \subseteq Nat /\ Losses \subseteq Nat /\ Gains \subseteq Nat
  /\ Gifts \subseteq Nat /\ MaxCalls \in Nat

VARIABLES
  total, stake,       \* shares
  collateralHeld,     \* the contract's own collateral
  pool,               \* its deposit in the Stability Pool
  price,              \* what fetchPrice answers
  params,             \* A and fee
  calls

bammVars == <<total, stake, collateralHeld, pool, price, params, calls>>

BammInit ==
  /\ total = 0
  /\ stake = [u \in Holders |-> 0]
  /\ collateralHeld = 0
  /\ pool = [recorded |-> FALSE, deposit |-> 0, gain |-> 0]
  /\ price \in Prices
  /\ params = [A |-> MIN_A, fee |-> 0]
  /\ calls = 0

-----------------------------------------------------------------------------
(* Shares and amounts. *)

toShares(amount, totalShares, totalAmount) ==
  LET share == (amount * (totalShares + VirtualShares)) \div (totalAmount + 1)
  IN  IF (share * (totalAmount + 1)) \div (totalShares + VirtualShares) < amount
      THEN share + 1
      ELSE share

toAmount(share, totalShares, totalAmount, roundUp) ==
  LET amount == (share * (totalAmount + 1)) \div (totalShares + VirtualShares)
  IN  IF roundUp /\ (amount * (totalShares + VirtualShares)) \div (totalAmount + 1) < share
      THEN amount + 1
      ELSE amount

getCollateralBalance == collateralHeld + pool.gain

totalValue == pool.deposit + (getCollateralBalance * price) \div PRECISION

\* StabilityPool.provideToSP and withdrawFromSP for this depositor: both pay
\* out the gain, and a deposit of nothing is no deposit.
provideToSP(amount) ==
  /\ amount > 0
  /\ pool' = [recorded |-> TRUE, deposit |-> pool.deposit + amount, gain |-> 0]

withdrawFromSP(amount, noUnsafeTroves) ==
  /\ amount # 0 => noUnsafeTroves
  /\ pool.recorded
  /\ LET left == IF amount < pool.deposit THEN pool.deposit - amount ELSE 0
     IN  pool' = [recorded |-> left > 0, deposit |-> left, gain |-> 0]

Call == calls < MaxCalls /\ calls' = calls + 1

-----------------------------------------------------------------------------
deposit(u, thusdAmount) ==
  LET newShare == toShares(thusdAmount, total, totalValue)
  IN  /\ Call
      /\ getCollateralBalance = 0 \/ price > 0
      /\ totalValue > 0 \/ total = 0
      /\ provideToSP(thusdAmount)
      /\ collateralHeld' = getCollateralBalance
      /\ total' = total + newShare
      /\ stake' = [stake EXCEPT ![u] = @ + newShare]
      /\ UNCHANGED <<price, params>>

\* Faulty variant: the collateral is counted after the shares are gone.
withdraw_SharesGone(u, numShares, noUnsafeTroves) ==
  LET thusdAmount == toAmount(numShares, total, pool.deposit, TRUE)
      collateralAmount == toAmount(numShares, total - numShares, getCollateralBalance, FALSE)
  IN  /\ Call
      /\ withdrawFromSP(thusdAmount, noUnsafeTroves)
      /\ numShares <= stake[u]
      /\ total' = total - numShares
      /\ stake' = [stake EXCEPT ![u] = @ - numShares]
      /\ thusdAmount <= pool.deposit
      /\ collateralAmount <= getCollateralBalance
      /\ collateralHeld' = getCollateralBalance - collateralAmount
      /\ UNCHANGED <<price, params>>

\* The THUSD that is paid out is what came from the Stability Pool: the
\* contract holds no other.
withdraw(u, numShares, noUnsafeTroves) ==
  LET thusdAmount == toAmount(numShares, total, pool.deposit, TRUE)
      collateralAmount == toAmount(numShares, total, getCollateralBalance, FALSE)
  IN  /\ Call
      /\ withdrawFromSP(thusdAmount, noUnsafeTroves)
      /\ numShares <= stake[u]
      /\ total' = total - numShares
      /\ stake' = [stake EXCEPT ![u] = @ - numShares]
      /\ thusdAmount <= pool.deposit
      /\ collateralAmount <= getCollateralBalance
      /\ collateralHeld' = getCollateralBalance - collateralAmount
      /\ UNCHANGED <<price, params>>

-----------------------------------------------------------------------------
(* Selling collateral. *)

addBps(n, bps) == (n * (10000 + bps)) \div 10000

compensateForTHUSDDeviation(collateralAmount, thusdPrice) ==
  IF thusdPrice > PRECISION
  THEN (collateralAmount * thusdPrice) \div PRECISION
  ELSE collateralAmount

Lesser(a, b) == IF a <= b THEN a ELSE b

\* Faulty variant: what makes up for an expensive THUSD comes on top of the
\* maximal discount.
getSwapCollateralAmount_CapFirst(thusdQty, thusdPrice) ==
  LET usdValue == (getCollateralBalance * price) \div PRECISION
      maxReturn == addBps((thusdQty * PRECISION) \div price, maxDiscount)
      usdReturn == getReturn(thusdQty, pool.deposit, pool.deposit + usdValue * 2, params.A)
      basicReturn == Lesser(maxReturn, (usdReturn * PRECISION) \div price)
  IN  IF price = 0
      THEN 0
      ELSE IF usdReturn = Reverted
           THEN Reverted
           ELSE Lesser(getCollateralBalance,
                       compensateForTHUSDDeviation(basicReturn, thusdPrice))

getSwapCollateralAmount(thusdQty, thusdPrice) ==
  LET usdValue == (getCollateralBalance * price) \div PRECISION
      maxReturn == addBps((thusdQty * PRECISION) \div price, maxDiscount)
      usdReturn == getReturn(thusdQty, pool.deposit, pool.deposit + usdValue * 2, params.A)
      basicReturn == compensateForTHUSDDeviation((usdReturn * PRECISION) \div price, thusdPrice)
  IN  IF price = 0
      THEN 0
      ELSE IF usdReturn = Reverted
           THEN Reverted
           ELSE Lesser(maxReturn, Lesser(getCollateralBalance, basicReturn))

feeTHUSDAmount(thusdQty) ==
  IF price = 0 THEN 0 ELSE addBps(thusdQty, params.fee) - thusdQty

\* trade is a swap that asks for no minimum.
swap(thusdAmount, minCollateralReturn, thusdPrice) ==
  LET collateralAmount == getSwapCollateralAmount(thusdAmount, thusdPrice)
  IN  /\ Call
      /\ collateralAmount \in Nat   \* not Reverted
      /\ collateralAmount >= minCollateralReturn
      /\ provideToSP(thusdAmount - feeTHUSDAmount(thusdAmount))
      /\ collateralAmount <= getCollateralBalance   \* sendCollateral
      /\ collateralHeld' = getCollateralBalance - collateralAmount
      /\ UNCHANGED <<total, stake, price, params>>

setParams(newA, newFee) ==
  /\ Call
  /\ newFee <= MAX_FEE
  /\ newA >= MIN_A /\ newA <= MAX_A
  /\ params' = [A |-> newA, fee |-> newFee]
  /\ UNCHANGED <<total, stake, collateralHeld, pool, price>>

-----------------------------------------------------------------------------
(* The surroundings. *)

\* A liquidation takes THUSD from the deposit and gives collateral.
offset(loss, gain) ==
  /\ Call
  /\ pool.deposit > 0 /\ loss \in 1..pool.deposit
  /\ pool' = [pool EXCEPT !.deposit = @ - loss, !.gain = @ + gain]
  /\ UNCHANGED <<total, stake, collateralHeld, price, params>>

receive(amount) ==
  /\ Call
  /\ collateralHeld' = collateralHeld + amount
  /\ UNCHANGED <<total, stake, pool, price, params>>

fetchPrice(newPrice) ==
  /\ Call
  /\ price' = newPrice
  /\ UNCHANGED <<total, stake, collateralHeld, pool, params>>

\* Share amounts worth trying: none, one, half, all, one too many.
ShareChoices(u) == {0, 1, stake[u] \div 2, stake[u], stake[u] + 1}

BammNext ==
  \/ \E u \in Holders, amount \in Amounts : deposit(u, amount)
  \/ \E u \in Holders : \E n \in ShareChoices(u), safe \in BOOLEAN : withdraw(u, n, safe)
  \/ \E amount \in Amounts, least \in {0, 1}, thusdPrice \in THUSDPrices :
       swap(amount, least, thusdPrice)
  \/ \E newA \in Amplifications, newFee \in Fees : setParams(newA, newFee)
  \/ \E loss \in Losses \cup {pool.deposit}, gain \in Gains : offset(loss, gain)
  \/ \E amount \in Gifts : receive(amount)
  \/ \E newPrice \in Prices : fetchPrice(newPrice)

BammSpec == BammInit /\ [][BammNext]_bammVars

-----------------------------------------------------------------------------
(* Properties. *)

\* The contract's books: shares add up, the deposit is recorded while it is
\* positive, parameters are within their limits.
BammTypeOK ==
  /\ stake \in [Holders -> Nat]
  /\ total = FoldFunction(+, 0, stake)
  /\ collateralHeld \in Nat
  /\ pool \in [recorded : BOOLEAN, deposit : Nat, gain : Nat]
  /\ pool.deposit > 0 => pool.recorded
  /\ params.A \in MIN_A..MAX_A /\ params.fee \in 0..MAX_FEE

\* What u's shares are worth, the virtual shares counted.
ClaimValue(u) == (stake[u] * (totalValue + 1)) \div (total + VirtualShares)

\* One share, one unit of collateral, and three units of THUSD for what is rounded.
Dust == (totalValue + 1) \div (total + VirtualShares) + price \div PRECISION + 3

\* Shares are rounded up for whoever deposits and THUSD for whoever withdraws,
\* and the virtual unit counts once as THUSD and once as collateral: it costs
\* anybody else at most a share, a unit of collateral and the rounding (deposit,
\* withdraw, _toShares, _toAmount).
OthersKeepTheirPart ==
  [][\A u \in Holders :
       total' # total /\ stake'[u] = stake[u] =>
         ClaimValue(u)' >= ClaimValue(u) - Dust]_bammVars

\* A swap lowers the value of the fund by at most the discount and the fee on
\* what the buyer pays, and one unit, however expensive THUSD is (swap,
\* getSwapCollateralAmount).
SwapsCostAtMostTheDiscount ==
  [][\A amount \in Amounts, least \in {0, 1}, thusdPrice \in THUSDPrices :
       swap(amount, least, thusdPrice) =>
         totalValue' + (amount * (maxDiscount + MAX_FEE)) \div 10000 + 1 >= totalValue]_bammVars

\* While there is collateral to sell, the curve has a price for every amount:
\* its iterations neither underflow nor divide by zero (getReturn).
SwapsStayPossible ==
  getCollateralBalance * price >= PRECISION =>
    \A amount \in Amounts \ {0}, thusdPrice \in THUSDPrices :
      getSwapCollateralAmount(amount, thusdPrice) # Reverted

\* As the test of BAMMTest.js has it: a holder withdraws everything.
HoldersCanWithdrawEverything ==
  \A u \in Holders :
    stake[u] > 0 /\ pool.recorded =>
      toAmount(stake[u], total, pool.deposit, TRUE) <= pool.deposit

-----------------------------------------------------------------------------
(***************************************************************************)
(* What lib-ethers makes of the BAMM: a holder's part of the fund, and the *)
(* shares that a withdrawal of an amount in dollars takes.  The client     *)
(* divides by the shares in circulation, the contract also counts the      *)
(* virtual ones, and both round at every division.  The price feed that    *)
(* the client asks is taken to agree with the contract's aggregator.       *)
(***************************************************************************)

CONSTANT nativeCollateral   \* the collateral is the chain's own currency

ASSUME ClientAssumption == nativeCollateral \in BOOLEAN

\* A part of the fund, and what it is worth.
BammDeposit(currentTHUSD, collateralGain) ==
  [currentTHUSD |-> currentTHUSD, collateralGain |-> collateralGain,
   currentUSD |-> currentTHUSD + (collateralGain * price) \div PRECISION]

\* The balance that is read is that of the chain's currency, whatever the collateral.
getBammDeposit(u) ==
  LET collateral == (IF nativeCollateral THEN collateralHeld ELSE 0) + pool.gain
  IN IF total > 0
     THEN BammDeposit((stake[u] * pool.deposit) \div total, (stake[u] * collateral) \div total)
     ELSE BammDeposit(0, 0)

NoShares == -1   \* a division by zero gives Decimal.INFINITY, which is no number of shares

\* amount * stake / currentUSD, with the rounding of Decimal's mul and div.
getWithdrawsSpShare(u, amount) ==
  LET currentUSD == getBammDeposit(u).currentUSD
  IN IF currentUSD = 0 THEN NoShares
     ELSE (((stake[u] * amount) \div PRECISION) * PRECISION) \div currentUSD

-----------------------------------------------------------------------------
\* What withdraw pays for n shares, in dollars.
PaidFor(n) ==
  toAmount(n, total, pool.deposit, TRUE)
    + (toAmount(n, total, getCollateralBalance, FALSE) * price) \div PRECISION

\* Units that the rounding of THUSD and of collateral may add on either side.
WithdrawalDust == 2 * (price \div PRECISION + 2)

\* The shares that rounding may lose, in dollars.
LostShares(usd) == ((PRECISION \div usd + 2) * (totalValue + 1)) \div (total + VirtualShares) + 1

\* A holder who withdraws an amount he is shown to have needs no more than his shares,
\* and is paid that amount: at most the dust more, and less only by the part of the
\* virtual shares and by what rounding loses, whatever deposits, swaps and liquidations
\* came before (getWithdrawsSpShare, getBammDeposit, BAMM.withdraw).
WithdrawalsAreWorthTheAmount ==
  \A u \in Holders, amount \in Amounts :
    LET usd  == getBammDeposit(u).currentUSD
        n    == getWithdrawsSpShare(u, amount)
        paid == PaidFor(n)
    IN nativeCollateral /\ price > 0 /\ usd > 0 /\ amount <= usd =>
         /\ n \in 0..stake[u]
         /\ paid <= amount + WithdrawalDust
         /\ paid + WithdrawalDust + LostShares(usd) >= (amount * total) \div (total + VirtualShares)

\* Every holder gets the own part: deposits and withdrawals of others cost at most dust,
\* and the shares the client computes for an amount are worth it.
HoldersGetTheirPart == OthersKeepTheirPart /\ []WithdrawalsAreWorthTheAmount

\* Collateral can always be bought, and for no less than the discounts and fees allow,
\* whatever the balances, prices and parameters (getSwapCollateralAmount, swap).
SwapsAreSound ==
  /\ []BammTypeOK
  /\ []SwapsStayPossible
  /\ SwapsCostAtMostTheDiscount

=============================================================================
