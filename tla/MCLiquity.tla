----------------------------- MODULE MCLiquity -----------------------------
(***************************************************************************)
(* Instances of Liquity for TLC.  MCSpec starts after every user has       *)
(* opened a trove, so that the bound on calls is spent on what follows.    *)
(***************************************************************************)
EXTENDS ClientProperties

CONSTANT FirstTroves   \* user -> <<collateral, THUSD>> of the first trove

\* The storage after the users 1, 2, ... have opened their troves at price 1,
\* each at the first place in the list that fits.
OpenedSystem ==
  LET open(w, u) ==
        LET at(pos) == openTrove(fetchPrice(w, DECIMAL_PRECISION), u, FirstTroves[u][2], FirstTroves[u][1], pos,
                         DECIMAL_PRECISION, DECIMAL_PRECISION, "active",
                         DECIMAL_PRECISION)
        IN  at(CHOOSE pos \in Positions : at(pos).ok)
      w[u \in 0..NumUsers] == IF u = 0 THEN InitSystem ELSE open(w[u-1], u)
  IN  w[NumUsers]

MCInit ==
  /\ system = [OpenedSystem EXCEPT !.events = <<>>]
  /\ subgraph = index(InitSubgraph, OpenedSystem.events)
  /\ price \in Prices
  /\ feedStatus \in FeedStatuses
  /\ calls = [users |-> MaxCalls, feed |-> PriceChanges,
              governance |-> MintListChanges]
  /\ SPInit

MCSpec == MCInit /\ [][Next]_vars

\* Changes of a trove in both directions.
MCUpAndDown == {-100, 0, 100}

\* No trove is open (Spec).
MCNoTroves == <<>>

\* One trove can be redeemed in part, the others only in full.
MCRedeemable == <<<<900, 300>>, <<400, 180>>, <<310, 180>>>>

\* At the lower prices the second trove is above, the third below the
\* minimum ratio, with and without Recovery Mode.
MCMixedTroves == <<<<900, 180>>, <<400, 180>>, <<310, 180>>>>

\* The first trove can take over the second and still be liquidated.
MCTwoTroves == <<<<600, 180>>, <<310, 180>>>>

=============================================================================
