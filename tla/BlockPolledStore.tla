-------------------------- MODULE BlockPolledStore --------------------------
(***************************************************************************)
(* LiquityStore (lib-base) and BlockPolledLiquityStore (lib-ethers): the   *)
(* client's copy of the protocol's state.  Every block event starts an     *)
(* asynchronous fetch of the whole state at that block; answers arrive in  *)
(* any order, and after the polling was stopped too.  Readers are served   *)
(* from the copy when the block they ask for is the store's own.           *)
(*                                                                         *)
(* A block holds four values that stand for the kinds of fields the store  *)
(* keeps: a trove before redistribution (with the balances, prices and     *)
(* totals that are fetched the same way), the redistributed total it is    *)
(* combined with, the mint list (with the symbol, the addresses and the    *)
(* contract flags), and the deposit with the BAMM (with the PCV's balance  *)
(* and the BAMM's allowance), which the store sets to zero unread.         *)
(***************************************************************************)
EXTENDS Integers, Sequences, FiniteSets

CONSTANTS
  Subscribers,        \* listeners of the store
  MaxHeight,          \* bound: the last block
  MaxStarts,          \* bound: calls of start
  MaxFetches,         \* bound: fetches in flight
  MaxFailedFetches    \* bound: fetches that are rejected

ASSUME HeightAssumption == MaxHeight \in Nat \ {0}

VARIABLES
  blocks,       \* external: the chain, the state after each of its blocks
  loaded,       \* _loaded
  baseState, derivedState,
  storeTag,     \* _extraState.blockTag, NoTag when undefined
  updateTimer,  \* the 30 second timer of _scheduleUpdate is armed
  polls,        \* for each call of start, what it still listens to
  fetches,      \* calls of _get that are not answered
  listeners,    \* _listeners
  notifying,    \* the copy _notify still has to go through
  informed,     \* the listeners that were told, or read, the state as it is
  newest,       \* history: the newest block the store ever showed
  failedFetches

stateVars == <<loaded, baseState, derivedState, storeTag>>
storeVars == <<blocks, loaded, baseState, derivedState, storeTag, updateTimer, polls,
               fetches, listeners, notifying, informed, newest, failedFetches>>

NoTag == 0
NotLoaded == [none |-> TRUE]
Height == Len(blocks)
Fields == {"trove", "redistributed", "mintList", "bammDeposit"}
Frozen == {"mintList"}           \* kept as they were loaded
Unread == {"bammDeposit"}        \* zero in the store, whatever the chain holds
Fetched == Fields \ Unread
Tracked == Fetched \ Frozen

\* External: what one block may change.  A liquidation redistributes, and the BAMM's
\* depositors share in it.
Successors(b) ==
  {[b EXCEPT !.trove = 1 - @], [b EXCEPT !.mintList = ~@]}
    \cup {[b EXCEPT !.redistributed = 1, !.bammDeposit = 1]}

\* What _get(tag) resolves with: every field is a read of its own, but for the ones
\* that are Decimal.ZERO.  A read with a tag is of that block; a read without one is of
\* the block that is the latest when it is made, any block between the call and the
\* answer.
Get(f, at) ==
  [k \in Fields |-> IF k \in Unread THEN 0 ELSE blocks[IF f.tag = NoTag THEN at[k] ELSE f.tag][k]]

\* _reduce: every field but the frozen ones takes the new value.
Reduce(base, update) == [k \in Fields |-> IF k \in Frozen THEN base[k] ELSE update[k]]

\* _derive: the trove with what was redistributed to it, and whether a trove is
\* undercollateralized, from the base state alone.
Derive(base) ==
  [trove |-> base.trove + base.redistributed,
   haveUndercollateralizedTroves |-> base.trove + base.redistributed > 1]

\* _reduceExtra keeps the tag when the update has none.
ReduceTag(tag, update) == IF update = NoTag THEN tag ELSE update

StoreState == [base |-> baseState, derived |-> derivedState, tag |-> storeTag]
NextState == [base |-> baseState', derived |-> derivedState', tag |-> storeTag']

StoreInit ==
  /\ blocks = <<[trove |-> 0, redistributed |-> 0, mintList |-> FALSE, bammDeposit |-> 0]>>
  /\ loaded = FALSE /\ baseState = NotLoaded /\ derivedState = NotLoaded /\ storeTag = NoTag
  /\ updateTimer = FALSE
  /\ polls = <<>> /\ fetches = {}
  /\ listeners = {} /\ notifying = {} /\ informed = {}
  /\ newest = NoTag /\ failedFetches = 0

\* External: the chain grows.
Mine ==
  /\ Height < MaxHeight
  /\ \E b \in Successors(blocks[Height]) : blocks' = Append(blocks, b)
  /\ UNCHANGED <<stateVars, updateTimer, polls, fetches, listeners, notifying, informed,
                 newest, failedFetches>>

Fetch(session, tag) ==
  [session |-> session, tag |-> tag, since |-> IF tag = NoTag THEN Height ELSE tag]

\* start: a first fetch of the latest state, and a listener for block events.
Start ==
  /\ notifying = {} /\ Len(polls) < MaxStarts
  /\ polls' = Append(polls, [listening |-> TRUE, heard |-> NoTag])
  /\ fetches' = fetches \cup {Fetch(Len(polls) + 1, NoTag)}
  /\ UNCHANGED <<blocks, stateVars, updateTimer, listeners, notifying, informed, newest,
                 failedFetches>>

\* The function start returned: no more block events, no timer.  A fetch in flight
\* is not abandoned.
Stop(i) ==
  /\ notifying = {} /\ polls[i].listening
  /\ polls' = [polls EXCEPT ![i].listening = FALSE]
  /\ updateTimer' = FALSE
  /\ UNCHANGED <<blocks, stateVars, fetches, listeners, notifying, informed, newest,
                 failedFetches>>

\* The provider reports the latest block it has seen; it may skip some.
BlockEvent(i, tag) ==
  /\ notifying = {} /\ polls[i].listening /\ tag > polls[i].heard
  /\ polls' = [polls EXCEPT ![i].heard = tag]
  /\ fetches' = fetches \cup {Fetch(i, tag)}
  /\ UNCHANGED <<blocks, stateVars, updateTimer, listeners, notifying, informed, newest,
                 failedFetches>>

\* _load: no listener is told.
Load(update, tag) ==
  /\ loaded' = TRUE /\ baseState' = update /\ derivedState' = Derive(update) /\ storeTag' = tag
  /\ updateTimer' = TRUE
  /\ newest' = tag
  /\ UNCHANGED <<notifying, informed>>

\* _update with a state to apply: the timer starts again, listeners are told.
Update(update, tag) ==
  /\ baseState' = Reduce(baseState, update)
  /\ derivedState' = Derive(baseState')
  /\ storeTag' = ReduceTag(storeTag, tag)
  /\ updateTimer' = TRUE
  /\ notifying' = listeners
  /\ newest' = IF tag > newest THEN tag ELSE newest
  /\ informed' = IF NextState = StoreState THEN informed ELSE {}
  /\ UNCHANGED loaded

\* Faulty variant: only the first answer counts.
Answer_FirstOnly(f) ==
  /\ notifying = {}
  /\ fetches' = fetches \ {f}
  /\ \E at \in [Fetched -> f.since..Height] :
       IF ~loaded THEN Load(Get(f, at), f.tag)
       ELSE UNCHANGED <<stateVars, updateTimer, notifying, informed, newest>>
  /\ UNCHANGED <<blocks, polls, listeners, failedFetches>>

\* A fetch is answered: the first one of start only loads, one of a block event
\* loads or updates.
Answer(f) ==
  /\ notifying = {}
  /\ fetches' = fetches \ {f}
  /\ \E at \in [Fetched -> f.since..Height] :
       IF ~loaded THEN Load(Get(f, at), f.tag)
       ELSE IF f.tag # NoTag THEN Update(Get(f, at), f.tag)
       ELSE UNCHANGED <<stateVars, updateTimer, notifying, informed, newest>>
  /\ UNCHANGED <<blocks, polls, listeners, failedFetches>>

\* A fetch is rejected: nobody handles it.
FetchFails(f) ==
  /\ notifying = {} /\ failedFetches < MaxFailedFetches
  /\ fetches' = fetches \ {f}
  /\ failedFetches' = failedFetches + 1
  /\ UNCHANGED <<blocks, stateVars, updateTimer, polls, listeners, notifying, informed, newest>>

\* The timer: _update() without a state, which derives again from the same base.
UpdateTimeout ==
  /\ notifying = {} /\ updateTimer
  /\ derivedState' = Derive(baseState)
  /\ notifying' = listeners
  /\ informed' = IF derivedState' = derivedState THEN informed ELSE {}
  /\ UNCHANGED <<blocks, loaded, baseState, storeTag, updateTimer, polls, fetches, listeners,
                 newest, failedFetches>>

\* _notify calls the next listener of its copy, unless an earlier callback removed
\* it.  A callback may subscribe or unsubscribe listeners.
Notify(s) ==
  /\ s \in notifying
  /\ notifying' = notifying \ {s}
  /\ IF s \in listeners
     THEN \E after \in {listeners} \cup {listeners \cup {n} : n \in Subscribers}
                       \cup {listeners \ {n} : n \in Subscribers} :
            /\ listeners' = after
            /\ informed' = after \cap (informed \cup {s} \cup (after \ listeners))
     ELSE UNCHANGED <<listeners, informed>>
  /\ UNCHANGED <<blocks, stateVars, updateTimer, polls, fetches, newest, failedFetches>>

\* A component subscribes when it is shown, which is after the store was loaded,
\* and has read the state by then.
Subscribe(s) ==
  /\ notifying = {} /\ loaded /\ s \notin listeners
  /\ listeners' = listeners \cup {s}
  /\ informed' = informed \cup {s}
  /\ UNCHANGED <<blocks, stateVars, updateTimer, polls, fetches, notifying, newest,
                 failedFetches>>

Unsubscribe(s) ==
  /\ notifying = {} /\ s \in listeners
  /\ listeners' = listeners \ {s}
  /\ informed' = informed \ {s}
  /\ UNCHANGED <<blocks, stateVars, updateTimer, polls, fetches, notifying, newest,
                 failedFetches>>

BlockEvents ==
  /\ Cardinality(fetches) < MaxFetches
  /\ \E i \in DOMAIN polls : \E tag \in 1..Height : BlockEvent(i, tag)

Answers == \E f \in fetches : Answer(f)
Notifications == \E s \in Subscribers : Notify(s)

StoreNext ==
  \/ Mine
  \/ Start
  \/ \E i \in DOMAIN polls : Stop(i)
  \/ BlockEvents
  \/ Answers
  \/ \E f \in fetches : FetchFails(f)
  \/ UpdateTimeout
  \/ Notifications
  \/ \E s \in Subscribers : Subscribe(s) \/ Unsubscribe(s)

StoreSpec == StoreInit /\ [][StoreNext]_storeVars

-----------------------------------------------------------------------------
(* ReadableEthersLiquity with a store: its reads are in the next section.  *)

BlockHit(tag) == tag = NoTag \/ tag = storeTag

-----------------------------------------------------------------------------
(* Properties *)

StoreTypeOK ==
  /\ loaded \in BOOLEAN /\ updateTimer \in BOOLEAN
  /\ Height \in 1..MaxHeight /\ storeTag \in 0..Height
  /\ loaded <=> baseState # NotLoaded
  /\ loaded => DOMAIN baseState = Fields
  /\ \A f \in fetches : f.session \in DOMAIN polls /\ f.tag \in 0..Height /\ f.since <= Height
  /\ listeners \subseteq Subscribers /\ notifying \subseteq Subscribers

\* Between two turns of the event loop every subscriber has been told the state the
\* store holds, whatever the callbacks before it subscribed or unsubscribed
\* (LiquityStore._notify).
SubscribersAreUpToDate ==
  notifying = {} => listeners \subseteq informed

\* Once blocks stop, every polling store shows the last block it heard of, unless a
\* fetch was rejected or the answer for an older block came after the answer for a
\* newer one and replaced it (BlockPolledLiquityStore._doStart has no guard
\* against that).
StoreCatchesUp ==
  <>[](\/ failedFetches > 0
       \/ storeTag < newest
       \/ \A i \in DOMAIN polls :
            /\ loaded
            /\ polls[i].listening => storeTag >= polls[i].heard)

-----------------------------------------------------------------------------
(***************************************************************************)
(* The reads of EthersLiquity when it has a store.  Each one is answered   *)
(* from the store or passed on to the node; which, depends on the block    *)
(* and on the address it is asked for.  A read stands for the field of     *)
(* BlockPolledStore that is fetched the way it is.                         *)
(***************************************************************************)

\* ReadableEthersLiquity: reads about one user, whose address may be given, and about all.
readsOfUser ==
  {"getTroveBeforeRedistribution", "getTrove", "getStabilityDeposit", "getBammDeposit",
   "getTHUSDBalance", "getErc20TokenBalance", "getErc20TokenAllowance",
   "getCollateralSurplusBalance"}
readsOfAll ==
  {"getTotalRedistributed", "getNumberOfTroves", "getPrice", "getTotal", "getSymbol",
   "getCollateralAddress", "getStableAddress", "getTHUSDInStabilityPool", "getPCVBalance",
   "isStabilityPools", "isBorrowerOperations", "isTroveManager", "checkMintList", "getTroves",
   "getFees", "getBammAllowance"}

\* How a read is served: from the store on a hit of the user or of the block, or never;
\* the field it stands for; and whether the node is asked for the block that was
\* asked for or, as getBalance of a native coin is, for its latest.
Served(hit, field) == [hit |-> hit, field |-> field, node |-> "tagged"]
Latest(r) == [r EXCEPT !.node = "latest"]

troveReads ==
  [getTotalRedistributed |-> Served("block", "redistributed"),
   getTroveBeforeRedistribution |-> Served("user", "trove"),
   getTrove |-> Served("user", "derived trove"),
   getNumberOfTroves |-> Served("block", "trove")]
systemReads ==
  [getPrice |-> Served("block", "trove"), getMarketPrice |-> Served("never", "trove"),
   getRedemptionRate |-> Served("never", "trove"), getDeviationFactor |-> Served("never", "trove"),
   getTotal |-> Served("block", "trove")]
identityReads ==
  [getSymbol |-> Served("block", "mintList"), getCollateralAddress |-> Served("block", "mintList"),
   getStableAddress |-> Served("never", "mintList")]
depositReads ==
  [getBammDeposit |-> Latest(Served("user", "bammDeposit")), getStabilityDeposit |-> Served("user", "trove"),
   getTHUSDInStabilityPool |-> Served("block", "trove")]
accountReads ==
  [getPCVBalance |-> Served("block", "bammDeposit"), getTHUSDBalance |-> Served("user", "trove"),
   getErc20TokenBalance |-> Latest(Served("user", "trove")),
   getErc20TokenAllowance |-> Served("user", "trove"),
   isStabilityPools |-> Served("block", "mintList"), isBorrowerOperations |-> Served("block", "mintList"),
   isTroveManager |-> Served("block", "mintList"), checkMintList |-> Served("block", "mintList"),
   getCollateralSurplusBalance |-> Served("user", "trove")]
listAndFeeReads ==
  [getTroves |-> Served("never", "trove"), getFees |-> Served("block", "trove"),
   getBammAllowance |-> Served("block", "bammDeposit")]

Together(f, g) == [name \in DOMAIN f \union DOMAIN g |-> IF name \in DOMAIN f THEN f[name] ELSE g[name]]

storedReads ==
  Together(Together(Together(troveReads, systemReads), Together(identityReads, depositReads)),
           Together(accountReads, listAndFeeReads))

Me == "userAddress"          \* the address of the connection
Addresses == {"undefined", Me, "another"}

\* _userHit: the store holds what belongs to the connection's own address.
UserHit(address, tag) == BlockHit(tag) /\ address \in {"undefined", Me}

Hit(r, address, tag) ==
  \/ r.hit = "block" /\ BlockHit(tag)
  \/ r.hit = "user" /\ UserHit(address, tag)

FieldOf(base, derived, field) == IF field = "derived trove" THEN derived.trove ELSE base[field]

\* A read, as EthersLiquity passes it on: whose value it answers with, and the value.
\* A missing address is the connection's (_requireAddress).
Read(name, address, tag) ==
  LET r == storedReads[name]
      b == blocks[IF r.node = "latest" THEN Height ELSE tag]
  IN IF Hit(r, address, tag)
     THEN [of |-> Me, is |-> FieldOf(baseState, derivedState, r.field)]
     ELSE [of |-> IF address = "undefined" THEN Me ELSE address, is |-> FieldOf(b, Derive(b), r.field)]

\* A read of a user's state answers for the address it was asked for, and every read
\* with the value of the block it was asked for, whatever block the store is at when
\* it is asked.  Three kinds of reads are left out, as they are not: of what the store
\* keeps as it was loaded; of the PCV's balance, the BAMM's deposit and its allowance
\* when the store serves them, which is with zero; and the two reads that ask the node
\* for its latest balance (_BlockPolledReadableEthersLiquity, _userHit).
ReadsAnswerTheQuestion ==
  loaded => \A name \in readsOfUser \union readsOfAll, tag \in 1..Height :
    LET askable == IF name \in readsOfUser THEN Addresses ELSE {Me}
        r == storedReads[name]
    IN \A address \in askable :
         LET answer == Read(name, address, tag)
         IN /\ answer.of = IF address = "undefined" THEN Me ELSE address
            /\ \/ r.field \in Frozen
               \/ r.field \in Unread /\ Hit(r, address, tag)
               \/ r.node = "latest" /\ tag # Height
               \/ answer.is = FieldOf(blocks[tag], Derive(blocks[tag]), r.field)

-----------------------------------------------------------------------------
\* The store serves its readers: reads are answered for the block and user they ask for
\* (but for the exceptions above), subscribers know the state it holds, and in the end that
\* is the state of the newest block it heard of.
StoreServesItsReaders ==
  /\ []StoreTypeOK
  /\ []ReadsAnswerTheQuestion
  /\ []SubscribersAreUpToDate
  /\ StoreCatchesUp

=============================================================================
