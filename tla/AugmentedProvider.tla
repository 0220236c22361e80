------------------------- MODULE AugmentedProvider --------------------------
(***************************************************************************)
(* WebSocketAugmented (providers): a provider that listens for blocks on a *)
(* web socket while it has one and on its own polling otherwise, and opens *)
(* a new socket 10 seconds after one was closed.  The store listens with   *)
(* on("block"), waitForTransaction with once("block").                     *)
(*                                                                         *)
(* Block numbers are left out: what matters is who is registered where     *)
(* when a block is announced.  Backend 0 is the provider's own polling,    *)
(* backend i the i-th socket.                                              *)
(***************************************************************************)
EXTENDS Integers, Sequences

CONSTANTS
  MaxOpens,           \* bound: sockets the application opens
  MaxCloses,          \* bound: sockets the other side closes
  MaxRegistrations    \* bound: registrations of _blockListener counted per backend

ASSUME AugAssumption == MaxRegistrations \in Nat \ {0}

VARIABLES
  sockets,            \* every WebSocketProvider made: its state, and whether its
                      \* onClose is still bound
  current,            \* _wsProvider: its number, 0 when undefined
  timers,             \* reconnection timers that run
  timerKnown,         \* _reconnectTimerId is one of them
  registered,         \* how often _blockListener is registered on each backend
  news,               \* external: the backends that have a block to announce
  blockListeners,     \* keys of _blockListeners: the store's, the waiter's
  scheduled,          \* _blockListenerScheduled
  storeTold,          \* history: the store's listener was called since it was added
  waiter,             \* where waitForTransaction is
  mined,              \* external: its transaction is in the chain
  socketWanted,       \* the application opened a socket and has not closed it
  opens, closes

augVars == <<sockets, current, timers, timerKnown, registered, news, blockListeners,
             scheduled, storeTold, waiter, mined, socketWanted, opens, closes>>
socketVars == <<sockets, current, timers, timerKnown, socketWanted, opens, closes>>
listenVars == <<blockListeners, scheduled, storeTold, waiter, mined>>

Backends == 0..Len(sockets)
Live(i) == IF i = 0 THEN TRUE ELSE sockets[i].state = "open"

AddRegistration(reg, b) == [reg EXCEPT ![b] = IF @ < MaxRegistrations THEN @ + 1 ELSE @]
DropRegistration(reg, b) == [reg EXCEPT ![b] = IF @ > 0 THEN @ - 1 ELSE 0]

\* _startBlockEvents and _stopBlockEvents act on the backend that is current.
StartBlockEvents(reg, ws) == AddRegistration(reg, ws)
StopBlockEvents(reg, ws) == DropRegistration(reg, ws)

\* _switchover, to socket ws or back to polling.
Switchover(reg, ws) ==
  IF blockListeners = {} THEN reg
  ELSE StartBlockEvents(IF ws # 0 THEN DropRegistration(reg, 0) ELSE reg, ws)

AugInit ==
  /\ sockets = <<>> /\ current = 0 /\ timers = 0 /\ timerKnown = FALSE
  /\ registered = [b \in 0..0 |-> 0] /\ news = {}
  /\ blockListeners = {} /\ scheduled = FALSE /\ storeTold = FALSE
  /\ waiter = "idle" /\ mined = FALSE
  /\ socketWanted = FALSE /\ opens = 0 /\ closes = 0

\* openWebSocket: a new socket becomes the current one; one that was current before
\* is left as it is.
OpenWebSocket ==
  LET ws == Len(sockets) + 1
  IN /\ sockets' = Append(sockets, [state |-> "connecting", onClose |-> TRUE])
     /\ current' = ws
     /\ registered' = Switchover([b \in 0..ws |-> IF b = ws THEN 0 ELSE registered[b]], ws)

\* The frontend opens a socket for its connections.
AppOpen ==
  /\ ~socketWanted /\ opens < MaxOpens
  /\ OpenWebSocket
  /\ socketWanted' = TRUE /\ opens' = opens + 1
  /\ UNCHANGED <<timers, timerKnown, news, listenVars, closes>>

\* closeWebSocket, with what it finds in sockets: without a current socket it does
\* nothing, and leaves a timer running.
CloseWebSocket(socks) ==
  IF current = 0 THEN sockets' = socks /\ UNCHANGED <<current, timers, timerKnown, registered>>
  ELSE /\ sockets' = [socks EXCEPT ![current] = [state |-> "closed", onClose |-> FALSE]]
       /\ current' = 0
       /\ registered' = Switchover([registered EXCEPT ![current] = 0], 0)
       /\ timers' = IF timerKnown THEN timers - 1 ELSE timers
       /\ timerKnown' = FALSE

AppClose ==
  /\ socketWanted
  /\ CloseWebSocket(sockets)
  /\ socketWanted' = FALSE
  /\ news' = news \ {current}
  /\ UNCHANGED <<listenVars, opens, closes>>

SocketOpens(i) ==
  /\ sockets[i].state = "connecting"
  /\ sockets' = [sockets EXCEPT ![i].state = "open"]
  /\ UNCHANGED <<current, timers, timerKnown, registered, news, listenVars, socketWanted, opens, closes>>

\* The other side closes socket i: _onWebSocketClose closes the current socket, which
\* may be another one, and sets a timer.
SocketCloses(i) ==
  /\ closes < MaxCloses /\ sockets[i].onClose
  /\ closes' = closes + 1
  /\ LET socks == [sockets EXCEPT ![i] = [state |-> "closed", onClose |-> FALSE]]
     IN IF current = 0
        THEN /\ sockets' = socks /\ timers' = timers + 1
             /\ UNCHANGED <<current, registered>>
        ELSE /\ sockets' = [socks EXCEPT ![current] = [state |-> "closed", onClose |-> FALSE]]
             /\ current' = 0
             /\ registered' = Switchover([registered EXCEPT ![current] = 0], 0)
             /\ timers' = (IF timerKnown THEN timers - 1 ELSE timers) + 1
  /\ timerKnown' = TRUE
  /\ news' = news \ {i, current}
  /\ UNCHANGED <<listenVars, socketWanted, opens>>

\* The oldest reconnection timer fires; _reconnectTimerId is the youngest.
Reconnect ==
  /\ timers > 0
  /\ timers' = timers - 1
  /\ timerKnown' = (timerKnown /\ timers > 1)
  /\ OpenWebSocket
  /\ UNCHANGED <<news, listenVars, socketWanted, opens, closes>>

\* External: a block is mined, perhaps with the transaction.  The polling announces
\* it whenever it runs next, a socket only if it was subscribed.
MineBlock ==
  /\ \E tx \in BOOLEAN : mined' = (mined \/ tx)
  /\ news' = {b \in Backends : b = 0 \/ (Live(b) /\ registered[b] > 0)}
  /\ UNCHANGED <<socketVars, registered, blockListeners, scheduled, storeTold, waiter>>

\* A backend announces its block: _onBlock.
OnBlock(b) ==
  /\ b \in news /\ Live(b) /\ registered[b] > 0
  /\ news' = news \ {b}
  /\ scheduled' = TRUE
  /\ UNCHANGED <<socketVars, registered, blockListeners, storeTold, waiter, mined>>

\* Faulty variant: a listener that removes itself ends the round of calls.
CallListeners_FirstOnly ==
  /\ scheduled
  /\ scheduled' = FALSE
  /\ storeTold' = (storeTold \/ blockListeners = {"store"})
  /\ waiter' = IF "waiter" \in blockListeners THEN "reading" ELSE waiter
  /\ blockListeners' = blockListeners \ {"waiter"}
  /\ UNCHANGED <<socketVars, registered, news, mined>>

\* The 50 ms timer of _onBlock: every listener is called, the waiter's removes itself
\* without stopping the block events.
CallListeners ==
  /\ scheduled
  /\ scheduled' = FALSE
  /\ storeTold' = (storeTold \/ "store" \in blockListeners)
  /\ waiter' = IF "waiter" \in blockListeners THEN "reading" ELSE waiter
  /\ blockListeners' = blockListeners \ {"waiter"}
  /\ UNCHANGED <<socketVars, registered, news, mined>>

AddBlockListener(key) ==
  /\ blockListeners' = blockListeners \cup {key}
  /\ registered' = IF blockListeners = {} THEN StartBlockEvents(registered, current)
                   ELSE registered

\* on("block") and off("block"), by the store.
On ==
  /\ "store" \notin blockListeners
  /\ AddBlockListener("store")
  /\ storeTold' = FALSE
  /\ UNCHANGED <<socketVars, news, scheduled, waiter, mined>>

Off ==
  /\ "store" \in blockListeners
  /\ blockListeners' = blockListeners \ {"store"}
  /\ registered' = IF blockListeners' = {} THEN StopBlockEvents(registered, current)
                   ELSE registered
  /\ UNCHANGED <<socketVars, news, scheduled, storeTold, waiter, mined>>

\* waitForTransaction: it reads a receipt, and without one registers once("block").
WaitForTransaction ==
  /\ waiter = "idle"
  /\ waiter' = "reading"
  /\ UNCHANGED <<socketVars, registered, news, blockListeners, scheduled, storeTold, mined>>

\* A node that is up to date has the receipt once the transaction is mined.
ReceiptFound ==
  /\ waiter = "reading" /\ mined
  /\ waiter' = "done"
  /\ UNCHANGED <<socketVars, registered, news, blockListeners, scheduled, storeTold, mined>>

\* No receipt yet, or a node that lags behind the block it was asked for; that block
\* itself does not hold the transaction.
NoReceipt ==
  /\ waiter = "reading"
  /\ waiter' = "listening"
  /\ AddBlockListener("waiter")
  /\ UNCHANGED <<socketVars, news, scheduled, storeTold, mined>>

Announcements == \E b \in Backends : OnBlock(b)
SomeSocketOpens == \E i \in DOMAIN sockets : SocketOpens(i)

AugNext ==
  \/ AppOpen \/ AppClose
  \/ SomeSocketOpens
  \/ \E i \in DOMAIN sockets : SocketCloses(i)
  \/ Reconnect
  \/ MineBlock
  \/ Announcements
  \/ CallListeners
  \/ On \/ Off
  \/ WaitForTransaction \/ ReceiptFound \/ NoReceipt

AugSpec == AugInit /\ [][AugNext]_augVars

-----------------------------------------------------------------------------
(* Properties *)

\* While anybody listens for blocks, _blockListener is registered on the backend in
\* use, whatever sequence of opening, losing and reopening sockets and of adding,
\* removing and self-removing listeners came before (_switchover, _addBlockListener,
\* _removeBlockListener, passOnce).
ListenersAreFed == blockListeners # {} => registered[current] > 0

\* An application that wants a socket has one or a timer that will open one; a socket
\* that was leaked by an earlier reconnection does not break this when it is closed.
SocketOrTimer == socketWanted => current # 0 \/ timers > 0

\* A store that keeps listening is told of a block, across every change of backend.
StoreIsTold == "store" \in blockListeners ~> (storeTold \/ "store" \notin blockListeners)

\* A transaction that is mined is noticed by waitForTransaction, though nodes lag and
\* the block that holds it may go unannounced when the backend changes.
WaitEnds == (waiter # "idle" /\ mined) ~> waiter = "done"

-----------------------------------------------------------------------------
(***************************************************************************)
(* Reads of WebSocketAugmented (providers) through a load balancer: each   *)
(* request may reach another node, and nodes lag behind the chain and      *)
(* forget old states.  A read at the block that was seen last is repeated  *)
(* until a node knows that block, a receipt that is missing is compared    *)
(* with the block that should hold it, and a transaction is looked up on   *)
(* both backends at once.                                                  *)
(***************************************************************************)

CONSTANTS
  Nodes,       \* external: the nodes behind the balancer
  KeptStates,  \* external: a node answers for its newest KeptStates blocks
  MaxChain     \* bound: blocks of the chain

VARIABLES
  chainHead, nodeHead,   \* external: the newest block, and the newest each node knows
  seenBlock,             \* _seenBlock
  read,                  \* a call or getBalance
  txBlock,               \* external: the block that holds the transaction, 0 if none
  wait,                  \* waitForTransaction and _getTransactionReceiptFromLatest
  lookup                 \* getTransaction

nodeVars == <<chainHead, nodeHead, seenBlock, read, txBlock, wait, lookup>>
chainVars == <<chainHead, nodeHead, txBlock>>

NotSeen == 0
NoRead == [at |-> "idle", tag |-> 0, starting |-> NotSeen]
NoLookup == [base |-> "absent", socket |-> "absent", result |-> "none"]

NodeReadsInit ==
  /\ chainHead = 1 /\ nodeHead = [n \in Nodes |-> 1] /\ seenBlock = 1
  /\ read = NoRead
  /\ txBlock = 0 /\ wait = [at |-> "idle", latest |-> 0]
  /\ lookup = NoLookup

MineOnChain ==
  /\ chainHead < MaxChain
  /\ chainHead' = chainHead + 1
  /\ txBlock' \in IF txBlock = 0 THEN {0, chainHead + 1} ELSE {txBlock}
  /\ UNCHANGED <<nodeHead, seenBlock, read, wait, lookup>>

NodeSyncs(n) ==
  /\ nodeHead[n] < chainHead
  /\ nodeHead' = [nodeHead EXCEPT ![n] = @ + 1]
  /\ UNCHANGED <<chainHead, txBlock, seenBlock, read, wait, lookup>>

\* _onBlock, and the listeners it calls.  Two backends do not announce in one order, so
\* the number may go back.  A waitForTransaction that listens asks again.
Announce(n) ==
  /\ seenBlock # nodeHead[n]
  /\ seenBlock' = nodeHead[n]
  /\ wait' = IF wait.at = "listening" THEN [at |-> "asking", latest |-> seenBlock'] ELSE wait
  /\ UNCHANGED <<chainVars, read, lookup>>

-----------------------------------------------------------------------------
(* call and getBalance. *)

CallAt(tag) ==
  /\ read.at = "idle"
  /\ read' = [at |-> "asking", tag |-> tag,
              starting |-> IF tag = seenBlock THEN seenBlock ELSE NotSeen]
  /\ UNCHANGED <<chainVars, seenBlock, wait, lookup>>

\* isHeaderNotFoundError: the node does not know the block yet, or no longer its state.
HeaderNotFound(n, tag) == nodeHead[n] < tag \/ nodeHead[n] - tag >= KeptStates

\* Faulty variant: a read is repeated though newer blocks were seen.
retrySeenBlock_Stubborn(n) ==
  IF ~HeaderNotFound(n, read.tag) THEN "answered"
  ELSE IF read.starting = NotSeen THEN "failed" ELSE "delaying"

\* What follows node n's answer.
retrySeenBlock(n) ==
  IF ~HeaderNotFound(n, read.tag) THEN "answered"
  ELSE IF read.starting = NotSeen \/ seenBlock # read.starting THEN "failed" ELSE "delaying"

Perform(n) ==
  /\ read.at = "asking"
  /\ read' = [read EXCEPT !.at = retrySeenBlock(n)]
  /\ UNCHANGED <<chainVars, seenBlock, wait, lookup>>

\* Any other error ends the read.
PerformFails ==
  /\ read.at = "asking"
  /\ read' = [read EXCEPT !.at = "failed"]
  /\ UNCHANGED <<chainVars, seenBlock, wait, lookup>>

ReadDelayEnds ==
  /\ read.at = "delaying"
  /\ read' = [read EXCEPT !.at = "asking"]
  /\ UNCHANGED <<chainVars, seenBlock, wait, lookup>>

ReadReturns ==
  /\ read.at \in {"answered", "failed"}
  /\ read' = NoRead
  /\ UNCHANGED <<chainVars, seenBlock, wait, lookup>>

-----------------------------------------------------------------------------
(* waitForTransaction.  Its first question names no block (latest is 0). *)

StartWait ==
  /\ wait.at = "idle"
  /\ wait' = [at |-> "asking", latest |-> 0]
  /\ UNCHANGED <<chainVars, seenBlock, read, lookup>>

\* getTransactionReceipt, answered by node n.  Block number and confirmations of a
\* receipt add up to the head of the node that gave it.
ReceiptAnswer(n) ==
  LET has == txBlock # 0 /\ txBlock <= nodeHead[n]
  IN /\ wait.at = "asking"
     /\ wait' = [wait EXCEPT !.at =
                   CASE has /\ nodeHead[n] >= wait.latest -> "found"
                     [] has /\ nodeHead[n] < wait.latest  -> "delaying"
                     [] ~has /\ wait.latest = 0           -> "listening"
                     [] ~has /\ wait.latest # 0           -> "checking"]
     /\ UNCHANGED <<chainVars, seenBlock, read, lookup>>

\* _blockContainsTx asks until a node knows the block.
blockKnown(n) == nodeHead[n] >= wait.latest
blockContainsTx(n) == nodeHead[n] >= wait.latest /\ txBlock = wait.latest

CheckBlock(n) ==
  /\ wait.at = "checking"
  /\ blockKnown(n)
  /\ wait' = [wait EXCEPT !.at = IF blockContainsTx(n) THEN "delaying" ELSE "listening"]
  /\ UNCHANGED <<chainVars, seenBlock, read, lookup>>

ReceiptDelayEnds ==
  /\ wait.at = "delaying"
  /\ wait' = [wait EXCEPT !.at = "asking"]
  /\ UNCHANGED <<chainVars, seenBlock, read, lookup>>

-----------------------------------------------------------------------------
(* getTransaction: both backends are asked, the socket's if it is ready. *)

GetTransaction(ready) ==
  /\ lookup = NoLookup
  /\ lookup' = [base |-> "waiting", socket |-> IF ready THEN "waiting" ELSE "absent",
                result |-> "waiting"]
  /\ UNCHANGED <<chainVars, seenBlock, read, wait>>

\* Promise.race, and Promise.all when the first answer was null.
raceResult(answer, other) ==
  IF lookup.result # "waiting" THEN lookup.result
  ELSE IF answer = "null" /\ other = "waiting" THEN "waiting" ELSE answer

TransactionAnswer(backend, answer) ==
  LET other == lookup[IF backend = "base" THEN "socket" ELSE "base"]
  IN /\ lookup[backend] = "waiting"
     /\ lookup' = [lookup EXCEPT ![backend] = answer, !.result = raceResult(answer, other)]
     /\ UNCHANGED <<chainVars, seenBlock, read, wait>>

-----------------------------------------------------------------------------
ChainSteps == MineOnChain \/ \E n \in Nodes : NodeSyncs(n) \/ Announce(n)

ReadSteps == (\E n \in Nodes : Perform(n)) \/ ReadDelayEnds

ReadNext == ChainSteps \/ ReadSteps \/ PerformFails \/ ReadReturns \/ \E tag \in 1..chainHead : CallAt(tag)

WaitNext ==
  \/ ChainSteps
  \/ StartWait \/ ReceiptDelayEnds
  \/ \E n \in Nodes : ReceiptAnswer(n) \/ CheckBlock(n)

LookupNext ==
  \/ \E ready \in BOOLEAN : GetTransaction(ready)
  \/ \E backend \in {"base", "socket"}, answer \in {"null", "tx", "error"} :
       TransactionAnswer(backend, answer)

WaitSpec == NodeReadsInit /\ [][WaitNext]_nodeVars
LookupSpec == NodeReadsInit /\ [][LookupNext]_nodeVars

\* Nodes catch up, and the newest block is announced once one of them knows it.
SomeNodeSyncs == \E n \in Nodes : NodeSyncs(n)
NewestIsAnnounced == \E n \in Nodes : nodeHead[n] = chainHead /\ Announce(n)

-----------------------------------------------------------------------------
(* Properties *)

\* A read at the block that was seen last is answered or fails: the glitches are waited
\* out, and a block that every node has forgotten is not asked for for ever, as newer
\* ones are seen (_retrySeenBlock).
RepeatedReadsEnd == read.at \in {"asking", "delaying"} ~> read.at \in {"answered", "failed"}

\* waitForTransaction goes on listening after a block only if that block does not hold
\* the transaction, though the receipt and the block came from different nodes
\* (_getTransactionReceiptFromLatest, _blockContainsTx).
ReceiptIsNotOverlooked == wait.at = "listening" /\ wait.latest # 0 => txBlock # wait.latest

\* getTransaction says that there is no transaction only if every backend it asked said so,
\* in whichever order they answered.
NoBackendHasIt ==
  lookup.result = "null" => lookup.base = "null" /\ lookup.socket \in {"null", "absent"}

-----------------------------------------------------------------------------
\* Blocks are heard through every loss of a socket: there is one socket or a timer for the
\* next, listeners are registered where blocks are announced, the store is told and a
\* mined transaction is noticed.
BlocksAreHeard ==
  /\ []ListenersAreFed
  /\ []SocketOrTimer
  /\ StoreIsTold
  /\ WaitEnds

\* Nodes that lag are outwaited: reads end, a receipt is not overlooked, and a
\* transaction is called unknown only when neither backend has it.
LaggingNodesAreOutwaited ==
  /\ RepeatedReadsEnd
  /\ []ReceiptIsNotOverlooked
  /\ []NoBackendHasIt

-----------------------------------------------------------------------------
(***************************************************************************)
(* Batched (providers): calls for the same block are gathered for 10 ms    *)
(* and sent as one aggregate call of the Multicall contract, which reverts *)
(* as a whole when one of them does.  A call for another block, or one     *)
(* that cannot be batched, is sent on its own.                             *)
(***************************************************************************)

CONSTANTS
  BatchCalls,     \* the calls that are made, each once
  Unbatchable,    \* those with a gas limit, a gas price or a value
  Reverting,      \* those that revert
  Tags            \* the blocks they ask for

VARIABLES
  multicall,      \* _multicall is set, see chainId
  requests,       \* each call: what it asks for, where it is and its answer
  batched,        \* _batched
  batchTimer,     \* the timer of _enqueueCall runs
  dispatched      \* batches whose aggregate call is not answered

batchVars == <<multicall, requests, batched, batchTimer, dispatched>>

emptyBatch == [calls |-> <<>>, tag |-> "none"]
NoAnswer == <<"none">>
Answered == {"resolved", "rejected"}

\* External: what the node answers for call c at block tag.
Returned(c, tag) == <<c, tag>>

BatchInit ==
  /\ multicall = FALSE
  /\ requests = [c \in BatchCalls |-> [stage |-> "none", tag |-> "none", answer |-> NoAnswer]]
  /\ batched = emptyBatch /\ batchTimer = FALSE /\ dispatched = {}

\* The setter of chainId, for a chain that has the Multicall contract.
SetChainId ==
  /\ ~multicall
  /\ multicall' = TRUE
  /\ UNCHANGED <<requests, batched, batchTimer, dispatched>>

\* call: without Multicall it goes to the base class at once, otherwise its
\* properties are awaited.
MakeCall(c, tag) ==
  /\ requests[c].stage = "none"
  /\ requests' = [requests EXCEPT ![c].stage = IF multicall THEN "resolving" ELSE "direct",
                                  ![c].tag = tag]
  /\ UNCHANGED <<multicall, batched, batchTimer, dispatched>>

\* _alreadyBatchedCallsConflictWith
ConflictsWithBatch(tag) == batched.calls # <<>> /\ tag # batched.tag

\* _enqueueCall: the timer is set anew.
EnqueueCall(c) ==
  /\ batched' = [calls |-> Append(batched.calls, c),
                 tag |-> IF batched.calls = <<>> THEN requests[c].tag ELSE batched.tag]
  /\ batchTimer' = TRUE

\* The rest of call, once the properties are resolved: the batch is looked at then.
CallResolved(c) ==
  /\ requests[c].stage = "resolving"
  /\ IF c \in Unbatchable \/ ConflictsWithBatch(requests[c].tag)
     THEN /\ requests' = [requests EXCEPT ![c].stage = "direct"]
          /\ UNCHANGED <<batched, batchTimer>>
     ELSE /\ requests' = [requests EXCEPT ![c].stage = "batched"]
          /\ EnqueueCall(c)
  /\ UNCHANGED <<multicall, dispatched>>

\* _dispatchCalls, up to its await: the batch is taken and a new one begun.
DispatchCalls ==
  /\ batchTimer
  /\ batchTimer' = FALSE
  /\ dispatched' = dispatched \cup {batched}
  /\ batched' = emptyBatch
  /\ UNCHANGED <<multicall, requests>>

Settle(c, reverts, answer) ==
  [requests[c] EXCEPT !.stage = IF reverts THEN "rejected" ELSE "resolved",
                      !.answer = IF reverts THEN NoAnswer ELSE answer]

\* Faulty variant: an error of the aggregate call is not passed on.
BatchAnswered_ErrorLost(b) ==
  /\ dispatched' = dispatched \ {b}
  /\ requests' = [c \in BatchCalls |->
       IF (\E i \in DOMAIN b.calls : b.calls[i] = c)
            /\ (\A i \in DOMAIN b.calls : b.calls[i] \notin Reverting)
       THEN Settle(c, FALSE, Returned(c, b.tag))
       ELSE requests[c]]
  /\ UNCHANGED <<multicall, batched, batchTimer>>

\* The answer to a batch: the i-th result goes to the i-th callback, an error to all.
BatchAnswered(b) ==
  LET reverts == \E i \in DOMAIN b.calls : b.calls[i] \in Reverting
      results == [i \in DOMAIN b.calls |-> Returned(b.calls[i], b.tag)]
  IN /\ dispatched' = dispatched \ {b}
     /\ requests' = [c \in BatchCalls |->
          IF \E i \in DOMAIN b.calls : b.calls[i] = c
          THEN Settle(c, reverts, results[CHOOSE i \in DOMAIN b.calls : b.calls[i] = c])
          ELSE requests[c]]
     /\ UNCHANGED <<multicall, batched, batchTimer>>

DirectAnswered(c) ==
  /\ requests[c].stage = "direct"
  /\ requests' = [requests EXCEPT ![c] = Settle(c, c \in Reverting, Returned(c, requests[c].tag))]
  /\ UNCHANGED <<multicall, batched, batchTimer, dispatched>>

BatchSteps ==
  \/ DispatchCalls
  \/ \E c \in BatchCalls : CallResolved(c) \/ DirectAnswered(c)
  \/ \E b \in dispatched : BatchAnswered(b)

BatchNext == SetChainId \/ BatchSteps \/ \E c \in BatchCalls, tag \in Tags : MakeCall(c, tag)

BatchSpec == BatchInit /\ [][BatchNext]_batchVars

-----------------------------------------------------------------------------
(* Properties *)

\* Batching is invisible in the answers: a call that is resolved has its own result at
\* the block it asked for, however calls for two blocks interleave with the timer
\* (_alreadyBatchedCallsConflictWith is checked after an await).
AnswersBelongToTheirCalls ==
  \A c \in BatchCalls : requests[c].stage = "resolved" =>
    requests[c].answer = Returned(c, requests[c].tag) /\ c \notin Reverting

\* Every call that is made is answered: none is left in a batch that has no timer, and
\* a batch that fails rejects all of its calls.
CallsAreAnswered ==
  <>[](\A c \in BatchCalls : requests[c].stage # "none" => requests[c].stage \in Answered)

\* Calls that travel together are all answered, each with its own answer.
BatchesAreAnswered == []AnswersBelongToTheirCalls /\ CallsAreAnswered

=============================================================================
