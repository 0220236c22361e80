--------------------------- MODULE TroveRegistry ---------------------------
(***************************************************************************)
(* The two registers of open troves: the doubly linked list of             *)
(* SortedTroves, whose callers give hints computed off-chain, and the      *)
(* array TroveOwners of TroveManager.  Ratios are looked up when they are  *)
(* needed and may have changed since a trove was put in its place.         *)
(***************************************************************************)
EXTENDS Integers, Sequences, FiniteSets, TLC

CONSTANTS
  Ids,        \* borrowers
  NoId,       \* address(0)
  Ratios,     \* nominal ratios of open troves
  NoRatio,    \* 2**256 - 1, the nominal ratio of an account without debt
  maxSize     \* of the list

ASSUME RegistryAssumption ==
  /\ NoId \notin Ids /\ IsFiniteSet(Ids)
  /\ Ratios \subseteq Nat \ {0} /\ NoRatio \in Nat /\ \A r \in Ratios : r < NoRatio
  /\ maxSize \in Nat \ {0}

VARIABLES
  data,          \* SortedTroves.data
  TroveOwners,
  arrayIndex,    \* Troves[b].arrayIndex
  NICR           \* what TroveManager.getNominalICR answers

regVars == <<data, TroveOwners, arrayIndex, NICR>>

EmptyNode == [exists |-> FALSE, nextId |-> NoId, prevId |-> NoId]

RegInit ==
  /\ data = [head |-> NoId, tail |-> NoId, size |-> 0,
             nodes |-> [b \in Ids \cup {NoId} |-> EmptyNode]]
  /\ TroveOwners = <<>>
  /\ arrayIndex = [b \in Ids |-> 0]
  /\ NICR = [b \in Ids |-> NoRatio]

\* address(0) has no debt.
getNominalICR(b) == IF b = NoId THEN NoRatio ELSE NICR[b]

contains(d, b) == d.nodes[b].exists

-----------------------------------------------------------------------------
(* Finding a place.  A place is a pair of neighbours, NoId where there is  *)
(* none.                                                                   *)

validPlace(d, r, prevId, nextId) ==
  CASE prevId = NoId /\ nextId = NoId -> d.size = 0
    [] prevId = NoId /\ nextId # NoId -> d.head = nextId /\ r >= getNominalICR(nextId)
    [] prevId # NoId /\ nextId = NoId -> d.tail = prevId /\ r <= getNominalICR(prevId)
    [] OTHER -> /\ d.nodes[prevId].nextId = nextId
                /\ getNominalICR(prevId) >= r
                /\ r >= getNominalICR(nextId)

\* No walk over a list without a cycle is longer.
LongestWalk == Cardinality(Ids) + 1

\* Faulty variant: it is not asked whether the place is before the head.
descendList_NotHead(d, r, startId) ==
  LET place[k \in 0..LongestWalk] ==
        IF k = 0
        THEN <<startId, d.nodes[startId].nextId>>
        ELSE LET p == place[k-1]
             IN  IF p[1] = NoId \/ validPlace(d, r, p[1], p[2])
                 THEN p
                 ELSE <<d.nodes[p[1]].nextId, d.nodes[d.nodes[p[1]].nextId].nextId>>
  IN  place[LongestWalk]

\* From startId towards smaller ratios.
descendList(d, r, startId) ==
  LET place[k \in 0..LongestWalk] ==
        IF k = 0
        THEN <<startId, d.nodes[startId].nextId>>
        ELSE LET p == place[k-1]
             IN  IF p[1] = NoId \/ validPlace(d, r, p[1], p[2])
                 THEN p
                 ELSE <<d.nodes[p[1]].nextId, d.nodes[d.nodes[p[1]].nextId].nextId>>
  IN  IF d.head = startId /\ r >= getNominalICR(startId)
      THEN <<NoId, startId>>
      ELSE place[LongestWalk]

\* From startId towards larger ratios.
ascendList(d, r, startId) ==
  LET place[k \in 0..LongestWalk] ==
        IF k = 0
        THEN <<d.nodes[startId].prevId, startId>>
        ELSE LET p == place[k-1]
             IN  IF p[2] = NoId \/ validPlace(d, r, p[1], p[2])
                 THEN p
                 ELSE <<d.nodes[d.nodes[p[2]].prevId].prevId, d.nodes[p[2]].prevId>>
  IN  IF d.tail = startId /\ r <= getNominalICR(startId)
      THEN <<startId, NoId>>
      ELSE place[LongestWalk]

\* A hint is dropped when its trove has left the list or has moved to the
\* other side of the ratio.
usablePrev(d, r, prevId) ==
  IF prevId # NoId /\ contains(d, prevId) /\ r <= getNominalICR(prevId)
  THEN prevId ELSE NoId

\* Faulty variant: the ratio of the hint is not looked at.
usableNext_AnyRatio(d, r, nextId) ==
  IF nextId # NoId /\ contains(d, nextId) THEN nextId ELSE NoId

usableNext(d, r, nextId) ==
  IF nextId # NoId /\ contains(d, nextId) /\ r >= getNominalICR(nextId)
  THEN nextId ELSE NoId

findInsertPosition(d, r, prevHint, nextHint) ==
  LET prevId == usablePrev(d, r, prevHint)
      nextId == usableNext(d, r, nextHint)
  IN  CASE prevId = NoId /\ nextId = NoId -> descendList(d, r, d.head)
        [] prevId = NoId /\ nextId # NoId -> ascendList(d, r, nextId)
        [] OTHER                          -> descendList(d, r, prevId)

\* The caller's hint if it is a valid place, else what is found from it.
insertPlace(d, r, prevHint, nextHint) ==
  IF validPlace(d, r, prevHint, nextHint)
  THEN <<prevHint, nextHint>>
  ELSE findInsertPosition(d, r, prevHint, nextHint)

-----------------------------------------------------------------------------
(* Changing the list. *)

linkNode(d, b, prevId, nextId) ==
  LET n == [d.nodes EXCEPT ![b].exists = TRUE]
      grown == [d EXCEPT !.size = @ + 1]
  IN  CASE prevId = NoId /\ nextId = NoId ->
             [grown EXCEPT !.nodes = n, !.head = b, !.tail = b]
        [] prevId = NoId /\ nextId # NoId ->
             [grown EXCEPT !.nodes = [n EXCEPT ![b].nextId = d.head,
                                               ![d.head].prevId = b],
                           !.head = b]
        [] prevId # NoId /\ nextId = NoId ->
             [grown EXCEPT !.nodes = [n EXCEPT ![b].prevId = d.tail,
                                               ![d.tail].nextId = b],
                           !.tail = b]
        [] OTHER ->
             [grown EXCEPT !.nodes = [n EXCEPT ![b] = [exists |-> TRUE, nextId |-> nextId,
                                                       prevId |-> prevId],
                                               ![prevId].nextId = b,
                                               ![nextId].prevId = b]]

\* The requires of _insert.
insertable(d, b, r) == d.size # maxSize /\ ~contains(d, b) /\ b # NoId /\ r > 0

insertNode(d, b, r, prevHint, nextHint) ==
  LET place == insertPlace(d, r, prevHint, nextHint)
  IN  linkNode(d, b, place[1], place[2])

removeNode(d, b) ==
  LET next == d.nodes[b].nextId
      prev == d.nodes[b].prevId
      shrunk == [d EXCEPT !.size = @ - 1]
      without(nodes) == [nodes EXCEPT ![b] = EmptyNode]
  IN  CASE d.size <= 1 ->
             [shrunk EXCEPT !.nodes = without(d.nodes), !.head = NoId, !.tail = NoId]
        [] d.size > 1 /\ b = d.head ->
             [shrunk EXCEPT !.nodes = without([d.nodes EXCEPT ![next].prevId = NoId]),
                            !.head = next]
        [] d.size > 1 /\ b # d.head /\ b = d.tail ->
             [shrunk EXCEPT !.nodes = without([d.nodes EXCEPT ![prev].nextId = NoId]),
                            !.tail = prev]
        [] OTHER ->
             [shrunk EXCEPT !.nodes = without([d.nodes EXCEPT ![prev].nextId = next,
                                                              ![next].prevId = prev])]

addTroveOwnerToArray(b) ==
  /\ TroveOwners' = Append(TroveOwners, b)
  /\ arrayIndex' = [arrayIndex EXCEPT ![b] = Len(TroveOwners)]

\* The last owner moves to the place of the one removed.
removeTroveOwner(b) ==
  LET last == Len(TroveOwners)
      moved == TroveOwners[last]
  IN  /\ arrayIndex[b] <= last - 1
      /\ TroveOwners' = SubSeq([TroveOwners EXCEPT ![arrayIndex[b] + 1] = moved],
                               1, last - 1)
      /\ arrayIndex' = [arrayIndex EXCEPT ![moved] = arrayIndex[b]]

-----------------------------------------------------------------------------
(* What TroveManager and BorrowerOperations do with the registers. *)

Hints == Ids \cup {NoId}

\* openTrove of a trove with ratio r.
Open(b, r, prevHint, nextHint) ==
  /\ NICR[b] = NoRatio
  /\ insertable(data, b, r)
  /\ data' = insertNode(data, b, r, prevHint, nextHint)
  /\ addTroveOwnerToArray(b)
  /\ NICR' = [NICR EXCEPT ![b] = r]

\* adjustTrove, and a partial redemption: reInsert.
Adjust(b, r, prevHint, nextHint) ==
  /\ contains(data, b)
  /\ insertable(removeNode(data, b), b, r)
  /\ data' = insertNode(removeNode(data, b), b, r, prevHint, nextHint)
  /\ NICR' = [NICR EXCEPT ![b] = r]
  /\ UNCHANGED <<TroveOwners, arrayIndex>>

\* _closeTrove, for every reason; the last trove only when BorrowerOperations
\* is not on the mint list.
Close(b, onMintList) ==
  /\ contains(data, b)
  /\ onMintList => Len(TroveOwners) > 1 /\ data.size > 1
  /\ removeTroveOwner(b)
  /\ data' = removeNode(data, b)
  /\ NICR' = [NICR EXCEPT ![b] = NoRatio]

\* A redistribution changes the ratios of all troves where they are.
Redistribute(ratios) ==
  /\ NICR' = [b \in Ids |-> IF contains(data, b) THEN ratios[b] ELSE NoRatio]
  /\ UNCHANGED <<data, TroveOwners, arrayIndex>>

RegNext ==
  \/ \E b \in Ids, r \in Ratios, prevHint, nextHint \in Hints :
       Open(b, r, prevHint, nextHint) \/ Adjust(b, r, prevHint, nextHint)
  \/ \E b \in Ids, onMintList \in BOOLEAN : Close(b, onMintList)
  \/ \E ratios \in [Ids -> Ratios] : Redistribute(ratios)

RegSpec == RegInit /\ [][RegNext]_regVars

-----------------------------------------------------------------------------
(* How lib-ethers finds the hints that a trove is inserted with: it asks   *)
(* HintHelpers for a trove near the ratio, SortedTroves for the place next *)
(* to it, and adapts the place to what the contracts will do.              *)

\* LiquityMath._getAbsoluteDifference
distance(r, b) == IF NICR[b] >= r THEN NICR[b] - r ELSE r - NICR[b]

\* getApproxHint starts from the last trove and goes to any nearer one that a
\* trial hits; which ones are tried is random, in one call or in several
\* (generateTrials), of which the nearest result is kept.
getApproxHint(d, r) ==
  {d.tail} \cup {b \in Ids : contains(d, b) /\ distance(r, b) < distance(r, d.tail)}

\* The trove that is moved leaves the list before it is inserted again.
jumpOver(d, place, ownAddress) ==
  CASE ownAddress = NoId -> place
    [] ownAddress # NoId /\ place[1] = ownAddress ->
         <<d.nodes[ownAddress].prevId, place[2]>>
    [] ownAddress # NoId /\ place[1] # ownAddress /\ place[2] = ownAddress ->
         <<place[1], d.nodes[ownAddress].nextId>>
    [] OTHER -> place

\* "Don't use address(0) as hint as it can result in huge gas cost."
withoutZero(place) ==
  CASE place[1] = NoId -> <<place[2], place[2]>>
    [] place[1] # NoId /\ place[2] = NoId -> <<place[1], place[1]>>
    [] OTHER -> place

\* _findHintsForNominalCollateralRatio, with the trove nearby that was found;
\* ownAddress is NoId for a new trove.
findHints(d, r, hintAddress, ownAddress) ==
  IF d.size = 0
  THEN <<NoId, NoId>>
  ELSE withoutZero(
         jumpOver(d, findInsertPosition(d, r, hintAddress, hintAddress), ownAddress))

-----------------------------------------------------------------------------
(* Properties. *)

\* The list read from its head on, at most as many nodes as there are ids.
Chain(d) ==
  LET upTo[k \in 0..Cardinality(Ids)] ==
        IF k = 0
        THEN [at |-> d.head, seq |-> <<>>]
        ELSE LET c == upTo[k-1]
             IN  IF c.at = NoId
                 THEN c
                 ELSE [at |-> d.nodes[c.at].nextId, seq |-> Append(c.seq, c.at)]
  IN  upTo[Cardinality(Ids)].seq

Abstract == INSTANCE TroveListSpec WITH list <- Chain(data), ratio <- NICR

\* The linked list with hints is the sequence that the other contracts rely
\* on: whatever the hints were and however ratios have moved since, a trove is
\* put at a place that fits, and no other trove moves or is lost (_insert,
\* _remove, _findInsertPosition).
ImplementsTroveList == Abstract!ListSpec

\* Every hint leads to a valid place, although the list may be out of order:
\* the walk neither runs off the list, which would make the new trove the only
\* one, nor goes on for ever.
HintsAlwaysLeadToAPlace ==
  \A r \in Ratios, prevHint, nextHint \in Hints :
    LET place == insertPlace(data, r, prevHint, nextHint)
    IN  validPlace(data, r, place[1], place[2])

\* Both directions of the list and its size agree, and it ends at its tail:
\* walks up (_ascendList, redemptions) see what walks down see.
ListIsDoublyLinked ==
  LET seq == Chain(data)
  IN  /\ data.size = Len(seq)
      /\ \A i \in 1..Len(seq) :
           /\ data.nodes[seq[i]].exists
           /\ data.nodes[seq[i]].prevId = IF i = 1 THEN NoId ELSE seq[i-1]
      /\ data.tail = IF seq = <<>> THEN NoId ELSE seq[Len(seq)]
      /\ data.nodes[NoId] = EmptyNode

\* TroveOwners holds the troves of the list, each once and at its arrayIndex,
\* after any order of opening and closing.
OwnersMatchList ==
  /\ Len(TroveOwners) = data.size
  /\ \A b \in Ids : contains(data, b) =>
       /\ arrayIndex[b] < Len(TroveOwners)
       /\ TroveOwners[arrayIndex[b] + 1] = b

ListIsInOrder(d) ==
  \A b \in Ids : contains(d, b) /\ d.nodes[b].nextId # NoId =>
    NICR[b] >= NICR[d.nodes[b].nextId]

\* The places that _findInsertPosition looks at before it starts to walk.
PlacesAtOnce(d, r, prevHint, nextHint) ==
  LET prevId == usablePrev(d, r, prevHint)
      nextId == usableNext(d, r, nextHint)
  IN  CASE prevId # NoId -> {<<NoId, prevId>>, <<prevId, d.nodes[prevId].nextId>>}
        [] prevId = NoId /\ nextId # NoId ->
             {<<nextId, NoId>>, <<d.nodes[nextId].prevId, nextId>>}
        [] OTHER -> {}

\* While the list is in order and has not changed since, the contracts insert a trove
\* that comes with hints of the client without a walk over the list, which is what
\* its gas was estimated for: a new trove and one that is moved, also at either end of
\* the list, whichever troves the random trials of HintHelpers hit.
ClientHintsNeedNoWalk ==
  ListIsInOrder(data) =>
    \A r \in Ratios, own \in {b \in Ids : contains(data, b)} \cup {NoId} :
      LET d == IF own = NoId THEN data ELSE removeNode(data, own)
          tried == IF data.size = 0 THEN {NoId} ELSE getApproxHint(data, r)
      IN  \A near \in tried :
            LET h == findHints(data, r, near, own)
            IN  \/ validPlace(d, r, h[1], h[2])
                \/ insertPlace(d, r, h[1], h[2]) \in PlacesAtOnce(d, r, h[1], h[2])

\* Nothing tells one borrower from another: states that differ by a renaming of
\* borrowers count as one.
BorrowersAlike == Permutations(Ids)

\* The two registers are sound and can be searched: the list is linked both ways, the
\* array has every trove at its index, each pair of hints leads to a place that fits, and
\* the client's hints lead there at once.
RegistersAreSound ==
  /\ ListIsDoublyLinked
  /\ OwnersMatchList
  /\ HintsAlwaysLeadToAPlace
  /\ ClientHintsNeedNoWalk

=============================================================================
