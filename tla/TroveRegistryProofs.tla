------------------------ MODULE TroveRegistryProofs ------------------------
(***************************************************************************)
(* The registers of open troves for every number of borrowers, every ratio *)
(* and every pair of hints: the linked list is always the sequence that    *)
(* the contracts rely on.                                                  *)
(*                                                                         *)
(* The inductive invariant says that there is a sequence s that the list   *)
(* links (Linked).  Inserting and removing nodes insert into and remove    *)
(* from s; a walk over the list is a walk over the places of s, along      *)
(* which the ratio stays on the same side until a place fits, and s is no  *)
(* longer than there are borrowers.                                        *)
(***************************************************************************)
EXTENDS TroveRegistry, TroveList, InductionLemmas, FiniteSetTheorems, SequenceTheorems

-----------------------------------------------------------------------------
(* The sequence that a list links. *)

\* The trove at place i, address(0) before the first and behind the last.
At(s, i) == IF i \in 1..Len(s) THEN s[i] ELSE NoId

\* s lists borrowers, each at most once.
IsList(s) == s \in Seq(Ids) /\ \A i, j \in 1..Len(s) : s[i] = s[j] => i = j

Nodes == [exists : BOOLEAN, nextId : Hints, prevId : Hints]
Node(nextId, prevId) == [exists |-> TRUE, nextId |-> nextId, prevId |-> prevId]

\* The nodes link s both ways; no other borrower has a node.
NodesLink(nodes, s) ==
  /\ nodes \in [Hints -> Nodes]
  /\ \A i \in 1..Len(s) : nodes[s[i]] = Node(At(s, i + 1), At(s, i - 1))
  /\ \A b \in Hints : (\A i \in 1..Len(s) : s[i] # b) => nodes[b] = EmptyNode

Linked(d, s) ==
  /\ IsList(s)
  /\ d = [head |-> At(s, 1), tail |-> At(s, Len(s)), size |-> Len(s), nodes |-> d.nodes]
  /\ NodesLink(d.nodes, s)

\* What a list says of its parts.
LEMMA ListParts ==
  ASSUME NEW s, IsList(s)
  PROVE  /\ Len(s) \in Nat /\ s \in [1..Len(s) -> Ids]
         /\ \A i \in 1..Len(s) : s[i] \in Ids /\ s[i] # NoId /\ At(s, i) = s[i]
         /\ \A i \in Int : At(s, i) \in Hints /\ (At(s, i) = NoId <=> i \notin 1..Len(s))
         /\ \A i, j \in 1..Len(s) : s[i] = s[j] => i = j
  BY RegistryAssumption DEF IsList, At, Hints

\* What a linked list says of its parts.
LEMMA LinkedParts ==
  ASSUME NEW d, NEW s, Linked(d, s)
  PROVE  /\ d.head = At(s, 1) /\ d.tail = At(s, Len(s)) /\ d.size = Len(s)
         /\ d.nodes \in [Hints -> Nodes]
         /\ \A i \in 1..Len(s) : /\ d.nodes[s[i]].exists
                                 /\ d.nodes[s[i]].nextId = At(s, i + 1)
                                 /\ d.nodes[s[i]].prevId = At(s, i - 1)
         /\ \A b \in Hints : (\A i \in 1..Len(s) : s[i] # b) =>
              ~d.nodes[b].exists /\ d.nodes[b].nextId = NoId /\ d.nodes[b].prevId = NoId
         /\ d.nodes[NoId] = EmptyNode
  <1>1. d.head = At(s, 1) /\ d.tail = At(s, Len(s)) /\ d.size = Len(s)
    BY DEF Linked
  <1>2. \A i \in 1..Len(s) : s[i] # NoId
    BY ListParts DEF Linked
  <1>3. NoId \in Hints
    BY DEF Hints
  <1>4. ASSUME NEW i \in 1..Len(s)
        PROVE  /\ d.nodes[s[i]].exists
               /\ d.nodes[s[i]].nextId = At(s, i + 1)
               /\ d.nodes[s[i]].prevId = At(s, i - 1)
    <2>1. d.nodes[s[i]] = Node(At(s, i + 1), At(s, i - 1))
      BY DEF Linked, NodesLink
    <2> QED
      BY <2>1 DEF Node
  <1>5. ASSUME NEW b \in Hints, \A i \in 1..Len(s) : s[i] # b
        PROVE  /\ d.nodes[b] = EmptyNode
               /\ ~d.nodes[b].exists /\ d.nodes[b].nextId = NoId /\ d.nodes[b].prevId = NoId
    <2>1. d.nodes[b] = EmptyNode
      BY <1>5 DEF Linked, NodesLink
    <2> QED
      BY <2>1 DEF EmptyNode
  <1>6. d.nodes \in [Hints -> Nodes]
    BY DEF Linked, NodesLink
  <1> QED
    BY <1>1, <1>2, <1>3, <1>4, <1>5, <1>6

\* Every node that exists has a place in the sequence.
LEMMA PlaceOfNode ==
  ASSUME NEW d, NEW s, Linked(d, s), NEW b \in Hints
  PROVE  contains(d, b) <=> \E i \in 1..Len(s) : s[i] = b
  BY LinkedParts DEF contains

-----------------------------------------------------------------------------
(* Places *)

RatiosTyped == NICR \in [Ids -> Nat]

\* The places that _validInsertPosition accepts are those between two neighbours of the
\* sequence whose ratios enclose the new one.
LEMMA ValidPlaceFits ==
  ASSUME NEW d, NEW s, Linked(d, s), RatiosTyped,
         NEW r \in Nat, NEW p \in Hints, NEW q \in Hints, validPlace(d, r, p, q)
  PROVE  \E pos \in 1..Len(s) + 1 : /\ p = At(s, pos - 1) /\ q = At(s, pos)
                                    /\ validInsertPosition(NICR, s, r, pos)
  <1> DEFINE n == Len(s)
  <1>0. IsList(s)
    BY DEF Linked
  <1>1. /\ n \in Nat
        /\ \A i \in 1..n : s[i] \in Ids /\ s[i] # NoId /\ At(s, i) = s[i]
        /\ \A i \in Int : At(s, i) = NoId <=> i \notin 1..n
    BY <1>0, ListParts
  <1>2. /\ d.head = At(s, 1) /\ d.tail = At(s, n) /\ d.size = n
        /\ \A i \in 1..n : d.nodes[s[i]].nextId = At(s, i + 1)
        /\ \A b \in Hints : (\A i \in 1..n : s[i] # b) => d.nodes[b].nextId = NoId
    BY LinkedParts
  <1> HIDE DEF n
  <1>3. CASE p = NoId /\ q = NoId
    <2>1. n = 0
      BY <1>2, <1>3 DEF validPlace
    <2>2. p = At(s, 1 - 1) /\ q = At(s, 1)
      BY <1>1, <1>3, <2>1
    <2> QED
      BY <2>1, <2>2 DEF validInsertPosition, n
  <1>4. CASE p = NoId /\ q # NoId
    <2>1. At(s, 1) = q /\ r >= NICR[q]
      BY <1>2, <1>4 DEF validPlace, getNominalICR
    <2>2. 1 \in 1..n /\ s[1] = q /\ p = At(s, 1 - 1)
      BY <1>1, <1>4, <2>1
    <2> QED
      BY <1>1, <2>1, <2>2 DEF validInsertPosition, n
  <1>5. CASE p # NoId /\ q = NoId
    <2>1. At(s, n) = p /\ r <= NICR[p]
      BY <1>2, <1>5 DEF validPlace, getNominalICR
    <2>2. n \in 1..n /\ s[n] = p /\ q = At(s, n + 1)
      BY <1>1, <1>5, <2>1
    <2>3. NICR[p] \in Nat
      BY <1>1, <2>2 DEF RatiosTyped
    <2>4. (n + 1) - 1 = n /\ n + 1 \in 1..n + 1 /\ ~(n + 1 <= n)
      BY <1>1
    <2> QED
      BY <2>1, <2>2, <2>3, <2>4 DEF validInsertPosition, n
  <1>6. CASE p # NoId /\ q # NoId
    <2>1. d.nodes[p].nextId = q /\ NICR[p] >= r /\ r >= NICR[q]
      BY <1>6 DEF validPlace, getNominalICR
    <2>2. PICK i \in 1..n : s[i] = p
      BY <1>2, <1>6, <2>1
    <2>3. q = At(s, i + 1)
      BY <1>2, <2>1, <2>2
    <2>4. i + 1 \in 1..n /\ s[i + 1] = q
      BY <1>1, <1>6, <2>3
    <2>5. (i + 1) - 1 = i /\ At(s, i) = p
      BY <1>1, <2>2
    <2> QED
      BY <1>1, <2>1, <2>2, <2>3, <2>4, <2>5 DEF validInsertPosition, n
  <1> QED
    BY <1>3, <1>4, <1>5, <1>6

\* A place between two neighbours is accepted when the ratio fits.
LEMMA FittingIsValid ==
  ASSUME NEW d, NEW s, Linked(d, s), RatiosTyped,
         NEW r \in Nat, NEW pos \in 1..Len(s) + 1, validInsertPosition(NICR, s, r, pos)
  PROVE  validPlace(d, r, At(s, pos - 1), At(s, pos))
  <1> DEFINE n == Len(s)
  <1>0. IsList(s)
    BY DEF Linked
  <1>1. /\ n \in Nat
        /\ \A i \in 1..n : s[i] \in Ids /\ s[i] # NoId /\ At(s, i) = s[i]
        /\ \A i \in Int : At(s, i) = NoId <=> i \notin 1..n
    BY <1>0, ListParts
  <1>2. /\ d.head = At(s, 1) /\ d.tail = At(s, n) /\ d.size = n
        /\ \A i \in 1..n : d.nodes[s[i]].nextId = At(s, i + 1)
    BY LinkedParts
  <1>3. /\ pos > 1 => NICR[s[pos - 1]] >= r
        /\ pos <= n => r >= NICR[s[pos]]
    BY DEF validInsertPosition
  <1>4. \A i \in 1..n : NICR[s[i]] \in Nat
    BY <1>1 DEF RatiosTyped
  <1> HIDE DEF n
  <1>5. pos \in 1..n + 1
    BY DEF n
  <1>6. CASE n = 0
    <2>1. At(s, pos - 1) = NoId /\ At(s, pos) = NoId
      BY <1>1, <1>5, <1>6
    <2> QED
      BY <1>2, <1>6, <2>1 DEF validPlace
  <1>7. CASE n # 0 /\ pos = 1
    <2>1. At(s, pos - 1) = NoId /\ At(s, pos) = s[1] /\ s[1] # NoId /\ r >= NICR[s[1]]
      BY <1>1, <1>3, <1>5, <1>7
    <2>2. d.head = s[1]
      BY <1>1, <1>2, <1>7
    <2> QED
      BY <2>1, <2>2 DEF validPlace, getNominalICR
  <1>8. CASE n # 0 /\ pos = n + 1
    <2>1. At(s, pos - 1) = s[n] /\ At(s, pos) = NoId /\ s[n] # NoId /\ NICR[s[n]] >= r
      BY <1>1, <1>3, <1>5, <1>8
    <2>2. d.tail = s[n] /\ NICR[s[n]] \in Nat
      BY <1>1, <1>2, <1>4, <1>8
    <2> QED
      BY <2>1, <2>2 DEF validPlace, getNominalICR
  <1>9. CASE pos > 1 /\ pos <= n
    <2>1. pos - 1 \in 1..n /\ pos \in 1..n /\ (pos - 1) + 1 = pos
      BY <1>1, <1>5, <1>9
    <2>2. /\ At(s, pos - 1) = s[pos - 1] /\ s[pos - 1] # NoId
          /\ At(s, pos) = s[pos] /\ s[pos] # NoId
      BY <1>1, <2>1
    <2>3. d.nodes[s[pos - 1]].nextId = s[pos]
      BY <1>2, <2>1, <2>2
    <2> QED
      BY <1>3, <1>9, <2>2, <2>3 DEF validPlace, getNominalICR
  <1> QED
    BY <1>1, <1>5, <1>6, <1>7, <1>8, <1>9

-----------------------------------------------------------------------------
(* Walks *)

\* A walk of N steps from s0.
IsWalk(f, N, S, s0, step) ==
  f \in [0..N -> S] /\ f[0] = s0 /\ \A k \in 1..N : f[k] = step[f[k-1]]

LEMMA WalkExists ==
  ASSUME NEW N \in Nat, NEW S, NEW s0 \in S, NEW step \in [S -> S]
  PROVE  \E f : IsWalk(f, N, S, s0, step)
  <1>1. PICK f : f \in [Nat -> S] /\ f[0] = s0 /\ \A n \in Nat : f[n+1] = step[f[n]]
    BY Iteration DEF IsIteration
  <1> DEFINE g == [k \in 0..N |-> f[k]]
  <1>2. g \in [0..N -> S] /\ g[0] = s0
    BY <1>1
  <1>3. ASSUME NEW k \in 1..N PROVE g[k] = step[g[k-1]]
    <2>1. k - 1 \in Nat /\ k - 1 \in 0..N /\ k \in 0..N /\ (k - 1) + 1 = k
      OBVIOUS
    <2>2. f[(k - 1) + 1] = step[f[k - 1]]
      BY <1>1, <2>1
    <2> QED
      BY <2>1, <2>2
  <1>4. IsWalk(g, N, S, s0, step)
    BY <1>2, <1>3 DEF IsWalk
  <1> QED
    BY <1>4

\* The loops of _descendList and _ascendList end at a place that is valid or has no
\* neighbour on the far side; these are their steps.
StepDown(d, r, p) ==
  IF p[1] = NoId \/ validPlace(d, r, p[1], p[2])
  THEN p
  ELSE <<d.nodes[p[1]].nextId, d.nodes[d.nodes[p[1]].nextId].nextId>>

StepUp(d, r, p) ==
  IF p[2] = NoId \/ validPlace(d, r, p[1], p[2])
  THEN p
  ELSE <<d.nodes[d.nodes[p[2]].prevId].prevId, d.nodes[p[2]].prevId>>

Places == Hints \X Hints

\* There are walks, as long as the longest list and one step more.
LEMMA LongestWalkType == LongestWalk \in Nat /\ LongestWalk = Cardinality(Ids) + 1
  BY RegistryAssumption, FS_CardinalityType DEF LongestWalk

\* _descendList, where it does not stop at the head.
LEMMA DescendWalks ==
  ASSUME NEW d, NEW s, Linked(d, s), NEW r, NEW startId \in Hints,
         ~(d.head = startId /\ r >= getNominalICR(startId))
  PROVE  \E f \in [0..LongestWalk -> Places] :
           /\ f[0] = <<startId, d.nodes[startId].nextId>>
           /\ \A k \in 1..LongestWalk : f[k] = StepDown(d, r, f[k-1])
           /\ descendList(d, r, startId) = f[LongestWalk]
  <1> DEFINE N == LongestWalk
             first == <<startId, d.nodes[startId].nextId>>
             Def(place) == [k \in 0..N |->
                IF k = 0
                THEN <<startId, d.nodes[startId].nextId>>
                ELSE LET p == place[k-1]
                     IN  IF p[1] = NoId \/ validPlace(d, r, p[1], p[2])
                         THEN p
                         ELSE <<d.nodes[p[1]].nextId, d.nodes[d.nodes[p[1]].nextId].nextId>>]
             step == [p \in Places |-> StepDown(d, r, p)]
  <1>1. N \in Nat
    BY LongestWalkType
  <1>2. \A b \in Hints : d.nodes[b].nextId \in Hints
    <2>1. IsList(s)
      BY DEF Linked
    <2>2. \A i \in Int : At(s, i) \in Hints
      BY <2>1, ListParts
    <2>3. NoId \in Hints
      BY DEF Hints
    <2>4. \A i \in 1..Len(s) : i + 1 \in Int
      BY <2>1, ListParts
    <2> QED
      BY <2>2, <2>3, <2>4, LinkedParts
  <1>3. first \in Places
    BY <1>2 DEF Places
  <1>4. step \in [Places -> Places]
    BY <1>2 DEF Places, StepDown
  <1>5. \E f : f = Def(f)
    <2>1. PICK f : IsWalk(f, N, Places, first, step)
      <3> HIDE DEF N, first, step
      <3> QED
        BY <1>1, <1>3, <1>4, WalkExists
    <2>2. f \in [0..N -> Places] /\ f[0] = first
      BY <2>1 DEF IsWalk
    <2>3. \A k \in 1..N : f[k] = StepDown(d, r, f[k-1])
      <3> SUFFICES ASSUME NEW k \in 1..N PROVE f[k] = StepDown(d, r, f[k-1])
        OBVIOUS
      <3>1. f[k-1] \in Places
        BY <1>1, <2>2
      <3> QED
        BY <2>1, <3>1 DEF IsWalk
    <2>4. \A k \in 0..N : k # 0 => k \in 1..N
      BY <1>1
    <2>5. f = Def(f)
      BY <2>2, <2>3, <2>4 DEF StepDown
    <2> QED
      BY <2>5
  <1>6. descendList(d, r, startId) = (CHOOSE f : f = Def(f))[N]
    BY DEF descendList
  <1> HIDE DEF Def
  <1>7. PICK f : f = Def(f) /\ descendList(d, r, startId) = f[N]
    BY <1>5, <1>6
  <1>8. f = [k \in 0..N |-> IF k = 0 THEN first ELSE StepDown(d, r, f[k-1])]
    BY <1>7 DEF Def, StepDown
  <1> HIDE DEF first, step, N
  <1>9. f[0] = first
    BY <1>1, <1>8
  <1>10. \A k \in 1..N : f[k] = StepDown(d, r, f[k-1])
    BY <1>1, <1>8
  <1>11. \A k \in 0..N : f[k] \in Places
    <2> DEFINE T == {k \in Nat : k <= N => f[k] \in Places}
    <2>1. 0 \in T
      BY <1>3, <1>9
    <2>2. ASSUME NEW k \in Nat, k \in T PROVE k + 1 \in T
      <3> SUFFICES ASSUME k + 1 <= N PROVE f[k+1] \in Places
        OBVIOUS
      <3>1. k + 1 \in 1..N /\ (k + 1) - 1 = k /\ k <= N
        BY <1>1
      <3>2. f[k+1] = StepDown(d, r, f[k]) /\ f[k] \in Places
        BY <1>10, <2>2, <3>1
      <3>3. step[f[k]] \in Places
        BY <1>4, <3>2
      <3> QED
        BY <3>2, <3>3 DEF step
    <2> HIDE DEF T
    <2>3. \A k \in Nat : k \in T
      BY <2>1, <2>2, SetInduction
    <2> QED
      BY <1>1, <2>3 DEF T
  <1>12. f \in [0..N -> Places]
    BY <1>8, <1>11
  <1> QED
    BY <1>7, <1>9, <1>10, <1>12 DEF N, first

\* _ascendList, where it does not stop at the tail.
LEMMA AscendWalks ==
  ASSUME NEW d, NEW s, Linked(d, s), NEW r, NEW startId \in Hints,
         ~(d.tail = startId /\ r <= getNominalICR(startId))
  PROVE  \E f \in [0..LongestWalk -> Places] :
           /\ f[0] = <<d.nodes[startId].prevId, startId>>
           /\ \A k \in 1..LongestWalk : f[k] = StepUp(d, r, f[k-1])
           /\ ascendList(d, r, startId) = f[LongestWalk]
  <1> DEFINE N == LongestWalk
             first == <<d.nodes[startId].prevId, startId>>
             Def(place) == [k \in 0..N |->
                IF k = 0
                THEN <<d.nodes[startId].prevId, startId>>
                ELSE LET p == place[k-1]
                     IN  IF p[2] = NoId \/ validPlace(d, r, p[1], p[2])
                         THEN p
                         ELSE <<d.nodes[d.nodes[p[2]].prevId].prevId, d.nodes[p[2]].prevId>>]
             step == [p \in Places |-> StepUp(d, r, p)]
  <1>1. N \in Nat
    BY LongestWalkType
  <1>2. \A b \in Hints : d.nodes[b].prevId \in Hints
    <2>1. IsList(s)
      BY DEF Linked
    <2>2. \A i \in Int : At(s, i) \in Hints
      BY <2>1, ListParts
    <2>3. NoId \in Hints
      BY DEF Hints
    <2>4. \A i \in 1..Len(s) : i - 1 \in Int
      BY <2>1, ListParts
    <2> QED
      BY <2>2, <2>3, <2>4, LinkedParts
  <1>3. first \in Places
    BY <1>2 DEF Places
  <1>4. step \in [Places -> Places]
    BY <1>2 DEF Places, StepUp
  <1>5. \E f : f = Def(f)
    <2>1. PICK f : IsWalk(f, N, Places, first, step)
      <3> HIDE DEF N, first, step
      <3> QED
        BY <1>1, <1>3, <1>4, WalkExists
    <2>2. f \in [0..N -> Places] /\ f[0] = first
      BY <2>1 DEF IsWalk
    <2>3. \A k \in 1..N : f[k] = StepUp(d, r, f[k-1])
      <3> SUFFICES ASSUME NEW k \in 1..N PROVE f[k] = StepUp(d, r, f[k-1])
        OBVIOUS
      <3>1. f[k-1] \in Places
        BY <1>1, <2>2
      <3> QED
        BY <2>1, <3>1 DEF IsWalk
    <2>4. \A k \in 0..N : k # 0 => k \in 1..N
      BY <1>1
    <2>5. f = Def(f)
      BY <2>2, <2>3, <2>4 DEF StepUp
    <2> QED
      BY <2>5
  <1>6. ascendList(d, r, startId) = (CHOOSE f : f = Def(f))[N]
    BY DEF ascendList
  <1> HIDE DEF Def
  <1>7. PICK f : f = Def(f) /\ ascendList(d, r, startId) = f[N]
    BY <1>5, <1>6
  <1>8. f = [k \in 0..N |-> IF k = 0 THEN first ELSE StepUp(d, r, f[k-1])]
    BY <1>7 DEF Def, StepUp
  <1> HIDE DEF first, step, N
  <1>9. f[0] = first
    BY <1>1, <1>8
  <1>10. \A k \in 1..N : f[k] = StepUp(d, r, f[k-1])
    BY <1>1, <1>8
  <1>11. \A k \in 0..N : f[k] \in Places
    <2> DEFINE T == {k \in Nat : k <= N => f[k] \in Places}
    <2>1. 0 \in T
      BY <1>3, <1>9
    <2>2. ASSUME NEW k \in Nat, k \in T PROVE k + 1 \in T
      <3> SUFFICES ASSUME k + 1 <= N PROVE f[k+1] \in Places
        OBVIOUS
      <3>1. k + 1 \in 1..N /\ (k + 1) - 1 = k /\ k <= N
        BY <1>1
      <3>2. f[k+1] = StepUp(d, r, f[k]) /\ f[k] \in Places
        BY <1>10, <2>2, <3>1
      <3>3. step[f[k]] \in Places
        BY <1>4, <3>2
      <3> QED
        BY <3>2, <3>3 DEF step
    <2> HIDE DEF T
    <2>3. \A k \in Nat : k \in T
      BY <2>1, <2>2, SetInduction
    <2> QED
      BY <1>1, <2>3 DEF T
  <1>12. f \in [0..N -> Places]
    BY <1>8, <1>11
  <1> QED
    BY <1>7, <1>9, <1>10, <1>12 DEF N, first

\* No list is longer than there are borrowers, so no walk over it is too short.
LEMMA ListIsShort ==
  ASSUME NEW s, IsList(s)
  PROVE  Len(s) < LongestWalk
  <1>1. s \in Injection(1..Len(s), Ids)
    BY ListParts DEF Injection, IsInjective
  <1>2. IsFiniteSet(1..Len(s)) /\ Cardinality(1..Len(s)) <= Cardinality(Ids)
    BY <1>1, RegistryAssumption, FS_Injection
  <1>3. Cardinality(1..Len(s)) = Len(s) /\ Len(s) \in Nat
    <2>1. Len(s) \in Nat
      BY ListParts
    <2>2. Cardinality(1..Len(s)) = IF 1 > Len(s) THEN 0 ELSE Len(s) - 1 + 1
      BY <2>1, FS_Interval
    <2> QED
      BY <2>1, <2>2
  <1>4. Len(s) <= Cardinality(Ids) /\ Cardinality(Ids) \in Nat
    BY <1>2, <1>3, RegistryAssumption, FS_CardinalityType
  <1> QED
    BY <1>3, <1>4, LongestWalkType

\* _descendList from the head, or from a trove above the ratio, finds a place that fits:
\* every place it passes is still below a trove above the ratio.
LEMMA DescendFinds ==
  ASSUME NEW d, NEW s, Linked(d, s), RatiosTyped,
         NEW r \in Nat, r < NoRatio, NEW startId \in Hints,
         startId = d.head \/ (contains(d, startId) /\ r <= getNominalICR(startId))
  PROVE  LET place == descendList(d, r, startId)
         IN  place \in Places /\ validPlace(d, r, place[1], place[2])
  <1> DEFINE n == Len(s)
  <1>0. IsList(s)
    BY DEF Linked
  <1>1. /\ n \in Nat
        /\ \A i \in 1..n : s[i] \in Ids /\ s[i] # NoId /\ At(s, i) = s[i]
        /\ \A i \in Int : At(s, i) \in Hints /\ (At(s, i) = NoId <=> i \notin 1..n)
    BY <1>0, ListParts
  <1>2. /\ d.head = At(s, 1) /\ d.tail = At(s, n) /\ d.size = n
        /\ \A i \in 1..n : d.nodes[s[i]].nextId = At(s, i + 1)
        /\ d.nodes[NoId].nextId = NoId
    BY LinkedParts DEF EmptyNode
  <1>3. \A i \in 1..n : NICR[s[i]] \in Nat
    BY <1>1 DEF RatiosTyped
  <1>4. NoRatio \in Nat
    BY RegistryAssumption
  <1> HIDE DEF n
  <1>5. CASE d.head = startId /\ r >= getNominalICR(startId)
    <2>1. startId # NoId
      BY <1>4, <1>5 DEF getNominalICR
    <2>2. descendList(d, r, startId) = <<NoId, startId>>
      BY <1>5 DEF descendList
    <2>3. validPlace(d, r, NoId, startId)
      BY <1>5, <2>1 DEF validPlace
    <2> QED
      BY <2>2, <2>3 DEF Places, Hints
  <1>6. CASE ~(d.head = startId /\ r >= getNominalICR(startId))
    <2>1. PICK f \in [0..LongestWalk -> Places] :
            /\ f[0] = <<startId, d.nodes[startId].nextId>>
            /\ \A k \in 1..LongestWalk : f[k] = StepDown(d, r, f[k-1])
            /\ descendList(d, r, startId) = f[LongestWalk]
      BY <1>6, DescendWalks
    <2>2. LongestWalk \in Nat /\ n < LongestWalk
      BY <1>0, ListIsShort, LongestWalkType DEF n
    <2>3. CASE startId = NoId
      <3>1. n = 0
        <4>1. ~contains(d, NoId)
          BY LinkedParts DEF contains, EmptyNode
        <4>2. NoId = At(s, 1)
          BY <1>2, <2>3, <4>1
        <4> QED
          BY <1>1, <4>2
      <3>2. validPlace(d, r, NoId, NoId)
        BY <1>2, <3>1 DEF validPlace
      <3> DEFINE T == {k \in Nat : k <= LongestWalk => f[k] = <<NoId, NoId>>}
      <3>3. 0 \in T
        BY <1>2, <2>1, <2>3
      <3>4. ASSUME NEW k \in Nat, k \in T PROVE k + 1 \in T
        <4> SUFFICES ASSUME k + 1 <= LongestWalk PROVE f[k+1] = <<NoId, NoId>>
          OBVIOUS
        <4>1. k + 1 \in 1..LongestWalk /\ (k + 1) - 1 = k /\ k <= LongestWalk
          BY <2>2
        <4>2. f[k+1] = StepDown(d, r, f[k]) /\ f[k] = <<NoId, NoId>>
          BY <2>1, <3>4, <4>1
        <4> QED
          BY <4>2 DEF StepDown
      <3> HIDE DEF T
      <3>5. \A k \in Nat : k \in T
        BY <3>3, <3>4, SetInduction
      <3>6. f[LongestWalk] = <<NoId, NoId>>
        BY <2>2, <3>5 DEF T
      <3> QED
        BY <2>1, <3>2, <3>6 DEF Places, Hints
    <2>4. CASE startId # NoId
      <3>1. PICK i \in 1..n : s[i] = startId
        <4>1. CASE startId = d.head
          <5>1. 1 \in 1..n
            BY <1>1, <1>2, <2>4, <4>1
          <5> QED
            BY <1>1, <1>2, <4>1, <5>1
        <4>2. CASE contains(d, startId)
          BY <4>2, PlaceOfNode DEF n
        <4> QED
          BY <4>1, <4>2
      <3>2. NICR[s[i]] >= r
        BY <1>3, <1>6, <2>4, <3>1 DEF getNominalICR
      \* f[k] is the place behind trove j.
      <3> DEFINE Reached(k, j) ==
                   /\ f[k] = <<At(s, j), At(s, j + 1)>> /\ NICR[s[j]] >= r
                   /\ validPlace(d, r, At(s, j), At(s, j + 1)) \/ j >= i + k
                 T == {k \in Nat : k <= LongestWalk => \E j \in i..n : Reached(k, j)}
      <3>3. 0 \in T
        <4>1. f[0] = <<At(s, i), At(s, i + 1)>>
          BY <1>1, <1>2, <2>1, <3>1
        <4>2. Reached(0, i)
          BY <1>1, <3>1, <3>2, <4>1
        <4> HIDE DEF Reached
        <4> QED
          BY <1>1, <3>1, <4>2
      <3>4. ASSUME NEW k \in Nat, k \in T PROVE k + 1 \in T
        <4> SUFFICES ASSUME k + 1 <= LongestWalk PROVE \E j \in i..n : Reached(k + 1, j)
          OBVIOUS
        <4>1. k + 1 \in 1..LongestWalk /\ (k + 1) - 1 = k /\ k <= LongestWalk
          BY <2>2
        <4>2. PICK j \in i..n : Reached(k, j)
          BY <3>4, <4>1
        <4>3. f[k+1] = StepDown(d, r, f[k]) /\ f[k] = <<At(s, j), At(s, j + 1)>>
          BY <2>1, <4>1, <4>2
        <4>4. j \in 1..n /\ At(s, j) = s[j] /\ s[j] # NoId
          BY <1>1, <3>1
        <4>5. CASE validPlace(d, r, At(s, j), At(s, j + 1))
          <5>1. f[k+1] = f[k]
            BY <4>3, <4>5 DEF StepDown
          <5>2. Reached(k + 1, j)
            BY <4>2, <4>5, <5>1
          <5> QED
            BY <5>2
        <4>6. CASE ~validPlace(d, r, At(s, j), At(s, j + 1))
          <5>1. j < n
            <6>1. ASSUME j = n PROVE FALSE
              <7>1. At(s, j + 1) = NoId /\ d.tail = At(s, j)
                BY <1>1, <1>2, <6>1
              <7>2. r <= NICR[s[j]]
                BY <1>3, <4>2, <4>4
              <7> QED
                BY <4>4, <4>6, <7>1, <7>2 DEF validPlace, getNominalICR
            <6> QED
              BY <1>1, <4>4, <6>1
          <5>2. j + 1 \in 1..n /\ At(s, j + 1) = s[j + 1] /\ s[j + 1] # NoId
            BY <1>1, <4>4, <5>1
          <5>3. d.nodes[s[j]].nextId = s[j + 1] /\ d.nodes[s[j + 1]].nextId = At(s, (j + 1) + 1)
            BY <1>2, <4>4, <5>2
          <5>4. f[k+1] = <<At(s, j + 1), At(s, (j + 1) + 1)>>
            BY <4>3, <4>4, <4>6, <5>2, <5>3 DEF StepDown
          <5>5. NICR[s[j + 1]] >= r
            <6>1. ~(r >= NICR[s[j + 1]])
              BY <4>2, <4>4, <4>6, <5>2, <5>3 DEF validPlace, getNominalICR
            <6> QED
              BY <1>3, <5>2, <6>1
          <5>6. j >= i + k
            BY <4>2, <4>6
          <5>7. Reached(k + 1, j + 1)
            BY <3>1, <4>4, <5>4, <5>5, <5>6
          <5> HIDE DEF Reached
          <5>8. j + 1 \in i..n
            BY <1>1, <3>1, <4>4, <5>1
          <5> QED
            BY <5>7, <5>8
        <4> QED
          BY <4>5, <4>6
      <3> HIDE DEF T
      <3>5. \A k \in Nat : k \in T
        BY <3>3, <3>4, SetInduction
      <3>6. PICK j \in i..n : Reached(LongestWalk, j)
        BY <2>2, <3>5 DEF T
      <3>7. validPlace(d, r, At(s, j), At(s, j + 1))
        BY <1>1, <2>2, <3>1, <3>6
      <3>8. At(s, j) \in Hints /\ At(s, j + 1) \in Hints
        BY <1>1, <3>1
      <3> QED
        BY <2>1, <3>6, <3>7, <3>8 DEF Places
    <2> QED
      BY <2>3, <2>4
  <1> QED
    BY <1>5, <1>6

\* _ascendList from a trove below the ratio finds a place that fits.
LEMMA AscendFinds ==
  ASSUME NEW d, NEW s, Linked(d, s), RatiosTyped,
         NEW r \in Nat, NEW startId \in Hints, startId # NoId,
         contains(d, startId), r >= getNominalICR(startId)
  PROVE  LET place == ascendList(d, r, startId)
         IN  place \in Places /\ validPlace(d, r, place[1], place[2])
  <1> DEFINE n == Len(s)
  <1>0. IsList(s)
    BY DEF Linked
  <1>1. /\ n \in Nat
        /\ \A i \in 1..n : s[i] \in Ids /\ s[i] # NoId /\ At(s, i) = s[i]
        /\ \A i \in Int : At(s, i) \in Hints /\ (At(s, i) = NoId <=> i \notin 1..n)
    BY <1>0, ListParts
  <1>2. /\ d.head = At(s, 1) /\ d.tail = At(s, n) /\ d.size = n
        /\ \A i \in 1..n : /\ d.nodes[s[i]].nextId = At(s, i + 1)
                           /\ d.nodes[s[i]].prevId = At(s, i - 1)
    BY LinkedParts
  <1>3. \A i \in 1..n : NICR[s[i]] \in Nat
    BY <1>1 DEF RatiosTyped
  <1> HIDE DEF n
  <1>4. PICK i \in 1..n : s[i] = startId
    BY PlaceOfNode DEF n
  <1>5. CASE d.tail = startId /\ r <= getNominalICR(startId)
    <2>1. ascendList(d, r, startId) = <<startId, NoId>>
      BY <1>5 DEF ascendList
    <2>2. validPlace(d, r, startId, NoId)
      BY <1>5 DEF validPlace
    <2> QED
      BY <2>1, <2>2 DEF Places, Hints
  <1>6. CASE ~(d.tail = startId /\ r <= getNominalICR(startId))
    <2>1. PICK f \in [0..LongestWalk -> Places] :
            /\ f[0] = <<d.nodes[startId].prevId, startId>>
            /\ \A k \in 1..LongestWalk : f[k] = StepUp(d, r, f[k-1])
            /\ ascendList(d, r, startId) = f[LongestWalk]
      BY <1>6, AscendWalks
    <2>2. LongestWalk \in Nat /\ n < LongestWalk
      BY <1>0, ListIsShort, LongestWalkType DEF n
    <2>3. r >= NICR[s[i]]
      BY <1>4 DEF getNominalICR
    \* f[k] is the place before trove j.
    <2> DEFINE Reached(k, j) ==
                 /\ f[k] = <<At(s, j - 1), At(s, j)>> /\ r >= NICR[s[j]]
                 /\ validPlace(d, r, At(s, j - 1), At(s, j)) \/ j <= i - k
               T == {k \in Nat : k <= LongestWalk => \E j \in 1..i : Reached(k, j)}
    <2>4. 0 \in T
      <3>1. f[0] = <<At(s, i - 1), At(s, i)>>
        BY <1>1, <1>2, <1>4, <2>1
      <3>2. Reached(0, i)
        BY <1>1, <1>4, <2>3, <3>1
      <3> HIDE DEF Reached
      <3> QED
        BY <1>1, <1>4, <3>2
    <2>5. ASSUME NEW k \in Nat, k \in T PROVE k + 1 \in T
      <3> SUFFICES ASSUME k + 1 <= LongestWalk PROVE \E j \in 1..i : Reached(k + 1, j)
        OBVIOUS
      <3>1. k + 1 \in 1..LongestWalk /\ (k + 1) - 1 = k /\ k <= LongestWalk
        BY <2>2
      <3>2. PICK j \in 1..i : Reached(k, j)
        BY <2>5, <3>1
      <3>3. f[k+1] = StepUp(d, r, f[k]) /\ f[k] = <<At(s, j - 1), At(s, j)>>
        BY <2>1, <3>1, <3>2
      <3>4. j \in 1..n /\ At(s, j) = s[j] /\ s[j] # NoId
        BY <1>1, <1>4
      <3>5. CASE validPlace(d, r, At(s, j - 1), At(s, j))
        <4>1. f[k+1] = f[k]
          BY <3>3, <3>5 DEF StepUp
        <4>2. Reached(k + 1, j)
          BY <3>2, <3>5, <4>1
        <4> QED
          BY <4>2
      <3>6. CASE ~validPlace(d, r, At(s, j - 1), At(s, j))
        <4>1. j > 1
          <5>1. ASSUME j = 1 PROVE FALSE
            <6>1. At(s, j - 1) = NoId /\ d.head = At(s, j)
              BY <1>1, <1>2, <5>1
            <6> QED
              BY <3>2, <3>4, <3>6, <6>1 DEF validPlace, getNominalICR
          <5> QED
            BY <1>1, <3>4, <5>1
        <4>2. j - 1 \in 1..n /\ At(s, j - 1) = s[j - 1] /\ s[j - 1] # NoId /\ (j - 1) + 1 = j
          BY <1>1, <3>4, <4>1
        <4>3. /\ d.nodes[s[j]].prevId = s[j - 1]
              /\ d.nodes[s[j - 1]].prevId = At(s, (j - 1) - 1)
              /\ d.nodes[s[j - 1]].nextId = s[j]
          BY <1>2, <3>4, <4>2
        <4>4. f[k+1] = <<At(s, (j - 1) - 1), At(s, j - 1)>>
          BY <3>3, <3>4, <3>6, <4>2, <4>3 DEF StepUp
        <4>5. r >= NICR[s[j - 1]]
          <5>1. ~(NICR[s[j - 1]] >= r)
            BY <3>2, <3>4, <3>6, <4>2, <4>3 DEF validPlace, getNominalICR
          <5> QED
            BY <1>3, <4>2, <5>1
        <4>6. j <= i - k
          BY <3>2, <3>6
        <4>7. Reached(k + 1, j - 1)
          BY <1>4, <3>4, <4>4, <4>5, <4>6
        <4> HIDE DEF Reached
        <4>8. j - 1 \in 1..i
          BY <1>1, <1>4, <3>4, <4>1
        <4> QED
          BY <4>7, <4>8
      <3> QED
        BY <3>5, <3>6
    <2> HIDE DEF T
    <2>6. \A k \in Nat : k \in T
      BY <2>4, <2>5, SetInduction
    <2>7. PICK j \in 1..i : Reached(LongestWalk, j)
      BY <2>2, <2>6 DEF T
    <2>8. validPlace(d, r, At(s, j - 1), At(s, j))
      BY <1>1, <1>4, <2>2, <2>7
    <2>9. At(s, j - 1) \in Hints /\ At(s, j) \in Hints
      BY <1>1, <1>4
    <2> QED
      BY <2>1, <2>7, <2>8, <2>9 DEF Places
  <1> QED
    BY <1>5, <1>6

\* Every pair of hints leads to a place that fits (_findInsertPosition).
LEMMA FoundPlaceIsValid ==
  ASSUME NEW d, NEW s, Linked(d, s), RatiosTyped, NEW r \in Ratios,
         NEW prevHint \in Hints, NEW nextHint \in Hints
  PROVE  LET place == findInsertPosition(d, r, prevHint, nextHint)
         IN  place \in Places /\ validPlace(d, r, place[1], place[2])
  <1>0. r \in Nat /\ r < NoRatio
    BY RegistryAssumption
  <1> DEFINE prevId == usablePrev(d, r, prevHint)
             nextId == usableNext(d, r, nextHint)
  <1>1. d.head \in Hints
    <2>1. IsList(s)
      BY DEF Linked
    <2> QED
      BY <2>1, ListParts, LinkedParts
  <1>2. CASE prevId = NoId /\ nextId = NoId
    <2>1. findInsertPosition(d, r, prevHint, nextHint) = descendList(d, r, d.head)
      BY <1>2 DEF findInsertPosition
    <2> QED
      BY <1>0, <1>1, <2>1, DescendFinds
  <1>3. CASE prevId = NoId /\ nextId # NoId
    <2>1. findInsertPosition(d, r, prevHint, nextHint) = ascendList(d, r, nextHint)
      BY <1>3 DEF findInsertPosition, usableNext
    <2>2. nextHint # NoId /\ contains(d, nextHint) /\ r >= getNominalICR(nextHint)
      BY <1>3 DEF usableNext
    <2> QED
      BY <1>0, <2>1, <2>2, AscendFinds
  <1>4. CASE prevId # NoId
    <2>1. findInsertPosition(d, r, prevHint, nextHint) = descendList(d, r, prevHint)
      BY <1>4 DEF findInsertPosition, usablePrev
    <2>2. contains(d, prevHint) /\ r <= getNominalICR(prevHint)
      BY <1>4 DEF usablePrev
    <2> QED
      BY <1>0, <2>1, <2>2, DescendFinds
  <1> QED
    BY <1>2, <1>3, <1>4

\* So does _insert, which takes the hints themselves where they are valid.
LEMMA InsertPlaceIsValid ==
  ASSUME NEW d, NEW s, Linked(d, s), RatiosTyped, NEW r \in Ratios,
         NEW prevHint \in Hints, NEW nextHint \in Hints
  PROVE  LET place == insertPlace(d, r, prevHint, nextHint)
         IN  place \in Places /\ validPlace(d, r, place[1], place[2])
  <1>1. CASE validPlace(d, r, prevHint, nextHint)
    BY <1>1 DEF insertPlace, Places
  <1>2. CASE ~validPlace(d, r, prevHint, nextHint)
    <2>1. insertPlace(d, r, prevHint, nextHint) = findInsertPosition(d, r, prevHint, nextHint)
      BY <1>2 DEF insertPlace
    <2> QED
      BY <2>1, FoundPlaceIsValid
  <1> QED
    BY <1>1, <1>2

-----------------------------------------------------------------------------
(* Writing to nodes *)

LEMMA NodeFields ==
  ASSUME NEW x \in Hints, NEW y \in Hints
  PROVE  /\ Node(x, y) \in Nodes /\ Node(x, y).nextId = x /\ Node(x, y).prevId = y
         /\ Node(x, y).exists
         /\ \A m \in Nodes : m.exists /\ m.nextId = x /\ m.prevId = y => m = Node(x, y)
  <1>1. Node(x, y) \in Nodes
    BY DEF Node, Nodes
  <1>2. Node(x, y).nextId = x /\ Node(x, y).prevId = y
    BY DEF Node
  <1>3. Node(x, y).exists
    BY DEF Node
  <1>4. ASSUME NEW m \in Nodes, m.exists, m.nextId = x, m.prevId = y PROVE m = Node(x, y)
    BY <1>4 DEF Node, Nodes
  <1> QED
    BY <1>1, <1>2, <1>3, <1>4

\* nodes[x].exists = true
LEMMA MarkNode ==
  ASSUME NEW f \in [Hints -> Nodes], NEW b \in Hints
  PROVE  /\ [f EXCEPT ![b].exists = TRUE] \in [Hints -> Nodes]
         /\ [f EXCEPT ![b].exists = TRUE][b] = Node(f[b].nextId, f[b].prevId)
         /\ \A x \in Hints : x # b => [f EXCEPT ![b].exists = TRUE][x] = f[x]
  <1> DEFINE g == [f EXCEPT ![b].exists = TRUE]
  <1>1. ASSUME NEW m \in Nodes, NEW t \in BOOLEAN
        PROVE  [m EXCEPT !.exists = t] = [exists |-> t, nextId |-> m.nextId, prevId |-> m.prevId]
    BY DEF Nodes
  <1>2. f[b] \in Nodes
    OBVIOUS
  <1>3. [f[b] EXCEPT !.exists = TRUE] = Node(f[b].nextId, f[b].prevId)
    BY <1>1, <1>2 DEF Node
  <1>4. g[b] = [f[b] EXCEPT !.exists = TRUE]
    OBVIOUS
  <1>5. \A x \in Hints : x # b => g[x] = f[x]
    OBVIOUS
  <1>6. f[b].nextId \in Hints /\ f[b].prevId \in Hints
    BY <1>2 DEF Nodes
  <1>7. g[b] \in Nodes
    BY <1>3, <1>4, <1>6, NodeFields
  <1>8. g = [x \in Hints |-> g[x]]
    OBVIOUS
  <1> HIDE DEF g
  <1>9. g \in [Hints -> Nodes]
    BY <1>5, <1>7, <1>8
  <1> QED
    BY <1>3, <1>4, <1>5, <1>9 DEF g

\* nodes[b].nextId = y and nodes[b].prevId = y
WithNext(f, b, y) == [f EXCEPT ![b].nextId = y]
WithPrev(f, b, y) == [f EXCEPT ![b].prevId = y]

\* They are written in nodes that exist.
LEMMA SetNext ==
  ASSUME NEW f \in [Hints -> Nodes], NEW b \in Hints, NEW x \in Hints, NEW z \in Hints,
         f[b] = Node(x, z), NEW y \in Hints
  PROVE  /\ WithNext(f, b, y) \in [Hints -> Nodes] /\ WithNext(f, b, y)[b] = Node(y, z)
         /\ \A c \in Hints : c # b => WithNext(f, b, y)[c] = f[c]
  <1> DEFINE g == WithNext(f, b, y)
  <1>1. f[b].exists /\ f[b].prevId = z
    BY NodeFields
  <1> DEFINE m == [exists |-> f[b].exists, nextId |-> y, prevId |-> f[b].prevId]
  <1>2. g[b] = m /\ g \in [Hints -> Nodes] /\ \A c \in Hints : c # b => g[c] = f[c]
    BY DEF Nodes, WithNext
  <1> HIDE DEF g
  <1>3. m \in Nodes
    BY <1>2
  <1>4. m.exists /\ m.nextId = y /\ m.prevId = z
    BY <1>1
  <1> HIDE DEF m
  <1>5. m = Node(y, z)
    BY <1>3, <1>4, NodeFields
  <1> QED
    BY <1>2, <1>5 DEF g

LEMMA SetPrev ==
  ASSUME NEW f \in [Hints -> Nodes], NEW b \in Hints, NEW x \in Hints, NEW z \in Hints,
         f[b] = Node(x, z), NEW y \in Hints
  PROVE  /\ WithPrev(f, b, y) \in [Hints -> Nodes] /\ WithPrev(f, b, y)[b] = Node(x, y)
         /\ \A c \in Hints : c # b => WithPrev(f, b, y)[c] = f[c]
  <1> DEFINE g == WithPrev(f, b, y)
  <1>1. f[b].exists /\ f[b].nextId = x
    BY NodeFields
  <1> DEFINE m == [exists |-> f[b].exists, nextId |-> f[b].nextId, prevId |-> y]
  <1>2. g[b] = m /\ g \in [Hints -> Nodes] /\ \A c \in Hints : c # b => g[c] = f[c]
    BY DEF Nodes, WithPrev
  <1> HIDE DEF g
  <1>3. m \in Nodes
    BY <1>2
  <1>4. m.exists /\ m.nextId = x /\ m.prevId = y
    BY <1>1
  <1> HIDE DEF m
  <1>5. m = Node(x, y)
    BY <1>3, <1>4, NodeFields
  <1> QED
    BY <1>2, <1>5 DEF g

-----------------------------------------------------------------------------
(* Inserting and removing *)

\* What _insert leaves: the new node between its neighbours, which point to it.
Inserted(d, w, b, p, q) ==
  /\ w = [head |-> IF p = NoId THEN b ELSE d.head, tail |-> IF q = NoId THEN b ELSE d.tail,
          size |-> d.size + 1, nodes |-> w.nodes]
  /\ w.nodes \in [Hints -> Nodes]
  /\ w.nodes[b] = Node(q, p)
  /\ p # NoId => w.nodes[p] = Node(b, d.nodes[p].prevId)
  /\ q # NoId => w.nodes[q] = Node(d.nodes[q].nextId, b)
  /\ \A x \in Hints : x = NoId \/ x \notin {b, p, q} => w.nodes[x] = d.nodes[x]

\* linkNode, case by case, with the neighbours p and q.
LEMMA LinkInserts ==
  ASSUME NEW d, d = [head |-> d.head, tail |-> d.tail, size |-> d.size, nodes |-> d.nodes],
         d.nodes \in [Hints -> Nodes],
         NEW b \in Hints, NEW p \in Hints, NEW q \in Hints, b \notin {NoId, p, q},
         d.nodes[b] = EmptyNode,
         p # NoId => p # q /\ d.nodes[p] = Node(q, d.nodes[p].prevId),
         q # NoId => d.nodes[q] = Node(d.nodes[q].nextId, p),
         p = NoId /\ q # NoId => d.head = q,
         p # NoId /\ q = NoId => d.tail = p
  PROVE  Inserted(d, linkNode(d, b, p, q), b, p, q)
  <1> DEFINE w == linkNode(d, b, p, q)
             n1 == [d.nodes EXCEPT ![b].exists = TRUE]
  <1>1. NoId \in Hints
    BY DEF Hints
  <1>2. d.nodes[b].nextId = NoId /\ d.nodes[b].prevId = NoId
    BY DEF EmptyNode
  <1>3. /\ n1 \in [Hints -> Nodes] /\ n1[b] = Node(NoId, NoId)
        /\ \A x \in Hints : x # b => n1[x] = d.nodes[x]
    BY <1>2, MarkNode
  <1>4. \A x \in Hints : d.nodes[x].nextId \in Hints /\ d.nodes[x].prevId \in Hints
    BY DEF Nodes
  <1>5. CASE p = NoId /\ q = NoId
    <2>1. w = [head |-> b, tail |-> b, size |-> d.size + 1, nodes |-> n1]
      BY <1>5 DEF linkNode
    <2> HIDE DEF n1, w
    <2> QED
      BY <1>3, <1>5, <2>1 DEF Inserted, w
  <1>6. CASE p = NoId /\ q # NoId
    <2> DEFINE n2 == [n1 EXCEPT ![b].nextId = d.head]
               nn == [n2 EXCEPT ![d.head].prevId = b]
    <2>1. w = [head |-> b, tail |-> d.tail, size |-> d.size + 1, nodes |-> nn]
      BY <1>6 DEF linkNode
    <2>2. d.head = q
      BY <1>6
    <2> HIDE DEF n1, w
    <2>8. n2 = WithNext(n1, b, q) /\ nn = WithPrev(n2, q, b)
      BY <2>2 DEF WithNext, WithPrev
    <2> HIDE DEF n2, nn
    <2>3. /\ n2 \in [Hints -> Nodes] /\ n2[b] = Node(q, NoId)
          /\ \A x \in Hints : x # b => n2[x] = n1[x]
      BY <1>1, <1>3, <2>8, SetNext
    <2>4. n2[q] = Node(d.nodes[q].nextId, NoId)
      BY <1>3, <1>6, <2>3
    <2>5. /\ nn \in [Hints -> Nodes] /\ nn[q] = Node(d.nodes[q].nextId, b)
          /\ \A x \in Hints : x # q => nn[x] = n2[x]
      BY <1>1, <1>4, <2>3, <2>4, <2>8, SetPrev
    <2>6. nn[b] = Node(q, NoId)
      BY <2>3, <2>5
    <2>7. \A x \in Hints : x # b /\ x # q => nn[x] = d.nodes[x]
      BY <1>3, <2>3, <2>5
    <2> QED
      BY <1>6, <2>1, <2>5, <2>6, <2>7 DEF Inserted, w
  <1>7. CASE p # NoId /\ q = NoId
    <2> DEFINE n2 == [n1 EXCEPT ![b].prevId = d.tail]
               nn == [n2 EXCEPT ![d.tail].nextId = b]
    <2>1. w = [head |-> d.head, tail |-> b, size |-> d.size + 1, nodes |-> nn]
      BY <1>7 DEF linkNode
    <2>2. d.tail = p
      BY <1>7
    <2> HIDE DEF n1, w
    <2>8. n2 = WithPrev(n1, b, p) /\ nn = WithNext(n2, p, b)
      BY <2>2 DEF WithNext, WithPrev
    <2> HIDE DEF n2, nn
    <2>3. /\ n2 \in [Hints -> Nodes] /\ n2[b] = Node(NoId, p)
          /\ \A x \in Hints : x # b => n2[x] = n1[x]
      BY <1>1, <1>3, <2>8, SetPrev
    <2>4. n2[p] = Node(NoId, d.nodes[p].prevId)
      BY <1>3, <1>7, <2>3
    <2>5. /\ nn \in [Hints -> Nodes] /\ nn[p] = Node(b, d.nodes[p].prevId)
          /\ \A x \in Hints : x # p => nn[x] = n2[x]
      BY <1>1, <1>4, <2>3, <2>4, <2>8, SetNext
    <2>6. nn[b] = Node(NoId, p)
      BY <2>3, <2>5
    <2>7. \A x \in Hints : x # b /\ x # p => nn[x] = d.nodes[x]
      BY <1>3, <2>3, <2>5
    <2> QED
      BY <1>7, <2>1, <2>5, <2>6, <2>7 DEF Inserted, w
  <1>8. CASE p # NoId /\ q # NoId
    <2> DEFINE n2 == [n1 EXCEPT ![b] = Node(q, p)]
               n3 == [n2 EXCEPT ![p].nextId = b]
               nn == [n3 EXCEPT ![q].prevId = b]
    <2>1. w = [head |-> d.head, tail |-> d.tail, size |-> d.size + 1, nodes |-> nn]
      BY <1>8 DEF linkNode, Node
    <2> HIDE DEF n1, w
    <2>3. /\ n2 \in [Hints -> Nodes] /\ n2[b] = Node(q, p)
          /\ \A x \in Hints : x # b => n2[x] = n1[x]
      BY <1>3, NodeFields
    <2>2. n3 = WithNext(n2, p, b) /\ nn = WithPrev(n3, q, b)
      BY DEF WithNext, WithPrev
    <2> HIDE DEF n2, n3, nn
    <2>4. n2[p] = Node(q, d.nodes[p].prevId) /\ n2[q] = Node(d.nodes[q].nextId, p)
      BY <1>3, <1>8, <2>3
    <2>5. /\ n3 \in [Hints -> Nodes] /\ n3[p] = Node(b, d.nodes[p].prevId)
          /\ \A x \in Hints : x # p => n3[x] = n2[x]
      BY <1>4, <2>2, <2>3, <2>4, SetNext
    <2>6. n3[q] = Node(d.nodes[q].nextId, p)
      BY <1>8, <2>4, <2>5
    <2>7. /\ nn \in [Hints -> Nodes] /\ nn[q] = Node(d.nodes[q].nextId, b)
          /\ \A x \in Hints : x # q => nn[x] = n3[x]
      BY <1>4, <2>2, <2>5, <2>6, SetPrev
    <2>8. nn[b] = Node(q, p) /\ nn[p] = Node(b, d.nodes[p].prevId)
      BY <1>8, <2>3, <2>5, <2>7
    <2>9. \A x \in Hints : x # b /\ x # p /\ x # q => nn[x] = d.nodes[x]
      BY <1>3, <2>3, <2>5, <2>7
    <2> QED
      BY <1>8, <2>1, <2>7, <2>8, <2>9 DEF Inserted, w
  <1> QED
    BY <1>5, <1>6, <1>7, <1>8

\* What _remove leaves: the neighbours of the node point to each other.
Removed(d, w, b, p, q) ==
  /\ w = [head |-> IF p = NoId THEN q ELSE d.head, tail |-> IF q = NoId THEN p ELSE d.tail,
          size |-> d.size - 1, nodes |-> w.nodes]
  /\ w.nodes \in [Hints -> Nodes]
  /\ w.nodes[b] = EmptyNode
  /\ p # NoId => w.nodes[p] = Node(q, d.nodes[p].prevId)
  /\ q # NoId => w.nodes[q] = Node(d.nodes[q].nextId, p)
  /\ \A x \in Hints : x = NoId \/ x \notin {b, p, q} => w.nodes[x] = d.nodes[x]

\* removeNode, case by case, with the neighbours p and q.
LEMMA UnlinkRemoves ==
  ASSUME NEW d, d = [head |-> d.head, tail |-> d.tail, size |-> d.size, nodes |-> d.nodes],
         d.nodes \in [Hints -> Nodes], d.size \in Nat,
         NEW b \in Hints, NEW p \in Hints, NEW q \in Hints, b \notin {NoId, p, q},
         d.nodes[b].nextId = q, d.nodes[b].prevId = p,
         p # NoId => p # q /\ d.nodes[p] = Node(b, d.nodes[p].prevId),
         q # NoId => d.nodes[q] = Node(d.nodes[q].nextId, b),
         p = NoId <=> b = d.head, q = NoId <=> b = d.tail,
         p = NoId /\ q = NoId <=> d.size <= 1
  PROVE  Removed(d, removeNode(d, b), b, p, q)
  <1> DEFINE w == removeNode(d, b)
  <1>1. NoId \in Hints
    BY DEF Hints
  <1>2. EmptyNode \in Nodes
    BY DEF EmptyNode, Nodes, Hints
  <1>3. \A x \in Hints : d.nodes[x].nextId \in Hints /\ d.nodes[x].prevId \in Hints
    BY DEF Nodes
  <1>4. CASE p = NoId /\ q = NoId
    <2> DEFINE nn == [d.nodes EXCEPT ![b] = EmptyNode]
    <2>1. w = [head |-> NoId, tail |-> NoId, size |-> d.size - 1, nodes |-> nn]
      <3>1. d.size <= 1 /\ ~(d.size > 1)
        BY <1>4
      <3> QED
        BY <3>1 DEF removeNode
    <2>2. /\ nn \in [Hints -> Nodes] /\ nn[b] = EmptyNode
          /\ \A x \in Hints : x # b => nn[x] = d.nodes[x]
      BY <1>2
    <2> HIDE DEF nn, w
    <2> QED
      BY <1>4, <2>1, <2>2 DEF Removed, w
  <1>5. CASE p = NoId /\ q # NoId
    <2> DEFINE n2 == WithPrev(d.nodes, q, NoId)
               nn == [n2 EXCEPT ![b] = EmptyNode]
    <2>1. w = [head |-> q, tail |-> d.tail, size |-> d.size - 1, nodes |-> nn]
      <3>1. d.size > 1 /\ ~(d.size <= 1) /\ b = d.head
        BY <1>5
      <3> QED
        BY <3>1 DEF removeNode, WithPrev
    <2>2. /\ n2 \in [Hints -> Nodes] /\ n2[q] = Node(d.nodes[q].nextId, NoId)
          /\ \A x \in Hints : x # q => n2[x] = d.nodes[x]
      BY <1>1, <1>3, <1>5, SetPrev
    <2> HIDE DEF n2
    <2>3. /\ nn \in [Hints -> Nodes] /\ nn[b] = EmptyNode
          /\ \A x \in Hints : x # b => nn[x] = n2[x]
      BY <1>2, <2>2
    <2> HIDE DEF nn, w
    <2> QED
      BY <1>5, <2>1, <2>2, <2>3 DEF Removed, w
  <1>6. CASE p # NoId /\ q = NoId
    <2> DEFINE n2 == WithNext(d.nodes, p, NoId)
               nn == [n2 EXCEPT ![b] = EmptyNode]
    <2>1. w = [head |-> d.head, tail |-> p, size |-> d.size - 1, nodes |-> nn]
      <3>1. d.size > 1 /\ ~(d.size <= 1) /\ b # d.head /\ b = d.tail
        BY <1>6
      <3> QED
        BY <3>1 DEF removeNode, WithNext
    <2>2. /\ n2 \in [Hints -> Nodes] /\ n2[p] = Node(NoId, d.nodes[p].prevId)
          /\ \A x \in Hints : x # p => n2[x] = d.nodes[x]
      BY <1>1, <1>3, <1>6, SetNext
    <2> HIDE DEF n2
    <2>3. /\ nn \in [Hints -> Nodes] /\ nn[b] = EmptyNode
          /\ \A x \in Hints : x # b => nn[x] = n2[x]
      BY <1>2, <2>2
    <2> HIDE DEF nn, w
    <2> QED
      BY <1>6, <2>1, <2>2, <2>3 DEF Removed, w
  <1>7. CASE p # NoId /\ q # NoId
    <2> DEFINE n2 == WithNext(d.nodes, p, q)
               n3 == WithPrev(n2, q, p)
               nn == [n3 EXCEPT ![b] = EmptyNode]
    <2>1. w = [head |-> d.head, tail |-> d.tail, size |-> d.size - 1, nodes |-> nn]
      BY <1>7 DEF removeNode, WithNext, WithPrev
    <2>2. /\ n2 \in [Hints -> Nodes] /\ n2[p] = Node(q, d.nodes[p].prevId)
          /\ \A x \in Hints : x # p => n2[x] = d.nodes[x]
      BY <1>1, <1>3, <1>7, SetNext
    <2> HIDE DEF n2
    <2>3. n2[q] = Node(d.nodes[q].nextId, b)
      BY <1>7, <2>2
    <2>4. /\ n3 \in [Hints -> Nodes] /\ n3[q] = Node(d.nodes[q].nextId, p)
          /\ \A x \in Hints : x # q => n3[x] = n2[x]
      BY <1>3, <1>7, <2>2, <2>3, SetPrev
    <2> HIDE DEF n3
    <2>5. /\ nn \in [Hints -> Nodes] /\ nn[b] = EmptyNode
          /\ \A x \in Hints : x # b => nn[x] = n3[x]
      BY <1>2, <2>4
    <2> HIDE DEF nn, w
    <2> QED
      BY <1>7, <2>1, <2>2, <2>4, <2>5 DEF Removed, w
  <1> QED
    BY <1>4, <1>5, <1>6, <1>7

-----------------------------------------------------------------------------
(* The list and its sequence *)

\* The sequence with one trove more.
LEMMA PlacedList ==
  ASSUME NEW s, IsList(s), NEW b \in Ids, \A i \in 1..Len(s) : s[i] # b,
         NEW pos \in 1..Len(s) + 1
  PROVE  LET v == placeAt(s, b, pos)
         IN  /\ IsList(v) /\ Len(v) = Len(s) + 1 /\ v[pos] = b
             /\ \A j \in Int : At(v, j) = IF j = pos THEN b
                                          ELSE At(s, IF j < pos THEN j ELSE j - 1)
  <1> DEFINE n == Len(s)
             v == placeAt(s, b, pos)
  <1>0. /\ n \in Nat /\ pos \in 1..n + 1
        /\ \A i \in 1..n : s[i] \in Ids /\ s[i] # b
        /\ \A i, j \in 1..n : s[i] = s[j] => i = j
    BY ListParts
  <1>1. v = [j \in 1..n + 1 |-> IF j = pos THEN b ELSE s[IF j < pos THEN j ELSE j - 1]]
    BY DEF placeAt
  <1> HIDE DEF v, n
  <1>2. v[pos] = b
    BY <1>0, <1>1
  <1>3. \A j \in 1..n + 1 : j # pos => /\ v[j] = s[IF j < pos THEN j ELSE j - 1]
                                       /\ (IF j < pos THEN j ELSE j - 1) \in 1..n
    BY <1>0, <1>1
  <1>4. \A j \in 1..n + 1 : v[j] \in Ids /\ (j # pos => v[j] # b)
    BY <1>0, <1>2, <1>3
  <1>5. v \in [1..n + 1 -> Ids]
    BY <1>1, <1>4
  <1>6. v \in Seq(Ids) /\ Len(v) = n + 1
    BY <1>0, <1>5
  <1>7. \A i, j \in 1..n + 1 : v[i] = v[j] => i = j
    <2> SUFFICES ASSUME NEW i \in 1..n + 1, NEW j \in 1..n + 1, v[i] = v[j] PROVE i = j
      OBVIOUS
    <2>1. CASE i = pos \/ j = pos
      BY <1>2, <1>4, <2>1
    <2>2. CASE i # pos /\ j # pos
      <3>1. (IF i < pos THEN i ELSE i - 1) = (IF j < pos THEN j ELSE j - 1)
        BY <1>0, <1>3, <2>2
      <3> QED
        BY <1>0, <2>2, <3>1
    <2> QED
      BY <2>1, <2>2
  <1>8. ASSUME NEW j \in Int
        PROVE  At(v, j) = IF j = pos THEN b ELSE At(s, IF j < pos THEN j ELSE j - 1)
    <2>1. CASE j = pos
      BY <1>0, <1>2, <1>6, <2>1 DEF At
    <2>2. CASE j # pos /\ j \in 1..n + 1
      <3> DEFINE k == IF j < pos THEN j ELSE j - 1
      <3>1. v[j] = s[k] /\ k \in 1..n
        BY <1>3, <2>2
      <3> HIDE DEF k
      <3>2. At(v, j) = v[j] /\ At(s, k) = s[k]
        BY <1>6, <2>2, <3>1 DEF At, n
      <3> QED
        BY <2>2, <3>1, <3>2 DEF k
    <2>3. CASE j \notin 1..n + 1
      <3> DEFINE k == IF j < pos THEN j ELSE j - 1
      <3>1. k \notin 1..n /\ j # pos
        BY <1>0, <2>3
      <3> HIDE DEF k
      <3>2. At(v, j) = NoId /\ At(s, k) = NoId
        BY <1>6, <2>3, <3>1 DEF At, n
      <3> QED
        BY <3>1, <3>2 DEF k
    <2> QED
      BY <2>1, <2>2, <2>3
  <1>9. IsList(v)
    BY <1>6, <1>7 DEF IsList
  <1> QED
    BY <1>2, <1>6, <1>8, <1>9 DEF v, n

\* The sequence with one trove less.
LEMMA WithoutList ==
  ASSUME NEW s, IsList(s), NEW i \in 1..Len(s)
  PROVE  LET v == Without(s[i], s)
         IN  /\ IsList(v) /\ Len(v) = Len(s) - 1
             /\ \A j \in Int : At(v, j) = At(s, IF j < i THEN j ELSE j + 1)
             /\ \A j \in 1..Len(v) : v[j] # s[i]
  <1> DEFINE n == Len(s)
             at == CHOOSE k \in 1..n : s[k] = s[i]
             v == Without(s[i], s)
  <1>0. /\ n \in Nat /\ i \in 1..n
        /\ \A k \in 1..n : s[k] \in Ids
        /\ \A j, k \in 1..n : s[j] = s[k] => j = k
    BY ListParts
  <1>1. at = i
    BY <1>0
  <1>2. v = [j \in 1..n - 1 |-> s[IF j < at THEN j ELSE j + 1]]
    BY <1>0 DEF Without
  <1> HIDE DEF at, v, n
  <1>3. n - 1 \in Nat
    BY <1>0
  <1>4. \A j \in 1..n - 1 : /\ v[j] = s[IF j < i THEN j ELSE j + 1]
                            /\ (IF j < i THEN j ELSE j + 1) \in 1..n
                            /\ (IF j < i THEN j ELSE j + 1) # i
    BY <1>0, <1>1, <1>2
  <1>5. \A j \in 1..n - 1 : v[j] \in Ids /\ v[j] # s[i]
    BY <1>0, <1>4
  <1>6. v \in [1..n - 1 -> Ids]
    BY <1>2, <1>5
  <1>7. v \in Seq(Ids) /\ Len(v) = n - 1
    BY <1>3, <1>6
  <1>8. \A j, k \in 1..n - 1 : v[j] = v[k] => j = k
    <2> SUFFICES ASSUME NEW j \in 1..n - 1, NEW k \in 1..n - 1, v[j] = v[k] PROVE j = k
      OBVIOUS
    <2>1. (IF j < i THEN j ELSE j + 1) = (IF k < i THEN k ELSE k + 1)
      BY <1>0, <1>4
    <2> QED
      BY <1>0, <2>1
  <1>9. ASSUME NEW j \in Int
        PROVE  At(v, j) = At(s, IF j < i THEN j ELSE j + 1)
    <2> DEFINE k == IF j < i THEN j ELSE j + 1
    <2>1. CASE j \in 1..n - 1
      <3>1. v[j] = s[k] /\ k \in 1..n
        BY <1>4, <2>1
      <3> HIDE DEF k
      <3>2. At(v, j) = v[j] /\ At(s, k) = s[k]
        BY <1>7, <2>1, <3>1 DEF At, n
      <3> QED
        BY <3>1, <3>2 DEF k
    <2>2. CASE j \notin 1..n - 1
      <3>1. k \notin 1..n
        BY <1>0, <2>2
      <3> HIDE DEF k
      <3>2. At(v, j) = NoId /\ At(s, k) = NoId
        BY <1>7, <2>2, <3>1 DEF At, n
      <3> QED
        BY <3>2 DEF k
    <2> QED
      BY <2>1, <2>2
  <1>10. IsList(v)
    BY <1>7, <1>8 DEF IsList
  <1> QED
    BY <1>5, <1>7, <1>9, <1>10 DEF v, n

\* _insert puts the new trove at its place in the sequence.
LEMMA InsertedIsLinked ==
  ASSUME NEW d, NEW s, Linked(d, s), NEW b \in Ids, \A i \in 1..Len(s) : s[i] # b,
         NEW pos \in 1..Len(s) + 1
  PROVE  Linked(linkNode(d, b, At(s, pos - 1), At(s, pos)), placeAt(s, b, pos))
  <1> DEFINE n == Len(s)
             p == At(s, pos - 1)
             q == At(s, pos)
             w == linkNode(d, b, p, q)
             v == placeAt(s, b, pos)
  <1>0. IsList(s)
    BY DEF Linked
  <1>1. /\ n \in Nat /\ pos \in 1..n + 1
        /\ \A i \in 1..n : s[i] \in Ids /\ s[i] # NoId /\ At(s, i) = s[i] /\ s[i] # b
        /\ \A i \in Int : At(s, i) \in Hints /\ (At(s, i) = NoId <=> i \notin 1..n)
        /\ \A i, j \in 1..n : s[i] = s[j] => i = j
    BY <1>0, ListParts
  <1>2. /\ d = [head |-> d.head, tail |-> d.tail, size |-> d.size, nodes |-> d.nodes]
        /\ d.head = At(s, 1) /\ d.tail = At(s, n) /\ d.size = n
        /\ d.nodes \in [Hints -> Nodes]
        /\ \A i \in 1..n : d.nodes[s[i]] = Node(At(s, i + 1), At(s, i - 1))
        /\ \A c \in Hints : (\A i \in 1..n : s[i] # c) => d.nodes[c] = EmptyNode
    BY DEF Linked, NodesLink
  <1>3. b # NoId /\ b \in Hints
    BY RegistryAssumption DEF Hints
  <1> HIDE DEF n
  <1>4. /\ p \in Hints /\ q \in Hints
        /\ p # NoId => pos - 1 \in 1..n /\ p = s[pos - 1] /\ (pos - 1) + 1 = pos
        /\ q # NoId => pos \in 1..n /\ q = s[pos]
    BY <1>1
  <1>5. /\ b \notin {NoId, p, q} /\ (p # NoId => p # q) /\ d.nodes[b] = EmptyNode
        /\ p = NoId /\ q # NoId => d.head = q
        /\ p # NoId /\ q = NoId => d.tail = p
    BY <1>1, <1>2, <1>3, <1>4
  <1>6. /\ p # NoId => d.nodes[p] = Node(q, At(s, pos - 2))
        /\ q # NoId => d.nodes[q] = Node(At(s, pos + 1), p)
    <2>1. (pos - 1) - 1 = pos - 2 /\ (pos - 1) + 1 = pos
      BY <1>1
    <2> QED
      BY <1>2, <1>4, <2>1
  <1>7. At(s, pos - 2) \in Hints /\ At(s, pos + 1) \in Hints
    BY <1>1
  <1>8. /\ p # NoId => d.nodes[p].prevId = At(s, pos - 2)
        /\ q # NoId => d.nodes[q].nextId = At(s, pos + 1)
    BY <1>4, <1>6, <1>7, NodeFields
  <1> HIDE DEF p, q
  <1>9. Inserted(d, w, b, p, q)
    BY <1>2, <1>3, <1>4, <1>5, <1>6, <1>8, LinkInserts
  <1>10. /\ w = [head |-> IF p = NoId THEN b ELSE d.head,
                 tail |-> IF q = NoId THEN b ELSE d.tail, size |-> n + 1, nodes |-> w.nodes]
         /\ w.nodes \in [Hints -> Nodes]
         /\ w.nodes[b] = Node(q, p)
         /\ p # NoId => w.nodes[p] = Node(b, At(s, pos - 2))
         /\ q # NoId => w.nodes[q] = Node(At(s, pos + 1), b)
         /\ \A x \in Hints : x = NoId \/ x \notin {b, p, q} => w.nodes[x] = d.nodes[x]
    BY <1>2, <1>8, <1>9 DEF Inserted
  <1>11. /\ IsList(v) /\ Len(v) = n + 1 /\ v[pos] = b
         /\ \A j \in Int : At(v, j) = IF j = pos THEN b
                                      ELSE At(s, IF j < pos THEN j ELSE j - 1)
    BY <1>0, PlacedList DEF n
  <1> HIDE DEF w, v
  <1>12. \A k \in 1..n + 1 : v[k] = At(v, k)
    BY <1>11 DEF At
  <1>13. At(v, 1) = (IF p = NoId THEN b ELSE d.head) /\ At(v, n + 1) = (IF q = NoId THEN b ELSE d.tail)
    <2>1. p = NoId <=> pos = 1
      BY <1>1 DEF p
    <2>2. q = NoId <=> pos = n + 1
      BY <1>1 DEF q
    <2>3. At(v, 1) = IF pos = 1 THEN b ELSE At(s, 1)
      BY <1>1, <1>11
    <2>4. At(v, n + 1) = IF pos = n + 1 THEN b ELSE At(s, n)
      <3>1. (n + 1) - 1 = n /\ n + 1 \in Int /\ ~(n + 1 < pos)
        BY <1>1
      <3> QED
        BY <1>11, <3>1
    <2> QED
      BY <1>2, <2>1, <2>2, <2>3, <2>4
  <1>14. ASSUME NEW k \in 1..n + 1 PROVE w.nodes[v[k]] = Node(At(v, k + 1), At(v, k - 1))
    <2>1. CASE k = pos
      <3>1. At(v, pos + 1) = q /\ At(v, pos - 1) = p
        BY <1>1, <1>11 DEF p, q
      <3> QED
        BY <1>10, <1>11, <2>1, <3>1
    <2>2. CASE k = pos - 1
      <3>1. At(v, k) = p /\ At(v, k + 1) = b /\ At(v, k - 1) = At(s, pos - 2)
        BY <1>1, <1>11, <2>2 DEF p
      <3>2. p # NoId
        BY <1>1, <2>2 DEF p
      <3> QED
        BY <1>10, <1>12, <3>1, <3>2
    <2>3. CASE k = pos + 1
      <3>1. At(v, k) = q /\ At(v, k + 1) = At(s, pos + 1) /\ At(v, k - 1) = b
        BY <1>1, <1>11, <2>3 DEF q
      <3>2. q # NoId
        BY <1>1, <2>3 DEF q
      <3> QED
        BY <1>10, <1>12, <3>1, <3>2
    <2>4. CASE k < pos - 1
      <3>1. k \in 1..n /\ At(v, k) = s[k] /\ At(v, k + 1) = At(s, k + 1) /\ At(v, k - 1) = At(s, k - 1)
        BY <1>1, <1>11, <2>4
      <3>2. s[k] \notin {b, p, q} /\ s[k] \in Hints
        BY <1>1, <1>4, <2>4, <3>1 DEF Hints
      <3> QED
        BY <1>2, <1>10, <1>12, <3>1, <3>2
    <2>5. CASE k > pos + 1
      <3>1. /\ k - 1 \in 1..n /\ At(v, k) = s[k - 1]
            /\ At(v, k + 1) = At(s, (k - 1) + 1) /\ At(v, k - 1) = At(s, (k - 1) - 1)
        BY <1>1, <1>11, <2>5
      <3>2. s[k - 1] \notin {b, p, q} /\ s[k - 1] \in Hints
        BY <1>1, <1>4, <2>5, <3>1 DEF Hints
      <3> QED
        BY <1>2, <1>10, <1>12, <3>1, <3>2
    <2> QED
      BY <1>1, <2>1, <2>2, <2>3, <2>4, <2>5
  <1>15. ASSUME NEW c \in Hints, \A k \in 1..n + 1 : v[k] # c PROVE w.nodes[c] = EmptyNode
    <2>1. \A i \in 1..n : s[i] # c
      <3> SUFFICES ASSUME NEW i \in 1..n PROVE s[i] # c
        OBVIOUS
      <3>1. CASE i < pos
        <4>1. i \in 1..n + 1 /\ At(v, i) = s[i]
          BY <1>1, <1>11, <3>1
        <4> QED
          BY <1>12, <1>15, <4>1
      <3>2. CASE ~(i < pos)
        <4>1. i + 1 \in 1..n + 1 /\ At(v, i + 1) = s[i]
          BY <1>1, <1>11, <3>2
        <4> QED
          BY <1>12, <1>15, <4>1
      <3> QED
        BY <3>1, <3>2
    <2>2. c # b
      BY <1>1, <1>11, <1>15
    <2>3. CASE c = NoId
      BY <1>2, <1>10, <2>1, <2>3
    <2>4. CASE c # NoId
      <3>1. c \notin {b, p, q}
        BY <1>4, <2>1, <2>2, <2>4
      <3> QED
        BY <1>2, <1>10, <2>1, <3>1
    <2> QED
      BY <2>3, <2>4
  <1>16. NodesLink(w.nodes, v)
    BY <1>10, <1>11, <1>14, <1>15 DEF NodesLink
  <1>17. Linked(w, v)
    BY <1>10, <1>11, <1>13, <1>16 DEF Linked
  <1> QED
    BY <1>17 DEF w, v, p, q

\* _remove takes the trove out of the sequence.
LEMMA RemovedIsLinked ==
  ASSUME NEW d, NEW s, Linked(d, s), NEW i \in 1..Len(s)
  PROVE  Linked(removeNode(d, s[i]), Without(s[i], s))
  <1> DEFINE n == Len(s)
             b == s[i]
             p == At(s, i - 1)
             q == At(s, i + 1)
             w == removeNode(d, b)
             v == Without(b, s)
  <1>0. IsList(s)
    BY DEF Linked
  <1>1. /\ n \in Nat /\ i \in 1..n
        /\ \A j \in 1..n : s[j] \in Ids /\ s[j] # NoId /\ At(s, j) = s[j]
        /\ \A j \in Int : At(s, j) \in Hints /\ (At(s, j) = NoId <=> j \notin 1..n)
        /\ \A j, k \in 1..n : s[j] = s[k] => j = k
    BY <1>0, ListParts
  <1>2. /\ d = [head |-> d.head, tail |-> d.tail, size |-> d.size, nodes |-> d.nodes]
        /\ d.head = At(s, 1) /\ d.tail = At(s, n) /\ d.size = n
        /\ d.nodes \in [Hints -> Nodes]
        /\ \A j \in 1..n : d.nodes[s[j]] = Node(At(s, j + 1), At(s, j - 1))
        /\ \A c \in Hints : (\A j \in 1..n : s[j] # c) => d.nodes[c] = EmptyNode
    BY DEF Linked, NodesLink
  <1> HIDE DEF n
  <1>3. b # NoId /\ b \in Hints
    BY <1>1 DEF Hints
  <1>4. /\ p \in Hints /\ q \in Hints
        /\ p # NoId => i - 1 \in 1..n /\ p = s[i - 1]
        /\ q # NoId => i + 1 \in 1..n /\ q = s[i + 1]
    BY <1>1
  <1>5. b \notin {NoId, p, q} /\ (p # NoId => p # q)
    BY <1>1, <1>3, <1>4
  <1>6. /\ p # NoId => d.nodes[p] = Node(b, At(s, i - 2))
        /\ q # NoId => d.nodes[q] = Node(At(s, i + 2), b)
        /\ d.nodes[b] = Node(q, p)
    <2>1. (i - 1) - 1 = i - 2 /\ (i - 1) + 1 = i /\ (i + 1) + 1 = i + 2 /\ (i + 1) - 1 = i
      BY <1>1
    <2>2. At(s, i) = b
      BY <1>1
    <2> QED
      BY <1>1, <1>2, <1>4, <2>1, <2>2
  <1>7. At(s, i - 2) \in Hints /\ At(s, i + 2) \in Hints
    BY <1>1
  <1>8. /\ p # NoId => d.nodes[p].prevId = At(s, i - 2)
        /\ q # NoId => d.nodes[q].nextId = At(s, i + 2)
        /\ d.nodes[b].nextId = q /\ d.nodes[b].prevId = p
    BY <1>3, <1>4, <1>6, <1>7, NodeFields
  <1>9. p = NoId <=> i = 1
    BY <1>1
  <1>10. q = NoId <=> i = n
    BY <1>1
  <1>11. 1 \in 1..n /\ n \in 1..n /\ d.head = s[1] /\ d.tail = s[n]
    <2>1. 1 \in 1..n /\ n \in 1..n
      BY <1>1
    <2> QED
      BY <1>1, <1>2, <2>1
  <1>12. /\ p = NoId <=> b = d.head
         /\ q = NoId <=> b = d.tail
         /\ p = NoId /\ q = NoId <=> d.size <= 1
    <2>1. (b = d.head <=> i = 1) /\ (b = d.tail <=> i = n)
      BY <1>1, <1>11
    <2>2. i = 1 /\ i = n <=> n <= 1
      BY <1>1
    <2> QED
      BY <1>2, <1>9, <1>10, <2>1, <2>2
  <1>13. d.size \in Nat
    BY <1>1, <1>2
  <1> HIDE DEF p, q, b
  <1>14. Removed(d, w, b, p, q)
    BY <1>2, <1>3, <1>4, <1>5, <1>6, <1>8, <1>12, <1>13, UnlinkRemoves
  <1>15. /\ w = [head |-> IF p = NoId THEN q ELSE d.head,
                 tail |-> IF q = NoId THEN p ELSE d.tail, size |-> n - 1, nodes |-> w.nodes]
         /\ w.nodes \in [Hints -> Nodes]
         /\ w.nodes[b] = EmptyNode
         /\ p # NoId => w.nodes[p] = Node(q, At(s, i - 2))
         /\ q # NoId => w.nodes[q] = Node(At(s, i + 2), p)
         /\ \A x \in Hints : x = NoId \/ x \notin {b, p, q} => w.nodes[x] = d.nodes[x]
    BY <1>2, <1>8, <1>14 DEF Removed
  <1>16. /\ IsList(v) /\ Len(v) = n - 1
         /\ \A j \in Int : At(v, j) = At(s, IF j < i THEN j ELSE j + 1)
    BY <1>0, WithoutList DEF n, b
  <1>23. \A j \in Int : /\ j < i => At(v, j) = At(s, j)
                        /\ j >= i => At(v, j) = At(s, j + 1)
    <2>1. ASSUME NEW j \in Int PROVE j >= i => ~(j < i)
      BY <1>1
    <2> HIDE DEF v
    <2> QED
      BY <1>16, <2>1
  <1>24. i \in Int /\ n \in Int
    BY <1>1
  <1> HIDE DEF w, v
  <1>17. \A k \in 1..n - 1 : v[k] = At(v, k)
    BY <1>16 DEF At
  <1>18. /\ At(v, 1) = IF p = NoId THEN q ELSE d.head
         /\ At(v, n - 1) = IF q = NoId THEN p ELSE d.tail
    <2>1. At(v, 1) = IF i = 1 THEN At(s, i + 1) ELSE At(s, 1)
      <3>1. 1 \in Int /\ (i = 1 => 1 >= i) /\ (i # 1 => 1 < i)
        BY <1>1
      <3> QED
        BY <1>23, <3>1
    <2>2. At(v, n - 1) = IF i = n THEN At(s, i - 1) ELSE At(s, n)
      <3>1. (n - 1) + 1 = n /\ n - 1 \in Int /\ (n - 1 < i <=> i = n)
        BY <1>1
      <3> QED
        BY <1>16, <3>1
    <2> QED
      BY <1>2, <1>9, <1>10, <2>1, <2>2 DEF p, q
  <1>19. ASSUME NEW k \in 1..n - 1 PROVE w.nodes[v[k]] = Node(At(v, k + 1), At(v, k - 1))
    <2>1. CASE k = i - 1
      <3>1. At(v, k) = p /\ At(v, k + 1) = q /\ At(v, k - 1) = At(s, i - 2)
        <4>1. /\ k \in Int /\ k + 1 \in Int /\ k - 1 \in Int /\ k < i /\ k - 1 < i /\ k + 1 >= i
              /\ k = i - 1 /\ (k + 1) + 1 = i + 1 /\ k - 1 = i - 2
          BY <1>24, <2>1
        <4> QED
          BY <1>23, <4>1 DEF p, q
      <3>2. p # NoId
        BY <1>1, <1>9, <2>1
      <3> QED
        BY <1>15, <1>17, <3>1, <3>2
    <2>2. CASE k = i
      <3>1. At(v, k) = q /\ At(v, k + 1) = At(s, i + 2) /\ At(v, k - 1) = p
        BY <1>1, <1>16, <2>2 DEF p, q
      <3>2. q # NoId
        BY <1>1, <1>10, <2>2
      <3> QED
        BY <1>15, <1>17, <3>1, <3>2
    <2>3. CASE k < i - 1
      <3>1. k \in 1..n /\ At(v, k) = s[k] /\ At(v, k + 1) = At(s, k + 1) /\ At(v, k - 1) = At(s, k - 1)
        <4>1. /\ k \in 1..n /\ k \in Int /\ k + 1 \in Int /\ k - 1 \in Int
              /\ k < i /\ k - 1 < i /\ k + 1 < i
          BY <1>24, <2>3
        <4> QED
          BY <1>1, <1>23, <4>1
      <3>2. s[k] \notin {b, p, q} /\ s[k] \in Hints
        BY <1>1, <1>4, <2>3, <3>1 DEF Hints, b
      <3> QED
        BY <1>2, <1>15, <1>17, <3>1, <3>2
    <2>4. CASE k > i
      <3>1. /\ k + 1 \in 1..n /\ At(v, k) = s[k + 1]
            /\ At(v, k + 1) = At(s, (k + 1) + 1) /\ At(v, k - 1) = At(s, (k + 1) - 1)
        <4>1. /\ k + 1 \in 1..n /\ k \in Int /\ k + 1 \in Int /\ k - 1 \in Int
              /\ k >= i /\ k - 1 >= i /\ k + 1 >= i /\ (k - 1) + 1 = (k + 1) - 1
          BY <1>24, <2>4
        <4> QED
          BY <1>1, <1>23, <4>1
      <3>2. s[k + 1] \notin {b, p, q} /\ s[k + 1] \in Hints
        BY <1>1, <1>4, <2>4, <3>1 DEF Hints, b
      <3> QED
        BY <1>2, <1>15, <1>17, <3>1, <3>2
    <2> QED
      BY <1>1, <2>1, <2>2, <2>3, <2>4
  <1>20. ASSUME NEW c \in Hints, \A k \in 1..n - 1 : v[k] # c PROVE w.nodes[c] = EmptyNode
    <2>1. CASE c = b
      BY <1>15, <2>1
    <2>2. CASE c # b
      <3>1. \A j \in 1..n : s[j] # c
        <4> SUFFICES ASSUME NEW j \in 1..n PROVE s[j] # c
          OBVIOUS
        <4>1. CASE j < i
          <5>0. j \in 1..n - 1 /\ j \in Int
            BY <1>1, <4>1
          <5>1. j \in 1..n - 1 /\ At(v, j) = s[j]
            BY <1>1, <1>23, <4>1, <5>0
          <5> QED
            BY <1>17, <1>20, <5>1
        <4>2. CASE j > i
          <5>1. j - 1 \in 1..n - 1 /\ j - 1 \in Int /\ j - 1 >= i /\ (j - 1) + 1 = j /\ At(s, j) = s[j]
            BY <1>1, <4>2
          <5>2. At(v, j - 1) = s[j]
            BY <1>23, <5>1
          <5> QED
            BY <1>17, <1>20, <5>1, <5>2
        <4>3. CASE j = i
          BY <2>2, <4>3 DEF b
        <4> QED
          BY <1>1, <4>1, <4>2, <4>3
      <3>2. c = NoId \/ c \notin {b, p, q}
        BY <1>4, <2>2, <3>1
      <3> QED
        BY <1>2, <1>15, <3>1, <3>2
    <2> QED
      BY <2>1, <2>2
  <1>21. NodesLink(w.nodes, v)
    BY <1>15, <1>16, <1>19, <1>20 DEF NodesLink
  <1>22. Linked(w, v)
    BY <1>15, <1>16, <1>18, <1>21 DEF Linked
  <1> QED
    BY <1>22 DEF w, v, b

-----------------------------------------------------------------------------
(* Reading the list from its head gives the sequence back. *)

ReadStep(d, c) ==
  IF c.at = NoId THEN c ELSE [at |-> d.nodes[c.at].nextId, seq |-> Append(c.seq, c.at)]

Readings == [at : Hints, seq : Seq(Hints)]

LEMMA ChainReads ==
  ASSUME NEW d, NEW s, Linked(d, s)
  PROVE  \E f : /\ f[0] = [at |-> d.head, seq |-> <<>>]
                /\ \A k \in 1..Cardinality(Ids) : f[k] = ReadStep(d, f[k-1])
                /\ Chain(d) = f[Cardinality(Ids)].seq
  <1> DEFINE N == Cardinality(Ids)
             first == [at |-> d.head, seq |-> <<>>]
             Def(upTo) == [k \in 0..N |->
                IF k = 0
                THEN [at |-> d.head, seq |-> <<>>]
                ELSE LET c == upTo[k-1]
                     IN  IF c.at = NoId
                         THEN c
                         ELSE [at |-> d.nodes[c.at].nextId, seq |-> Append(c.seq, c.at)]]
             step == [c \in Readings |-> ReadStep(d, c)]
  <1>1. N \in Nat
    BY RegistryAssumption, FS_CardinalityType
  <1>2. d.head \in Hints /\ \A b \in Hints : d.nodes[b].nextId \in Hints
    <2>1. IsList(s) /\ d.nodes \in [Hints -> Nodes]
      BY LinkedParts DEF Linked
    <2> QED
      BY <2>1, ListParts, LinkedParts DEF Nodes
  <1>3. first \in Readings
    BY <1>2, EmptySeq DEF Readings
  <1>4. step \in [Readings -> Readings]
    <2> SUFFICES ASSUME NEW c \in Readings PROVE ReadStep(d, c) \in Readings
      OBVIOUS
    <2>1. c.at \in Hints /\ c.seq \in Seq(Hints)
      BY DEF Readings
    <2>2. Append(c.seq, c.at) \in Seq(Hints)
      BY <2>1, AppendProperties
    <2> QED
      BY <1>2, <2>1, <2>2 DEF Readings, ReadStep
  <1>5. \E f : f = Def(f)
    <2>1. PICK f : IsWalk(f, N, Readings, first, step)
      <3> HIDE DEF N, first, step
      <3> QED
        BY <1>1, <1>3, <1>4, WalkExists
    <2>2. f \in [0..N -> Readings] /\ f[0] = first
      BY <2>1 DEF IsWalk
    <2>3. \A k \in 1..N : f[k] = ReadStep(d, f[k-1])
      <3> SUFFICES ASSUME NEW k \in 1..N PROVE f[k] = ReadStep(d, f[k-1])
        OBVIOUS
      <3>1. f[k-1] \in Readings
        BY <1>1, <2>2
      <3> QED
        BY <2>1, <3>1 DEF IsWalk
    <2>4. \A k \in 0..N : k # 0 => k \in 1..N
      BY <1>1
    <2>5. f = Def(f)
      BY <2>2, <2>3, <2>4 DEF ReadStep
    <2> QED
      BY <2>5
  <1>6. Chain(d) = (CHOOSE f : f = Def(f))[N].seq
    BY DEF Chain
  <1> HIDE DEF Def
  <1>7. PICK f : f = Def(f) /\ Chain(d) = f[N].seq
    BY <1>5, <1>6
  <1>8. f = [k \in 0..N |-> IF k = 0 THEN first ELSE ReadStep(d, f[k-1])]
    BY <1>7 DEF Def, ReadStep
  <1> HIDE DEF first, step, N
  <1>9. f[0] = first
    BY <1>1, <1>8
  <1>10. \A k \in 1..N : f[k] = ReadStep(d, f[k-1])
    BY <1>1, <1>8
  <1> QED
    BY <1>7, <1>9, <1>10 DEF N, first

LEMMA ChainIsList ==
  ASSUME NEW d, NEW s, Linked(d, s)
  PROVE  Chain(d) = s
  <1> DEFINE n == Len(s)
             N == Cardinality(Ids)
             Read(k) == [at |-> At(s, k + 1), seq |-> SubSeq(s, 1, k)]
  <1>0. IsList(s) /\ s \in Seq(Ids)
    BY DEF Linked, IsList
  <1>1. /\ n \in Nat
        /\ \A i \in 1..n : s[i] \in Ids /\ s[i] # NoId /\ At(s, i) = s[i]
        /\ \A i \in Int : At(s, i) = NoId <=> i \notin 1..n
    BY <1>0, ListParts
  <1>2. d.head = At(s, 1) /\ \A i \in 1..n : d.nodes[s[i]].nextId = At(s, i + 1)
    BY LinkedParts
  <1>3. N \in Nat /\ n <= N
    <2>1. N \in Nat
      BY RegistryAssumption, FS_CardinalityType
    <2> QED
      BY <1>0, <1>1, <2>1, ListIsShort, LongestWalkType
  <1>4. PICK f : /\ f[0] = [at |-> d.head, seq |-> <<>>]
                 /\ \A k \in 1..N : f[k] = ReadStep(d, f[k-1])
                 /\ Chain(d) = f[N].seq
    BY ChainReads
  <1> HIDE DEF n, N
  <1> DEFINE T == {k \in Nat : k <= N => f[k] = IF k <= n THEN Read(k) ELSE Read(n)}
  <1>5. 0 \in T
    <2>1. SubSeq(s, 1, 0) = <<>>
      BY <1>0, SubSeqEmpty
    <2>2. Read(0) = [at |-> d.head, seq |-> <<>>]
      BY <1>2, <2>1
    <2> QED
      BY <1>1, <1>4, <2>2
  <1>6. ASSUME NEW k \in Nat, k \in T PROVE k + 1 \in T
    <2> SUFFICES ASSUME k + 1 <= N
                 PROVE  f[k+1] = IF k + 1 <= n THEN Read(k + 1) ELSE Read(n)
      OBVIOUS
    <2>1. k + 1 \in 1..N /\ (k + 1) - 1 = k /\ k <= N
      BY <1>3
    <2>2. f[k+1] = ReadStep(d, f[k]) /\ f[k] = IF k <= n THEN Read(k) ELSE Read(n)
      BY <1>4, <1>6, <2>1
    <2>3. CASE k + 1 <= n
      <3>1. k + 1 \in 1..n /\ k <= n /\ At(s, k + 1) = s[k + 1] /\ s[k + 1] # NoId
        BY <1>1, <2>3
      <3>2. f[k] = Read(k)
        BY <2>2, <3>1
      <3>3. f[k].at = s[k + 1] /\ f[k].seq = SubSeq(s, 1, k)
        BY <3>1, <3>2
      <3>4. f[k+1] = [at |-> At(s, (k + 1) + 1), seq |-> Append(SubSeq(s, 1, k), s[k + 1])]
        BY <1>2, <2>2, <3>1, <3>3 DEF ReadStep
      <3>5. SubSeq(s, 1, k + 1) = Append(SubSeq(s, 1, k), s[k + 1])
        <4>1. 1 \in 1..Len(s) /\ k + 1 \in 1..Len(s) /\ k \in 0..Len(s)
          BY <1>1, <3>1 DEF n
        <4> DEFINE a == SubSeq(s, 1, k + 1)
                   e == Append(SubSeq(s, 1, k), s[k + 1])
        <4>2. a = [i \in 1..k + 1 |-> s[i]]
          BY <1>0, <4>1
        <4>3. SubSeq(s, 1, k) = [i \in 1..k |-> s[i]]
          BY <1>0, <4>1
        <4> QED
          BY <1>0, <4>1, <4>2, <4>3
      <3> QED
        BY <2>3, <3>4, <3>5
    <2>4. CASE ~(k + 1 <= n)
      <3>1. k >= n /\ n + 1 \notin 1..n
        BY <1>1, <2>4
      <3>2. f[k] = Read(n)
        BY <1>1, <2>2, <3>1
      <3>3. f[k].at = NoId
        BY <1>1, <3>1, <3>2
      <3>4. f[k+1] = f[k]
        BY <2>2, <3>3 DEF ReadStep
      <3> QED
        BY <2>4, <3>2, <3>4
    <2> QED
      BY <2>3, <2>4
  <1> HIDE DEF T
  <1>7. \A k \in Nat : k \in T
    BY <1>5, <1>6, SetInduction
  <1>8. f[N] = Read(n)
    <2>1. N \in T
      BY <1>3, <1>7
    <2>2. f[N] = IF N <= n THEN Read(N) ELSE Read(n)
      BY <1>3, <2>1 DEF T
    <2>3. N <= n => N = n
      BY <1>1, <1>3
    <2> HIDE DEF Read
    <2> QED
      BY <2>2, <2>3
  <1>9. SubSeq(s, 1, n) = s
    BY <1>0, SubSeqFull DEF n
  <1> QED
    BY <1>4, <1>8, <1>9

-----------------------------------------------------------------------------
(* The steps *)

In(x, s) == \E i \in 1..Len(s) : s[i] = x

LEMMA PlacedMembers ==
  ASSUME NEW s, IsList(s), NEW b \in Ids, ~In(b, s), NEW pos \in 1..Len(s) + 1, NEW x
  PROVE  In(x, placeAt(s, b, pos)) <=> x = b \/ In(x, s)
  <1> DEFINE n == Len(s)
             v == placeAt(s, b, pos)
  <1>1. n \in Nat /\ pos \in 1..n + 1 /\ \A i \in 1..n : At(s, i) = s[i]
    BY ListParts
  <1>2. /\ IsList(v) /\ Len(v) = n + 1 /\ v[pos] = b
        /\ \A j \in Int : At(v, j) = IF j = pos THEN b ELSE At(s, IF j < pos THEN j ELSE j - 1)
    BY PlacedList DEF In
  <1> HIDE DEF v, n
  <1>3. \A j \in 1..n + 1 : v[j] = At(v, j)
    BY <1>2 DEF At
  <1>4. ASSUME NEW j \in 1..n + 1, v[j] = x PROVE x = b \/ In(x, s)
    <2>1. CASE j = pos
      BY <1>2, <1>4, <2>1
    <2>2. CASE j < pos
      <3>1. j \in 1..n /\ j \in Int /\ j # pos
        BY <1>1, <2>2
      <3>2. x = s[j]
        BY <1>1, <1>2, <1>3, <1>4, <2>2, <3>1
      <3> QED
        BY <3>1, <3>2 DEF In, n
    <2>3. CASE j > pos
      <3>1. j - 1 \in 1..n /\ j \in Int /\ j # pos /\ ~(j < pos)
        BY <1>1, <2>3
      <3>2. x = s[j - 1]
        BY <1>1, <1>2, <1>3, <1>4, <3>1
      <3> QED
        BY <3>1, <3>2 DEF In, n
    <2> QED
      BY <1>1, <2>1, <2>2, <2>3
  <1>5. ASSUME NEW i \in 1..n, s[i] = x PROVE \E j \in 1..n + 1 : v[j] = x
    <2>1. CASE i < pos
      <3>1. i \in 1..n + 1 /\ i \in Int /\ i # pos
        BY <1>1, <2>1
      <3>2. v[i] = x
        BY <1>1, <1>2, <1>3, <1>5, <2>1, <3>1
      <3> QED
        BY <3>1, <3>2
    <2>2. CASE ~(i < pos)
      <3>1. i + 1 \in 1..n + 1 /\ i + 1 \in Int /\ i + 1 # pos /\ ~(i + 1 < pos) /\ (i + 1) - 1 = i
        BY <1>1, <2>2
      <3>2. v[i + 1] = x
        BY <1>1, <1>2, <1>3, <1>5, <3>1
      <3> QED
        BY <3>1, <3>2
    <2> QED
      BY <2>1, <2>2
  <1>6. v[pos] = b /\ pos \in 1..n + 1
    BY <1>1, <1>2
  <1>7. In(x, v) <=> x = b \/ In(x, s)
    <2>1. ASSUME In(x, v) PROVE x = b \/ In(x, s)
      BY <1>2, <1>4, <2>1 DEF In
    <2>2. ASSUME In(x, s) PROVE In(x, v)
      BY <1>2, <1>5, <2>2 DEF In, n
    <2>3. ASSUME x = b PROVE In(x, v)
      BY <1>2, <1>6, <2>3 DEF In
    <2> QED
      BY <2>1, <2>2, <2>3
  <1> QED
    BY <1>7 DEF v

LEMMA WithoutMembers ==
  ASSUME NEW s, IsList(s), NEW i \in 1..Len(s), NEW x
  PROVE  In(x, Without(s[i], s)) <=> x # s[i] /\ In(x, s)
  <1> DEFINE n == Len(s)
             v == Without(s[i], s)
  <1>1. n \in Nat /\ i \in 1..n /\ \A j \in 1..n : At(s, j) = s[j]
    BY ListParts
  <1>2. /\ IsList(v) /\ Len(v) = n - 1
        /\ \A j \in Int : At(v, j) = At(s, IF j < i THEN j ELSE j + 1)
        /\ \A j \in 1..n - 1 : v[j] # s[i]
    BY WithoutList
  <1> HIDE DEF v, n
  <1>3. \A j \in 1..n - 1 : v[j] = At(v, j)
    BY <1>2 DEF At
  <1>4. ASSUME NEW j \in 1..n - 1, v[j] = x PROVE x # s[i] /\ In(x, s)
    <2>1. CASE j < i
      <3>1. j \in 1..n /\ j \in Int
        BY <1>1
      <3>2. x = s[j]
        BY <1>1, <1>2, <1>3, <1>4, <2>1, <3>1
      <3> QED
        BY <1>2, <1>4, <3>1, <3>2 DEF In, n
    <2>2. CASE ~(j < i)
      <3>1. j + 1 \in 1..n /\ j \in Int
        BY <1>1
      <3>2. x = s[j + 1]
        BY <1>1, <1>2, <1>3, <1>4, <2>2, <3>1
      <3> QED
        BY <1>2, <1>4, <3>1, <3>2 DEF In, n
    <2> QED
      BY <2>1, <2>2
  <1>5. ASSUME NEW k \in 1..n, s[k] = x, x # s[i] PROVE \E j \in 1..n - 1 : v[j] = x
    <2>1. CASE k < i
      <3>1. k \in 1..n - 1 /\ k \in Int
        BY <1>1, <2>1
      <3>2. v[k] = x
        BY <1>1, <1>2, <1>3, <1>5, <2>1, <3>1
      <3> QED
        BY <3>1, <3>2
    <2>2. CASE k > i
      <3>1. k - 1 \in 1..n - 1 /\ k - 1 \in Int /\ ~(k - 1 < i) /\ (k - 1) + 1 = k
        BY <1>1, <2>2
      <3>2. v[k - 1] = x
        BY <1>1, <1>2, <1>3, <1>5, <3>1
      <3> QED
        BY <3>1, <3>2
    <2> QED
      BY <1>1, <1>5, <2>1, <2>2
  <1>6. In(x, v) <=> x # s[i] /\ In(x, s)
    <2>1. ASSUME In(x, v) PROVE x # s[i] /\ In(x, s)
      BY <1>2, <1>4, <2>1 DEF In
    <2>2. ASSUME x # s[i], In(x, s) PROVE In(x, v)
      BY <1>2, <1>5, <2>2 DEF In, n
    <2> QED
      BY <2>1, <2>2
  <1> QED
    BY <1>6 DEF v

\* _insert puts a trove at a place that fits, whatever the hints.
LEMMA InsertPlaces ==
  ASSUME NEW d, NEW s, Linked(d, s), RatiosTyped, NEW b \in Ids, ~In(b, s), NEW r \in Ratios,
         NEW prevHint \in Hints, NEW nextHint \in Hints
  PROVE  \E pos \in 1..Len(s) + 1 :
           /\ validInsertPosition(NICR, s, r, pos)
           /\ Linked(insertNode(d, b, r, prevHint, nextHint), placeAt(s, b, pos))
  <1> DEFINE place == insertPlace(d, r, prevHint, nextHint)
  <1>1. place \in Places /\ validPlace(d, r, place[1], place[2])
    BY InsertPlaceIsValid
  <1> HIDE DEF place
  <1>2. place[1] \in Hints /\ place[2] \in Hints
    BY <1>1 DEF Places
  <1>3. r \in Nat
    BY RegistryAssumption
  <1>4. PICK pos \in 1..Len(s) + 1 : /\ place[1] = At(s, pos - 1) /\ place[2] = At(s, pos)
                                     /\ validInsertPosition(NICR, s, r, pos)
    BY <1>1, <1>2, <1>3, ValidPlaceFits
  <1>5. \A i \in 1..Len(s) : s[i] # b
    BY DEF In
  <1>6. Linked(linkNode(d, b, At(s, pos - 1), At(s, pos)), placeAt(s, b, pos))
    BY <1>5, InsertedIsLinked
  <1>7. insertNode(d, b, r, prevHint, nextHint) = linkNode(d, b, At(s, pos - 1), At(s, pos))
    BY <1>4 DEF insertNode, place
  <1> QED
    BY <1>4, <1>6, <1>7

\* The list, the ratios and the array agree.
ListInv ==
  /\ \E s : Linked(data, s)
  /\ NICR \in [Ids -> Ratios \cup {NoRatio}]
  /\ \A b \in Ids : NICR[b] # NoRatio <=> contains(data, b)

OwnersInv ==
  /\ TroveOwners \in Seq(Ids) /\ arrayIndex \in [Ids -> Nat]
  /\ Len(TroveOwners) = data.size
  /\ \A b \in Ids : contains(data, b) =>
       arrayIndex[b] < Len(TroveOwners) /\ TroveOwners[arrayIndex[b] + 1] = b
  /\ \A i \in 1..Len(TroveOwners) :
       contains(data, TroveOwners[i]) /\ arrayIndex[TroveOwners[i]] = i - 1

RegInv == ListInv /\ OwnersInv

LEMMA RatiosAreTyped == ListInv => RatiosTyped
  BY RegistryAssumption DEF ListInv, RatiosTyped


LEMMA OpenPlaces ==
  ASSUME RegInv, NEW s, Linked(data, s), NEW b \in Ids, NEW r \in Ratios,
         NEW prevHint \in Hints, NEW nextHint \in Hints, Open(b, r, prevHint, nextHint)
  PROVE  /\ ~In(b, s)
         /\ \E pos \in 1..Len(s) + 1 : /\ validInsertPosition(NICR, s, r, pos)
                                       /\ Linked(data', placeAt(s, b, pos))
  <1>1. RatiosTyped
    BY RatiosAreTyped DEF RegInv
  <1>2. b \in Hints
    BY DEF Hints
  <1>3. ~In(b, s)
    BY <1>2, PlaceOfNode DEF Open, insertable, In
  <1> QED
    BY <1>1, <1>3, InsertPlaces DEF Open

LEMMA AdjustPlaces ==
  ASSUME RegInv, NEW s, Linked(data, s), NEW b \in Ids, NEW r \in Ratios,
         NEW prevHint \in Hints, NEW nextHint \in Hints, Adjust(b, r, prevHint, nextHint)
  PROVE  /\ In(b, s) /\ IsList(Without(b, s)) /\ ~In(b, Without(b, s))
         /\ \A x : In(x, Without(b, s)) <=> x # b /\ In(x, s)
         /\ \E pos \in 1..Len(Without(b, s)) + 1 :
              /\ validInsertPosition(NICR, Without(b, s), r, pos)
              /\ Linked(data', placeAt(Without(b, s), b, pos))
  <1>1. RatiosTyped
    BY RatiosAreTyped DEF RegInv
  <1>2. b \in Hints
    BY DEF Hints
  <1>3. PICK i \in 1..Len(s) : s[i] = b
    BY <1>2, PlaceOfNode DEF Adjust
  <1>4. IsList(s)
    BY DEF Linked
  <1>5. Linked(removeNode(data, b), Without(b, s))
    BY <1>3, RemovedIsLinked
  <1>6. \A x : In(x, Without(b, s)) <=> x # b /\ In(x, s)
    BY <1>3, <1>4, WithoutMembers
  <1>7. IsList(Without(b, s))
    BY <1>5 DEF Linked
  <1>8. ~In(b, Without(b, s))
    BY <1>6
  <1> DEFINE d == removeNode(data, b)
             v == Without(b, s)
  <1>9. data' = insertNode(d, b, r, prevHint, nextHint)
    BY DEF Adjust
  <1> HIDE DEF d, v
  <1>10. \E pos \in 1..Len(v) + 1 :
           /\ validInsertPosition(NICR, v, r, pos)
           /\ Linked(insertNode(d, b, r, prevHint, nextHint), placeAt(v, b, pos))
    <2>1. Linked(d, v) /\ ~In(b, v)
      BY <1>5, <1>8 DEF d, v
    <2> QED
      BY <1>1, <2>1, InsertPlaces
  <1> QED
    BY <1>3, <1>6, <1>7, <1>8, <1>9, <1>10 DEF In, v

LEMMA CloseRemoves ==
  ASSUME RegInv, NEW s, Linked(data, s), NEW b \in Ids, NEW onMintList, Close(b, onMintList)
  PROVE  /\ In(b, s) /\ Linked(data', Without(b, s))
         /\ \A x : In(x, Without(b, s)) <=> x # b /\ In(x, s)
  <1>1. b \in Hints
    BY DEF Hints
  <1>2. PICK i \in 1..Len(s) : s[i] = b
    BY <1>1, PlaceOfNode DEF Close
  <1>3. IsList(s)
    BY DEF Linked
  <1>4. Linked(removeNode(data, b), Without(b, s))
    BY <1>2, RemovedIsLinked
  <1>5. \A x : In(x, Without(b, s)) <=> x # b /\ In(x, s)
    BY <1>2, <1>3, WithoutMembers
  <1> QED
    BY <1>2, <1>4, <1>5 DEF Close, In

\* What each step does to the troves of the list and to its size.
LEMMA OpenMembers ==
  ASSUME RegInv, NEW b \in Ids, NEW r \in Ratios,
         NEW prevHint \in Hints, NEW nextHint \in Hints, Open(b, r, prevHint, nextHint)
  PROVE  /\ \E s : Linked(data', s)
         /\ ~contains(data, b) /\ data.size \in Nat /\ data'.size = data.size + 1
         /\ \A x \in Ids : contains(data', x) <=> x = b \/ contains(data, x)
  <1>1. PICK s : Linked(data, s)
    BY DEF RegInv, ListInv
  <1>2. ~In(b, s) /\ \E pos \in 1..Len(s) + 1 : Linked(data', placeAt(s, b, pos))
    BY <1>1, OpenPlaces
  <1>3. PICK pos \in 1..Len(s) + 1 : Linked(data', placeAt(s, b, pos))
    BY <1>2
  <1> DEFINE v == placeAt(s, b, pos)
  <1>4. IsList(s)
    BY <1>1 DEF Linked
  <1>5. Linked(data', v) /\ Len(v) = Len(s) + 1 /\ Len(s) \in Nat
    BY <1>2, <1>3, <1>4, PlacedList, ListParts DEF In
  <1>6. \A x : In(x, v) <=> x = b \/ In(x, s)
    BY <1>2, <1>4, PlacedMembers
  <1> HIDE DEF v
  <1>7. data.size = Len(s) /\ data'.size = Len(v)
    BY <1>1, <1>5, LinkedParts
  <1>8. \A x \in Ids : x \in Hints
    BY DEF Hints
  <1>9. \A x \in Ids : (contains(data, x) <=> In(x, s)) /\ (contains(data', x) <=> In(x, v))
    BY <1>1, <1>5, <1>8, PlaceOfNode DEF In
  <1> QED
    BY <1>2, <1>5, <1>6, <1>7, <1>9

LEMMA AdjustMembers ==
  ASSUME RegInv, NEW b \in Ids, NEW r \in Ratios,
         NEW prevHint \in Hints, NEW nextHint \in Hints, Adjust(b, r, prevHint, nextHint)
  PROVE  /\ \E s : Linked(data', s)
         /\ contains(data, b) /\ data'.size = data.size
         /\ \A x \in Ids : contains(data', x) <=> contains(data, x)
  <1>1. PICK s : Linked(data, s)
    BY DEF RegInv, ListInv
  <1> DEFINE u == Without(b, s)
  <1>2. /\ In(b, s) /\ IsList(u) /\ ~In(b, u) /\ \A x : In(x, u) <=> x # b /\ In(x, s)
        /\ \E pos \in 1..Len(u) + 1 : Linked(data', placeAt(u, b, pos))
    BY <1>1, AdjustPlaces
  <1>3. PICK pos \in 1..Len(u) + 1 : Linked(data', placeAt(u, b, pos))
    BY <1>2
  <1> DEFINE v == placeAt(u, b, pos)
  <1>4. IsList(s)
    BY <1>1 DEF Linked
  <1>5. Len(u) = Len(s) - 1 /\ Len(s) \in Nat
    BY <1>2, <1>4, WithoutList, ListParts DEF In
  <1> HIDE DEF u
  <1>6. Linked(data', v) /\ Len(v) = Len(u) + 1
    BY <1>2, <1>3, PlacedList DEF In
  <1>7. \A x : In(x, v) <=> x = b \/ In(x, u)
    BY <1>2, PlacedMembers
  <1> HIDE DEF v
  <1>8. data.size = Len(s) /\ data'.size = Len(v)
    BY <1>1, <1>6, LinkedParts
  <1>9. \A x \in Ids : x \in Hints
    BY DEF Hints
  <1>10. \A x \in Ids : (contains(data, x) <=> In(x, s)) /\ (contains(data', x) <=> In(x, v))
    BY <1>1, <1>6, <1>9, PlaceOfNode DEF In
  <1> QED
    BY <1>2, <1>5, <1>6, <1>7, <1>8, <1>10

LEMMA CloseMembers ==
  ASSUME RegInv, NEW b \in Ids, NEW onMintList, Close(b, onMintList)
  PROVE  /\ \E s : Linked(data', s)
         /\ contains(data, b) /\ data.size \in Nat /\ data'.size = data.size - 1
         /\ \A x \in Ids : contains(data', x) <=> x # b /\ contains(data, x)
  <1>1. PICK s : Linked(data, s)
    BY DEF RegInv, ListInv
  <1> DEFINE u == Without(b, s)
  <1>2. In(b, s) /\ Linked(data', u) /\ \A x : In(x, u) <=> x # b /\ In(x, s)
    BY <1>1, CloseRemoves
  <1>3. IsList(s)
    BY <1>1 DEF Linked
  <1>4. Len(u) = Len(s) - 1 /\ Len(s) \in Nat
    BY <1>2, <1>3, WithoutList, ListParts DEF In
  <1> HIDE DEF u
  <1>5. data.size = Len(s) /\ data'.size = Len(u)
    BY <1>1, <1>2, LinkedParts
  <1>6. \A x \in Ids : x \in Hints
    BY DEF Hints
  <1>7. \A x \in Ids : (contains(data, x) <=> In(x, s)) /\ (contains(data', x) <=> In(x, u))
    BY <1>1, <1>2, <1>6, PlaceOfNode DEF In
  <1> QED
    BY <1>2, <1>4, <1>5, <1>7

-----------------------------------------------------------------------------
(* The invariant *)

LEMMA RegInvInit == RegInit => RegInv
  <1> SUFFICES ASSUME RegInit PROVE RegInv
    OBVIOUS
  <1>1. EmptyNode \in Nodes
    BY DEF EmptyNode, Nodes, Hints
  <1>2. /\ data = [head |-> NoId, tail |-> NoId, size |-> 0,
                   nodes |-> [b \in Hints |-> EmptyNode]]
        /\ TroveOwners = <<>> /\ arrayIndex = [b \in Ids |-> 0] /\ NICR = [b \in Ids |-> NoRatio]
    BY DEF RegInit, Hints
  <1>3. data.nodes = [b \in Hints |-> EmptyNode] /\ data.size = 0
    BY <1>2
  <1>4. NodesLink(data.nodes, <<>>)
    BY <1>1, <1>3 DEF NodesLink
  <1>5. IsList(<<>>) /\ At(<<>>, 1) = NoId /\ At(<<>>, Len(<<>>)) = NoId /\ Len(<<>>) = 0
    BY DEF IsList, At
  <1>6. data = [head |-> NoId, tail |-> NoId, size |-> 0, nodes |-> data.nodes]
    BY <1>2, <1>3
  <1>7. Linked(data, <<>>)
    BY <1>4, <1>5, <1>6 DEF Linked
  <1>8. \A b \in Ids : ~contains(data, b)
    BY <1>3 DEF contains, EmptyNode, Hints
  <1>9. ListInv
    BY <1>2, <1>7, <1>8 DEF ListInv
  <1>10. OwnersInv
    BY <1>2, <1>3, <1>8 DEF OwnersInv
  <1> QED
    BY <1>9, <1>10 DEF RegInv

LEMMA RegInvOpen ==
  ASSUME RegInv, NEW b \in Ids, NEW r \in Ratios,
         NEW prevHint \in Hints, NEW nextHint \in Hints, Open(b, r, prevHint, nextHint)
  PROVE  RegInv'
  <1>1. /\ \E s : Linked(data', s)
        /\ ~contains(data, b) /\ data.size \in Nat /\ data'.size = data.size + 1
        /\ \A x \in Ids : contains(data', x) <=> x = b \/ contains(data, x)
    BY OpenMembers
  <1>2. /\ NICR \in [Ids -> Ratios \cup {NoRatio}] /\ NICR' = [NICR EXCEPT ![b] = r]
        /\ \A x \in Ids : NICR[x] # NoRatio <=> contains(data, x)
        /\ r # NoRatio
    BY RegistryAssumption DEF Open, RegInv, ListInv
  <1>3. ListInv'
    <2>1. NICR' \in [Ids -> Ratios \cup {NoRatio}]
      BY <1>2
    <2>2. ASSUME NEW x \in Ids PROVE NICR'[x] # NoRatio <=> contains(data', x)
      BY <1>1, <1>2
    <2> QED
      BY <1>1, <2>1, <2>2 DEF ListInv
  <1>4. OwnersInv'
    <2> DEFINE n == Len(TroveOwners)
    <2>1. /\ TroveOwners \in Seq(Ids) /\ arrayIndex \in [Ids -> Nat] /\ n = data.size /\ n \in Nat
          /\ \A x \in Ids : contains(data, x) =>
               arrayIndex[x] < n /\ TroveOwners[arrayIndex[x] + 1] = x
          /\ \A i \in 1..n :
               contains(data, TroveOwners[i]) /\ arrayIndex[TroveOwners[i]] = i - 1
      BY DEF RegInv, OwnersInv
    <2>2. /\ TroveOwners' = Append(TroveOwners, b)
          /\ arrayIndex' = [arrayIndex EXCEPT ![b] = n]
      BY DEF Open, addTroveOwnerToArray
    <2>3. /\ TroveOwners' \in Seq(Ids) /\ Len(TroveOwners') = n + 1
          /\ TroveOwners'[n + 1] = b
          /\ \A i \in 1..n : TroveOwners'[i] = TroveOwners[i] /\ TroveOwners[i] \in Ids
      BY <2>1, <2>2
    <2> HIDE DEF n
    <2>4. arrayIndex' \in [Ids -> Nat] /\ arrayIndex'[b] = n
          /\ \A x \in Ids : x # b => arrayIndex'[x] = arrayIndex[x]
      BY <2>1, <2>2
    <2>5. Len(TroveOwners') = data'.size
      BY <1>1, <2>1, <2>3
    <2>6. ASSUME NEW x \in Ids, contains(data', x)
          PROVE  arrayIndex'[x] < n + 1 /\ TroveOwners'[arrayIndex'[x] + 1] = x
      <3>1. CASE x = b
        BY <2>1, <2>3, <2>4, <3>1
      <3>2. CASE x # b
        <4>1. contains(data, x) /\ arrayIndex'[x] = arrayIndex[x] /\ arrayIndex[x] \in Nat
          BY <1>1, <2>1, <2>4, <2>6, <3>2
        <4>2. arrayIndex[x] < n /\ TroveOwners[arrayIndex[x] + 1] = x
          BY <2>1, <4>1
        <4>3. arrayIndex[x] + 1 \in 1..n
          BY <2>1, <4>1, <4>2
        <4> QED
          BY <2>1, <2>3, <4>1, <4>2, <4>3
      <3> QED
        BY <3>1, <3>2
    <2>7. ASSUME NEW i \in 1..n + 1
          PROVE  contains(data', TroveOwners'[i]) /\ arrayIndex'[TroveOwners'[i]] = i - 1
      <3>1. CASE i = n + 1
        BY <1>1, <2>1, <2>3, <2>4, <3>1
      <3>2. CASE i # n + 1
        <4>1. i \in 1..n
          BY <2>1, <3>2
        <4>2. TroveOwners'[i] = TroveOwners[i] /\ TroveOwners[i] \in Ids /\ TroveOwners[i] # b
          BY <1>1, <2>1, <2>3, <4>1
        <4> QED
          BY <1>1, <2>1, <2>4, <4>1, <4>2
      <3> QED
        BY <3>1, <3>2
    <2> QED
      BY <2>3, <2>4, <2>5, <2>6, <2>7 DEF OwnersInv
  <1> QED
    BY <1>3, <1>4 DEF RegInv

LEMMA RegInvAdjust ==
  ASSUME RegInv, NEW b \in Ids, NEW r \in Ratios,
         NEW prevHint \in Hints, NEW nextHint \in Hints, Adjust(b, r, prevHint, nextHint)
  PROVE  RegInv'
  <1>1. /\ \E s : Linked(data', s)
        /\ contains(data, b) /\ data'.size = data.size
        /\ \A x \in Ids : contains(data', x) <=> contains(data, x)
    BY AdjustMembers
  <1>2. /\ NICR \in [Ids -> Ratios \cup {NoRatio}] /\ NICR' = [NICR EXCEPT ![b] = r]
        /\ \A x \in Ids : NICR[x] # NoRatio <=> contains(data, x)
        /\ r # NoRatio
    BY RegistryAssumption DEF Adjust, RegInv, ListInv
  <1>3. ListInv'
    <2>1. NICR' \in [Ids -> Ratios \cup {NoRatio}]
      BY <1>2
    <2>2. ASSUME NEW x \in Ids PROVE NICR'[x] # NoRatio <=> contains(data', x)
      BY <1>1, <1>2
    <2> QED
      BY <1>1, <2>1, <2>2 DEF ListInv
  <1>4. OwnersInv'
    <2>1. TroveOwners' = TroveOwners /\ arrayIndex' = arrayIndex /\ OwnersInv
      BY DEF Adjust, RegInv
    <2>2. \A i \in 1..Len(TroveOwners) : TroveOwners[i] \in Ids
      BY <2>1 DEF OwnersInv
    <2> QED
      BY <1>1, <2>1, <2>2 DEF OwnersInv
  <1> QED
    BY <1>3, <1>4 DEF RegInv

\* The last owner moves into the hole (_removeTroveOwner).
LEMMA RegInvClose ==
  ASSUME RegInv, NEW b \in Ids, NEW onMintList, Close(b, onMintList)
  PROVE  RegInv'
  <1>1. /\ \E s : Linked(data', s)
        /\ contains(data, b) /\ data.size \in Nat /\ data'.size = data.size - 1
        /\ \A x \in Ids : contains(data', x) <=> x # b /\ contains(data, x)
    BY CloseMembers
  <1>2. /\ NICR \in [Ids -> Ratios \cup {NoRatio}] /\ NICR' = [NICR EXCEPT ![b] = NoRatio]
        /\ \A x \in Ids : NICR[x] # NoRatio <=> contains(data, x)
    BY DEF Close, RegInv, ListInv
  <1>3. ListInv'
    <2>1. NICR' \in [Ids -> Ratios \cup {NoRatio}]
      BY <1>2
    <2>2. ASSUME NEW x \in Ids PROVE NICR'[x] # NoRatio <=> contains(data', x)
      BY <1>1, <1>2
    <2> QED
      BY <1>1, <2>1, <2>2 DEF ListInv
  <1>4. OwnersInv'
    <2> DEFINE n == Len(TroveOwners)
               hole == arrayIndex[b]
               moved == TroveOwners[n]
               filled == [TroveOwners EXCEPT ![hole + 1] = moved]
    <2>1. /\ TroveOwners \in Seq(Ids) /\ arrayIndex \in [Ids -> Nat] /\ n = data.size /\ n \in Nat
          /\ \A x \in Ids : contains(data, x) =>
               arrayIndex[x] < n /\ TroveOwners[arrayIndex[x] + 1] = x
          /\ \A i \in 1..n :
               contains(data, TroveOwners[i]) /\ arrayIndex[TroveOwners[i]] = i - 1
          /\ \A i \in 1..n : TroveOwners[i] \in Ids
      BY DEF RegInv, OwnersInv
    <2>2. /\ TroveOwners' = SubSeq(filled, 1, n - 1)
          /\ arrayIndex' = [arrayIndex EXCEPT ![moved] = hole]
      BY DEF Close, removeTroveOwner
    <2>3. hole \in Nat /\ hole < n /\ TroveOwners[hole + 1] = b /\ hole + 1 \in 1..n /\ n \in 1..n
      <3>1. hole \in Nat /\ hole < n /\ TroveOwners[hole + 1] = b
        BY <1>1, <2>1
      <3> QED
        BY <2>1, <3>1
    <2>4. moved \in Ids /\ contains(data, moved) /\ arrayIndex[moved] = n - 1
      BY <2>1, <2>3
    <2>5. /\ filled \in Seq(Ids) /\ Len(filled) = n /\ filled[hole + 1] = moved
          /\ \A i \in 1..n : i # hole + 1 => filled[i] = TroveOwners[i]
      <3>0. TroveOwners \in [1..n -> Ids]
        BY <2>1
      <3>1. filled \in [1..n -> Ids]
        BY <2>4, <3>0
      <3>2. filled \in Seq(Ids) /\ Len(filled) = n
        BY <2>1, <3>1
      <3> QED
        BY <2>1, <2>3, <3>2
    <2> HIDE DEF filled
    <2>6. /\ TroveOwners' \in Seq(Ids) /\ Len(TroveOwners') = n - 1
          /\ \A i \in 1..n - 1 : TroveOwners'[i] = filled[i]
      <3>1. SubSeq(filled, 1, n - 1) \in Seq(Ids)
        BY <2>1, <2>5, <2>3
      <3>2. Len(SubSeq(filled, 1, n - 1)) = n - 1
        BY <2>1, <2>5, <2>3
      <3>3. \A i \in 1..n - 1 : SubSeq(filled, 1, n - 1)[i] = filled[i]
        BY <2>1, <2>5, <2>3
      <3> QED
        BY <2>2, <3>1, <3>2, <3>3
    <2> HIDE DEF n, hole, moved
    <2>7. /\ arrayIndex' \in [Ids -> Nat] /\ arrayIndex'[moved] = hole
          /\ \A x \in Ids : x # moved => arrayIndex'[x] = arrayIndex[x]
      BY <2>1, <2>2, <2>3, <2>4
    <2>8. Len(TroveOwners') = data'.size
      BY <1>1, <2>1, <2>6
    <2>9. ASSUME NEW x \in Ids, contains(data', x)
          PROVE  arrayIndex'[x] < n - 1 /\ TroveOwners'[arrayIndex'[x] + 1] = x
      <3>1. x # b /\ contains(data, x)
        BY <1>1, <2>9
      <3>2. /\ arrayIndex[x] \in Nat /\ arrayIndex[x] < n /\ TroveOwners[arrayIndex[x] + 1] = x
            /\ arrayIndex[x] + 1 # hole + 1
        BY <2>1, <2>3, <3>1
      <3>3. CASE x = moved
        <4>0. hole # n - 1
          BY <2>1, <2>3, <2>4, <3>2, <3>3
        <4>1. arrayIndex'[x] = hole /\ hole < n - 1 /\ hole + 1 \in 1..n - 1
          BY <2>1, <2>3, <2>7, <3>3, <4>0
        <4> QED
          BY <2>5, <2>6, <3>3, <4>1
      <3>4. CASE x # moved
        <4>1. arrayIndex[x] # n - 1
          BY <2>1, <3>2, <3>4 DEF moved
        <4>2. arrayIndex'[x] = arrayIndex[x]
          BY <2>7, <3>4
        <4>3. arrayIndex[x] < n - 1 /\ arrayIndex[x] + 1 \in 1..n - 1 /\ arrayIndex[x] + 1 \in 1..n
          BY <2>1, <3>2, <4>1
        <4>4. TroveOwners'[arrayIndex[x] + 1] = x
          BY <2>5, <2>6, <3>2, <4>3
        <4> QED
          BY <4>2, <4>3, <4>4
      <3> QED
        BY <3>3, <3>4
    <2>10. ASSUME NEW i \in 1..n - 1
           PROVE  contains(data', TroveOwners'[i]) /\ arrayIndex'[TroveOwners'[i]] = i - 1
      <3>0. i \in 1..n
        BY <2>1
      <3>1. CASE i = hole + 1
        <4>1. TroveOwners'[i] = moved
          BY <2>5, <2>6, <3>1
        <4>2. moved # b
          BY <2>1, <2>3, <2>4, <3>1 DEF hole
        <4>3. arrayIndex'[moved] = i - 1
          BY <2>3, <2>7, <3>1
        <4> QED
          BY <1>1, <2>4, <4>1, <4>2, <4>3
      <3>2. CASE i # hole + 1
        <4>1. TroveOwners'[i] = TroveOwners[i] /\ TroveOwners[i] \in Ids
          BY <2>1, <2>5, <2>6, <3>0, <3>2
        <4>2. contains(data, TroveOwners[i]) /\ arrayIndex[TroveOwners[i]] = i - 1
          BY <2>1, <3>0
        <4>3. TroveOwners[i] # b
          BY <2>3, <3>2, <4>2 DEF hole
        <4>4. TroveOwners[i] # moved
          BY <2>1, <2>4, <4>2
        <4> QED
          BY <1>1, <2>7, <4>1, <4>2, <4>3, <4>4
      <3> QED
        BY <3>1, <3>2
    <2> QED
      BY <2>6, <2>7, <2>8, <2>9, <2>10 DEF OwnersInv
  <1> QED
    BY <1>3, <1>4 DEF RegInv

LEMMA RegInvRedistribute ==
  ASSUME RegInv, NEW ratios \in [Ids -> Ratios], Redistribute(ratios)
  PROVE  RegInv'
  <1>1. /\ NICR' = [b \in Ids |-> IF contains(data, b) THEN ratios[b] ELSE NoRatio]
        /\ data' = data /\ TroveOwners' = TroveOwners /\ arrayIndex' = arrayIndex
    BY DEF Redistribute
  <1>2. \A b \in Ids : ratios[b] \in Ratios /\ ratios[b] # NoRatio
    BY RegistryAssumption
  <1>3. ListInv'
    BY <1>1, <1>2 DEF RegInv, ListInv
  <1>4. OwnersInv'
    BY <1>1 DEF RegInv, OwnersInv
  <1> QED
    BY <1>3, <1>4 DEF RegInv

LEMMA RegInvNext == RegInv /\ [RegNext]_regVars => RegInv'
  <1> SUFFICES ASSUME RegInv, [RegNext]_regVars PROVE RegInv'
    OBVIOUS
  <1>1. CASE UNCHANGED regVars
    BY <1>1 DEF regVars, RegInv, ListInv, OwnersInv
  <1>2. ASSUME NEW b \in Ids, NEW r \in Ratios, NEW prevHint \in Hints, NEW nextHint \in Hints,
               Open(b, r, prevHint, nextHint)
        PROVE  RegInv'
    BY <1>2, RegInvOpen
  <1>3. ASSUME NEW b \in Ids, NEW r \in Ratios, NEW prevHint \in Hints, NEW nextHint \in Hints,
               Adjust(b, r, prevHint, nextHint)
        PROVE  RegInv'
    BY <1>3, RegInvAdjust
  <1>4. ASSUME NEW b \in Ids, NEW onMintList \in BOOLEAN, Close(b, onMintList)
        PROVE  RegInv'
    BY <1>4, RegInvClose
  <1>5. ASSUME NEW ratios \in [Ids -> Ratios], Redistribute(ratios)
        PROVE  RegInv'
    BY <1>5, RegInvRedistribute
  <1> QED
    BY <1>1, <1>2, <1>3, <1>4, <1>5 DEF RegNext

-----------------------------------------------------------------------------
(* The hints of the client *)

\* A walk that starts at a place that fits does not leave it.
LEMMA DescendStays ==
  ASSUME NEW d, NEW s, Linked(d, s), NEW r, NEW startId \in Hints,
         ~(d.head = startId /\ r >= getNominalICR(startId)),
         validPlace(d, r, startId, d.nodes[startId].nextId)
  PROVE  descendList(d, r, startId) = <<startId, d.nodes[startId].nextId>>
  <1> DEFINE first == <<startId, d.nodes[startId].nextId>>
  <1>1. PICK f \in [0..LongestWalk -> Places] :
          /\ f[0] = first
          /\ \A k \in 1..LongestWalk : f[k] = StepDown(d, r, f[k-1])
          /\ descendList(d, r, startId) = f[LongestWalk]
    BY DescendWalks
  <1>2. LongestWalk \in Nat
    BY LongestWalkType
  <1>3. StepDown(d, r, first) = first
    BY DEF StepDown
  <1> HIDE DEF first
  <1> DEFINE T == {k \in Nat : k <= LongestWalk => f[k] = first}
  <1>4. 0 \in T
    BY <1>1
  <1>5. ASSUME NEW k \in Nat, k \in T PROVE k + 1 \in T
    <2> SUFFICES ASSUME k + 1 <= LongestWalk PROVE f[k+1] = first
      OBVIOUS
    <2>1. k + 1 \in 1..LongestWalk /\ (k + 1) - 1 = k /\ k <= LongestWalk
      BY <1>2
    <2> QED
      BY <1>1, <1>3, <1>5, <2>1
  <1> HIDE DEF T
  <1>6. \A k \in Nat : k \in T
    BY <1>4, <1>5, SetInduction
  <1>7. f[LongestWalk] = first
    BY <1>2, <1>6 DEF T
  <1> QED
    BY <1>1, <1>7 DEF first

LEMMA AscendStays ==
  ASSUME NEW d, NEW s, Linked(d, s), NEW r, NEW startId \in Hints,
         ~(d.tail = startId /\ r <= getNominalICR(startId)),
         validPlace(d, r, d.nodes[startId].prevId, startId)
  PROVE  ascendList(d, r, startId) = <<d.nodes[startId].prevId, startId>>
  <1> DEFINE first == <<d.nodes[startId].prevId, startId>>
  <1>1. PICK f \in [0..LongestWalk -> Places] :
          /\ f[0] = first
          /\ \A k \in 1..LongestWalk : f[k] = StepUp(d, r, f[k-1])
          /\ ascendList(d, r, startId) = f[LongestWalk]
    BY AscendWalks
  <1>2. LongestWalk \in Nat
    BY LongestWalkType
  <1>3. StepUp(d, r, first) = first
    BY DEF StepUp
  <1> HIDE DEF first
  <1> DEFINE T == {k \in Nat : k <= LongestWalk => f[k] = first}
  <1>4. 0 \in T
    BY <1>1
  <1>5. ASSUME NEW k \in Nat, k \in T PROVE k + 1 \in T
    <2> SUFFICES ASSUME k + 1 <= LongestWalk PROVE f[k+1] = first
      OBVIOUS
    <2>1. k + 1 \in 1..LongestWalk /\ (k + 1) - 1 = k /\ k <= LongestWalk
      BY <1>2
    <2> QED
      BY <1>1, <1>3, <1>5, <2>1
  <1> HIDE DEF T
  <1>6. \A k \in Nat : k \in T
    BY <1>4, <1>5, SetInduction
  <1>7. f[LongestWalk] = first
    BY <1>2, <1>6 DEF T
  <1> QED
    BY <1>1, <1>7 DEF first

\* Found at once: the hints are a place, or the first place looked at is one.
AtOnce(d, r, h) ==
  \/ validPlace(d, r, h[1], h[2])
  \/ insertPlace(d, r, h[1], h[2]) \in PlacesAtOnce(d, r, h[1], h[2])

\* A place at the head of the list, given as its trove twice.
LEMMA HeadAtOnce ==
  ASSUME NEW d, NEW s, Linked(d, s), RatiosTyped, NEW r \in Ratios,
         NEW x \in Ids, validPlace(d, r, NoId, x)
  PROVE  AtOnce(d, r, <<x, x>>)
  <1>1. /\ x # NoId /\ x \in Hints /\ NoId \in Hints /\ r \in Nat /\ NICR[x] \in Nat
        /\ getNominalICR(x) = NICR[x]
    BY RegistryAssumption DEF Hints, RatiosTyped, getNominalICR
  <1>2. d.head = x /\ r >= NICR[x]
    BY <1>1 DEF validPlace
  <1>3. PICK pos \in 1..Len(s) + 1 : NoId = At(s, pos - 1) /\ x = At(s, pos)
    BY <1>1, ValidPlaceFits
  <1>4. IsList(s)
    BY DEF Linked
  <1>5. Len(s) \in Nat /\ pos \in 1..Len(s) /\ s[pos] = x
    BY <1>1, <1>3, <1>4, ListParts DEF At
  <1>6. contains(d, x) /\ d.nodes[x].prevId = NoId
    BY <1>3, <1>5, LinkedParts DEF contains
  <1>7. CASE validPlace(d, r, x, x)
    BY <1>7 DEF AtOnce
  <1>8. CASE ~validPlace(d, r, x, x)
    <2>1. insertPlace(d, r, x, x) = findInsertPosition(d, r, x, x)
      BY <1>8 DEF insertPlace
    <2>2. usableNext(d, r, x) = x
      BY <1>1, <1>2, <1>6 DEF usableNext
    <2>3. CASE r <= NICR[x]
      <3>1. usablePrev(d, r, x) = x
        BY <1>1, <1>6, <2>3 DEF usablePrev
      <3>2. findInsertPosition(d, r, x, x) = descendList(d, r, x)
        BY <1>1, <3>1 DEF findInsertPosition
      <3>3. descendList(d, r, x) = <<NoId, x>>
        BY <1>1, <1>2 DEF descendList
      <3>4. <<NoId, x>> \in PlacesAtOnce(d, r, x, x)
        BY <1>1, <3>1 DEF PlacesAtOnce
      <3> QED
        BY <2>1, <3>2, <3>3, <3>4 DEF AtOnce
    <2>4. CASE ~(r <= NICR[x])
      <3>1. usablePrev(d, r, x) = NoId
        BY <1>1, <2>4 DEF usablePrev
      <3>2. findInsertPosition(d, r, x, x) = ascendList(d, r, x)
        BY <1>1, <2>2, <3>1 DEF findInsertPosition
      <3>3. ascendList(d, r, x) = <<NoId, x>>
        BY <1>1, <1>6, <2>4, AscendStays
      <3>4. <<NoId, x>> \in PlacesAtOnce(d, r, x, x)
        BY <1>1, <1>6, <2>2, <3>1 DEF PlacesAtOnce
      <3> QED
        BY <2>1, <3>2, <3>3, <3>4 DEF AtOnce
    <2> QED
      BY <2>3, <2>4
  <1> QED
    BY <1>7, <1>8

\* A place at its tail.
LEMMA TailAtOnce ==
  ASSUME NEW d, NEW s, Linked(d, s), RatiosTyped, NEW r \in Ratios,
         NEW x \in Ids, validPlace(d, r, x, NoId)
  PROVE  AtOnce(d, r, <<x, x>>)
  <1>1. /\ x # NoId /\ x \in Hints /\ NoId \in Hints /\ r \in Nat /\ NICR[x] \in Nat
        /\ getNominalICR(x) = NICR[x]
    BY RegistryAssumption DEF Hints, RatiosTyped, getNominalICR
  <1>2. d.tail = x /\ r <= NICR[x]
    BY <1>1 DEF validPlace
  <1>3. PICK pos \in 1..Len(s) + 1 : x = At(s, pos - 1) /\ NoId = At(s, pos)
    BY <1>1, ValidPlaceFits
  <1>4. IsList(s)
    BY DEF Linked
  <1>5. Len(s) \in Nat /\ pos - 1 \in 1..Len(s) /\ s[pos - 1] = x /\ (pos - 1) + 1 = pos
    BY <1>1, <1>3, <1>4, ListParts DEF At
  <1>6. contains(d, x) /\ d.nodes[x].nextId = NoId
    BY <1>3, <1>5, LinkedParts DEF contains
  <1>7. CASE validPlace(d, r, x, x)
    BY <1>7 DEF AtOnce
  <1>8. CASE ~validPlace(d, r, x, x)
    <2>1. insertPlace(d, r, x, x) = findInsertPosition(d, r, x, x)
      BY <1>8 DEF insertPlace
    <2>2. usablePrev(d, r, x) = x
      BY <1>1, <1>2, <1>6 DEF usablePrev
    <2>3. findInsertPosition(d, r, x, x) = descendList(d, r, x)
      BY <1>1, <2>2 DEF findInsertPosition
    <2>4. {<<NoId, x>>, <<x, NoId>>} = PlacesAtOnce(d, r, x, x)
      BY <1>1, <1>6, <2>2 DEF PlacesAtOnce
    <2>5. CASE d.head = x /\ r >= NICR[x]
      <3>1. descendList(d, r, x) = <<NoId, x>>
        BY <1>1, <2>5 DEF descendList
      <3> QED
        BY <2>1, <2>3, <2>4, <3>1 DEF AtOnce
    <2>6. CASE ~(d.head = x /\ r >= NICR[x])
      <3>1. descendList(d, r, x) = <<x, NoId>>
        BY <1>1, <1>6, <2>6, DescendStays
      <3> QED
        BY <2>1, <2>3, <2>4, <3>1 DEF AtOnce
    <2> QED
      BY <2>5, <2>6
  <1> QED
    BY <1>7, <1>8

\* The address(0) is never a hint that costs a walk.
LEMMA WithoutZeroAtOnce ==
  ASSUME NEW d, NEW s, Linked(d, s), RatiosTyped, NEW r \in Ratios,
         NEW p \in Hints, NEW q \in Hints, validPlace(d, r, p, q)
  PROVE  AtOnce(d, r, withoutZero(<<p, q>>))
  <1>1. CASE p = NoId /\ q = NoId
    BY <1>1 DEF withoutZero, AtOnce
  <1>2. CASE p = NoId /\ q # NoId
    <2>1. withoutZero(<<p, q>>) = <<q, q>>
      BY <1>2 DEF withoutZero
    <2>2. q \in Ids
      BY <1>2 DEF Hints
    <2> QED
      BY <1>2, <2>1, <2>2, HeadAtOnce
  <1>3. CASE p # NoId /\ q = NoId
    <2>1. withoutZero(<<p, q>>) = <<p, p>>
      BY <1>3 DEF withoutZero
    <2>2. p \in Ids
      BY <1>3 DEF Hints
    <2> QED
      BY <1>3, <2>1, <2>2, TailAtOnce
  <1>4. CASE p # NoId /\ q # NoId
    <2>1. withoutZero(<<p, q>>) = <<p, q>>
      BY <1>4 DEF withoutZero
    <2> QED
      BY <2>1 DEF AtOnce
  <1> QED
    BY <1>1, <1>2, <1>3, <1>4

\* A place that fits, by its neighbours.
LEMMA FitsByNeighbours ==
  ASSUME NEW s, IsList(s), NEW r, NEW pos \in 1..Len(s) + 1
  PROVE  validInsertPosition(NICR, s, r, pos) <=>
           /\ At(s, pos - 1) # NoId => NICR[At(s, pos - 1)] >= r
           /\ At(s, pos) # NoId => r >= NICR[At(s, pos)]
  <1>1. Len(s) \in Nat
    BY ListParts
  <1>2. pos > 1 <=> At(s, pos - 1) # NoId
    BY <1>1, ListParts
  <1>3. pos <= Len(s) <=> At(s, pos) # NoId
    BY <1>1, ListParts
  <1>4. pos > 1 => At(s, pos - 1) = s[pos - 1]
    BY <1>1 DEF At
  <1>5. pos <= Len(s) => At(s, pos) = s[pos]
    BY <1>1 DEF At
  <1> QED
    BY <1>2, <1>3, <1>4, <1>5 DEF validInsertPosition

\* In a list in order, no ratio is below the next.
LEMMA NeighboursInOrder ==
  ASSUME NEW d, NEW s, Linked(d, s), ListIsInOrder(d), NEW i \in Int,
         At(s, i) # NoId, At(s, i + 1) # NoId
  PROVE  NICR[At(s, i)] >= NICR[At(s, i + 1)]
  <1>1. IsList(s)
    BY DEF Linked
  <1>2. i \in 1..Len(s) /\ At(s, i) = s[i] /\ s[i] \in Ids
    BY <1>1, ListParts
  <1>3. contains(d, s[i]) /\ d.nodes[s[i]].nextId = At(s, i + 1)
    BY <1>2, LinkedParts DEF contains
  <1> QED
    BY <1>2, <1>3 DEF ListIsInOrder

\* The place that the client jumps to fits in the list without the trove that moves.
LEMMA JumpedIsValid ==
  ASSUME NEW d, NEW s, Linked(d, s), RatiosTyped, ListIsInOrder(d), NEW r \in Ratios,
         NEW p \in Hints, NEW q \in Hints, validPlace(d, r, p, q),
         NEW own \in Ids, contains(d, own)
  PROVE  \E a, c \in Hints : /\ jumpOver(d, <<p, q>>, own) = <<a, c>>
                             /\ validPlace(removeNode(d, own), r, a, c)
  <1>0. IsList(s) /\ r \in Nat /\ own \in Hints /\ own # NoId
    BY RegistryAssumption DEF Linked, Hints
  <1>1. PICK i \in 1..Len(s) : s[i] = own
    BY <1>0, PlaceOfNode
  <1>2. PICK pos \in 1..Len(s) + 1 : /\ p = At(s, pos - 1) /\ q = At(s, pos)
                                     /\ validInsertPosition(NICR, s, r, pos)
    BY <1>0, ValidPlaceFits
  <1> DEFINE n == Len(s)
             v == Without(own, s)
             w == removeNode(d, own)
  <1>3. /\ n \in Nat /\ i \in 1..n /\ pos \in 1..n + 1 /\ At(s, i) = own
        /\ \A j \in Int : At(s, j) \in Hints
        /\ \A j \in Int : At(s, j) = own => j = i
        /\ \A j \in 1..n : s[j] \in Ids
    <2>1. /\ n \in Nat /\ i \in 1..n /\ pos \in 1..n + 1 /\ At(s, i) = own
          /\ \A j \in Int : At(s, j) \in Hints
          /\ \A j \in 1..n : s[j] \in Ids
      BY <1>0, <1>1, ListParts
    <2>2. ASSUME NEW j \in Int, At(s, j) = own PROVE j = i
      <3>1. j \in 1..n /\ s[j] = own
        BY <1>0, <2>2 DEF At
      <3> QED
        BY <1>0, <1>1, <3>1, ListParts
    <2> QED
      BY <2>1, <2>2
  <1>4. Linked(w, v)
    BY <1>1, RemovedIsLinked
  <1>5. /\ IsList(v) /\ Len(v) = n - 1
        /\ \A j \in Int : At(v, j) = At(s, IF j < i THEN j ELSE j + 1)
    BY <1>0, <1>1, WithoutList
  <1>6. d.nodes[own].nextId = At(s, i + 1) /\ d.nodes[own].prevId = At(s, i - 1)
    BY <1>1, LinkedParts
  <1>7. /\ At(s, pos - 1) # NoId => NICR[At(s, pos - 1)] >= r
        /\ At(s, pos) # NoId => r >= NICR[At(s, pos)]
    BY <1>0, <1>2, FitsByNeighbours
  <1>8. \A j \in Int : At(s, j) # NoId => NICR[At(s, j)] \in Nat
    BY <1>3 DEF RatiosTyped, At
  <1> HIDE DEF v, w, n
  <1>9. \A j \in Int : (j < i => At(v, j) = At(s, j)) /\ (~(j < i) => At(v, j) = At(s, j + 1))
    BY <1>5
  <1>10. ASSUME NEW a, NEW c, NEW m \in 1..n, At(v, m - 1) = a, At(v, m) = c,
                a # NoId => NICR[a] >= r, c # NoId => r >= NICR[c]
         PROVE  validPlace(w, r, a, c)
    <2>1. m \in 1..Len(v) + 1
      BY <1>3, <1>5
    <2>2. validInsertPosition(NICR, v, r, m)
      BY <1>5, <1>10, <2>1, FitsByNeighbours
    <2> QED
      BY <1>0, <1>4, <1>10, <2>1, <2>2, FittingIsValid
  <1>11. \A j \in Int : At(s, j) # NoId /\ At(s, j + 1) # NoId =>
                         NICR[At(s, j)] >= NICR[At(s, j + 1)]
    BY NeighboursInOrder
  <1>12. At(v, i - 1) = At(s, i - 1) /\ At(v, i) = At(s, i + 1)
    <2>1. i - 1 \in Int /\ i \in Int /\ i - 1 < i /\ ~(i < i)
      BY <1>3
    <2> QED
      BY <1>9, <2>1
  <1>13. CASE p = own
    <2>1. pos - 1 = i /\ pos = i + 1
      BY <1>2, <1>3, <1>13
    <2>2. jumpOver(d, <<p, q>>, own) = <<At(s, i - 1), At(s, i + 1)>>
      BY <1>0, <1>2, <1>6, <1>13, <2>1 DEF jumpOver
    <2>3. NICR[own] >= r /\ (At(s, i + 1) # NoId => r >= NICR[At(s, i + 1)])
      BY <1>0, <1>2, <1>7, <1>13, <2>1
    <2>4. At(s, i - 1) # NoId => NICR[At(s, i - 1)] >= r
      <3>1. (i - 1) + 1 = i /\ i - 1 \in Int /\ i \in Int
        BY <1>3
      <3>2. At(s, i - 1) # NoId => NICR[At(s, i - 1)] >= NICR[own]
        BY <1>0, <1>3, <1>11, <3>1
      <3>3. NICR[own] \in Nat /\ (At(s, i - 1) # NoId => NICR[At(s, i - 1)] \in Nat)
        BY <1>0, <1>3, <1>8, <3>1
      <3> QED
        BY <1>0, <2>3, <3>2, <3>3
    <2>5. validPlace(w, r, At(s, i - 1), At(s, i + 1))
      BY <1>3, <1>10, <1>12, <2>3, <2>4
    <2>6. At(s, i - 1) \in Hints /\ At(s, i + 1) \in Hints
      BY <1>3
    <2> QED
      BY <2>2, <2>5, <2>6 DEF w
  <1>14. CASE p # own /\ q = own
    <2>0. pos \in Int /\ At(s, pos) = own
      BY <1>2, <1>14
    <2>1. pos = i
      BY <1>3, <2>0
    <2>2. jumpOver(d, <<p, q>>, own) = <<At(s, i - 1), At(s, i + 1)>>
      BY <1>0, <1>2, <1>6, <1>14, <2>1 DEF jumpOver
    <2>3. r >= NICR[own] /\ (At(s, i - 1) # NoId => NICR[At(s, i - 1)] >= r)
      BY <1>0, <1>2, <1>7, <1>14, <2>1
    <2>4. At(s, i + 1) # NoId => r >= NICR[At(s, i + 1)]
      <3>1. i \in Int /\ i + 1 \in Int
        BY <1>3
      <3>2. At(s, i + 1) # NoId => NICR[own] >= NICR[At(s, i + 1)]
        BY <1>0, <1>3, <1>11, <3>1
      <3>3. NICR[own] \in Nat /\ (At(s, i + 1) # NoId => NICR[At(s, i + 1)] \in Nat)
        BY <1>0, <1>3, <1>8, <3>1
      <3> QED
        BY <1>0, <2>3, <3>2, <3>3
    <2>5. validPlace(w, r, At(s, i - 1), At(s, i + 1))
      BY <1>3, <1>10, <1>12, <2>3, <2>4
    <2>6. At(s, i - 1) \in Hints /\ At(s, i + 1) \in Hints
      BY <1>3
    <2> QED
      BY <2>2, <2>5, <2>6 DEF w
  <1>15. CASE p # own /\ q # own
    <2>1. pos - 1 # i /\ pos # i
      BY <1>2, <1>3, <1>15
    <2>2. jumpOver(d, <<p, q>>, own) = <<p, q>>
      BY <1>0, <1>15 DEF jumpOver
    <2>3. (p # NoId => NICR[p] >= r) /\ (q # NoId => r >= NICR[q])
      BY <1>2, <1>7
    <2>4. CASE pos < i
      <3>1. pos \in 1..n /\ pos - 1 \in Int /\ pos \in Int /\ pos - 1 < i
        BY <1>3, <2>4
      <3>2. At(v, pos - 1) = p /\ At(v, pos) = q
        BY <1>2, <1>9, <2>4, <3>1
      <3>3. validPlace(w, r, p, q)
        BY <1>10, <2>3, <3>1, <3>2
      <3> QED
        BY <2>2, <3>3 DEF w
    <2>5. CASE pos > i
      <3>1. /\ pos - 1 \in 1..n /\ pos - 1 \in Int /\ (pos - 1) - 1 \in Int
            /\ ~(pos - 1 < i) /\ ~((pos - 1) - 1 < i)
            /\ (pos - 1) + 1 = pos /\ ((pos - 1) - 1) + 1 = pos - 1
        BY <1>3, <2>1, <2>5
      <3>2. At(v, (pos - 1) - 1) = p /\ At(v, pos - 1) = q
        BY <1>2, <1>9, <3>1
      <3>3. validPlace(w, r, p, q)
        BY <1>10, <2>3, <3>1, <3>2
      <3> QED
        BY <2>2, <3>3 DEF w
    <2> QED
      BY <1>3, <2>1, <2>4, <2>5
  <1> QED
    BY <1>13, <1>14, <1>15

LEMMA ClientHintsAreGood == RegInv => ClientHintsNeedNoWalk
  <1> SUFFICES ASSUME RegInv, ListIsInOrder(data), NEW r \in Ratios,
                      NEW own \in {b \in Ids : contains(data, b)} \cup {NoId},
                      NEW near \in (IF data.size = 0 THEN {NoId} ELSE getApproxHint(data, r))
               PROVE  AtOnce(IF own = NoId THEN data ELSE removeNode(data, own), r,
                             findHints(data, r, near, own))
    BY DEF ClientHintsNeedNoWalk, AtOnce
  <1>1. PICK s : Linked(data, s)
    BY DEF RegInv, ListInv
  <1>2. RatiosTyped /\ IsList(s)
    BY <1>1, RatiosAreTyped DEF RegInv, Linked
  <1>3. own # NoId => own \in Ids /\ contains(data, own)
    OBVIOUS
  <1>4. data.size = Len(s) /\ data.tail = At(s, Len(s)) /\ Len(s) \in Nat
    BY <1>1, <1>2, LinkedParts, ListParts
  <1>5. CASE data.size = 0
    <2>1. own = NoId
      <3>1. ASSUME own # NoId PROVE FALSE
        <4>1. own \in Hints
          BY <1>3, <3>1 DEF Hints
        <4>2. \E i \in 1..Len(s) : s[i] = own
          BY <1>1, <1>3, <3>1, <4>1, PlaceOfNode
        <4> QED
          BY <1>4, <1>5, <4>2
      <3> QED
        BY <3>1
    <2>2. findHints(data, r, near, own) = <<NoId, NoId>>
      BY <1>5 DEF findHints
    <2>3. validPlace(data, r, NoId, NoId)
      BY <1>5 DEF validPlace
    <2> QED
      BY <2>1, <2>2, <2>3 DEF AtOnce
  <1>6. CASE data.size # 0
    <2>1. near \in Hints
      <3>1. near \in getApproxHint(data, r)
        BY <1>6
      <3>2. At(s, Len(s)) \in Hints
        BY <1>2, <1>4, ListParts
      <3> QED
        BY <1>4, <3>1, <3>2 DEF getApproxHint, Hints
    <2> DEFINE place == findInsertPosition(data, r, near, near)
    <2>2. place \in Places /\ validPlace(data, r, place[1], place[2])
      BY <1>1, <1>2, <2>1, FoundPlaceIsValid
    <2>3. findHints(data, r, near, own) = withoutZero(jumpOver(data, place, own))
      BY <1>6 DEF findHints
    <2> HIDE DEF place
    <2>4. PICK p \in Hints, q \in Hints : place = <<p, q>>
      BY <2>2 DEF Places
    <2>5. validPlace(data, r, p, q)
      BY <2>2, <2>4
    <2>6. CASE own = NoId
      <3>1. jumpOver(data, place, own) = <<p, q>>
        BY <2>4, <2>6 DEF jumpOver
      <3> QED
        BY <1>1, <1>2, <2>3, <2>5, <2>6, <3>1, WithoutZeroAtOnce
    <2>7. CASE own # NoId
      <3>1. PICK a \in Hints, c \in Hints : /\ jumpOver(data, <<p, q>>, own) = <<a, c>>
                                            /\ validPlace(removeNode(data, own), r, a, c)
        BY <1>1, <1>2, <1>3, <2>5, <2>7, JumpedIsValid
      <3>2. own \in Hints
        BY <1>3, <2>7 DEF Hints
      <3>3. PICK i \in 1..Len(s) : s[i] = own
        BY <1>1, <1>3, <2>7, <3>2, PlaceOfNode
      <3>4. Linked(removeNode(data, own), Without(own, s))
        BY <1>1, <3>3, RemovedIsLinked
      <3>5. AtOnce(removeNode(data, own), r, withoutZero(<<a, c>>))
        BY <1>2, <3>1, <3>4, WithoutZeroAtOnce
      <3> QED
        BY <2>3, <2>4, <2>7, <3>1, <3>5
    <2> QED
      BY <2>6, <2>7
  <1> QED
    BY <1>5, <1>6

-----------------------------------------------------------------------------
(* The registers are sound *)

LEMMA ListIsLinkedBothWays == RegInv => ListIsDoublyLinked
  <1> SUFFICES ASSUME RegInv PROVE ListIsDoublyLinked
    OBVIOUS
  <1>1. PICK s : Linked(data, s)
    BY DEF RegInv, ListInv
  <1>2. Chain(data) = s /\ IsList(s)
    BY <1>1, ChainIsList DEF Linked
  <1>3. /\ data.size = Len(s) /\ data.tail = At(s, Len(s)) /\ data.nodes[NoId] = EmptyNode
        /\ \A i \in 1..Len(s) : data.nodes[s[i]].exists /\ data.nodes[s[i]].prevId = At(s, i - 1)
    BY <1>1, LinkedParts
  <1>4. Len(s) \in Nat /\ s \in Seq(Ids)
    BY <1>2, ListParts DEF IsList
  <1>5. At(s, Len(s)) = IF s = <<>> THEN NoId ELSE s[Len(s)]
    <2>1. CASE s = <<>>
      BY <2>1 DEF At
    <2>2. CASE s # <<>>
      <3>1. Len(s) # 0
        BY <1>4, <2>2, EmptySeq
      <3>2. Len(s) \in 1..Len(s)
        BY <1>4, <3>1
      <3> QED
        BY <2>2, <3>2 DEF At
    <2> QED
      BY <2>1, <2>2
  <1>6. ASSUME NEW i \in 1..Len(s) PROVE At(s, i - 1) = IF i = 1 THEN NoId ELSE s[i-1]
    BY <1>4 DEF At
  <1> QED
    BY <1>2, <1>3, <1>5, <1>6 DEF ListIsDoublyLinked

LEMMA RegistersSound == RegInv => RegistersAreSound
  <1> SUFFICES ASSUME RegInv PROVE RegistersAreSound
    OBVIOUS
  <1>1. ListIsDoublyLinked
    BY ListIsLinkedBothWays
  <1>2. OwnersMatchList
    BY DEF RegInv, OwnersInv, OwnersMatchList
  <1>3. HintsAlwaysLeadToAPlace
    <2>1. PICK s : Linked(data, s)
      BY DEF RegInv, ListInv
    <2>2. RatiosTyped
      BY RatiosAreTyped DEF RegInv
    <2> QED
      BY <2>1, <2>2, InsertPlaceIsValid DEF HintsAlwaysLeadToAPlace
  <1>4. ClientHintsNeedNoWalk
    BY ClientHintsAreGood
  <1> QED
    BY <1>1, <1>2, <1>3, <1>4 DEF RegistersAreSound

\* Whatever is opened, adjusted, redeemed, redistributed and closed, in any order and with
\* any hints, SortedTroves stays linked both ways, TroveOwners has every trove at its
\* arrayIndex, every pair of hints leads _insert to a place that fits, and while the list is
\* in order the hints of lib-ethers lead there without a walk.
THEOREM RegistersStaySound == RegSpec => []RegistersAreSound
  <1>1. RegInit => RegInv
    BY RegInvInit
  <1>2. RegInv /\ [RegNext]_regVars => RegInv'
    BY RegInvNext
  <1>3. RegInv => RegistersAreSound
    BY RegistersSound
  <1> QED
    BY <1>1, <1>2, <1>3, PTL DEF RegSpec

-----------------------------------------------------------------------------
(* The list is what the contracts rely on *)

\* Membership in the list that is read from the nodes.
LEMMA InChain ==
  ASSUME RegInv, NEW s, Linked(data, s), NEW b \in Ids
  PROVE  Abstract!InList(b) <=> In(b, s)
  <1>1. Chain(data) = s
    BY ChainIsList
  <1>2. s \in [1..Len(s) -> Ids] /\ DOMAIN s = 1..Len(s)
    BY ListParts DEF Linked
  <1>3. Abstract!InList(b) <=> \E i \in DOMAIN s : s[i] = b
    BY <1>1 DEF Abstract!InList, Abstract!Range
  <1> QED
    BY <1>2, <1>3 DEF In

LEMMA InitIsEmpty == RegInit => Abstract!ListInit
  <1> SUFFICES ASSUME RegInit PROVE Abstract!ListInit
    OBVIOUS
  <1>1. RegInv
    BY RegInvInit
  <1>2. PICK s : Linked(data, s)
    BY <1>1 DEF RegInv, ListInv
  <1>3. Chain(data) = s /\ data.size = Len(s) /\ s \in Seq(Ids)
    BY <1>2, ChainIsList, LinkedParts DEF Linked, IsList
  <1>4. data.size = 0 /\ NICR = [b \in Ids |-> NoRatio]
    BY DEF RegInit
  <1>5. s = <<>>
    BY <1>3, <1>4, EmptySeq
  <1> QED
    BY <1>3, <1>4, <1>5 DEF Abstract!ListInit

LEMMA OpenInserts ==
  ASSUME RegInv, NEW b \in Ids, NEW r \in Ratios,
         NEW prevHint \in Hints, NEW nextHint \in Hints, Open(b, r, prevHint, nextHint)
  PROVE  Abstract!Insert(b)
  <1>1. PICK s : Linked(data, s)
    BY DEF RegInv, ListInv
  <1>2. PICK pos \in 1..Len(s) + 1 : /\ validInsertPosition(NICR, s, r, pos)
                                     /\ Linked(data', placeAt(s, b, pos))
    BY <1>1, OpenPlaces
  <1>3. ~In(b, s)
    BY <1>1, OpenPlaces
  <1>4. Chain(data) = s /\ Chain(data') = placeAt(s, b, pos)
    BY <1>1, <1>2, ChainIsList
  <1>5. ~Abstract!InList(b)
    BY <1>1, <1>3, InChain
  <1>6. Abstract!Without(b, s) = s
    BY <1>3 DEF Abstract!Without, In
  <1>7. NICR' = [NICR EXCEPT ![b] = r]
    BY DEF Open
  <1>8. /\ Abstract!validInsertPosition(NICR, s, r, pos)
        /\ Abstract!placeAt(s, b, pos) = placeAt(s, b, pos)
    BY <1>2 DEF validInsertPosition, Abstract!validInsertPosition, placeAt, Abstract!placeAt
  <1> QED
    BY <1>4, <1>5, <1>6, <1>7, <1>8 DEF Abstract!Insert, Abstract!Place

LEMMA AdjustReInserts ==
  ASSUME RegInv, NEW b \in Ids, NEW r \in Ratios,
         NEW prevHint \in Hints, NEW nextHint \in Hints, Adjust(b, r, prevHint, nextHint)
  PROVE  Abstract!ReInsert(b)
  <1>1. PICK s : Linked(data, s)
    BY DEF RegInv, ListInv
  <1> DEFINE v == Without(b, s)
  <1>2. PICK pos \in 1..Len(v) + 1 : /\ validInsertPosition(NICR, v, r, pos)
                                     /\ Linked(data', placeAt(v, b, pos))
    BY <1>1, AdjustPlaces
  <1>3. In(b, s)
    BY <1>1, AdjustPlaces
  <1>4. Chain(data) = s /\ Chain(data') = placeAt(v, b, pos)
    BY <1>1, <1>2, ChainIsList
  <1>5. Abstract!InList(b)
    BY <1>1, <1>3, InChain
  <1>6. Abstract!Without(b, s) = v
    BY DEF Abstract!Without, Without
  <1>7. NICR' = [NICR EXCEPT ![b] = r]
    BY DEF Adjust
  <1> HIDE DEF v
  <1>8. /\ Abstract!validInsertPosition(NICR, v, r, pos)
        /\ Abstract!placeAt(v, b, pos) = placeAt(v, b, pos)
    BY <1>2 DEF validInsertPosition, Abstract!validInsertPosition, placeAt, Abstract!placeAt
  <1> QED
    BY <1>4, <1>5, <1>6, <1>7, <1>8 DEF Abstract!ReInsert, Abstract!Place

LEMMA CloseTakesOut ==
  ASSUME RegInv, NEW b \in Ids, NEW onMintList, Close(b, onMintList)
  PROVE  Abstract!Remove(b)
  <1>1. PICK s : Linked(data, s)
    BY DEF RegInv, ListInv
  <1>2. In(b, s) /\ Linked(data', Without(b, s))
    BY <1>1, CloseRemoves
  <1>3. Chain(data) = s /\ Chain(data') = Without(b, s)
    BY <1>1, <1>2, ChainIsList
  <1>4. Abstract!InList(b)
    BY <1>1, <1>2, InChain
  <1>5. Abstract!Without(b, s) = Without(b, s)
    BY DEF Abstract!Without, Without
  <1>6. NICR' = [NICR EXCEPT ![b] = NoRatio]
    BY DEF Close
  <1> QED
    BY <1>3, <1>4, <1>5, <1>6 DEF Abstract!Remove

LEMMA RedistributeDrifts ==
  ASSUME RegInv, NEW ratios \in [Ids -> Ratios], Redistribute(ratios)
  PROVE  Abstract!Drift
  <1>1. /\ NICR' = [b \in Ids |-> IF contains(data, b) THEN ratios[b] ELSE NoRatio]
        /\ data' = data
    BY DEF Redistribute
  <1>2. \A b \in Ids : ratios[b] \in Ratios /\ ratios[b] # NoRatio
    BY RegistryAssumption
  <1>3. \A b \in Ids : NICR[b] # NoRatio <=> contains(data, b)
    BY DEF RegInv, ListInv
  <1>4. Chain(data)' = Chain(data)
    BY <1>1
  <1>5. NICR' \in [Ids -> Ratios \cup {NoRatio}]
    BY <1>1, <1>2
  <1>6. \A b \in Ids : NICR'[b] = NoRatio <=> NICR[b] = NoRatio
    BY <1>1, <1>2, <1>3
  <1> QED
    BY <1>4, <1>5, <1>6 DEF Abstract!Drift

LEMMA StepsAreListSteps ==
  RegInv /\ [RegNext]_regVars => [Abstract!ListNext]_<<Chain(data), NICR>>
  <1> SUFFICES ASSUME RegInv, [RegNext]_regVars
               PROVE  [Abstract!ListNext]_<<Chain(data), NICR>>
    OBVIOUS
  <1>1. CASE UNCHANGED regVars
    BY <1>1 DEF regVars
  <1>2. ASSUME NEW b \in Ids, NEW r \in Ratios, NEW prevHint \in Hints, NEW nextHint \in Hints,
               Open(b, r, prevHint, nextHint)
        PROVE  Abstract!ListNext
    BY <1>2, OpenInserts DEF Abstract!ListNext
  <1>3. ASSUME NEW b \in Ids, NEW r \in Ratios, NEW prevHint \in Hints, NEW nextHint \in Hints,
               Adjust(b, r, prevHint, nextHint)
        PROVE  Abstract!ListNext
    BY <1>3, AdjustReInserts DEF Abstract!ListNext
  <1>4. ASSUME NEW b \in Ids, NEW onMintList \in BOOLEAN, Close(b, onMintList)
        PROVE  Abstract!ListNext
    BY <1>4, CloseTakesOut DEF Abstract!ListNext
  <1>5. ASSUME NEW ratios \in [Ids -> Ratios], Redistribute(ratios)
        PROVE  Abstract!ListNext
    BY <1>5, RedistributeDrifts DEF Abstract!ListNext
  <1> QED
    BY <1>1, <1>2, <1>3, <1>4, <1>5 DEF RegNext

\* SortedTroves, with its links, hints and walks, implements the sequence that
\* TroveManager and BorrowerOperations rely on: a trove is put at a place that fits its
\* ratio, and no other trove moves or is lost.
THEOREM ListIsImplemented == RegSpec => ImplementsTroveList
  <1>1. RegInit => RegInv /\ Abstract!ListInit
    BY RegInvInit, InitIsEmpty
  <1>2. RegInv /\ [RegNext]_regVars => RegInv' /\ [Abstract!ListNext]_<<Chain(data), NICR>>
    BY RegInvNext, StepsAreListSteps
  <1> QED
    BY <1>1, <1>2, PTL DEF RegSpec, ImplementsTroveList, Abstract!ListSpec

=============================================================================
