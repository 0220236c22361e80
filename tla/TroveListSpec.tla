--------------------------- MODULE TroveListSpec ---------------------------
(***************************************************************************)
(* The list as a state machine: the abstract specification that module     *)
(* TroveRegistry implements.  Ratios may change under the list at any time *)
(* (redistributions), so it need not be sorted.                            *)
(***************************************************************************)
EXTENDS TroveList, Functions

CONSTANTS Ids, Ratios, NoRatio

VARIABLES
  list,     \* the troves in their order
  ratio     \* their nominal ratios, NoRatio for one that is closed

ListInit == list = <<>> /\ ratio = [b \in Ids |-> NoRatio]

InList(b) == b \in Range(list)

\* b gets a new ratio and a place that fits it among the others.
Place(b) ==
  LET others == Without(b, list)
  IN  \E NICR \in Ratios :
        /\ ratio' = [ratio EXCEPT ![b] = NICR]
        /\ \E pos \in 1..Len(others) + 1 :
             /\ validInsertPosition(ratio, others, NICR, pos)
             /\ list' = placeAt(others, b, pos)

Insert(b) == ~InList(b) /\ Place(b)

ReInsert(b) == InList(b) /\ Place(b)

Remove(b) ==
  /\ InList(b)
  /\ ratio' = [ratio EXCEPT ![b] = NoRatio]
  /\ list' = Without(b, list)

\* A redistribution changes the ratios of all troves where they are.
Drift ==
  /\ UNCHANGED list
  /\ ratio' \in [Ids -> Ratios \cup {NoRatio}]
  /\ \A b \in Ids : ratio'[b] = NoRatio <=> ratio[b] = NoRatio

ListNext == Drift \/ \E b \in Ids : Insert(b) \/ ReInsert(b) \/ Remove(b)

ListSpec == ListInit /\ [][ListNext]_<<list, ratio>>

=============================================================================
