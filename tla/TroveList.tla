----------------------------- MODULE TroveList -----------------------------
(***************************************************************************)
(* What SortedTroves promises its callers: a sequence of troves, highest   *)
(* nominal ratio first, into which a trove is put at some place where the  *)
(* ratios of its neighbours enclose its own.                               *)
(***************************************************************************)
EXTENDS Naturals, Sequences

\* remove: the node of b, if there is one, is unlinked; the nodes behind it move up.
Without(b, seq) ==
  LET at == CHOOSE i \in 1..Len(seq) : seq[i] = b
  IN  IF \E i \in 1..Len(seq) : seq[i] = b
      THEN [j \in 1..Len(seq) - 1 |-> seq[IF j < at THEN j ELSE j + 1]]
      ELSE seq

\* ratio[b] is the current nominal ratio of b.
validInsertPosition(ratio, seq, NICR, pos) ==
  /\ pos \in 1..Len(seq) + 1
  /\ pos > 1 => ratio[seq[pos - 1]] >= NICR
  /\ pos <= Len(seq) => NICR >= ratio[seq[pos]]

placeAt(seq, b, pos) ==
  [j \in 1..Len(seq) + 1 |->
     IF j = pos THEN b ELSE seq[IF j < pos THEN j ELSE j - 1]]

=============================================================================
