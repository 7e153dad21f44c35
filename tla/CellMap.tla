------------------------------- MODULE CellMap -------------------------------
(***************************************************************************)
(* What a page promises of the cells in it, without offsets: a map from    *)
(* keys to the size of their cell, which is full when the cells and their  *)
(* pointers take all the space.  A page that is split or that a sibling    *)
(* takes cells from keeps the cells below or above some key.               *)
(***************************************************************************)
EXTENDS Sums

CONSTANTS
  Key, Size,           \* keys, and sizes of a cell
  PtrSize, Capacity    \* size of a cell pointer, space in an empty page

VARIABLES
  cells,               \* size of the cell of every key in the page
  reply                \* answer to the last call

vars == <<cells, reply>>

Space == Total(cells) + PtrSize * Cardinality(DOMAIN cells)
Fits(s) == Space + s + PtrSize <= Capacity

Keep(S) == [k \in S |-> cells[k]]

Init == cells = [k \in {} |-> 0] /\ reply = "none"

Insert(k, s) ==
  \/ /\ reply' = "ok" /\ Fits(s) /\ k \notin DOMAIN cells
     /\ cells' = [j \in DOMAIN cells \cup {k} |-> IF j = k THEN s ELSE cells[j]]
  \/ reply' = "exists" /\ Fits(s) /\ k \in DOMAIN cells /\ UNCHANGED cells
  \/ reply' = "full" /\ ~Fits(s) /\ UNCHANGED cells

Delete(k) ==
  /\ reply' = "ok"
  /\ k \in DOMAIN cells /\ cells' = Keep(DOMAIN cells \ {k})

Cut(k) ==
  /\ reply' = "ok"
  /\ \/ cells' = Keep({j \in DOMAIN cells : j < k})
     \/ cells' = Keep({j \in DOMAIN cells : j >= k})

Next == \E k \in Key : Delete(k) \/ Cut(k) \/ \E s \in Size : Insert(k, s)

Spec == Init /\ [][Next]_vars
=============================================================================
