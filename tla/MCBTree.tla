------------------------------- MODULE MCBTree -------------------------------
(* BTree for TLC: the sizes of rows, and what is in the table when the     *)
(* client starts.                                                          *)
EXTENDS BTree

CONSTANTS
  Size,          \* space of every leaf cell, where all rows are alike
  Loaded         \* number of keys the table is filled with, rising from 0 or falling from MaxKey

EvenRows == [k \in Key |-> Size]
Rising   == [i \in 1 .. Loaded |-> i - 1]

Falling  == [i \in 1 .. Loaded |-> MaxKey - i + 1]

(* Rows of the largest size MAX_RECORD_SIZE allows on keys up to 13, small *)
(* ones above, in bytes; every other large one is there and all small ones. *)
MixedRows  == [k \in Key |-> IF k <= 13 THEN 519 ELSE 12]
MixedTable == [i \in 1 .. 14 |-> IF i <= 7 THEN 2 * (i - 1) ELSE i + 6]
=============================================================================
