------------------------------- MODULE RowSet --------------------------------
(***************************************************************************)
(* What a table promises of its rows: a set of rows with distinct keys.    *)
(* Inserting a key that is there is refused and changes nothing; a row     *)
(* inserted without a key gets the largest key plus one; deleting says     *)
(* whether the row was there.  The program may abort in any operation and  *)
(* then answers nothing more.                                              *)
(***************************************************************************)
EXTENDS Naturals

CONSTANT Key           \* keys a row can have

VARIABLES
  rows,                \* keys of the rows of the table
  reply,               \* answer to the last operation, until it is read
  aborted              \* the program has panicked

vars == <<rows, reply, aborted>>

Answer(op, k, res) == [op |-> op, key |-> k, res |-> res]
None == Answer("none", 0, "none")

NextKey(k, S) ==
  IF S = {} THEN k = 0 ELSE k - 1 \in S /\ \A j \in S : j < k

Init == rows = {} /\ reply = None /\ aborted = FALSE

Insert(k) ==
  \/ /\ reply' = Answer("insert", k, "ok")
     /\ k \notin rows /\ rows' = rows \cup {k}
  \/ /\ reply' = Answer("insert", k, "row_exists")
     /\ k \in rows /\ rows' = rows

InsertAuto(k) ==
  /\ reply' = Answer("auto", 0, "ok")
  /\ NextKey(k, rows) /\ rows' = rows \cup {k}

Delete(k) ==
  \/ /\ reply' = Answer("delete", k, "deleted")
     /\ k \in rows /\ rows' = rows \ {k}
  \/ /\ reply' = Answer("delete", k, "not_found")
     /\ k \notin rows /\ rows' = rows

Operation ==
  /\ ~aborted /\ reply = None
  /\ \E k \in Key : Insert(k) \/ InsertAuto(k) \/ Delete(k)
  /\ UNCHANGED aborted

Read  == reply # None /\ reply' = None /\ UNCHANGED <<rows, aborted>>
Abort == aborted' = TRUE /\ UNCHANGED <<rows, reply>>

Next == Operation \/ Read \/ Abort

Spec == Init /\ [][Next]_vars
=============================================================================
