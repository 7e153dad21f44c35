------------------------------ MODULE Catalog ------------------------------
(***************************************************************************)
(* What the program promises of its tables: a table is there from the      *)
(* statement that creates it to the one that drops it, its rows change     *)
(* only by insert and delete, and they are saved when the program ends by  *)
(* .quit.  When it ends otherwise, a table goes back to the rows saved     *)
(* last, or is lost when it was being saved.                               *)
(***************************************************************************)
EXTENDS Naturals

CONSTANTS Table, Key
CONSTANTS Missing,  \* the table does not exist
          Lost      \* its rows are not known any more

VARIABLES
  rows,             \* rows of every table as statements see them
  saved,            \* rows of every table that outlive the program
  bye               \* the program ended by .quit

vars == <<rows, saved, bye>>
Known(n) == rows[n] \notin {Missing, Lost}

Init ==
  /\ rows = [n \in Table |-> Missing] /\ saved = rows /\ bye = FALSE

Create(n) ==
  /\ rows[n] = Missing
  /\ \E s \in {{}, Lost} : rows' = [rows EXCEPT ![n] = s] /\ saved' = [saved EXCEPT ![n] = s]
  /\ bye' = FALSE

Drop(n) ==
  /\ rows[n] # Missing
  /\ rows' = [rows EXCEPT ![n] = Missing] /\ saved' = [saved EXCEPT ![n] = Missing]
  /\ bye' = FALSE

Change(n) ==
  /\ Known(n)
  /\ \/ \E k \in Key \ rows[n] : rows' = [rows EXCEPT ![n] = @ \cup {k}]
     \/ \E k \in rows[n] : rows' = [rows EXCEPT ![n] = @ \ {k}]
  /\ bye' = FALSE /\ UNCHANGED saved

Save(n) ==
  /\ Known(n)
  /\ saved' = [saved EXCEPT ![n] = rows[n]]
  /\ bye' = FALSE /\ UNCHANGED rows

SaveFails(n) ==
  /\ Known(n)
  /\ saved' = [saved EXCEPT ![n] = Lost]
  /\ bye' = FALSE /\ UNCHANGED rows

(* A lost table turns out to have some rows.                               *)
Find(n) ==
  /\ rows[n] = Lost
  /\ \E s \in SUBSET Key : rows' = [rows EXCEPT ![n] = s]
  /\ bye' = FALSE /\ UNCHANGED saved

(* The changes since the last save are given up.                           *)
Forget(n) ==
  /\ Known(n)
  /\ rows' = [rows EXCEPT ![n] = saved[n]]
  /\ bye' = FALSE /\ UNCHANGED saved

(* A program that was told to quit has saved every row.                    *)
Quit ==
  /\ rows = saved
  /\ bye' = TRUE /\ UNCHANGED <<rows, saved>>

Crash ==
  /\ \/ UNCHANGED saved
     \/ \E n \in Table : Known(n) /\ saved' = [saved EXCEPT ![n] = Lost]
  /\ rows' = saved' /\ bye' = FALSE

Next ==
  \/ \E n \in Table : Create(n) \/ Drop(n) \/ Change(n) \/ Save(n) \/ SaveFails(n) \/ Find(n)
                          \/ Forget(n)
  \/ Quit \/ Crash \/ (bye' = FALSE /\ UNCHANGED <<rows, saved>>)
Spec == Init /\ [][Next]_vars
=============================================================================
