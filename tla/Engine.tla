------------------------------- MODULE Engine -------------------------------
(***************************************************************************)
(* The program around the tables: the storage engine with its files and    *)
(* its cache of open tables (src/storage/engine.rs), the statements that   *)
(* change them row by row (execute_ddl() and execute_dml(),                *)
(* src/execution/query.rs), and the process, which saves what it changed   *)
(* only when it is told to quit (src/execution/meta.rs, src/main.rs).      *)
(*                                                                         *)
(* One table is here the set of its keys, as module RowSet specifies it,   *)
(* and whether its file has pages; saving one is one step that is done,    *)
(* fails, or is cut short, as module Pager shows it to be.  A panic in the *)
(* middle of a statement is a crash.                                       *)
(***************************************************************************)
EXTENDS Naturals, Sequences, SequencesExt

CONSTANTS
  Table,           \* names a table can have
  MaxKey,          \* largest key of the key type
  Batches,         \* rows of an insert: sequences of keys, NoKey and Bad
  NoKey,           \* a row without its key
  Bad,             \* a row that cannot be assembled
  Missing,         \* there is no file
  Headless,        \* the header of the file was not written
  Torn             \* saving the table was cut short

Key == 0 .. MaxKey
Content == {c \in [rows : SUBSET Key, pages : BOOLEAN] : c.rows # {} => c.pages}

ASSUME EngineAssumption ==
  /\ MaxKey \in Nat
  /\ Batches \subseteq Seq(Key \cup {NoKey, Bad})
  /\ NoKey \notin Key /\ Bad \notin Key /\ NoKey # Bad
  /\ {Missing, Headless, Torn} \cap Content = {}
  /\ \A rows \in SUBSET Key : rows \notin {Missing, Torn}
  /\ Missing # Headless /\ Missing # Torn /\ Headless # Torn

VARIABLES
  files,           \* file of every table
  tables,          \* StorageEngine.tables: the tables in memory
  up,              \* the process runs
  op,              \* statement that runs, with its table and what it has to do
  unsaved,         \* tables flush_all() still has to visit
  reply            \* how the last statement ended

vars == <<files, tables, up, op, unsaved, reply>>

NoOp  == [name |-> "none", table |-> Missing, todo |-> << >>]
NoTables == [n \in {} |-> Missing]
Put(f, x, v) == [y \in DOMAIN f \cup {x} |-> IF y = x THEN v ELSE f[y]]
Fresh == [rows |-> {}, pages |-> FALSE]

Exists(n) == files[n] # Missing

(* get_table_mut() and open_table(): contents a table that is used can be  *)
(* found with; none when it cannot be opened, any when its file is torn.   *)
Contents(n) ==
  IF n \in DOMAIN tables THEN {tables[n]} ELSE {c \in Content : files[n] \in {c, Torn}}

Init ==
  /\ files = [n \in Table |-> Missing] /\ tables = NoTables
  /\ up = TRUE /\ op = NoOp /\ unsaved = {} /\ reply = "none"

Prompt == up /\ op.name = "none"
Ends(r) == op' = NoOp /\ reply' = r

-----------------------------------------------------------------------------
(* new_table(): the file is made first, then its header, then the table.   *)
NewTable(n) ==
  /\ Prompt
  /\ \/ Exists(n) /\ Ends("error") /\ UNCHANGED <<files, tables>>
     \/ /\ ~Exists(n) /\ Ends("done")
        /\ files' = [files EXCEPT ![n] = Fresh] /\ tables' = Put(tables, n, Fresh)
     \/ /\ ~Exists(n) /\ Ends("error")
        /\ files' = [files EXCEPT ![n] = Headless] /\ UNCHANGED tables
  /\ UNCHANGED <<up, unsaved>>

(* Mutant: the table stays in memory when its file is removed.             *)
DropTableStays(n) ==
  /\ Prompt
  /\ IF Exists(n) THEN Ends("done") /\ files' = [files EXCEPT ![n] = Missing]
                  ELSE Ends("error") /\ UNCHANGED files
  /\ UNCHANGED <<tables, up, unsaved>>

(* delete_table(): the table in memory goes first, and with it what was    *)
(* not saved; then the file, which there may not be or may not go.         *)
DropTable(n) ==
  /\ Prompt
  /\ tables' = [m \in DOMAIN tables \ {n} |-> tables[m]]
  /\ \/ Exists(n) /\ Ends("done") /\ files' = [files EXCEPT ![n] = Missing]
     \/ Ends("error") /\ UNCHANGED files
  /\ UNCHANGED <<up, unsaved>>

(* A statement that needs a table which cannot be opened; a select or a    *)
(* describe, which only opens its table.                                   *)
NoSuchTable(n) ==
  /\ Prompt /\ Contents(n) = {}
  /\ Ends("error") /\ UNCHANGED <<files, tables, up, unsaved>>

Query(n) ==
  /\ Prompt
  /\ \E c \in Contents(n) : tables' = Put(tables, n, c)
  /\ Ends("done") /\ UNCHANGED <<files, up, unsaved>>

-----------------------------------------------------------------------------
(* Mutant: the table is not kept in memory when it has been opened.        *)
BeginInsertUncached(n, batch) ==
  /\ Prompt /\ Contents(n) # {}
  /\ op' = [name |-> "insert", table |-> n, todo |-> batch]
  /\ reply' = "none" /\ UNCHANGED <<files, tables, up, unsaved>>

(* An insert opens its table and takes its rows one by one.                *)
BeginInsert(n, batch) ==
  /\ Prompt
  /\ \E c \in Contents(n) : tables' = Put(tables, n, c)
  /\ op' = [name |-> "insert", table |-> n, todo |-> batch]
  /\ reply' = "none" /\ UNCHANGED <<files, up, unsaved>>

(* The key of a row: insert_row_auto() counts on from the largest; it has  *)
(* no answer when all rows of the table are deleted or the keys are used.  *)
KeyFor(r, t) ==
  {k \in Key : \/ r # NoKey /\ k = r
               \/ r = NoKey /\ ~t.pages /\ k = 0
               \/ r = NoKey /\ t.pages /\ k - 1 \in t.rows /\ \A j \in t.rows : j < k}

Gone == up' = FALSE /\ tables' = NoTables /\ op' = NoOp /\ unsaved' = {}

(* insert_row() and insert_row_auto(); a row that fails ends the statement *)
(* and leaves the rows before it in the table.                             *)
InsertRow ==
  LET n == op.table
      r == Head(op.todo)
      t == tables[n]
  IN /\ up /\ op.name = "insert" /\ op.todo # << >>
     /\ \/ /\ r # Bad
           /\ \E k \in KeyFor(r, t) \ t.rows :
                tables' = [tables EXCEPT ![n] = [rows |-> @.rows \cup {k}, pages |-> TRUE]]
           /\ op' = [op EXCEPT !.todo = Tail(@)]
           /\ UNCHANGED <<up, unsaved, reply>>
        \/ /\ r = Bad \/ r \in t.rows
           /\ Ends("error") /\ UNCHANGED <<tables, up, unsaved>>
        \/ /\ r = NoKey /\ KeyFor(r, t) = {}
           /\ Gone /\ reply' = "panicked"
     /\ UNCHANGED files

(* A delete scans the whole table for the keys first.                      *)
ScanFor(rows, wanted) == SetToSortSeq(rows \cap wanted, <)

BeginDelete(n, wanted) ==
  /\ Prompt
  /\ \E c \in Contents(n) :
       /\ tables' = Put(tables, n, c)
       /\ op' = [name |-> "delete", table |-> n,
                 todo |-> ScanFor(c.rows, wanted)]
  /\ reply' = "none" /\ UNCHANGED <<files, up, unsaved>>

DeleteRow ==
  /\ up /\ op.name = "delete" /\ op.todo # << >>
  /\ tables' = [tables EXCEPT ![op.table].rows = @ \ {Head(op.todo)}]
  /\ op' = [op EXCEPT !.todo = Tail(@)]
  /\ UNCHANGED <<files, up, unsaved, reply>>

(* Mutant: the statement goes on when its rows are done.                   *)
EndStatementNever ==
  /\ up /\ op.name \in {"insert", "delete"} /\ op.todo = << >>
  /\ reply' = "done" /\ UNCHANGED <<files, tables, up, op, unsaved>>

EndStatement ==
  /\ up /\ op.name \in {"insert", "delete"} /\ op.todo = << >>
  /\ Ends("done") /\ UNCHANGED <<files, tables, up, unsaved>>

-----------------------------------------------------------------------------
(* .quit: flush_all() goes through the tables in memory, in any order.     *)
BeginQuit ==
  /\ Prompt
  /\ op' = [NoOp EXCEPT !.name = "quit"] /\ unsaved' = DOMAIN tables
  /\ reply' = "none" /\ UNCHANGED <<files, tables, up>>

FlushTable(n) ==
  /\ up /\ op.name = "quit" /\ n \in unsaved
  /\ files' = [files EXCEPT ![n] = tables[n]] /\ unsaved' = unsaved \ {n}
  /\ UNCHANGED <<tables, up, op, reply>>

(* A table that cannot be saved ends .quit, and the program goes on.       *)
FlushFails(n) ==
  /\ up /\ op.name = "quit" /\ n \in unsaved
  /\ files' = [files EXCEPT ![n] = Torn] /\ unsaved' = {}
  /\ Ends("error") /\ UNCHANGED <<tables, up>>

(* Mutant: the program exits when the first table is saved.                *)
ExitAfterFirst ==
  /\ up /\ op.name = "quit" /\ (unsaved = {} \/ unsaved # DOMAIN tables)
  /\ Gone /\ reply' = "bye" /\ UNCHANGED files

Exit ==
  /\ up /\ op.name = "quit" /\ unsaved = {}
  /\ Gone /\ reply' = "bye" /\ UNCHANGED files

(* An empty line ends the program: get_input() unwraps its first character.*)
BlankLine ==
  /\ Prompt
  /\ Gone /\ reply' = "blank line" /\ UNCHANGED files

(* The process ends anywhere, in the middle of a flush too.                *)
Crash ==
  /\ up /\ Gone /\ reply' = "killed"
  /\ \/ UNCHANGED files
     \/ \E n \in unsaved : files' = [files EXCEPT ![n] = Torn]

(* The program is started again: StorageEngine::new() reads nothing.       *)
Start ==
  /\ ~up /\ up' = TRUE /\ reply' = "none"
  /\ UNCHANGED <<files, tables, op, unsaved>>

Statement ==
  \E n \in Table :
    \/ NewTable(n) \/ DropTable(n) \/ NoSuchTable(n) \/ Query(n)
    \/ \E batch \in Batches : BeginInsert(n, batch)
    \/ \E wanted \in SUBSET Key : BeginDelete(n, wanted)
Flush == \E n \in Table : FlushTable(n) \/ FlushFails(n)
Step == InsertRow \/ DeleteRow \/ EndStatement \/ Flush \/ Exit
Next == Statement \/ Step \/ BeginQuit \/ BlankLine \/ Crash \/ Start
Spec == Init /\ [][Next]_vars /\ WF_vars(Step)

-----------------------------------------------------------------------------
(* The type invariant; a statement has its table in memory.                *)
TypeOK ==
  /\ files \in [Table -> Content \cup {Missing, Headless, Torn}]
  /\ DOMAIN tables \subseteq Table /\ \A n \in DOMAIN tables : tables[n] \in Content
  /\ up \in BOOLEAN /\ unsaved \subseteq DOMAIN tables
  /\ op.name \in {"none", "insert", "delete", "quit"}
  /\ op.name \in {"insert", "delete"} => op.table \in DOMAIN tables

(* A table in memory has a file with a header: none outlives a drop, a     *)
(* create that failed or a program that ended, to be saved over a table    *)
(* that was made anew under its name (StorageEngine.tables).               *)
TablesHaveFiles ==
  \A n \in DOMAIN tables : up /\ files[n] \notin {Missing, Headless}

(* The program is the catalog of tables it promises to be: .quit leaves    *)
(* no change behind, a crash goes back to what was saved, no statement     *)
(* changes a table but by one row at a time.                               *)
Saved(n) ==
  IF files[n] = Missing THEN Missing
  ELSE IF files[n] \in {Headless, Torn} THEN Torn ELSE files[n].rows
C == INSTANCE Catalog WITH
       Lost <- Torn,
       rows <- [n \in Table |-> IF n \in DOMAIN tables THEN tables[n].rows ELSE Saved(n)],
       saved <- [n \in Table |-> Saved(n)],
       bye <- reply = "bye"
ImplementsCatalog == C!Spec

(* Every statement comes to its end, and .quit to the end of the program   *)
(* or to an error (the loops of execute_dml() and flush_all()).            *)
StatementsEnd == op.name # "none" ~> op.name = "none"

(* What src/src/interface/repl.rs:58 says: the user is asked until the     *)
(* line is not empty.                                                      *)
BlankLineIsAskedAgain == reply # "blank line"

=============================================================================
