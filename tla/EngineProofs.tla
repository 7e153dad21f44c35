---------------------------- MODULE EngineProofs ----------------------------
(***************************************************************************)
(* Theorems about the storage engine and the statements that change it,    *)
(* for any tables, keys and batches of rows: its types, that a table in    *)
(* memory has a file, and that the program is the catalog of tables module *)
(* Catalog specifies.                                                      *)
(***************************************************************************)
EXTENDS Engine, TLAPS

(* Only .quit has tables to save, and those it has passed are in their     *)
(* files as they are in memory; a program that said "bye" does not run.    *)
QuitProgress ==
  /\ op.name # "quit" => unsaved = {}
  /\ op.name = "quit" => \A n \in DOMAIN tables \ unsaved : files[n] = tables[n]
  /\ up => reply # "bye"
  /\ op.name # "none" => up

IInv == TypeOK /\ TablesHaveFiles /\ QuitProgress

-----------------------------------------------------------------------------
(* A table that is used has contents: those in memory, or what its file is *)
(* taken for.                                                              *)
LEMMA ContentsFacts ==
  ASSUME IInv, NEW n \in Table, NEW c \in Contents(n)
  PROVE  /\ c \in Content
         /\ files[n] \notin {Missing, Headless}
         /\ n \in DOMAIN tables => c = tables[n]
         /\ n \notin DOMAIN tables /\ files[n] # Torn => c = files[n]
<1>1. CASE n \in DOMAIN tables
  BY <1>1 DEF Contents, IInv, TypeOK, TablesHaveFiles
<1>2. CASE n \notin DOMAIN tables
  BY <1>2, EngineAssumption DEF Contents
<1> QED BY <1>1, <1>2

(* Opening a table keeps what is known of those in memory.                 *)
LEMMA OpenKeeps ==
  ASSUME IInv, up, NEW n \in Table, NEW c \in Contents(n),
         tables' = Put(tables, n, c), UNCHANGED files, UNCHANGED up
  PROVE  /\ DOMAIN tables' = DOMAIN tables \cup {n}
         /\ DOMAIN tables' \subseteq Table
         /\ \A m \in DOMAIN tables' : tables'[m] \in Content
         /\ TablesHaveFiles'
<1>1. /\ DOMAIN tables' = DOMAIN tables \cup {n}
      /\ tables'[n] = c
      /\ \A m \in DOMAIN tables : m # n => tables'[m] = tables[m]
  BY DEF Put
<1>2. c \in Content /\ files[n] \notin {Missing, Headless}
  BY ContentsFacts
<1>3. \A m \in DOMAIN tables' : tables'[m] \in Content
  BY <1>1, <1>2 DEF IInv, TypeOK
<1>4. TablesHaveFiles'
  BY <1>1, <1>2 DEF IInv, TablesHaveFiles
<1> QED BY <1>1, <1>3, <1>4 DEF IInv, TypeOK

-----------------------------------------------------------------------------
LEMMA InitInv == Init => IInv
<1> SUFFICES ASSUME Init PROVE IInv
  OBVIOUS
<1>1. DOMAIN NoTables = {}
  BY DEF NoTables
<1>2. TypeOK
  BY <1>1 DEF Init, TypeOK, NoOp
<1>3. TablesHaveFiles
  BY <1>1 DEF Init, TablesHaveFiles
<1>4. QuitProgress
  BY <1>1 DEF Init, QuitProgress, NoOp
<1> QED BY <1>2, <1>3, <1>4 DEF IInv

LEMMA GoneInv ==
  ASSUME IInv, Gone, reply' \in {"panicked", "bye", "blank line", "killed"},
         files' \in [Table -> Content \cup {Missing, Headless, Torn}]
  PROVE  IInv'
<1>1. DOMAIN NoTables = {}
  BY DEF NoTables
<1> QED BY <1>1 DEF Gone, NoOp, IInv, TypeOK, TablesHaveFiles, QuitProgress

(* The statements that begin at the prompt.                                *)
LEMMA StatementInv ==
  ASSUME IInv, NEW n \in Table,
         \/ NewTable(n) \/ DropTable(n) \/ NoSuchTable(n) \/ Query(n)
         \/ \E batch \in Batches : BeginInsert(n, batch)
         \/ \E wanted \in SUBSET Key : BeginDelete(n, wanted)
  PROVE  IInv'
<1> USE DEF Prompt, Ends, NoOp
<1>f. Fresh \in Content
  BY DEF Fresh, Content
<1>1. ASSUME NewTable(n) PROVE IInv'
  <2>1. CASE Exists(n) /\ Ends("error") /\ UNCHANGED <<files, tables>>
    BY <1>1, <2>1 DEF NewTable, IInv, TypeOK, TablesHaveFiles, QuitProgress
  <2>2. CASE /\ ~Exists(n) /\ Ends("done")
             /\ files' = [files EXCEPT ![n] = Fresh] /\ tables' = Put(tables, n, Fresh)
    <3>1. Fresh \notin {Missing, Headless}
      BY <1>f, EngineAssumption
    <3>2. /\ DOMAIN tables' = DOMAIN tables \cup {n}
          /\ \A m \in DOMAIN tables' : tables'[m] = IF m = n THEN Fresh ELSE tables[m]
      BY <2>2 DEF Put
    <3>3. TypeOK'
      BY <1>1, <1>f, <2>2, <3>2 DEF NewTable, IInv, TypeOK
    <3>4. TablesHaveFiles'
      BY <1>1, <2>2, <3>1, <3>2 DEF NewTable, IInv, TypeOK, TablesHaveFiles
    <3>5. QuitProgress'
      BY <1>1, <2>2 DEF NewTable, IInv, QuitProgress
    <3> QED BY <3>3, <3>4, <3>5 DEF IInv
  <2>3. CASE /\ ~Exists(n) /\ Ends("error")
             /\ files' = [files EXCEPT ![n] = Headless] /\ UNCHANGED tables
    <3>1. n \notin DOMAIN tables
      BY <2>3 DEF Exists, IInv, TablesHaveFiles
    <3> QED BY <1>1, <2>3, <3>1 DEF NewTable, IInv, TypeOK, TablesHaveFiles, QuitProgress
  <2> QED BY <1>1, <2>1, <2>2, <2>3 DEF NewTable
<1>2. ASSUME DropTable(n) PROVE IInv'
  <2>1. /\ DOMAIN tables' = DOMAIN tables \ {n}
        /\ \A m \in DOMAIN tables' : tables'[m] = tables[m]
    BY <1>2 DEF DropTable
  <2>2. files' \in [Table -> Content \cup {Missing, Headless, Torn}]
    BY <1>2 DEF DropTable, IInv, TypeOK
  <2>3. \A m \in Table \ {n} : files'[m] = files[m]
    BY <1>2 DEF DropTable, IInv, TypeOK
  <2>4. TypeOK'
    BY <1>2, <2>1, <2>2 DEF DropTable, IInv, TypeOK, QuitProgress
  <2>5. TablesHaveFiles'
    BY <1>2, <2>1, <2>3 DEF DropTable, IInv, TypeOK, TablesHaveFiles
  <2>6. QuitProgress'
    BY <1>2 DEF DropTable, IInv, QuitProgress
  <2> QED BY <2>4, <2>5, <2>6 DEF IInv
<1>3. ASSUME NoSuchTable(n) PROVE IInv'
  BY <1>3 DEF NoSuchTable, IInv, TypeOK, TablesHaveFiles, QuitProgress
<1>4. ASSUME Query(n) PROVE IInv'
  <2>1. PICK c \in Contents(n) : tables' = Put(tables, n, c)
    BY <1>4 DEF Query
  <2>2. /\ DOMAIN tables' = DOMAIN tables \cup {n} /\ DOMAIN tables' \subseteq Table
        /\ (\A m \in DOMAIN tables' : tables'[m] \in Content) /\ TablesHaveFiles'
    BY <1>4, <2>1, OpenKeeps DEF Query
  <2> QED BY <1>4, <2>2 DEF Query, IInv, TypeOK, QuitProgress
<1>5. ASSUME NEW batch \in Batches, BeginInsert(n, batch) PROVE IInv'
  <2>1. PICK c \in Contents(n) : tables' = Put(tables, n, c)
    BY <1>5 DEF BeginInsert
  <2>2. /\ DOMAIN tables' = DOMAIN tables \cup {n} /\ DOMAIN tables' \subseteq Table
        /\ (\A m \in DOMAIN tables' : tables'[m] \in Content) /\ TablesHaveFiles'
    BY <1>5, <2>1, OpenKeeps DEF BeginInsert
  <2> QED BY <1>5, <2>2 DEF BeginInsert, IInv, TypeOK, QuitProgress
<1>6. ASSUME NEW wanted \in SUBSET Key, BeginDelete(n, wanted) PROVE IInv'
  <2>1. PICK c \in Contents(n) :
          /\ tables' = Put(tables, n, c)
          /\ op' = [name |-> "delete", table |-> n,
                    todo |-> ScanFor(c.rows, wanted)]
    BY <1>6 DEF BeginDelete
  <2>2. /\ DOMAIN tables' = DOMAIN tables \cup {n} /\ DOMAIN tables' \subseteq Table
        /\ (\A m \in DOMAIN tables' : tables'[m] \in Content) /\ TablesHaveFiles'
    BY <1>6, <2>1, OpenKeeps DEF BeginDelete
  <2>3. op'.name = "delete" /\ op'.table = n
    BY <2>1
  <2> QED BY <1>6, <2>2, <2>3 DEF BeginDelete, IInv, TypeOK, QuitProgress
<1> QED BY <1>1, <1>2, <1>3, <1>4, <1>5, <1>6

(* The steps of a statement that runs, and of .quit.                       *)
LEMMA StepInv == IInv /\ Step => IInv'
<1> SUFFICES ASSUME IInv, Step PROVE IInv'
  OBVIOUS
<1> USE DEF Ends, NoOp
<1>1. CASE InsertRow
  <2> DEFINE n == op.table
             r == Head(op.todo)
             t == tables[n]
  <2>1. n \in DOMAIN tables /\ t \in Content /\ up
    BY <1>1 DEF InsertRow, IInv, TypeOK
  <2>2. ASSUME NEW k \in KeyFor(r, t) \ t.rows,
               tables' = [tables EXCEPT ![n] = [rows |-> @.rows \cup {k}, pages |-> TRUE]],
               op' = [op EXCEPT !.todo = Tail(@)],
               UNCHANGED <<up, unsaved, reply>>
        PROVE  IInv'
    <3>1. k \in Key
      BY DEF KeyFor
    <3>2. [rows |-> t.rows \cup {k}, pages |-> TRUE] \in Content
      BY <2>1, <3>1 DEF Content
    <3>3. op'.name = op.name /\ op'.table = op.table
      BY <1>1, <2>2, <2>1 DEF InsertRow, IInv, TypeOK
    <3>4. TypeOK'
      BY <1>1, <2>1, <2>2, <3>2, <3>3 DEF InsertRow, IInv, TypeOK
    <3>5. TablesHaveFiles'
      BY <1>1, <2>2 DEF InsertRow, IInv, TablesHaveFiles
    <3>6. QuitProgress'
      BY <1>1, <2>2, <3>3 DEF InsertRow, IInv, QuitProgress
    <3> QED BY <3>4, <3>5, <3>6 DEF IInv
  <2>3. CASE Ends("error") /\ UNCHANGED <<tables, up, unsaved>>
    BY <1>1, <2>3 DEF InsertRow, IInv, TypeOK, TablesHaveFiles, QuitProgress
  <2>4. CASE Gone /\ reply' = "panicked"
    <3>1. files' \in [Table -> Content \cup {Missing, Headless, Torn}]
      BY <1>1 DEF InsertRow, IInv, TypeOK
    <3> QED BY <2>4, <3>1, GoneInv
  <2> QED BY <1>1, <2>2, <2>3, <2>4 DEF InsertRow
<1>2. CASE DeleteRow
  <2> DEFINE n == op.table
  <2>1. n \in DOMAIN tables /\ tables[n] \in Content
    BY <1>2 DEF DeleteRow, IInv, TypeOK
  <2>2. tables' = [tables EXCEPT ![n].rows = @ \ {Head(op.todo)}]
    BY <1>2 DEF DeleteRow
  <2>3. [tables[n] EXCEPT !.rows = @ \ {Head(op.todo)}] \in Content
    BY <2>1 DEF Content
  <2>4. DOMAIN tables' = DOMAIN tables /\ \A m \in DOMAIN tables : tables'[m] \in Content
    BY <2>1, <2>2, <2>3 DEF IInv, TypeOK
  <2>5. op'.name = op.name /\ op'.table = op.table
    BY <1>2 DEF DeleteRow
  <2> QED BY <1>2, <2>4, <2>5 DEF DeleteRow, IInv, TypeOK, TablesHaveFiles, QuitProgress
<1>3. CASE EndStatement
  BY <1>3 DEF EndStatement, IInv, TypeOK, TablesHaveFiles, QuitProgress
<1>4. ASSUME NEW n \in Table, FlushTable(n) PROVE IInv'
  <2>1. tables[n] \in Content /\ tables[n] \notin {Missing, Headless}
    BY <1>4, EngineAssumption DEF FlushTable, IInv, TypeOK
  <2>2. files' \in [Table -> Content \cup {Missing, Headless, Torn}]
        /\ files'[n] = tables[n] /\ \A m \in Table \ {n} : files'[m] = files[m]
    BY <1>4, <2>1 DEF FlushTable, IInv, TypeOK
  <2>3. TypeOK'
    BY <1>4, <2>2 DEF FlushTable, IInv, TypeOK
  <2>4. TablesHaveFiles'
    BY <1>4, <2>1, <2>2 DEF FlushTable, IInv, TypeOK, TablesHaveFiles
  <2>5. QuitProgress'
    BY <1>4, <2>2 DEF FlushTable, IInv, TypeOK, QuitProgress
  <2> QED BY <2>3, <2>4, <2>5 DEF IInv
<1>5. ASSUME NEW n \in Table, FlushFails(n) PROVE IInv'
  <2>1. files' \in [Table -> Content \cup {Missing, Headless, Torn}]
        /\ files'[n] = Torn /\ \A m \in Table \ {n} : files'[m] = files[m]
    BY <1>5 DEF FlushFails, IInv, TypeOK
  <2>2. TablesHaveFiles'
    BY <1>5, <2>1, EngineAssumption DEF FlushFails, IInv, TypeOK, TablesHaveFiles
  <2> QED BY <1>5, <2>1, <2>2 DEF FlushFails, IInv, TypeOK, QuitProgress
<1>6. CASE Exit
  <2>1. files' \in [Table -> Content \cup {Missing, Headless, Torn}]
    BY <1>6 DEF Exit, IInv, TypeOK
  <2> QED BY <1>6, <2>1, GoneInv DEF Exit
<1> QED BY <1>1, <1>2, <1>3, <1>4, <1>5, <1>6 DEF Step, Flush

LEMMA NextInv == IInv /\ [Next]_vars => IInv'
<1> SUFFICES ASSUME IInv, [Next]_vars PROVE IInv'
  OBVIOUS
<1>1. CASE Statement
  BY <1>1, StatementInv DEF Statement
<1>2. CASE Step
  BY <1>2, StepInv
<1>3. CASE BeginQuit
  BY <1>3 DEF BeginQuit, Prompt, NoOp, IInv, TypeOK, TablesHaveFiles, QuitProgress
<1>4. CASE BlankLine
  <2>1. files' \in [Table -> Content \cup {Missing, Headless, Torn}]
    BY <1>4 DEF BlankLine, IInv, TypeOK
  <2> QED BY <1>4, <2>1, GoneInv DEF BlankLine
<1>5. CASE Crash
  <2>1. files' \in [Table -> Content \cup {Missing, Headless, Torn}]
    BY <1>5 DEF Crash, IInv, TypeOK
  <2> QED BY <1>5, <2>1, GoneInv DEF Crash
<1>6. CASE Start
  BY <1>6 DEF Start, IInv, TypeOK, TablesHaveFiles, QuitProgress
<1>7. CASE UNCHANGED vars
  BY <1>7 DEF vars, IInv, TypeOK, TablesHaveFiles, QuitProgress
<1> QED BY <1>1, <1>2, <1>3, <1>4, <1>5, <1>6, <1>7 DEF Next

(* The invariant of the engine is inductive, for any tables and keys.      *)
THEOREM EngineInvariance == Spec => []IInv
BY InitInv, NextInv, PTL DEF Spec

(* The engine's state has its types (StorageEngine, src/storage/engine.rs). *)
THEOREM EngineTypes == Spec => []TypeOK
<1>1. IInv => TypeOK
  BY DEF IInv
<1> QED BY <1>1, EngineInvariance, PTL

(* A table in memory always has a file with a header, however creates,     *)
(* drops, crashes and failing saves follow each other (StorageEngine.tables *)
(* and the files, src/storage/engine.rs).                                  *)
THEOREM MemoryHasFiles == Spec => []TablesHaveFiles
<1>1. IInv => TablesHaveFiles
  BY DEF IInv
<1> QED BY <1>1, EngineInvariance, PTL

-----------------------------------------------------------------------------
(* What the catalog sees of the engine: rows and saved rows of a table.    *)
RowsOf(n) == IF n \in DOMAIN tables THEN tables[n].rows ELSE Saved(n)
Rows      == [n \in Table |-> RowsOf(n)]
SavedRows == [n \in Table |-> Saved(n)]

LEMMA SavedFacts ==
  ASSUME IInv, NEW n \in Table
  PROVE  /\ Saved(n) \in (SUBSET Key) \cup {Missing, Torn}
         /\ Saved(n) = Missing <=> files[n] = Missing
         /\ files[n] \in Content => Saved(n) = files[n].rows
         /\ files[n] \in {Headless, Torn} => Saved(n) = Torn
<1>1. files[n] \in Content \cup {Missing, Headless, Torn}
  BY DEF IInv, TypeOK
<1>2. \A c \in Content : c.rows \in SUBSET Key
  BY DEF Content
<1> QED BY <1>1, <1>2, EngineAssumption DEF Saved

(* A table in memory is known to the catalog and has a file.               *)
LEMMA MemoryFacts ==
  ASSUME IInv, NEW n \in DOMAIN tables
  PROVE  /\ n \in Table /\ tables[n] \in Content /\ RowsOf(n) = tables[n].rows
         /\ RowsOf(n) \in SUBSET Key /\ RowsOf(n) \notin {Missing, Torn}
<1>1. n \in Table /\ tables[n] \in Content
  BY DEF IInv, TypeOK
<1>2. tables[n].rows \in SUBSET Key
  BY <1>1 DEF Content
<1> QED BY <1>1, <1>2, EngineAssumption DEF RowsOf

LEMMA InitRefines == Init => C!Init
<1> SUFFICES ASSUME Init PROVE C!Init
  OBVIOUS
<1>1. DOMAIN tables = {}
  BY DEF Init, NoTables
<1>2. \A n \in Table : Saved(n) = Missing
  BY DEF Init, Saved
<1>3. (reply = "bye") = FALSE
  BY DEF Init
<1>4. Rows = [n \in Table |-> Missing] /\ SavedRows = Rows
  BY <1>1, <1>2 DEF Rows, SavedRows, RowsOf
<1> QED BY <1>3, <1>4 DEF C!Init, Rows, SavedRows, RowsOf

(* Steps the catalog does not see, and steps that only end the "bye".      *)
LEMMA StutterRefines ==
  ASSUME IInv, UNCHANGED files, reply' # "bye",
         \A n \in Table : RowsOf(n)' = RowsOf(n)
  PROVE  [C!Next]_C!vars
<1>1. \A n \in Table : Saved(n)' = Saved(n)
  BY DEF Saved
<1>2. UNCHANGED <<Rows, SavedRows>>
  BY <1>1 DEF Rows, SavedRows
<1>3. (reply' = "bye") = FALSE
  OBVIOUS
<1> QED BY <1>2, <1>3 DEF C!Next, Rows, SavedRows, RowsOf

(* A table that is opened turns out to have rows if it was lost, and is as *)
(* it was saved otherwise.                                                 *)
LEMMA OpenRefines ==
  ASSUME IInv, NEW n \in Table, NEW c \in Contents(n),
         tables' = Put(tables, n, c), UNCHANGED files, reply' # "bye"
  PROVE  [C!Next]_C!vars
<1>1. /\ c \in Content /\ files[n] \notin {Missing, Headless}
      /\ n \in DOMAIN tables => c = tables[n]
      /\ n \notin DOMAIN tables /\ files[n] # Torn => c = files[n]
  BY ContentsFacts
<1>2. /\ DOMAIN tables' = DOMAIN tables \cup {n}
      /\ \A m \in DOMAIN tables' : tables'[m] = IF m = n THEN c ELSE tables[m]
  BY DEF Put
<1>3. \A m \in Table : Saved(m)' = Saved(m)
  BY DEF Saved
<1>4. \A m \in Table \ {n} : RowsOf(m)' = RowsOf(m)
  BY <1>2, <1>3 DEF RowsOf
<1>5. RowsOf(n)' = c.rows
  BY <1>2 DEF RowsOf
<1>6. CASE n \in DOMAIN tables \/ files[n] # Torn
  <2>1. RowsOf(n) = c.rows
    BY <1>1, <1>6, SavedFacts DEF RowsOf
  <2> QED BY <1>4, <1>5, <2>1, StutterRefines
<1>7. CASE n \notin DOMAIN tables /\ files[n] = Torn
  <2>1. RowsOf(n) = Torn
    BY <1>7, SavedFacts DEF RowsOf
  <2>2. c.rows \in SUBSET Key
    BY <1>1 DEF Content
  <2>3. Rows' = [Rows EXCEPT ![n] = c.rows]
    BY <1>4, <1>5 DEF Rows
  <2>4. UNCHANGED SavedRows
    BY <1>3 DEF SavedRows
  <2>5. (reply' = "bye") = FALSE
    OBVIOUS
  <2>6. C!Find(n)
    BY <2>1, <2>2, <2>3, <2>4, <2>5 DEF C!Find, Rows, SavedRows, RowsOf
  <2> QED BY <2>6 DEF C!Next
<1> QED BY <1>6, <1>7

(* A row comes into a table in memory or leaves it.                        *)
LEMMA ChangeRefines ==
  ASSUME IInv, NEW n \in DOMAIN tables, NEW kept, UNCHANGED files, reply' # "bye",
         DOMAIN tables' = DOMAIN tables, tables'[n].rows = kept,
         \A m \in DOMAIN tables \ {n} : tables'[m] = tables[m],
         \/ \E k \in Key \ tables[n].rows : kept = tables[n].rows \cup {k}
         \/ \E k \in tables[n].rows : kept = tables[n].rows \ {k}
  PROVE  [C!Next]_C!vars
<1>1. n \in Table /\ RowsOf(n) = tables[n].rows /\ RowsOf(n) \notin {Missing, Torn}
  BY MemoryFacts
<1>2. UNCHANGED SavedRows
  BY DEF SavedRows, Saved
<1>3. RowsOf(n)' = kept /\ \A m \in Table \ {n} : RowsOf(m)' = RowsOf(m)
  BY DEF RowsOf, Saved
<1>4. Rows' = [Rows EXCEPT ![n] = kept]
  BY <1>3 DEF Rows
<1>5. Rows[n] = RowsOf(n)
  BY <1>1 DEF Rows
<1>6. (reply' = "bye") = FALSE
  OBVIOUS
<1>7. C!Change(n)
  BY <1>1, <1>2, <1>4, <1>5, <1>6 DEF C!Change, C!Known, Rows, SavedRows, RowsOf
<1> QED BY <1>1, <1>7 DEF C!Next

(* A program that ends without .quit goes back to what was saved, one      *)
(* table of which may be lost.                                             *)
LEMMA GoneRefines ==
  ASSUME IInv, Gone, reply' # "bye",
         UNCHANGED files \/ \E n \in unsaved : files' = [files EXCEPT ![n] = Torn]
  PROVE  [C!Next]_C!vars
<1>1. \A n \in Table : RowsOf(n)' = Saved(n)'
  BY DEF Gone, NoTables, RowsOf
<1>2. Rows' = SavedRows'
  BY <1>1 DEF Rows, SavedRows
<1>3. (reply' = "bye") = FALSE
  OBVIOUS
<1>4. CASE UNCHANGED files
  <2>1. UNCHANGED SavedRows
    BY <1>4 DEF SavedRows, Saved
  <2> QED BY <1>2, <1>3, <2>1 DEF C!Next, C!Crash, Rows, SavedRows, RowsOf
<1>5. ASSUME NEW n \in unsaved, files' = [files EXCEPT ![n] = Torn]
      PROVE  [C!Next]_C!vars
  <2>1. n \in DOMAIN tables /\ n \in Table
    BY DEF IInv, TypeOK
  <2>2. RowsOf(n) \notin {Missing, Torn}
    BY <2>1, MemoryFacts
  <2>3. Saved(n)' = Torn /\ \A m \in Table \ {n} : Saved(m)' = Saved(m)
    BY <1>5, <2>1, EngineAssumption DEF Saved, IInv, TypeOK
  <2>4. SavedRows' = [SavedRows EXCEPT ![n] = Torn]
    BY <2>3 DEF SavedRows
  <2>5. Rows[n] = RowsOf(n)
    BY <2>1 DEF Rows
  <2>6. C!Crash
    BY <1>2, <1>3, <2>1, <2>2, <2>4, <2>5 DEF C!Crash, C!Known, Rows, SavedRows, RowsOf
  <2> QED BY <2>6 DEF C!Next
<1> QED BY <1>4, <1>5

LEMMA StatementRefines ==
  ASSUME IInv, NEW n \in Table,
         \/ NewTable(n) \/ DropTable(n) \/ NoSuchTable(n) \/ Query(n)
         \/ \E batch \in Batches : BeginInsert(n, batch)
         \/ \E wanted \in SUBSET Key : BeginDelete(n, wanted)
  PROVE  [C!Next]_C!vars
<1> USE DEF Prompt, Ends
<1>1. ASSUME NewTable(n) PROVE [C!Next]_C!vars
  <2>1. (reply' = "bye") = FALSE
    BY <1>1 DEF NewTable
  <2>2. CASE Ends("error") /\ UNCHANGED <<files, tables>>
    <3>1. \A m \in Table : RowsOf(m)' = RowsOf(m)
      BY <2>2 DEF RowsOf, Saved
    <3> QED BY <2>2, <3>1, StutterRefines
  <2>3. ASSUME NEW f \in {Fresh, Headless}, ~Exists(n), files' = [files EXCEPT ![n] = f],
               \/ f = Fresh /\ tables' = Put(tables, n, Fresh)
               \/ f = Headless /\ UNCHANGED tables
        PROVE  [C!Next]_C!vars
    <3> DEFINE s == IF f = Fresh THEN {} ELSE Torn
    <3>1. n \notin DOMAIN tables /\ files[n] = Missing
      BY <2>3 DEF Exists, IInv, TablesHaveFiles
    <3>2. Fresh \in Content /\ Fresh.rows = {}
      BY DEF Fresh, Content
    <3>3. files'[n] = f /\ \A m \in Table \ {n} : files'[m] = files[m]
      BY <2>3 DEF IInv, TypeOK
    <3>4. Fresh \notin {Missing, Headless, Torn}
      BY <3>2, EngineAssumption
    <3>5. Saved(n)' = s /\ \A m \in Table \ {n} : Saved(m)' = Saved(m)
      <4>1. CASE f = Fresh
        BY <3>2, <3>3, <3>4, <4>1 DEF Saved
      <4>2. CASE f = Headless
        <5>1. Headless # Missing
          BY EngineAssumption
        <5> QED BY <3>3, <3>4, <4>2, <5>1 DEF Saved
      <4> QED BY <4>1, <4>2
    <3>6. RowsOf(n)' = s
      <4>1. CASE f = Fresh
        <5>1. n \in DOMAIN tables' /\ tables'[n] = Fresh
          BY <2>3, <3>4, <4>1 DEF Put
        <5> QED BY <3>2, <4>1, <5>1 DEF RowsOf
      <4>2. CASE f = Headless
        BY <2>3, <3>1, <3>4, <3>5, <4>2 DEF RowsOf
      <4> QED BY <2>3, <4>1, <4>2
    <3>7. \A m \in Table \ {n} : RowsOf(m)' = RowsOf(m)
      BY <2>3, <3>5 DEF RowsOf, Put
    <3>8. Rows' = [Rows EXCEPT ![n] = s] /\ SavedRows' = [SavedRows EXCEPT ![n] = s]
      BY <3>5, <3>6, <3>7 DEF Rows, SavedRows
    <3>9. Rows[n] = Missing
      BY <3>1 DEF Rows, RowsOf, Saved
    <3>10. s \in {{}, Torn}
      OBVIOUS
    <3>11. C!Create(n)
      BY <2>1, <3>8, <3>9, <3>10 DEF C!Create, Rows, SavedRows, RowsOf
    <3> QED BY <3>11 DEF C!Next
  <2> QED BY <1>1, <2>2, <2>3 DEF NewTable
<1>2. ASSUME DropTable(n) PROVE [C!Next]_C!vars
  <2>1. (reply' = "bye") = FALSE
    BY <1>2 DEF DropTable
  <2>2. /\ DOMAIN tables' = DOMAIN tables \ {n}
        /\ \A m \in DOMAIN tables' : tables'[m] = tables[m]
    BY <1>2 DEF DropTable
  <2>3. CASE Exists(n) /\ files' = [files EXCEPT ![n] = Missing]
    <3>1. files'[n] = Missing /\ \A m \in Table \ {n} : files'[m] = files[m]
      BY <2>3 DEF IInv, TypeOK
    <3>2. Saved(n)' = Missing /\ \A m \in Table \ {n} : Saved(m)' = Saved(m)
      BY <3>1 DEF Saved
    <3>3. RowsOf(n)' = Missing /\ \A m \in Table \ {n} : RowsOf(m)' = RowsOf(m)
      BY <2>2, <3>2 DEF RowsOf
    <3>4. Rows' = [Rows EXCEPT ![n] = Missing] /\ SavedRows' = [SavedRows EXCEPT ![n] = Missing]
      BY <3>2, <3>3 DEF Rows, SavedRows
    <3>5. RowsOf(n) # Missing
      BY <2>3, MemoryFacts, SavedFacts DEF RowsOf, Exists
    <3>6. Rows[n] # Missing
      BY <3>5 DEF Rows
    <3>7. C!Drop(n)
      BY <2>1, <3>4, <3>6 DEF C!Drop, Rows, SavedRows, RowsOf
    <3> QED BY <3>7 DEF C!Next
  <2>4. CASE UNCHANGED files
    <3>1. \A m \in Table : Saved(m)' = Saved(m)
      BY <2>4 DEF Saved
    <3>2. RowsOf(n)' = Saved(n) /\ \A m \in Table \ {n} : RowsOf(m)' = RowsOf(m)
      BY <2>2, <3>1 DEF RowsOf
    <3>3. CASE n \in DOMAIN tables
      <4>1. RowsOf(n) \notin {Missing, Torn}
        BY <3>3, MemoryFacts
      <4>2. Rows' = [Rows EXCEPT ![n] = SavedRows[n]] /\ UNCHANGED SavedRows
        BY <3>1, <3>2 DEF Rows, SavedRows
      <4>3. Rows[n] = RowsOf(n)
        BY DEF Rows
      <4>4. C!Forget(n)
        BY <2>1, <4>1, <4>2, <4>3 DEF C!Forget, C!Known, Rows, SavedRows, RowsOf
      <4> QED BY <4>4 DEF C!Next
    <3>4. CASE n \notin DOMAIN tables
      <4>1. \A m \in Table : RowsOf(m)' = RowsOf(m)
        BY <3>2, <3>4 DEF RowsOf
      <4> QED BY <2>1, <2>4, <4>1, StutterRefines
    <3> QED BY <3>3, <3>4
  <2> QED BY <1>2, <2>3, <2>4 DEF DropTable
<1>3. ASSUME NoSuchTable(n) PROVE [C!Next]_C!vars
  <2>1. \A m \in Table : RowsOf(m)' = RowsOf(m)
    BY <1>3 DEF NoSuchTable, RowsOf, Saved
  <2> QED BY <1>3, <2>1, StutterRefines DEF NoSuchTable
<1>4. ASSUME Query(n) PROVE [C!Next]_C!vars
  <2>1. PICK c \in Contents(n) : tables' = Put(tables, n, c)
    BY <1>4 DEF Query
  <2> QED BY <1>4, <2>1, OpenRefines DEF Query
<1>5. ASSUME NEW batch \in Batches, BeginInsert(n, batch) PROVE [C!Next]_C!vars
  <2>1. PICK c \in Contents(n) : tables' = Put(tables, n, c)
    BY <1>5 DEF BeginInsert
  <2> QED BY <1>5, <2>1, OpenRefines DEF BeginInsert
<1>6. ASSUME NEW wanted \in SUBSET Key, BeginDelete(n, wanted) PROVE [C!Next]_C!vars
  <2>1. PICK c \in Contents(n) : tables' = Put(tables, n, c)
    BY <1>6 DEF BeginDelete
  <2> QED BY <1>6, <2>1, OpenRefines DEF BeginDelete
<1> QED BY <1>1, <1>2, <1>3, <1>4, <1>5, <1>6

LEMMA StepRefines == IInv /\ Step => [C!Next]_C!vars
<1> SUFFICES ASSUME IInv, Step PROVE [C!Next]_C!vars
  OBVIOUS
<1> USE DEF Ends
<1>0. up => reply # "bye"
  BY DEF IInv, QuitProgress
<1>1. CASE InsertRow
  <2> DEFINE n == op.table
             r == Head(op.todo)
             t == tables[n]
  <2>1. n \in DOMAIN tables /\ t \in Content /\ up
    BY <1>1 DEF InsertRow, IInv, TypeOK
  <2>2. ASSUME NEW k \in KeyFor(r, t) \ t.rows,
               tables' = [tables EXCEPT ![n] = [rows |-> @.rows \cup {k}, pages |-> TRUE]],
               UNCHANGED reply
        PROVE  [C!Next]_C!vars
    <3>1. k \in Key \ tables[n].rows
      BY DEF KeyFor
    <3>2. /\ DOMAIN tables' = DOMAIN tables
          /\ tables'[n].rows = tables[n].rows \cup {k}
          /\ \A m \in DOMAIN tables \ {n} : tables'[m] = tables[m]
      BY <2>1, <2>2
    <3> QED BY <1>0, <1>1, <2>1, <2>2, <3>1, <3>2, ChangeRefines DEF InsertRow
  <2>3. CASE Ends("error") /\ UNCHANGED tables
    <3>1. \A m \in Table : RowsOf(m)' = RowsOf(m)
      BY <1>1, <2>3 DEF InsertRow, RowsOf, Saved
    <3> QED BY <1>1, <2>3, <3>1, StutterRefines DEF InsertRow
  <2>4. CASE Gone /\ reply' = "panicked"
    BY <1>1, <2>4, GoneRefines DEF InsertRow
  <2> QED BY <1>1, <2>2, <2>3, <2>4 DEF InsertRow
<1>2. CASE DeleteRow
  <2> DEFINE n == op.table
             k == Head(op.todo)
  <2>1. n \in DOMAIN tables /\ tables[n] \in Content
    BY <1>2 DEF DeleteRow, IInv, TypeOK
  <2>2. /\ DOMAIN tables' = DOMAIN tables
        /\ tables'[n] = [tables[n] EXCEPT !.rows = @ \ {k}]
        /\ \A m \in DOMAIN tables \ {n} : tables'[m] = tables[m]
    BY <1>2, <2>1 DEF DeleteRow
  <2>3. tables'[n].rows = tables[n].rows \ {k}
    BY <2>1, <2>2 DEF Content
  <2>4. UNCHANGED files /\ reply' # "bye"
    BY <1>0, <1>2 DEF DeleteRow
  <2>5. CASE k \in tables[n].rows
    BY <2>1, <2>2, <2>3, <2>4, <2>5, ChangeRefines
  <2>6. CASE k \notin tables[n].rows
    <3>1. tables'[n].rows = tables[n].rows
      BY <2>3, <2>6
    <3>2. \A m \in Table : RowsOf(m)' = RowsOf(m)
      BY <2>2, <2>4, <3>1 DEF RowsOf, Saved
    <3> QED BY <2>4, <3>2, StutterRefines
  <2> QED BY <2>5, <2>6
<1>3. CASE EndStatement
  <2>1. \A m \in Table : RowsOf(m)' = RowsOf(m)
    BY <1>3 DEF EndStatement, RowsOf, Saved
  <2> QED BY <1>3, <2>1, StutterRefines DEF EndStatement
<1>4. ASSUME NEW n \in Table, FlushTable(n) \/ FlushFails(n) PROVE [C!Next]_C!vars
  <2>1. n \in DOMAIN tables
    BY <1>4 DEF FlushTable, FlushFails, IInv, TypeOK
  <2>2. tables[n] \in Content /\ RowsOf(n) = tables[n].rows /\ RowsOf(n) \notin {Missing, Torn}
    BY <2>1, MemoryFacts
  <2>3. (reply' = "bye") = FALSE
    BY <1>0, <1>4 DEF FlushTable, FlushFails
  <2>4. \A m \in Table \ {n} : Saved(m)' = Saved(m)
    BY <1>4 DEF FlushTable, FlushFails, Saved, IInv, TypeOK
  <2>5. \A m \in Table : RowsOf(m)' = RowsOf(m)
    BY <1>4, <2>1, <2>4 DEF FlushTable, FlushFails, RowsOf
  <2>6. UNCHANGED Rows
    BY <2>5 DEF Rows
  <2>7. Rows[n] = tables[n].rows
    BY <2>2 DEF Rows
  <2>8. CASE FlushTable(n)
    <3>1. files'[n] = tables[n]
      BY <2>8 DEF FlushTable, IInv, TypeOK
    <3>2. Saved(n)' = tables[n].rows
      BY <2>2, <3>1, EngineAssumption DEF Saved
    <3>3. SavedRows' = [SavedRows EXCEPT ![n] = Rows[n]]
      BY <2>4, <2>7, <3>2 DEF SavedRows
    <3>4. C!Save(n)
      BY <2>2, <2>3, <2>6, <2>7, <3>3 DEF C!Save, C!Known, Rows, SavedRows, RowsOf
    <3> QED BY <3>4 DEF C!Next
  <2>9. CASE FlushFails(n)
    <3>1. files'[n] = Torn
      BY <2>9 DEF FlushFails, IInv, TypeOK
    <3>2. Saved(n)' = Torn
      BY <3>1, EngineAssumption DEF Saved
    <3>3. SavedRows' = [SavedRows EXCEPT ![n] = Torn]
      BY <2>4, <3>2 DEF SavedRows
    <3>4. C!SaveFails(n)
      BY <2>2, <2>3, <2>6, <2>7, <3>3 DEF C!SaveFails, C!Known, Rows, SavedRows, RowsOf
    <3> QED BY <3>4 DEF C!Next
  <2> QED BY <1>4, <2>8, <2>9
<1>5. CASE Exit
  <2>1. \A n \in DOMAIN tables : files[n] = tables[n]
    BY <1>5 DEF Exit, IInv, QuitProgress
  <2>2. \A n \in Table : RowsOf(n) = Saved(n)
    <3>1. ASSUME NEW n \in Table PROVE RowsOf(n) = Saved(n)
      <4>1. CASE n \in DOMAIN tables
        BY <2>1, <4>1, MemoryFacts, SavedFacts
      <4>2. CASE n \notin DOMAIN tables
        BY <4>2 DEF RowsOf
      <4> QED BY <4>1, <4>2
    <3> QED BY <3>1
  <2>3. \A n \in Table : Saved(n)' = Saved(n)
    BY <1>5 DEF Exit, Saved
  <2>4. \A n \in Table : RowsOf(n)' = RowsOf(n)
    BY <1>5, <2>2, <2>3 DEF Exit, Gone, NoTables, RowsOf
  <2>5. Rows = SavedRows /\ UNCHANGED <<Rows, SavedRows>>
    BY <2>2, <2>3, <2>4 DEF Rows, SavedRows
  <2>6. (reply' = "bye") = TRUE
    BY <1>5 DEF Exit
  <2>7. C!Quit
    BY <2>5, <2>6 DEF C!Quit, Rows, SavedRows, RowsOf
  <2> QED BY <2>7 DEF C!Next
<1> QED BY <1>1, <1>2, <1>3, <1>4, <1>5 DEF Step, Flush

LEMMA NextRefines == IInv /\ [Next]_vars => [C!Next]_C!vars
<1> SUFFICES ASSUME IInv, [Next]_vars PROVE [C!Next]_C!vars
  OBVIOUS
<1>1. CASE Statement
  BY <1>1, StatementRefines DEF Statement
<1>2. CASE Step
  BY <1>2, StepRefines
<1>3. CASE BeginQuit \/ Start
  <2>1. \A n \in Table : RowsOf(n)' = RowsOf(n)
    BY <1>3 DEF BeginQuit, Start, RowsOf, Saved
  <2> QED BY <1>3, <2>1, StutterRefines DEF BeginQuit, Start
<1>4. CASE BlankLine \/ Crash
  BY <1>4, GoneRefines DEF BlankLine, Crash
<1>5. CASE UNCHANGED vars
  <2>1. UNCHANGED <<Rows, SavedRows, reply = "bye">>
    BY <1>5 DEF vars, Rows, SavedRows, RowsOf, Saved
  <2> QED BY <2>1 DEF C!vars, Rows, SavedRows, RowsOf
<1> QED BY <1>1, <1>2, <1>3, <1>4, <1>5 DEF Next

(* The program is the catalog of tables it promises to be, for any tables, *)
(* keys and statements: .quit ends only when every change is in the files, *)
(* any other end goes back to what was saved, and rows come and go one by  *)
(* one (src/storage/engine.rs, src/execution/meta.rs).                     *)
THEOREM EngineIsCatalog == Spec => ImplementsCatalog
<1>1. Init => C!Init
  BY InitRefines
<1>2. IInv /\ [Next]_vars => [C!Next]_C!vars
  BY NextRefines
<1> QED BY <1>1, <1>2, EngineInvariance, PTL DEF Spec, C!Spec, ImplementsCatalog
=============================================================================
