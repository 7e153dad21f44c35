------------------------------ MODULE Session -------------------------------
(* A session: the loop of main.rs, from the line the user types to the     *)
(* bytes that are stored.  Statements that change data are executed row by *)
(* row (execute_dml in execution/query.rs) on one table, whose tree is the *)
(* sorted map that module BTree shows it to be: from the key of a row to   *)
(* the bytes of its record.  Selects are the matter of module Select, what *)
(* outlives the process that of module Engine.                             *)
(*                                                                         *)
(* meant and before are of the model only: what the values of every row    *)
(* mean, in numbers without bounds, now and before the statement.          *)
EXTENDS Prompt, Values, SequencesExt

CONSTANTS
  MaxRows,     \* bound: rows of the table when most statements begin
  Brief        \* the lines that begin one all the same, and the only ones
               \* for a table whose header was cut short

VARIABLES
  up,          \* the process runs
  file,        \* the table's file, once there is one
  opened,      \* what reading its header gave when it was opened again
  table,       \* the table in memory
  rows,        \* key -> bytes of the record
  todo,        \* what the statement still has to insert or delete
  reply,       \* how the statement ended
  meant, before

sessionVars == <<up, file, opened, table, rows, todo, reply, meant, before>>
vars == <<promptVars, sessionVars>>

NoFile == [name |-> <<>>, bytes |-> <<>>]
NoTable == [open |-> FALSE, pages |-> FALSE, schema |-> <<>>, header |-> 0]
NotYet == [res |-> "not yet", node |-> <<>>, at |-> 0]
NoRows == [k \in {} |-> <<>>]

Init ==
  /\ PromptInit
  /\ up = TRUE
  /\ file = NoFile /\ opened = NotYet /\ table = NoTable
  /\ rows = NoRows /\ meant = NoRows /\ before = NoRows
  /\ todo = <<>> /\ reply = "none"

Stmt == answer.node
Running(kind) == /\ up /\ reply = "none"
                 /\ answer.res = "ok" /\ Stmt.stmt = kind
There(name) == table.open /\ file.name = name

\* The whole header of the open table is in the file.
Whole == table.header = WriteHeader(table.schema).at

\* A statement ends before it is done, in an error or with the process.
Fails(how) ==
  /\ reply' = how /\ todo' = <<>>
  /\ up' = (how \notin {"panic", "killed"})

----------------------------------------------------------------------------
\* The user has the prompt.  Lines are made up by hand before there is a
\* table and recalled afterwards, and only some of them when the table is
\* large or its header short.
AtPrompt ==
  /\ up /\ reply = "none"
  /\ PromptNext
  /\ file # NoFile => text' \in History \cup {<<>>}
  /\ Cardinality(DOMAIN rows) > MaxRows \/ (table.open /\ ~Whole) => text' \in Brief \cup {<<>>}
  /\ UNCHANGED sessionVars

\* The parser's errors are printed; a panic ends the process.
NotParsed ==
  /\ up /\ reply = "none" /\ answer.res \in {"error", "nothing", "panic"}
  /\ Fails(IF answer.res = "panic" THEN "panic" ELSE "error")
  /\ UNCHANGED <<promptVars, file, opened, table, rows, meant, before>>

\* .quit ends the process, .tables and .help print.
ExecuteMeta ==
  /\ Running("meta")
  /\ reply' = "done" /\ up' = (Stmt.cmd # "quit")
  /\ UNCHANGED <<promptVars, file, opened, table, rows, todo, meant, before>>

\* new_table: the file first, and nothing if there is one; then its header
\* in one write(), of which n bytes are there.  The write may fail, or be cut
\* short by the end of the process; it may also be short and no error, and
\* the table is open with a header of n bytes.
NewTable(name, schema) ==
  LET header == WriteHeader(schema)
  IN  IF file # NoFile THEN Fails("error") /\ UNCHANGED <<file, table>>
      ELSE \E n \in 0 .. header.at :
        /\ file' = [name |-> name, bytes |-> SubSeq(header.node, 1, n)]
        /\ \/ n = 0 /\ Fails("error") /\ UNCHANGED table
           \/ n < header.at /\ Fails("killed") /\ UNCHANGED table
           \/ /\ header.res = "ok"
              /\ reply' = "done" /\ UNCHANGED <<up, todo>>
              /\ table' = [open |-> TRUE, pages |-> FALSE, schema |-> schema, header |-> n]

\* There is one table at a time.
ExecuteNew ==
  /\ Running("new") /\ file.name \in {<<>>, Stmt.table}
  /\ NewTable(Stmt.table, Stmt.schema)
  /\ UNCHANGED <<promptVars, opened, rows, meant, before>>

\* Mutant: the table stays in memory.
ExecuteDropStays ==
  /\ Running("drop")
  /\ IF file.name = Stmt.table
     THEN reply' = "done" /\ file' = NoFile ELSE reply' = "error" /\ UNCHANGED file
  /\ UNCHANGED <<promptVars, up, opened, table, rows, todo, meant, before>>

ExecuteDrop ==
  /\ Running("drop")
  /\ IF file.name = Stmt.table
     THEN /\ reply' = "done"
          /\ file' = NoFile /\ table' = NoTable
          /\ rows' = NoRows /\ meant' = NoRows
     ELSE reply' = "error" /\ UNCHANGED <<file, table, rows, meant>>
  /\ UNCHANGED <<promptVars, up, opened, todo, before>>

\* The process is started anew and the table opened again.  What .quit saves
\* does not change what is read here of a whole header; what it saves over a
\* short one is not modelled.
Reopen ==
  /\ ~up /\ file # NoFile /\ opened = NotYet
  /\ reply = "done" /\ table.open => Whole
  /\ opened' = TryFromSrc(file.bytes)
  /\ UNCHANGED <<promptVars, up, file, table, rows, todo, reply, meant, before>>

----------------------------------------------------------------------------
(* insert                                                                  *)

\* What an expression means in a column, in numbers without bounds.  It is
\* plain when all of it fits its types and nothing is compared with what
\* the code has no order for.
RECURSIVE Meaning(_, _)
Meaning(expr, target) ==
  IF "literal" \in DOMAIN expr
  THEN [value |-> expr.value, plain |-> TRUE, kind |-> expr.literal]
  ELSE LET compares == expr.op \notin Arithmetic
           inner == IF compares THEN "long" ELSE target
           l == Meaning(expr.left, inner)
           r == Meaning(expr.right, inner)
           alike == l.plain /\ r.plain /\ l.kind = r.kind
       IN  IF compares
           THEN [kind |-> "bool",
                 plain |-> alike /\ (l.kind \in {"int", "float"} \/ expr.op \in {"=", "!="}),
                 value |-> IF l.kind # r.kind THEN expr.op = "!="
                           ELSE \/ expr.op \in {"=", "<=", ">="} /\ l.value = r.value
                                \/ expr.op = "!=" /\ l.value # r.value
                                \/ /\ l.kind \in {"int", "float"}
                                   /\ \/ expr.op \in {"<", "<="} /\ l.value < r.value
                                      \/ expr.op \in {">", ">="} /\ l.value > r.value]
           ELSE LET exact == Exactly(expr.op, l.value, r.value)
                IN  [kind |-> l.kind, value |-> exact,
                     plain |-> alike /\ (l.kind = "int" => Fits(exact, inner))]

Meanings(exprs, types) == [i \in DOMAIN exprs |-> Meaning(exprs[i], types[i])]

BeginInsert ==
  /\ Running("insert") /\ todo = <<>>
  /\ IF There(Stmt.table)
     THEN todo' = Stmt.rows /\ reply' = "none"
     ELSE todo' = <<>> /\ reply' = "error"
  /\ UNCHANGED <<promptVars, up, file, opened, table, rows, meant, before>>

\* A row goes under its key, if there is none yet.
Put(key, vals, meaning) ==
  /\ table' = [table EXCEPT !.pages = TRUE]
  /\ IF key \in DOMAIN rows
     THEN Fails("error") /\ UNCHANGED <<rows, meant>>
     ELSE /\ rows' = (key :> RecBytes(vals)) @@ rows
          /\ meant' = (key :> meaning) @@ meant
          /\ todo' = Tail(todo)
          /\ reply' = IF todo' = <<>> THEN "done" ELSE "none"
          /\ UNCHANGED up

FailsWith(how) == Fails(how) /\ UNCHANGED <<table, rows, meant>>

\* The key after the largest; there is none in a table whose rows are gone.
NextKey ==
  IF ~table.pages THEN Got(0, 0)
  ELSE IF rows = NoRows THEN Failed("panic")
  ELSE Calculate("+", Max(DOMAIN rows), 1, table.schema.key.type, debug)

\* What it is, in numbers without bounds.
NextMeaning ==
  LET next == IF rows = NoRows THEN 0 ELSE Max(DOMAIN rows) + 1
  IN  [value |-> next, plain |-> Fits(next, table.schema.key.type), kind |-> "int"]

\* A row of as many values as there are columns beside an auto key.
InsertRowAuto ==
  LET exprs == Head(todo)
      rec == AssembleRecData(exprs, table.schema, debug)
  IN  IF rec.res # "ok" THEN FailsWith(rec.res)
      ELSE IF Size(rec.node) + 8 > MaxRecordSize THEN FailsWith("panic")
      ELSE IF NextKey.res # "ok" THEN FailsWith(NextKey.res)
      ELSE Put(NextKey.node, rec.node,
               <<NextMeaning>> \o Meanings(exprs, ValTypes(table.schema)))

\* Any other row has to have all of the columns.
InsertRowData ==
  LET exprs == Head(todo)
      row == AssembleRowData(exprs, table.schema, debug)
  IN  IF row.res # "ok" THEN FailsWith(row.res)
      ELSE IF Size(row.node) > MaxRecordSize THEN FailsWith("panic")
      ELSE Put(row.node[1].value, Tail(row.node),
               Meanings(exprs, RowTypes(table.schema)))

InsertRow ==
  /\ Running("insert") /\ todo # <<>>
  /\ IF table.schema.key.auto /\ Len(Head(todo)) = Len(table.schema.vals)
     THEN InsertRowAuto ELSE InsertRowData
  /\ UNCHANGED <<promptVars, file, opened, before>>

----------------------------------------------------------------------------
(* delete                                                                  *)

Columns == <<[name |-> table.schema.key.name, type |-> table.schema.key.type]>>
             \o table.schema.vals

\* The place of a column in a row, if its name is there and only once.
FindColumn(node) ==
  LET found == {i \in DOMAIN Columns :
                  /\ Columns[i].name = node.column
                  /\ node.table \in {<<>>, file.name}}
  IN  IF Cardinality(found) = 1 THEN Got(Max(found), 0) ELSE Failed("error")

\* Mutant: a condition is read the same from both sides.
MirroredNot == [o \in Comparison |-> o]

Mirrored == [o \in Comparison |->
  IF o = ">" THEN "<" ELSE IF o = ">=" THEN "<=" ELSE
  IF o = "<" THEN ">" ELSE IF o = "<=" THEN ">=" ELSE o]

\* A predicate: an operator with a column on its left and on its right a
\* value of its type or another column of its type.
Against(op, column, literal) ==
  Then(FindColumn(column), LAMBDA i, a :
    Then(LiteralToColData(literal, Columns[i].type), LAMBDA v, b :
      Got([op |-> op, left |-> i, value |-> v, right |-> 0], 0)))

ExprToPred(expr) ==
  LET l == expr.left
      r == expr.right
  IN  IF "column" \in DOMAIN l /\ "literal" \in DOMAIN r THEN Against(expr.op, l, r)
      ELSE IF "literal" \in DOMAIN l /\ "column" \in DOMAIN r
      THEN Against(Mirrored[expr.op], r, l)
      ELSE IF "column" \in DOMAIN l /\ "column" \in DOMAIN r
      THEN Then(FindColumn(l), LAMBDA i, a :
             Then(FindColumn(r), LAMBDA j, b :
               IF Columns[i].type # Columns[j].type THEN Failed("error")
               ELSE Got([op |-> expr.op, left |-> i, right |-> j,
                         value |-> <<>>], 0)))
      ELSE Failed("error")

\* What One makes of each of some things, up to the first that fails.
InTurn(One(_), things) ==
  LET made[i \in 0 .. Len(things)] ==
        IF i = 0 THEN Got(<<>>, 0)
        ELSE Then(made[i - 1], LAMBDA done, a :
               Then(One(things[i]), LAMBDA x, b : Got(Append(done, x), 0)))
  IN  made[Len(things)]

Filter(conds) == InTurn(ExprToPred, conds)

\* Values of one type are ordered as numbers, and strings by their bytes.
StringLess(a, b) ==
  \E n \in 0 .. Len(a) :
    /\ n < Len(b) /\ \A i \in 1 .. n : a[i] = b[i]
    /\ n = Len(a) \/ Utf8[a[n + 1]] < Utf8[b[n + 1]]

ValueLess(a, b, type) ==
  IF type = "string" THEN StringLess(a, b)
  ELSE IF type = "bool" THEN ~a /\ b
  ELSE a < b

Holds(op, a, b, type) ==
  \/ op \in {"=", "<=", ">="} /\ a = b
  \/ op = "!=" /\ a # b
  \/ op \in {"<", "<="} /\ ValueLess(a, b, type)
  \/ op \in {">", ">="} /\ ValueLess(b, a, type)

RowAt(key) ==
  <<[type |-> table.schema.key.type, value |-> key]>>
    \o DecodeVal(ValTypes(table.schema), rows[key])

Satisfy(row, p) ==
  Holds(p.op, row[p.left].value,
        IF p.right = 0 THEN p.value.value ELSE row[p.right].value,
        row[p.left].type)

\* The whole table is scanned for the keys before any of them is deleted.
BeginDelete ==
  /\ Running("delete") /\ todo = <<>>
  /\ LET preds == IF There(Stmt.table) THEN Filter(Stmt.conds) ELSE Failed("error")
         hit == {key \in DOMAIN rows :
                   \A i \in DOMAIN preds.node : Satisfy(RowAt(key), preds.node[i])}
     IN  IF preds.res # "ok" THEN todo' = <<>> /\ reply' = "error"
         ELSE /\ todo' = SetToSortSeq(hit, <)
              /\ reply' = IF hit = {} THEN "done" ELSE "none"
  /\ UNCHANGED <<promptVars, up, file, opened, table, rows, meant, before>>

DeleteRow ==
  /\ Running("delete") /\ todo # <<>>
  /\ rows' = Restrict(rows, DOMAIN rows \ {Head(todo)})
  /\ meant' = Restrict(meant, DOMAIN rows \ {Head(todo)})
  /\ todo' = Tail(todo)
  /\ reply' = IF todo' = <<>> THEN "done" ELSE "none"
  /\ UNCHANGED <<promptVars, up, file, opened, table, before>>

----------------------------------------------------------------------------
(* select and describe, which change nothing                               *)

\* find_key_preds(): a condition of a select of one table has to compare a
\* column and a literal with =, > or >=; anything else is unreachable!().
KeyPred(cond) ==
  LET literal == IF "literal" \in DOMAIN cond.left THEN cond.left ELSE cond.right
      column == IF "column" \in DOMAIN cond.left THEN cond.left ELSE cond.right
  IN  IF \/ cond.op \notin {"=", ">", ">="}
         \/ ~\E l, r \in {cond.left, cond.right} : "column" \in DOMAIN l /\ "literal" \in DOMAIN r
      THEN Failed("panic")
      ELSE IF column.column = table.schema.key.name
      THEN LiteralToColData(literal, table.schema.key.type)
      ELSE Got(<<>>, 0)

\* execute_dql() on the one table there is: the conditions are read for keys,
\* then by the filter, and then the columns by the projection.  The rows are
\* the matter of module Select.
Selected(stmt) ==
  IF stmt.tables # <<file.name>> \/ ~table.open THEN Failed("error")
  ELSE Then(InTurn(KeyPred, stmt.conds), LAMBDA keys, a :
         Then(Filter(stmt.conds), LAMBDA preds, b : InTurn(FindColumn, stmt.columns)))

ExecuteSelect ==
  /\ Running("select")
  /\ LET end == Selected(Stmt).res
     IN  IF end = "ok" THEN reply' = "done" /\ UNCHANGED <<up, todo>> ELSE Fails(end)
  /\ UNCHANGED <<promptVars, file, opened, table, rows, meant, before>>

ExecuteDescribe ==
  /\ Running("describe")
  /\ reply' = IF There(Stmt.table) THEN "done" ELSE "error"
  /\ UNCHANGED <<promptVars, up, file, opened, table, rows, todo, meant, before>>

----------------------------------------------------------------------------
NextLine ==
  /\ up /\ reply \in {"done", "error"}
  /\ Again
  /\ reply' = "none" /\ before' = meant
  /\ UNCHANGED <<up, file, opened, table, rows, todo, meant>>

Next ==
  \/ AtPrompt \/ NotParsed \/ NextLine
  \/ ExecuteMeta \/ ExecuteSelect \/ ExecuteDescribe
  \/ ExecuteNew \/ ExecuteDrop \/ Reopen
  \/ BeginInsert \/ InsertRow
  \/ BeginDelete \/ DeleteRow

Spec == Init /\ [][Next]_vars

----------------------------------------------------------------------------
(* The type invariant; a table in memory has its file, rows have pages.    *)
TypeOK ==
  /\ debug \in BOOLEAN /\ up \in BOOLEAN /\ edits \in 0 .. MaxEdits
  /\ answer.res \in {"typing", "ok", "error", "nothing", "panic"}
  /\ reply \in {"none", "done", "error", "panic", "killed"}
  /\ table.open => file # NoFile /\ table.header = Len(file.bytes)
  /\ rows # NoRows => table.open /\ table.pages
  /\ DOMAIN meant = DOMAIN rows
  /\ \A key \in DOMAIN rows : Fits(key, table.schema.key.type)
  /\ todo # <<>> => reply = "none" /\ table.open

G == INSTANCE Grammar

\* Where the program departs from what is written.  The lexer stops at a
\* word with an operator or a quote right behind it, and at > or < where the
\* line ends.  The parser takes every Boolean for false that is not spelled
\* "true" in lower case, and in a release build whatever a delete has after
\* its table for the word `where`.
StopsAtWord(i) ==
  /\ text[i] \in Letter
  /\ CharAt(text, EndOfRun(text, i, {c \in Range(text) : G!InWord(c)})) \in OpChar \cup {Quote}
StopsAtEnd(i) == text[i] \in {">", "<"} /\ i = Len(text)

Taken(ts) ==
  [i \in DOMAIN ts |->
     IF ts[i].kind = "bool" /\ ts[i].text # <<"true">> THEN [ts[i] EXCEPT !.text = <<"false">>]
     ELSE IF ~debug /\ i = 4 /\ ts[1].kind = "delete" /\ ts[i].kind # "invalid"
     THEN [ts[i] EXCEPT !.kind = "where"]
     ELSE ts[i]]

(* The lexer and the parser read of a line what the grammar in their       *)
(* comments says it is, but for the departures above: the line is cut into *)
(* the longest tokens there are, up to a place where there is none, and a  *)
(* statement is accepted exactly when the tokens start with a writing of   *)
(* it, which is the only one (lexer.rs, the "Grammar:" comments of         *)
(* parser.rs).                                                             *)
ReadsAsWritten ==
  LET ts == Tokens(text)
      stop == G!Stop(ts, text)
  IN  answer.res \in {"ok", "error", "nothing"} =>
        \/ answer.res = "ok" /\ Stmt.stmt = "meta"
        \/ text[1] = "." /\ answer.res = "error"
        \/ /\ G!Spell(ts, text)
           /\ "invalid" \in Range(G!Kinds(ts)) =>
                G!NoTokenAt(text, stop) \/ StopsAtWord(stop) \/ StopsAtEnd(stop)
           /\ G!Readings(Taken(ts)) = IF answer.res = "ok" THEN {Stmt} ELSE {}

(* The header that is read back is the one that was written, with the key  *)
(* where the rows have it and the pages where the table in memory puts     *)
(* them; a header that was cut short at any byte is refused, whether the   *)
(* process ended there or went on with the table and lost it later         *)
(* (Table::write_header, new_table, try_from_src).                         *)
HeaderReadsBack ==
  opened # NotYet =>
    IF table.open /\ Whole
    THEN opened = Got(table.schema, table.header)
    ELSE opened.res = "error"

(* The bytes of every row read back as the values its statement wrote, as  *)
(* arithmetic has them: column by column, whatever the types and lengths   *)
(* before it.  In a debug build no integer is anything else.               *)
StoredAsWritten ==
  \A key \in DOMAIN rows : \A i \in DOMAIN meant[key] :
    LET meaning == meant[key][i]
    IN  /\ meaning.plain => RowAt(key)[i].value = meaning.value
        /\ debug /\ meaning.kind = "int" => meaning.plain

\* What a condition says of the meanings of a row.
SaysOf(expr, row) ==
  LET Side(e) == IF "literal" \in DOMAIN e THEN e.value
                 ELSE row[FindColumn(e).node].value
      column == IF "column" \in DOMAIN expr.left THEN expr.left ELSE expr.right
  IN  Holds(expr.op, Side(expr.left), Side(expr.right),
            Columns[FindColumn(column).node].type)

\* An expression whose value in a column no build has a problem with.
RECURSIVE Harmless(_, _)
Harmless(expr, target) ==
  \/ "literal" \in DOMAIN expr
  \/ /\ "op" \in DOMAIN expr
     /\ LET inner == IF expr.op \in Comparison THEN "long" ELSE target
        IN  /\ Harmless(expr.left, inner) /\ Harmless(expr.right, inner)
            /\ expr.op # "/" /\ Meaning(expr, target).plain

(* A panic ends the process with all that is not saved, and the user gets  *)
(* there with a line: an empty one, a number past i64, a delete without    *)
(* where in a debug build, a select of the table with a condition other    *)
(* than =, > or >= of a column and a literal, an insert of a row with a    *)
(* column, a division, an overflow or a comparison of comparisons in it,   *)
(* one too large for a page, or one for whose counter there is no next     *)
(* value.  Between the prompt and the tree, which is a map here, there is  *)
(* no other way (repl.rs:18 and the unwrap, assert, unimplemented and      *)
(* unreachable of the parser, execute_dql, execute_dml and insert_row);    *)
(* what an insert does to a full leaf is a matter of module BTree.         *)
PanicsAreKnown ==
  reply = "panic" =>
    LET kinds == G!Kinds(Tokens(text))
        TooLarge(token) == token.kind = "int" /\ ParseDigits(token.text) > Highest("long")
        Unexpected(cond) ==
          \/ cond.op \in {"!=", "<", "<="}
          \/ {"op", "literal"} \cap DOMAIN cond.left # {} /\ "column" \notin DOMAIN cond.right
          \/ {"op", "column"} \cap DOMAIN cond.left # {} /\ "literal" \notin DOMAIN cond.right
        Harmful(exprs) ==
          LET auto == table.schema.key.auto /\ Len(exprs) = Len(Columns) - 1
              types == IF auto THEN ValTypes(table.schema) ELSE RowTypes(table.schema)
              SizeOf(i) == IF types[i] = "bool" THEN 1
                           ELSE IF types[i] = "float" THEN 4
                           ELSE IF types[i] = "string" THEN 2 + Len(exprs[i].value)
                           ELSE Width[types[i]]
          IN  /\ Len(exprs) = Len(types)
              /\ \/ \E i \in DOMAIN exprs : ~Harmless(exprs[i], types[i])
                 \/ MapThenSumSet(SizeOf, DOMAIN exprs) + (IF auto THEN 8 ELSE 0)
                       > MaxRecordSize
                 \/ auto /\ IF rows = NoRows THEN table.pages
                            ELSE Highest(table.schema.key.type) \in DOMAIN rows
    IN  \/ text = <<>>
        \/ \E i \in DOMAIN kinds : TooLarge(Tokens(text)[i])
        \/ debug /\ SubSeq(kinds, 1, 3) = <<"delete", "from", "id">> /\ kinds[4] # "where"
        \/ /\ answer.res = "ok" /\ Stmt.stmt = "select" /\ Stmt.tables = <<file.name>>
           /\ \E i \in DOMAIN Stmt.conds : Unexpected(Stmt.conds[i])
        \/ /\ answer.res = "ok" /\ Stmt.stmt = "insert"
           /\ \E i \in DOMAIN Stmt.rows : Harmful(Stmt.rows[i])

\* The rows of an insert, one by one after those that are there: under the
\* key a row has, or the one after the largest, wrapped if it does not fit
\* (which in a debug build StoredAsWritten rules out).
GivesKey(row) == Len(row) = Len(Columns)
MeaningsOf(row, had) ==
  IF GivesKey(row) THEN Meanings(row, RowTypes(table.schema))
  ELSE <<[value |-> IF had = NoRows THEN 0 ELSE Max(DOMAIN had) + 1, kind |-> "int",
          plain |-> had # NoRows => Highest(table.schema.key.type) \notin DOMAIN had]>>
         \o Meanings(row, ValTypes(table.schema))
KeyOf(meanings) == meanings[1].value % Modulus(table.schema.key.type)

Inserted(list, had) ==
  LET after[n \in 0 .. Len(list)] ==
        IF n = 0 THEN had
        ELSE LET meanings == MeaningsOf(list[n], after[n - 1])
             IN  (KeyOf(meanings) :> meanings) @@ after[n - 1]
  IN  after

\* A row of literals that suit its columns, under a key that is not there.
Acceptable(row, had) ==
  LET types == IF GivesKey(row) THEN RowTypes(table.schema) ELSE ValTypes(table.schema)
      Suits(e, type) ==
        /\ "literal" \in DOMAIN e
        /\ \/ e.literal = type /\ type # "int"
           \/ e.literal = "int" /\ type \in IntegerType /\ Fits(e.value, type)
  IN  /\ Len(row) = Len(types) /\ (GivesKey(row) \/ table.schema.key.auto)
      /\ \A i \in DOMAIN row : Suits(row[i], types[i])
      /\ KeyOf(MeaningsOf(row, had)) \notin DOMAIN had

InsertDid ==
  \E n \in 0 .. Len(Stmt.rows) :
    /\ reply = IF n = Len(Stmt.rows) THEN "done" ELSE "error"
    /\ meant = Inserted(Stmt.rows, before)[n]
    /\ Cardinality(DOMAIN meant) = Cardinality(DOMAIN before) + n
    /\ n < Len(Stmt.rows) => ~Acceptable(Stmt.rows[n + 1], meant)

DeleteDid ==
  LET Hit(row) == \A i \in DOMAIN Stmt.conds : SaysOf(Stmt.conds[i], row)
      AsWritten(row) == debug \/ \A i \in DOMAIN row : row[i].plain
  IN  /\ meant = Restrict(before, DOMAIN meant)
      /\ reply = "error" => meant = before
      /\ reply = "done" =>
           \A key \in DOMAIN before :
             AsWritten(before[key]) => (key \in DOMAIN meant <=> ~Hit(before[key]))

(* Where a statement on rows leaves the table, in both builds.  An insert  *)
(* has put the rows it lists there one after the other, each under a new   *)
(* key: all of them if it is done, and otherwise those before one that was *)
(* not acceptable.  A delete has taken the rows its conditions hold of and *)
(* no other, or none when it fails.  Two things it does not say of a       *)
(* release build, where what does not fit is wrapped: which key a quotient *)
(* of such values makes, and whether conditions hold of a row that has     *)
(* one (execute_dml).                                                      *)
StatementsDoWhatTheySay ==
  LET Divided(row) == /\ "/" \in Range(text) /\ GivesKey(row)
                      /\ ~Meaning(row[1], table.schema.key.type).plain
  IN  reply \in {"done", "error"} /\ answer.res = "ok" =>
        /\ Stmt.stmt \in {"insert", "delete"} /\ ~There(Stmt.table) =>
             reply = "error" /\ meant = before
        /\ Stmt.stmt = "insert" /\ There(Stmt.table) =>
             InsertDid \/ \E i \in DOMAIN Stmt.rows : Divided(Stmt.rows[i])
        /\ Stmt.stmt = "delete" /\ There(Stmt.table) => DeleteDid
=============================================================================
