------------------------------- MODULE Select -------------------------------
(***************************************************************************)
(* A select statement: the tree of operators execute_dql() builds          *)
(* (src/execution/query.rs) - scans, their right-deep product, a filter, a *)
(* projection - and the loop of execute() (src/execution.rs) that pulls    *)
(* rows out of it.  Every scan drives a cursor that takes one leaf at a    *)
(* time out of the pager of its table and has to bring it back: when it    *)
(* leaves the page, when it is rewound, when it is dropped.                *)
(*                                                                         *)
(* The trees do not change while a statement runs, so a table is the       *)
(* sequence of its leaves with the separators an internal page keeps       *)
(* between them.  A row of a table is <<key, value>>, leaves and cells are *)
(* numbered from 1.  The rows of a product are concatenated tuples, column *)
(* c of the i-th table of the from list is column 2 * (i - 1) + c.  Values *)
(* are numbers whatever the types of their columns; a literal has the set  *)
(* of types literal_to_col_data() makes a value of it in.                  *)
(***************************************************************************)
EXTENDS Integers, Sequences, SequencesExt

CONSTANTS
  Databases,       \* sequences of tables [leaves, seps, types]
  Queries          \* statements [from, conds, cols] the client sends

(* Separators stand between the leaves, only the last leaf may be empty,   *)
(* and the keys of a leaf rise: what the runs of module BTree and the      *)
(* theorems about SlottedPage show of a tree and its pages.  The parser    *)
(* takes no statement without a table.                                     *)
ASSUME SelectAssumption ==
  /\ \A db \in Databases : \A t \in DOMAIN db :
       LET leaves == db[t].leaves
           seps   == db[t].seps
       IN /\ leaves \in Seq(Seq(Nat \X Nat)) /\ seps \in Seq(Nat)
          /\ leaves # << >> => Len(seps) = Len(leaves) - 1
          /\ \A i \in DOMAIN leaves :
               /\ i < Len(leaves) => leaves[i] # << >>
               /\ \A a, b \in DOMAIN leaves[i] : a < b => leaves[i][a][1] < leaves[i][b][1]
          /\ \A i \in DOMAIN seps, j \in DOMAIN leaves : \A r \in Range(leaves[j]) :
               IF j <= i THEN r[1] < seps[i] ELSE seps[i] <= r[1]
  /\ \A q \in Queries :
       /\ q.from \in Seq(Nat) \ {<< >>} /\ q.conds \in Seq(Range(q.conds))
       /\ \A i \in DOMAIN q.conds : \A x \in {q.conds[i].lhs, q.conds[i].rhs} :
            IF x.kind = "lit" THEN x.value \in Int ELSE x.kind \in {"col", "op"}

VARIABLES
  db,              \* the tables
  query,           \* the statement that runs, or the last one
  phase,           \* "idle", "running" or "panicked"
  reply,           \* how the last statement ended
  out,             \* rows the execution tree gave out
  answer,          \* auxiliary: the rows the text of the statement means
  tree,            \* the cursors of the scans and the pagers of the tables
  first,           \* Cartesian.first of the product at every place
  at,              \* place whose next() runs, 0 when its answer is out
  none,            \* the call that ended last found no row
  retried          \* places whose running call has rewound source_2

walk == <<first, at, none, retried>>
vars == <<db, query, phase, reply, out, answer, tree, walk>>

NoRow   == << >>
Null    == 0                            \* NULL_NODE_ID
Leaves(t) == db[t].leaves
Pages(t)  == DOMAIN Leaves(t)
NextNode(t, p) == IF p + 1 \in Pages(t) THEN p + 1 ELSE Null

(* Parts of a statement.                                                   *)
Column(t, c)  == [kind |-> "col", table |-> t, col |-> c]   \* t = 0: not said
Literal(v, ts) == [kind |-> "lit", value |-> v, types |-> ts]
Operation     == [kind |-> "op"]                            \* arithmetic
Cond(l, o, r) == [lhs |-> l, op |-> o, rhs |-> r]
AllColumns    == << >>

-----------------------------------------------------------------------------
(* The pager of a table as the cursor uses it.  A page that is read or     *)
(* taken while it is taken fails an assertion: that is noted in failed,    *)
(* and the release build, which has no assertions, goes on.                *)
ReadPage(s, t, p) ==
  [s EXCEPT !.cached[t] = IF p \in Pages(t) THEN @ \cup {p} ELSE @,
            !.failed    = @ \/ p \in s.taken[t]]

TakePage(s, t, p) ==
  IF p \in s.cached[t]
    THEN [s EXCEPT !.cached[t] = @ \ {p},
                   !.taken[t]  = @ \cup {p},
                   !.failed    = @ \/ p \in s.taken[t]]
    ELSE [s EXCEPT !.failed = @ \/ p \in s.taken[t]]

ReturnPage(s, t, p) ==
  [s EXCEPT !.cached[t] = @ \cup {p}, !.taken[t] = @ \ {p}]

(* A cursor at the root, not yet at a row.                                 *)
NewCursor == [page |-> Null, cell |-> 1, held |-> FALSE, init |-> FALSE]

SetCursor(s, t, c) == [s EXCEPT !.cur[t] = c]

(* Mutant: the cursor stays on the page whose last cell it passed.         *)
SettleStays(s, t) == s

(* A cursor past the last cell of its page gives the page back and moves   *)
(* to the next one.                                                        *)
Settle(s, t) ==
  LET c == s.cur[t] IN
  IF c.cell <= Len(Leaves(t)[c.page]) THEN s
  ELSE SetCursor(ReturnPage(s, t, c.page), t,
                 [c EXCEPT !.page = NextNode(t, c.page), !.cell = 1, !.held = FALSE])

(* A cursor that has not begun goes to the first leaf.                     *)
Begun(s, t) ==
  IF s.cur[t].init THEN s
  ELSE SetCursor(ReadPage(s, t, 1), t, [s.cur[t] EXCEPT !.page = 1, !.init = TRUE])

(* Cursor::next() and with it RowCursor::next() and Scan::next().          *)
CursorNext(s, t) ==
  LET a == Begun(s, t)
      c == a.cur[t]
      b == ReadPage(a, t, c.page)
      d == IF c.held THEN a ELSE TakePage(b, t, c.page)
  IN IF ~s.cur[t].init /\ Pages(t) = {} THEN [st |-> s, row |-> NoRow]
     ELSE IF ~c.held /\ (c.page \notin Pages(t) \/ Leaves(t)[c.page] = << >>)
     THEN [st |-> b, row |-> NoRow]
     ELSE [st  |-> Settle(SetCursor(d, t, [c EXCEPT !.cell = @ + 1, !.held = TRUE]), t),
           row |-> Leaves(t)[c.page][c.cell]]

(* Table::find_row_by_key() with Cursor::set(): the first row at or behind *)
(* the key; an empty file leaves the cursor at the root.                   *)
Seek(s, t, k) ==
  IF Pages(t) = {} THEN s
  ELSE LET p    == 1 + Cardinality({i \in DOMAIN db[t].seps : db[t].seps[i] <= k})
           cell == 1 + Cardinality({i \in DOMAIN Leaves(t)[p] : Leaves(t)[p][i][1] < k})
           s1   == TakePage(ReadPage(s, t, p), t, p)
       IN Settle(SetCursor(s1, t,
                    [page |-> p, cell |-> cell, held |-> TRUE, init |-> TRUE]), t)

(* Mutant: a cursor that is let go keeps the page it took.                 *)
LetGoKeepsPage(s, T) ==
  [s EXCEPT !.cur = [t \in DOMAIN @ |-> IF t \in T THEN NewCursor ELSE @[t]]]

(* Cursor::rewind() and Cursor::drop(), for the cursors of some tables.    *)
LetGo(s, T) ==
  LET back(t) == IF t \in T /\ s.cur[t].held THEN {s.cur[t].page} ELSE {}
  IN [s EXCEPT !.cached = [t \in DOMAIN @ |-> @[t] \cup back(t)],
               !.taken  = [t \in DOMAIN @ |-> @[t] \ back(t)],
               !.cur    = [t \in DOMAIN @ |-> IF t \in T THEN NewCursor ELSE @[t]]]

-----------------------------------------------------------------------------
(* Columns of the schema a name may mean, as find_column_distinct() finds  *)
(* them: none, one, or an ambiguous name.                                  *)
Matches(col, from) ==
  {2 * (i - 1) + col.col : i \in {j \in DOMAIN from :
                                    col.col \in 1 .. 2 /\ col.table \in {0, from[j]}}}
Named(col, from) == Cardinality(Matches(col, from)) = 1
Place(col, from) == CHOOSE x \in Matches(col, from) : TRUE

Compare(o, a, b) ==
  \/ o \in {"=", ">=", "<="} /\ a = b
  \/ o \in {">", ">=", "!="} /\ a > b
  \/ o \in {"<", "<=", "!="} /\ a < b

Mirrored(o) ==
  CASE o = ">" -> "<" [] o = ">=" -> "<=" [] o = "<" -> ">" [] o = "<=" -> ">=" [] OTHER -> o

(* expr_to_pred(): whether it takes a condition, and the predicate it      *)
(* makes of one; a literal on the left turns the operator round.  There is *)
(* a column, each is found once, and the other side has its type: it is a  *)
(* column too or a literal a value of that type can be made of.            *)
Sides(c) == <<c.lhs, c.rhs>>
TypesOf(x, from) ==
  IF x.kind = "lit" THEN x.types
  ELSE {FlattenSeq([i \in DOMAIN from |-> db[from[i]].types])[Place(x, from)]}

PredOk(c, from) ==
  /\ \E x \in Range(Sides(c)) : x.kind = "col"
  /\ \A x \in Range(Sides(c)) : x.kind # "op" /\ (x.kind = "col" => Named(x, from))
  /\ TypesOf(c.lhs, from) \cap TypesOf(c.rhs, from) # {}

Satisfies(row, c, from) ==
  CASE c.rhs.kind = "lit" -> Compare(c.op, row[Place(c.lhs, from)], c.rhs.value)
    [] c.lhs.kind = "lit" -> Compare(Mirrored(c.op), row[Place(c.rhs, from)], c.lhs.value)
    [] OTHER -> Compare(c.op, row[Place(c.lhs, from)], row[Place(c.rhs, from)])

SatisfiesAll(row, q) == \A i \in DOMAIN q.conds : Satisfies(row, q.conds[i], q.from)

Projected(row, q) ==
  IF q.cols = AllColumns THEN row
  ELSE [i \in DOMAIN q.cols |-> row[Place(q.cols[i], q.from)]]

(* find_key_preds(): conditions that are no surprise to it, conditions it  *)
(* can read, with a literal that can be a key where the column is one, and *)
(* the keys it finds in them; the first of the keys is where the scan      *)
(* begins.                                                                 *)
KeyPredExpected(c) ==
  /\ c.op \in {"=", ">", ">="}
  /\ {c.lhs.kind, c.rhs.kind} = {"col", "lit"}

Operands(c) == IF c.lhs.kind = "col" THEN [col |-> c.lhs, lit |-> c.rhs]
                                     ELSE [col |-> c.rhs, lit |-> c.lhs]
KeyPredOk(c, t) ==
  /\ KeyPredExpected(c)
  /\ Operands(c).col.col = 1 => db[t].types[1] \in Operands(c).lit.types

KeyOf(c) == IF Operands(c).col.col = 1 THEN <<Operands(c).lit.value>> ELSE << >>
KeyPreds(conds) == FlattenSeq([i \in DOMAIN conds |-> KeyOf(conds[i])])

(* In the comparisons a scan takes a key from, the key is not on the right *)
(* of a literal it is smaller than: find_key_preds() reads  5 > id  as     *)
(* id > 5  (see EitherSideMayBeLiteral).                                   *)
KeyStandsFirst(q) ==
  Len(q.from) = 1 => \A i \in DOMAIN q.conds :
    LET c == q.conds[i]
    IN c.lhs.kind = "lit" /\ c.rhs.kind = "col" /\ c.rhs.col = 1 => c.op \notin {">", ">="}

-----------------------------------------------------------------------------
(* What a statement means: the rows of all tables of the from list, in the *)
(* order of their keys, the last table fastest; those that fulfil every    *)
(* condition as it is written; their columns.                              *)
RowsOf(t) == FlattenSeq(Leaves(t))
Joined(row, rows) == [j \in DOMAIN rows |-> row \o rows[j]]

(* The product of the first i rows of s1 and all of s2.                    *)
Times(s1, s2) ==
  LET rows[i \in 0 .. Len(s1)] == IF i = 0 THEN << >> ELSE rows[i - 1] \o Joined(s1[i], s2)
  IN rows

(* The product of the tables from the i-th of the list on.                 *)
Product(from) ==
  LET rows[i \in 1 .. Len(from)] ==
        LET here == RowsOf(from[i])
        IN IF i = Len(from) THEN here ELSE Times(here, rows[i + 1])[Len(here)]
  IN rows
AllRows(from) == Product(from)[1]

ValueIn(x, row, from) == IF x.kind = "lit" THEN x.value ELSE row[Place(x, from)]
Fulfils(row, q) ==
  \A i \in DOMAIN q.conds :
    LET c == q.conds[i]
    IN Compare(c.op, ValueIn(c.lhs, row, q.from), ValueIn(c.rhs, row, q.from))

(* What a row adds to what the rows before it give, what the first i of    *)
(* some rows give, and all of them.                                        *)
Adding(given, row, q) == IF Fulfils(row, q) THEN Append(given, Projected(row, q)) ELSE given
Given(rows, q) ==
  LET upTo[i \in 0 .. Len(rows)] ==
        IF i = 0 THEN << >> ELSE Adding(upTo[i - 1], rows[i], q)
  IN upTo
Answer(q) == LET rows == AllRows(q.from) IN Given(rows, q)[Len(rows)]

-----------------------------------------------------------------------------
Places == 1 .. Len(query.from)
Idle == first' = << >> /\ at' = 0 /\ none' = FALSE /\ retried' = {}

Init ==
  /\ db \in Databases
  /\ query \in {q \in Queries : \A r \in Queries : Len(q.from) <= Len(r.from)}
  /\ phase = "idle" /\ reply = "none" /\ out = << >> /\ answer = << >>
  /\ tree = [cur    |-> [t \in DOMAIN db |-> NewCursor],
             taken  |-> [t \in DOMAIN db |-> {}],
             cached |-> [t \in DOMAIN db |-> {}],
             failed |-> FALSE]
  /\ first = << >> /\ at = 0 /\ none = FALSE /\ retried = {}

(* The tree of operators is dropped, and its cursors with it.              *)
End(s, r) ==
  phase' = "idle" /\ reply' = r /\ tree' = LetGo(s, DOMAIN db) /\ Idle

Known(from) == Range(from) \subseteq DOMAIN db /\ IsInjective(from)
Readable(q) ==
  Len(q.from) = 1 => \A i \in DOMAIN q.conds : KeyPredOk(q.conds[i], q.from[1])

(* The first condition that cannot be read is one nobody expected.         *)
Surprises(q) ==
  \E i \in DOMAIN q.conds :
    /\ ~KeyPredExpected(q.conds[i])
    /\ \A j \in 1 .. i - 1 : KeyPredOk(q.conds[j], q.from[1])

Builds(q) ==
  /\ \A i \in DOMAIN q.conds : PredOk(q.conds[i], q.from)
  /\ \A i \in DOMAIN q.cols : Named(q.cols[i], q.from)

(* The scans of a statement: one of a single table begins at its key.      *)
Scans(q) ==
  LET keys == IF Len(q.from) = 1 THEN KeyPreds(q.conds) ELSE << >>
  IN IF keys = << >> THEN tree ELSE Seek(tree, q.from[1], keys[1])

(* execute_dql().  get_disjoint_tables() finds no table a second time; the *)
(* keys are looked for in the conditions before there is a scan, and the   *)
(* conditions and columns are read when the scans are already there.       *)
Begin(q) ==
  /\ phase = "idle"
  /\ query' = q /\ out' = << >> /\ UNCHANGED db
  /\ answer' = IF Known(q.from) /\ Builds(q) THEN Answer(q) ELSE << >>
  /\ \/ ~Known(q.from) /\ End(tree, "error")
     \/ Known(q.from) /\ ~Readable(q) /\ ~Surprises(q) /\ End(tree, "error")
     \/ /\ Known(q.from) /\ ~Readable(q) /\ Surprises(q)
        /\ phase' = "panicked" /\ reply' = "panicked"
        /\ UNCHANGED <<tree, walk>>
     \/ Known(q.from) /\ Readable(q) /\ ~Builds(q) /\ End(Scans(q), "error")
     \/ /\ Known(q.from) /\ Readable(q) /\ Builds(q)
        /\ phase' = "running" /\ reply' = "none" /\ tree' = Scans(q)
        /\ first' = [i \in DOMAIN q.from |-> NoRow]
        /\ at' = 1 /\ none' = FALSE /\ retried' = {}

Running == phase = "running" /\ UNCHANGED <<db, query, answer>>

(* The call at a place finds no row; the product before it learns of it.   *)
NoneHere == at' = at - 1 /\ none' = TRUE /\ retried' = retried \ {at}

(* Cartesian::next() needs a row of source_1, and asks for one if it has   *)
(* none yet.                                                               *)
FirstRow ==
  LET r == CursorNext(tree, query.from[at]) IN
  /\ Running /\ ~none /\ at < Len(query.from)
  /\ \/ /\ first[at] # NoRow
        /\ at' = at + 1 /\ UNCHANGED <<tree, first, none, retried>>
     \/ /\ first[at] = NoRow /\ r.row # NoRow
        /\ tree' = r.st /\ first' = [first EXCEPT ![at] = r.row]
        /\ at' = at + 1 /\ UNCHANGED <<none, retried>>
     \/ /\ first[at] = NoRow /\ r.row = NoRow
        /\ tree' = r.st /\ NoneHere /\ UNCHANGED first
  /\ UNCHANGED <<phase, reply, out>>

(* The scan of the last table: its row is joined to the rows the products  *)
(* before it are at, and given out by the projection when it passes the    *)
(* filter; then execute(), or Filter::next(), asks for the next.           *)
LastRow ==
  LET r == CursorNext(tree, query.from[at])
      row == FlattenSeq([i \in Places |-> IF i = at THEN r.row ELSE first[i]])
  IN /\ Running /\ ~none /\ at = Len(query.from)
     /\ tree' = r.st
     /\ \/ /\ r.row # NoRow
           /\ out' = IF SatisfiesAll(row, query) THEN Append(out, Projected(row, query)) ELSE out
           /\ at' = 1 /\ retried' = {} /\ UNCHANGED none
        \/ r.row = NoRow /\ NoneHere /\ UNCHANGED out
     /\ UNCHANGED <<phase, reply, first>>

(* Mutant: the products after a place keep the rows they were at.         *)
RewoundKeepsFirst(row) == [first EXCEPT ![at] = row]
(* Rows the products are at when the one at this place has moved on.       *)
Rewound(row) ==
  [i \in DOMAIN first |-> IF i = at THEN row ELSE IF i > at THEN NoRow ELSE first[i]]

(* source_2 has run out: source_1 moves on and source_2 is rewound.        *)
Advance ==
  LET r == CursorNext(tree, query.from[at]) IN
  /\ Running /\ none /\ at \in Places \ retried
  /\ \/ /\ r.row # NoRow
        /\ tree' = LetGo(r.st, {query.from[i] : i \in {j \in Places : j > at}})
        /\ first' = Rewound(r.row)
        /\ at' = at + 1 /\ none' = FALSE /\ retried' = retried \cup {at}
     \/ r.row = NoRow /\ tree' = r.st /\ NoneHere /\ UNCHANGED first
  /\ UNCHANGED <<phase, reply, out>>

(* source_2 has no row even after the rewind: it is empty.                 *)
GiveUp ==
  /\ Running /\ none /\ at \in retried
  /\ NoneHere
  /\ UNCHANGED <<phase, reply, out, tree, first>>

(* Mutant: the loop asks again after the last row.                         *)
FinishAsksAgain ==
  /\ Running /\ none /\ at = 0
  /\ at' = 1 /\ none' = FALSE
  /\ UNCHANGED <<phase, reply, out, tree, first, retried>>

(* There are no more rows: execute() prints and drops the tree.            *)
Finish == Running /\ none /\ at = 0 /\ End(tree, "rows") /\ UNCHANGED out

(* A panic ends the program.                                               *)
StayPanicked == phase = "panicked" /\ UNCHANGED vars

Pull == FirstRow \/ LastRow \/ Advance \/ GiveUp \/ Finish
Next == (\E q \in Queries : Begin(q)) \/ Pull \/ StayPanicked
Spec == Init /\ [][Next]_vars /\ WF_vars(Pull)

-----------------------------------------------------------------------------
(* The type invariant; a cursor that holds a page is at a cell of it.      *)
TypeOK ==
  /\ db \in Databases /\ query \in Queries
  /\ phase \in {"idle", "running", "panicked"}
  /\ at \in 0 .. Len(query.from) /\ retried \subseteq Places
  /\ \A i \in DOMAIN first :
       first[i] = NoRow \/ \E p \in Pages(query.from[i]) :
                             first[i] \in Range(Leaves(query.from[i])[p])
  /\ reply \in {"none", "rows", "error", "panicked"}
  /\ \A t \in DOMAIN db :
       /\ tree.cached[t] \subseteq Pages(t) /\ tree.taken[t] \subseteq Pages(t)
       /\ tree.cur[t].page \in Pages(t) \cup {Null}
       /\ tree.cur[t].held => tree.cur[t].cell \in DOMAIN Leaves(t)[tree.cur[t].page]

(* A select gives out the rows its text means, every one once and in       *)
(* order, whatever leaves the rows lie in, wherever the scan begins and    *)
(* however often the inner scans are rewound: never a row too many while   *)
(* it runs, and all of them when it ends (Operator::next() of Cartesian,   *)
(* Filter, Project and Scan; Cursor::next(), set() and rewind()).          *)
RowsAreTheAnswer ==
  /\ phase = "running" => IsPrefix(out, answer)
  /\ phase = "idle" /\ reply = "rows" => out = answer

(* The pages out of a pager are those the cursors hold, one a table, and   *)
(* none between statements, also after a statement that failed when its    *)
(* scan had already taken a leaf (Drop for Cursor).                        *)
TakenPagesComeBack ==
  \A t \in DOMAIN db :
    /\ tree.taken[t] = IF tree.cur[t].held THEN {tree.cur[t].page} ELSE {}
    /\ phase = "idle" => tree.taken[t] = {}
    /\ tree.taken[t] \cap tree.cached[t] = {}

(* No page is read or taken while it is taken: the assertions of           *)
(* Pager::page() and Pager::take_page() hold in all a select does.         *)
NoPageIsTakenTwice == ~tree.failed

(* Every select ends, the product of an empty table and of tables whose    *)
(* leaves are empty too (the loop of execute()).                           *)
SelectEnds == phase = "running" ~> phase = "idle"

(* What README.md:64-65 says: a condition keeps the rows that fulfil it,   *)
(* with a column or a literal on either side of a comparison.              *)
EitherSideMayBeLiteral ==
  phase = "idle" /\ reply = "rows" => out = answer

(* What README.md:61 shows and src/src/execution/meta.rs:51 lists: every   *)
(* comparison can be used in the where clause of a select.                 *)
EveryComparisonRuns == phase # "panicked"

=============================================================================
