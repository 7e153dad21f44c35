# RDB2 in TLA+

RDB2 is a single-process, single-thread relational database written in Rust: a
prompt, a small SQL, one file per table, a B+tree of 4 KiB pages in every file
and a pager that keeps pages in memory and writes them when told to. This
directory models it: modules for TLC, theorems for TLAPS, and this guide.

Nothing here runs concurrently in the sense of threads. What makes the code
hard is different: pages are *taken out* of the pager by value and have to come
back; a delete at a leaf may rewrite pages on every level; two numbers describe
the free space of one page; saving is a sequence of unlogged writes; a cursor
holds a leaf between the calls of a pipeline of operators; a value passes
through a token, a literal, a typed column and bytes found by adding up lengths
before it is a value again; and most things that "cannot happen" are an
`unwrap()`, which ends the process and every unsaved change with it.

## 1. Inventory

| Component | Source (`src/src/`) | State | Operations |
|---|---|---|---|
| Pager | `storage/pager.rs` | cache of pages with dirty flags, `taken` ids, `num_pages`, head of the free page list | `page`, `page_mut`, `new_page`, `reg_page`, `take_page`, `reg_page_with_id`, `flush`, free list push and pop |
| Table file | `storage/table.rs` (header), `storage/pager.rs` | header fields (`num_pages`, `root_id`, `free_page`), schema, pages | `write_header`, `try_from_src`, flush |
| B+tree | `storage/table.rs` | `root_id`, the pages | insert, insert with automatic key, split of leaf and internal node, delete, merge, rebalance, search |
| Slotted page, cells | `storage/node.rs`, `storage/cell.rs` | cell pointers, cell area, `free_space_end`, `total_free_space`, sibling, leftmost child | insert, defragment, delete, change a key, search, split |
| Cursors | `storage/cursor.rs`, `storage/row_cursor.rs` | page, cell, the taken leaf | `next`, `set`, `rewind`, drop |
| Query operators | `execution/scan.rs`, `cartesian.rs`, `filter.rs`, `project.rs` | `Cartesian.first`, the cursor of every scan | `next`, `rewind` |
| Select statement | `execution/query.rs`, `execution.rs` | the tree of operators | `execute_dql`, `find_key_preds`, the loop of `execute` |
| Statements that change data | `execution/query.rs` | rows still to do | create, drop, describe, insert, delete |
| Storage engine | `storage/engine.rs` | `tables`, the files | create, open on demand, drop, `flush_all` |
| Process, meta commands | `main.rs`, `interface/repl.rs`, `execution/meta.rs` | up or not, the line so far | prompt, `.quit`, `.tables`, `.help` |
| Lexer, parser | `interface/lexer.rs`, `parser.rs` | none between statements | text to tokens, tokens to statement |
| Value types | `storage.rs`, `execution/query.rs` (expressions) | none | expression to typed value, arithmetic, value to bytes and back |
| Printer | `interface/printer.rs` | none | rows to text |

How they interact: the prompt parses a line and calls `execute()`. It builds
operators or runs a statement row by row over tables the engine opens on first
use and keeps. A table walks its pages through its pager by id; a split, merge
or cursor *takes* the page (it leaves the cache) and later *registers* it back.
A page taken and not registered was merged away, and the next flush frees it.
That is the contract on which most of this rests: **forgetting to give a page
back is a delayed deletion of it.** Only `.quit` saves.

What each part has to keep:

* *Pager, file*: a page is in the tree, out, or free, and never two of them; the
  free list is linked; nothing reads behind the file; a flush passes by no change;
  a process that ends between flushes finds the last saved state.
* *B+tree*: every page has one parent; separators agree with leaves; siblings
  are the order of the tree; only the last leaf may be empty; every operation
  ends; the whole is a set of rows.
* *Slotted page*: no write damages a cell, holes never change an answer, the
  two free space fields never promise bytes that are not there.
* *Cursors, operators, select*: the rows the text means, once, in order; every
  leaf that was taken is back when the statement ends, well or badly.
* *Lexer, parser*: a line is accepted exactly when it starts with a statement of
  the grammar, and means that one.
* *Values*: what is stored reads back as what the statement wrote.
* *Engine, process*: a table in memory has a file; dropped tables do not come
  back; `.quit` leaves nothing unsaved behind; a crash goes back to the last save.

The hazards, each at its line with the properties that watch it, are in
`PROJECT.json`.

## 2. Modules

```
PageStore  <--refined by--  Pager        PagerProofs (theorems)
RowSet     <--refined by--  BTree        TreeShape (lemmas), BTreeProofs (theorems); uses pages as PageStore promises them
CellMap    <--refined by--  SlottedPage  SlottedPageProofs (theorems); the bytes of one page of BTree
                            Select       SelectProofs (theorems); reads trees as BTree leaves them
Catalog    <--refined by--  Engine       EngineProofs (theorems); uses a table as RowSet, a flush as Pager

Session = Prompt (Parser (Lexer)) + Values + RowBytes (TableFile (Bytes))   compared with Grammar
                            from the typed line to the bytes of a row; uses a table as RowSet
                                         EncodingProofs (theorems about RowBytes and what it uses)
```

Sums (adding up cells) is what the pages use, Induction the facts about numbers, sums and
sequences that several of the proofs need.

The levels are joined by their abstract modules, not by one giant composition:
BTree acts on a page map with taken and free ids, which is what Pager is shown
to provide; Engine treats a table as a set of keys whose file is the old one,
the new one, or torn; Select assumes of a tree (`SelectAssumption`) what BTree
checks (`OnlyLastLeafEmpty`, `SearchAgreesWithScan`, `SiblingsInOrder`).

**Pager.** `cache`, `dirty`, `taken`, `num`, `free` are the fields of `Pager`,
`root` that of `Table`; `held` are the page values the tree owns; `file` and
`header` are the disk. One action per call (`Load` = `page`, `Modify` =
`page_mut`, `NewRoot` = `new_page` + `set_root_id`, `Register`, `TakePage`,
`GiveBack` = `reg_page_with_id`, `Drop` = a taken page going out of scope after
a merge) and one per *write* of a flush: `FlushBegin`, `FlushFree` for every
taken page in any order (a hash set), `FlushWrite` for every dirty page in any
order, then the three header fields in their order in the file. `FlushFail` is a seek or
write error at any of them, possibly leaving a torn page; `Reopen` a new
process; `EndTorn` a process that ends with a flush half done, after which the
code promises nothing. The client keeps to what `table.rs` does: it names only
pages of the tree, loads before it takes, holds nothing across a flush, and never drops the root.
`freeList` and `durable` are auxiliary: the list meant and the state last saved.

**BTree.** One action per method of `Table`, and `pc` is the call stack: the
methods are tail calls except for the pages a merge holds while the parent is
repaired (`held`). `path` is the `Path` argument. An `unwrap()`, an
arithmetic underflow or a failing assertion is `Panic`, with its reason in
`fault`. Space is in units, so a leaf has room for three rows; both free
space measures of internal nodes are kept (`room` = `total_free_space`, `gap` =
contiguous bytes), as the code lets them drift apart.

**SlottedPage.** The same page at the level of offsets: `ptrs`, `mem` (cells by
offset; writing over a cell damages it), `back` = `free_space_end`, `room`. Insert defragments
exactly when the code does, splits and rebalances rebuild a page cell by cell.
The variable `leaf` is the kind of page, which never changes; the internal kind
also has `SetCellKey` and loses, in a split, the cell that goes up.

**Select.** A table is its leaves and separators, since no tree changes while a
select runs. Columns have types, and a literal the types it can be a value of (`TypesOf`), so
that conditions fail where `literal_to_col_data()` and the comparison of two columns do; an operand
that is arithmetic is one more kind. Every pull of the operator pipeline is a walk of `at`, the place in
the right-deep product whose `next()` runs: `FirstRow`, `LastRow`, `Advance` (`source_2`
ran out, `source_1` moves on, `source_2` is rewound), `GiveUp` (`source_2` is empty),
`Finish`. `CursorNext`, `Seek` and `LetGo` are the cursor with its taken leaf; a
page read while taken sets `failed`, as the assertion would. `Answer` is the
meaning of the statement, computed from its text alone: the rows of the joined
tables, one after the other in the order of the product (`AllRows`), of which those that
satisfy the conditions are given (`Given`).

**Engine.** `files`, `tables`, `up`, and the statement that runs with the rows
left (`op.todo`), so a crash, a bad row or a panic falls between any two rows.
`.quit` saves table by table, in any order, and each may fail or be cut short.
A torn file may open as anything.

**Lexer, Parser.** One operator per scan and parse function. A text is a
sequence of symbols, a symbol being a character or a run of letters; `Tokens` is
all the lexer would hand out. A parse function takes the place of the next
token and gives a node and the place after it (`Got`), or how it failed
(`Failed`; module Outcome), and `Then` is the code's `?`: so the order of tests,
the errors and the panics are those of the code. `debug` tells the two builds
apart where they differ.

**Grammar** is the other side of the comparison: the grammar of `parser.rs`'s
comments as a relation between strings of tokens and statements, in which every
way of cutting a string is tried. It does not look at the parser.

**Values, RowBytes, TableFile, Bytes.** `ExprToColData` and what it calls, arithmetic
with the widths of the types (`Calculate` panics in a debug build and wraps in a
release build); `ToBytes` and `DecodeVal`, the bytes of a row; the header as the one write it is
and `TryFromSrc`. A number has as many bytes as in the code, but a byte has `Base`
values instead of 256, so that the ends of every type are near.

**Prompt, Session.** The loop of `main.rs`. A line is typed word by word, or
recalled from a history and edited at any place, and entered; the line editor
is a library and is as free as that. `Session` executes what the
parser gives: `ExecuteNew` (the one write of the header may fail, be cut off with the process, or
be short and no error, and then the table is open all the same),
`ExecuteDrop`, `ExecuteSelect` (how a select ends: `Selected` has the order in which
the conditions are read for keys, for the filter, and the columns for the projection), `BeginInsert` and `InsertRow` row by row, `BeginDelete` (the scan that
collects the keys) and `DeleteRow` key by key. `rows` is the tree as a map from keys to
the bytes of records. `meant` is auxiliary: what the values of each row mean, in
numbers without bounds, computed from the statement alone; `before` is `meant`
when the statement began.

Abstract modules: `PageStore` (pages by id, save and recover), `RowSet` (a set
of keys with the answers of insert, automatic insert and delete), `CellMap` (a
map with a capacity), `Catalog` (tables, and what survives).

Definitions whose comment begins with *Mutant* are wrong versions of a definition,
each with a plausible slip; they are used nowhere and exist so
that one can ask of every property whether it notices.

## 3. Runs

| Run | Shows | Bounds |
|---|---|---|
| `pager` | All pager invariants and the refinement of `PageStore`, through calls, flushes that complete, fail or are cut short, and reopenings | 3 pages, 2 contents (interchangeable, hence symmetry), 4 calls between flushes; any number of flushes |
| `tree_any_two_levels` | Insert and delete of 7 keys in *any* order, automatic keys, flushes; structure, search, room and the refinement of `RowSet` | 5 pages, 3 rows a leaf |
| `tree_deep` | Trees of three and four levels, deletes of its left half in any order: merges and rebalances of leaves and internal nodes, under one parent, and across two up to the panic that ends them | 19 rows loaded, 3 rows a leaf, up to 4 cells in an internal node |
| `tree_regrow` | Deletes, flushes and inserts alternate: roots left with one child, freed pages given to new roots; every operation ends | 10 rows loaded, keys up to 14 |
| `tree_duplicate` | *violation*: a duplicate of a key in a full leaf panics | 5 keys |
| `tree_any_order` | *violation*: falling inserts make rows unreachable | 10 keys, falling |
| `slotted` | The bytes of a page: intact cells, exact room in a leaf and never overstated in an internal node, both searches, refinement of `CellMap` | 18 bytes, cells of 2 and 3, 5 keys, both kinds of page |
| `select` | 54 selects of one to three tables over 36 databases: answers, pages back, termination, failing statements | up to two leaves a table |
| `select_literal` | *violation*: a literal on the left of a comparison with the key loses rows | same databases |
| `select_compare` | *violation*: `!=`, `<`, `<=` in a select of one table panic | same databases |
| `engine` | Two tables through create, drop, insert, delete, `.quit`, failures, crashes and restarts: refinement of `Catalog`; statements end | keys 0..2, five batches of rows |
| `session` | Lines typed, recalled and edited: read as the grammar says, but for exceptions the property names; headers read back or are refused, cut short at any byte; rows stored as they mean; inserts and deletes do what they say; only the known inputs panic; both builds | bytes of 4 values, lines of 9 symbols typed from 19 words, 62 lines recalled and 7 of them edited at any one place, rows of 15 bytes; inserts into tables of up to 1 row, up to 3 rows by one of them, deletes from tables of up to 4; one table at a time |

*Why these bounds.* Pager: three pages are a root, another page, and one to be
freed between them, so a free list of length two and a pop that leaves one behind are there; four calls allow
load, take, drop and one more before a flush. Two levels of tree in any order
need two splits of leaves, and a merge with the sibling left and right of
them; the third and fourth level are where a merge makes its parent
underflow and where a sibling belongs to another parent. Selects: empty file,
emptied leaf, one leaf, two leaves, last leaf empty, a key between leaves, are
all the cases a cursor can tell apart; three tables are the least that nest two
products. Engine: two tables are the least for a save that does one and not the
other, and `0..2` has a key space that ends. Slotted page: 18 bytes are five of the smallest
cells with their pointers, so a hole between two cells that no new cell fits, and the
defragmentation that fixes it, are there for both kinds. Session: with `Base` 4, an
`int` ends at 127, a `uint` at 255, a `long` at 32767 and a name at 15 symbols, and lines stand
on both sides of each of them; a line of nine symbols is the shortest of most statements (the longer ones are
recalled), and one edit leaves out, doubles or replaces any symbol of seven long
lines that hold every construct between them; one row is what an insert can collide with and what a
counter goes on from, at its last value too; the rows an insert of several adds are there for the delete
that follows, which takes some and leaves others. `MaxLength`, `MaxEdits`, `MaxRows` and `Brief` (the lines
that may follow when there are more rows than `MaxRows`, or when the header is short) bound the user, never the
program.

*What `ReadsAsWritten` compares.* The tokens with the definition of tokens in Grammar: `Spell` says that they are
the longest pieces of the line, of the kinds their letters make, up to a place where no token stands. The statement
with the grammar over these tokens. The program departs from both, and the property names where, so that it may
there and nowhere else: the lexer stops at a word that has an operator or a quote right behind it (`StopsAtWord`)
and at a `>` or `<` that ends the line (`StopsAtEnd`); the parser takes a Boolean that is not `true` in lower case
for false, and in a release build any token after the table of a delete for `where` (`Taken`). Section 5
has the documents these disagree with.

*What `StatementsDoWhatTheySay` says of each build.* In both, the rows an insert leaves, their keys and automatic keys, and
the answer: in a release build the key that follows the largest is 0, and refused if it is there. A row goes
under its key as arithmetic has it, taken modulo the type. It leaves open which key a quotient
of wrapped numbers makes, and which rows with wrapped values a delete takes, since comparisons are not made modulo anything.

*What the client does in passing runs.* The tree has known defects (section 5), and a run that
steps on one shows nothing else. `Fresh` keeps clients from inserting
duplicates; `Ascending`, above two levels, from inserting out of order;
`Deletable` limits deep deletes to keep the run small. Where a panic can still occur
(the walk into a taken page, the automatic key after an emptied last leaf), the run goes through it:
`RowSet` lets the program abort, and everything else has to hold up to there.
The selects of `select` are all that the code reads as they are meant; those
that panic are among them, and the program then stops.

*Fairness.* None in Pager, SlottedPage and Session, of which only safety is asked.
`WF_vars(Method)` in BTree, `WF_vars(Pull)` in Select and `WF_vars(Step)` in
Engine say that a called function runs on: there is one thread, and between
the call and its return nothing else is scheduled. They say nothing of clients,
who may stop calling. Engine's includes a save that fails and not a crash, which may
happen at any time and need not.

*Deadlock* is checked in every run but `session`. A panic or a torn file ends the program; the
models then stutter by an action of their own (`StayPanicked`, `StayTorn`) so
that any other dead end is an error. A session really ends, by `.quit`, a panic
or a crash, and its bounds end it too.

## 4. Proofs

`PagerProofs` proves for every number of pages, contents and calls, from
`PagerAssumption` only (`Null` is no page id, `Torn` no content, at least one page):

* `TypesAreRight`, `PagesAreOwnedOnce`, `FreeListIsLinked`, `ReadsFindPages`,
  `NoChangeIsSkipped`, `LastFlushIsInFile`, `FlushPassesByNothing`: the seven
  invariants run `pager` checks;
* `PagerIsPageStore`: the pager refines `PageStore`, a step of one being a step
  or a stutter of the other.

*The argument.* No single invariant is inductive. That the file holds the state
of the last flush (`FileHoldsLastFlush`) at the moment the last header field is
written depends on what the flush did before: every dirty page it has passed is
in the file as it is in memory, every taken page is on the free list, and the
header fields written so far are current (`FlushProgress`); what was *not*
dirty has to be in the file already (`CleanIsWritten`); and pages not in memory
have to be in it too (`ReadsWithinFile`). For these to survive a pop of the
free list, the list meant and the list linked through cache and file must be
one (`FreeListLinked`), and no page may be on it and out (`OwnedOnce`). So the
inductive invariant `IInv` is all seven with `TypeOK`, and the proof is a lemma
per group of actions: calls of the client, the loops of the flush, its
header, failure and reopening. Refinement follows from `IInv` as every call
changes `Store` at one id and flushing changes it nowhere.

`EngineProofs` proves for any tables, keys and batches of rows, from
`EngineAssumption` (the names of the states of a file are distinct, and no content):

* `EngineTypes` and `MemoryHasFiles`, the invariants run `engine` checks;
* `EngineIsCatalog`: the engine refines `Catalog`.

Here `TypeOK` and `TablesHaveFiles` want one thing more, `QuitProgress`: only
`.quit` has tables to save, and each it has passed is in its file as it is in
memory, so that nothing is unsaved when it exits. A step of the engine is
then a step of one table in the catalog, or the end of the program.

`SelectProofs` proves for any tables and statements, from `SelectAssumption`
(separators stand between leaves, keys rise, only the last leaf may be empty, keys are
numbers, a statement names a table, and a literal in it is a number):

* `SelectTypes`, `PagesComeBack`, `PagesTakenOnce`: the invariants `TypeOK`,
  `TakenPagesComeBack` and `NoPageIsTakenTwice` of run `select`, now for products of
  any number of tables, each of any number of leaves.

The argument is about one cursor at a time. `Settled` says what a cursor is
between two calls: it holds a page exactly if that page, and no other of its
table, is taken; then it has begun and stands on a cell of it; a page that is
taken is not cached. `CursorNextFacts`, `SeekFacts` and `LetGoFacts` show that
`next`, `set` and `rewind` keep it for every cursor and fail no assertion. What
the pipeline adds is `WalkOK`: while a statement runs, its tables are
there and a product that learns of no row is not the innermost scan
(`Walking`); between statements every cursor has let go (`Resting`). `Resting`
is what makes a scan that begins at a key safe, since `Cursor::set` takes its
page without looking whether the cursor holds one.

It proves further, of the same tables and statements,

* `RowsAreRight`: the invariant `RowsAreTheAnswer` of run `select`. A statement
  that ends has given the rows its text means, every one once, in the order of the
  product; one that has not ended has given the first of them. For any number of tables, rows and
  conditions.

Its hypothesis `KeyStandsFirst` is what finding `select_literal` leaves: a condition that compares
the key with a literal names the key on its left, because `find_key_preds()` reads
`5 > id` as `id > 5`. Every statement of run `select` satisfies it (`StatementsAreCovered`).
The inductive invariant is `Meant`. While a statement runs, the rows on which
the products stand are those their scans gave last, and behind a product that has no
row nothing has begun (`Ordered`); for every place in the product there is a number
of rows that have been passed from there on (`Counts`), and what has been given is what
the conditions leave of the rows passed at the first place. So the one step
that matters is the walk of a pull: it moves the numbers to the next row of the product
(`NextRow`), whichever of the products ran out and was rewound. The pushed-down key
condition makes a scan begin and end elsewhere; `SeekPos` and `KeySkips` show that
it leaves out only rows that a condition refuses. `FilterMeans` says that the conditions read by
the code are those of the text.

`SlottedPageProofs` proves for every page size, key set and cell sizes, from
`SlottedPageAssumption` (keys are numbers, sizes positive, a header is smaller than a page):

* `TypeCorrect`, `CellsStayIntact`, `RoomStaysThere`, `SearchesAlwaysFind`: the invariants of run `slotted`;
* `LeafIsAMap`: a page refines `CellMap`;
* `RebuiltSound`: the cells `split_page()` moves always fit the new page, although the code drops the results of
  its `insert_cell()` calls.

The inductive invariant is `Sound`: the cell pointers are one-to-one with cells that lie
apart behind `free_space_end`, keys rise along the pointers, the sizes add
up to no more than the space behind `free_space_end`, the pointers end in front of it, and
`total_free_space` with all that is used is at most a page, and exactly a page in a leaf. That the sum of
the sizes bounds what a defragmentation needs is why the insert after
it cannot write over a cell; the sum is counted as a set of pairs (module Sums), so that what it takes
is cardinalities. The loops of the code (packing, copying, binary search)
are recursive functions, and what they return is proved by induction on the set of the
numbers of rounds after which it holds (`SetInduction` in module Induction).

`BTreeProofs` proves for trees of any height, with any sizes of rows, cells and pages, from
`BTreeAssumption` (a row takes less than half a page: `insert_row()` asserts `MAX_RECORD_SIZE`, an eighth
of one; `Null` is no page id):

* `Types`, `PagesAreOwned`, `SiblingsStayInOrder`, `SearchFindsWhatScanYields`, `NoLeafEmptyButLast`,
  `RoomIsThere`: the six invariants of the tree that runs `tree_any_two_levels` and `tree_deep` check;
* `TableIsRowSet`: the tree refines `RowSet`.

They are about behaviours in which every state is `Untroubled`. This says two things of the inserts, and only
these. A row that goes to a split is not there already (else the code meets finding `tree_duplicate`); and a key
that goes to the split of an internal page is behind the keys of the left half (else it meets finding
`tree_any_order`, and the separators *are* wrong). They are what the
defects leave to be true; they refer to the moment of the split, so they leave in all duplicates that meet
a leaf with room, all orders of insertion in two levels, and in higher trees those where splits of internal
pages happen to go right. Deletes are under no condition: any row may go at any time, whatever is merged
or rebalanced above it. `AppendsUntroubled` shows that for a client that only appends (`Appends`:
rising keys or automatic ones, no deletes) both conditions hold by themselves, so
`AppendedTablesAreRight` has no hypothesis on the behaviour.

Two more theorems settle what merges can end in:

* `MergesGoThrough`: a merge within one parent never runs out of room, so the `?` that would leave two
  pages taken (`table.rs:818`) is never used. Above the leaves the page gets one cell more than its sibling has, the key between
  them; both together are still less than a page, since each cell is less than half of one.
* `TakingAcrossPanics`: the branch for a sibling in another parent always panics. The walk to that parent is one step too
  long and ends in the sibling, which is taken (section 5). Such a panic ends the program, and with it the changes that were not saved;
  this is also why the other theorems need no condition on deletes.

*The argument.* `IInv` says that there are functions `lo`, `hi` and `h` - the bounds of the keys below every page,
and its level - with which the registered pages are a `Tree` (module TreeShape): the root has all
keys, the children of a page divide its bounds between its keys, pages of one level do not overlap, every page
has a place, and a sibling pointer leads to where the bounds end. In the middle of a split one page
waits for its place, and the place of its left sibling has the bounds of both; so `Tree` has
two more arguments, that pair, and `Whole` is the tree in which nothing waits. The rest of `IInv` relates
the rows in the leaves to the operation that runs. The lemmas of TreeShape are about sets of pages, not states: a page
is cut (`SplitTree`), gets its place (`AdoptedTree`), a new root goes above both (`GrownTree`), a leaf
changes its rows (`SameShape`), a way down leads to the leaf with the key (`SearchWay`, `SearchFinds`), a scan yields all
rows (`ScanYields`). An internal page that splits never holds the new cell before the cut; it is shown
to be cut as if it had (`Wide`), which is where the second condition of `Untroubled` comes in. What
`InsertCell` and `Split` do to keys, children and the two counts of free space are lemmas of their own,
so that a split of a leaf always makes two pages that take the row, or says that there is no room.

*Deletes.* The suspended callers of `delete_internal_cell()` hold pages by value, which no other part of the program can
see. So the tree that is whole during a delete is not the registered one: `Holds` says that it consists of the
registered pages and those in `held`, none of which is above the page that is looked at. `DeleteInv` has
one case for every place to wait. At a rebalance (`ToRebalance`) that tree is whole, and the page looked at may be an
empty leaf; after a merge (`ToPrune`) the tree *without* a key that one parent is yet to drop is whole; at the return (`ToReturn`) only
the held pages are missing. The panic inside any of them needs no more than the types.

The steps are in both modules. The key between two pages may be less than the first row behind it, since deletes leave separators
alone; the code takes that first row when it moves it down. So a bound between pages first *shifts*
(`Shift`, `ShiftTree`), and then two pages *join* (`Join`, `JoinTree`). A merge is both
(`MergedTree`). Moving some cells to the left neighbour (`SharedTree`) is the same merge followed by a
cut: the pages after it are those that a split of the joined page would have made. `InsertAll` puts
cells one by one into a page; `AppendsAll` shows that cells behind its keys arrive in their order, and
`LeafMerges`, `InternalMerges` and `ShareNumbers` that a merge has room for all and that a
move leaves one behind. That an empty leaf never stays in the middle is `EmptyTakes`: when it is not merged, its
sibling has at least two rows, and it takes some.

`EncodingProofs` proves for any number `Base` of values of a byte (it is even and above 1), any one-to-one table
`Utf8` of characters and any `MaxRecordSize` that two bytes can tell (`MaxRecordSizeAssumption`; the code's is an
eighth of a page):

* `IntegersReadBack`: an integer that fits its type reads back from its bytes, signed or not;
* `HeadersReadBack`: `TryFromSrc` gives back the schema `WriteHeader` wrote, and the place where the pages begin; a header cut off
  at *any* byte is refused. The schema is any with an unsigned key, names whose length two bytes can tell
  (`write_header()` refuses longer ones) and no more columns than eight bytes can tell;
* `RowsReadBack`: `DecodeVal` gives back the values of every row that is no longer than a record may be,
  whatever the types and lengths. A string is not longer than its two bytes of length can tell because the record is not; a
  length that wrapped would move every value behind it. The bytes of a float are the stand-in of the model, so
  of a float the theorem says only that its four bytes are taken.

Run `session` meets them on its small schemas and rows: `HeaderReadsBack` and `StoredAsWritten` rest on them.

*The argument.* The recursive functions (`Power`, `BigEndian`, `Number`, `HeaderBytes`, `RecBytes` and the two
loops of readers) are shown to exist with `Recursion` of module Induction, and what they return by induction on the set of
rounds after which it holds (`StepInduction`). What n divisions leave of a number below `Base`^n is nothing, and putting the
digits together goes the same way back. A part of a file is a `Field` at a place; `Pieces` are parts that follow each
other, and `PiecesAre` says where each one is. Reading a part whose end is behind the cut is `Failed`, any other
one gives what was written (`Outcome`); the four parts of the header follow each other like that, and the columns by
induction on their number.

*Only model-checked*: all that is said of a session as a whole, whose
expressions are recursive operators (what its rows and headers are made of is proved, as above); and everything said of liveness (`OperationsEnd`, `SelectEnds`,
`StatementsEnd`): fairness and ENABLED are out of the prover's reach.

## 5. Where code and documents disagree

Each of these four has a run that ends in a counterexample.

| Run | Code | Says otherwise |
|---|---|---|
| `tree_duplicate` | `insert_cell()` looks at the space before the key: a duplicate into a full leaf goes to the split, and its `unwrap()` meets `RowExists` | the test `test_duplicate_key`, `storage/engine.rs:325` |
| `tree_any_order` | `split_insert_internal()` takes any key left of the split for the leftmost child of the right page; separators no longer match | the comment at `storage/table.rs:674` |
| `select_literal` | `find_key_preds()` reads `5 > id` as `id > 5` | `README.md:64` |
| `select_compare` | `find_key_preds()` reaches `unreachable!()` for `!=`, `<`, `<=` | `README.md:61`, `execution/meta.rs:51` |

### Other disagreements

The models have these behaviours too. They are stated as the property in the
last column, at the end of its module, and no listed run checks them; the named
configuration with this property alone gives the counterexample.

| Code | Document | Property, and where to check it |
|---|---|---|
| A duplicate of a key next to the split is answered `RowExists` *after* the page was split: the new page has no parent (`table.rs:622`) | the steps at `table.rs:606` | `TreeOwnsItsPages` in `MCBTreeDuplicate.cfg` |
| A merge or rebalance across two parents walks into the page it has taken (`table.rs:846`) | `table.rs:835` | `NeverReadsTaken` in `MCBTreeDeep.cfg` |
| `insert_row_auto()` has no largest key when the last leaf was emptied (`table.rs:456`) | `execution/meta.rs:35` | `AutoKeyAlwaysFound` in `MCBTree.cfg` |
| A split halves the number of cells, not their space, and may make no room (`table.rs:632`) | the comment there | `SplitMakesRoom` with `RowSpace <- MixedRows`, `Preload <- MixedTable`, `PageSpace = 4073`, `InternalSpace = 11`, `PtrSpace = 2`, `Loaded = 14`, `MaxKey = 20` |
| A split internal node does not give back the space of the cell that goes up (`table.rs:737`) | `node.rs:17` | `RoomIsFreeSpace` in `MCBTreeDeep.cfg` |
| Splits never use free pages (`pager.rs:206`) | `docs/adr/12-free-pages-management.md` | `ReusesFreePages` in `MCPager.cfg` |
| An empty line ends the program (`repl.rs:18`) | `repl.rs:58` | `BlankLineIsAskedAgain` in `MCEngine.cfg` |

Of these the operator named behaves like the code; a property names some of them as exceptions.

| Code | Document | In |
|---|---|---|
| Strings are written in single quotes, and `"` is an invalid character (`lexer.rs`) | `README.md:48-49`, whose statements are refused | `NextToken` |
| A word does not end at an operator or a quote: `a>5` is refused, `5>a` is not (`lexer.rs:326`) | the comment `lexer.rs:315` | `ScanWord`; an exception of `ReadsAsWritten` |
| `TRUE` is a Boolean for the lexer and false for the parser (`parser.rs:548`) | `README.md:21`, `meta.rs:52` | `ParseLiteralExpr`; an exception of `ReadsAsWritten` |
| A delete without `where` panics in a debug build; a release build drops the next token, whatever it is (`parser.rs:692`) | the grammar `parser.rs:307`, the assertion at 692 | `ParseWhereClause`; an exception of `ReadsAsWritten`, and of `PanicsAreKnown` |
| A short write of a header that is no error leaves an open table whose pages go over its header (`table.rs:381`, `engine.rs:49`) | the steps at `engine.rs:37` | `NewTable`; `HeaderReadsBack` says that such a file is refused |
| Two strings compared in an inserted expression are in no order, `1 = 1.0` is false | `meta.rs:51` | `CompareLiterals` |
| What follows the semicolon of a statement is ignored, valid or not | the grammar comments of `parser.rs`, which know no more than one statement | `Ended` |

## 6. Not modelled

* Printer: the layout of output.
* Floats: their sums, differences and comparisons are exact, in hundredths; products,
  quotients, rounding, infinities and the bytes of a float are left out.
* The characters of a word, and characters the lexer knows no use for: a run of
  letters is a symbol, and any other character would be one more `Invalid`.
* In Session, the rows of a select (that is Select's matter), and two tables at a
  time (Engine's).
* What a save makes of a header that was written short: Session opens such a file as the write left it.
* What `.tables` and `.help` print.
* Eviction: the pager has none, and so has the model.
* A wrapped automatic key in a release build (`KeyData::add` after the
  largest key is 0 again): Session has it for a table of one leaf, where key 0
  is found or put in its place. A larger tree would get it in its last leaf; that is not
  in BTree, which has the debug build's panic.

## 7. Plan

Done, in this order: Pager and its proofs (everything rests on it), BTree,
SlottedPage, Select, Engine and its proofs; then the whole way from a line to
the bytes of a row (Lexer, Parser, Grammar, Values, RowBytes, TableFile, Prompt, Session), and the
proofs about Select, SlottedPage, BTree and the encodings.

What a next step would be:

1. A delete on the taken pages of BTree: its cursor and the tree share one
   pager, which joins Select and BTree below the level of rows.
2. BTree over Pager with crashes between statements, in one composition.
3. Proofs: that a line is read as the grammar says. The parser would have to be written with recursive functions first.
