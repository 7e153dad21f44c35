-------------------------------- MODULE BTree --------------------------------
(***************************************************************************)
(* The B+tree of one table (src/storage/table.rs) over its pages: one      *)
(* action per method of Table, so that the recursion of the code - a split *)
(* that splits the parent, a merge that underflows the parent - is a walk  *)
(* of pc, with the traversal path and the pages the suspended callers hold *)
(* as state.  The pager is the page store of module PageStore, with its    *)
(* taken pages and its free pages; a page that is read while it is taken   *)
(* panics, as the debug build does.                                        *)
(*                                                                         *)
(* Space is counted in units: a leaf cell of key k takes RowSpace[k], an   *)
(* internal cell InternalSpace, both with their cell pointer.  Values are  *)
(* left out, a cell moves with its key.  Path indices and cell numbers     *)
(* start at 1, and LEFTMOST_CHILD_CELL_IDX is 0, so that kids[i + 1] is    *)
(* the child of index i.                                                   *)
(***************************************************************************)
EXTENDS Naturals, Sequences, SequencesExt, Sums

CONSTANTS
  MaxKey,          \* largest key of the key type (u32::MAX or u64::MAX)
  RowSpace,        \* space of the leaf cell of every key
  InternalSpace,   \* space of an internal cell
  PageSpace,       \* PAGE_FREE_SPACE
  PtrSpace,        \* space of the pointer of a cell
  Null,            \* NULL_NODE_ID
  MaxPages,        \* bound: no insert begins when the file has as many pages
  Preload,         \* keys inserted, in order, before the client is free
  Fresh,           \* the client never inserts a key that is there
  Ascending,       \* the client inserts above the largest key only
  Deletable        \* keys the client deletes

Key == 0 .. MaxKey
Half == PageSpace \div 2

ASSUME BTreeAssumption ==
  /\ MaxKey \in Nat /\ PageSpace \in Nat /\ MaxPages \in Nat
  /\ RowSpace \in [Key -> Nat] /\ InternalSpace \in Nat /\ PtrSpace \in Nat
  /\ \A k \in Key : PtrSpace < RowSpace[k] /\ RowSpace[k] < Half
  /\ PtrSpace < InternalSpace /\ InternalSpace < Half
  /\ Null \notin Nat
  /\ Preload \in Seq(Key)
  /\ Fresh \in BOOLEAN /\ Ascending \in BOOLEAN /\ Deletable \subseteq Key

VARIABLES
  pages,           \* the registered pages, by id
  root,            \* Table.root_id
  num,             \* Pager.num_pages
  taken,           \* Pager.taken
  free,            \* ids on the free page list
  pc,              \* method that runs next; "idle" between operations
  path,            \* Path argument of that method
  arg,             \* key and child argument of that method
  held,            \* pages the suspended callers give back when it returns
  op,              \* operation of the client that runs, with its key
  reply,           \* answer to it, until the client has read it
  fault,           \* why the program panicked
  before,          \* auxiliary: rows when the running operation began
  loaded           \* how much of Preload is inserted

store == <<pages, root, num, taken, free>>
vars  == <<store, pc, path, arg, held, op, reply, fault, before, loaded>>

Space(n, k) == IF n.leaf THEN RowSpace[k] ELSE InternalSpace
SpaceOf(n)  == Total([i \in DOMAIN n.keys |-> Space(n, n.keys[i])])

(* room is total_free_space; gap is the space between the cell pointers    *)
(* and the cells, tracked for internal nodes only: a leaf's room is exact, *)
(* and then gap decides nothing but when to defragment.                    *)
Node(leaf, keys, kids, next) ==
  LET n == [leaf |-> leaf, keys |-> keys, kids |-> kids, next |-> next,
            room |-> PageSpace, gap |-> 0]
      left == PageSpace - SpaceOf(n)
  IN [n EXCEPT !.room = left, !.gap = IF leaf THEN 0 ELSE left]

Used(n)  == PageSpace - n.room

(* Mutant: an emptied page is left alone.                                  *)
UnderflowsNonEmpty(n) == Used(n) > 0 /\ Used(n) < Half
(* Less than half of a page is used: it is merged or rebalanced.           *)
Underflows(n) == Used(n) < Half

Cells(n) == Len(n.keys)
KeySet(n) == Range(n.keys)

(* Cells before the place of a key, as search_cell_leaf() finds it, and     *)
(* the index search_cell_internal() finds; the mutants take the other of   *)
(* the two comparisons.                                                    *)
BelowOrAt(n, k) == Cardinality({i \in DOMAIN n.keys : n.keys[i] <= k})
Below(n, k)     == Cardinality({i \in DOMAIN n.keys : n.keys[i] < k})
ChildBefore(n, k) == Cardinality({i \in DOMAIN n.keys : n.keys[i] < k})
ChildIdx(n, k)    == Cardinality({i \in DOMAIN n.keys : n.keys[i] <= k})

(* insert_cell(): the space is looked at before the key is.                *)
InsertCell(n, k, child) ==
  LET s == Space(n, k)
      fits == IF n.leaf THEN n.room >= s ELSE n.gap >= s
      exact == PageSpace - SpaceOf(n)
      m == IF fits \/ n.leaf THEN n ELSE [n EXCEPT !.gap = exact]
      p == Below(n, k) + 1
  IN IF ~fits /\ n.room < s THEN [res |-> "full", node |-> n]
     ELSE IF k \in KeySet(n) THEN [res |-> "exists", node |-> m]
     ELSE IF n.room < s THEN [res |-> "overflow", node |-> m]
     ELSE [res  |-> "ok",
           node |-> [m EXCEPT !.keys = InsertAt(@, p, k),
                              !.kids = IF n.leaf THEN @ ELSE InsertAt(@, p + 1, child),
                              !.room = @ - s,
                              !.gap  = IF n.leaf THEN @ ELSE @ - s]]

(* Mutants of DeleteCell: the space of the pointer is not given back; the  *)
(* child to the left of the deleted key goes.                              *)
DeleteCellNoPtr(n, i) ==
  IF i > Cells(n) \/ (i = 0 /\ Cells(n) = 0) THEN n
  ELSE LET c == IF i = 0 THEN 1 ELSE i IN
       [n EXCEPT !.keys = RemoveAt(@, c),
                 !.kids = IF n.leaf THEN @ ELSE RemoveAt(@, i + 1),
                 !.room = @ + Space(n, n.keys[c]) - PtrSpace,
                 !.gap  = IF n.leaf THEN @ ELSE @ + PtrSpace]

DeleteCellWrongChild(n, i) ==
  IF i > Cells(n) \/ (i = 0 /\ Cells(n) = 0) THEN n
  ELSE LET c == IF i = 0 THEN 1 ELSE i IN
       [n EXCEPT !.keys = RemoveAt(@, c),
                 !.kids = IF n.leaf THEN @ ELSE RemoveAt(@, c),
                 !.room = @ + Space(n, n.keys[c]),
                 !.gap  = IF n.leaf THEN @ ELSE @ + PtrSpace]

(* delete_cell(); index 0 is the leftmost child, whose place the child of  *)
(* the first cell takes.                                                   *)
DeleteCell(n, i) ==
  IF i > Cells(n) \/ (i = 0 /\ Cells(n) = 0) THEN n
  ELSE LET c == IF i = 0 THEN 1 ELSE i IN
       [n EXCEPT !.keys = RemoveAt(@, c),
                 !.kids = IF n.leaf THEN @ ELSE RemoveAt(@, i + 1),
                 !.room = @ + Space(n, n.keys[c]),
                 !.gap  = IF n.leaf THEN @ ELSE @ + PtrSpace]

(* Cells of a node as pairs of key and child, and their insertion one by   *)
(* one into another node; the first refusal ends it.                       *)
CellsOf(n) == [i \in DOMAIN n.keys |-> <<n.keys[i], IF n.leaf THEN Null ELSE n.kids[i + 1]>>]
InsertAll(n, cells) ==
  LET done[i \in 0 .. Len(cells)] ==
        IF i = 0 THEN [res |-> "ok", node |-> n]
        ELSE LET r == done[i - 1]
             IN IF r.res = "ok" THEN InsertCell(r.node, cells[i][1], cells[i][2]) ELSE r
  IN done[Len(cells)]

KeysOf(cells) == [i \in DOMAIN cells |-> cells[i][1]]
KidsOf(cells) == [i \in DOMAIN cells |-> cells[i][2]]

-----------------------------------------------------------------------------
(* Walks through a set of pages; an entry of a path is a page and the      *)
(* index of the child taken in it.  A walk that meets a page which is not  *)
(* registered ends there.                                                  *)
Entry(id, i) == [page |-> id, idx |-> i]

(* The way down that takes the child idx[id] of every page id.             *)
Descent(pgs, from, idx) ==
  LET walk[id \in DOMAIN pgs] ==
        LET kid == pgs[id].kids[idx[id] + 1]
        IN IF pgs[id].leaf THEN <<Entry(id, 0)>>
           ELSE <<Entry(id, idx[id])>> \o
                  (IF kid \in DOMAIN pgs THEN walk[kid] ELSE <<Entry(kid, 0)>>)
  IN IF from \in DOMAIN pgs THEN walk[from] ELSE <<Entry(from, 0)>>

(* traverse_to_key()                                                       *)
Traverse(pgs, k) == Descent(pgs, root, [id \in DOMAIN pgs |-> ChildIdx(pgs[id], k)])

(* traverse_to_key_level(): n entries on the way down and one for the page *)
(* it stops at, which it reads as an internal page.                        *)
TraverseLevel(pgs, k, n) ==
  LET walk[d \in 0 .. n] ==
        IF d = 0 THEN <<Entry(root, 0)>>
        ELSE LET w == walk[d - 1]
                 id == Last(w).page
             IN IF id \notin DOMAIN pgs THEN w
                ELSE LET i == ChildIdx(pgs[id], k)
                     IN Append(Front(w), Entry(id, i)) \o <<Entry(pgs[id].kids[i + 1], 0)>>
      end == Last(walk[n]).page
  IN IF end \notin DOMAIN pgs \/ pgs[end].leaf THEN walk[n]
     ELSE Append(Front(walk[n]), Entry(end, ChildIdx(pgs[end], k)))

(* The way insert_row_auto() goes down: always the last cell.              *)
Rightmost == Descent(pages, root, [id \in DOMAIN pages |-> Cells(pages[id])])

(* The way leftmost_key() goes down, and the leaf it ends at.              *)
Leftmost(pgs, from) == Descent(pgs, from, [id \in DOMAIN pgs |-> 0])
LeftmostLeaf(pgs, from) == Last(Leftmost(pgs, from)).page

(* Rows that find_row_by_key() finds.                                      *)
Found(k) == num > 0 /\ k \in KeySet(pages[Last(Traverse(pages, k)).page])
TreeRows == {k \in Key : Found(k)}

-----------------------------------------------------------------------------
Put(f, x, v) == [y \in DOMAIN f \cup {x} |-> IF y = x THEN v ELSE f[y]]
NoArg == [key |-> 0, child |-> Null]
NoOp  == [op |-> "none", key |-> 0]

Init ==
  /\ pages = [x \in {} |-> x] /\ root = 0 /\ num = 0 /\ taken = {} /\ free = {}
  /\ pc = "idle" /\ path = << >> /\ arg = NoArg /\ held = << >>
  /\ op = NoOp /\ reply = "none" /\ fault = "none" /\ before = {} /\ loaded = 0

Panic(why) ==
  /\ pc' = "panic" /\ fault' = why
  /\ UNCHANGED <<store, path, arg, held, reply>>

Answer(r) ==
  /\ pc' = "answered" /\ reply' = r
  /\ path' = << >> /\ arg' = NoArg
  /\ UNCHANGED <<held, fault>>

Goto(m, p, k, c) ==
  /\ pc' = m /\ path' = p /\ arg' = [key |-> k, child |-> c]
  /\ UNCHANGED <<held, reply, fault>>

(* The client of the table: first Preload, then any operation.             *)
Begin(o, k) == op' = [op |-> o, key |-> k] /\ before' = TreeRows
Inside == UNCHANGED <<op, before, loaded>>
Preloaded == loaded = Len(Preload) /\ UNCHANGED loaded

MayInsert(k) ==
  IF loaded < Len(Preload)
    THEN k = Preload[loaded + 1] /\ loaded' = loaded + 1
    ELSE /\ UNCHANGED loaded
         /\ num < MaxPages
         /\ Fresh => ~Found(k)
         /\ Ascending => \A j \in TreeRows : j < k

(* Inserting into an empty file makes page 0, a leaf, the root.            *)
InsertFirst(k) ==
  /\ num = 0
  /\ pages' = Put(pages, 0, Node(TRUE, <<k>>, << >>, Null))
  /\ root' = 0 /\ num' = 1 /\ UNCHANGED <<taken, free>>
  /\ Answer("ok")

(* insert_cell() into the leaf at the end of a path, and the split when it *)
(* is full.                                                                *)
InsertInLeaf(p, k) ==
  LET id == Last(p).page
      r  == InsertCell(pages[id], k, Null)
  IN /\ num > 0
     /\ IF r.res = "full"
          THEN Goto("split_leaf", p, k, Null) /\ UNCHANGED store
          ELSE /\ Answer(IF r.res = "ok" THEN "ok" ELSE "row_exists")
               /\ pages' = [pages EXCEPT ![id] = r.node]
               /\ UNCHANGED <<root, num, taken, free>>

InsertRow(k) ==
  /\ pc = "idle" /\ MayInsert(k)
  /\ Begin("insert", k)
  /\ InsertFirst(k) \/ InsertInLeaf(Traverse(pages, k), k)

InsertRowAuto ==
  /\ pc = "idle" /\ Preloaded /\ num < MaxPages
  /\ Begin("auto", 0)
  /\ \/ InsertFirst(0)
     \/ LET p == Rightmost
            last == pages[Last(p).page]
        IN /\ num > 0
           /\ IF \E e \in Range(Front(p)) : Cells(pages[e.page]) = 0 THEN Panic("underflow")
              ELSE IF Cells(last) = 0 THEN Panic("no_cell")
              ELSE IF Last(last.keys) = MaxKey THEN Panic("overflow")
              ELSE InsertInLeaf(p, Last(last.keys) + 1)

-----------------------------------------------------------------------------
(* split_page(): the left page keeps the first half of the cells; the      *)
(* first cell that moves gives the key for the parent and, in an internal  *)
(* node, its child becomes the leftmost child of the right page.           *)
KeptBySplit(n) == (Cells(n) + 1) \div 2

Split(n) ==
  LET h     == KeptBySplit(n)
      right == Node(n.leaf, SubSeq(n.keys, IF n.leaf THEN h + 1 ELSE h + 2, Cells(n)),
                    SubSeq(n.kids, h + 2, Len(n.kids)), n.next)
  IN [first |-> n.keys[h + 1],
      right |-> right,
      left  |-> [n EXCEPT !.keys = SubSeq(@, 1, h),
                          !.kids = IF n.leaf THEN @ ELSE SubSeq(@, 1, h + 1),
                          !.next = num,
                          !.room = @ + SpaceOf(right),
                          !.gap  = IF n.leaf THEN @ ELSE @ + PtrSpace * (Cells(n) - h)]]

(* The right page of a split is registered behind the last page.           *)
PutSplit(id, left, right) ==
  /\ pages' = Put([pages EXCEPT ![id] = left], num, right)
  /\ num' = num + 1
  /\ UNCHANGED <<root, taken, free>>

(* split_insert_leaf()                                                     *)
SplitInsertLeaf ==
  /\ pc = "split_leaf" /\ Inside
  /\ LET id == Last(path).page
         s  == Split(pages[id])
         toLeft == arg.key < s.first
         r  == InsertCell(IF toLeft THEN s.left ELSE s.right, arg.key, Null)
     IN IF arg.key \in {s.first, Last(s.left.keys)}
          THEN PutSplit(id, s.left, s.right) /\ Answer("row_exists")
        ELSE IF r.res # "ok"
          THEN Panic(r.res)
        ELSE /\ PutSplit(id, IF toLeft THEN r.node ELSE s.left,
                             IF toLeft THEN s.right ELSE r.node)
             /\ Goto("to_parent", path, s.first, num)

(* insert_to_parent()                                                      *)
InsertToParent ==
  /\ pc = "to_parent" /\ Inside
  /\ LET child == Last(path).page
         up == Front(path)
     IN IF up = << >>
          THEN \E id \in IF free = {} THEN {num} ELSE free :
                 /\ pages' = Put(pages, id, Node(FALSE, <<arg.key>>, <<child, arg.child>>, Null))
                 /\ root' = id
                 /\ num' = IF free = {} THEN num + 1 ELSE num
                 /\ free' = free \ {id}
                 /\ UNCHANGED taken
                 /\ Answer("ok")
          ELSE LET id == Last(up).page
                   r  == InsertCell(pages[id], arg.key, arg.child)
               IN IF r.res = "full"
                    THEN Goto("split_internal", up, arg.key, arg.child) /\ UNCHANGED store
                  ELSE IF r.res = "overflow"
                    THEN Panic("overflow")
                  ELSE /\ pages' = [pages EXCEPT ![id] = r.node]
                       /\ UNCHANGED <<root, num, taken, free>>
                       /\ Answer(IF r.res = "ok" THEN "ok" ELSE "row_exists")

(* split_insert_internal(): the new cell goes right, or else its child is  *)
(* taken for the leftmost one of the right page and its key goes up.       *)
SplitInsertInternal ==
  /\ pc = "split_internal" /\ Inside
  /\ LET id == Last(path).page
         n  == pages[id]
         s  == Split(n)
         toRight == arg.key >= s.first
         r  == IF toRight THEN InsertCell(s.right, arg.key, arg.child)
               ELSE InsertCell([s.right EXCEPT !.kids[1] = arg.child],
                               s.first, s.right.kids[1])
     IN IF Cells(n) < 2 THEN Panic("no_cell")
        ELSE IF r.res # "ok" THEN Panic(r.res)
        ELSE /\ PutSplit(id, s.left, r.node)
             /\ Goto("to_parent", path, IF toRight THEN s.first ELSE arg.key, num)

-----------------------------------------------------------------------------
(* delete_row_by_key()                                                     *)
DeleteRow(k) ==
  /\ pc = "idle" /\ Preloaded /\ k \in Deletable
  /\ Begin("delete", k)
  /\ IF ~Found(k) THEN Answer("not_found") /\ UNCHANGED store
     ELSE LET p  == Traverse(pages, k)
              id == Last(p).page
              n  == DeleteCell(pages[id], Below(pages[id], k) + 1)
          IN /\ pages' = [pages EXCEPT ![id] = n]
             /\ UNCHANGED <<root, num, taken, free>>
             /\ IF Underflows(n) THEN Goto("rebalance_leaves", p, 0, Null)
                ELSE Answer("deleted")

GivenBack == {h.id : h \in Range(held)}

(* Mutants of Return: the pages given back stay on the list of taken ones; *)
(* the callers are returned to for ever.                                   *)
ReturnStaysTaken ==
  /\ pc = "return" /\ Inside
  /\ pages' = [id \in DOMAIN pages \cup GivenBack |->
                 IF id \in GivenBack
                   THEN (CHOOSE h \in Range(held) : h.id = id).node ELSE pages[id]]
  /\ held' = << >>
  /\ pc' = "answered" /\ reply' = "deleted" /\ path' = << >> /\ arg' = NoArg
  /\ UNCHANGED <<root, num, taken, free, fault>>

ReturnAgain ==
  /\ pc = "return" /\ Inside
  /\ UNCHANGED <<store, pc, path, arg, held, reply, fault>>

(* Every method of a delete has returned: the pages the callers hold are   *)
(* registered back.                                                        *)
Return ==
  /\ pc = "return" /\ Inside
  /\ pages' = [id \in DOMAIN pages \cup GivenBack |->
                 IF id \in GivenBack
                   THEN (CHOOSE h \in Range(held) : h.id = id).node ELSE pages[id]]
  /\ taken' = taken \ GivenBack
  /\ held' = << >>
  /\ pc' = "answered" /\ reply' = "deleted" /\ path' = << >> /\ arg' = NoArg
  /\ UNCHANGED <<root, num, free, fault>>

(* The client has its answer and may call again.                           *)
Read ==
  /\ pc = "answered"
  /\ pc' = "idle" /\ op' = NoOp /\ reply' = "none" /\ before' = {}
  /\ UNCHANGED <<store, path, arg, held, fault, loaded>>

(* delete_internal_cell(): the leftmost child gone, the key in the parent  *)
(* becomes that of the first cell.                                         *)
DeleteInternalCell ==
  /\ pc = "delete_internal" /\ Inside
  /\ LET id == Last(path).page
         i  == Last(path).idx
         n  == pages[id]
         m  == DeleteCell(n, i)
         fix == i = 0 /\ Cells(n) > 0 /\ Len(path) > 1
         over == Last(Front(path))
     IN IF fix /\ over.idx = 0 THEN Panic("no_cell")
        ELSE /\ pages' = [p \in DOMAIN pages |->
                            IF p = id THEN m
                            ELSE IF fix /\ p = over.page
                              THEN [pages[p] EXCEPT !.keys[over.idx] = n.keys[1]]
                            ELSE pages[p]]
             /\ UNCHANGED <<root, num, taken, free, held, reply, fault, arg>>
             /\ IF Underflows(m)
                  THEN pc' = "rebalance_internals" /\ UNCHANGED path
                  ELSE pc' = "return" /\ path' = << >>

(* rebalance_leaves() and rebalance_internals(): the node at the end of    *)
(* the path takes all cells of its right sibling, or as many as make both  *)
(* equal.  The leftmost child of an internal sibling moves as a cell with  *)
(* the smallest key below it.                                              *)
Moving(rest, sib) ==
  IF sib.leaf THEN CellsOf(sib)
  ELSE <<<<Head(rest[LeftmostLeaf(rest, sib.kids[1])].keys), sib.kids[1]>>>> \o CellsOf(sib)

(* Mutant: the page the sibling keeps has no sibling of its own.           *)
RemainderAlone(sib, cells) ==
  Node(sib.leaf, KeysOf(IF sib.leaf THEN cells ELSE Tail(cells)),
       IF sib.leaf THEN << >> ELSE KidsOf(cells), Null)

(* The cells of the sibling that stay with it, as a page; the first of     *)
(* them gives the key for the parent.                                      *)
Remainder(sib, cells) ==
  Node(sib.leaf, KeysOf(IF sib.leaf THEN cells ELSE Tail(cells)),
       IF sib.leaf THEN << >> ELSE KidsOf(cells), sib.next)

Rebalance ==
  /\ Inside
  /\ LET id   == Last(path).page
         up   == Front(path)
         node == pages[id]
         sid  == node.next
         sib  == pages[sid]
         rest == Restrict(pages, DOMAIN pages \ {id, sid})
         parent == Last(up)
         siblings == parent.idx = 0 \/ parent.idx < Cells(rest[parent.page])
         merge == Used(node) + Used(sib) < Half
         share == ~merge /\ Cells(node) < Cells(sib)
         total == Cells(node) + Cells(sib)
         goal  == (total + 1) \div 2
         cells == Moving(rest, sib)
         give  == IF merge THEN Len(cells) ELSE goal - Cells(node)
         grown == InsertAll(node, SubSeq(cells, 1, give))
         left  == SubSeq(cells, give + 1, Len(cells))
         small == Remainder(sib, left)
         \* where the parent of the sibling points to it
         way   == IF siblings THEN Append(Front(up), Entry(parent.page, parent.idx + 1))
                  ELSE TraverseLevel(rest, Head(sib.keys), Len(up))
         spot  == Last(way)
         why   ==
           IF up = << >> THEN "no_parent"
           ELSE IF Cells(rest[parent.page]) = 0 THEN "underflow"
           ELSE IF ~merge /\ ~share THEN "none"
           ELSE IF ~node.leaf /\ LET leaf == LeftmostLeaf(rest, sib.kids[1]) IN
                          leaf \notin DOMAIN rest \/ rest[leaf].keys = << >> THEN "no_cell"
                ELSE IF grown.res # "ok" /\ ~(node.leaf /\ merge) THEN grown.res
                ELSE IF ~siblings /\ Cells(sib) = 0 THEN "no_cell"
                ELSE IF spot.page \notin DOMAIN rest THEN "taken"
                ELSE IF share /\ spot.idx = 0 THEN "no_cell"
                ELSE "none"
     IN IF sid = Null
          THEN pc' = "return" /\ UNCHANGED <<store, path, arg, held, reply, fault>>
        ELSE IF why # "none"
          THEN Panic(why)
        ELSE IF merge /\ grown.res # "ok"       \* the error returns, the pages stay taken
          THEN /\ pages' = rest
               /\ taken' = taken \cup {id, sid}
               /\ UNCHANGED <<root, num, free>>
               /\ Answer(grown.res)
        ELSE IF merge
          THEN /\ pages' = rest
               /\ taken' = taken \cup {id, sid}
               /\ held' = Append(held, [id |-> id, node |-> [grown.node EXCEPT !.next = sib.next]])
               /\ pc' = "delete_internal"
               /\ path' = IF siblings THEN way
                          ELSE Append(Front(way), Entry(spot.page, 0))
               /\ UNCHANGED <<root, num, free, arg, reply, fault>>
        ELSE /\ pages' = IF ~share THEN pages
                         ELSE [[pages EXCEPT ![id] = grown.node, ![sid] = small]
                                 EXCEPT ![spot.page].keys[spot.idx] = Head(left)[1]]
             /\ pc' = "return" /\ path' = << >>
             /\ UNCHANGED <<root, num, taken, free, arg, held, reply, fault>>

RebalanceLeaves    == pc = "rebalance_leaves" /\ Rebalance
RebalanceInternals == pc = "rebalance_internals" /\ Rebalance

(* flush(): what was taken and not given back becomes free.                *)
Flush ==
  /\ pc = "idle" /\ Preloaded
  /\ taken # {}
  /\ free' = free \cup taken
  /\ taken' = {}
  /\ UNCHANGED <<pages, root, num, pc, path, arg, held, op, reply, fault, before>>

StayPanicked == pc = "panic" /\ UNCHANGED vars

Method ==
  \/ SplitInsertLeaf \/ InsertToParent \/ SplitInsertInternal
  \/ RebalanceLeaves \/ DeleteInternalCell \/ RebalanceInternals
  \/ Return \/ Read

Next ==
  \/ \E k \in Key : InsertRow(k) \/ DeleteRow(k)
  \/ InsertRowAuto \/ Flush
  \/ Method
  \/ StayPanicked

(* A method that was called runs on: the program has one thread.           *)
Spec == Init /\ [][Next]_vars /\ WF_vars(Method)

-----------------------------------------------------------------------------
(* Types; a page is registered, taken or free, and never two of them.      *)
NodeOK(n) ==
  /\ n.leaf \in BOOLEAN
  /\ n.keys \in Seq(Key) /\ n.kids \in Seq(Nat)
  /\ Len(n.kids) = IF n.leaf THEN 0 ELSE Cells(n) + 1
  /\ n.next \in Nat \cup {Null}
  /\ n.room \in 0 .. PageSpace /\ n.gap \in 0 .. PageSpace

TypeOK ==
  /\ root \in Nat /\ num \in Nat
  /\ \A id \in DOMAIN pages : NodeOK(pages[id])
  /\ DOMAIN pages \cup taken \cup free = 0 .. num - 1
  /\ DOMAIN pages \cap taken = {} /\ DOMAIN pages \cap free = {} /\ taken \cap free = {}
  /\ pc \in {"idle", "answered", "panic", "return", "split_leaf", "to_parent", "split_internal",
             "rebalance_leaves", "delete_internal", "rebalance_internals"}
  /\ reply \in {"none", "ok", "row_exists", "deleted", "not_found"}

AtRest == pc = "answered" /\ num > 0

(* The places of the tree where a page points to a child, and how many     *)
(* levels a page has below it.                                             *)
Places == UNION {{[page |-> id, nth |-> i] : i \in DOMAIN pages[id].kids} : id \in DOMAIN pages}
ChildAt(p) == pages[p.page].kids[p.nth]
Height(id) == Len(Leftmost(pages, id)) - 1

(* The keys a cursor yields: from the leftmost leaf along the sibling      *)
(* pointers, up to the first leaf without cells.                           *)
Scan ==
  LET from[id \in DOMAIN pages] ==
        LET n == pages[id] IN
        IF n.keys = << >> \/ n.next = Null THEN n.keys ELSE n.keys \o from[n.next]
  IN from[LeftmostLeaf(pages, root)]

(* Between operations the registered pages are a tree below the root: all  *)
(* but the root have one place in a parent, and a child has one level less *)
(* below it, so that all leaves are on one level.  No split, merge or      *)
(* error on the way has lost a page or kept two pointers to it.            *)
TreeOwnsItsPages ==
  AtRest =>
    /\ root \in DOMAIN pages
    /\ \A p \in Places : ChildAt(p) \in DOMAIN pages
    /\ \A id \in DOMAIN pages :
         IF id = root THEN \A p \in Places : ChildAt(p) # id
         ELSE \E p \in Places : \A q \in Places : ChildAt(q) = id <=> q = p
    /\ \A p \in Places : Height(p.page) = Height(ChildAt(p)) + 1

(* The sibling pointers of every level, which scans, merges and rebalances *)
(* follow, are the order of the tree: to the next child of the parent, and *)
(* from its last child to the first one of the parent's own sibling.       *)
SiblingsInOrder ==
  AtRest =>
    /\ pages[root].next = Null
    /\ \A p \in Places :
         LET n == pages[p.page] IN
         pages[ChildAt(p)].next =
           IF p.nth < Len(n.kids) THEN n.kids[p.nth + 1]
           ELSE IF n.next = Null THEN Null ELSE pages[n.next].kids[1]

(* A scan of the leaves yields strictly rising keys, and a search from the *)
(* root finds just the keys a scan yields: the separators of the internal  *)
(* nodes are right whatever splits, merges and rebalances made of them.    *)
SearchAgreesWithScan ==
  AtRest =>
    LET scan == Scan IN
    /\ \A i \in 1 .. Len(scan) - 1 : scan[i] < scan[i + 1]
    /\ TreeRows = Range(scan)

(* Only the last leaf can be empty: a cursor takes an empty leaf for the   *)
(* end of the table.                                                       *)
OnlyLastLeafEmpty ==
  AtRest => \A id \in DOMAIN pages :
    pages[id].leaf /\ Cells(pages[id]) = 0 => pages[id].next = Null

(* The space a page says is free is never more than what its cells leave,  *)
(* and for a leaf it is just that.                                         *)
RoomNeverOverstated ==
  AtRest => \A id \in DOMAIN pages :
    LET exact == PageSpace - SpaceOf(pages[id]) IN
    IF pages[id].leaf THEN pages[id].room = exact ELSE pages[id].room <= exact

(* The table implements the set of rows: every operation changes the rows  *)
(* found by search, and answers, as RowSet says, or panics.                *)
R == INSTANCE RowSet WITH
       rows    <- IF pc \in {"idle", "answered"} THEN TreeRows ELSE before,
       reply   <- [op |-> IF reply = "none" THEN "none" ELSE op.op,
                   key |-> IF reply = "none" THEN 0 ELSE op.key, res |-> reply],
       aborted <- pc = "panic"
ImplementsRowSet == R!Spec

(* Every operation ends: the splits and merges it sets off reach the root  *)
(* at the latest.                                                          *)
OperationsEnd == pc # "idle" ~> pc \in {"idle", "panic"}

-----------------------------------------------------------------------------
(* What the code or its documents say of the table and some client can     *)
(* make untrue.                                                            *)

(* table.rs:835: the walk to the sibling's parent does not read the        *)
(* sibling, which is taken.                                                *)
NeverReadsTaken == fault # "taken"

(* A second insert of a key is refused with RowExists (engine.rs:327).     *)
DuplicateIsRefused == fault # "exists"

(* "An auto primary key can be left out; it becomes largest key + 1."      *)
(* (meta.rs:35)                                                            *)
AutoKeyAlwaysFound == fault # "no_cell"

(* "Shouldn't be page full" (table.rs:632)                                 *)
SplitMakesRoom == fault # "full"

(* "Total free space (needed because deletion fragments space)" (node.rs)  *)
RoomIsFreeSpace ==
  AtRest => \A id \in DOMAIN pages : pages[id].room = PageSpace - SpaceOf(pages[id])
=============================================================================
