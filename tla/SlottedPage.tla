----------------------------- MODULE SlottedPage -----------------------------
(***************************************************************************)
(* A page of the B+tree as it lies in its 4096 bytes (src/storage/node.rs, *)
(* cells from cell.rs): the cell pointers grow from the front, in the      *)
(* order of the keys, the cells grow from the back, in any order.  A       *)
(* deleted cell leaves a hole; an insert that does not fit between the two *)
(* areas, but would with the holes, packs the cells first.                 *)
(*                                                                         *)
(* A cell is its key and its size: the record, or the child of an internal *)
(* node, moves with it.  The client is the table: it splits a page that    *)
(* was full and goes on with either half, and it changes the key of a cell *)
(* of an internal node to another one between the same neighbours.         *)
(***************************************************************************)
EXTENDS Sums, Sequences, SequencesExt

CONSTANTS
  Key, Size,           \* keys, and sizes of a cell without its pointer
  PageSize,            \* PAGE_SIZE
  HeaderSize,          \* OFF_PTRS
  PtrSize,             \* size of a cell pointer
  InternalCell         \* size of the cells of an internal node

ASSUME SlottedPageAssumption ==
  /\ Key \subseteq Nat /\ Size \subseteq Nat \ {0}
  /\ PageSize \in Nat /\ HeaderSize \in Nat /\ PtrSize \in Nat \ {0}
  /\ HeaderSize < PageSize
  /\ InternalCell \in Size

VARIABLES
  leaf,                \* the page is a leaf, not an internal node
  page,                \* the page
  reply                \* answer to the last call, or how it panicked

vars == <<leaf, page, reply>>

(* ptrs: the cell pointers; mem: the cells they can still read, by offset; *)
(* back: free_space_ptr; room: total_free_space.                           *)
NewPage == [ptrs |-> << >>, mem |-> << >>, back |-> PageSize, room |-> PageSize - HeaderSize]

NumCells(p) == Len(p.ptrs)
PtrsEnd(p) == HeaderSize + PtrSize * NumCells(p)
Cell(p, i) == p.mem[p.ptrs[i]]
SizeOf(p, ptrs) == Total([o \in Range(ptrs) |-> p.mem[o].size])
CellSpace(p) == SizeOf(p, p.ptrs)

(* Bytes lo .. hi - 1 are written: a cell that had a byte there is gone.   *)
Overwrite(mem, lo, hi) ==
  [o \in {o \in DOMAIN mem : o + mem[o].size <= lo \/ hi <= o} |-> mem[o]]

WriteCell(mem, o, cell) ==
  LET m == Overwrite(mem, o, o + cell.size)
  IN [x \in DOMAIN m \cup {o} |-> IF x = o THEN cell ELSE m[x]]

(* search_cell_leaf() and search_cell_internal(): binary search for the    *)
(* first cell, counted from 0, that is in a set of cells; the number of    *)
(* cells when there is none.                                               *)
Search(p, set) ==
  LET n == NumCells(p)
      find[w \in (0 .. n) \X (0 .. n)] ==
        LET l == w[1]
            r == w[2]
            m == l + (r - l) \div 2
        IN IF l >= r THEN l ELSE IF m + 1 \in set THEN find[<<l, m>>] ELSE find[<<m + 1, r>>]
  IN find[<<0, n>>]

(* Mutant: the place of a key that is there is the one behind it.          *)
SearchBehind(p, k) == Search(p, {i \in DOMAIN p.ptrs : Cell(p, i).key > k})

SearchCellLeaf(p, k) == Search(p, {i \in DOMAIN p.ptrs : Cell(p, i).key >= k})

(* 0 stands for LEFTMOST_CHILD_CELL_IDX, i + 1 for cell i.                 *)
SearchCellInternal(p, k) == Search(p, {i \in DOMAIN p.ptrs : Cell(p, i).key > k})

(* A cell of p in front of those that q has been given back already.      *)
PackCell(q, cell) ==
  LET o == q.back - cell.size
  IN [ptrs |-> InsertAt(q.ptrs, 1, o), mem |-> WriteCell(q.mem, o, cell), back |-> o, room |-> q.room]

(* The page after the last k cells of p are put back, for every k.         *)
Packed(p, empty) ==
  LET packed[k \in 0 .. NumCells(p)] ==
        IF k = 0 THEN empty ELSE PackCell(packed[k - 1], Cell(p, NumCells(p) + 1 - k))
  IN packed

(* Mutant: free_space_ptr is not reset before the cells are put back.      *)
DefragmentNoReset(p) ==
  Packed(p, [NewPage EXCEPT !.room = p.room, !.back = p.back])[NumCells(p)]

(* defragment(): the cells are put back to back, the last one behind.      *)
Defragment(p) == Packed(p, [NewPage EXCEPT !.room = p.room])[NumCells(p)]

(* A new cell, with its pointer at place i of the pointers.                *)
PutCell(p, i, cell) ==
  LET o == p.back - cell.size
  IN [ptrs |-> InsertAt(p.ptrs, i, o),
      mem  |-> WriteCell(Overwrite(p.mem, HeaderSize, PtrsEnd(p) + PtrSize), o, cell),
      back |-> o,
      room |-> p.room - (cell.size + PtrSize)]

(* Mutant: the page is full when the gap is too small, holes or not.       *)
InsertCellNoPack(p, cell) ==
  LET i == SearchCellLeaf(p, cell.key) + 1
  IN IF p.back - PtrsEnd(p) < cell.size + PtrSize THEN [res |-> "full", page |-> p]
     ELSE IF i <= NumCells(p) /\ Cell(p, i).key = cell.key THEN [res |-> "exists", page |-> p]
     ELSE [res |-> "ok", page |-> PutCell(p, i, cell)]

(* insert_cell(): the space is looked at before the key is, and is taken   *)
(* from total_free_space last.                                             *)
InsertCell(p, cell) ==
  LET need == cell.size + PtrSize
      fits == p.back - PtrsEnd(p) >= need
      q    == IF fits THEN p ELSE Defragment(p)
      i    == SearchCellLeaf(q, cell.key) + 1
      there == i <= NumCells(q) /\ Cell(q, i).key = cell.key
  IN IF ~fits /\ p.room < need THEN [res |-> "full", page |-> p]
     ELSE IF there THEN [res |-> "exists", page |-> q]
     ELSE IF p.room < need THEN [res |-> "overflow", page |-> p]
     ELSE [res |-> "ok", page |-> PutCell(q, i, cell)]

(* Mutant: a cell that leaves gives back only its own bytes.               *)
DeleteCellNoPtr(p, i) ==
  [ptrs |-> RemoveAt(p.ptrs, i),
   mem  |-> [o \in DOMAIN p.mem \ {p.ptrs[i]} |-> p.mem[o]],
   back |-> p.back,
   room |-> p.room + Cell(p, i).size]

(* delete_cell(); the leftmost child of an internal node is replaced by    *)
(* that of cell 1, which is then deleted.                                  *)
DeleteCell(p, i) ==
  [ptrs |-> RemoveAt(p.ptrs, i),
   mem  |-> [o \in DOMAIN p.mem \ {p.ptrs[i]} |-> p.mem[o]],
   back |-> p.back,
   room |-> p.room + PtrSize + Cell(p, i).size]

(* set_cell_key(): the cell stays where it lies.                           *)
ChangeKey(p, i, k) ==
  [ptrs |-> p.ptrs,
   mem  |-> [p.mem EXCEPT ![p.ptrs[i]] = [key |-> k, size |-> @.size]],
   back |-> p.back,
   room |-> p.room]

(* The cells from place i on, inserted one by one into a new page, as      *)
(* split_page() and the rebalancing methods do; the page after k of them.  *)
Built(p, i) ==
  LET built[k \in 0 .. NumCells(p) + 1 - i] ==
        IF k = 0 THEN NewPage ELSE InsertCell(built[k - 1], Cell(p, i + k - 1)).page
  IN built
Rebuilt(p, i) == Built(p, i)[NumCells(p) + 1 - i]

(* Mutant: the space of one cell that stays is given back, too.            *)
KeptLeftOneMore(p) ==
  LET h == (NumCells(p) + 1) \div 2
      gone == SubSeq(p.ptrs, h, NumCells(p))
      kept == SubSeq(p.ptrs, 1, h)
  IN [ptrs |-> kept, mem |-> [o \in Range(kept) |-> p.mem[o]], back |-> p.back,
      room |-> p.room + SizeOf(p, gone) + PtrSize * Len(gone)]

(* split_page(): what is left of the left page, and the right page.  The   *)
(* first cell that moves is not transferred in an internal node.           *)
KeptLeft(p) ==
  LET h == (NumCells(p) + 1) \div 2
      gone == SubSeq(p.ptrs, IF leaf THEN h + 1 ELSE h + 2, NumCells(p))
      kept == SubSeq(p.ptrs, 1, h)
  IN [ptrs |-> kept, mem |-> [o \in Range(kept) |-> p.mem[o]], back |-> p.back,
      room |-> p.room + SizeOf(p, gone) + PtrSize * Len(gone)]

MovedRight(p) ==
  LET h == (NumCells(p) + 1) \div 2 IN Rebuilt(p, IF leaf THEN h + 1 ELSE h + 2)

-----------------------------------------------------------------------------
Init == leaf \in BOOLEAN /\ page = NewPage /\ reply = "none"

Running == reply # "overflow"

Insert(k, s) ==
  /\ Running
  /\ leaf \/ s = InternalCell
  /\ LET r == InsertCell(page, [key |-> k, size |-> s])
     IN page' = r.page /\ reply' = r.res

Delete(i) ==
  /\ Running
  /\ i \in DOMAIN page.ptrs
  /\ page' = DeleteCell(page, i) /\ reply' = "ok"

SetCellKey(i, k) ==
  /\ Running /\ ~leaf
  /\ i \in DOMAIN page.ptrs
  /\ i > 1 => Cell(page, i - 1).key < k
  /\ i < NumCells(page) => k < Cell(page, i + 1).key
  /\ page' = ChangeKey(page, i, k) /\ reply' = "ok"

(* A full page is split.                                                   *)
Split ==
  /\ reply = "full" /\ NumCells(page) > 1
  /\ page' \in {KeptLeft(page), MovedRight(page)}
  /\ reply' = "ok"

(* A sibling takes the first cells; the rest goes to a new page.           *)
GiveFirst(i) ==
  /\ Running
  /\ i \in 2 .. NumCells(page)
  /\ page' = Rebuilt(page, i) /\ reply' = "ok"

StayPanicked == reply = "overflow" /\ UNCHANGED <<page, reply>>

Next ==
  /\ \/ \E k \in Key, s \in Size : Insert(k, s)
     \/ \E i \in DOMAIN page.ptrs : Delete(i) \/ GiveFirst(i)
     \/ \E i \in DOMAIN page.ptrs, k \in Key : SetCellKey(i, k)
     \/ Split \/ StayPanicked
  /\ UNCHANGED leaf

Spec == Init /\ [][Next]_vars

-----------------------------------------------------------------------------
TypeOK ==
  /\ leaf \in BOOLEAN
  /\ page.ptrs \in Seq(HeaderSize .. PageSize - 1)
  /\ \A o \in DOMAIN page.mem : page.mem[o] \in [key : Key, size : Size]
  /\ page.back \in HeaderSize .. PageSize
  /\ page.room \in 0 .. PageSize - HeaderSize
  /\ reply \in {"none", "ok", "exists", "full", "overflow"}

(* No write has damaged a cell: every pointer leads to a cell of its own,  *)
(* which lies in the cell area, behind the pointers, and the keys rise     *)
(* along the pointers.                                                     *)
CellsIntact ==
  /\ PtrsEnd(page) <= page.back
  /\ IsInjective(page.ptrs) /\ Range(page.ptrs) = DOMAIN page.mem
  /\ \A o \in DOMAIN page.mem : page.back <= o /\ o + page.mem[o].size <= PageSize
  /\ \A i \in 1 .. NumCells(page) - 1 : Cell(page, i).key < Cell(page, i + 1).key

(* What total_free_space says is free can be used: a leaf has just as many *)
(* bytes left, an internal node at least as many.                          *)
FreeSpace(p) == PageSize - PtrsEnd(p) - CellSpace(p)
RoomIsThere ==
  IF leaf THEN page.room = FreeSpace(page) ELSE page.room <= FreeSpace(page)

(* The two binary searches find what their comments say: the place of the  *)
(* first key that is not smaller, and the last cell whose key is not       *)
(* larger.                                                                 *)
KeysOf(p) == {Cell(p, i).key : i \in DOMAIN p.ptrs}
SearchesFind ==
  \A k \in Key :
    /\ SearchCellLeaf(page, k) = Cardinality({j \in KeysOf(page) : j < k})
    /\ SearchCellInternal(page, k) = Cardinality({j \in KeysOf(page) : j <= k})

(* A leaf is a map from keys to cells: where its cells lie, what holes     *)
(* there are and when it packs them makes no difference to any answer.     *)
(* An internal node is none: its keys are changed in place, and after a    *)
(* split it is full too early.                                             *)
SizeByKey(p) ==
  [k \in KeysOf(p) |-> Cell(p, CHOOSE i \in DOMAIN p.ptrs : Cell(p, i).key = k).size]

M == INSTANCE CellMap WITH
       cells <- IF leaf THEN SizeByKey(page) ELSE [k \in {} |-> 0],
       reply <- IF leaf THEN reply ELSE "none",
       Capacity <- PageSize - HeaderSize
ImplementsCellMap == M!Spec
=============================================================================
