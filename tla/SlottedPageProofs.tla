-------------------------- MODULE SlottedPageProofs --------------------------
(***************************************************************************)
(* Proofs about SlottedPage: every page the code makes is laid out as it   *)
(* should be, for every page size, every set of keys and every set of cell *)
(* sizes.                                                                  *)
(***************************************************************************)
EXTENDS SlottedPage, Induction

-----------------------------------------------------------------------------
(* The inductive invariant: the layout of a page, part by part.            *)
Cells == [key : Key, size : Size]
Sizes(p) == [o \in DOMAIN p.mem |-> p.mem[o].size]

Pointers(p) ==
  /\ p.ptrs \in Seq(Nat)
  /\ \A i \in 1 .. NumCells(p) : p.ptrs[i] \in DOMAIN p.mem
  /\ \A o \in DOMAIN p.mem : \E i \in 1 .. NumCells(p) : p.ptrs[i] = o
  /\ \A i, j \in 1 .. NumCells(p) : i < j => p.ptrs[i] # p.ptrs[j]

Placed(p) ==
  /\ p.back \in Nat /\ p.back <= PageSize
  /\ \A o \in DOMAIN p.mem :
       o \in Nat /\ p.mem[o] \in Cells /\ p.back <= o /\ o + p.mem[o].size <= PageSize
  /\ \A o, u \in DOMAIN p.mem : o < u => o + p.mem[o].size <= u

KeysRise(p) ==
  \A i, j \in 1 .. NumCells(p) : i < j => Cell(p, i).key < Cell(p, j).key

Layout(p) ==
  /\ Pointers(p) /\ Placed(p) /\ KeysRise(p)
  /\ Total(Sizes(p)) <= PageSize - p.back

Contents(p) == {p.mem[o] : o \in DOMAIN p.mem}

-----------------------------------------------------------------------------
(* A page has finitely many cells, and their sizes have a sum.             *)
LEMMA FiniteCells ==
  ASSUME NEW p, Pointers(p), Placed(p)
  PROVE  /\ NumCells(p) \in Nat
         /\ IsFiniteSet(DOMAIN p.mem)
         /\ DOMAIN Sizes(p) = DOMAIN p.mem
         /\ \A o \in DOMAIN p.mem : Sizes(p)[o] = p.mem[o].size /\ p.mem[o].size \in Nat
         /\ Total(Sizes(p)) \in Nat
<1>1. NumCells(p) \in Nat
  BY LenProperties DEF Pointers, NumCells
<1>2. IsFiniteSet(DOMAIN p.mem)
  <2> DEFINE n == NumCells(p)
             g == [i \in 1 .. n |-> p.ptrs[i]]
  <2>1. g \in Surjection(1 .. n, DOMAIN p.mem)
    <3>1. g \in [1 .. n -> DOMAIN p.mem]
      BY DEF Pointers
    <3>2. \A o \in DOMAIN p.mem : \E i \in 1 .. n : g[i] = o
      BY DEF Pointers
    <3> HIDE DEF g, n
    <3> QED BY <3>1, <3>2 DEF Surjection
  <2>2. IsFiniteSet(1 .. n)
    BY <1>1, FS_Interval
  <2> HIDE DEF g, n
  <2> QED BY <2>1, <2>2, FS_Surjection
<1>3. DOMAIN Sizes(p) = DOMAIN p.mem
  BY DEF Sizes
<1>4. \A o \in DOMAIN p.mem : Sizes(p)[o] = p.mem[o].size /\ p.mem[o].size \in Nat
  BY SlottedPageAssumption DEF Sizes, Placed, Cells, SlottedPageAssumption
<1>5. Total(Sizes(p)) \in Nat
  BY <1>2, <1>3, <1>4, TotalNat
<1> QED BY <1>1, <1>2, <1>3, <1>4, <1>5

(* Every pointer leads to a cell, with a key and a size.                   *)
LEMMA CellKey ==
  ASSUME NEW p, Layout(p), NEW j \in 1 .. NumCells(p)
  PROVE  /\ p.ptrs[j] \in DOMAIN p.mem /\ Cell(p, j) \in Cells
         /\ Cell(p, j).key \in Nat /\ Cell(p, j).size \in Nat \ {0}
<1>1. p.ptrs[j] \in DOMAIN p.mem
  BY DEF Layout, Pointers
<1>2. Cell(p, j) \in Cells
  BY <1>1 DEF Layout, Placed, Cell
<1>3. Cell(p, j).key \in Key /\ Cell(p, j).size \in Size
  BY <1>2 DEF Cells
<1> QED BY <1>1, <1>2, <1>3, SlottedPageAssumption DEF SlottedPageAssumption

(* Page r is page q with a cell put in front of its cells and the pointer  *)
(* to it at the place of its key.                                          *)
Added(q, r, i, cell) ==
  /\ cell \in Cells
  /\ i \in 1 .. NumCells(q) + 1
  /\ cell.size <= q.back
  /\ r.ptrs = InsertAt(q.ptrs, i, q.back - cell.size)
  /\ r.back = q.back - cell.size
  /\ DOMAIN r.mem = DOMAIN q.mem \cup {q.back - cell.size}
  /\ r.mem[q.back - cell.size] = cell
  /\ \A o \in DOMAIN q.mem : r.mem[o] = q.mem[o]
  /\ \A j \in 1 .. NumCells(q) : j < i => Cell(q, j).key < cell.key
  /\ \A j \in 1 .. NumCells(q) : i <= j => cell.key < Cell(q, j).key

(* Such a page is laid out as it should be, when page q is: one more cell, *)
(* whose size is added to the others.                                      *)
LEMMA AddedLayout ==
  ASSUME NEW q, NEW r, NEW i, NEW cell, Layout(q), Added(q, r, i, cell)
  PROVE  /\ Layout(r)
         /\ NumCells(r) = NumCells(q) + 1
         /\ Total(Sizes(r)) = Total(Sizes(q)) + cell.size
         /\ Contents(r) = Contents(q) \cup {cell}
         /\ \A j \in 1 .. NumCells(q) + 1 :
              Cell(r, j) = IF j < i THEN Cell(q, j) ELSE IF j = i THEN cell ELSE Cell(q, j - 1)
<1> DEFINE n == NumCells(q)
           at == q.back - cell.size
<1>0. /\ cell \in Cells /\ i \in 1 .. n + 1 /\ cell.size <= q.back
      /\ r.ptrs = InsertAt(q.ptrs, i, at) /\ r.back = at
      /\ DOMAIN r.mem = DOMAIN q.mem \cup {at} /\ r.mem[at] = cell
      /\ \A o \in DOMAIN q.mem : r.mem[o] = q.mem[o]
      /\ \A j \in 1 .. n : j < i => Cell(q, j).key < cell.key
      /\ \A j \in 1 .. n : i <= j => cell.key < Cell(q, j).key
  BY DEF Added
<1>1. /\ n \in Nat /\ IsFiniteSet(DOMAIN q.mem) /\ Total(Sizes(q)) \in Nat
      /\ DOMAIN Sizes(q) = DOMAIN q.mem
      /\ \A o \in DOMAIN q.mem : Sizes(q)[o] = q.mem[o].size /\ q.mem[o].size \in Nat
  BY FiniteCells DEF Layout
<1>2. /\ cell.size \in Nat \ {0} /\ cell.key \in Nat /\ at \in Nat /\ q.back \in Nat /\ q.back <= PageSize
      /\ PageSize \in Nat
  <2>1. cell.key \in Key /\ cell.size \in Size
    BY <1>0 DEF Cells
  <2>2. cell.key \in Nat /\ cell.size \in Nat \ {0} /\ PageSize \in Nat
    BY <2>1, SlottedPageAssumption DEF SlottedPageAssumption
  <2>3. q.back \in Nat /\ q.back <= PageSize
    BY DEF Layout, Placed
  <2> QED BY <1>0, <2>2, <2>3
<1>3. \A o \in DOMAIN q.mem : o \in Nat /\ q.back <= o /\ at < o /\ o + q.mem[o].size <= PageSize /\ q.mem[o] \in Cells
  <2>1. at < q.back
    BY <1>2
  <2> HIDE DEF at
  <2> QED BY <1>2, <2>1 DEF Layout, Placed
<1>4. at \notin DOMAIN q.mem
  BY <1>2, <1>3
<1> HIDE DEF at
<1>5. /\ r.ptrs \in Seq(Nat) /\ NumCells(r) = n + 1
      /\ \A j \in 1 .. n + 1 :
           r.ptrs[j] = IF j < i THEN q.ptrs[j] ELSE IF j = i THEN at ELSE q.ptrs[j - 1]
  <2>1. q.ptrs \in Seq(Nat) /\ n = Len(q.ptrs) /\ i \in 1 .. Len(q.ptrs) + 1 /\ at \in Nat
    BY <1>0, <1>2 DEF Layout, Pointers, NumCells
  <2>2. r.ptrs = InsertAt(q.ptrs, i, at)
    BY <1>0
  <2> HIDE DEF n
  <2>3. r.ptrs \in Seq(Nat) /\ Len(r.ptrs) = Len(q.ptrs) + 1
    <3>1. InsertAt(q.ptrs, i, at) \in Seq(Nat) /\ Len(InsertAt(q.ptrs, i, at)) = Len(q.ptrs) + 1
      BY <2>1, InsertAtSeq
    <3> QED BY <2>2, <3>1
  <2>4. \A j \in 1 .. i - 1 : r.ptrs[j] = q.ptrs[j]
    <3>1. \A j \in 1 .. i - 1 : InsertAt(q.ptrs, i, at)[j] = q.ptrs[j]
      BY <2>1, InsertAtBefore
    <3> QED BY <2>2, <3>1
  <2>5. r.ptrs[i] = at
    BY <2>1, <2>2, InsertAtHere
  <2>6. \A j \in i .. Len(q.ptrs) : r.ptrs[j + 1] = q.ptrs[j]
    <3>1. \A j \in i .. Len(q.ptrs) : InsertAt(q.ptrs, i, at)[j + 1] = q.ptrs[j]
      BY <2>1, InsertAtBehind
    <3> QED BY <2>2, <3>1
  <2>7. ASSUME NEW j \in 1 .. n + 1
        PROVE  r.ptrs[j] = IF j < i THEN q.ptrs[j] ELSE IF j = i THEN at ELSE q.ptrs[j - 1]
    <3>1. CASE j < i
      BY <1>1, <2>1, <2>4, <3>1
    <3>2. CASE j = i
      BY <2>1, <2>5, <3>2
    <3>3. CASE j > i
      <4>1. j - 1 \in i .. Len(q.ptrs) /\ (j - 1) + 1 = j
        BY <2>1, <3>3
      <4>2. r.ptrs[j] = q.ptrs[j - 1]
        BY <2>6, <4>1
      <4> QED BY <2>1, <3>3, <4>2
    <3>4. j < i \/ j = i \/ j > i
      BY <2>1
    <3> QED BY <3>1, <3>2, <3>3, <3>4
  <2> QED BY <2>1, <2>3, <2>7 DEF NumCells
<1>6. \A j \in 1 .. n : q.ptrs[j] \in DOMAIN q.mem
  BY DEF Layout, Pointers
<1>7. /\ DOMAIN r.mem = DOMAIN q.mem \cup {at} /\ r.mem[at] = cell /\ r.back = at
      /\ \A o \in DOMAIN q.mem : r.mem[o] = q.mem[o]
      /\ i \in 1 .. n + 1 /\ cell \in Cells
  BY <1>0
<1>8. Pointers(r)
  <2>1. \A j \in 1 .. n + 1 : r.ptrs[j] \in DOMAIN r.mem
    BY <1>1, <1>5, <1>6, <1>7
  <2>2. ASSUME NEW o \in DOMAIN r.mem PROVE \E j \in 1 .. n + 1 : r.ptrs[j] = o
    <3>1. CASE o = at
      <4>1. r.ptrs[i] = at
        BY <1>1, <1>5, <1>7
      <4> QED BY <1>7, <3>1, <4>1
    <3>2. CASE o \in DOMAIN q.mem
      <4>1. PICK j \in 1 .. n : q.ptrs[j] = o
        BY <3>2 DEF Layout, Pointers
      <4>2. CASE j < i
        <5>1. j \in 1 .. n + 1
          BY <1>1
        <5>2. r.ptrs[j] = o
          BY <1>5, <4>1, <4>2, <5>1
        <5> QED BY <5>1, <5>2
      <4>3. CASE j >= i
        <5>1. j + 1 \in 1 .. n + 1 /\ ~ (j + 1 < i) /\ j + 1 # i /\ (j + 1) - 1 = j
          BY <1>1, <1>7, <4>3
        <5>2. r.ptrs[j + 1] = o
          BY <1>5, <4>1, <5>1
        <5> QED BY <5>1, <5>2
      <4>4. j < i \/ j >= i
        BY <1>1, <1>7
      <4> QED BY <4>2, <4>3, <4>4
    <3> QED BY <1>7, <3>1, <3>2
  <2>3. ASSUME NEW j \in 1 .. n + 1, NEW k \in 1 .. n + 1, j < k PROVE r.ptrs[j] # r.ptrs[k]
    <3>1. \A a, b \in 1 .. n : a < b => q.ptrs[a] # q.ptrs[b]
      BY DEF Layout, Pointers
    <3> HIDE DEF n
    <3>2. CASE j = i
      <4>1. k - 1 \in 1 .. n /\ ~ (k < i) /\ k # i
        BY <1>1, <1>7, <2>3, <3>2
      <4>2. r.ptrs[j] = at /\ r.ptrs[k] = q.ptrs[k - 1]
        BY <1>5, <3>2, <4>1
      <4> QED BY ONLY <1>4, <1>6, <4>1, <4>2
    <3>3. CASE k = i
      <4>1. j \in 1 .. n /\ j < i
        BY <1>1, <1>7, <2>3, <3>3
      <4>2. r.ptrs[k] = at /\ r.ptrs[j] = q.ptrs[j]
        BY <1>5, <3>3, <4>1
      <4> QED BY ONLY <1>4, <1>6, <4>1, <4>2
    <3>4. CASE j # i /\ k # i
      <4> DEFINE a == IF j < i THEN j ELSE j - 1
                 b == IF k < i THEN k ELSE k - 1
      <4>1. a \in 1 .. n /\ b \in 1 .. n /\ a < b
        BY <1>1, <1>7, <2>3, <3>4
      <4>2. r.ptrs[j] = q.ptrs[a] /\ r.ptrs[k] = q.ptrs[b]
        BY <1>5, <3>4
      <4> QED BY <3>1, <4>1, <4>2
    <3> QED BY <3>2, <3>3, <3>4
  <2> QED BY <1>5, <2>1, <2>2, <2>3 DEF Pointers
<1>9. Placed(r)
  <2>1. r.back \in Nat /\ r.back <= PageSize
    BY <1>2, <1>7 DEF at
  <2>2. at + cell.size = q.back
    BY <1>2 DEF at
  <2>3. ASSUME NEW o \in DOMAIN r.mem
        PROVE  o \in Nat /\ r.mem[o] \in Cells /\ r.back <= o /\ o + r.mem[o].size <= PageSize
    BY <1>2, <1>3, <1>7, <2>2
  <2>4. ASSUME NEW o \in DOMAIN r.mem, NEW u \in DOMAIN r.mem, o < u
        PROVE  o + r.mem[o].size <= u
    <3>1. CASE o = at
      BY <1>2, <1>3, <1>7, <2>2, <2>4, <3>1
    <3>2. CASE o # at /\ u = at
      BY <1>2, <1>3, <1>7, <2>4, <3>2
    <3>3. CASE o # at /\ u # at
      BY <1>7, <2>4, <3>3 DEF Layout, Placed
    <3> QED BY <3>1, <3>2, <3>3
  <2> QED BY <2>1, <2>3, <2>4 DEF Placed
<1>10. ASSUME NEW j \in 1 .. n + 1
       PROVE  Cell(r, j) = IF j < i THEN Cell(q, j) ELSE IF j = i THEN cell ELSE Cell(q, j - 1)
  <2>1. CASE j < i
    BY <1>1, <1>5, <1>6, <1>7, <2>1 DEF Cell
  <2>2. CASE j = i
    BY <1>1, <1>5, <1>7, <2>2 DEF Cell
  <2>3. CASE j > i
    <3>1. j - 1 \in 1 .. n /\ ~ (j < i) /\ j # i
      BY <1>1, <1>7, <2>3
    <3> QED BY <1>5, <1>6, <1>7, <3>1 DEF Cell
  <2>4. j < i \/ j = i \/ j > i
    BY <1>1, <1>7
  <2> QED BY <2>1, <2>2, <2>3, <2>4
<1>11. KeysRise(r)
  <2>1. \A j \in 1 .. n : Cell(q, j).key \in Nat
    BY <1>3, <1>6, SlottedPageAssumption DEF SlottedPageAssumption, Cells, Cell
  <2>2. SUFFICES ASSUME NEW j \in 1 .. n + 1, NEW k \in 1 .. n + 1, j < k
                 PROVE  Cell(r, j).key < Cell(r, k).key
    BY <1>5 DEF KeysRise
  <2>3. \A a, b \in 1 .. n : a < b => Cell(q, a).key < Cell(q, b).key
    BY DEF Layout, KeysRise
  <2>4. CASE j = i
    BY <1>0, <1>1, <1>10, <2>2, <2>4
  <2>5. CASE k = i
    BY <1>0, <1>1, <1>10, <2>2, <2>5
  <2>6. CASE j # i /\ k # i
    BY <1>0, <1>1, <1>10, <2>2, <2>3, <2>6
  <2> QED BY <2>4, <2>5, <2>6
<1>12. Total(Sizes(r)) = Total(Sizes(q)) + cell.size
  <2>1. DOMAIN Sizes(r) = DOMAIN Sizes(q) \cup {at} /\ Sizes(r)[at] = cell.size
    BY <1>1, <1>7 DEF Sizes
  <2>2. \A o \in DOMAIN Sizes(q) : Sizes(r)[o] = Sizes(q)[o]
    BY <1>1, <1>7 DEF Sizes
  <2> QED BY <1>1, <1>2, <1>4, <2>1, <2>2, TotalAdd
<1>13. Contents(r) = Contents(q) \cup {cell}
  BY <1>4, <1>7 DEF Contents
<1>14. Layout(r)
  <2>1. Total(Sizes(q)) <= PageSize - q.back
    BY DEF Layout
  <2>2. Total(Sizes(r)) <= PageSize - r.back
    BY <1>1, <1>2, <1>7, <1>12, <2>1 DEF at
  <2> QED BY <1>8, <1>9, <1>11, <2>2 DEF Layout
<1> QED BY <1>5, <1>10, <1>12, <1>13, <1>14

-----------------------------------------------------------------------------
(* The pointers take PtrSize bytes each.                                   *)
LEMMA PointerArea ==
  /\ HeaderSize \in Nat /\ PageSize \in Nat /\ HeaderSize < PageSize /\ PtrSize \in Nat \ {0}
  /\ PtrSize * 0 = 0
  /\ \A n \in Nat : PtrSize * n \in Nat /\ PtrSize * (n + 1) = PtrSize * n + PtrSize
BY SlottedPageAssumption DEF SlottedPageAssumption

(* A write below all cells damages none.                                   *)
LEMMA OverwriteBelow ==
  ASSUME NEW mem, NEW lo, NEW hi, \A o \in DOMAIN mem : hi <= o
  PROVE  /\ DOMAIN Overwrite(mem, lo, hi) = DOMAIN mem
         /\ \A o \in DOMAIN mem : Overwrite(mem, lo, hi)[o] = mem[o]
BY DEF Overwrite

Below(mem, at, size) ==
  at \notin DOMAIN mem /\ \A o \in DOMAIN mem : at + size <= o

(* The cell is there after the write, beside the others.                   *)
LEMMA WriteBelowDomain ==
  ASSUME NEW mem, NEW at, NEW cell, Below(mem, at, cell.size)
  PROVE  DOMAIN WriteCell(mem, at, cell) = DOMAIN mem \cup {at}
<1> DEFINE m == Overwrite(mem, at, at + cell.size)
<1>1. DOMAIN m = DOMAIN mem
  BY OverwriteBelow DEF Below
<1>2. WriteCell(mem, at, cell) = [o \in DOMAIN m \cup {at} |-> IF o = at THEN cell ELSE m[o]]
  BY DEF WriteCell
<1> HIDE DEF m
<1> QED BY <1>1, <1>2

(* It can be read where it was written.                                    *)
LEMMA WriteBelowHere ==
  ASSUME NEW mem, NEW at, NEW cell, Below(mem, at, cell.size)
  PROVE  WriteCell(mem, at, cell)[at] = cell
BY DEF WriteCell

(* The others are what they were.                                          *)
LEMMA WriteBelowKeeps ==
  ASSUME NEW mem, NEW at, NEW cell, Below(mem, at, cell.size), NEW o \in DOMAIN mem
  PROVE  WriteCell(mem, at, cell)[o] = mem[o]
<1> DEFINE m == Overwrite(mem, at, at + cell.size)
<1>1. DOMAIN m = DOMAIN mem /\ \A x \in DOMAIN mem : m[x] = mem[x]
  BY OverwriteBelow DEF Below
<1>2. WriteCell(mem, at, cell) = [x \in DOMAIN m \cup {at} |-> IF x = at THEN cell ELSE m[x]]
  BY DEF WriteCell
<1> HIDE DEF m
<1> QED BY <1>1, <1>2 DEF Below

(* The empty page.                                                         *)
LEMMA NewPageLayout ==
  /\ Layout(NewPage) /\ NumCells(NewPage) = 0 /\ Total(Sizes(NewPage)) = 0
  /\ Contents(NewPage) = {} /\ PtrsEnd(NewPage) <= NewPage.back
<1>1. /\ NewPage.ptrs = << >> /\ DOMAIN NewPage.mem = {} /\ NewPage.back = PageSize
      /\ NumCells(NewPage) = 0
  BY DEF NewPage, NumCells
<1>2. Pointers(NewPage) /\ KeysRise(NewPage)
  BY <1>1 DEF Pointers, KeysRise
<1>3. Placed(NewPage)
  BY <1>1, PointerArea DEF Placed
<1>4. Total(Sizes(NewPage)) = 0
  <2>1. DOMAIN Sizes(NewPage) = {}
    BY <1>1 DEF Sizes
  <2> QED BY <2>1, TotalEmpty
<1>5. Layout(NewPage)
  BY <1>1, <1>2, <1>3, <1>4, PointerArea DEF Layout
<1>6. Contents(NewPage) = {}
  BY <1>1 DEF Contents
<1>7. PtrsEnd(NewPage) <= NewPage.back
  BY <1>1, PointerArea DEF PtrsEnd
<1> QED BY <1>1, <1>4, <1>5, <1>6, <1>7

-----------------------------------------------------------------------------
(* The sizes of the cells from place a to place b, and their sums.         *)
Part(p, a, b) == [o \in {p.ptrs[j] : j \in a .. b} |-> p.mem[o].size]

(* These sums are numbers, none larger than the sum for the page.          *)
LEMMA PartSum ==
  ASSUME NEW p, Layout(p), NEW a \in Nat \ {0}, NEW b \in 0 .. NumCells(p)
  PROVE  /\ IsFiniteSet(DOMAIN Part(p, a, b))
         /\ \A o \in DOMAIN Part(p, a, b) : Part(p, a, b)[o] \in Nat
         /\ Total(Part(p, a, b)) \in Nat
         /\ Total(Part(p, a, b)) <= Total(Sizes(p))
<1>1. /\ IsFiniteSet(DOMAIN p.mem) /\ DOMAIN Sizes(p) = DOMAIN p.mem
      /\ \A o \in DOMAIN p.mem : Sizes(p)[o] = p.mem[o].size /\ p.mem[o].size \in Nat
  BY FiniteCells DEF Layout
<1>2. DOMAIN Part(p, a, b) \subseteq DOMAIN p.mem
  <2>1. SUFFICES ASSUME NEW o \in DOMAIN Part(p, a, b) PROVE o \in DOMAIN p.mem
    OBVIOUS
  <2>2. PICK j \in a .. b : o = p.ptrs[j]
    BY <2>1 DEF Part
  <2>3. j \in 1 .. NumCells(p)
    BY FiniteCells DEF Layout
  <2> QED BY <2>2, <2>3 DEF Layout, Pointers
<1>3. \A o \in DOMAIN Part(p, a, b) : Part(p, a, b)[o] = p.mem[o].size
  BY DEF Part
<1>4. IsFiniteSet(DOMAIN Part(p, a, b))
  BY <1>1, <1>2, FS_Subset
<1>5. \A o \in DOMAIN Part(p, a, b) : Part(p, a, b)[o] \in Nat
  BY <1>1, <1>2, <1>3
<1>6. Total(Part(p, a, b)) <= Total(Sizes(p))
  BY <1>1, <1>2, <1>3, TotalSubset
<1> QED BY <1>4, <1>5, <1>6, TotalNat

(* No cells have no size.                                                  *)
LEMMA PartEmpty ==
  ASSUME NEW p, NEW a \in Int, NEW b \in Int, b < a
  PROVE  Total(Part(p, a, b)) = 0
<1>1. DOMAIN Part(p, a, b) = {}
  BY DEF Part
<1> QED BY <1>1, TotalEmpty

(* The first cell counts for its size.                                     *)
LEMMA PartLow ==
  ASSUME NEW p, Layout(p), NEW b \in 0 .. NumCells(p), NEW a \in 1 .. b
  PROVE  Total(Part(p, a, b)) = Total(Part(p, a + 1, b)) + Cell(p, a).size
<1> DEFINE f == Part(p, a + 1, b)
           g == Part(p, a, b)
           x == p.ptrs[a]
<1>1. NumCells(p) \in Nat /\ a \in 1 .. NumCells(p) /\ a + 1 \in Nat \ {0}
  BY FiniteCells DEF Layout
<1>2. IsFiniteSet(DOMAIN f) /\ \A o \in DOMAIN f : f[o] \in Nat
  BY <1>1, PartSum
<1>3. x \notin DOMAIN f
  <2>1. \A j \in a + 1 .. b : j \in 1 .. NumCells(p) /\ a < j
    BY <1>1
  <2>2. \A j \in a + 1 .. b : p.ptrs[j] # x
    BY <1>1, <2>1 DEF Layout, Pointers
  <2> QED BY <2>2 DEF Part
<1>4. DOMAIN g = DOMAIN f \cup {x}
  <2>1. \A j \in a .. b : j = a \/ j \in a + 1 .. b
    BY <1>1
  <2>2. a \in a .. b /\ \A j \in a + 1 .. b : j \in a .. b
    BY <1>1
  <2> QED BY <2>1, <2>2 DEF Part
<1>5. g[x] = Cell(p, a).size /\ g[x] \in Nat
  <2>1. g[x] = p.mem[x].size
    BY <1>4 DEF Part
  <2>2. x \in DOMAIN p.mem
    BY <1>1 DEF Layout, Pointers
  <2> QED BY <2>1, <2>2, FiniteCells DEF Layout, Cell
<1>6. \A o \in DOMAIN f : g[o] = f[o]
  BY <1>4 DEF Part
<1> HIDE DEF f, g, x
<1>7. Total(g) = Total(f) + g[x]
  BY <1>2, <1>3, <1>4, <1>5, <1>6, TotalAdd
<1> QED BY <1>5, <1>7 DEF f, g

(* So does the last one.                                                   *)
LEMMA PartHigh ==
  ASSUME NEW p, Layout(p), NEW b \in 1 .. NumCells(p), NEW a \in 1 .. b
  PROVE  Total(Part(p, a, b)) = Total(Part(p, a, b - 1)) + Cell(p, b).size
<1> DEFINE f == Part(p, a, b - 1)
           g == Part(p, a, b)
           x == p.ptrs[b]
<1>1. NumCells(p) \in Nat /\ a \in Nat \ {0} /\ b - 1 \in 0 .. NumCells(p)
  BY FiniteCells DEF Layout
<1>2. IsFiniteSet(DOMAIN f) /\ \A o \in DOMAIN f : f[o] \in Nat
  BY <1>1, PartSum
<1>3. x \notin DOMAIN f
  <2>1. \A j \in a .. b - 1 : j \in 1 .. NumCells(p) /\ j < b
    BY <1>1
  <2>2. \A j \in a .. b - 1 : p.ptrs[j] # x
    BY <1>1, <2>1 DEF Layout, Pointers
  <2> QED BY <2>2 DEF Part
<1>4. DOMAIN g = DOMAIN f \cup {x}
  <2>1. \A j \in a .. b : j = b \/ j \in a .. b - 1
    BY <1>1
  <2>2. b \in a .. b /\ \A j \in a .. b - 1 : j \in a .. b
    BY <1>1
  <2> QED BY <2>1, <2>2 DEF Part
<1>5. g[x] = Cell(p, b).size /\ g[x] \in Nat
  <2>1. g[x] = p.mem[x].size
    BY <1>4 DEF Part
  <2>2. x \in DOMAIN p.mem
    BY <1>1 DEF Layout, Pointers
  <2> QED BY <2>1, <2>2, FiniteCells DEF Layout, Cell
<1>6. \A o \in DOMAIN f : g[o] = f[o]
  BY <1>4 DEF Part
<1> HIDE DEF f, g, x
<1>7. Total(g) = Total(f) + g[x]
  BY <1>2, <1>3, <1>4, <1>5, <1>6, TotalAdd
<1> QED BY <1>5, <1>7 DEF f, g

(* The cells from the first to the last are those of the page.             *)
LEMMA PartAll ==
  ASSUME NEW p, Layout(p)
  PROVE  Part(p, 1, NumCells(p)) = Sizes(p)
<1>1. {p.ptrs[j] : j \in 1 .. NumCells(p)} = DOMAIN p.mem
  BY DEF Layout, Pointers
<1> QED BY <1>1 DEF Part, Sizes

(* The sum for a page is that of the cells up to a place and that of the   *)
(* cells behind it.                                                        *)
LEMMA PartSplit ==
  ASSUME NEW p, Layout(p), NEW h \in 0 .. NumCells(p)
  PROVE  Total(Sizes(p)) = Total(Part(p, 1, h)) + Total(Part(p, h + 1, NumCells(p)))
<1> DEFINE n == NumCells(p)
           f == Part(p, 1, h)
           g == Part(p, h + 1, n)
           s == Part(p, 1, n)
<1>1. n \in Nat
  BY FiniteCells DEF Layout
<1>2. IsFiniteSet(DOMAIN s) /\ \A o \in DOMAIN s : s[o] \in Nat
  BY <1>1, PartSum
<1>3. DOMAIN s = DOMAIN f \cup DOMAIN g
  <2>1. \A j \in 1 .. n : j \in 1 .. h \/ j \in h + 1 .. n
    BY <1>1
  <2>2. /\ \A j \in 1 .. h : j \in 1 .. n
        /\ \A j \in h + 1 .. n : j \in 1 .. n
    BY <1>1
  <2> QED BY <2>1, <2>2 DEF Part
<1>4. DOMAIN f \cap DOMAIN g = {}
  <2>1. \A j \in 1 .. h : \A k \in h + 1 .. n : j \in 1 .. n /\ k \in 1 .. n /\ j < k
    BY <1>1
  <2>2. \A j \in 1 .. h : \A k \in h + 1 .. n : p.ptrs[j] # p.ptrs[k]
    BY <2>1 DEF Layout, Pointers
  <2>3. DOMAIN f = {p.ptrs[j] : j \in 1 .. h} /\ DOMAIN g = {p.ptrs[k] : k \in h + 1 .. n}
    BY DEF Part
  <2> QED BY <2>2, <2>3
<1>5. /\ \A o \in DOMAIN f : f[o] = s[o]
      /\ \A o \in DOMAIN g : g[o] = s[o]
  BY <1>3 DEF Part
<1> HIDE DEF f, g, s
<1>6. Total(s) = Total(f) + Total(g)
  BY <1>2, <1>3, <1>4, <1>5, TotalSplit
<1> QED BY <1>6, PartAll DEF f, g, s

(* What packing the last k cells of a page into an empty one has done.     *)
PackedSoFar(p, q, k, empty) ==
  /\ Layout(q) /\ NumCells(q) = k
  /\ q.room = empty.room /\ q.back = PageSize - Total(Sizes(q))
  /\ \A j \in 1 .. k : Cell(q, j) = Cell(p, NumCells(p) - k + j)
  /\ Total(Sizes(q)) = Total(Part(p, NumCells(p) - k + 1, NumCells(p)))

(* The loop of Packed has a value at every step.                           *)
LEMMA PackedDef ==
  ASSUME NEW p, NEW empty, NumCells(p) \in Nat
  PROVE  /\ Packed(p, empty)[0] = empty
         /\ \A k \in 1 .. NumCells(p) :
              Packed(p, empty)[k] = PackCell(Packed(p, empty)[k - 1], Cell(p, NumCells(p) + 1 - k))
<1> DEFINE n == NumCells(p)
           Is(m, g) == g = [k \in 0 .. m |-> IF k = 0 THEN empty ELSE PackCell(g[k - 1], Cell(p, n + 1 - k))]
           S == {m \in Nat : \E g : Is(m, g)}
<1>1. 0 \in S
  <2>1. Is(0, [k \in 0 .. 0 |-> empty])
    OBVIOUS
  <2>2. \E g : Is(0, g)
    BY <2>1
  <2> QED BY <2>2
<1>2. ASSUME NEW m \in Nat, m \in S PROVE m + 1 \in S
  <2>1. PICK g : Is(m, g)
    BY <1>2
  <2> DEFINE h == [k \in 0 .. m + 1 |-> IF k = m + 1 THEN PackCell(g[m], Cell(p, n + 1 - k)) ELSE g[k]]
  <2>2. ASSUME NEW k \in 0 .. m + 1
        PROVE  h[k] = IF k = 0 THEN empty ELSE PackCell(h[k - 1], Cell(p, n + 1 - k))
    <3>1. CASE k = m + 1
      BY <3>1
    <3>2. CASE k # m + 1
      BY <2>1, <3>2
    <3> QED BY <3>1, <3>2
  <2>3. Is(m + 1, h)
    BY <2>2
  <2> HIDE DEF Is
  <2>4. \E f : Is(m + 1, f)
    BY <2>3
  <2> QED BY <2>4
<1>3. \E g : Is(n, g)
  <2>1. Nat \subseteq S
    <3> HIDE DEF S
    <3> QED BY <1>1, <1>2, SetInduction
  <2> QED BY <2>1
<1>4. Is(n, CHOOSE g : Is(n, g))
  <2> HIDE DEF Is
  <2> QED BY <1>3
<1>5. Packed(p, empty) = CHOOSE g : Is(n, g)
  BY DEF Packed
<1>6. Is(n, Packed(p, empty))
  <2> HIDE DEF Is
  <2> QED BY <1>4, <1>5
<1> QED BY <1>6

(* One cell more.                                                          *)
LEMMA PackOne ==
  ASSUME NEW p, NEW empty, NEW q, NEW k \in 0 .. NumCells(p) - 1, Layout(p), PackedSoFar(p, q, k, empty)
  PROVE  PackedSoFar(p, PackCell(q, Cell(p, NumCells(p) - k)), k + 1, empty)
<1> DEFINE n == NumCells(p)
           cell == Cell(p, n - k)
           at == q.back - cell.size
           r == PackCell(q, cell)
<1>1. /\ n \in Nat /\ n - k \in 1 .. n /\ NumCells(q) = k
      /\ Layout(q) /\ q.back = PageSize - Total(Sizes(q)) /\ PageSize \in Nat
  BY FiniteCells, PointerArea DEF Layout, PackedSoFar
<1>2. cell \in Cells /\ cell.size \in Nat \ {0}
  <2>1. p.ptrs[n - k] \in DOMAIN p.mem
    BY <1>1 DEF Layout, Pointers
  <2>2. cell \in Cells
    BY <2>1 DEF Layout, Placed, Cell
  <2>3. cell.size \in Size
    BY <2>2 DEF Cells
  <2> QED BY <2>2, <2>3, SlottedPageAssumption DEF SlottedPageAssumption
<1>3. Total(Part(p, n - k, n)) = Total(Sizes(q)) + cell.size
  <2>1. n \in 0 .. n /\ n - k \in 1 .. n
    BY <1>1
  <2>2. Total(Part(p, n - k, n)) = Total(Part(p, (n - k) + 1, n)) + cell.size
    BY <2>1, PartLow
  <2>3. Total(Sizes(q)) = Total(Part(p, n - k + 1, n))
    BY DEF PackedSoFar
  <2> QED BY <2>2, <2>3
<1>4. cell.size <= q.back
  <2>1. /\ Total(Part(p, n - k, n)) <= Total(Sizes(p)) /\ Total(Part(p, n - k, n)) \in Nat
    <3>1. n \in 0 .. n /\ n - k \in Nat \ {0}
      BY <1>1
    <3> QED BY <3>1, PartSum
  <2>2. Total(Sizes(p)) <= PageSize - p.back /\ p.back \in Nat /\ Total(Sizes(p)) \in Nat
    BY FiniteCells DEF Layout, Placed
  <2>3. Total(Sizes(q)) \in Nat
    BY <1>1, FiniteCells DEF Layout
  <2> QED BY <1>1, <1>2, <1>3, <2>1, <2>2, <2>3
<1>5. \A o \in DOMAIN q.mem : q.back <= o /\ o \in Nat
  BY <1>1 DEF Layout, Placed
<1>6. q.back \in Nat
  BY <1>1 DEF Layout, Placed
<1> HIDE DEF cell
<1>7. /\ r.ptrs = InsertAt(q.ptrs, 1, at) /\ r.back = at /\ r.room = q.room
      /\ r.mem = WriteCell(q.mem, at, cell)
  BY DEF PackCell
<1>8. /\ at \notin DOMAIN q.mem
      /\ \A o \in DOMAIN q.mem : at + cell.size <= o
  BY <1>2, <1>5, <1>6
<1> HIDE DEF r
<1>9. /\ DOMAIN r.mem = DOMAIN q.mem \cup {at} /\ r.mem[at] = cell
      /\ \A o \in DOMAIN q.mem : r.mem[o] = q.mem[o]
  <2> HIDE DEF at
  <2>1. Below(q.mem, at, cell.size)
    BY <1>8 DEF Below
  <2>2. DOMAIN WriteCell(q.mem, at, cell) = DOMAIN q.mem \cup {at}
    BY <2>1, WriteBelowDomain
  <2>4. WriteCell(q.mem, at, cell)[at] = cell
    BY <2>1, WriteBelowHere
  <2>3. \A o \in DOMAIN q.mem : WriteCell(q.mem, at, cell)[o] = q.mem[o]
    BY <2>1, WriteBelowKeeps
  <2> QED BY <1>7, <2>2, <2>3, <2>4
<1>10. \A j \in 1 .. k : Cell(q, j) = Cell(p, n - k + j)
  BY DEF PackedSoFar
<1>11. \A j \in 1 .. NumCells(q) : 1 <= j => cell.key < Cell(q, j).key
  <2>1. \A j \in 1 .. k : n - k + j \in 1 .. n /\ n - k < n - k + j
    BY <1>1
  <2>2. \A j \in 1 .. k : Cell(p, n - k).key < Cell(p, n - k + j).key
    BY <1>1, <2>1 DEF Layout, KeysRise
  <2> QED BY <1>1, <1>10, <2>2 DEF cell
<1>12. \A j \in 1 .. NumCells(q) : j < 1 => Cell(q, j).key < cell.key
  BY <1>1
<1>13. /\ Layout(r)
       /\ NumCells(r) = k + 1
       /\ Total(Sizes(r)) = Total(Sizes(q)) + cell.size
       /\ \A j \in 1 .. k + 1 :
            Cell(r, j) = IF j < 1 THEN Cell(q, j) ELSE IF j = 1 THEN cell ELSE Cell(q, j - 1)
  <2>1. 1 \in 1 .. NumCells(q) + 1
    BY <1>1
  <2>2. Added(q, r, 1, cell)
    BY <1>2, <1>4, <1>7, <1>9, <1>11, <1>12, <2>1 DEF Added
  <2>3. /\ Layout(r) /\ NumCells(r) = NumCells(q) + 1
        /\ Total(Sizes(r)) = Total(Sizes(q)) + cell.size
    BY <1>1, <2>2, AddedLayout
  <2>4. \A j \in 1 .. NumCells(q) + 1 :
          Cell(r, j) = IF j < 1 THEN Cell(q, j) ELSE IF j = 1 THEN cell ELSE Cell(q, j - 1)
    BY <1>1, <2>2, AddedLayout
  <2> QED BY <1>1, <2>3, <2>4
<1>14. ASSUME NEW j \in 1 .. k + 1 PROVE Cell(r, j) = Cell(p, n - (k + 1) + j)
  <2>1. CASE j = 1
    <3>1. n - (k + 1) + j = n - k
      BY <1>1, <2>1
    <3> QED BY <1>13, <2>1, <3>1 DEF cell
  <2>2. CASE j # 1
    <3>1. j - 1 \in 1 .. k /\ ~ (j < 1) /\ n - k + (j - 1) = n - (k + 1) + j
      BY <1>1, <2>2
    <3>2. Cell(r, j) = Cell(q, j - 1)
      BY <1>13, <2>2, <3>1
    <3>3. Cell(q, j - 1) = Cell(p, n - k + (j - 1))
      BY <1>10, <3>1
    <3> QED BY <3>1, <3>2, <3>3
  <2> QED BY <2>1, <2>2
<1>15. r.back = PageSize - Total(Sizes(r))
  <2>1. Total(Sizes(q)) \in Nat
    BY <1>1, FiniteCells DEF Layout
  <2> QED BY <1>1, <1>2, <1>7, <1>13, <2>1
<1>16. n - (k + 1) + 1 = n - k
  BY <1>1
<1>17. Total(Sizes(r)) = Total(Part(p, n - (k + 1) + 1, n))
  BY <1>3, <1>13, <1>16
<1>18. r.room = empty.room
  BY <1>7 DEF PackedSoFar
<1>19. PackedSoFar(p, r, k + 1, empty)
  BY <1>13, <1>14, <1>15, <1>17, <1>18 DEF PackedSoFar
<1> QED BY <1>19 DEF r, cell

(* defragment() keeps the cells and their order, and leaves no hole.       *)
LEMMA DefragmentLayout ==
  ASSUME NEW p, Layout(p)
  PROVE  LET q == Defragment(p)
         IN  /\ Layout(q) /\ NumCells(q) = NumCells(p)
             /\ q.room = p.room /\ q.back = PageSize - Total(Sizes(q))
             /\ Total(Sizes(q)) = Total(Sizes(p))
             /\ \A j \in 1 .. NumCells(p) : Cell(q, j) = Cell(p, j)
<1> DEFINE n == NumCells(p)
           empty == [NewPage EXCEPT !.room = p.room]
           f == Packed(p, empty)
           S == {k \in Nat : PackedSoFar(p, f[k], k, empty)}
<1>1. n \in Nat
  BY FiniteCells DEF Layout
<1>2. f[0] = empty /\ \A k \in 1 .. n : f[k] = PackCell(f[k - 1], Cell(p, n + 1 - k))
  <2> HIDE DEF empty
  <2> QED BY <1>1, PackedDef
<1>3. 0 \in S
  <2>1. empty.ptrs = NewPage.ptrs /\ empty.mem = NewPage.mem /\ empty.back = NewPage.back /\ NewPage.back = PageSize
    BY DEF NewPage
  <2> HIDE DEF empty
  <2>2. Layout(empty) /\ NumCells(empty) = 0 /\ Total(Sizes(empty)) = 0
    <3>1. Sizes(empty) = Sizes(NewPage) /\ NumCells(empty) = NumCells(NewPage)
      BY <2>1 DEF Sizes, NumCells
    <3>2. Pointers(empty) /\ Placed(empty) /\ KeysRise(empty)
      BY <2>1, <3>1, NewPageLayout DEF Layout, Pointers, Placed, KeysRise, Cell
    <3> QED BY <2>1, <3>1, <3>2, NewPageLayout DEF Layout
  <2>3. Total(Part(p, n - 0 + 1, n)) = 0
    <3>1. n - 0 + 1 \in Int /\ n < n - 0 + 1
      BY <1>1
    <3> QED BY <1>1, <3>1, PartEmpty
  <2>4. PageSize = PageSize - 0
    BY PointerArea
  <2>5. PackedSoFar(p, empty, 0, empty)
    BY <2>1, <2>2, <2>3, <2>4 DEF PackedSoFar
  <2> QED BY <1>2, <2>5
<1>4. \A k \in 0 .. n - 1 : k \in S => k + 1 \in S
  <2>1. SUFFICES ASSUME NEW k \in 0 .. n - 1, k \in S PROVE k + 1 \in S
    OBVIOUS
  <2>2. k + 1 \in 1 .. n /\ (k + 1) - 1 = k /\ n + 1 - (k + 1) = n - k /\ k + 1 \in Nat
    BY <1>1
  <2>3. f[k + 1] = PackCell(f[k], Cell(p, n - k))
    BY <1>2, <2>2
  <2> HIDE DEF empty, f
  <2>4. PackedSoFar(p, PackCell(f[k], Cell(p, n - k)), k + 1, empty)
    BY <2>1, PackOne
  <2> QED BY <2>2, <2>3, <2>4
<1>5. n \in S
  <2> HIDE DEF S
  <2>1. \A k \in 0 .. n : k \in S
    BY <1>1, <1>3, <1>4, IntervalInduction
  <2> QED BY <1>1, <2>1
<1> DEFINE q == f[n]
<1>6. Defragment(p) = q
  BY DEF Defragment
<1>7. PackedSoFar(p, q, n, empty)
  BY <1>5
<1>8. n - n + 1 = 1 /\ \A j \in 1 .. n : n - n + j = j
  BY <1>1
<1>9. Total(Sizes(q)) = Total(Sizes(p))
  <2>1. Total(Sizes(q)) = Total(Part(p, n - n + 1, n))
    BY <1>7 DEF PackedSoFar
  <2> HIDE DEF q
  <2> QED BY <1>8, <2>1, PartAll
<1>10. empty.room = p.room
  BY DEF NewPage
<1> HIDE DEF q, empty
<1> QED BY <1>6, <1>7, <1>8, <1>9, <1>10 DEF PackedSoFar

-----------------------------------------------------------------------------
(* The binary search of a set that holds the cells behind the first F.     *)
LEMMA SearchFirst ==
  ASSUME NEW p, NEW set, NumCells(p) \in Nat, NEW F \in 0 .. NumCells(p),
         \A i \in 1 .. NumCells(p) : i \in set <=> i > F
  PROVE  Search(p, set) = F
<1> DEFINE n == NumCells(p)
           W == (0 .. n) \X (0 .. n)
           mid(l, r) == l + (r - l) \div 2
           step(f, w) == IF w[1] >= w[2] THEN w[1]
                         ELSE IF mid(w[1], w[2]) + 1 \in set
                              THEN f[<<w[1], mid(w[1], w[2])>>]
                              ELSE f[<<mid(w[1], w[2]) + 1, w[2]>>]
           Is(f) == f = [w \in W |-> step(f, w)]
           clamp == [w \in W |->
                       IF w[1] >= w[2] THEN w[1] ELSE IF F <= w[1] THEN w[1] ELSE IF F >= w[2] THEN w[2] ELSE F]
<1>1. \A l, r \in 0 .. n : l < r => mid(l, r) \in l .. r - 1
  OBVIOUS
<1>2. Is(clamp)
  <2>1. ASSUME NEW w \in W
        PROVE  clamp[w] = step(clamp, w)
    <3>1. CASE w[1] >= w[2]
      BY <3>1
    <3>2. CASE w[1] < w[2]
      <4> DEFINE m == mid(w[1], w[2])
      <4>1. m \in w[1] .. w[2] - 1
        BY <1>1, <3>2
      <4>2. <<w[1], m>> \in W /\ <<m + 1, w[2]>> \in W
        BY <4>1
      <4> HIDE DEF m
      <4>3. m + 1 \in set <=> F <= m
        BY <4>1
      <4>4. clamp[w] = IF m + 1 \in set THEN clamp[<<w[1], m>>] ELSE clamp[<<m + 1, w[2]>>]
        BY <3>2, <4>1, <4>2, <4>3
      <4> QED BY <3>2, <4>4 DEF m
    <3> QED BY <3>1, <3>2
  <2> QED BY <2>1
<1>3. ASSUME NEW f, Is(f) PROVE f[<<0, n>>] = F
  <2> DEFINE D == {d \in Nat : \A l, r \in 0 .. n : l <= F /\ F <= r /\ r - l <= d => f[<<l, r>>] = F}
  <2>0. \A w \in W : f[w] = step(f, w)
    BY <1>3
  <2>4. ASSUME NEW l \in 0 .. n, NEW r \in 0 .. n, l >= r PROVE f[<<l, r>>] = l
    <3>1. <<l, r>> \in W
      OBVIOUS
    <3>2. f[<<l, r>>] = step(f, <<l, r>>)
      BY <2>0, <3>1
    <3> QED BY <2>4, <3>2
  <2>1. 0 \in D
    BY <2>4
  <2>2. ASSUME NEW d \in Nat, d \in D PROVE d + 1 \in D
    <3>1. SUFFICES ASSUME NEW l \in 0 .. n, NEW r \in 0 .. n, l <= F, F <= r, r - l <= d + 1
                   PROVE  f[<<l, r>>] = F
      OBVIOUS
    <3>2. CASE l >= r
      BY <2>4, <3>1, <3>2
    <3>3. CASE l < r
      <4> DEFINE m == mid(l, r)
      <4>1. m \in l .. r - 1
        BY <1>1, <3>3
      <4>2. f[<<l, r>>] = IF m + 1 \in set THEN f[<<l, m>>] ELSE f[<<m + 1, r>>]
        BY <2>0, <3>3
      <4> HIDE DEF m
      <4>3. m + 1 \in set <=> F <= m
        BY <4>1
      <4>4. F <= m => f[<<l, m>>] = F
        BY <2>2, <3>1, <4>1
      <4>5. F > m => f[<<m + 1, r>>] = F
        BY <2>2, <3>1, <4>1
      <4> QED BY <4>1, <4>2, <4>3, <4>4, <4>5
    <3> QED BY <3>2, <3>3
  <2>3. n \in D
    <3> HIDE DEF D
    <3> QED BY <2>1, <2>2, SetInduction
  <2> QED BY <2>3
<1>4. Is(CHOOSE f : Is(f))
  <2> HIDE DEF Is
  <2> QED BY <1>2
<1>5. Search(p, set) = (CHOOSE f : Is(f))[<<0, n>>]
  BY DEF Search
<1> HIDE DEF Is
<1> QED BY <1>3, <1>4, <1>5

-----------------------------------------------------------------------------
(* The searches of a page whose keys rise: the cells in front of the place *)
(* that search_cell_leaf() returns are those with smaller keys, and the    *)
(* cells as far as that of search_cell_internal() those with keys not      *)
(* larger.                                                                 *)
LEMMA SearchLeafPlace ==
  ASSUME NEW p, Layout(p), NEW k \in Nat
  PROVE  /\ SearchCellLeaf(p, k) \in 0 .. NumCells(p)
         /\ \A j \in 1 .. NumCells(p) : Cell(p, j).key < k <=> j <= SearchCellLeaf(p, k)
<1> DEFINE n == NumCells(p)
           T == {j \in DOMAIN p.ptrs : Cell(p, j).key >= k}
<1>1. n \in Nat /\ DOMAIN p.ptrs = 1 .. n
  BY FiniteCells, LenProperties DEF Layout, Pointers, NumCells
<1>2. \A j \in 1 .. n : Cell(p, j).key \in Nat
  BY CellKey
<1>3. \A i, j \in 1 .. n : i < j /\ i \in T => j \in T
  <2>1. \A i, j \in 1 .. n : i < j => Cell(p, i).key < Cell(p, j).key
    BY DEF Layout, KeysRise
  <2> QED BY <1>1, <1>2, <2>1
<1>4. PICK F \in 0 .. n : \A i \in 1 .. n : i \in T <=> i > F
  <2> HIDE DEF T
  <2> QED BY <1>1, <1>3, Threshold
<1>5. Search(p, T) = F
  <2> HIDE DEF T
  <2> QED BY <1>1, <1>4, SearchFirst
<1>6. SearchCellLeaf(p, k) = F
  BY <1>5 DEF SearchCellLeaf
<1>7. ASSUME NEW j \in 1 .. n PROVE Cell(p, j).key < k <=> j <= F
  <2>1. j \in T <=> Cell(p, j).key >= k
    BY <1>1
  <2>2. j \in T <=> j > F
    BY <1>4
  <2>3. Cell(p, j).key \in Nat
    BY <1>2
  <2> HIDE DEF T
  <2> QED BY <1>1, <2>1, <2>2, <2>3
<1> QED BY <1>6, <1>7

(* The same for search_cell_internal(), whose cells have keys not larger.  *)
LEMMA SearchInternalPlace ==
  ASSUME NEW p, Layout(p), NEW k \in Nat
  PROVE  /\ SearchCellInternal(p, k) \in 0 .. NumCells(p)
         /\ \A j \in 1 .. NumCells(p) : Cell(p, j).key <= k <=> j <= SearchCellInternal(p, k)
<1> DEFINE n == NumCells(p)
           T == {j \in DOMAIN p.ptrs : Cell(p, j).key > k}
<1>1. n \in Nat /\ DOMAIN p.ptrs = 1 .. n
  BY FiniteCells, LenProperties DEF Layout, Pointers, NumCells
<1>2. \A j \in 1 .. n : Cell(p, j).key \in Nat
  BY CellKey
<1>3. \A i, j \in 1 .. n : i < j /\ i \in T => j \in T
  <2>1. \A i, j \in 1 .. n : i < j => Cell(p, i).key < Cell(p, j).key
    BY DEF Layout, KeysRise
  <2> QED BY <1>1, <1>2, <2>1
<1>4. PICK F \in 0 .. n : \A i \in 1 .. n : i \in T <=> i > F
  <2> HIDE DEF T
  <2> QED BY <1>1, <1>3, Threshold
<1>5. Search(p, T) = F
  <2> HIDE DEF T
  <2> QED BY <1>1, <1>4, SearchFirst
<1>6. SearchCellInternal(p, k) = F
  BY <1>5 DEF SearchCellInternal
<1>7. ASSUME NEW j \in 1 .. n PROVE Cell(p, j).key <= k <=> j <= F
  <2>1. j \in T <=> Cell(p, j).key > k
    BY <1>1
  <2>2. j \in T <=> j > F
    BY <1>4
  <2>3. Cell(p, j).key \in Nat
    BY <1>2
  <2> HIDE DEF T
  <2> QED BY <1>1, <2>1, <2>2, <2>3
<1> QED BY <1>6, <1>7

-----------------------------------------------------------------------------
(* A cell that fits between the pointers and the cells is put into the     *)
(* page without harm to another one.                                       *)
LEMMA PutCellAdds ==
  ASSUME NEW p, Layout(p), NEW cell \in Cells, NEW i \in 1 .. NumCells(p) + 1,
         cell.size + PtrSize <= p.back - PtrsEnd(p),
         \A j \in 1 .. NumCells(p) : j < i => Cell(p, j).key < cell.key,
         \A j \in 1 .. NumCells(p) : i <= j => cell.key < Cell(p, j).key
  PROVE  Added(p, PutCell(p, i, cell), i, cell)
<1> DEFINE r == PutCell(p, i, cell)
           at == p.back - cell.size
           hi == PtrsEnd(p) + PtrSize
           mem == Overwrite(p.mem, HeaderSize, hi)
<1>1. /\ p.back \in Nat /\ cell.size \in Nat /\ PtrsEnd(p) \in Nat /\ PtrSize \in Nat
  <2>1. cell.size \in Nat
    BY SlottedPageAssumption DEF SlottedPageAssumption, Cells
  <2>2. NumCells(p) \in Nat
    BY FiniteCells DEF Layout
  <2>3. HeaderSize \in Nat /\ PtrSize \in Nat /\ PtrSize * NumCells(p) \in Nat
    BY <2>2, PointerArea
  <2> QED BY <2>1, <2>3 DEF Layout, Placed, PtrsEnd
<1>2. cell.size <= p.back /\ hi <= at /\ at \in Nat
  BY <1>1
<1>3. \A o \in DOMAIN p.mem : o \in Nat /\ p.back <= o
  BY DEF Layout, Placed
<1>4. DOMAIN mem = DOMAIN p.mem /\ \A o \in DOMAIN p.mem : mem[o] = p.mem[o]
  <2>1. \A o \in DOMAIN p.mem : hi <= o
    BY <1>1, <1>3
  <2> HIDE DEF hi
  <2> QED BY <2>1, OverwriteBelow
<1>5. Below(mem, at, cell.size)
  <2>1. at + cell.size = p.back /\ cell.size # 0
    BY <1>1, SlottedPageAssumption DEF SlottedPageAssumption, Cells
  <2>2. \A o \in DOMAIN p.mem : o # at /\ at + cell.size <= o
    BY <1>1, <1>3, <2>1
  <2> HIDE DEF mem, at
  <2> QED BY <1>4, <2>2 DEF Below
<1>6. /\ r.ptrs = InsertAt(p.ptrs, i, at) /\ r.back = at
      /\ r.mem = WriteCell(mem, at, cell)
  BY DEF PutCell
<1> HIDE DEF r, mem, hi
<1>7. /\ DOMAIN r.mem = DOMAIN p.mem \cup {at} /\ r.mem[at] = cell
      /\ \A o \in DOMAIN p.mem : r.mem[o] = p.mem[o]
  <2> HIDE DEF at
  <2>1. DOMAIN WriteCell(mem, at, cell) = DOMAIN mem \cup {at}
    BY <1>5, WriteBelowDomain
  <2>2. WriteCell(mem, at, cell)[at] = cell
    BY <1>5, WriteBelowHere
  <2>3. \A o \in DOMAIN mem : WriteCell(mem, at, cell)[o] = mem[o]
    BY <1>5, WriteBelowKeeps
  <2> QED BY <1>4, <1>6, <2>1, <2>2, <2>3
<1>8. Added(p, r, i, cell)
  BY <1>2, <1>6, <1>7 DEF Added
<1> QED BY <1>8 DEF r

(* The bytes of a page in use, and the inductive invariant: the cells do   *)
(* not reach into the pointers, and the space in total_free_space is       *)
(* there; in a page whose count is exact, nothing else is.                 *)
Used(p) == PtrsEnd(p) + Total(Sizes(p))

Sound(p, exact) ==
  /\ Layout(p) /\ PtrsEnd(p) <= p.back
  /\ p.room \in Nat /\ p.room + Used(p) <= PageSize
  /\ exact => p.room + Used(p) = PageSize

(* What the layout says of the numbers.                                    *)
LEMMA SoundNumbers ==
  ASSUME NEW p, Layout(p)
  PROVE  /\ NumCells(p) \in Nat /\ PtrsEnd(p) \in Nat /\ Total(Sizes(p)) \in Nat
         /\ p.back \in Nat /\ PageSize \in Nat /\ Used(p) \in Nat /\ PtrSize \in Nat \ {0}
         /\ Used(p) = PtrsEnd(p) + Total(Sizes(p))
         /\ Total(Sizes(p)) <= PageSize - p.back
<1>1. NumCells(p) \in Nat /\ Total(Sizes(p)) \in Nat
  BY FiniteCells DEF Layout
<1>2. HeaderSize \in Nat /\ PtrSize \in Nat \ {0} /\ PtrSize * NumCells(p) \in Nat /\ PageSize \in Nat
  BY <1>1, PointerArea
<1>3. PtrsEnd(p) \in Nat
  BY <1>2 DEF PtrsEnd
<1>4. p.back \in Nat /\ Total(Sizes(p)) <= PageSize - p.back
  BY DEF Layout, Placed
<1> QED BY <1>1, <1>2, <1>3, <1>4 DEF Used

(* One pointer more.                                                       *)
LEMMA PtrsEndNext ==
  ASSUME NEW p, NEW r, NumCells(p) \in Nat, NumCells(r) = NumCells(p) + 1
  PROVE  PtrsEnd(r) = PtrsEnd(p) + PtrSize
<1>1. PtrSize * (NumCells(p) + 1) = PtrSize * NumCells(p) + PtrSize /\ PtrSize * NumCells(p) \in Nat
  BY PointerArea
<1>2. HeaderSize \in Nat /\ PtrSize \in Nat
  BY PointerArea
<1> QED BY <1>1, <1>2 DEF PtrsEnd

(* A new page is sound, and its count exact.                               *)
LEMMA NewPageSound == Sound(NewPage, TRUE)
<1>1. Layout(NewPage) /\ NumCells(NewPage) = 0 /\ Total(Sizes(NewPage)) = 0 /\ PtrsEnd(NewPage) <= NewPage.back
  BY NewPageLayout
<1>2. NewPage.room = PageSize - HeaderSize
  BY DEF NewPage
<1>3. PtrsEnd(NewPage) = HeaderSize + 0
  BY <1>1, PointerArea DEF PtrsEnd
<1>4. Used(NewPage) = HeaderSize
  BY <1>1, <1>3, PointerArea DEF Used
<1> QED BY <1>1, <1>2, <1>4, PointerArea DEF Sound

(* What insert_cell() does with a page.                                    *)
Room(cell) == cell.size + PtrSize

(* After defragment() all the free space lies between the pointers and the *)
(* cells.                                                                  *)
LEMMA DefragmentSound ==
  ASSUME NEW p, NEW exact, Sound(p, exact)
  PROVE  /\ Sound(Defragment(p), exact) /\ NumCells(Defragment(p)) = NumCells(p)
         /\ Defragment(p).room = p.room
         /\ Defragment(p).back - PtrsEnd(Defragment(p)) = PageSize - Used(p)
         /\ Used(Defragment(p)) = Used(p)
<1> DEFINE q == Defragment(p)
<1>1. /\ Layout(q) /\ NumCells(q) = NumCells(p)
      /\ q.room = p.room /\ q.back = PageSize - Total(Sizes(q))
      /\ Total(Sizes(q)) = Total(Sizes(p))
  BY DefragmentLayout DEF Sound
<1> HIDE DEF q
<1>2. PtrsEnd(q) = PtrsEnd(p)
  BY <1>1 DEF PtrsEnd
<1>3. Used(q) = Used(p)
  BY <1>1, <1>2 DEF Used
<1>4. /\ PtrsEnd(p) \in Nat /\ Total(Sizes(p)) \in Nat /\ p.back \in Nat /\ PageSize \in Nat
      /\ Used(p) = PtrsEnd(p) + Total(Sizes(p)) /\ Total(Sizes(p)) <= PageSize - p.back
  BY SoundNumbers DEF Sound
<1>5. q.back - PtrsEnd(q) = PageSize - Used(p) /\ PtrsEnd(q) <= q.back
  BY <1>1, <1>2, <1>4 DEF Sound
<1>6. Sound(q, exact)
  BY <1>1, <1>3, <1>5 DEF Sound
<1> QED BY <1>1, <1>3, <1>5, <1>6 DEF q

-----------------------------------------------------------------------------
(* Its cells are those of the page.                                        *)
LEMMA DefragmentCell ==
  ASSUME NEW p, Layout(p), NEW j \in 1 .. NumCells(p)
  PROVE  Cell(Defragment(p), j) = Cell(p, j)
BY DefragmentLayout

(* The page insert_cell() puts the cell into, and the place it looks at.   *)
Gap(p, cell) == p.back - PtrsEnd(p) >= Room(cell)
Base(p, cell) == IF Gap(p, cell) THEN p ELSE Defragment(p)
Place(p, cell) == SearchCellLeaf(Base(p, cell), cell.key) + 1
There(p, cell) ==
  Place(p, cell) <= NumCells(Base(p, cell)) /\ Cell(Base(p, cell), Place(p, cell)).key = cell.key

(* insert_cell() in these terms.                                           *)
LEMMA InsertCellCases ==
  ASSUME NEW p, NEW cell
  PROVE  InsertCell(p, cell) =
           IF ~ Gap(p, cell) /\ p.room < Room(cell) THEN [res |-> "full", page |-> p]
           ELSE IF There(p, cell) THEN [res |-> "exists", page |-> Base(p, cell)]
           ELSE IF p.room < Room(cell) THEN [res |-> "overflow", page |-> p]
           ELSE [res |-> "ok", page |-> PutCell(Base(p, cell), Place(p, cell), cell)]
BY DEF InsertCell, Gap, Base, Place, There, Room

(* The page that the cell is put into has the cells of the page, and room  *)
(* enough between pointers and cells.                                      *)
LEMMA BaseSound ==
  ASSUME NEW p, NEW exact, Sound(p, exact), NEW cell \in Cells, Gap(p, cell) \/ p.room >= Room(cell)
  PROVE  LET q == Base(p, cell)
         IN  /\ Sound(q, exact) /\ NumCells(q) = NumCells(p)
             /\ q.room = p.room /\ Used(q) = Used(p)
             /\ q.back - PtrsEnd(q) >= Room(cell)
             /\ \A j \in 1 .. NumCells(p) : Cell(q, j) = Cell(p, j)
<1>1. CASE Gap(p, cell)
  BY <1>1 DEF Base, Gap
<1>2. CASE ~ Gap(p, cell)
  <2> DEFINE q == Defragment(p)
  <2>1. Base(p, cell) = q
    BY <1>2 DEF Base
  <2>2. /\ Sound(q, exact) /\ NumCells(q) = NumCells(p) /\ q.room = p.room
        /\ q.back - PtrsEnd(q) = PageSize - Used(p) /\ Used(q) = Used(p)
    BY DefragmentSound
  <2>3. \A j \in 1 .. NumCells(p) : Cell(q, j) = Cell(p, j)
    BY DefragmentCell DEF Sound
  <2> HIDE DEF q
  <2>4. PageSize - Used(p) >= p.room /\ Room(cell) \in Nat
    <3>1. Used(p) \in Nat /\ PageSize \in Nat /\ PtrSize \in Nat
      BY SoundNumbers DEF Sound
    <3>2. cell.size \in Nat
      BY SlottedPageAssumption DEF SlottedPageAssumption, Cells
    <3> QED BY <3>1, <3>2 DEF Sound, Room
  <2>5. PageSize - Used(p) \in Int /\ p.room \in Nat
    BY SoundNumbers DEF Sound
  <2> QED BY <1>2, <2>1, <2>2, <2>3, <2>4, <2>5
<1> QED BY <1>1, <1>2

(* A sound page stays sound when a cell is added and paid for.             *)
LEMMA AddedSound ==
  ASSUME NEW q, NEW exact, Sound(q, exact), NEW r, NEW i, NEW cell, Added(q, r, i, cell),
         q.back - PtrsEnd(q) >= Room(cell), q.room >= Room(cell), r.room = q.room - Room(cell)
  PROVE  Sound(r, exact) /\ Used(r) = Used(q) + Room(cell)
<1>1. /\ NumCells(q) \in Nat /\ PtrsEnd(q) \in Nat /\ Total(Sizes(q)) \in Nat
      /\ q.back \in Nat /\ PageSize \in Nat /\ Used(q) \in Nat /\ PtrSize \in Nat
      /\ Used(q) = PtrsEnd(q) + Total(Sizes(q))
  BY SoundNumbers DEF Sound
<1>2. cell.size \in Nat
  BY SlottedPageAssumption DEF SlottedPageAssumption, Cells, Added
<1>3. Layout(r) /\ NumCells(r) = NumCells(q) + 1 /\ Total(Sizes(r)) = Total(Sizes(q)) + cell.size
  BY AddedLayout DEF Sound
<1>4. PtrsEnd(r) = PtrsEnd(q) + PtrSize
  BY <1>1, <1>3, PtrsEndNext
<1>5. r.back = q.back - cell.size
  BY DEF Added
<1>6. Used(r) = Used(q) + Room(cell)
  BY <1>1, <1>2, <1>3, <1>4 DEF Used, Room
<1>7. PtrsEnd(r) <= r.back
  BY <1>1, <1>2, <1>4, <1>5 DEF Room
<1>8. r.room \in Nat /\ r.room + Used(r) = q.room + Used(q)
  BY <1>1, <1>2, <1>6 DEF Room, Sound
<1>9. Sound(r, exact)
  BY <1>3, <1>7, <1>8 DEF Sound
<1> QED BY <1>6, <1>9

(* The place insert_cell() looks at is that of the key.                    *)
LEMMA InsertPlace ==
  ASSUME NEW p, NEW exact, Sound(p, exact), NEW cell \in Cells, Gap(p, cell) \/ p.room >= Room(cell)
  PROVE  /\ Place(p, cell) \in 1 .. NumCells(p) + 1
         /\ \A j \in 1 .. NumCells(p) : j < Place(p, cell) => Cell(p, j).key < cell.key
         /\ ~ There(p, cell) =>
              \A j \in 1 .. NumCells(p) : Place(p, cell) <= j => cell.key < Cell(p, j).key
         /\ There(p, cell) =>
              Place(p, cell) \in 1 .. NumCells(p) /\ Cell(p, Place(p, cell)).key = cell.key
<1> DEFINE q == Base(p, cell)
           n == NumCells(p)
           F == SearchCellLeaf(q, cell.key)
<1>1. cell.key \in Nat
  BY SlottedPageAssumption DEF SlottedPageAssumption, Cells
<1>2. Layout(q) /\ NumCells(q) = n /\ \A j \in 1 .. n : Cell(q, j) = Cell(p, j)
  BY BaseSound DEF Sound
<1>3. n \in Nat
  BY FiniteCells DEF Layout, Sound
<1>4. Place(p, cell) = F + 1 /\ (There(p, cell) <=> F + 1 <= NumCells(q) /\ Cell(q, F + 1).key = cell.key)
  BY DEF Place, There
<1> HIDE DEF q, F
<1>5. F \in 0 .. n /\ \A j \in 1 .. n : Cell(q, j).key < cell.key <=> j <= F
  <2> HIDE DEF n
  <2>1. F \in 0 .. NumCells(q)
    BY <1>1, <1>2, SearchLeafPlace DEF F
  <2>2. \A j \in 1 .. NumCells(q) : Cell(q, j).key < cell.key <=> j <= F
    BY <1>1, <1>2, SearchLeafPlace DEF F
  <2> QED BY <1>2, <2>1, <2>2
<1>6. \A j \in 1 .. n : Cell(p, j).key < cell.key <=> j <= F
  BY <1>2, <1>5
<1>7. \A j \in 1 .. n : Cell(p, j).key \in Nat
  BY CellKey DEF Sound
<1>8. \A i, j \in 1 .. n : i < j => Cell(p, i).key < Cell(p, j).key
  BY DEF Sound, Layout, KeysRise
<1> HIDE DEF n
<1>9. F + 1 \in 1 .. n + 1 /\ \A j \in 1 .. n : j < F + 1 => Cell(p, j).key < cell.key
  BY <1>3, <1>5, <1>6
<1>10. ASSUME ~ There(p, cell), NEW j \in 1 .. n, F + 1 <= j PROVE cell.key < Cell(p, j).key
  <2>1. F + 1 \in 1 .. n /\ ~ (F + 1 <= F)
    BY <1>3, <1>5, <1>10
  <2>2. ~ (Cell(p, F + 1).key < cell.key)
    BY <1>6, <2>1
  <2>3. Cell(p, F + 1).key # cell.key
    BY <1>2, <1>4, <1>10, <2>1
  <2>4. cell.key < Cell(p, F + 1).key
    BY <1>1, <1>7, <2>1, <2>2, <2>3
  <2>5. j = F + 1 \/ F + 1 < j
    BY <1>5, <1>10
  <2>6. CASE F + 1 < j
    <3>1. Cell(p, F + 1).key < Cell(p, j).key
      BY <1>8, <2>1, <2>6
    <3>2. Cell(p, F + 1).key \in Nat /\ Cell(p, j).key \in Nat
      BY <1>7, <2>1
    <3> QED BY <1>1, <2>4, <3>1, <3>2
  <2> QED BY <2>4, <2>5, <2>6
<1>11. ASSUME There(p, cell) PROVE F + 1 \in 1 .. n /\ Cell(p, F + 1).key = cell.key
  <2>1. F + 1 \in 1 .. n
    BY <1>2, <1>3, <1>4, <1>5, <1>11
  <2> QED BY <1>2, <1>4, <1>11, <2>1
<1> QED BY <1>4, <1>9, <1>10, <1>11 DEF n

-----------------------------------------------------------------------------
(* The contents of a page, cell by cell.                                   *)
LEMMA ContentsCells ==
  ASSUME NEW p, Layout(p)
  PROVE  Contents(p) = {Cell(p, j) : j \in 1 .. NumCells(p)}
<1>1. \A o \in DOMAIN p.mem : \E j \in 1 .. NumCells(p) : Cell(p, j) = p.mem[o]
  BY DEF Layout, Pointers, Cell
<1>2. \A j \in 1 .. NumCells(p) : p.ptrs[j] \in DOMAIN p.mem /\ Cell(p, j) = p.mem[p.ptrs[j]]
  BY CellKey DEF Cell
<1> QED BY <1>1, <1>2 DEF Contents

(* What a cell takes is a number.                                          *)
LEMMA RoomNat ==
  ASSUME NEW cell \in Cells
  PROVE  cell.size \in Nat \ {0} /\ cell.key \in Nat /\ Room(cell) \in Nat /\ Room(cell) = cell.size + PtrSize
<1>1. cell.size \in Size /\ cell.key \in Key
  BY DEF Cells
<1>2. cell.size \in Nat \ {0} /\ cell.key \in Nat
  BY <1>1, SlottedPageAssumption DEF SlottedPageAssumption
<1>3. PtrSize \in Nat
  BY PointerArea
<1> QED BY <1>2, <1>3 DEF Room

(* A cell that is put into the page.                                       *)
LEMMA InsertedCell ==
  ASSUME NEW p, NEW exact, Sound(p, exact), NEW cell \in Cells, p.room >= Room(cell), ~ There(p, cell)
  PROVE  LET q == Base(p, cell)
             r == PutCell(q, Place(p, cell), cell)
         IN  /\ Layout(q) /\ Contents(q) = Contents(p)
             /\ Added(q, r, Place(p, cell), cell)
             /\ Sound(r, exact) /\ Used(r) = Used(p) + Room(cell)
<1> DEFINE q == Base(p, cell)
           i == Place(p, cell)
           r == PutCell(q, i, cell)
<1>1. /\ Sound(q, exact) /\ NumCells(q) = NumCells(p)
      /\ q.room = p.room /\ Used(q) = Used(p)
      /\ q.back - PtrsEnd(q) >= Room(cell)
      /\ \A j \in 1 .. NumCells(p) : Cell(q, j) = Cell(p, j)
  BY BaseSound
<1>2. /\ i \in 1 .. NumCells(p) + 1
      /\ \A j \in 1 .. NumCells(p) : j < i => Cell(p, j).key < cell.key
      /\ \A j \in 1 .. NumCells(p) : i <= j => cell.key < Cell(p, j).key
  BY InsertPlace
<1>3. r.room = q.room - Room(cell)
  BY DEF PutCell, Room
<1> HIDE DEF q, i
<1>4. Layout(q) /\ Contents(q) = Contents(p)
  BY <1>1, ContentsCells DEF Sound
<1>5. cell.size + PtrSize <= q.back - PtrsEnd(q)
  <2>1. q.back \in Nat /\ PtrsEnd(q) \in Nat /\ PtrSize \in Nat /\ cell.size \in Nat
    BY <1>4, SoundNumbers, RoomNat
  <2> QED BY <1>1, <2>1 DEF Room
<1>6. Added(q, r, i, cell)
  <2>1. /\ i \in 1 .. NumCells(q) + 1
        /\ \A j \in 1 .. NumCells(q) : j < i => Cell(q, j).key < cell.key
        /\ \A j \in 1 .. NumCells(q) : i <= j => cell.key < Cell(q, j).key
    BY <1>1, <1>2
  <2> QED BY <1>4, <1>5, <2>1, PutCellAdds
<1> HIDE DEF r
<1>7. Sound(r, exact) /\ Used(r) = Used(q) + Room(cell)
  BY <1>1, <1>3, <1>6, AddedSound
<1> QED BY <1>1, <1>4, <1>6, <1>7 DEF q, i, r

(* insert_cell() leaves a sound page whatever it answers, and never runs   *)
(* into the overflow of total_free_space where that count is exact.        *)
LEMMA InsertCellSound ==
  ASSUME NEW p, NEW exact, Sound(p, exact), NEW cell \in Cells
  PROVE  /\ Sound(InsertCell(p, cell).page, exact)
         /\ InsertCell(p, cell).res \in {"ok", "exists", "full", "overflow"}
         /\ exact => InsertCell(p, cell).res # "overflow"
<1> DEFINE r == InsertCell(p, cell)
<1>1. CASE ~ Gap(p, cell) /\ p.room < Room(cell)
  BY <1>1, InsertCellCases
<1>2. CASE ~ (~ Gap(p, cell) /\ p.room < Room(cell))
  <2>1. Gap(p, cell) \/ p.room >= Room(cell)
    <3>1. p.room \in Nat /\ Room(cell) \in Nat
      BY RoomNat DEF Sound
    <3> QED BY <1>2, <3>1
  <2>2. Sound(Base(p, cell), exact)
    BY <2>1, BaseSound
  <2>3. CASE There(p, cell)
    BY <1>2, <2>2, <2>3, InsertCellCases
  <2>4. CASE ~ There(p, cell) /\ p.room < Room(cell)
    <3>1. Gap(p, cell)
      BY <1>2, <2>4
    <3>2. ~ exact
      <4>1. /\ PtrsEnd(p) \in Nat /\ Total(Sizes(p)) \in Nat /\ p.back \in Nat /\ PageSize \in Nat
            /\ Used(p) = PtrsEnd(p) + Total(Sizes(p)) /\ Total(Sizes(p)) <= PageSize - p.back
        BY SoundNumbers DEF Sound
      <4>2. Room(cell) \in Nat /\ p.room \in Nat
        BY RoomNat DEF Sound
      <4>3. p.room + Used(p) # PageSize
        BY <2>4, <3>1, <4>1, <4>2 DEF Gap
      <4> QED BY <4>3 DEF Sound
    <3>3. r = [res |-> "overflow", page |-> p]
      BY <1>2, <2>4, InsertCellCases
    <3> QED BY <3>2, <3>3
  <2>5. CASE ~ There(p, cell) /\ ~ (p.room < Room(cell))
    <3>1. p.room >= Room(cell)
      BY <2>5, RoomNat DEF Sound
    <3>2. Sound(PutCell(Base(p, cell), Place(p, cell), cell), exact)
      BY <2>5, <3>1, InsertedCell
    <3>3. r = [res |-> "ok", page |-> PutCell(Base(p, cell), Place(p, cell), cell)]
      BY <1>2, <2>5, InsertCellCases
    <3> QED BY <3>2, <3>3
  <2> QED BY <2>3, <2>4, <2>5
<1> QED BY <1>1, <1>2

-----------------------------------------------------------------------------
(* What the answers of insert_cell() mean.                                 *)
LEMMA InsertFull ==
  ASSUME NEW p, NEW exact, Sound(p, exact), NEW cell \in Cells, InsertCell(p, cell).res = "full"
  PROVE  InsertCell(p, cell).page = p /\ p.room < Room(cell)
BY InsertCellCases

(* A leaf answers that the key is there only when it is, and changes no    *)
(* cell.                                                                   *)
LEMMA InsertExists ==
  ASSUME NEW p, Sound(p, TRUE), NEW cell \in Cells, InsertCell(p, cell).res = "exists"
  PROVE  /\ Contents(InsertCell(p, cell).page) = Contents(p)
         /\ p.room >= Room(cell)
         /\ \E c \in Contents(p) : c.key = cell.key
<1>1. /\ ~ (~ Gap(p, cell) /\ p.room < Room(cell))
      /\ There(p, cell)
      /\ InsertCell(p, cell).page = Base(p, cell)
  BY InsertCellCases
<1>2. p.room \in Nat /\ Room(cell) \in Nat
  BY RoomNat DEF Sound
<1>3. Gap(p, cell) \/ p.room >= Room(cell)
  BY <1>1, <1>2
<1>4. /\ Sound(Base(p, cell), TRUE) /\ NumCells(Base(p, cell)) = NumCells(p)
      /\ \A j \in 1 .. NumCells(p) : Cell(Base(p, cell), j) = Cell(p, j)
  BY <1>3, BaseSound
<1>5. Contents(Base(p, cell)) = Contents(p)
  BY <1>4, ContentsCells DEF Sound
<1>6. Place(p, cell) \in 1 .. NumCells(p) /\ Cell(p, Place(p, cell)).key = cell.key
  BY <1>1, <1>3, InsertPlace
<1>7. Cell(p, Place(p, cell)) \in Contents(p)
  BY <1>6, ContentsCells DEF Sound
<1>8. p.room >= Room(cell)
  <2>1. /\ PtrsEnd(p) \in Nat /\ Total(Sizes(p)) \in Nat /\ p.back \in Nat /\ PageSize \in Nat
        /\ Used(p) = PtrsEnd(p) + Total(Sizes(p)) /\ Total(Sizes(p)) <= PageSize - p.back
    BY SoundNumbers DEF Sound
  <2>2. p.room + Used(p) = PageSize
    BY DEF Sound
  <2> QED BY <1>2, <1>3, <2>1, <2>2 DEF Gap
<1> QED BY <1>1, <1>5, <1>6, <1>7, <1>8

(* A cell is taken only when there is room and its key is new, and is then *)
(* one of the cells.                                                       *)
LEMMA InsertOk ==
  ASSUME NEW p, NEW exact, Sound(p, exact), NEW cell \in Cells, InsertCell(p, cell).res = "ok"
  PROVE  /\ p.room >= Room(cell)
         /\ Contents(InsertCell(p, cell).page) = Contents(p) \cup {cell}
         /\ \A c \in Contents(p) : c.key # cell.key
         /\ Used(InsertCell(p, cell).page) = Used(p) + Room(cell)
<1> DEFINE q == Base(p, cell)
           r == PutCell(q, Place(p, cell), cell)
<1>1. /\ ~ There(p, cell) /\ ~ (p.room < Room(cell))
      /\ InsertCell(p, cell).page = r
  BY InsertCellCases
<1>2. p.room \in Nat /\ Room(cell) \in Nat /\ cell.key \in Nat
  BY RoomNat DEF Sound
<1>3. p.room >= Room(cell)
  BY <1>1, <1>2
<1>4. /\ Layout(q) /\ Contents(q) = Contents(p)
      /\ Added(q, r, Place(p, cell), cell)
      /\ Used(r) = Used(p) + Room(cell)
  BY <1>1, <1>3, InsertedCell
<1> HIDE DEF q, r
<1>5. Contents(r) = Contents(q) \cup {cell}
  BY <1>4, AddedLayout
<1>6. ASSUME NEW c \in Contents(p) PROVE c.key # cell.key
  <2>1. PICK j \in 1 .. NumCells(p) : c = Cell(p, j)
    BY ContentsCells DEF Sound
  <2>2. /\ Place(p, cell) \in 1 .. NumCells(p) + 1
        /\ j < Place(p, cell) => Cell(p, j).key < cell.key
        /\ Place(p, cell) <= j => cell.key < Cell(p, j).key
    BY <1>1, <1>3, InsertPlace
  <2>3. Cell(p, j).key \in Nat
    BY CellKey DEF Sound
  <2>4. NumCells(p) \in Nat
    BY SoundNumbers DEF Sound
  <2>5. j < Place(p, cell) \/ Place(p, cell) <= j
    BY <2>2, <2>4
  <2> QED BY <1>2, <2>1, <2>2, <2>3, <2>5
<1> QED BY <1>1, <1>3, <1>4, <1>5, <1>6

(* A cell whose key is above all others comes last.                        *)
LEMMA InsertLast ==
  ASSUME NEW p, Sound(p, TRUE), NEW cell \in Cells, p.room >= Room(cell),
         \A j \in 1 .. NumCells(p) : Cell(p, j).key < cell.key
  PROVE  LET r == InsertCell(p, cell).page
         IN  /\ Sound(r, TRUE) /\ NumCells(r) = NumCells(p) + 1
             /\ Total(Sizes(r)) = Total(Sizes(p)) + cell.size
             /\ Cell(r, NumCells(p) + 1) = cell
             /\ \A j \in 1 .. NumCells(p) : Cell(r, j) = Cell(p, j)
<1> DEFINE n == NumCells(p)
           q == Base(p, cell)
           i == Place(p, cell)
           r == PutCell(q, i, cell)
<1>1. n \in Nat /\ Room(cell) \in Nat /\ cell.key \in Nat /\ p.room \in Nat
  BY SoundNumbers, RoomNat DEF Sound
<1>2. \A j \in 1 .. n : Cell(p, j).key \in Nat /\ Cell(p, j).key < cell.key
  BY CellKey DEF Sound
<1>3. ~ There(p, cell)
  <2>1. There(p, cell) => i \in 1 .. n /\ Cell(p, i).key = cell.key
    BY InsertPlace
  <2> HIDE DEF i, n
  <2> QED BY <1>1, <1>2, <2>1
<1>4. i = n + 1
  <2>1. i \in 1 .. n + 1 /\ \A j \in 1 .. n : i <= j => cell.key < Cell(p, j).key
    BY <1>3, InsertPlace
  <2> HIDE DEF i
  <2>2. i \in 1 .. n => FALSE
    <3>1. i \in 1 .. n => cell.key < Cell(p, i).key /\ Cell(p, i).key < cell.key
      BY <1>1, <2>1
    <3> QED BY <1>1, <1>2, <3>1
  <2> QED BY <1>1, <2>1, <2>2
<1>5. /\ Sound(q, TRUE) /\ NumCells(q) = n /\ Used(q) = Used(p)
      /\ \A j \in 1 .. n : Cell(q, j) = Cell(p, j)
  BY BaseSound
<1>6. Layout(q) /\ Added(q, r, i, cell) /\ Sound(r, TRUE) /\ Used(r) = Used(p) + Room(cell)
  BY <1>3, InsertedCell
<1>7. InsertCell(p, cell).page = r
  BY <1>1, <1>3, InsertCellCases
<1> HIDE DEF q, i, r
<1>8. NumCells(r) = n + 1 /\ Total(Sizes(r)) = Total(Sizes(q)) + cell.size
  BY <1>5, <1>6, AddedLayout
<1>9. Total(Sizes(q)) = Total(Sizes(p))
  <2>1. Used(q) = PtrsEnd(q) + Total(Sizes(q)) /\ Total(Sizes(q)) \in Nat /\ PtrsEnd(q) \in Nat
    BY <1>6, SoundNumbers
  <2>2. Used(p) = PtrsEnd(p) + Total(Sizes(p)) /\ Total(Sizes(p)) \in Nat /\ PtrsEnd(p) \in Nat
    BY SoundNumbers DEF Sound
  <2>3. PtrsEnd(q) = PtrsEnd(p)
    BY <1>5 DEF PtrsEnd
  <2>4. Used(q) = Used(p)
    BY <1>5
  <2> QED BY <2>1, <2>2, <2>3, <2>4
<1>10. \A j \in 1 .. n + 1 :
         Cell(r, j) = IF j < i THEN Cell(q, j) ELSE IF j = i THEN cell ELSE Cell(q, j - 1)
  BY <1>5, <1>6, AddedLayout
<1>11. Cell(r, n + 1) = cell
  BY <1>1, <1>4, <1>10
<1>12. ASSUME NEW j \in 1 .. n PROVE Cell(r, j) = Cell(p, j)
  <2>1. j \in 1 .. n + 1 /\ j < i
    BY <1>1, <1>4
  <2> QED BY <1>5, <1>10, <2>1
<1> QED BY <1>6, <1>7, <1>8, <1>9, <1>11, <1>12

-----------------------------------------------------------------------------
(* The loop of Built has a value at every step.                            *)
LEMMA BuiltDef ==
  ASSUME NEW p, NumCells(p) \in Nat, NEW i \in 1 .. NumCells(p) + 1
  PROVE  /\ Built(p, i)[0] = NewPage
         /\ \A k \in 1 .. NumCells(p) + 1 - i :
              Built(p, i)[k] = InsertCell(Built(p, i)[k - 1], Cell(p, i + k - 1)).page
<1> DEFINE n == NumCells(p) + 1 - i
           Is(m, g) == g = [k \in 0 .. m |-> IF k = 0 THEN NewPage ELSE InsertCell(g[k - 1], Cell(p, i + k - 1)).page]
           S == {m \in Nat : \E g : Is(m, g)}
<1>0. n \in Nat
  OBVIOUS
<1>1. 0 \in S
  <2>1. Is(0, [k \in 0 .. 0 |-> NewPage])
    OBVIOUS
  <2>2. \E g : Is(0, g)
    BY <2>1
  <2> QED BY <2>2
<1>2. ASSUME NEW m \in Nat, m \in S PROVE m + 1 \in S
  <2>1. PICK g : Is(m, g)
    BY <1>2
  <2> DEFINE h == [k \in 0 .. m + 1 |-> IF k = m + 1 THEN InsertCell(g[m], Cell(p, i + k - 1)).page ELSE g[k]]
  <2>2. ASSUME NEW k \in 0 .. m + 1
        PROVE  h[k] = IF k = 0 THEN NewPage ELSE InsertCell(h[k - 1], Cell(p, i + k - 1)).page
    <3>1. CASE k = m + 1
      BY <3>1
    <3>2. CASE k # m + 1
      BY <2>1, <3>2
    <3> QED BY <3>1, <3>2
  <2>3. Is(m + 1, h)
    BY <2>2
  <2> HIDE DEF Is
  <2>4. \E f : Is(m + 1, f)
    BY <2>3
  <2> QED BY <2>4
<1>3. \E g : Is(n, g)
  <2>1. Nat \subseteq S
    <3> HIDE DEF S
    <3> QED BY <1>1, <1>2, SetInduction
  <2> HIDE DEF n
  <2> QED BY <1>0, <2>1
<1>4. Is(n, CHOOSE g : Is(n, g))
  <2> HIDE DEF Is
  <2> QED BY <1>3
<1>5. Built(p, i) = CHOOSE g : Is(n, g)
  BY DEF Built
<1>6. Is(n, Built(p, i))
  <2> HIDE DEF Is
  <2> QED BY <1>4, <1>5
<1> QED BY <1>0, <1>6

(* What inserting k cells of a page, from place i on, into a new page has  *)
(* done.                                                                   *)
BuiltSoFar(p, i, q, k) ==
  /\ Sound(q, TRUE) /\ NumCells(q) = k
  /\ \A j \in 1 .. k : Cell(q, j) = Cell(p, i + j - 1)
  /\ Total(Sizes(q)) = Total(Part(p, i, i + k - 1))

(* One cell more: there is always room, since the cells had room in the    *)
(* page they come from.                                                    *)
LEMMA BuildOne ==
  ASSUME NEW p, NEW exact, Sound(p, exact), NEW i \in 1 .. NumCells(p) + 1, NEW k \in 0 .. NumCells(p) - i,
         NEW q, BuiltSoFar(p, i, q, k)
  PROVE  BuiltSoFar(p, i, InsertCell(q, Cell(p, i + k)).page, k + 1)
<1> DEFINE n == NumCells(p)
           cell == Cell(p, i + k)
           r == InsertCell(q, cell).page
<1>1. /\ n \in Nat /\ i + k \in 1 .. n
      /\ PtrsEnd(p) \in Nat /\ Total(Sizes(p)) \in Nat /\ PtrsEnd(p) = HeaderSize + PtrSize * n
      /\ p.back \in Nat /\ PageSize \in Nat /\ p.room \in Nat
      /\ Total(Sizes(p)) <= PageSize - p.back /\ PtrsEnd(p) <= p.back
  BY SoundNumbers DEF Sound, PtrsEnd
<1>2. cell \in Cells /\ cell.size \in Nat /\ cell.key \in Nat
  BY <1>1, CellKey DEF Sound
<1>3. Sound(q, TRUE) /\ NumCells(q) = k /\ Total(Sizes(q)) = Total(Part(p, i, i + k - 1))
  BY DEF BuiltSoFar
<1>4. \A j \in 1 .. k : Cell(q, j) = Cell(p, i + j - 1)
  BY DEF BuiltSoFar
<1> HIDE DEF cell
<1>5. Total(Part(p, i, i + k)) = Total(Sizes(q)) + cell.size
  <2>1. i + k \in 1 .. NumCells(p) /\ i \in 1 .. i + k
    BY <1>1
  <2>2. Total(Part(p, i, i + k)) = Total(Part(p, i, i + k - 1)) + Cell(p, i + k).size
    BY <2>1, PartHigh DEF Sound
  <2> QED BY <1>3, <2>2 DEF cell
<1>6. Total(Part(p, i, i + k)) \in Nat /\ Total(Part(p, i, i + k)) <= Total(Sizes(p))
  <2>1. i \in Nat \ {0} /\ i + k \in 0 .. NumCells(p)
    BY <1>1
  <2> QED BY <2>1, PartSum DEF Sound
<1>7. q.room >= Room(cell)
  <2>1. q.room + Used(q) = PageSize /\ q.room \in Nat
    BY <1>3 DEF Sound
  <2>2. Used(q) = PtrsEnd(q) + Total(Sizes(q)) /\ PtrsEnd(q) \in Nat /\ Total(Sizes(q)) \in Nat
    BY <1>3, SoundNumbers DEF Sound
  <2>3. PtrsEnd(q) + PtrSize <= PtrsEnd(p)
    <3>1. PtrSize * (k + 1) = PtrSize * k + PtrSize /\ PtrSize * k \in Nat
      BY PointerArea
    <3>2. PtrSize * (k + 1) <= PtrSize * n
      <4>1. PtrSize \in Nat /\ k + 1 \in Nat /\ n \in Nat /\ k + 1 <= n
        BY <1>1, PointerArea
      <4> HIDE DEF n
      <4> QED BY <4>1, TimesMonotone
    <3>3. HeaderSize \in Nat /\ PtrSize \in Nat /\ PtrSize * n \in Nat
      BY <1>1, PointerArea
    <3>4. PtrsEnd(q) = HeaderSize + PtrSize * k
      BY <1>3 DEF PtrsEnd
    <3> HIDE DEF n
    <3> QED BY <1>1, <3>1, <3>2, <3>3, <3>4
  <2>4. PtrSize \in Nat
    BY PointerArea
  <2> QED BY <1>1, <1>2, <1>5, <1>6, <2>1, <2>2, <2>3, <2>4 DEF Room
<1>8. \A j \in 1 .. NumCells(q) : Cell(q, j).key < cell.key
  <2>1. \A j \in 1 .. k : i + j - 1 \in 1 .. n /\ i + j - 1 < i + k
    BY <1>1
  <2>2. \A j \in 1 .. k : Cell(p, i + j - 1).key < Cell(p, i + k).key
    BY <1>1, <2>1 DEF Sound, Layout, KeysRise
  <2> QED BY <1>3, <1>4, <2>2 DEF cell
<1>9. /\ Sound(r, TRUE) /\ NumCells(r) = NumCells(q) + 1
      /\ Total(Sizes(r)) = Total(Sizes(q)) + cell.size
      /\ Cell(r, NumCells(q) + 1) = cell
  BY <1>2, <1>3, <1>7, <1>8, InsertLast
<1>10. \A j \in 1 .. NumCells(q) : Cell(r, j) = Cell(q, j)
  BY <1>2, <1>3, <1>7, <1>8, InsertLast
<1> HIDE DEF r
<1>11. ASSUME NEW j \in 1 .. k + 1 PROVE Cell(r, j) = Cell(p, i + j - 1)
  <2>1. CASE j = k + 1
    <3>1. i + j - 1 = i + k
      BY <1>1, <2>1
    <3> QED BY <1>3, <1>9, <2>1, <3>1 DEF cell
  <2>2. CASE j # k + 1
    <3>1. j \in 1 .. k
      BY <1>1, <2>2
    <3> QED BY <1>3, <1>4, <1>10, <3>1
  <2> QED BY <2>1, <2>2
<1>12. i + (k + 1) - 1 = i + k
  BY <1>1
<1>13. Total(Sizes(r)) = Total(Part(p, i, i + (k + 1) - 1))
  BY <1>5, <1>9, <1>12
<1>14. BuiltSoFar(p, i, r, k + 1)
  BY <1>3, <1>9, <1>11, <1>13 DEF BuiltSoFar
<1> QED BY <1>14 DEF r, cell

(* The page split_page() and the rebalancing methods build.                *)
LEMMA RebuiltSound ==
  ASSUME NEW p, NEW exact, Sound(p, exact), NEW i \in 1 .. NumCells(p) + 1
  PROVE  BuiltSoFar(p, i, Rebuilt(p, i), NumCells(p) + 1 - i)
<1> DEFINE n == NumCells(p) + 1 - i
           f == Built(p, i)
           S == {k \in Nat : BuiltSoFar(p, i, f[k], k)}
<1>1. NumCells(p) \in Nat
  BY SoundNumbers DEF Sound
<1>2. n \in Nat
  BY <1>1
<1>3. f[0] = NewPage /\ \A k \in 1 .. n : f[k] = InsertCell(f[k - 1], Cell(p, i + k - 1)).page
  BY <1>1, BuiltDef
<1>4. 0 \in S
  <2>1. Total(Part(p, i, i + 0 - 1)) = 0
    <3>1. i \in Int /\ i + 0 - 1 \in Int /\ i + 0 - 1 < i
      BY <1>1
    <3> QED BY <3>1, PartEmpty
  <2>2. NumCells(NewPage) = 0 /\ Total(Sizes(NewPage)) = Total(Part(p, i, i + 0 - 1))
    BY <2>1, NewPageLayout
  <2>3. \A j \in 1 .. 0 : Cell(NewPage, j) = Cell(p, i + j - 1)
    OBVIOUS
  <2>4. BuiltSoFar(p, i, NewPage, 0)
    BY <2>2, <2>3, NewPageSound DEF BuiltSoFar
  <2> QED BY <1>3, <2>4
<1>5. \A k \in 0 .. n - 1 : k \in S => k + 1 \in S
  <2>1. SUFFICES ASSUME NEW k \in 0 .. n - 1, k \in S PROVE k + 1 \in S
    OBVIOUS
  <2>2. k + 1 \in 1 .. n /\ (k + 1) - 1 = k /\ i + (k + 1) - 1 = i + k /\ k + 1 \in Nat /\ k \in 0 .. NumCells(p) - i
    BY <1>1
  <2>3. f[k + 1] = InsertCell(f[k], Cell(p, i + k)).page
    BY <1>3, <2>2
  <2> HIDE DEF f, n
  <2>4. BuiltSoFar(p, i, InsertCell(f[k], Cell(p, i + k)).page, k + 1)
    BY <2>1, <2>2, BuildOne
  <2> QED BY <2>2, <2>3, <2>4
<1>6. n \in S
  <2> HIDE DEF S, n
  <2>1. \A k \in 0 .. n : k \in S
    BY <1>2, <1>4, <1>5, IntervalInduction
  <2> QED BY <1>2, <2>1
<1>7. Rebuilt(p, i) = f[n]
  BY DEF Rebuilt
<1> QED BY <1>6, <1>7

-----------------------------------------------------------------------------
(* Page r has some of the cells of page p, where they were and in the same *)
(* order: its cell j is cell g[j] of p.                                    *)
Kept(p, r, g) ==
  /\ r.ptrs \in Seq(Nat) /\ r.back = p.back
  /\ \A j \in 1 .. NumCells(r) : g[j] \in 1 .. NumCells(p) /\ r.ptrs[j] = p.ptrs[g[j]]
  /\ \A j, k \in 1 .. NumCells(r) : j < k => g[j] < g[k]
  /\ \A j \in 1 .. NumCells(r) : r.ptrs[j] \in DOMAIN r.mem
  /\ \A o \in DOMAIN r.mem : \E j \in 1 .. NumCells(r) : r.ptrs[j] = o
  /\ \A o \in DOMAIN r.mem : r.mem[o] = p.mem[o]

(* Its cells are cells of p.                                               *)
LEMMA KeptCell ==
  ASSUME NEW p, NEW r, NEW g, Layout(p), Kept(p, r, g), NEW j \in 1 .. NumCells(r)
  PROVE  Cell(r, j) = Cell(p, g[j])
BY DEF Kept, Cell

(* Such a page is laid out as it should be, when p is.                     *)
LEMMA KeptLayout ==
  ASSUME NEW p, NEW r, NEW g, Layout(p), Kept(p, r, g)
  PROVE  /\ Layout(r) /\ DOMAIN r.mem \subseteq DOMAIN p.mem
<1> DEFINE n == NumCells(p)
           m == NumCells(r)
<1>1. /\ \A j \in 1 .. m : g[j] \in 1 .. n /\ r.ptrs[j] = p.ptrs[g[j]] /\ r.ptrs[j] \in DOMAIN r.mem
      /\ \A j, k \in 1 .. m : j < k => g[j] < g[k]
      /\ \A o \in DOMAIN r.mem : \E j \in 1 .. m : r.ptrs[j] = o
      /\ \A o \in DOMAIN r.mem : r.mem[o] = p.mem[o]
      /\ r.ptrs \in Seq(Nat) /\ r.back = p.back
  BY DEF Kept
<1>2. \A j \in 1 .. n : p.ptrs[j] \in DOMAIN p.mem
  BY CellKey
<1>3. DOMAIN r.mem \subseteq DOMAIN p.mem
  <2> HIDE DEF n, m
  <2>1. ASSUME NEW o \in DOMAIN r.mem PROVE o \in DOMAIN p.mem
    <3>1. PICK j \in 1 .. m : r.ptrs[j] = o
      BY ONLY <1>1, <2>1
    <3>2. g[j] \in 1 .. n /\ o = p.ptrs[g[j]]
      BY ONLY <1>1, <3>1
    <3> QED BY ONLY <1>2, <3>2
  <2> QED BY ONLY <2>1
<1>4. Pointers(r)
  <2>1. \A j, k \in 1 .. n : j < k => p.ptrs[j] # p.ptrs[k]
    BY DEF Layout, Pointers
  <2>2. \A j, k \in 1 .. m : j < k => r.ptrs[j] # r.ptrs[k]
    <3>1. TAKE j, k \in 1 .. m
    <3>2. HAVE j < k
    <3>3. g[j] \in 1 .. n /\ g[k] \in 1 .. n /\ g[j] < g[k]
      BY <1>1, <3>2
    <3> QED BY <1>1, <2>1, <3>3
  <2> QED BY <1>1, <2>2 DEF Pointers
<1>5. Placed(r)
  BY <1>1, <1>3 DEF Layout, Placed
<1>6. \A j \in 1 .. m : Cell(r, j) = Cell(p, g[j])
  BY KeptCell
<1>7. KeysRise(r)
  <2>1. \A j, k \in 1 .. n : j < k => Cell(p, j).key < Cell(p, k).key
    BY DEF Layout, KeysRise
  <2>2. \A j, k \in 1 .. m : j < k => Cell(r, j).key < Cell(r, k).key
    <3>1. TAKE j, k \in 1 .. m
    <3>2. HAVE j < k
    <3>3. g[j] \in 1 .. n /\ g[k] \in 1 .. n /\ g[j] < g[k]
      BY <1>1, <3>2
    <3>4. Cell(p, g[j]).key < Cell(p, g[k]).key
      BY <2>1, <3>3
    <3> QED BY <1>6, <3>4
  <2> QED BY <2>2 DEF KeysRise
<1>8. Total(Sizes(r)) <= Total(Sizes(p))
  <2>1. /\ IsFiniteSet(DOMAIN Sizes(p)) /\ \A o \in DOMAIN Sizes(p) : Sizes(p)[o] \in Nat
        /\ DOMAIN Sizes(p) = DOMAIN p.mem
    BY FiniteCells DEF Layout
  <2>2. DOMAIN Sizes(r) = DOMAIN r.mem /\ \A o \in DOMAIN Sizes(r) : Sizes(r)[o] = Sizes(p)[o]
    BY <1>1, <1>3 DEF Sizes
  <2> QED BY <1>3, <2>1, <2>2, TotalSubset
<1>9. Total(Sizes(r)) <= PageSize - r.back
  <2>1. Total(Sizes(r)) \in Nat
    BY <1>4, <1>5, FiniteCells
  <2>2. Total(Sizes(p)) \in Nat /\ p.back \in Nat /\ PageSize \in Nat /\ Total(Sizes(p)) <= PageSize - p.back
    BY SoundNumbers
  <2> QED BY <1>1, <1>8, <2>1, <2>2
<1> QED BY <1>3, <1>4, <1>5, <1>7, <1>9 DEF Layout

(* delete_cell() gives back the space of the cell and of its pointer.      *)
LEMMA DeleteCellSound ==
  ASSUME NEW p, NEW exact, Sound(p, exact), NEW i \in 1 .. NumCells(p)
  PROVE  /\ Sound(DeleteCell(p, i), exact)
         /\ Contents(DeleteCell(p, i)) = Contents(p) \ {Cell(p, i)}
<1> DEFINE n == NumCells(p)
           r == DeleteCell(p, i)
           g == [j \in 1 .. n - 1 |-> IF j < i THEN j ELSE j + 1]
           at == p.ptrs[i]
<1>1. n \in Nat /\ p.ptrs \in Seq(Nat) /\ n = Len(p.ptrs) /\ p.room \in Nat
  BY SoundNumbers DEF Sound, Layout, Pointers, NumCells
<1>2. /\ r.ptrs = RemoveAt(p.ptrs, i) /\ r.back = p.back
      /\ DOMAIN r.mem = DOMAIN p.mem \ {at} /\ \A o \in DOMAIN r.mem : r.mem[o] = p.mem[o]
      /\ r.room = p.room + PtrSize + Cell(p, i).size
  BY DEF DeleteCell
<1> HIDE DEF r
<1>3. r.ptrs \in Seq(Nat) /\ NumCells(r) = n - 1
  <2>1. RemoveAt(p.ptrs, i) \in Seq(Nat) /\ Len(RemoveAt(p.ptrs, i)) = Len(p.ptrs) - 1
    BY <1>1, RemoveAtSeq
  <2>2. r.ptrs = RemoveAt(p.ptrs, i) /\ n = Len(p.ptrs)
    BY <1>1, <1>2
  <2> QED BY ONLY <2>1, <2>2 DEF NumCells
<1>4. \A j \in 1 .. n - 1 : g[j] \in 1 .. n /\ g[j] # i
  BY <1>1
<1>5. \A j, k \in 1 .. n - 1 : j < k => g[j] < g[k]
  BY <1>1
<1>6. \A j \in 1 .. n : j # i => \E k \in 1 .. n - 1 : g[k] = j
  <2>1. TAKE j \in 1 .. n
  <2>2. HAVE j # i
  <2>3. CASE j < i
    <3>1. j \in 1 .. n - 1 /\ g[j] = j
      BY <1>1, <2>3
    <3> QED BY <3>1
  <2>4. CASE j > i
    <3>1. j - 1 \in 1 .. n - 1 /\ g[j - 1] = j
      BY <1>1, <2>4
    <3> QED BY <3>1
  <2>5. j < i \/ j > i
    BY <1>1, <2>2
  <2> QED BY <2>3, <2>4, <2>5
<1>7. ASSUME NEW j \in 1 .. n - 1 PROVE r.ptrs[j] = p.ptrs[g[j]]
  <2>1. CASE j < i
    <3>1. j \in 1 .. i - 1
      BY <1>1, <2>1
    <3>2. RemoveAt(p.ptrs, i)[j] = p.ptrs[j]
      BY <1>1, <3>1, RemoveAtBefore
    <3> QED BY <1>2, <2>1, <3>2
  <2>2. CASE j >= i
    <3>1. j \in i .. Len(p.ptrs) - 1
      BY <1>1, <2>2
    <3>2. RemoveAt(p.ptrs, i)[j] = p.ptrs[j + 1]
      BY <1>1, <3>1, RemoveAtBehind
    <3>3. g[j] = j + 1
      BY <1>1, <2>2
    <3> QED BY <1>2, <3>2, <3>3
  <2>3. j < i \/ j >= i
    BY <1>1
  <2> QED BY <2>1, <2>2, <2>3
<1>8. /\ \A j \in 1 .. n : p.ptrs[j] \in DOMAIN p.mem /\ (j # i => p.ptrs[j] # at)
      /\ \A o \in DOMAIN p.mem : \E j \in 1 .. n : p.ptrs[j] = o
  <2>1. \A j, k \in 1 .. n : j < k => p.ptrs[j] # p.ptrs[k]
    BY DEF Sound, Layout, Pointers
  <2>2. \A j \in 1 .. n : j # i => j < i \/ i < j
    BY <1>1
  <2> QED BY <2>1, <2>2 DEF Sound, Layout, Pointers
<1> HIDE DEF g
<1>9. \A j \in 1 .. n - 1 : r.ptrs[j] \in DOMAIN r.mem
  BY <1>2, <1>4, <1>7, <1>8
<1>10. \A o \in DOMAIN r.mem : \E j \in 1 .. n - 1 : r.ptrs[j] = o
  <2>1. TAKE o \in DOMAIN r.mem
  <2>2. PICK k \in 1 .. n : p.ptrs[k] = o
    BY <1>2, <1>8
  <2>3. k # i
    BY <1>2, <2>2
  <2>4. PICK j \in 1 .. n - 1 : g[j] = k
    BY <1>6, <2>3
  <2> QED BY <1>7, <2>2, <2>4
<1>11. Kept(p, r, g)
  BY <1>2, <1>3, <1>4, <1>5, <1>7, <1>9, <1>10 DEF Kept
<1>12. Layout(p)
  BY DEF Sound
<1>13. Layout(r)
  BY <1>11, <1>12, KeptLayout
<1>14. Total(Sizes(p)) = Total(Sizes(r)) + Cell(p, i).size
  <2>1. /\ IsFiniteSet(DOMAIN Sizes(r)) /\ \A o \in DOMAIN Sizes(r) : Sizes(r)[o] \in Nat
        /\ DOMAIN Sizes(r) = DOMAIN r.mem
    BY <1>13, FiniteCells DEF Layout
  <2>2. DOMAIN Sizes(p) = DOMAIN p.mem /\ at \in DOMAIN p.mem /\ Sizes(p)[at] = Cell(p, i).size
    BY <1>8 DEF Sizes, Cell
  <2>3. Cell(p, i).size \in Nat
    BY <1>12, CellKey
  <2>4. \A o \in DOMAIN Sizes(r) : Sizes(p)[o] = Sizes(r)[o]
    BY <1>2 DEF Sizes
  <2>5. at \notin DOMAIN Sizes(r) /\ DOMAIN Sizes(p) = DOMAIN Sizes(r) \cup {at}
    BY <1>2, <2>1, <2>2
  <2> HIDE DEF at
  <2> QED BY <2>1, <2>2, <2>3, <2>4, <2>5, TotalAdd
<1>15. PtrsEnd(p) = PtrsEnd(r) + PtrSize
  <2>1. NumCells(r) \in Nat /\ NumCells(p) = NumCells(r) + 1
    BY <1>1, <1>3
  <2> QED BY <2>1, PtrsEndNext
<1>16. Sound(r, exact)
  <2>1. /\ PtrsEnd(r) \in Nat /\ Total(Sizes(r)) \in Nat /\ Used(r) = PtrsEnd(r) + Total(Sizes(r))
    BY <1>13, SoundNumbers
  <2>2. Used(p) = PtrsEnd(p) + Total(Sizes(p)) /\ PtrSize \in Nat /\ p.back \in Nat
    BY <1>12, SoundNumbers
  <2>3. Cell(p, i).size \in Nat
    BY <1>12, CellKey
  <2>4. PtrsEnd(p) <= p.back
    BY DEF Sound
  <2>5. PtrsEnd(r) <= r.back
    BY <1>2, <1>15, <2>1, <2>2, <2>4
  <2>6. r.room \in Nat /\ r.room + Used(r) = p.room + Used(p)
    <3>1. r.room = p.room + PtrSize + Cell(p, i).size /\ p.room \in Nat
      BY <1>1, <1>2
    <3>2. r.room \in Nat
      BY <2>2, <2>3, <3>1
    <3>3. Used(p) = Used(r) + PtrSize + Cell(p, i).size
      BY <1>14, <1>15, <2>1, <2>2, <2>3
    <3>4. Used(r) \in Nat
      BY <2>1
    <3> QED BY <2>2, <2>3, <3>1, <3>2, <3>3, <3>4
  <2> QED BY <1>13, <2>5, <2>6 DEF Sound
<1>17. Contents(r) = Contents(p) \ {Cell(p, i)}
  <2>1. Contents(p) = {Cell(p, j) : j \in 1 .. n}
    BY <1>12, ContentsCells
  <2>2. Contents(r) = {Cell(r, j) : j \in 1 .. n - 1}
    BY <1>3, <1>13, ContentsCells
  <2>3. \A j \in 1 .. n - 1 : Cell(r, j) = Cell(p, g[j])
    BY <1>3, <1>11, <1>12, KeptCell
  <2>4. \A j \in 1 .. n : j # i => Cell(p, j) # Cell(p, i)
    <3>1. \A j, k \in 1 .. n : j < k => Cell(p, j).key < Cell(p, k).key
      BY <1>12 DEF Layout, KeysRise
    <3>2. \A j \in 1 .. n : Cell(p, j).key \in Nat
      BY <1>12, CellKey
    <3>3. \A j \in 1 .. n : j # i => j < i \/ i < j
      BY <1>1
    <3>4. \A j \in 1 .. n : j # i => Cell(p, j).key # Cell(p, i).key
      BY <3>1, <3>2, <3>3
    <3> QED BY <3>4
  <2>5. Contents(r) \subseteq Contents(p) \ {Cell(p, i)}
    BY <1>4, <2>1, <2>2, <2>3, <2>4
  <2>6. ASSUME NEW c \in Contents(p) \ {Cell(p, i)} PROVE c \in Contents(r)
    <3>1. PICK j \in 1 .. n : c = Cell(p, j)
      BY <2>1
    <3>2. PICK k \in 1 .. n - 1 : g[k] = j
      BY <1>6, <2>6, <3>1
    <3> QED BY <2>2, <2>3, <3>1, <3>2
  <2> QED BY <2>5, <2>6
<1> QED BY <1>16, <1>17 DEF r

-----------------------------------------------------------------------------
(* The cells from place c on: their pointers and their sizes.              *)
LEMMA TailOfPage ==
  ASSUME NEW p, Layout(p), NEW c \in 1 .. NumCells(p) + 1
  PROVE  /\ Len(SubSeq(p.ptrs, c, NumCells(p))) = NumCells(p) + 1 - c
         /\ SizeOf(p, SubSeq(p.ptrs, c, NumCells(p))) = Total(Part(p, c, NumCells(p)))
<1> DEFINE n == NumCells(p)
           s == SubSeq(p.ptrs, c, n)
<1>1. n \in Nat /\ n = Len(p.ptrs) /\ p.ptrs \in Seq(Nat)
  BY SoundNumbers DEF Layout, Pointers, NumCells
<1>2. /\ s \in Seq(Nat) /\ Len(s) = n - c + 1
      /\ \A j \in 1 .. n - c + 1 : s[j] = p.ptrs[c + j - 1]
  <2>1. c \in 1 .. Len(p.ptrs) + 1 /\ n \in c - 1 .. Len(p.ptrs)
    BY <1>1
  <2> HIDE DEF n
  <2> QED BY <1>1, <2>1, SubSeqProperties
<1> HIDE DEF s, n
<1>3. DOMAIN s = 1 .. n - c + 1
  BY <1>2, LenProperties
<1>4. Range(s) = {p.ptrs[j] : j \in c .. n}
  <2>1. \A j \in 1 .. n - c + 1 : c + j - 1 \in c .. n
    BY <1>1
  <2>2. \A j \in c .. n : j - c + 1 \in 1 .. n - c + 1 /\ c + (j - c + 1) - 1 = j
    BY <1>1
  <2>3. Range(s) = {s[j] : j \in 1 .. n - c + 1}
    BY <1>3 DEF Range
  <2>4. \A j \in c .. n : s[j - c + 1] = p.ptrs[j]
    BY <1>2, <2>2
  <2>5. Range(s) \subseteq {p.ptrs[j] : j \in c .. n}
    BY <1>2, <2>1, <2>3
  <2>6. \A j \in c .. n : p.ptrs[j] \in Range(s)
    BY <2>2, <2>3, <2>4
  <2> QED BY <2>5, <2>6
<1>5. SizeOf(p, s) = Total(Part(p, c, n))
  BY <1>4 DEF SizeOf, Part
<1>6. n - c + 1 = n + 1 - c
  BY <1>1 DEF n
<1> QED BY <1>2, <1>5, <1>6 DEF s, n

(* split_page() leaves the first half of the cells; in an internal node it *)
(* forgets to give back the space of the cell that moves up.               *)
LEMMA KeptLeftSound ==
  ASSUME NEW p, leaf \in BOOLEAN, Sound(p, leaf), NumCells(p) > 1
  PROVE  /\ Sound(KeptLeft(p), leaf)
         /\ (NumCells(p) + 1) \div 2 \in 1 .. NumCells(p) - 1
         /\ Contents(KeptLeft(p)) = {Cell(p, j) : j \in 1 .. (NumCells(p) + 1) \div 2}
<1> DEFINE n == NumCells(p)
           h == (n + 1) \div 2
           c == IF leaf THEN h + 1 ELSE h + 2
           r == KeptLeft(p)
           g == [j \in 1 .. h |-> j]
           gone == SubSeq(p.ptrs, c, n)
           kept == SubSeq(p.ptrs, 1, h)
<1>1. n \in Nat /\ n = Len(p.ptrs) /\ p.ptrs \in Seq(Nat) /\ n > 1
  BY SoundNumbers DEF Sound, Layout, Pointers, NumCells
<1>2. h \in 1 .. n - 1
  <2>1. \A m \in Nat : m > 1 => (m + 1) \div 2 \in 1 .. m - 1
    OBVIOUS
  <2> HIDE DEF n
  <2> QED BY <1>1, <2>1
<1>3. Layout(p)
  BY DEF Sound
<1>4. /\ r.ptrs = kept /\ r.mem = [o \in Range(kept) |-> p.mem[o]] /\ r.back = p.back
      /\ r.room = p.room + SizeOf(p, gone) + PtrSize * Len(gone)
  BY DEF KeptLeft
<1> HIDE DEF r, h
<1>5. c \in 1 .. n + 1 /\ c >= h + 1 /\ (leaf => c = h + 1)
  <2>1. CASE leaf
    BY <1>1, <1>2, <2>1
  <2>2. CASE ~ leaf
    BY <1>1, <1>2, <2>2
  <2> QED BY <2>1, <2>2
<1> HIDE DEF c
<1>6. /\ kept \in Seq(Nat) /\ Len(kept) = h
      /\ \A j \in 1 .. h : kept[j] = p.ptrs[j]
  <2>1. 1 \in 1 .. Len(p.ptrs) + 1 /\ h \in 1 - 1 .. Len(p.ptrs)
    BY <1>1, <1>2
  <2>2. /\ kept \in Seq(Nat) /\ Len(kept) = h - 1 + 1
        /\ \A j \in 1 .. h - 1 + 1 : kept[j] = p.ptrs[1 + j - 1]
    BY <1>1, <2>1, SubSeqProperties
  <2>3. h - 1 + 1 = h /\ \A j \in 1 .. h : 1 + j - 1 = j
    BY <1>2
  <2> QED BY <2>2, <2>3
<1>7. Len(gone) = n + 1 - c /\ SizeOf(p, gone) = Total(Part(p, c, n))
  BY <1>3, <1>5, TailOfPage
<1> HIDE DEF gone, kept
<1>8. NumCells(r) = h /\ DOMAIN kept = 1 .. h
  BY <1>4, <1>6, LenProperties DEF NumCells
<1>9. /\ \A j \in 1 .. h : r.ptrs[j] = p.ptrs[j] /\ r.ptrs[j] \in DOMAIN r.mem
      /\ \A o \in DOMAIN r.mem : \E j \in 1 .. h : r.ptrs[j] = o
      /\ \A o \in DOMAIN r.mem : r.mem[o] = p.mem[o]
  BY <1>4, <1>6, <1>8 DEF Range
<1>10. Kept(p, r, g)
  <2>1. \A j \in 1 .. h : g[j] = j /\ j \in 1 .. n
    BY <1>1, <1>2
  <2> HIDE DEF g
  <2> QED BY <1>2, <1>4, <1>6, <1>8, <1>9, <2>1 DEF Kept
<1>11. Layout(r) /\ \A j \in 1 .. h : Cell(r, j) = Cell(p, j)
  <2>1. Layout(r)
    BY <1>3, <1>10, KeptLayout
  <2>2. \A j \in 1 .. h : g[j] = j
    OBVIOUS
  <2> HIDE DEF g
  <2>3. \A j \in 1 .. NumCells(r) : Cell(r, j) = Cell(p, g[j])
    BY <1>3, <1>10, KeptCell
  <2> QED BY <1>8, <2>1, <2>2, <2>3
<1>12. Contents(r) = {Cell(p, j) : j \in 1 .. h}
  BY <1>8, <1>11, ContentsCells
<1>13. Total(Sizes(r)) = Total(Part(p, 1, h))
  <2>1. DOMAIN r.mem = {p.ptrs[j] : j \in 1 .. h}
    BY <1>9
  <2>2. Sizes(r) = Part(p, 1, h)
    BY <1>9, <2>1 DEF Sizes, Part
  <2> QED BY <2>2
<1>14. /\ Total(Part(p, c, n)) \in Nat /\ Total(Part(p, h + 1, n)) \in Nat
       /\ Total(Part(p, c, n)) <= Total(Part(p, h + 1, n))
  <2>1. n \in 0 .. n /\ c \in Nat \ {0} /\ h + 1 \in Nat \ {0}
    BY <1>1, <1>2, <1>5
  <2>2. /\ IsFiniteSet(DOMAIN Part(p, h + 1, n))
        /\ \A o \in DOMAIN Part(p, h + 1, n) : Part(p, h + 1, n)[o] \in Nat
        /\ Total(Part(p, h + 1, n)) \in Nat
    BY <1>3, <2>1, PartSum
  <2>3. Total(Part(p, c, n)) \in Nat
    BY <1>3, <2>1, PartSum
  <2>4. DOMAIN Part(p, c, n) \subseteq DOMAIN Part(p, h + 1, n)
    <3>1. \A j \in c .. n : j \in h + 1 .. n
      BY <1>1, <1>2, <1>5
    <3> QED BY <3>1 DEF Part
  <2>5. \A o \in DOMAIN Part(p, c, n) : Part(p, c, n)[o] = Part(p, h + 1, n)[o]
    BY <2>4 DEF Part
  <2> QED BY <2>2, <2>3, <2>4, <2>5, TotalSubset
<1>15. Total(Sizes(p)) = Total(Sizes(r)) + Total(Part(p, h + 1, n))
  <2>1. h \in 0 .. NumCells(p)
    BY <1>1, <1>2
  <2> QED BY <1>3, <1>13, <2>1, PartSplit
<1>16. /\ PtrSize * h \in Nat /\ PtrSize * (n + 1 - c) \in Nat /\ PtrSize * n \in Nat
       /\ PtrSize * h + PtrSize * (n + 1 - c) <= PtrSize * n
       /\ c = h + 1 => PtrSize * h + PtrSize * (n + 1 - c) = PtrSize * n
  <2>1. PtrSize \in Nat /\ h \in Nat /\ n + 1 - c \in Nat /\ n \in Nat /\ h + (n + 1 - c) <= n
    BY <1>1, <1>2, <1>5, PointerArea
  <2>2. PtrSize * (h + (n + 1 - c)) = PtrSize * h + PtrSize * (n + 1 - c)
    <3> DEFINE b == n + 1 - c
    <3> HIDE DEF b, n
    <3>1. b \in Nat
      BY <2>1 DEF b
    <3>2. PtrSize * (h + b) = PtrSize * h + PtrSize * b
      BY <2>1, <3>1
    <3> QED BY <3>2 DEF b
  <2>3. PtrSize * (h + (n + 1 - c)) <= PtrSize * n
    <3>1. h + (n + 1 - c) \in Nat
      BY <2>1
    <3> HIDE DEF n
    <3> QED BY <2>1, <3>1, TimesMonotone
  <2>4. c = h + 1 => h + (n + 1 - c) = n
    <3>1. c \in Nat /\ h \in Nat /\ n \in Nat
      BY <1>1, <1>2, <1>5
    <3> HIDE DEF n
    <3> QED BY <3>1
  <2>5. PtrSize * h \in Nat /\ PtrSize * (n + 1 - c) \in Nat /\ PtrSize * n \in Nat
    BY <2>1
  <2> QED BY <2>2, <2>3, <2>4, <2>5
<1>17. /\ PtrsEnd(r) = HeaderSize + PtrSize * h /\ PtrsEnd(p) = HeaderSize + PtrSize * n
       /\ HeaderSize \in Nat
  BY <1>8, PointerArea DEF PtrsEnd
<1>18. r.room = p.room + Total(Part(p, c, n)) + PtrSize * (n + 1 - c)
  BY <1>4, <1>7
<1>19. /\ Total(Sizes(r)) \in Nat /\ Used(r) = PtrsEnd(r) + Total(Sizes(r))
  BY <1>11, SoundNumbers
<1>20. /\ Total(Sizes(p)) \in Nat /\ Used(p) = PtrsEnd(p) + Total(Sizes(p)) /\ p.back \in Nat /\ PageSize \in Nat
  BY <1>3, SoundNumbers
<1>21. p.room \in Nat /\ p.room + Used(p) <= PageSize /\ PtrsEnd(p) <= p.back
  BY DEF Sound
<1>22. leaf => p.room + Used(p) = PageSize
  BY DEF Sound
<1> HIDE DEF n
<1>23. r.room \in Nat
  BY <1>14, <1>16, <1>18, <1>21
<1>24. r.room + Used(r) <= p.room + Used(p) /\ Used(r) \in Nat /\ Used(p) \in Nat
  BY <1>14, <1>15, <1>16, <1>17, <1>18, <1>19, <1>20, <1>21
<1>25. leaf => r.room + Used(r) = p.room + Used(p)
  <2>1. SUFFICES ASSUME leaf PROVE r.room + Used(r) = p.room + Used(p)
    OBVIOUS
  <2>2. c = h + 1
    BY <1>5, <2>1
  <2> QED BY <1>14, <1>15, <1>16, <1>17, <1>18, <1>19, <1>20, <1>21, <2>2
<1>26. PtrsEnd(r) <= r.back
  BY <1>4, <1>16, <1>17, <1>20, <1>21
<1>27. r.room + Used(r) <= PageSize
  BY <1>20, <1>21, <1>23, <1>24
<1>28. Sound(r, leaf)
  BY <1>11, <1>22, <1>23, <1>25, <1>26, <1>27 DEF Sound
<1> QED BY <1>2, <1>12, <1>28 DEF r, h, n

-----------------------------------------------------------------------------
(* set_cell_key() to a key between those of the neighbours.                *)
LEMMA ChangeKeySound ==
  ASSUME NEW p, NEW exact, Sound(p, exact), NEW i \in 1 .. NumCells(p), NEW k \in Key,
         i > 1 => Cell(p, i - 1).key < k,
         i < NumCells(p) => k < Cell(p, i + 1).key
  PROVE  Sound(ChangeKey(p, i, k), exact)
<1> DEFINE n == NumCells(p)
           r == ChangeKey(p, i, k)
           at == p.ptrs[i]
<1>1. n \in Nat /\ k \in Nat
  BY SoundNumbers, SlottedPageAssumption DEF Sound, SlottedPageAssumption
<1>2. at \in DOMAIN p.mem /\ Cell(p, i) = p.mem[at] /\ p.mem[at] \in Cells
  BY CellKey DEF Sound, Cell
<1>3. /\ r.ptrs = p.ptrs /\ r.back = p.back /\ r.room = p.room
      /\ r.mem = [p.mem EXCEPT ![at] = [key |-> k, size |-> p.mem[at].size]]
  BY DEF ChangeKey
<1> HIDE DEF r, at
<1>4. /\ DOMAIN r.mem = DOMAIN p.mem
      /\ r.mem[at] = [key |-> k, size |-> p.mem[at].size]
      /\ \A o \in DOMAIN p.mem : o # at => r.mem[o] = p.mem[o]
  BY <1>2, <1>3
<1>5. \A o \in DOMAIN p.mem : r.mem[o].size = p.mem[o].size
  BY <1>4
<1>6. NumCells(r) = n
  BY <1>3 DEF NumCells
<1>7. Pointers(r)
  <2>1. Pointers(p)
    BY DEF Sound, Layout
  <2>2. /\ p.ptrs \in Seq(Nat)
        /\ \A j \in 1 .. n : p.ptrs[j] \in DOMAIN p.mem
        /\ \A o \in DOMAIN p.mem : \E j \in 1 .. n : p.ptrs[j] = o
        /\ \A j, l \in 1 .. n : j < l => p.ptrs[j] # p.ptrs[l]
    BY ONLY <2>1 DEF Pointers
  <2> HIDE DEF n
  <2>3. r.ptrs = p.ptrs /\ DOMAIN r.mem = DOMAIN p.mem /\ NumCells(r) = n
    BY ONLY <1>3, <1>4, <1>6
  <2> QED BY ONLY <2>2, <2>3 DEF Pointers
<1>8. Placed(r)
  <2>1. r.mem[at] \in Cells
    BY <1>2, <1>4 DEF Cells
  <2>2. \A o \in DOMAIN p.mem : r.mem[o] \in Cells
    BY <1>4, <2>1 DEF Sound, Layout, Placed
  <2> QED BY <1>3, <1>4, <1>5, <2>2 DEF Sound, Layout, Placed
<1>9. Cell(r, i).key = k /\ \A j \in 1 .. n : j # i => Cell(r, j) = Cell(p, j)
  <2>1. \A j \in 1 .. n : p.ptrs[j] \in DOMAIN p.mem
    BY CellKey DEF Sound
  <2>2. \A j, m \in 1 .. n : j < m => p.ptrs[j] # p.ptrs[m]
    BY DEF Sound, Layout, Pointers
  <2>3. \A j \in 1 .. n : j # i => j < i \/ i < j
    BY <1>1
  <2>4. \A j \in 1 .. n : j # i => p.ptrs[j] # at
    BY <2>2, <2>3 DEF at
  <2>5. Cell(r, i) = r.mem[at]
    BY <1>3 DEF Cell, at
  <2> QED BY <1>3, <1>4, <2>1, <2>4, <2>5 DEF Cell
<1>10. KeysRise(r)
  <2>1. \A j, m \in 1 .. n : j < m => Cell(p, j).key < Cell(p, m).key
    BY DEF Sound, Layout, KeysRise
  <2>2. \A j \in 1 .. n : Cell(p, j).key \in Nat
    BY CellKey DEF Sound
  <2>3. ASSUME NEW j \in 1 .. n, j < i PROVE Cell(p, j).key < k
    <3>1. i > 1 /\ i - 1 \in 1 .. n /\ (j = i - 1 \/ j < i - 1)
      BY <1>1, <2>3
    <3>2. Cell(p, i - 1).key < k /\ Cell(p, i - 1).key \in Nat
      BY <2>2, <3>1
    <3>3. CASE j < i - 1
      <4>1. Cell(p, j).key < Cell(p, i - 1).key
        BY <2>1, <3>1, <3>3
      <4> QED BY <1>1, <2>2, <3>2, <4>1
    <3> QED BY <3>1, <3>2, <3>3
  <2>4. ASSUME NEW j \in 1 .. n, i < j PROVE k < Cell(p, j).key
    <3>1. i < n /\ i + 1 \in 1 .. n /\ (j = i + 1 \/ i + 1 < j)
      BY <1>1, <2>4
    <3>2. k < Cell(p, i + 1).key /\ Cell(p, i + 1).key \in Nat
      BY <2>2, <3>1
    <3>3. CASE i + 1 < j
      <4>1. Cell(p, i + 1).key < Cell(p, j).key
        BY <2>1, <3>1, <3>3
      <4> QED BY <1>1, <2>2, <3>2, <4>1
    <3> QED BY <3>1, <3>2, <3>3
  <2>5. ASSUME NEW j \in 1 .. n, NEW m \in 1 .. n, j < m PROVE Cell(r, j).key < Cell(r, m).key
    <3>1. CASE j = i
      <4>1. m # i
        BY <1>1, <2>5, <3>1
      <4> QED BY <1>9, <2>4, <2>5, <3>1, <4>1
    <3>2. CASE m = i
      <4>1. j # i
        BY <1>1, <2>5, <3>2
      <4> QED BY <1>9, <2>3, <2>5, <3>2, <4>1
    <3>3. CASE j # i /\ m # i
      BY <1>9, <2>1, <2>5, <3>3
    <3> QED BY <3>1, <3>2, <3>3
  <2> QED BY <1>6, <2>5 DEF KeysRise
<1>11. Sizes(r) = Sizes(p)
  BY <1>4, <1>5 DEF Sizes
<1>12. Layout(r)
  BY <1>3, <1>7, <1>8, <1>10, <1>11 DEF Sound, Layout
<1>13. PtrsEnd(r) = PtrsEnd(p) /\ Used(r) = Used(p)
  BY <1>6, <1>11 DEF PtrsEnd, Used
<1>14. Sound(r, exact)
  BY <1>3, <1>12, <1>13 DEF Sound
<1> QED BY <1>14 DEF r

-----------------------------------------------------------------------------
(* The inductive invariant of the specification.                           *)
IInv ==
  /\ leaf \in BOOLEAN
  /\ Sound(page, leaf)
  /\ reply \in {"none", "ok", "exists", "full", "overflow"}
  /\ leaf => reply # "overflow"

(* An exact count is not too large.                                        *)
LEMMA SoundOfExact ==
  ASSUME NEW p, NEW exact, Sound(p, TRUE)
  PROVE  Sound(p, exact)
BY DEF Sound

(* The places of the pointers.                                             *)
LEMMA PtrsDomain ==
  ASSUME NEW p, Layout(p)
  PROVE  DOMAIN p.ptrs = 1 .. NumCells(p)
BY LenProperties DEF Layout, Pointers, NumCells

(* A new page is sound.                                                    *)
LEMMA InitIInv == Init => IInv
<1> SUFFICES ASSUME Init PROVE IInv
  OBVIOUS
<1>1. leaf \in BOOLEAN /\ page = NewPage /\ reply = "none"
  BY DEF Init
<1>2. Sound(page, leaf)
  BY <1>1, NewPageSound, SoundOfExact
<1> QED BY <1>1, <1>2 DEF IInv

(* Every step leaves the page sound: one case per action.                  *)
LEMMA NextIInv == IInv /\ [Next]_vars => IInv'
<1> SUFFICES ASSUME IInv, [Next]_vars PROVE IInv'
  OBVIOUS
<1>1. leaf \in BOOLEAN /\ Sound(page, leaf) /\ reply \in {"none", "ok", "exists", "full", "overflow"}
  BY DEF IInv
<1>2. leaf => reply # "overflow"
  BY DEF IInv
<1>3. leaf' = leaf
  BY DEF Next, vars
<1>4. DOMAIN page.ptrs = 1 .. NumCells(page) /\ NumCells(page) \in Nat
  BY <1>1, PtrsDomain, SoundNumbers DEF Sound
<1>5. SUFFICES /\ Sound(page', leaf)
               /\ reply' \in {"none", "ok", "exists", "full", "overflow"}
               /\ leaf => reply' # "overflow"
  BY <1>1, <1>3 DEF IInv
<1>6. ASSUME NEW k \in Key, NEW s \in Size, Insert(k, s)
      PROVE  /\ Sound(page', leaf)
             /\ reply' \in {"none", "ok", "exists", "full", "overflow"}
             /\ leaf => reply' # "overflow"
  <2> DEFINE cell == [key |-> k, size |-> s]
  <2>1. cell \in Cells
    BY DEF Cells
  <2>2. page' = InsertCell(page, cell).page /\ reply' = InsertCell(page, cell).res
    BY <1>6 DEF Insert
  <2> HIDE DEF cell
  <2>3. /\ Sound(InsertCell(page, cell).page, leaf)
        /\ InsertCell(page, cell).res \in {"ok", "exists", "full", "overflow"}
        /\ leaf => InsertCell(page, cell).res # "overflow"
    BY <1>1, <2>1, InsertCellSound
  <2> QED BY <2>2, <2>3
<1>7. ASSUME NEW i \in DOMAIN page.ptrs, Delete(i)
      PROVE  Sound(page', leaf) /\ reply' = "ok"
  <2>1. page' = DeleteCell(page, i) /\ reply' = "ok" /\ i \in 1 .. NumCells(page)
    BY <1>4, <1>7 DEF Delete
  <2> QED BY <1>1, <2>1, DeleteCellSound
<1>8. ASSUME NEW i \in DOMAIN page.ptrs, GiveFirst(i)
      PROVE  Sound(page', leaf) /\ reply' = "ok"
  <2>1. page' = Rebuilt(page, i) /\ reply' = "ok" /\ i \in 1 .. NumCells(page) + 1
    BY <1>4, <1>8 DEF GiveFirst
  <2>2. Sound(page', TRUE)
    BY <1>1, <2>1, RebuiltSound DEF BuiltSoFar
  <2> QED BY <2>1, <2>2, SoundOfExact
<1>9. ASSUME NEW i \in DOMAIN page.ptrs, NEW k \in Key, SetCellKey(i, k)
      PROVE  Sound(page', leaf) /\ reply' = "ok"
  <2>1. /\ page' = ChangeKey(page, i, k) /\ reply' = "ok" /\ i \in 1 .. NumCells(page)
        /\ i > 1 => Cell(page, i - 1).key < k
        /\ i < NumCells(page) => k < Cell(page, i + 1).key
    BY <1>4, <1>9 DEF SetCellKey
  <2> QED BY <1>1, <2>1, ChangeKeySound
<1>10. ASSUME Split
       PROVE  Sound(page', leaf) /\ reply' = "ok"
  <2>1. page' \in {KeptLeft(page), MovedRight(page)} /\ reply' = "ok" /\ NumCells(page) > 1
    BY <1>10 DEF Split
  <2>2. Sound(KeptLeft(page), leaf) /\ (NumCells(page) + 1) \div 2 \in 1 .. NumCells(page) - 1
    BY <1>1, <2>1, KeptLeftSound
  <2> DEFINE h == (NumCells(page) + 1) \div 2
             i == IF leaf THEN h + 1 ELSE h + 2
  <2>3. MovedRight(page) = Rebuilt(page, i)
    BY DEF MovedRight
  <2> HIDE DEF h
  <2>4. h \in 1 .. NumCells(page) - 1
    BY <2>2 DEF h
  <2>5. i \in 1 .. NumCells(page) + 1
    <3>1. h + 1 \in 1 .. NumCells(page) + 1 /\ h + 2 \in 1 .. NumCells(page) + 1
      BY <1>4, <2>4
    <3> QED BY <3>1
  <2> HIDE DEF i
  <2>6. Sound(MovedRight(page), TRUE)
    BY <1>1, <2>3, <2>5, RebuiltSound DEF BuiltSoFar
  <2>7. Sound(MovedRight(page), leaf)
    BY <2>6, SoundOfExact
  <2> QED BY <2>1, <2>2, <2>7
<1>11. CASE StayPanicked
  BY <1>1, <1>2, <1>11 DEF StayPanicked
<1>12. CASE UNCHANGED vars
  BY <1>1, <1>2, <1>12 DEF vars
<1>13. ASSUME Next
       PROVE  \/ \E k \in Key, s \in Size : Insert(k, s)
              \/ \E i \in DOMAIN page.ptrs : Delete(i) \/ GiveFirst(i)
              \/ \E i \in DOMAIN page.ptrs, k \in Key : SetCellKey(i, k)
              \/ Split \/ StayPanicked
  BY <1>13 DEF Next
<1> QED BY <1>6, <1>7, <1>8, <1>9, <1>10, <1>11, <1>12, <1>13

(* The page is sound in every state.                                       *)
LEMMA Invariance == Spec => []IInv
BY InitIInv, NextIInv, PTL DEF Spec

-----------------------------------------------------------------------------
(* TypeOK: a pointer never leads outside the page, and no count of free    *)
(* space is negative or larger than an empty page has.                     *)
LEMMA IInvTypeOK == IInv => TypeOK
<1> SUFFICES ASSUME IInv PROVE TypeOK
  OBVIOUS
<1>1. Sound(page, leaf) /\ Layout(page)
  BY DEF IInv, Sound
<1>2. /\ NumCells(page) \in Nat /\ PtrsEnd(page) \in Nat /\ Total(Sizes(page)) \in Nat
      /\ page.back \in Nat /\ PageSize \in Nat
      /\ Used(page) = PtrsEnd(page) + Total(Sizes(page))
  BY <1>1, SoundNumbers
<1>3. HeaderSize \in Nat /\ HeaderSize <= PtrsEnd(page)
  <2>1. PtrSize * NumCells(page) \in Nat /\ HeaderSize \in Nat
    BY <1>2, PointerArea
  <2> QED BY <2>1 DEF PtrsEnd
<1>4. page.ptrs \in Seq(HeaderSize .. PageSize - 1)
  <2>1. page.ptrs \in Seq(Nat) /\ NumCells(page) = Len(page.ptrs)
    BY <1>1 DEF Layout, Pointers, NumCells
  <2>2. ASSUME NEW i \in 1 .. Len(page.ptrs) PROVE page.ptrs[i] \in HeaderSize .. PageSize - 1
    <3>1. page.ptrs[i] \in DOMAIN page.mem /\ Cell(page, i).size \in Nat \ {0}
      BY <1>1, <2>1, <2>2, CellKey
    <3> DEFINE o == page.ptrs[i]
    <3>2. o \in Nat /\ page.back <= o /\ o + Cell(page, i).size <= PageSize
      BY <1>1, <3>1 DEF Layout, Placed, Cell
    <3>3. PtrsEnd(page) <= page.back
      BY <1>1 DEF Sound
    <3> HIDE DEF o
    <3>4. o \in HeaderSize .. PageSize - 1
      <4> DEFINE a == PtrsEnd(page)
                 b == Cell(page, i).size
                 h == HeaderSize
                 z == PageSize
                 l == page.back
      <4>1. /\ o \in Nat /\ a \in Nat /\ b \in Nat \ {0} /\ h \in Nat /\ z \in Nat
            /\ l \in Nat /\ h <= a /\ a <= l /\ l <= o /\ o + b <= z
        BY <1>2, <1>3, <3>1, <3>2, <3>3
      <4> HIDE DEF a, b, h, z, l
      <4>2. o \in h .. z - 1
        BY ONLY <4>1
      <4> QED BY ONLY <4>2 DEF h, z
    <3> QED BY <3>4 DEF o
  <2>3. Len(page.ptrs) \in Nat /\ page.ptrs \in [1 .. Len(page.ptrs) -> HeaderSize .. PageSize - 1]
    BY <2>1, <2>2, LenProperties
  <2> QED BY <2>3, SeqDef
<1>5. \A o \in DOMAIN page.mem : page.mem[o] \in [key : Key, size : Size]
  BY <1>1 DEF Layout, Placed, Cells
<1>6. page.back \in HeaderSize .. PageSize
  <2>1. PtrsEnd(page) <= page.back /\ page.back <= PageSize
    BY <1>1 DEF Sound, Layout, Placed
  <2> QED BY <1>2, <1>3, <2>1
<1>7. page.room \in 0 .. PageSize - HeaderSize
  <2>1. page.room \in Nat /\ page.room + Used(page) <= PageSize
    BY <1>1 DEF Sound
  <2> QED BY <1>2, <1>3, <2>1
<1> QED BY <1>4, <1>5, <1>6, <1>7 DEF IInv, TypeOK

(* Every page has its type in every state.                                 *)
THEOREM TypeCorrect == Spec => []TypeOK
BY Invariance, IInvTypeOK, PTL

(* The pointers lead to all cells.                                         *)
LEMMA PtrsRange ==
  ASSUME NEW p, Layout(p)
  PROVE  Range(p.ptrs) = DOMAIN p.mem
<1>1. Range(p.ptrs) = {p.ptrs[j] : j \in 1 .. NumCells(p)}
  BY PtrsDomain DEF Range
<1>2. \A j \in 1 .. NumCells(p) : p.ptrs[j] \in DOMAIN p.mem
  BY CellKey
<1>3. \A o \in DOMAIN p.mem : \E j \in 1 .. NumCells(p) : p.ptrs[j] = o
  BY DEF Layout, Pointers
<1> QED BY <1>1, <1>2, <1>3

(* CellsIntact: no insert, no defragmentation, no split and no transfer    *)
(* ever writes over a cell or a pointer, loses a cell, or puts keys out of *)
(* order, whatever the sizes of the page and of the cells.                 *)
LEMMA IInvCellsIntact == IInv => CellsIntact
<1> SUFFICES ASSUME IInv PROVE CellsIntact
  OBVIOUS
<1>1. Sound(page, leaf) /\ Layout(page) /\ PtrsEnd(page) <= page.back
  BY DEF IInv, Sound
<1>2. DOMAIN page.ptrs = 1 .. NumCells(page) /\ NumCells(page) \in Nat
  BY <1>1, PtrsDomain, SoundNumbers
<1>3. IsInjective(page.ptrs)
  <2>1. \A i, j \in 1 .. NumCells(page) : i < j => page.ptrs[i] # page.ptrs[j]
    BY <1>1 DEF Layout, Pointers
  <2>2. \A i, j \in 1 .. NumCells(page) : i = j \/ i < j \/ j < i
    BY <1>2
  <2>3. \A i, j \in 1 .. NumCells(page) : page.ptrs[i] = page.ptrs[j] => i = j
    BY <2>1, <2>2
  <2> QED BY <1>2, <2>3 DEF IsInjective
<1>4. Range(page.ptrs) = DOMAIN page.mem
  BY <1>1, PtrsRange
<1>5. \A o \in DOMAIN page.mem : page.back <= o /\ o + page.mem[o].size <= PageSize
  BY <1>1 DEF Layout, Placed
<1>6. \A i \in 1 .. NumCells(page) - 1 : Cell(page, i).key < Cell(page, i + 1).key
  <2>1. \A i \in 1 .. NumCells(page) - 1 : i \in 1 .. NumCells(page) /\ i + 1 \in 1 .. NumCells(page) /\ i < i + 1
    BY <1>2
  <2> QED BY <1>1, <2>1 DEF Layout, KeysRise
<1> QED BY <1>1, <1>3, <1>4, <1>5, <1>6 DEF CellsIntact

(* No cell is ever damaged, on any page.                                   *)
THEOREM CellsStayIntact == Spec => []CellsIntact
BY Invariance, IInvCellsIntact, PTL

(* RoomIsThere: total_free_space is exact in a leaf through any sequence   *)
(* of calls, and never too large in an internal node.                      *)
LEMMA IInvRoomIsThere == IInv => RoomIsThere
<1> SUFFICES ASSUME IInv PROVE RoomIsThere
  OBVIOUS
<1>1. Sound(page, leaf) /\ Layout(page) /\ leaf \in BOOLEAN
  BY DEF IInv, Sound
<1>2. /\ PtrsEnd(page) \in Nat /\ Total(Sizes(page)) \in Nat /\ PageSize \in Nat
      /\ Used(page) = PtrsEnd(page) + Total(Sizes(page))
  BY <1>1, SoundNumbers
<1>3. CellSpace(page) = Total(Sizes(page))
  <2>1. Range(page.ptrs) = DOMAIN page.mem
    BY <1>1, PtrsRange
  <2> QED BY <2>1 DEF CellSpace, SizeOf, Sizes
<1>4. FreeSpace(page) = PageSize - Used(page)
  BY <1>2, <1>3 DEF FreeSpace
<1>5. page.room \in Nat /\ page.room + Used(page) <= PageSize
  BY <1>1 DEF Sound
<1>6. page.room <= FreeSpace(page)
  BY <1>2, <1>4, <1>5
<1>7. leaf => page.room = FreeSpace(page)
  <2>1. ASSUME leaf PROVE page.room + Used(page) = PageSize
    BY <1>1, <2>1 DEF Sound
  <2>2. ASSUME page.room + Used(page) = PageSize PROVE page.room = FreeSpace(page)
    BY <1>2, <1>4, <1>5, <2>2
  <2> QED BY <2>1, <2>2
<1> QED BY <1>6, <1>7 DEF RoomIsThere

(* No page ever promises space it does not have.                           *)
THEOREM RoomStaysThere == Spec => []RoomIsThere
BY Invariance, IInvRoomIsThere, PTL

(* As many keys of a page are in front of a place as its number says.      *)
LEMMA KeysInFront ==
  ASSUME NEW p, Layout(p), NEW F \in 0 .. NumCells(p), NEW S,
         S = {Cell(p, j).key : j \in 1 .. F}
  PROVE  Cardinality(S) = F
<1> DEFINE g == [j \in 1 .. F |-> Cell(p, j).key]
<1>1. NumCells(p) \in Nat /\ F \in Nat
  BY SoundNumbers
<1>2. \A j \in 1 .. F : j \in 1 .. NumCells(p)
  BY <1>1
<1>3. g \in [1 .. F -> S] /\ \A s \in S : \E j \in 1 .. F : g[j] = s
  OBVIOUS
<1>4. \A i, j \in 1 .. F : g[i] = g[j] => i = j
  <2>1. \A i, j \in 1 .. NumCells(p) : i < j => Cell(p, i).key < Cell(p, j).key
    BY DEF Layout, KeysRise
  <2>2. \A j \in 1 .. NumCells(p) : Cell(p, j).key \in Nat
    BY CellKey
  <2>3. \A i, j \in 1 .. F : i = j \/ i < j \/ j < i
    BY <1>1
  <2>4. \A i, j \in 1 .. F : i < j => g[i] # g[j]
    <3>1. TAKE i, j \in 1 .. F
    <3>2. HAVE i < j
    <3>3. Cell(p, i).key < Cell(p, j).key /\ Cell(p, i).key \in Nat /\ Cell(p, j).key \in Nat
      BY <1>2, <2>1, <2>2, <3>2
    <3> QED BY <3>3
  <2> HIDE DEF g
  <2> QED BY <2>3, <2>4
<1> HIDE DEF g
<1>5. g \in Bijection(1 .. F, S)
  BY <1>3, <1>4 DEF Bijection, Injection, Surjection, IsInjective
<1>6. IsFiniteSet(1 .. F) /\ Cardinality(1 .. F) = F
  <2>1. IsFiniteSet(1 .. F) /\ Cardinality(1 .. F) = IF 1 > F THEN 0 ELSE F - 1 + 1
    BY <1>1, FS_Interval
  <2> QED BY <1>1, <2>1
<1>7. ExistsBijection(1 .. F, S)
  BY <1>5 DEF ExistsBijection
<1> QED BY <1>6, <1>7, FS_Bijection

(* SearchesFind: both binary searches return the right place on every page *)
(* that the code can make.                                                 *)
LEMMA IInvSearchesFind == IInv => SearchesFind
<1> SUFFICES ASSUME IInv, NEW k \in Key
             PROVE  /\ SearchCellLeaf(page, k) = Cardinality({j \in KeysOf(page) : j < k})
                    /\ SearchCellInternal(page, k) = Cardinality({j \in KeysOf(page) : j <= k})
  BY DEF SearchesFind
<1> DEFINE n == NumCells(page)
           F == SearchCellLeaf(page, k)
           G == SearchCellInternal(page, k)
<1>1. Layout(page) /\ k \in Nat /\ n \in Nat
  BY SoundNumbers, SlottedPageAssumption DEF IInv, Sound, SlottedPageAssumption
<1>2. KeysOf(page) = {Cell(page, j).key : j \in 1 .. n}
  BY <1>1, PtrsDomain DEF KeysOf
<1>3. {j \in KeysOf(page) : j < k} = {Cell(page, j).key : j \in 1 .. F} /\ F \in 0 .. n
  <2>1. F \in 0 .. n
    BY <1>1, SearchLeafPlace
  <2>2. \A j \in 1 .. n : Cell(page, j).key < k <=> j <= F
    BY <1>1, SearchLeafPlace
  <2> HIDE DEF F, n
  <2>3. \A j \in 1 .. F : j \in 1 .. n /\ j <= F
    BY <1>1, <2>1
  <2>4. \A j \in 1 .. n : j <= F => j \in 1 .. F
    BY <1>1, <2>1
  <2>5. \A j \in 1 .. F : Cell(page, j).key \in {i \in KeysOf(page) : i < k}
    BY <1>2, <2>2, <2>3
  <2>6. \A i \in {i \in KeysOf(page) : i < k} : i \in {Cell(page, j).key : j \in 1 .. F}
    BY <1>2, <2>2, <2>4
  <2> QED BY <2>1, <2>5, <2>6
<1>4. {j \in KeysOf(page) : j <= k} = {Cell(page, j).key : j \in 1 .. G} /\ G \in 0 .. n
  <2>1. G \in 0 .. n
    BY <1>1, SearchInternalPlace
  <2>2. \A j \in 1 .. n : Cell(page, j).key <= k <=> j <= G
    BY <1>1, SearchInternalPlace
  <2> HIDE DEF G, n
  <2>3. \A j \in 1 .. G : j \in 1 .. n /\ j <= G
    BY <1>1, <2>1
  <2>4. \A j \in 1 .. n : j <= G => j \in 1 .. G
    BY <1>1, <2>1
  <2>5. \A j \in 1 .. G : Cell(page, j).key \in {i \in KeysOf(page) : i <= k}
    BY <1>2, <2>2, <2>3
  <2>6. \A i \in {i \in KeysOf(page) : i <= k} : i \in {Cell(page, j).key : j \in 1 .. G}
    BY <1>2, <2>2, <2>4
  <2> QED BY <2>1, <2>5, <2>6
<1> HIDE DEF F, G
<1>5. Cardinality({j \in KeysOf(page) : j < k}) = F
  BY <1>1, <1>3, KeysInFront
<1>6. Cardinality({j \in KeysOf(page) : j <= k}) = G
  BY <1>1, <1>4, KeysInFront
<1> QED BY <1>5, <1>6 DEF F, G

(* Both searches are right in every state.                                 *)
THEOREM SearchesAlwaysFind == Spec => []SearchesFind
BY Invariance, IInvSearchesFind, PTL

-----------------------------------------------------------------------------
(* The map that a page stands for.                                         *)
LEMMA MapCell ==
  ASSUME NEW p, Layout(p), NEW i \in 1 .. NumCells(p)
  PROVE  Cell(p, i).key \in KeysOf(p) /\ SizeByKey(p)[Cell(p, i).key] = Cell(p, i).size
<1> DEFINE k == Cell(p, i).key
           j == CHOOSE m \in DOMAIN p.ptrs : Cell(p, m).key = k
<1>1. DOMAIN p.ptrs = 1 .. NumCells(p) /\ NumCells(p) \in Nat
  BY PtrsDomain, SoundNumbers
<1>2. k \in KeysOf(p)
  BY <1>1 DEF KeysOf
<1>3. j \in 1 .. NumCells(p) /\ Cell(p, j).key = k
  BY <1>1
<1>4. j = i
  <2>1. \A a, b \in 1 .. NumCells(p) : a < b => Cell(p, a).key < Cell(p, b).key
    BY DEF Layout, KeysRise
  <2>2. \A a \in 1 .. NumCells(p) : Cell(p, a).key \in Nat
    BY CellKey
  <2> HIDE DEF j
  <2>3. j < i => Cell(p, j).key < Cell(p, i).key
    BY <1>3, <2>1
  <2>4. i < j => Cell(p, i).key < Cell(p, j).key
    BY <1>3, <2>1
  <2>5. Cell(p, i).key \in Nat /\ Cell(p, j).key = Cell(p, i).key
    BY <1>3, <2>2
  <2>6. j \in Int /\ i \in Int
    BY <1>3
  <2> QED BY <2>3, <2>4, <2>5, <2>6
<1>5. SizeByKey(p)[k] = Cell(p, j).size
  <2> HIDE DEF k
  <2> QED BY <1>2 DEF SizeByKey
<1> QED BY <1>2, <1>4, <1>5

(* The map is what the cells say, wherever they lie.                       *)
LEMMA MapContents ==
  ASSUME NEW p, Layout(p)
  PROVE  /\ DOMAIN SizeByKey(p) = KeysOf(p)
         /\ KeysOf(p) = {c.key : c \in Contents(p)}
         /\ \A c \in Contents(p) : c.key \in Key /\ SizeByKey(p)[c.key] = c.size
         /\ SizeByKey(p) = [k \in KeysOf(p) |-> SizeByKey(p)[k]]
<1>1. Contents(p) = {Cell(p, j) : j \in 1 .. NumCells(p)}
  BY ContentsCells
<1>2. KeysOf(p) = {Cell(p, j).key : j \in 1 .. NumCells(p)}
  BY PtrsDomain DEF KeysOf
<1>3. \A j \in 1 .. NumCells(p) : Cell(p, j).key \in Key /\ SizeByKey(p)[Cell(p, j).key] = Cell(p, j).size
  BY MapCell, CellKey DEF Cells
<1>4. DOMAIN SizeByKey(p) = KeysOf(p)
  BY DEF SizeByKey
<1>5. SizeByKey(p) = [k \in KeysOf(p) |-> SizeByKey(p)[k]]
  BY DEF SizeByKey
<1>6. KeysOf(p) = {c.key : c \in Contents(p)}
  BY <1>1, <1>2
<1>7. \A c \in Contents(p) : c.key \in Key /\ SizeByKey(p)[c.key] = c.size
  BY <1>1, <1>3
<1> QED BY <1>4, <1>5, <1>6, <1>7

(* A page with some of the cells of another one stands for a part of its   *)
(* map, and for the same map when it has the same cells.                   *)
LEMMA MapPart ==
  ASSUME NEW p, Layout(p), NEW q, Layout(q), NEW S, S \subseteq KeysOf(p),
         Contents(q) = {c \in Contents(p) : c.key \in S}
  PROVE  SizeByKey(q) = [k \in S |-> SizeByKey(p)[k]]
<1>1. /\ KeysOf(p) = {c.key : c \in Contents(p)}
      /\ \A c \in Contents(p) : SizeByKey(p)[c.key] = c.size
  BY MapContents
<1>2. /\ KeysOf(q) = {c.key : c \in Contents(q)}
      /\ \A c \in Contents(q) : SizeByKey(q)[c.key] = c.size
  BY MapContents
<1>3. SizeByKey(q) = [k \in KeysOf(q) |-> SizeByKey(q)[k]]
  BY MapContents
<1>4. KeysOf(q) = S
  BY <1>1, <1>2
<1>5. ASSUME NEW k \in S PROVE SizeByKey(q)[k] = SizeByKey(p)[k]
  <2>1. PICK c \in Contents(q) : c.key = k
    BY <1>2, <1>4
  <2>2. c \in Contents(p)
    BY <2>1
  <2>3. SizeByKey(q)[c.key] = c.size
    BY <1>2
  <2>4. SizeByKey(p)[c.key] = c.size
    BY <1>1, <2>2
  <2> QED BY <2>1, <2>3, <2>4
<1> QED BY <1>3, <1>4, <1>5

(* Pages with the same cells stand for the same map.                       *)
LEMMA MapSame ==
  ASSUME NEW p, Layout(p), NEW q, Layout(q), Contents(q) = Contents(p)
  PROVE  SizeByKey(q) = SizeByKey(p)
<1>1. KeysOf(p) = {c.key : c \in Contents(p)}
  BY MapContents
<1>2. Contents(q) = {c \in Contents(p) : c.key \in KeysOf(p)}
  BY <1>1
<1>3. SizeByKey(q) = [k \in KeysOf(p) |-> SizeByKey(p)[k]]
  BY <1>2, MapPart
<1>4. SizeByKey(p) = [k \in KeysOf(p) |-> SizeByKey(p)[k]]
  BY MapContents
<1> QED BY <1>3, <1>4

(* A cell with a new key is one more entry.                                *)
LEMMA MapAdd ==
  ASSUME NEW p, Layout(p), NEW q, Layout(q), NEW cell \in Cells,
         Contents(q) = Contents(p) \cup {cell}, \A c \in Contents(p) : c.key # cell.key
  PROVE  /\ cell.key \notin KeysOf(p)
         /\ SizeByKey(q) =
              [j \in KeysOf(p) \cup {cell.key} |-> IF j = cell.key THEN cell.size ELSE SizeByKey(p)[j]]
<1>1. /\ KeysOf(p) = {c.key : c \in Contents(p)}
      /\ \A c \in Contents(p) : SizeByKey(p)[c.key] = c.size
  BY MapContents
<1>2. /\ KeysOf(q) = {c.key : c \in Contents(q)}
      /\ \A c \in Contents(q) : SizeByKey(q)[c.key] = c.size
  BY MapContents
<1>3. SizeByKey(q) = [k \in KeysOf(q) |-> SizeByKey(q)[k]]
  BY MapContents
<1>4. KeysOf(q) = KeysOf(p) \cup {cell.key}
  BY <1>1, <1>2
<1>5. cell.key \notin KeysOf(p)
  BY <1>1
<1>6. ASSUME NEW k \in KeysOf(p) PROVE SizeByKey(q)[k] = SizeByKey(p)[k]
  <2>1. PICK c \in Contents(p) : c.key = k
    BY <1>1
  <2>2. SizeByKey(q)[c.key] = c.size
    BY <1>2
  <2>3. SizeByKey(p)[c.key] = c.size
    BY <1>1
  <2> QED BY <2>1, <2>2, <2>3
<1>7. SizeByKey(q)[cell.key] = cell.size
  BY <1>2
<1> QED BY <1>3, <1>4, <1>5, <1>6, <1>7

(* The space of the map is what the page uses.                             *)
LEMMA MapSpace ==
  ASSUME NEW p, Layout(p)
  PROVE  Total(SizeByKey(p)) + PtrSize * Cardinality(KeysOf(p)) = Used(p) - HeaderSize
<1> DEFINE n == NumCells(p)
           b == [o \in DOMAIN p.mem |-> p.mem[o].key]
<1>1. n \in Nat /\ Used(p) = PtrsEnd(p) + Total(Sizes(p)) /\ Total(Sizes(p)) \in Nat
  BY SoundNumbers
<1>2. Cardinality(KeysOf(p)) = n
  <2>1. KeysOf(p) = {Cell(p, j).key : j \in 1 .. n}
    BY PtrsDomain DEF KeysOf
  <2>2. n \in 0 .. NumCells(p)
    BY <1>1
  <2> QED BY <2>1, <2>2, KeysInFront
<1>3. Total(SizeByKey(p)) = Total(Sizes(p))
  <2>1. /\ IsFiniteSet(DOMAIN Sizes(p)) /\ \A o \in DOMAIN Sizes(p) : Sizes(p)[o] \in Nat
        /\ DOMAIN Sizes(p) = DOMAIN p.mem
    BY FiniteCells DEF Layout
  <2>2. DOMAIN SizeByKey(p) = KeysOf(p)
    BY MapContents
  <2>3. \A o \in DOMAIN p.mem : \E j \in 1 .. n : p.ptrs[j] = o
    BY DEF Layout, Pointers
  <2>4. \A j \in 1 .. n : /\ p.ptrs[j] \in DOMAIN p.mem /\ Cell(p, j) = p.mem[p.ptrs[j]]
                          /\ Cell(p, j).key \in KeysOf(p)
                          /\ SizeByKey(p)[Cell(p, j).key] = Cell(p, j).size
    BY CellKey, MapCell DEF Cell
  <2>5. b \in [DOMAIN Sizes(p) -> DOMAIN SizeByKey(p)]
    BY <2>1, <2>2, <2>3, <2>4
  <2>6. \A o, u \in DOMAIN Sizes(p) : b[o] = b[u] => o = u
    <3>1. \A i, j \in 1 .. n : i < j => Cell(p, i).key < Cell(p, j).key
      BY DEF Layout, KeysRise
    <3>2. \A j \in 1 .. n : Cell(p, j).key \in Nat
      BY CellKey
    <3>3. TAKE o, u \in DOMAIN Sizes(p)
    <3>4. PICK i \in 1 .. n : p.ptrs[i] = o
      BY <2>1, <2>3, <3>3
    <3>5. PICK j \in 1 .. n : p.ptrs[j] = u
      BY <2>1, <2>3, <3>3
    <3>6. b[o] = Cell(p, i).key /\ b[u] = Cell(p, j).key
      BY <2>1, <2>4, <3>4, <3>5
    <3>7. i = j \/ i < j \/ j < i
      BY <1>1
    <3>8. i < j => Cell(p, i).key # Cell(p, j).key
      BY <3>1, <3>2
    <3>9. j < i => Cell(p, i).key # Cell(p, j).key
      BY <3>1, <3>2
    <3> HIDE DEF b
    <3> QED BY <3>4, <3>5, <3>6, <3>7, <3>8, <3>9
  <2>7. \A k \in DOMAIN SizeByKey(p) : \E o \in DOMAIN Sizes(p) : b[o] = k
    <3>1. TAKE k \in DOMAIN SizeByKey(p)
    <3>2. PICK j \in 1 .. n : Cell(p, j).key = k
      BY <2>2, PtrsDomain DEF KeysOf
    <3>3. p.ptrs[j] \in DOMAIN Sizes(p) /\ b[p.ptrs[j]] = k
      BY <2>1, <2>4, <3>2
    <3> QED BY <3>3
  <2>8. \A o \in DOMAIN Sizes(p) : SizeByKey(p)[b[o]] = Sizes(p)[o]
    <3>1. TAKE o \in DOMAIN Sizes(p)
    <3>2. PICK j \in 1 .. n : p.ptrs[j] = o
      BY <2>1, <2>3, <3>1
    <3>3. b[o] = Cell(p, j).key /\ Sizes(p)[o] = Cell(p, j).size
      BY <2>1, <2>4, <3>2 DEF Sizes
    <3> QED BY <2>4, <3>3
  <2> HIDE DEF b
  <2> QED BY <2>1, <2>5, <2>6, <2>7, <2>8, TotalRenamed
<1>4. PtrsEnd(p) = HeaderSize + PtrSize * n /\ HeaderSize \in Nat /\ PtrSize * n \in Nat
  <2>1. PtrSize * n \in Nat
    BY <1>1, PointerArea
  <2> QED BY <2>1, PointerArea DEF PtrsEnd
<1> HIDE DEF n
<1>5. PtrSize * Cardinality(KeysOf(p)) = PtrSize * n
  BY <1>2
<1> QED BY <1>1, <1>3, <1>4, <1>5

-----------------------------------------------------------------------------
(* The first state of a page is that of a map.                             *)
LEMMA RefinesInit == Init => M!Init
<1> SUFFICES ASSUME Init PROVE M!Init
  OBVIOUS
<1>1. page = NewPage /\ reply = "none"
  BY DEF Init
<1>2. SizeByKey(page) = [k \in {} |-> 0]
  <2>1. Layout(page) /\ NumCells(page) = 0
    BY <1>1, NewPageLayout
  <2>2. DOMAIN page.ptrs = {}
    <3>1. DOMAIN page.ptrs = 1 .. 0
      BY <2>1, PtrsDomain
    <3> QED BY <3>1
  <2>3. KeysOf(page) = {}
    BY <2>2 DEF KeysOf
  <2> QED BY <2>3 DEF SizeByKey
<1> QED BY <1>1, <1>2 DEF M!Init

(* Whether a cell fits, told from the map.                                 *)
LEMMA FitsInLeaf ==
  ASSUME Sound(page, leaf), leaf, NEW s \in Size
  PROVE  M!Fits(s) <=> page.room >= s + PtrSize
<1>1. Layout(page) /\ page.room \in Nat /\ page.room + Used(page) = PageSize
  BY DEF Sound
<1>2. M!Space = Used(page) - HeaderSize
  <2>1. Total(SizeByKey(page)) + PtrSize * Cardinality(KeysOf(page)) = Used(page) - HeaderSize
    BY <1>1, MapSpace
  <2>2. DOMAIN SizeByKey(page) = KeysOf(page)
    BY <1>1, MapContents
  <2>3. M!Space = Total(SizeByKey(page)) + PtrSize * Cardinality(DOMAIN SizeByKey(page))
    <3> DEFINE cells == IF leaf THEN SizeByKey(page) ELSE [k \in {} |-> 0]
    <3>1. cells = SizeByKey(page)
      OBVIOUS
    <3>2. M!Space = Total(cells) + PtrSize * Cardinality(DOMAIN cells)
      BY DEF M!Space, M!Total, M!Pairs, Total, Pairs, M!Cardinality, Cardinality
    <3> HIDE DEF cells
    <3> QED BY <3>1, <3>2
  <2> QED BY <2>1, <2>2, <2>3
<1>3. M!Fits(s) <=> M!Space + s + PtrSize <= PageSize - HeaderSize
  BY DEF M!Fits
<1>4. Used(page) \in Nat /\ HeaderSize \in Nat /\ PtrSize \in Nat /\ PageSize \in Nat /\ s \in Nat
  <2>1. Used(page) \in Nat
    BY <1>1, SoundNumbers
  <2> QED BY <2>1, PointerArea, SlottedPageAssumption DEF SlottedPageAssumption
<1>5. Used(page) - HeaderSize + s + PtrSize <= PageSize - HeaderSize <=> page.room >= s + PtrSize
  BY <1>1, <1>4
<1> QED BY <1>2, <1>3, <1>5

(* The answers of insert_cell() in a leaf.                                 *)
LEMMA RefinesInsert ==
  ASSUME IInv, leaf, leaf' = leaf, NEW k \in Key, NEW s \in Size, Insert(k, s)
  PROVE  M!Insert(k, s)
<1> DEFINE cell == [key |-> k, size |-> s]
<1>1. cell \in Cells /\ cell.key = k /\ cell.size = s /\ Room(cell) = s + PtrSize
  BY DEF Cells, Room
<1>2. page' = InsertCell(page, cell).page /\ reply' = InsertCell(page, cell).res
  BY DEF Insert
<1>3. Sound(page, TRUE) /\ Layout(page) /\ Sound(page, leaf)
  BY DEF IInv, Sound
<1>4. Sound(page', TRUE) /\ Layout(page') /\ reply' \in {"ok", "exists", "full"}
  <2> HIDE DEF cell
  <2>1. /\ Sound(InsertCell(page, cell).page, TRUE)
        /\ InsertCell(page, cell).res \in {"ok", "exists", "full", "overflow"}
        /\ TRUE => InsertCell(page, cell).res # "overflow"
    BY <1>1, <1>3, InsertCellSound
  <2> QED BY <1>2, <2>1 DEF Sound
<1>5. M!Fits(s) <=> page.room >= Room(cell)
  BY <1>1, <1>3, FitsInLeaf
<1>6. page.room \in Nat /\ Room(cell) \in Nat
  BY <1>1, <1>3, RoomNat DEF Sound
<1>7. DOMAIN SizeByKey(page) = KeysOf(page) /\ KeysOf(page) = {c.key : c \in Contents(page)}
  BY <1>3, MapContents
<1> HIDE DEF cell
<1>8. CASE reply' = "full"
  <2>1. page' = page /\ page.room < Room(cell)
    BY <1>1, <1>2, <1>3, <1>8, InsertFull
  <2>2. ~ M!Fits(s)
    BY <1>5, <1>6, <2>1
  <2> QED BY <1>8, <2>1, <2>2 DEF M!Insert
<1>9. CASE reply' = "exists"
  <2>1. /\ Contents(page') = Contents(page) /\ page.room >= Room(cell)
        /\ \E c \in Contents(page) : c.key = cell.key
    BY <1>1, <1>2, <1>3, <1>9, InsertExists
  <2>2. SizeByKey(page') = SizeByKey(page)
    BY <1>3, <1>4, <2>1, MapSame
  <2>3. k \in DOMAIN SizeByKey(page)
    BY <1>1, <1>7, <2>1
  <2>4. M!Fits(s)
    BY <1>5, <2>1
  <2> QED BY <1>9, <2>2, <2>3, <2>4 DEF M!Insert
<1>10. CASE reply' = "ok"
  <2>1. /\ Contents(page') = Contents(page) \cup {cell} /\ page.room >= Room(cell)
        /\ \A c \in Contents(page) : c.key # cell.key
    BY <1>1, <1>2, <1>3, <1>10, InsertOk
  <2>2. /\ cell.key \notin KeysOf(page)
        /\ SizeByKey(page') =
             [j \in KeysOf(page) \cup {cell.key} |-> IF j = cell.key THEN cell.size ELSE SizeByKey(page)[j]]
    BY <1>1, <1>3, <1>4, <2>1, MapAdd
  <2>3. M!Fits(s)
    BY <1>5, <2>1
  <2>4. /\ k \notin DOMAIN SizeByKey(page)
        /\ SizeByKey(page') =
             [j \in DOMAIN SizeByKey(page) \cup {k} |-> IF j = k THEN s ELSE SizeByKey(page)[j]]
    BY <1>1, <1>7, <2>2
  <2> QED BY <1>10, <2>3, <2>4 DEF M!Insert
<1> QED BY <1>4, <1>8, <1>9, <1>10

(* A deleted cell is an entry less.                                        *)
LEMMA RefinesDelete ==
  ASSUME IInv, IInv', leaf, leaf' = leaf, NEW i \in DOMAIN page.ptrs, Delete(i)
  PROVE  M!Next
<1>1. Sound(page, leaf) /\ Layout(page) /\ Layout(page')
  BY DEF IInv, Sound
<1>2. page' = DeleteCell(page, i) /\ reply' = "ok" /\ i \in 1 .. NumCells(page)
  BY <1>1, PtrsDomain DEF Delete
<1> DEFINE c == Cell(page, i)
           k == c.key
           S == KeysOf(page) \ {k}
<1>3. Contents(page') = Contents(page) \ {c}
  BY <1>1, <1>2, DeleteCellSound
<1>4. c \in Contents(page) /\ \A d \in Contents(page) : d.key = k => d = c
  <2>1. Contents(page) = {Cell(page, j) : j \in 1 .. NumCells(page)}
    BY <1>1, ContentsCells
  <2>2. \A a, b \in 1 .. NumCells(page) : a < b => Cell(page, a).key < Cell(page, b).key
    BY <1>1 DEF Layout, KeysRise
  <2>3. \A a \in 1 .. NumCells(page) : Cell(page, a).key \in Nat
    BY <1>1, CellKey
  <2>4. \A j \in 1 .. NumCells(page) : j = i \/ j < i \/ i < j
    BY <1>1, <1>2, SoundNumbers
  <2>5. \A j \in 1 .. NumCells(page) : Cell(page, j).key = Cell(page, i).key => j = i
    BY <1>2, <2>2, <2>3, <2>4
  <2> QED BY <1>2, <2>1, <2>5
<1>5. /\ KeysOf(page) = {d.key : d \in Contents(page)}
      /\ DOMAIN SizeByKey(page) = KeysOf(page)
      /\ \A d \in Contents(page) : d.key \in Key
  BY <1>1, MapContents
<1> HIDE DEF c
<1>6. Contents(page') = {d \in Contents(page) : d.key \in S}
  BY <1>3, <1>4, <1>5
<1>7. k \in KeysOf(page) /\ k \in Key
  BY <1>4, <1>5
<1>8. SizeByKey(page') = [j \in S |-> SizeByKey(page)[j]]
  BY <1>1, <1>6, MapPart
<1> HIDE DEF k
<1>9. M!Delete(k)
  BY <1>2, <1>5, <1>7, <1>8 DEF M!Delete, M!Keep
<1> QED BY <1>7, <1>9 DEF M!Next

(* A page that keeps the cells in front of one or those from it on.        *)
LEMMA RefinesCut ==
  ASSUME IInv, IInv', leaf, leaf' = leaf, reply' = "ok", NEW i \in 1 .. NumCells(page),
         \/ Contents(page') = {Cell(page, j) : j \in 1 .. i - 1}
         \/ Contents(page') = {Cell(page, j) : j \in i .. NumCells(page)}
  PROVE  M!Next
<1>1. Sound(page, leaf) /\ Layout(page) /\ Layout(page')
  BY DEF IInv, Sound
<1> DEFINE n == NumCells(page)
           k == Cell(page, i).key
           L == {j \in KeysOf(page) : j < k}
           R == {j \in KeysOf(page) : j >= k}
<1>2. n \in Nat
  BY <1>1, SoundNumbers
<1>3. Contents(page) = {Cell(page, j) : j \in 1 .. n}
  BY <1>1, ContentsCells
<1>4. /\ KeysOf(page) = {d.key : d \in Contents(page)}
      /\ DOMAIN SizeByKey(page) = KeysOf(page)
      /\ \A d \in Contents(page) : d.key \in Key
  BY <1>1, MapContents
<1>5. k \in KeysOf(page) /\ k \in Key
  <2>1. Cell(page, i) \in Contents(page)
    BY <1>3
  <2> QED BY <1>4, <2>1
<1>6. \A j \in 1 .. n : /\ j < i => Cell(page, j).key < k
                        /\ j >= i => ~ (Cell(page, j).key < k)
                        /\ (Cell(page, j).key >= k <=> ~ (Cell(page, j).key < k))
  <2>1. \A a, b \in 1 .. n : a < b => Cell(page, a).key < Cell(page, b).key
    BY <1>1 DEF Layout, KeysRise
  <2>2. \A a \in 1 .. n : Cell(page, a).key \in Nat
    BY <1>1, CellKey
  <2>3. \A j \in 1 .. n : j = i \/ j < i \/ i < j
    BY <1>2
  <2>4. TAKE j \in 1 .. n
  <2>5. j < i => Cell(page, j).key < Cell(page, i).key
    BY <2>1
  <2>6. i < j => Cell(page, i).key < Cell(page, j).key
    BY <2>1
  <2>7. Cell(page, i).key \in Nat /\ Cell(page, j).key \in Nat
    BY <2>2
  <2>8. j >= i => j = i \/ i < j
    BY <1>2
  <2> QED BY <2>5, <2>6, <2>7, <2>8
<1>7. \A d \in Contents(page) : d.key \in L <=> d.key < k
  BY <1>4
<1>8. \A d \in Contents(page) : d.key \in R <=> d.key >= k
  BY <1>4
<1> HIDE DEF k, L, R
<1>9. \A j \in 1 .. n : j \in 1 .. i - 1 <=> j < i
  BY <1>2
<1>10. \A j \in 1 .. n : j \in i .. n <=> j >= i
  BY <1>2
<1>11. \A j \in 1 .. n : j < i \/ j >= i
  BY <1>2
<1>12. \A j \in 1 .. i - 1 : j \in 1 .. n
  BY <1>2
<1>13. \A j \in i .. n : j \in 1 .. n
  BY <1>2
<1>14. {Cell(page, j) : j \in 1 .. i - 1} = {d \in Contents(page) : d.key \in L}
  <2>1. \A j \in 1 .. i - 1 : Cell(page, j) \in Contents(page) /\ Cell(page, j).key \in L
    BY <1>3, <1>6, <1>7, <1>9, <1>12
  <2>2. \A j \in 1 .. n : Cell(page, j).key \in L => j \in 1 .. i - 1
    BY <1>3, <1>6, <1>7, <1>9, <1>11
  <2> HIDE DEF n
  <2> QED BY <1>3, <2>1, <2>2
<1>15. {Cell(page, j) : j \in i .. n} = {d \in Contents(page) : d.key \in R}
  <2>1. \A j \in i .. n : Cell(page, j) \in Contents(page) /\ Cell(page, j).key \in R
    BY <1>3, <1>6, <1>8, <1>10, <1>13
  <2>2. \A j \in 1 .. n : Cell(page, j).key \in R => j \in i .. n
    BY <1>3, <1>6, <1>8, <1>10, <1>11
  <2> HIDE DEF n
  <2> QED BY <1>3, <2>1, <2>2
<1>16. CASE Contents(page') = {Cell(page, j) : j \in 1 .. i - 1}
  <2>1. L \subseteq KeysOf(page)
    BY DEF L
  <2>2. Contents(page') = {d \in Contents(page) : d.key \in L}
    BY <1>14, <1>16
  <2>3. SizeByKey(page') = [j \in L |-> SizeByKey(page)[j]]
    BY <1>1, <2>1, <2>2, MapPart
  <2>4. M!Cut(k)
    BY <1>4, <2>3 DEF M!Cut, M!Keep, L
  <2> QED BY <1>5, <2>4 DEF M!Next
<1>17. CASE Contents(page') = {Cell(page, j) : j \in i .. n}
  <2>1. R \subseteq KeysOf(page)
    BY DEF R
  <2>2. Contents(page') = {d \in Contents(page) : d.key \in R}
    BY <1>15, <1>17
  <2>3. SizeByKey(page') = [j \in R |-> SizeByKey(page)[j]]
    BY <1>1, <2>1, <2>2, MapPart
  <2>4. M!Cut(k)
    BY <1>4, <2>3 DEF M!Cut, M!Keep, R
  <2> QED BY <1>5, <2>4 DEF M!Next
<1> QED BY <1>16, <1>17

-----------------------------------------------------------------------------
(* A page that is built anew has the cells from its first one on.          *)
LEMMA RebuiltContents ==
  ASSUME NEW p, NEW exact, Sound(p, exact), NEW i \in 1 .. NumCells(p) + 1
  PROVE  Contents(Rebuilt(p, i)) = {Cell(p, j) : j \in i .. NumCells(p)}
<1> DEFINE q == Rebuilt(p, i)
           n == NumCells(p)
           m == n + 1 - i
<1>1. n \in Nat /\ m \in Nat
  BY SoundNumbers DEF Sound
<1>2. BuiltSoFar(p, i, q, m)
  BY RebuiltSound
<1> HIDE DEF q
<1>3. Layout(q) /\ NumCells(q) = m /\ \A j \in 1 .. m : Cell(q, j) = Cell(p, i + j - 1)
  BY <1>2 DEF BuiltSoFar, Sound
<1>4. Contents(q) = {Cell(q, j) : j \in 1 .. m}
  BY <1>3, ContentsCells
<1>5. \A j \in 1 .. m : i + j - 1 \in i .. n
  BY <1>1
<1>6. \A j \in i .. n : j - i + 1 \in 1 .. m /\ i + (j - i + 1) - 1 = j
  BY <1>1
<1> HIDE DEF m, n
<1>7. \A j \in 1 .. m : Cell(q, j) \in {Cell(p, a) : a \in i .. n}
  BY <1>3, <1>5
<1>8. \A j \in i .. n : Cell(p, j) \in Contents(q)
  <2>1. TAKE j \in i .. n
  <2>2. Cell(q, j - i + 1) = Cell(p, i + (j - i + 1) - 1)
    BY <1>3, <1>6
  <2> QED BY <1>4, <1>6, <2>2
<1>9. Contents(q) = {Cell(p, j) : j \in i .. n}
  BY <1>4, <1>7, <1>8
<1> QED BY <1>9 DEF q, n

(* Every step of a leaf is a step of the map, or none; a step of an        *)
(* internal node is none.                                                  *)
LEMMA RefinesNext == IInv /\ IInv' /\ [Next]_vars => [M!Next]_(M!vars)
<1> SUFFICES ASSUME IInv, IInv', [Next]_vars PROVE [M!Next]_(M!vars)
  OBVIOUS
<1>1. leaf \in BOOLEAN /\ leaf' = leaf /\ Sound(page, leaf) /\ Layout(page)
  BY DEF IInv, Sound, Next, vars
<1>2. DOMAIN page.ptrs = 1 .. NumCells(page) /\ NumCells(page) \in Nat
  BY <1>1, PtrsDomain, SoundNumbers
<1>3. CASE ~ leaf
  BY <1>1, <1>3 DEF M!vars
<1>4. CASE leaf
  <2>1. ASSUME NEW k \in Key, NEW s \in Size, Insert(k, s) PROVE M!Next
    <3>1. M!Insert(k, s)
      BY <1>1, <1>4, <2>1, RefinesInsert
    <3> QED BY <3>1 DEF M!Next
  <2>2. ASSUME NEW i \in DOMAIN page.ptrs, Delete(i) PROVE M!Next
    BY <1>1, <1>4, <2>2, RefinesDelete
  <2>3. ASSUME NEW i \in DOMAIN page.ptrs, GiveFirst(i) PROVE M!Next
    <3>1. page' = Rebuilt(page, i) /\ reply' = "ok" /\ i \in 1 .. NumCells(page) + 1 /\ i \in 1 .. NumCells(page)
      BY <1>2, <2>3 DEF GiveFirst
    <3>2. Contents(page') = {Cell(page, j) : j \in i .. NumCells(page)}
      BY <1>1, <3>1, RebuiltContents
    <3> QED BY <1>1, <1>4, <3>1, <3>2, RefinesCut
  <2>4. ASSUME Split PROVE M!Next
    <3> DEFINE h == (NumCells(page) + 1) \div 2
    <3>1. page' \in {KeptLeft(page), MovedRight(page)} /\ reply' = "ok" /\ NumCells(page) > 1
      BY <2>4 DEF Split
    <3>2. h \in 1 .. NumCells(page) - 1 /\ Contents(KeptLeft(page)) = {Cell(page, j) : j \in 1 .. h}
      BY <1>1, <3>1, KeptLeftSound
    <3>3. MovedRight(page) = Rebuilt(page, h + 1)
      BY <1>4 DEF MovedRight
    <3> HIDE DEF h
    <3>4. h + 1 \in 1 .. NumCells(page) /\ h + 1 \in 1 .. NumCells(page) + 1 /\ (h + 1) - 1 = h
      BY <1>2, <3>2
    <3>5. CASE page' = KeptLeft(page)
      <4>1. Contents(page') = {Cell(page, j) : j \in 1 .. (h + 1) - 1}
        BY <3>2, <3>4, <3>5
      <4> QED BY <1>1, <1>4, <3>1, <3>4, <4>1, RefinesCut
    <3>6. CASE page' = MovedRight(page)
      <4>1. Contents(page') = {Cell(page, j) : j \in h + 1 .. NumCells(page)}
        BY <1>1, <3>3, <3>4, <3>6, RebuiltContents
      <4> QED BY <1>1, <1>4, <3>1, <3>4, <4>1, RefinesCut
    <3> QED BY <3>1, <3>5, <3>6
  <2>5. ~ \E i \in DOMAIN page.ptrs, k \in Key : SetCellKey(i, k)
    BY <1>4 DEF SetCellKey
  <2>6. ~ StayPanicked
    BY <1>4 DEF StayPanicked, IInv
  <2>7. CASE UNCHANGED vars
    BY <2>7 DEF vars, M!vars
  <2>8. ASSUME Next
        PROVE  \/ \E k \in Key, s \in Size : Insert(k, s)
               \/ \E i \in DOMAIN page.ptrs : Delete(i) \/ GiveFirst(i)
               \/ \E i \in DOMAIN page.ptrs, k \in Key : SetCellKey(i, k)
               \/ Split \/ StayPanicked
    BY <2>8 DEF Next
  <2> QED BY <2>1, <2>2, <2>3, <2>4, <2>5, <2>6, <2>7, <2>8
<1> QED BY <1>1, <1>3, <1>4

(* A leaf implements the map from keys to cells, on every page size.       *)
THEOREM LeafIsAMap == Spec => ImplementsCellMap
<1>1. Init => M!Init
  BY RefinesInit
<1>2. IInv /\ IInv' /\ [Next]_vars => [M!Next]_(M!vars)
  BY RefinesNext
<1>3. Spec => []IInv
  BY Invariance
<1> QED BY <1>1, <1>2, <1>3, PTL DEF Spec, ImplementsCellMap, M!Spec
=============================================================================
