----------------------------- MODULE BTreeProofs ----------------------------
(***************************************************************************)
(* Theorems about the B+tree of module BTree, for any sizes of keys, cells *)
(* and pages and any number of rows.                                       *)
(*                                                                         *)
(* The invariant IInv says that the pages are a tree in the sense of       *)
(* TreeShape, and relates its rows to the operation that runs. Between     *)
(* operations the registered pages are the tree, and it is whole. While a  *)
(* split goes up one page waits for its place. While a delete merges       *)
(* pages, the whole tree consists of the registered pages and of those the *)
(* suspended callers hold, and after a merge one parent is yet to drop the *)
(* key of the page that is gone.                                           *)
(*                                                                         *)
(* Every action keeps the invariant, on the condition Untroubled: that the *)
(* client's call does not run into one of the two known defects of splits. *)
(* Deletes are under no condition, whatever they merge or rebalance, and   *)
(* clients that append rows in rising order of keys are under none either. *)
(***************************************************************************)
EXTENDS TreeShape

-----------------------------------------------------------------------------
(* A page takes all cells of its sibling.                                  *)

(* The cells that a page gives to the page in front of it: an internal one *)
(* makes a cell of its first child, with key f.                            *)
Given(sib, f, cells) ==
  /\ cells \in Seq(Key \X Links)
  /\ Len(cells) = IF sib.leaf THEN Len(sib.keys) ELSE Len(sib.keys) + 1
  /\ sib.leaf => \A i \in 1 .. Len(sib.keys) : cells[i] = <<sib.keys[i], Null>>
  /\ ~sib.leaf => /\ cells[1] = <<f, sib.kids[1]>>
                  /\ \A i \in 1 .. Len(sib.keys) : cells[i + 1] = <<sib.keys[i], sib.kids[i + 1]>>

(* Page m has the cells of page n, and behind them the others.             *)
HasAll(n, cells, m) ==
  /\ m \in PageRec /\ m.leaf = n.leaf
  /\ Len(m.keys) = Len(n.keys) + Len(cells)
  /\ Len(m.kids) = IF n.leaf THEN 0 ELSE Len(m.keys) + 1
  /\ \A i \in 1 .. Len(n.keys) : m.keys[i] = n.keys[i]
  /\ \A i \in 1 .. Len(cells) : m.keys[Len(n.keys) + i] = cells[i][1]
  /\ ~n.leaf => /\ \A i \in 1 .. Len(n.keys) + 1 : m.kids[i] = n.kids[i]
                /\ \A i \in 1 .. Len(cells) : m.kids[Len(n.keys) + 1 + i] = cells[i][2]

(* What the fields of a page that fits are.                                *)
LEMMA FitsFacts ==
  ASSUME NEW n, NEW a, NEW z, PageFits(n, a, z)
  PROVE  /\ n \in PageRec /\ n.leaf \in BOOLEAN /\ n.keys \in Seq(Key) /\ n.kids \in Seq(Nat) /\ n.next \in Links
         /\ Len(n.keys) \in Nat /\ Len(n.kids) = IF n.leaf THEN 0 ELSE Len(n.keys) + 1
         /\ \A i \in 1 .. Len(n.keys) : n.keys[i] \in Key /\ n.keys[i] \in Nat
         /\ \A i \in 1 .. Len(n.keys) : a <= n.keys[i] /\ n.keys[i] < z /\ (n.leaf \/ a < n.keys[i])
         /\ \A i, j \in 1 .. Len(n.keys) : i < j => n.keys[i] < n.keys[j]
<1>1. n \in PageRec
  BY DEF PageFits
<1>2. \A k \in Key : k \in Nat
  BY Numbers
<1> QED BY <1>1, <1>2, RecFields DEF PageFits, Links, KeysRise


(* Keys and children of the cells that a page gives up.                    *)
LEMMA GivenAt ==
  ASSUME NEW sib, NEW a, NEW z, PageFits(sib, a, z), NEW f, NEW cells, Given(sib, f, cells),
         NEW i \in 1 .. Len(cells)
  PROVE  /\ i \in Nat /\ Len(cells) \in Nat
         /\ sib.leaf => i \in 1 .. Len(sib.keys) /\ cells[i][1] = sib.keys[i] /\ cells[i][2] = Null
         /\ ~sib.leaf => i \in 1 .. Len(sib.kids) /\ cells[i][2] = sib.kids[i]
         /\ ~sib.leaf /\ i = 1 => cells[i][1] = f
         /\ ~sib.leaf /\ i # 1 => i - 1 \in 1 .. Len(sib.keys) /\ cells[i][1] = sib.keys[i - 1]
<1>1. Len(sib.keys) \in Nat /\ sib.leaf \in BOOLEAN /\ Len(sib.kids) = (IF sib.leaf THEN 0 ELSE Len(sib.keys) + 1)
  BY FitsFacts
<1>2. CASE sib.leaf
  <2>1. Len(cells) = Len(sib.keys)
    BY <1>2 DEF Given
  <2>2. cells[i] = <<sib.keys[i], Null>>
    BY <1>2, <2>1 DEF Given
  <2> QED BY <1>1, <1>2, <2>1, <2>2
<1>3. CASE ~sib.leaf
  <2>1. Len(cells) = Len(sib.keys) + 1
    BY <1>3 DEF Given
  <2>2. CASE i = 1
    <3>1. cells[1] = <<f, sib.kids[1]>>
      BY <1>3 DEF Given
    <3> QED BY <1>1, <1>3, <2>1, <2>2, <3>1
  <2>3. CASE i # 1
    <3> DEFINE j == i - 1
    <3>1. j \in 1 .. Len(sib.keys) /\ i = j + 1
      BY <1>1, <2>1, <2>3
    <3> HIDE DEF j
    <3>2. cells[j + 1] = <<sib.keys[j], sib.kids[j + 1]>>
      BY <1>3, <3>1 DEF Given
    <3>3. cells[i][1] = sib.keys[j] /\ cells[i][2] = sib.kids[i]
      BY <3>1, <3>2
    <3>4. j = i - 1
      BY <3>1
    <3> QED BY <1>1, <1>3, <2>1, <2>3, <3>1, <3>3, <3>4
  <2> QED BY <2>2, <2>3
<1> QED BY <1>1, <1>2, <1>3

(* Such cells can be put in behind the page.                               *)
LEMMA GivenBehind ==
  ASSUME NEW n, NEW sib, NEW a \in Nat, NEW b \in Key, NEW z \in Nat, PageFits(n, a, b), PageFits(sib, b, z),
         b < z, n.leaf = sib.leaf, NEW cells, Given(sib, b, cells)
  PROVE  /\ CellsFor(n.leaf, cells) /\ Behind(n, cells)
         /\ \A i \in 1 .. Len(cells) : cells[i][1] \in Nat /\ b <= cells[i][1] /\ cells[i][1] < z
<1>1. b \in Nat /\ Len(cells) \in Nat
  BY Numbers DEF Given
<1>2. /\ sib.leaf \in BOOLEAN /\ Len(sib.keys) \in Nat /\ Len(sib.kids) = (IF sib.leaf THEN 0 ELSE Len(sib.keys) + 1)
      /\ \A i \in 1 .. Len(sib.keys) : sib.keys[i] \in Key /\ sib.keys[i] \in Nat
      /\ \A i \in 1 .. Len(sib.keys) : b <= sib.keys[i] /\ sib.keys[i] < z /\ (sib.leaf \/ b < sib.keys[i])
      /\ \A i, j \in 1 .. Len(sib.keys) : i < j => sib.keys[i] < sib.keys[j]
      /\ sib.kids \in Seq(Nat)
  BY FitsFacts
<1>3. ASSUME NEW i \in 1 .. Len(cells)
      PROVE  /\ cells[i][1] \in Key /\ cells[i][2] \in Links /\ (n.leaf \/ cells[i][2] \in Nat)
             /\ cells[i][1] \in Nat /\ b <= cells[i][1] /\ cells[i][1] < z
  <2>1. CASE sib.leaf
    <3>1. i \in 1 .. Len(sib.keys) /\ cells[i][1] = sib.keys[i] /\ cells[i][2] = Null
      BY <2>1, GivenAt
    <3> QED BY <1>2, <2>1, <3>1 DEF Links
  <2>2. CASE ~sib.leaf /\ i = 1
    <3>1. cells[i][1] = b /\ i \in 1 .. Len(sib.kids) /\ cells[i][2] = sib.kids[i]
      BY <2>2, GivenAt
    <3>2. sib.kids[i] \in Nat
      <4>1. sib.kids \in Seq(Nat) /\ i \in 1 .. Len(sib.kids)
        BY <1>2, <3>1
      <4> QED BY ONLY <4>1
    <3> QED BY <1>1, <3>1, <3>2 DEF Links
  <2>3. CASE ~sib.leaf /\ i # 1
    <3>1. i - 1 \in 1 .. Len(sib.keys) /\ cells[i][1] = sib.keys[i - 1] /\ i \in 1 .. Len(sib.kids) /\ cells[i][2] = sib.kids[i]
      BY <2>3, GivenAt
    <3>2. sib.kids[i] \in Nat
      <4>1. sib.kids \in Seq(Nat) /\ i \in 1 .. Len(sib.kids)
        BY <1>2, <3>1
      <4> QED BY ONLY <4>1
    <3> DEFINE j == i - 1
    <3>3. sib.keys[j] \in Key /\ sib.keys[j] \in Nat /\ b <= sib.keys[j] /\ sib.keys[j] < z
      <4>1. j \in 1 .. Len(sib.keys)
        BY <3>1
      <4> HIDE DEF j
      <4> QED BY <1>2, <4>1
    <3> QED BY <3>1, <3>2, <3>3 DEF Links
  <2> QED BY <1>2, <2>1, <2>2, <2>3
<1>4. ASSUME NEW i \in 1 .. Len(cells), NEW j \in 1 .. Len(cells), i < j
      PROVE  cells[i][1] < cells[j][1]
  <2>1. CASE sib.leaf
    <3>1. i \in 1 .. Len(sib.keys) /\ cells[i][1] = sib.keys[i]
      BY <2>1, GivenAt
    <3>2. j \in 1 .. Len(sib.keys) /\ cells[j][1] = sib.keys[j]
      BY <2>1, GivenAt
    <3> QED BY <1>2, <1>4, <3>1, <3>2
  <2>2. CASE ~sib.leaf
    <3> DEFINE y == j - 1
    <3>1. y \in 1 .. Len(sib.keys) /\ cells[j][1] = sib.keys[y]
      <4>1. j # 1
        BY <1>4
      <4> QED BY <2>2, <4>1, GivenAt
    <3>2. CASE i = 1
      <4>1. cells[i][1] = b
        BY <2>2, <3>2, GivenAt
      <4>2. b < sib.keys[y]
        <5> HIDE DEF y
        <5> QED BY <1>2, <2>2, <3>1
      <4> QED BY <3>1, <4>1, <4>2
    <3>3. CASE i # 1
      <4> DEFINE x == i - 1
      <4>1. x \in 1 .. Len(sib.keys) /\ cells[i][1] = sib.keys[x]
        BY <2>2, <3>3, GivenAt
      <4>2. x < y
        BY <1>1, <1>4
      <4> HIDE DEF x, y
      <4>3. sib.keys[x] < sib.keys[y]
        BY <1>2, <3>1, <4>1, <4>2
      <4> QED BY <3>1, <4>1, <4>3
    <3> QED BY <3>2, <3>3
  <2> QED BY <1>2, <2>1, <2>2
<1>5. \A i \in 1 .. Len(n.keys) : n.keys[i] \in Nat /\ n.keys[i] < b
  BY FitsFacts
<1>6. \A i \in 1 .. Len(n.keys) : \A j \in 1 .. Len(cells) : n.keys[i] < cells[j][1]
  <2>1. \A x, y \in Nat : x < b /\ b <= y => x < y
    BY <1>1
  <2> QED BY <1>3, <1>5, <2>1
<1>7. CellsFor(n.leaf, cells)
  BY <1>3 DEF CellsFor, Given
<1>8. Behind(n, cells)
  BY <1>4, <1>6 DEF Behind
<1> QED BY <1>3, <1>7, <1>8

(* The page with all those cells.                                          *)
LEMMA AppendedAll ==
  ASSUME NEW n, PageOK(n), NEW cells, Len(cells) \in Nat, NEW r, Appended(n, cells, Len(cells), r),
         NEW next \in Links, NEW m, m = [r EXCEPT !.next = next]
  PROVE  HasAll(n, cells, m) /\ PageOK(m) /\ m.next = next
<1>1. /\ r \in PageRec /\ RoomFits(r) /\ Len(r.kids) = (IF r.leaf THEN 0 ELSE Len(r.keys) + 1) /\ r.leaf = n.leaf
  BY DEF Appended, PageOK
<1>2. m = [leaf |-> r.leaf, keys |-> r.keys, kids |-> r.kids, next |-> next, room |-> r.room, gap |-> r.gap]
  BY <1>1 DEF PageRec
<1>3. m \in PageRec /\ m.leaf = r.leaf /\ m.keys = r.keys /\ m.kids = r.kids /\ m.next = next /\ m.room = r.room /\ m.gap = r.gap
  BY <1>1, <1>2 DEF PageRec, Links
<1>4. SpaceOf(m) = SpaceOf(r)
  BY <1>1, <1>3, SpaceOfIs
<1>5. RoomFits(m)
  BY <1>1, <1>3, <1>4 DEF RoomFits
<1>6. PageOK(m)
  BY <1>1, <1>3, <1>5 DEF PageOK
<1>7. HasAll(n, cells, m)
  BY <1>1, <1>3 DEF HasAll, Appended
<1> QED BY <1>3, <1>6, <1>7

(* The page has all that the two had, and in an internal one the key that  *)
(* was between them.                                                       *)
LEMMA JoinPages ==
  ASSUME NEW n, NEW sib, NEW a \in Nat, NEW b \in Key, NEW z \in Nat, PageFits(n, a, b), PageFits(sib, b, z),
         b < z, a < b, n.leaf = sib.leaf, NEW cells, Given(sib, b, cells),
         NEW m, HasAll(n, cells, m), m.next = sib.next
  PROVE  /\ PageFits(m, a, z) /\ Halves(m, n, sib, a, b, z, Len(n.keys) + 1)
         /\ KeysIn(m) = KeysIn(n) \cup {cells[i][1] : i \in 1 .. Len(cells)}
<1>1. /\ n.leaf \in BOOLEAN /\ Len(n.keys) \in Nat /\ Len(n.kids) = (IF n.leaf THEN 0 ELSE Len(n.keys) + 1)
      /\ \A i \in 1 .. Len(n.keys) : n.keys[i] \in Nat /\ a <= n.keys[i] /\ n.keys[i] < b /\ (n.leaf \/ a < n.keys[i])
      /\ \A i, j \in 1 .. Len(n.keys) : i < j => n.keys[i] < n.keys[j]
  BY FitsFacts
<1>2. /\ CellsFor(n.leaf, cells) /\ Behind(n, cells) /\ Len(cells) \in Nat
      /\ \A i \in 1 .. Len(cells) : cells[i][1] \in Nat /\ b <= cells[i][1] /\ cells[i][1] < z
  <2>1. Len(cells) \in Nat
    BY DEF Given
  <2> QED BY <2>1, GivenBehind
<1>3. b \in Nat
  BY Numbers
<1>4. /\ m \in PageRec /\ m.leaf = n.leaf /\ Len(m.keys) = Len(n.keys) + Len(cells)
      /\ Len(m.kids) = (IF n.leaf THEN 0 ELSE Len(m.keys) + 1)
      /\ \A i \in 1 .. Len(n.keys) : m.keys[i] = n.keys[i]
      /\ \A i \in 1 .. Len(cells) : m.keys[Len(n.keys) + i] = cells[i][1]
  BY DEF HasAll
<1> DEFINE l == Len(n.keys)  N == Len(cells)
<1>5. ASSUME NEW i \in 1 .. Len(m.keys)
      PROVE  \/ i \in 1 .. l /\ m.keys[i] = n.keys[i]
             \/ \E j \in 1 .. N : i = l + j /\ m.keys[i] = cells[j][1]
  <2>1. CASE i <= l
    <3>1. i \in 1 .. l
      BY <1>1, <2>1
    <3> QED BY <1>4, <3>1
  <2>2. CASE ~(i <= l)
    <3> DEFINE j == i - l
    <3>1. j \in 1 .. N /\ i = l + j
      BY <1>1, <1>2, <1>4, <2>2
    <3> HIDE DEF j
    <3> QED BY <1>4, <3>1
  <2> QED BY <2>1, <2>2
<1>6. ASSUME NEW i \in 1 .. Len(m.keys)
      PROVE  a <= m.keys[i] /\ m.keys[i] < z /\ (m.leaf \/ a < m.keys[i])
  <2>1. CASE i \in 1 .. l /\ m.keys[i] = n.keys[i]
    <3>1. n.keys[i] \in Nat /\ a <= n.keys[i] /\ n.keys[i] < b /\ (n.leaf \/ a < n.keys[i])
      BY <1>1, <2>1
    <3>2. ASSUME NEW x \in Nat, x < b PROVE x < z
      BY <1>3, <3>2
    <3> QED BY <1>4, <2>1, <3>1, <3>2
  <2>2. ASSUME NEW j \in 1 .. N, m.keys[i] = cells[j][1] PROVE a <= m.keys[i] /\ m.keys[i] < z /\ a < m.keys[i]
    <3>1. cells[j][1] \in Nat /\ b <= cells[j][1] /\ cells[j][1] < z
      BY <1>2
    <3>2. ASSUME NEW x \in Nat, b <= x PROVE a < x /\ a <= x
      BY <1>3, <3>2
    <3> QED BY <2>2, <3>1, <3>2
  <2> QED BY <1>5, <2>1, <2>2
<1>7. ASSUME NEW i \in 1 .. Len(m.keys), NEW k \in 1 .. Len(m.keys), i < k
      PROVE  m.keys[i] < m.keys[k]
  <2>1. CASE k \in 1 .. l /\ m.keys[k] = n.keys[k]
    <3>1. i \in 1 .. l
      BY <1>1, <1>7, <2>1
    <3>2. m.keys[i] = n.keys[i]
      BY <1>4, <3>1
    <3> QED BY <1>1, <1>7, <2>1, <3>1, <3>2
  <2>2. ASSUME NEW j \in 1 .. N, k = l + j, m.keys[k] = cells[j][1] PROVE m.keys[i] < m.keys[k]
    <3>1. CASE i \in 1 .. l /\ m.keys[i] = n.keys[i]
      BY <1>2, <2>2, <3>1 DEF Behind
    <3>2. ASSUME NEW x \in 1 .. N, i = l + x, m.keys[i] = cells[x][1] PROVE m.keys[i] < m.keys[k]
      <4>1. x < j
        BY <1>1, <1>2, <1>7, <2>2, <3>2
      <4> QED BY <1>2, <2>2, <3>2, <4>1 DEF Behind
    <3> QED BY <1>5, <3>1, <3>2
  <2> QED BY <1>5, <2>1, <2>2
<1>8. PageFits(m, a, z)
  <2>1. Len(m.kids) = IF m.leaf THEN 0 ELSE Len(m.keys) + 1
    BY <1>4
  <2> QED BY <1>4, <1>6, <1>7, <2>1 DEF PageFits, KeysRise
<1>9. KeysIn(m) = KeysIn(n) \cup {cells[i][1] : i \in 1 .. Len(cells)}
  <2>1. ASSUME NEW k \in KeysIn(m) PROVE k \in KeysIn(n) \cup {cells[i][1] : i \in 1 .. Len(cells)}
    <3>1. PICK i \in 1 .. Len(m.keys) : k = m.keys[i]
      BY DEF KeysIn
    <3> QED BY <1>5, <3>1 DEF KeysIn
  <2>2. ASSUME NEW k \in KeysIn(n) PROVE k \in KeysIn(m)
    <3>1. PICK i \in 1 .. l : k = n.keys[i]
      BY DEF KeysIn
    <3>2. i \in 1 .. Len(m.keys) /\ m.keys[i] = n.keys[i]
      BY <1>1, <1>2, <1>4
    <3> QED BY <3>1, <3>2 DEF KeysIn
  <2>3. ASSUME NEW i \in 1 .. Len(cells) PROVE cells[i][1] \in KeysIn(m)
    <3>1. l + i \in 1 .. Len(m.keys) /\ m.keys[l + i] = cells[i][1]
      BY <1>1, <1>2, <1>4
    <3> HIDE DEF l
    <3> QED BY <3>1 DEF KeysIn
  <2> QED BY <2>1, <2>2, <2>3
<1>10. Halves(m, n, sib, a, b, z, l + 1)
  <2>1. CASE n.leaf
    BY <1>4, <2>1 DEF Halves
  <2>2. CASE ~n.leaf
    <3> DEFINE s == l + 1
    <3>1. /\ Len(sib.keys) \in Nat /\ Len(sib.kids) = Len(sib.keys) + 1 /\ Len(cells) = Len(sib.keys) + 1
      BY <2>2, FitsFacts DEF Given
    <3>2. s \in 1 .. Len(m.keys) /\ l = s - 1 /\ Len(sib.keys) = Len(m.keys) - s /\ Len(m.keys) + 1 - s = Len(sib.keys) + 1
          /\ l \in Nat /\ s = l + 1 /\ s \in Nat /\ Len(m.keys) \in Nat
      <4> DEFINE v == Len(sib.keys)  w == Len(cells)  y == Len(m.keys)
      <4>1. l \in Nat /\ v \in Nat
        BY <1>1, <3>1
      <4>2. w = v + 1
        BY <3>1
      <4>3. y = l + w
        BY <1>4
      <4> HIDE DEF l, v, w, y
      <4>4. s \in 1 .. y /\ l = s - 1 /\ v = y - s /\ (y + 1) - s = v + 1 /\ l \in Nat /\ s = l + 1 /\ s \in Nat /\ y \in Nat
        BY ONLY <4>1, <4>2, <4>3
      <4> HIDE DEF s
      <4> QED BY <4>4 DEF v, y
    <3>3. b = m.keys[s]
      <4>1. 1 \in 1 .. Len(cells) /\ ~sib.leaf
        BY <2>2, <3>1
      <4>2. m.keys[l + 1] = cells[1][1] /\ cells[1][1] = b
        BY <1>4, <4>1, GivenAt
      <4> QED BY <4>2
    <3>4. \A i \in 1 .. s - 1 : n.keys[i] = m.keys[i]
      BY <1>4, <3>2
    <3>5. ASSUME NEW i \in 1 .. Len(m.keys) - s PROVE sib.keys[i] = m.keys[i + s]
      <4> DEFINE j == i + 1
      <4>1. j \in 1 .. Len(cells) /\ j # 1 /\ l + j = i + s /\ j - 1 = i
        <5>1. i \in 1 .. Len(sib.keys)
          BY <3>2
        <5> HIDE DEF s, l
        <5> QED BY ONLY <3>1, <3>2, <5>1
      <4>1a. ~sib.leaf
        BY <2>2
      <4> HIDE DEF j
      <4>2. m.keys[l + j] = cells[j][1]
        BY <1>4, <4>1
      <4>3. cells[j][1] = sib.keys[j - 1]
        BY <4>1, <4>1a, GivenAt
      <4> HIDE DEF s, l
      <4>4. m.keys[i + s] = cells[j][1] /\ sib.keys[j - 1] = sib.keys[i]
        BY <4>1, <4>2
      <4> QED BY <4>3, <4>4
    <3>6. \A i \in 1 .. s : n.kids[i] = m.kids[i]
      BY <2>2, <3>2 DEF HasAll
    <3>7. ASSUME NEW i \in 1 .. Len(m.keys) + 1 - s PROVE sib.kids[i] = m.kids[i + s]
      <4>1. i \in 1 .. Len(cells) /\ l + 1 + i = i + s
        <5>1. i \in 1 .. Len(sib.keys) + 1
          BY <3>2
        <5> HIDE DEF s, l
        <5> QED BY ONLY <3>1, <3>2, <5>1
      <4>1a. ~sib.leaf
        BY <2>2
      <4>2. m.kids[l + 1 + i] = cells[i][2]
        BY <2>2, <4>1 DEF HasAll
      <4>3. cells[i][2] = sib.kids[i]
        BY <4>1, <4>1a, GivenAt
      <4> HIDE DEF s, l
      <4>4. m.kids[i + s] = cells[i][2]
        BY <4>1, <4>2
      <4> QED BY <4>3, <4>4
    <3> HIDE DEF s
    <3>8. /\ s \in 1 .. Len(m.keys) /\ b = m.keys[s] /\ Len(n.keys) = s - 1 /\ Len(sib.keys) = Len(m.keys) - s
          /\ \A i \in 1 .. s - 1 : n.keys[i] = m.keys[i]
          /\ \A i \in 1 .. Len(m.keys) - s : sib.keys[i] = m.keys[i + s]
          /\ \A i \in 1 .. s : n.kids[i] = m.kids[i]
          /\ \A i \in 1 .. Len(m.keys) + 1 - s : sib.kids[i] = m.kids[i + s]
      BY <3>2, <3>3, <3>4, <3>5, <3>6, <3>7
    <3> HIDE DEF l
    <3>9. Halves(m, n, sib, a, b, z, s)
      BY <1>4, <3>8 DEF Halves
    <3> QED BY <3>9 DEF s
  <2> QED BY <1>1, <2>1, <2>2
<1> QED BY <1>8, <1>9, <1>10

(* Page new[id] has taken all cells of the page sid behind it, the first   *)
(* child of an internal one with key f, and the parent has lost sid.       *)
Merged(pgs, new, q, c, f, cells, m) ==
  LET id == pgs[q].kids[c]  sid == pgs[q].kids[c + 1]
  IN  /\ Given(pgs[sid], f, cells) /\ HasAll(pgs[id], cells, m) /\ m.next = pgs[sid].next
      /\ DOMAIN new = DOMAIN pgs \ {sid} /\ new[id] = m /\ LosesKid(pgs[q], new[q], c)
      /\ \A p \in DOMAIN new : p # id /\ p # q => new[p] = pgs[p]

(* A page takes all cells of its right sibling, and the parent drops the   *)
(* key between them: a whole tree, when that key is raised to the least    *)
(* row below the sibling first.                                            *)
LEMMA MergedTree ==
  ASSUME NEW pgs, NEW new, NEW rt, NEW h, NEW lo, NEW hi, Whole(pgs, rt, h, lo, hi),
         NEW q \in DOMAIN pgs, ~pgs[q].leaf, NEW c \in 1 .. Len(pgs[q].keys),
         NEW f \in Key, pgs[q].keys[c] <= f,
         \A p \in DOMAIN pgs : h[p] < h[q] /\ lo[p] = pgs[q].keys[c] => Beyond(pgs[p], hi[p], f),
         NEW cells, NEW m, Merged(pgs, new, q, c, f, cells, m)
  PROVE  \E lo2, hi2 : /\ Whole(new, rt, h, lo2, hi2)
                       /\ lo2[pgs[q].kids[c]] = lo[pgs[q].kids[c]] /\ hi2[pgs[q].kids[c]] = hi[pgs[q].kids[c + 1]]
<1> DEFINE id == pgs[q].kids[c]  sid == pgs[q].kids[c + 1]
           n == [leaf |-> FALSE, keys |-> [pgs[q].keys EXCEPT ![c] = f], kids |-> pgs[q].kids,
                 next |-> pgs[q].next, room |-> pgs[q].room, gap |-> pgs[q].gap]
           mid == [p \in DOMAIN pgs |-> IF p = q THEN n ELSE pgs[p]]
           lo2 == [p \in DOMAIN pgs |-> Moved(pgs, h, lo, q, c, f, p)]
           hi2 == [p \in DOMAIN pgs |-> Moved(pgs, h, hi, q, c, f, p)]
           hi3 == [p \in DOMAIN pgs |-> IF p = id THEN hi2[sid] ELSE hi2[p]]
<1>1. /\ id \in DOMAIN pgs /\ sid \in DOMAIN pgs /\ id # sid /\ id # q /\ sid # q
  BY KeySides
<1>2. /\ pgs[q] \in PageRec /\ Len(pgs[q].keys) \in Nat
      /\ Len(pgs[q].kids) = Len(pgs[q].keys) + 1
  BY WholePage
<1>3. /\ pgs[q].keys \in Seq(Key) /\ pgs[q].kids \in Seq(Nat) /\ pgs[q].next \in Nat \cup {Null}
      /\ pgs[q].room \in Nat /\ pgs[q].gap \in Nat /\ pgs[q].leaf = FALSE
  BY <1>2, RecFields
<1>4. MovesKey(pgs[q], n, c, f)
  <2> DEFINE ks == [pgs[q].keys EXCEPT ![c] = f]
  <2>1. ks \in Seq(Key) /\ Len(ks) = Len(pgs[q].keys) /\ \A i \in 1 .. Len(pgs[q].keys) : ks[i] = IF i = c THEN f ELSE pgs[q].keys[i]
    BY <1>3
  <2> HIDE DEF ks
  <2>2. n = [leaf |-> FALSE, keys |-> ks, kids |-> pgs[q].kids, next |-> pgs[q].next, room |-> pgs[q].room, gap |-> pgs[q].gap]
    BY DEF ks
  <2> HIDE DEF n
  <2>3. n \in PageRec /\ n.leaf = FALSE /\ n.keys = ks /\ n.kids = pgs[q].kids /\ n.next = pgs[q].next
    BY <1>3, <2>1, <2>2 DEF PageRec
  <2> QED BY <1>3, <2>1, <2>3 DEF MovesKey
<1> HIDE DEF n
<1>5. mid[q] = n /\ DOMAIN mid = DOMAIN pgs /\ \A p \in DOMAIN pgs : p # q => mid[p] = pgs[p]
  OBVIOUS
<1> HIDE DEF mid
<1>6. Changed(pgs, mid, q, mid[q])
  BY <1>5 DEF Changed
<1>7. Shift(pgs, mid, rt, h, lo, hi, q, c, f, lo2, hi2)
  BY <1>4, <1>5, <1>6 DEF Shift
<1> HIDE DEF lo2, hi2
<1>8. Whole(mid, rt, h, lo2, hi2)
  BY <1>7, ShiftTree
<1>9. /\ mid[q].kids = pgs[q].kids /\ mid[q].leaf = FALSE /\ mid[q].next = pgs[q].next
      /\ Len(mid[q].keys) = Len(pgs[q].keys) /\ mid[q].keys[c] = f
      /\ \A i \in 1 .. Len(pgs[q].keys) : i # c => mid[q].keys[i] = pgs[q].keys[i]
  BY <1>4, <1>5 DEF MovesKey
<1>10. /\ mid[id] = pgs[id] /\ mid[sid] = pgs[sid] /\ mid[q].kids[c] = id /\ mid[q].kids[c + 1] = sid
       /\ c \in 1 .. Len(mid[q].keys) /\ q \in DOMAIN mid /\ ~mid[q].leaf
  BY <1>1, <1>5, <1>9
<1>11. /\ hi2[id] = f /\ lo2[sid] = f /\ lo2[id] < f /\ f < hi2[sid] /\ h[id] = h[sid]
  <2> HIDE DEF id, sid
  <2> QED BY <1>8, <1>9, <1>10, KeySides
<1>12. /\ PageFits(pgs[id], lo2[id], f) /\ PageFits(pgs[sid], f, hi2[sid]) /\ pgs[id].leaf = pgs[sid].leaf
       /\ lo2[id] \in Nat /\ hi2[sid] \in Nat
  <2> HIDE DEF id, sid
  <2>1. /\ PageFits(mid[id], lo2[id], hi2[id]) /\ lo2[id] \in Nat /\ (mid[id].leaf <=> h[id] = 0) /\ mid[id] \in PageRec
    BY <1>1, <1>5, <1>8, WholePage
  <2>2. /\ PageFits(mid[sid], lo2[sid], hi2[sid]) /\ hi2[sid] \in Nat /\ (mid[sid].leaf <=> h[sid] = 0) /\ mid[sid] \in PageRec
    BY <1>1, <1>5, <1>8, WholePage
  <2>3. mid[id].leaf \in BOOLEAN /\ mid[sid].leaf \in BOOLEAN
    BY <2>1, <2>2, RecFields
  <2> QED BY <1>10, <1>11, <2>1, <2>2, <2>3
<1>13. /\ Given(pgs[sid], f, cells) /\ HasAll(pgs[id], cells, m) /\ m.next = pgs[sid].next
       /\ DOMAIN new = DOMAIN pgs \ {sid} /\ new[id] = m /\ LosesKid(pgs[q], new[q], c)
       /\ \A p \in DOMAIN new : p # id /\ p # q => new[p] = pgs[p]
  BY DEF Merged
<1>14. PageFits(m, lo2[id], hi2[sid]) /\ Halves(m, pgs[id], pgs[sid], lo2[id], f, hi2[sid], Len(pgs[id].keys) + 1)
  <2> HIDE DEF id, sid
  <2> QED BY <1>11, <1>12, <1>13, JoinPages
<1>15. LosesKid(mid[q], new[q], c)
  <2>1. ASSUME NEW j \in 1 .. Len(pgs[q].keys) - 1
        PROVE  new[q].keys[j] = IF j < c THEN mid[q].keys[j] ELSE mid[q].keys[j + 1]
    <3>1. new[q].keys[j] = IF j < c THEN pgs[q].keys[j] ELSE pgs[q].keys[j + 1]
      BY <1>13 DEF LosesKid
    <3>2. j \in 1 .. Len(pgs[q].keys) /\ j + 1 \in 1 .. Len(pgs[q].keys) /\ (j < c => j # c) /\ (~(j < c) => j + 1 # c)
      BY <1>2
    <3> QED BY <1>9, <3>1, <3>2
  <2> QED BY <1>9, <1>13, <2>1 DEF LosesKid
<1>16. \A p \in DOMAIN new : hi3[p] = IF p = id THEN hi2[sid] ELSE hi2[p]
  BY <1>13
<1>17. \A p \in DOMAIN new : p # id /\ p # q => new[p] = mid[p]
  BY <1>5, <1>13
<1> HIDE DEF hi3
<1>18. Join(mid, new, rt, h, lo2, hi2, q, c, m, hi3)
  <2> HIDE DEF id, sid
  <2>1. DOMAIN new = DOMAIN mid \ {sid}
    BY <1>5, <1>13
  <2> QED BY <1>8, <1>9, <1>10, <1>13, <1>14, <1>15, <1>16, <1>17, <2>1 DEF Join
<1>19. Whole(new, rt, h, lo2, hi3)
  BY <1>18, JoinTree
<1>20. lo2[id] = lo[id] /\ hi2[sid] = hi[sid]
  <2> DEFINE b == pgs[q].keys[c]
  <2>1. lo[id] < b /\ b < hi[sid] /\ lo[id] # b /\ hi[sid] # b
    <3>1. lo[id] < b /\ b < hi[sid]
      BY KeySides
    <3>2. lo[id] \in Nat /\ hi[sid] \in Nat /\ b \in Nat
      BY <1>1, <1>2, WholePage
    <3> QED BY <3>1, <3>2
  <2> HIDE DEF id, sid
  <2>2. lo2[id] = IF h[id] < h[q] /\ lo[id] = b THEN f ELSE lo[id]
    BY <1>1, <1>7, ShiftBounds
  <2>3. hi2[sid] = IF h[sid] < h[q] /\ hi[sid] = b THEN f ELSE hi[sid]
    BY <1>1, <1>7, ShiftBounds
  <2> QED BY <2>1, <2>2, <2>3
<1>21. hi3[id] = hi[sid]
  BY <1>1, <1>20 DEF hi3
<1> QED BY <1>19, <1>20, <1>21

(* What begins where a leaf begins cannot have smaller keys.               *)
LEMMA LeafBeyond ==
  ASSUME NEW pgs, NEW rt, NEW h, NEW lo, NEW hi, Whole(pgs, rt, h, lo, hi),
         NEW q \in DOMAIN pgs, NEW b, h[q] = 1,
         NEW p \in DOMAIN pgs, h[p] < h[q], lo[p] = b
  PROVE  Beyond(pgs[p], hi[p], b)
<1>1. /\ h[p] \in Nat /\ (pgs[p].leaf <=> h[p] = 0) /\ lo[p] < hi[p] /\ PageFits(pgs[p], lo[p], hi[p])
  BY WholePage
<1>2. pgs[p].leaf
  <2>1. h[p] = 0
    BY <1>1
  <2> QED BY <1>1, <2>1
<1> QED BY <1>1, <1>2 DEF Beyond, PageFits

-----------------------------------------------------------------------------
(* A page takes a part of them.                                            *)

(* A page without its first cells: in an internal one the child of the     *)
(* first cell that stays has become the first child.                       *)
Keeps(sib, give, small) ==
  /\ PageOK(small) /\ small.leaf = sib.leaf /\ small.next = sib.next
  /\ Len(small.keys) = Len(sib.keys) - give
  /\ \A i \in 1 .. Len(sib.keys) - give : small.keys[i] = sib.keys[give + i]
  /\ ~sib.leaf => \A i \in 1 .. Len(small.kids) : small.kids[i] = sib.kids[give + i]

(* The keys and the children of a sequence of cells.                       *)
LEMMA PartKeys ==
  ASSUME NEW left, left \in Seq(Key \X Links)
  PROVE  /\ KeysOf(left) \in Seq(Key) /\ Len(KeysOf(left)) = Len(left)
         /\ \A i \in 1 .. Len(left) : KeysOf(left)[i] = left[i][1]
<1>1. DOMAIN left = 1 .. Len(left) /\ Len(left) \in Nat /\ \A i \in 1 .. Len(left) : left[i][1] \in Key
  OBVIOUS
<1> DEFINE ks == [i \in 1 .. Len(left) |-> left[i][1]]
<1>2. ks \in Seq(Key) /\ Len(ks) = Len(left) /\ \A i \in 1 .. Len(left) : ks[i] = left[i][1]
  BY <1>1
<1>3. KeysOf(left) = ks
  BY <1>1 DEF KeysOf
<1> QED BY <1>2, <1>3

LEMMA PartKids ==
  ASSUME NEW left, left \in Seq(Key \X Links), \A i \in 1 .. Len(left) : left[i][2] \in Nat
  PROVE  /\ KidsOf(left) \in Seq(Nat) /\ Len(KidsOf(left)) = Len(left)
         /\ \A i \in 1 .. Len(left) : KidsOf(left)[i] = left[i][2]
<1>1. DOMAIN left = 1 .. Len(left) /\ Len(left) \in Nat
  OBVIOUS
<1> DEFINE ks == [i \in 1 .. Len(left) |-> left[i][2]]
<1>2. ks \in Seq(Nat) /\ Len(ks) = Len(left) /\ \A i \in 1 .. Len(left) : ks[i] = left[i][2]
  BY <1>1
<1>3. KidsOf(left) = ks
  BY <1>1 DEF KidsOf
<1> QED BY <1>2, <1>3

(* A sequence without its first element.                                   *)
LEMMA TailFacts ==
  ASSUME NEW S, NEW s \in Seq(S), Len(s) >= 1
  PROVE  Tail(s) \in Seq(S) /\ Len(Tail(s)) = Len(s) - 1 /\ \A i \in 1 .. Len(s) - 1 : Tail(s)[i] = s[i + 1]
<1>1. s # << >>
  OBVIOUS
<1> QED BY <1>1

(* A page that gives up its first cells keeps the others.                  *)
LEMMA RemainderKeeps ==
  ASSUME NEW sib, PageOK(sib), NEW f, NEW cells, Given(sib, f, cells),
         NEW give \in 1 .. Len(cells) - 1,
         NEW left, left = SubSeq(cells, give + 1, Len(cells))
  PROVE  Keeps(sib, give, Remainder(sib, left)) /\ Head(left) = cells[give + 1]
<1>1. /\ sib \in PageRec /\ Len(sib.kids) = (IF sib.leaf THEN 0 ELSE Len(sib.keys) + 1) /\ RoomFits(sib)
  BY DEF PageOK
<1>2. /\ sib.leaf \in BOOLEAN /\ sib.keys \in Seq(Key) /\ sib.kids \in Seq(Nat) /\ sib.next \in Links
      /\ Len(sib.keys) \in Nat
  BY <1>1, RecFields DEF Links
<1>3. /\ cells \in Seq(Key \X Links) /\ Len(cells) \in Nat
      /\ Len(cells) = IF sib.leaf THEN Len(sib.keys) ELSE Len(sib.keys) + 1
  BY DEF Given
<1> DEFINE N == Len(cells)
<1>4. /\ left \in Seq(Key \X Links) /\ Len(left) = N - give
      /\ \A i \in 1 .. N - give : left[i] = cells[give + i]
  <2>1. give + 1 \in 1 .. Len(cells) + 1 /\ Len(cells) \in 0 .. Len(cells) /\ give + 1 <= Len(cells) + 1
        /\ (Len(cells) - (give + 1)) + 1 = N - give /\ give \in Nat
    BY <1>3
  <2>2. /\ left \in Seq(Key \X Links) /\ Len(left) = (Len(cells) - (give + 1)) + 1
        /\ \A i \in 1 .. (Len(cells) - (give + 1)) + 1 : left[i] = cells[(i + (give + 1)) - 1]
    BY <1>3, <2>1, PartOf
  <2>3. ASSUME NEW i \in 1 .. N - give PROVE left[i] = cells[give + i]
    <3>1. (i + (give + 1)) - 1 = give + i
      BY <2>1
    <3>2. left[i] = cells[(i + (give + 1)) - 1]
      BY <2>1, <2>2
    <3> QED BY <3>1, <3>2
  <2> QED BY <2>1, <2>2, <2>3
<1>5. N - give \in Nat /\ N - give >= 1 /\ give \in Nat /\ give + 1 \in 1 .. N /\ 1 \in 1 .. N - give
  BY <1>3
<1>6. Head(left) = cells[give + 1]
  <2>1. Head(left) = left[1]
    BY <1>4, <1>5
  <2> QED BY <1>4, <1>5, <2>1
<1> DEFINE small == Remainder(sib, left)
           ks == KeysOf(IF sib.leaf THEN left ELSE Tail(left))
           cs == IF sib.leaf THEN << >> ELSE KidsOf(left)
           d == Len(sib.keys) - give
<1>7. ks \in Seq(Key) /\ Len(ks) = d /\ \A i \in 1 .. d : ks[i] = sib.keys[give + i]
  <2>1. CASE sib.leaf
    <3>1. ks = KeysOf(left) /\ d = N - give
      BY <1>3, <2>1
    <3>2. ASSUME NEW i \in 1 .. d PROVE left[i][1] = sib.keys[give + i]
      <4>1. give + i \in 1 .. Len(sib.keys) /\ i \in 1 .. N - give
        BY <1>3, <2>1
      <4>2. cells[give + i] = <<sib.keys[give + i], Null>>
        BY <2>1, <4>1 DEF Given
      <4> QED BY <1>4, <4>1, <4>2
    <3>3. KeysOf(left) \in Seq(Key) /\ Len(KeysOf(left)) = Len(left) /\ \A i \in 1 .. Len(left) : KeysOf(left)[i] = left[i][1]
      BY <1>4, PartKeys
    <3>4. Len(left) = d
      BY <1>4, <3>1
    <3> HIDE DEF ks, d
    <3> QED BY <3>1, <3>2, <3>3, <3>4
  <2>2. CASE ~sib.leaf
    <3> DEFINE tl == Tail(left)
    <3>1. tl \in Seq(Key \X Links) /\ Len(tl) = (N - give) - 1 /\ \A i \in 1 .. (N - give) - 1 : tl[i] = left[i + 1]
      <4>1. Len(left) >= 1
        BY <1>4, <1>5
      <4>2. tl \in Seq(Key \X Links) /\ Len(tl) = Len(left) - 1 /\ \A i \in 1 .. Len(left) - 1 : tl[i] = left[i + 1]
        BY <1>4, <4>1, TailFacts
      <4> QED BY <1>4, <4>2
    <3>2. ks = KeysOf(tl) /\ d = (N - give) - 1
      BY <1>2, <1>3, <1>5, <2>2
    <3> HIDE DEF tl
    <3>3. ASSUME NEW i \in 1 .. d PROVE tl[i][1] = sib.keys[give + i]
      <4> DEFINE j == give + i
      <4>1. j \in 1 .. Len(sib.keys) /\ i \in 1 .. (N - give) - 1 /\ i + 1 \in 1 .. N - give /\ give + (i + 1) = j + 1
        BY <1>2, <1>3, <1>5, <2>2
      <4> HIDE DEF j
      <4>2. cells[j + 1] = <<sib.keys[j], sib.kids[j + 1]>>
        BY <2>2, <4>1 DEF Given
      <4>3. tl[i] = cells[j + 1]
        <5>1. left[i + 1] = cells[give + (i + 1)]
          BY <1>4, <4>1
        <5> QED BY <3>1, <4>1, <5>1
      <4>4. tl[i][1] = sib.keys[j]
        BY <4>2, <4>3
      <4> QED BY <4>4 DEF j
    <3>4. KeysOf(tl) \in Seq(Key) /\ Len(KeysOf(tl)) = Len(tl) /\ \A i \in 1 .. Len(tl) : KeysOf(tl)[i] = tl[i][1]
      BY <3>1, PartKeys
    <3>5. Len(tl) = d
      BY <3>1, <3>2
    <3> HIDE DEF ks, d
    <3> QED BY <3>2, <3>3, <3>4, <3>5
  <2> QED BY <1>2, <2>1, <2>2
<1>8. cs \in Seq(Nat) /\ Len(cs) = (IF sib.leaf THEN 0 ELSE d + 1)
      /\ (~sib.leaf => \A i \in 1 .. d + 1 : cs[i] = sib.kids[give + i])
  <2>1. CASE sib.leaf
    BY <2>1
  <2>2. CASE ~sib.leaf
    <3>1. cs = KidsOf(left) /\ d + 1 = N - give
      BY <1>2, <1>3, <1>5, <2>2
    <3>2. ASSUME NEW i \in 1 .. N - give PROVE left[i][2] = sib.kids[give + i] /\ left[i][2] \in Nat
      <4> DEFINE j == (give + i) - 1
      <4>1. j \in 1 .. Len(sib.keys) /\ give + i = j + 1 /\ j + 1 \in 1 .. Len(sib.kids)
        BY <1>1, <1>2, <1>3, <1>5, <2>2
      <4> HIDE DEF j
      <4>2. cells[j + 1] = <<sib.keys[j], sib.kids[j + 1]>>
        BY <2>2, <4>1 DEF Given
      <4>3. sib.kids[j + 1] \in Nat
        <5>1. sib.kids \in Seq(Nat) /\ j + 1 \in 1 .. Len(sib.kids)
          BY <1>2, <4>1
        <5> QED BY ONLY <5>1
      <4>4. left[i] = cells[give + i]
        BY <1>4
      <4> QED BY <4>1, <4>2, <4>3, <4>4
    <3>3. KidsOf(left) \in Seq(Nat) /\ Len(KidsOf(left)) = Len(left) /\ \A i \in 1 .. Len(left) : KidsOf(left)[i] = left[i][2]
      BY <1>4, <3>2, PartKids
    <3> QED BY <1>4, <2>2, <3>1, <3>2, <3>3
  <2> QED BY <1>2, <2>1, <2>2
<1>9. small = Node(sib.leaf, ks, cs, sib.next)
  BY DEF Remainder
<1>10. d \in Nat /\ give \in 0 .. Len(sib.keys)
  BY <1>2, <1>3, <1>5
<1> HIDE DEF ks, cs
<1>11. SpaceIn(sib.leaf, ks) <= PageSpace
  <2> DEFINE l == SubSeq(sib.keys, 1, give)
  <2>1. l \in Seq(Key) /\ Len(l) = give /\ \A i \in 1 .. give : l[i] = sib.keys[i]
    <3>1. 1 \in 1 .. Len(sib.keys) + 1 /\ give \in 0 .. Len(sib.keys) /\ 1 <= give + 1 /\ (give - 1) + 1 = give
          /\ \A i \in 1 .. give : (i + 1) - 1 = i
      BY <1>2, <1>5, <1>10
    <3>2. l \in Seq(Key) /\ Len(l) = (give - 1) + 1 /\ \A i \in 1 .. (give - 1) + 1 : l[i] = sib.keys[(i + 1) - 1]
      BY <1>2, <3>1, PartOf
    <3> QED BY <3>1, <3>2
  <2> HIDE DEF l
  <2>2. Cut(sib.keys, l, ks)
    <3>1. Len(l) + Len(ks) = Len(sib.keys)
      BY <1>2, <1>5, <1>7, <2>1
    <3> QED BY <1>7, <2>1, <3>1 DEF Cut
  <2>3. SpaceIn(sib.leaf, sib.keys) = SpaceIn(sib.leaf, l) + SpaceIn(sib.leaf, ks)
    BY <1>2, <1>7, <2>1, <2>2, SpaceCut
  <2>4. SpaceOf(sib) = SpaceIn(sib.leaf, sib.keys)
    BY <1>1, SpaceOfIs
  <2>5. SpaceIn(sib.leaf, l) \in Nat /\ SpaceIn(sib.leaf, ks) \in Nat /\ SpaceIn(sib.leaf, sib.keys) \in Nat
    BY <1>2, <1>7, <2>1, SpacesNat
  <2>6. SpaceOf(sib) <= PageSpace /\ PageSpace \in Nat
    <3>1. sib.room + SpaceOf(sib) <= PageSpace
      BY <1>1, Numbers DEF RoomFits
    <3>2. sib.room \in Nat /\ SpaceOf(sib) \in Nat /\ PageSpace \in Nat
      BY <1>1, RecFields, SpaceNat, Numbers
    <3> QED BY ONLY <3>1, <3>2
  <2> HIDE DEF d
  <2>7. ASSUME NEW x \in Nat, NEW y \in Nat, NEW t, t = x + y, t <= PageSpace PROVE y <= PageSpace
    BY <2>6, <2>7
  <2> QED BY <2>3, <2>4, <2>5, <2>6, <2>7
<1>12. /\ small \in PageRec /\ small.leaf = sib.leaf /\ small.keys = ks /\ small.kids = cs /\ small.next = sib.next
       /\ RoomFits(small)
  <2> HIDE DEF small, d
  <2> QED BY <1>2, <1>7, <1>8, <1>9, <1>11, NewPage
<1>13. PageOK(small)
  <2> HIDE DEF small, d
  <2> QED BY <1>7, <1>8, <1>12 DEF PageOK
<1>14. Keeps(sib, give, small)
  <2> HIDE DEF small
  <2> QED BY <1>2, <1>7, <1>8, <1>12, <1>13 DEF Keeps
<1> QED BY <1>6, <1>14

(* The page with the first keys of a page, and the one with the others.    *)
LEMMA FrontPart ==
  ASSUME NEW m, NEW a \in Nat, NEW z \in Nat, PageFits(m, a, z), NEW s \in 1 .. Len(m.keys),
         NEW l, PageOK(l), l.leaf = m.leaf, Len(l.keys) = s - 1,
         \A i \in 1 .. s - 1 : l.keys[i] = m.keys[i]
  PROVE  PageFits(l, a, m.keys[s])
<1>1. /\ m.leaf \in BOOLEAN /\ Len(m.keys) \in Nat
      /\ \A i \in 1 .. Len(m.keys) : m.keys[i] \in Nat /\ a <= m.keys[i] /\ (m.leaf \/ a < m.keys[i])
      /\ \A i, j \in 1 .. Len(m.keys) : i < j => m.keys[i] < m.keys[j]
  BY FitsFacts
<1>2. \A i \in 1 .. s - 1 : i \in 1 .. Len(m.keys) /\ i < s
  BY <1>1
<1>3. KeysRise(l)
  BY <1>1, <1>2 DEF KeysRise
<1>4. \A i \in 1 .. Len(l.keys) : a <= l.keys[i] /\ l.keys[i] < m.keys[s] /\ (l.leaf \/ a < l.keys[i])
  BY <1>1, <1>2
<1> QED BY <1>3, <1>4 DEF PageFits, PageOK

(* The back part of a page fits the bounds from its first key on.          *)
LEMMA BackPart ==
  ASSUME NEW m, NEW a \in Nat, NEW z \in Nat, PageFits(m, a, z), NEW s \in 1 .. Len(m.keys),
         NEW r, PageOK(r), r.leaf = m.leaf, NEW off \in Nat, m.leaf => off = s - 1, ~m.leaf => off = s,
         Len(r.keys) = Len(m.keys) - off, \A i \in 1 .. Len(m.keys) - off : r.keys[i] = m.keys[off + i]
  PROVE  PageFits(r, m.keys[s], z)
<1>1. /\ m.leaf \in BOOLEAN /\ Len(m.keys) \in Nat
      /\ \A i \in 1 .. Len(m.keys) : m.keys[i] \in Nat /\ m.keys[i] < z
      /\ \A i, j \in 1 .. Len(m.keys) : i < j => m.keys[i] < m.keys[j]
  BY FitsFacts
<1>2. ASSUME NEW i \in 1 .. Len(m.keys) - off
      PROVE  off + i \in 1 .. Len(m.keys) /\ (off + i = s \/ s < off + i) /\ (m.leaf \/ s < off + i)
  BY <1>1
<1>3. KeysRise(r)
  <2>1. ASSUME NEW i \in 1 .. Len(r.keys), NEW j \in 1 .. Len(r.keys), i < j PROVE r.keys[i] < r.keys[j]
    <3> DEFINE x == off + i  y == off + j
    <3>1. x \in 1 .. Len(m.keys) /\ y \in 1 .. Len(m.keys) /\ x < y
      BY <1>2, <2>1
    <3>2. r.keys[i] = m.keys[x] /\ r.keys[j] = m.keys[y]
      OBVIOUS
    <3> HIDE DEF x, y
    <3> QED BY <1>1, <3>1, <3>2
  <2> QED BY <2>1 DEF KeysRise
<1>4. ASSUME NEW i \in 1 .. Len(r.keys)
      PROVE  m.keys[s] <= r.keys[i] /\ r.keys[i] < z /\ (r.leaf \/ m.keys[s] < r.keys[i])
  <2> DEFINE x == off + i
  <2>1. x \in 1 .. Len(m.keys) /\ (x = s \/ s < x) /\ (m.leaf \/ s < x)
    BY <1>2
  <2>2. r.keys[i] = m.keys[x]
    OBVIOUS
  <2> HIDE DEF x
  <2>3. m.keys[x] \in Nat /\ m.keys[s] \in Nat /\ m.keys[x] < z
    BY <1>1, <2>1
  <2>4. s < x => m.keys[s] < m.keys[x]
    BY <1>1, <2>1
  <2>5. r.leaf = m.leaf
    OBVIOUS
  <2> QED BY ONLY <2>1, <2>2, <2>3, <2>4, <2>5
<1> QED BY <1>3, <1>4 DEF PageFits, PageOK

(* The page that would have all cells of two is divided into the page that *)
(* takes some and the page that keeps the others.                          *)
LEMMA SharedPages ==
  ASSUME NEW n, NEW sib, NEW a \in Nat, NEW f \in Key, NEW z \in Nat, PageFits(n, a, f), PageFits(sib, f, z),
         f < z, a < f, n.leaf = sib.leaf, NEW cells, Given(sib, f, cells),
         NEW m, HasAll(n, cells, m), m.next = sib.next,
         NEW give \in 1 .. Len(cells) - 1, NEW grown, Appended(n, cells, give, grown),
         NEW small, Keeps(sib, give, small), NEW g, g = cells[give + 1][1]
  PROVE  /\ g \in Key /\ a < g /\ g < z
         /\ Halves(m, grown, small, a, g, z, Len(n.keys) + give + 1)
<1> DEFINE l == Len(n.keys)  N == Len(cells)  s == (l + give) + 1  v == Len(sib.keys)
<1>1. /\ PageFits(m, a, z) /\ Halves(m, n, sib, a, f, z, l + 1)
  BY JoinPages
<1>2. /\ n.leaf \in BOOLEAN /\ l \in Nat /\ Len(n.kids) = (IF n.leaf THEN 0 ELSE l + 1)
  BY FitsFacts
<1>3. /\ v \in Nat /\ Len(sib.kids) = (IF n.leaf THEN 0 ELSE v + 1)
  BY FitsFacts
<1>4. /\ N \in Nat /\ N = (IF n.leaf THEN v ELSE v + 1)
  BY <1>3 DEF Given
<1>5. /\ m.leaf = n.leaf /\ Len(m.keys) = l + N
      /\ \A i \in 1 .. l : m.keys[i] = n.keys[i]
      /\ \A i \in 1 .. N : m.keys[l + i] = cells[i][1]
      /\ ~n.leaf => \A i \in 1 .. l + 1 : m.kids[i] = n.kids[i]
      /\ ~n.leaf => \A i \in 1 .. N : m.kids[(l + 1) + i] = cells[i][2]
  BY DEF HasAll
<1>6. /\ PageOK(grown) /\ grown.leaf = n.leaf /\ Len(grown.keys) = l + give
      /\ \A i \in 1 .. l : grown.keys[i] = n.keys[i]
      /\ \A i \in 1 .. give : grown.keys[l + i] = cells[i][1]
      /\ ~n.leaf => \A i \in 1 .. l + 1 : grown.kids[i] = n.kids[i]
      /\ ~n.leaf => \A i \in 1 .. give : grown.kids[(l + 1) + i] = cells[i][2]
  BY DEF Appended
<1>7. /\ PageOK(small) /\ small.leaf = n.leaf /\ small.next = sib.next /\ Len(small.keys) = v - give
      /\ \A i \in 1 .. v - give : small.keys[i] = sib.keys[give + i]
      /\ ~n.leaf => \A i \in 1 .. Len(small.kids) : small.kids[i] = sib.kids[give + i]
      /\ Len(small.kids) = IF n.leaf THEN 0 ELSE (v - give) + 1
  BY DEF Keeps, PageOK
<1>8. \A i \in 1 .. N : /\ n.leaf => i \in 1 .. v /\ cells[i][1] = sib.keys[i]
                        /\ ~n.leaf => cells[i][2] = sib.kids[i]
                        /\ ~n.leaf /\ i # 1 => i - 1 \in 1 .. v /\ cells[i][1] = sib.keys[i - 1]
  BY GivenAt
<1> HIDE DEF l, N, v
<1>9. /\ s \in 1 .. Len(m.keys) /\ s - 1 = l + give /\ s = l + (give + 1) /\ give + 1 \in 1 .. N /\ give \in 1 .. N
      /\ s \in Nat /\ give \in Nat /\ l + give \in Nat
  <2>1. give \in 1 .. N - 1
    BY DEF N
  <2>2. Len(m.keys) = l + N
    BY <1>5
  <2>3. l \in Nat /\ N \in Nat
    BY <1>2, <1>4
  <2>4. s = (l + give) + 1
    OBVIOUS
  <2> HIDE DEF s
  <2> QED BY ONLY <2>1, <2>2, <2>3, <2>4
<1>9a. l \in Nat /\ N \in Nat /\ give \in Nat /\ 1 <= give /\ give + 1 <= N
  BY <1>2, <1>4, <1>9
<1>10. m.keys[s] = g
  BY <1>5, <1>9
<1>11. ASSUME NEW i \in 1 .. s - 1 PROVE grown.keys[i] = m.keys[i]
  <2>1. CASE i <= l
    <3>1. i \in 1 .. l
      BY <1>2, <2>1
    <3> QED BY <1>5, <1>6, <3>1
  <2>2. CASE ~(i <= l)
    <3> DEFINE j == i - l
    <3>1. j \in 1 .. give /\ j \in 1 .. N /\ i = l + j
      BY <1>9a, <2>2
    <3> HIDE DEF j
    <3> QED BY <1>5, <1>6, <3>1
  <2> QED BY <2>1, <2>2
<1>12. PageFits(grown, a, g)
  <2>1. Len(grown.keys) = s - 1
    BY <1>6, <1>9
  <2>2. s \in 1 .. Len(m.keys) /\ grown.leaf = m.leaf
    BY <1>5, <1>6, <1>9
  <2> HIDE DEF s
  <2>3. PageFits(grown, a, m.keys[s])
    BY <1>1, <1>6, <1>11, <2>1, <2>2, FrontPart
  <2> QED BY <1>10, <2>3
<1>13. g \in Key /\ a < g /\ g < z
  <2>1. m.keys[s] \in Key /\ m.keys[s] \in Nat /\ m.keys[s] < z
    BY <1>1, <1>9, FitsFacts
  <2>2. 1 \in 1 .. s - 1
    BY <1>2, <1>9
  <2>3. m.keys[1] \in Nat /\ a <= m.keys[1] /\ m.keys[1] < m.keys[s]
    <3>1. 1 \in 1 .. Len(m.keys) /\ 1 < s
      BY <1>9, <2>2
    <3> HIDE DEF s
    <3> QED BY <1>1, <1>9, <3>1, FitsFacts
  <2> QED BY <1>10, <2>1, <2>3
<1> DEFINE off == IF n.leaf THEN s - 1 ELSE s
<1>14. off \in Nat /\ Len(small.keys) = Len(m.keys) - off
  BY <1>2, <1>3, <1>4, <1>5, <1>7, <1>9
<1>15. ASSUME NEW i \in 1 .. Len(m.keys) - off PROVE small.keys[i] = m.keys[off + i]
  <2>1. i \in 1 .. v - give
    BY <1>7, <1>14
  <2>2. CASE n.leaf
    <3> DEFINE j == give + i
    <3>1. j \in 1 .. N /\ off + i = l + j
      BY <1>2, <1>3, <1>4, <1>9, <2>1, <2>2
    <3>2. small.keys[i] = sib.keys[j]
      BY <1>7, <2>1
    <3> HIDE DEF j, off
    <3> QED BY <1>5, <1>8, <2>2, <3>1, <3>2
  <2>3. CASE ~n.leaf
    <3> DEFINE j == give + i + 1
    <3>1. j \in 1 .. N /\ off + i = l + j /\ j # 1 /\ j - 1 = give + i
      BY <1>2, <1>3, <1>4, <1>9, <2>1, <2>3
    <3>2. small.keys[i] = sib.keys[give + i]
      BY <1>7, <2>1
    <3> HIDE DEF j, off
    <3>3. cells[j][1] = sib.keys[give + i]
      BY <1>8, <2>3, <3>1
    <3> QED BY <1>5, <3>1, <3>2, <3>3
  <2> QED BY <2>2, <2>3
<1>16. PageFits(small, g, z)
  <2>1. (m.leaf => off = s - 1) /\ (~m.leaf => off = s)
    BY <1>5
  <2>2. s \in 1 .. Len(m.keys) /\ small.leaf = m.leaf
    BY <1>5, <1>7, <1>9
  <2> HIDE DEF off, s
  <2>3. PageFits(small, m.keys[s], z)
    BY <1>1, <1>7, <1>14, <1>15, <2>1, <2>2, BackPart
  <2> QED BY <1>10, <2>3
<1>17. ASSUME ~n.leaf, NEW i \in 1 .. s PROVE grown.kids[i] = m.kids[i]
  <2>1. CASE i <= l + 1
    <3>1. i \in 1 .. l + 1
      BY <1>2, <2>1
    <3> QED BY <1>5, <1>6, <1>17, <3>1
  <2>2. CASE ~(i <= l + 1)
    <3> DEFINE j == i - (l + 1)
    <3>1. j \in 1 .. give /\ j \in 1 .. N /\ i = (l + 1) + j
      BY <1>9a, <2>2
    <3> HIDE DEF j
    <3> QED BY <1>5, <1>6, <1>17, <3>1
  <2> QED BY <2>1, <2>2
<1>18. ASSUME ~n.leaf, NEW i \in 1 .. Len(m.keys) + 1 - s PROVE small.kids[i] = m.kids[i + s]
  <2> DEFINE j == give + i
  <2>1. j \in 1 .. N /\ i + s = (l + 1) + j /\ i \in 1 .. Len(small.kids)
    BY <1>2, <1>3, <1>4, <1>5, <1>7, <1>9, <1>18
  <2>2. small.kids[i] = sib.kids[j]
    BY <1>7, <1>18, <2>1
  <2> HIDE DEF j, s
  <2> QED BY <1>5, <1>8, <1>18, <2>1, <2>2
<1>19. Halves(m, grown, small, a, g, z, s)
  <2>1. small.next = m.next
    BY <1>7
  <2>2. CASE n.leaf
    BY <1>5, <1>6, <1>7, <1>12, <1>16, <2>1, <2>2 DEF Halves
  <2>3. CASE ~n.leaf
    <3>1. off = s /\ Len(grown.keys) = s - 1
      BY <1>6, <1>9, <2>3
    <3> HIDE DEF s
    <3>2. Len(small.keys) = Len(m.keys) - s /\ \A i \in 1 .. Len(m.keys) - s : small.keys[i] = m.keys[i + s]
      <4>1. \A i \in 1 .. Len(m.keys) - s : s + i = i + s
        BY <1>9
      <4> HIDE DEF off
      <4> QED BY <1>14, <1>15, <3>1, <4>1
    <3> QED BY <1>5, <1>6, <1>7, <1>9, <1>10, <1>11, <1>12, <1>16, <1>17, <1>18, <2>1, <2>3, <3>1, <3>2 DEF Halves
  <2> QED BY <1>2, <2>2, <2>3
<1>20. s = Len(n.keys) + give + 1
  BY DEF l
<1> HIDE DEF s
<1> QED BY <1>13, <1>19, <1>20

(* A page that has all the cells, whatever space they take.                *)
LEMMA HasAllExists ==
  ASSUME NEW n, NEW a, NEW z, PageFits(n, a, z), NEW cells, CellsFor(n.leaf, cells), NEW next \in Links
  PROVE  \E m : HasAll(n, cells, m) /\ m.next = next
<1>1. /\ n.leaf \in BOOLEAN /\ n.keys \in Seq(Key) /\ n.kids \in Seq(Nat)
      /\ Len(n.keys) \in Nat /\ Len(n.kids) = IF n.leaf THEN 0 ELSE Len(n.keys) + 1
  BY FitsFacts
<1>2. Len(cells) \in Nat /\ \A i \in 1 .. Len(cells) : cells[i][1] \in Key /\ (n.leaf \/ cells[i][2] \in Nat)
  BY DEF CellsFor
<1> DEFINE l == Len(n.keys)  N == Len(cells)
           ks == [i \in 1 .. l + N |-> IF i <= l THEN n.keys[i] ELSE cells[i - l][1]]
           cs == [i \in 1 .. (l + N) + 1 |-> IF i <= l + 1 THEN n.kids[i] ELSE cells[i - (l + 1)][2]]
           ds == IF n.leaf THEN << >> ELSE cs
           m == [leaf |-> n.leaf, keys |-> ks, kids |-> ds, next |-> next, room |-> 0, gap |-> 0]
<1>3. ks \in Seq(Key) /\ Len(ks) = l + N
  <2>1. ASSUME NEW i \in 1 .. l + N PROVE (IF i <= l THEN n.keys[i] ELSE cells[i - l][1]) \in Key
    <3>1. CASE i <= l
      BY <1>1, <3>1
    <3>2. CASE ~(i <= l)
      <4> DEFINE j == i - l
      <4>1. j \in 1 .. N
        BY <1>1, <1>2, <3>2
      <4> HIDE DEF j
      <4>2. cells[j][1] \in Key
        BY <1>2, <4>1
      <4> QED BY <3>2, <4>2 DEF j
    <3> QED BY <3>1, <3>2
  <2>2. ks \in [1 .. l + N -> Key]
    BY <2>1
  <2>3. l + N \in Nat
    BY <1>1, <1>2
  <2> HIDE DEF ks, l, N
  <2> QED BY <2>2, <2>3
<1>4. ~n.leaf => cs \in Seq(Nat) /\ Len(cs) = (l + N) + 1
  <2>1. ASSUME ~n.leaf, NEW i \in 1 .. (l + N) + 1 PROVE (IF i <= l + 1 THEN n.kids[i] ELSE cells[i - (l + 1)][2]) \in Nat
    <3>1. CASE i <= l + 1
      <4>1. n.kids \in Seq(Nat) /\ i \in 1 .. Len(n.kids)
        BY <1>1, <2>1, <3>1
      <4>2. n.kids[i] \in Nat
        BY ONLY <4>1
      <4> QED BY <3>1, <4>2
    <3>2. CASE ~(i <= l + 1)
      <4> DEFINE j == i - (l + 1)
      <4>1. j \in 1 .. N
        BY <1>1, <1>2, <3>2
      <4> HIDE DEF j
      <4>2. cells[j][2] \in Nat
        BY <1>2, <2>1, <4>1
      <4> QED BY <3>2, <4>2 DEF j
    <3> QED BY <3>1, <3>2
  <2>2. ~n.leaf => cs \in [1 .. (l + N) + 1 -> Nat]
    BY <2>1
  <2>3. (l + N) + 1 \in Nat
    BY <1>1, <1>2
  <2> HIDE DEF cs, l, N
  <2> QED BY <2>2, <2>3
<1>5. \A i \in 1 .. l : ks[i] = n.keys[i]
  BY <1>1, <1>2
<1>6. ASSUME NEW i \in 1 .. N PROVE ks[l + i] = cells[i][1]
  <2>1. l + i \in 1 .. l + N /\ ~(l + i <= l) /\ (l + i) - l = i
    BY <1>1, <1>2
  <2> HIDE DEF l, N
  <2> QED BY <2>1
<1>7. \A i \in 1 .. l + 1 : cs[i] = n.kids[i]
  BY <1>1, <1>2
<1>8. ASSUME NEW i \in 1 .. N PROVE cs[(l + 1) + i] = cells[i][2]
  <2>1. (l + 1) + i \in 1 .. (l + N) + 1 /\ ~((l + 1) + i <= l + 1) /\ ((l + 1) + i) - (l + 1) = i
    BY <1>1, <1>2
  <2> HIDE DEF l, N
  <2> QED BY <2>1
<1> HIDE DEF ks, cs
<1>9. ds \in Seq(Nat) /\ Len(ds) = (IF n.leaf THEN 0 ELSE (l + N) + 1) /\ (~n.leaf => ds = cs)
  <2> HIDE DEF l, N
  <2>1. CASE n.leaf
    <3>1. ds = << >>
      BY <2>1
    <3> HIDE DEF ds
    <3> QED BY <2>1, <3>1
  <2>2. CASE ~n.leaf
    <3>1. ds = cs
      BY <2>2
    <3> HIDE DEF ds
    <3> QED BY <1>4, <2>2, <3>1
  <2> QED BY <1>1, <2>1, <2>2
<1> HIDE DEF ds
<1>10. m \in PageRec /\ m.leaf = n.leaf /\ m.keys = ks /\ m.kids = ds /\ m.next = next
  BY <1>1, <1>3, <1>9 DEF PageRec, Links
<1> HIDE DEF m
<1>11. HasAll(n, cells, m)
  BY <1>3, <1>5, <1>6, <1>7, <1>8, <1>9, <1>10 DEF HasAll
<1> QED BY <1>10, <1>11

(* There is a page without the key and the child.                          *)
LEMMA LosesExists ==
  ASSUME NEW n, NEW a, NEW z, PageFits(n, a, z), ~n.leaf, NEW c \in 1 .. Len(n.keys)
  PROVE  \E m : LosesKid(n, m, c)
<1>1. /\ n.keys \in Seq(Key) /\ n.kids \in Seq(Nat) /\ n.next \in Links
      /\ Len(n.keys) \in Nat /\ Len(n.kids) = Len(n.keys) + 1
  BY FitsFacts
<1> DEFINE l == Len(n.keys) - 1
           ks == [j \in 1 .. l |-> IF j < c THEN n.keys[j] ELSE n.keys[j + 1]]
           cs == [j \in 1 .. l + 1 |-> IF j <= c THEN n.kids[j] ELSE n.kids[j + 1]]
           m == [leaf |-> FALSE, keys |-> ks, kids |-> cs, next |-> n.next, room |-> 0, gap |-> 0]
<1>2. ks \in Seq(Key) /\ Len(ks) = l
  <2>1. ks \in [1 .. l -> Key]
    <3> SUFFICES ASSUME NEW j \in 1 .. l PROVE (IF j < c THEN n.keys[j] ELSE n.keys[j + 1]) \in Key
      OBVIOUS
    <3>1. j \in 1 .. Len(n.keys) /\ j + 1 \in 1 .. Len(n.keys)
      BY ONLY <1>1, j \in 1 .. l
    <3> QED BY ONLY <1>1, <3>1
  <2>2. l \in Nat
    BY <1>1
  <2> HIDE DEF ks, l
  <2> QED BY <2>1, <2>2
<1>3. cs \in Seq(Nat) /\ Len(cs) = l + 1
  <2>1. cs \in [1 .. l + 1 -> Nat]
    <3>1. ASSUME NEW j \in 1 .. l + 1 PROVE (IF j <= c THEN n.kids[j] ELSE n.kids[j + 1]) \in Nat
      <4>1. j \in 1 .. Len(n.kids) /\ j + 1 \in 1 .. Len(n.kids) /\ n.kids \in Seq(Nat)
        BY <1>1
      <4>2. n.kids[j] \in Nat /\ n.kids[j + 1] \in Nat
        BY ONLY <4>1
      <4> QED BY <4>2
    <3> QED BY <3>1
  <2>2. l + 1 \in Nat
    BY <1>1
  <2> HIDE DEF cs, l
  <2> QED BY <2>1, <2>2
<1>4. \A j \in 1 .. l : ks[j] = IF j < c THEN n.keys[j] ELSE n.keys[j + 1]
  OBVIOUS
<1>5. \A j \in 1 .. l + 1 : cs[j] = IF j <= c THEN n.kids[j] ELSE n.kids[j + 1]
  OBVIOUS
<1>6. l + 1 = Len(n.kids) - 1
  BY <1>1
<1> HIDE DEF ks, cs
<1>7. m \in PageRec /\ m.leaf = FALSE /\ m.keys = ks /\ m.kids = cs /\ m.next = n.next
  BY <1>1, <1>2, <1>3 DEF PageRec, Links
<1> HIDE DEF m
<1>8. LosesKid(n, m, c)
  BY <1>2, <1>3, <1>4, <1>5, <1>6, <1>7 DEF LosesKid
<1> QED BY <1>8

(* Page new[id] has taken some of the cells of the page behind it, whose   *)
(* first cell that stayed gives the key between the two.                   *)
Shared(pgs, new, q, c, f, cells, give, grown, small) ==
  LET id == pgs[q].kids[c]  sid == pgs[q].kids[c + 1]
  IN  /\ Given(pgs[sid], f, cells) /\ give \in 1 .. Len(cells) - 1
      /\ Appended(pgs[id], cells, give, grown) /\ Keeps(pgs[sid], give, small)
      /\ DOMAIN new = DOMAIN pgs /\ new[id] = grown /\ new[sid] = small
      /\ MovesKey(pgs[q], new[q], c, cells[give + 1][1])
      /\ \A p \in DOMAIN new : p # id /\ p # sid /\ p # q => new[p] = pgs[p]

(* A page that lost a key and child, and got the child back with another   *)
(* key.                                                                    *)
LEMMA LosesAdopts ==
  ASSUME NEW n, NEW a, NEW z, PageFits(n, a, z), ~n.leaf, NEW c \in 1 .. Len(n.keys),
         NEW k, LosesKid(n, k, c), NEW m, NEW g, MovesKey(n, m, c, g)
  PROVE  Adopts(k, m, c, g, n.kids[c + 1])
<1>1. Len(n.keys) \in Nat /\ Len(n.kids) = Len(n.keys) + 1
  BY FitsFacts
<1>2. /\ m \in PageRec /\ m.leaf = FALSE /\ m.kids = n.kids /\ m.next = n.next /\ Len(m.keys) = Len(n.keys)
      /\ \A i \in 1 .. Len(n.keys) : m.keys[i] = IF i = c THEN g ELSE n.keys[i]
  <2>1. n.leaf = FALSE
    <3>1. n.leaf \in BOOLEAN
      BY FitsFacts
    <3> QED BY <3>1
  <2> QED BY <2>1 DEF MovesKey
<1>3. /\ k.next = n.next /\ Len(k.keys) = Len(n.keys) - 1 /\ Len(k.kids) = Len(n.kids) - 1
      /\ \A j \in 1 .. Len(n.keys) - 1 : k.keys[j] = IF j < c THEN n.keys[j] ELSE n.keys[j + 1]
      /\ \A j \in 1 .. Len(n.kids) - 1 : k.kids[j] = IF j <= c THEN n.kids[j] ELSE n.kids[j + 1]
  BY DEF LosesKid
<1> DEFINE L == Len(n.keys)
<1>4. /\ c \in 1 .. Len(k.kids) /\ Len(m.keys) = Len(k.keys) + 1 /\ Len(m.kids) = Len(k.kids) + 1
      /\ Len(k.keys) + 1 = L /\ Len(k.kids) + 1 = L + 1 /\ Len(n.kids) - 1 = L
  BY <1>1, <1>2, <1>3
<1>5. ASSUME NEW j \in 1 .. L
      PROVE  m.keys[j] = IF j < c THEN k.keys[j] ELSE IF j = c THEN g ELSE k.keys[j - 1]
  <2>1. CASE j < c
    <3>1. j \in 1 .. L - 1
      BY <1>1, <2>1
    <3> QED BY <1>2, <1>3, <2>1, <3>1
  <2>2. CASE j = c
    BY <1>2, <2>2
  <2>3. CASE c < j
    <3> DEFINE i == j - 1
    <3>1. i \in 1 .. L - 1 /\ ~(i < c) /\ i + 1 = j /\ j # c /\ ~(j < c)
      BY <1>1, <2>3
    <3> HIDE DEF i
    <3>2. k.keys[i] = n.keys[j]
      BY <1>3, <3>1
    <3>3. m.keys[j] = n.keys[j]
      BY <1>2, <3>1
    <3>4. m.keys[j] = k.keys[j - 1]
      BY <3>2, <3>3 DEF i
    <3> QED BY <3>1, <3>4
  <2> QED BY <1>1, <2>1, <2>2, <2>3
<1>6. ASSUME NEW j \in 1 .. L + 1
      PROVE  m.kids[j] = IF j <= c THEN k.kids[j] ELSE IF j = c + 1 THEN n.kids[c + 1] ELSE k.kids[j - 1]
  <2>1. CASE j <= c
    <3>1. j \in 1 .. Len(n.kids) - 1
      BY <1>1, <2>1
    <3> QED BY <1>2, <1>3, <2>1, <3>1
  <2>2. CASE j = c + 1
    BY <1>2, <2>2
  <2>3. CASE c + 1 < j
    <3> DEFINE i == j - 1
    <3>1. i \in 1 .. Len(n.kids) - 1 /\ ~(i <= c) /\ i + 1 = j /\ j # c + 1 /\ ~(j <= c)
      BY <1>1, <2>3
    <3> HIDE DEF i
    <3>2. k.kids[i] = n.kids[j]
      BY <1>3, <3>1
    <3>4. m.kids[j] = k.kids[j - 1]
      BY <1>2, <3>2 DEF i
    <3> QED BY <3>1, <3>4
  <2> QED BY <1>1, <2>1, <2>2, <2>3
<1> QED BY <1>2, <1>3, <1>4, <1>5, <1>6 DEF Adopts

(* A page takes some cells of its right sibling, and the key between them  *)
(* becomes the first one that the sibling keeps: a whole tree. It is the   *)
(* merge of the two, cut again behind the cells that move.                 *)
LEMMA SharedTree ==
  ASSUME NEW pgs, NEW new, NEW rt, NEW h, NEW lo, NEW hi, Whole(pgs, rt, h, lo, hi),
         NEW q \in DOMAIN pgs, ~pgs[q].leaf, NEW c \in 1 .. Len(pgs[q].keys),
         NEW f \in Key, pgs[q].keys[c] <= f,
         \A p \in DOMAIN pgs : h[p] < h[q] /\ lo[p] = pgs[q].keys[c] => Beyond(pgs[p], hi[p], f),
         NEW cells, NEW give, NEW grown, NEW small, Shared(pgs, new, q, c, f, cells, give, grown, small)
  PROVE  \E lo2, hi2 : Whole(new, rt, h, lo2, hi2)
<1> DEFINE id == pgs[q].kids[c]  sid == pgs[q].kids[c + 1]  b == pgs[q].keys[c]
           g == cells[give + 1][1]
<1>1. /\ id \in DOMAIN pgs /\ sid \in DOMAIN pgs /\ id # sid /\ id # q /\ sid # q /\ sid # rt
      /\ h[id] = h[sid] /\ hi[id] = b /\ lo[sid] = b /\ lo[id] < b /\ b < hi[sid] /\ h[q] = h[sid] + 1
  BY KeySides
<1>2. /\ pgs[q] \in PageRec /\ Len(pgs[q].keys) \in Nat /\ PageFits(pgs[q], lo[q], hi[q])
      /\ Len(pgs[q].kids) = Len(pgs[q].keys) + 1
  BY WholePage
<1>3. /\ Given(pgs[sid], f, cells) /\ give \in 1 .. Len(cells) - 1
      /\ Appended(pgs[id], cells, give, grown) /\ Keeps(pgs[sid], give, small)
      /\ DOMAIN new = DOMAIN pgs /\ new[id] = grown /\ new[sid] = small
      /\ MovesKey(pgs[q], new[q], c, g)
      /\ \A p \in DOMAIN new : p # id /\ p # sid /\ p # q => new[p] = pgs[p]
  BY DEF Shared
<1>4. pgs[id].next = sid
  <2>1. c \in 1 .. Len(pgs[q].kids) /\ c < Len(pgs[q].kids)
    BY <1>2
  <2> QED BY <2>1, WholeInOrder
<1> HIDE DEF id, sid, g
(* The bounds that the key f would give, and those without sid.            *)
<1>5. /\ PageFits(pgs[id], lo[id], hi[id]) /\ PageFits(pgs[sid], lo[sid], hi[sid])
      /\ lo[id] \in Nat /\ hi[sid] \in Nat /\ b \in Key /\ pgs[id].leaf = pgs[sid].leaf /\ sid \in Nat
  <2>1. /\ PageFits(pgs[id], lo[id], hi[id]) /\ lo[id] \in Nat /\ (pgs[id].leaf <=> h[id] = 0) /\ pgs[id] \in PageRec
    BY <1>1, WholePage
  <2>2. /\ PageFits(pgs[sid], lo[sid], hi[sid]) /\ hi[sid] \in Nat /\ (pgs[sid].leaf <=> h[sid] = 0)
        /\ pgs[sid] \in PageRec /\ sid \in Nat
    BY <1>1, WholePage
  <2>3. pgs[id].leaf \in BOOLEAN /\ pgs[sid].leaf \in BOOLEAN
    BY <2>1, <2>2, RecFields
  <2>4. b \in Key
    BY <1>2, RecFields
  <2> QED BY <1>1, <2>1, <2>2, <2>3, <2>4
<1>6. /\ f < hi[sid] /\ PageFits(pgs[sid], f, hi[sid]) /\ PageFits(pgs[id], lo[id], f) /\ lo[id] < f
  <2>1. h[sid] < h[q] /\ lo[sid] = b
    <3>1. h[sid] \in Nat
      BY <1>1, WholePage
    <3> QED BY <1>1, <3>1
  <2>2. Beyond(pgs[sid], hi[sid], f)
    BY <1>1, <2>1
  <2>3. b \in Nat /\ f \in Nat
    BY <1>5, Numbers
  <2>4. PageFits(pgs[sid], f, hi[sid]) /\ f < hi[sid]
    BY <1>5, <2>2 DEF PageFits, Beyond
  <2>5. PageFits(pgs[id], lo[id], f)
    <3>1. \A i \in 1 .. Len(pgs[id].keys) : pgs[id].keys[i] \in Nat /\ pgs[id].keys[i] < b
      BY <1>1, <1>5, FitsFacts
    <3>2. \A i \in 1 .. Len(pgs[id].keys) : pgs[id].keys[i] < f
      BY <2>3, <3>1
    <3> QED BY <1>5, <3>2 DEF PageFits
  <2>6. lo[id] < f
    BY <1>1, <1>5, <2>3
  <2> QED BY <2>4, <2>5, <2>6
<1>7. CellsFor(pgs[id].leaf, cells) /\ pgs[sid].next \in Links
  BY <1>3, <1>5, <1>6, GivenBehind, FitsFacts
<1>8. PICK m : HasAll(pgs[id], cells, m) /\ m.next = pgs[sid].next
  <2> DEFINE n == pgs[id]  a == lo[id]  z == hi[id]  nx == pgs[sid].next
  <2>1. PageFits(n, a, z) /\ CellsFor(n.leaf, cells) /\ nx \in Links
    BY <1>5, <1>7
  <2> HIDE DEF n, a, z, nx
  <2>2. \E m : HasAll(n, cells, m) /\ m.next = nx
    BY <2>1, HasAllExists
  <2> QED BY <2>2 DEF n, nx
<1>9. PICK k : LosesKid(pgs[q], k, c)
  BY <1>2, LosesExists
<1> DEFINE all == [p \in DOMAIN pgs \ {sid} |-> IF p = id THEN m ELSE IF p = q THEN k ELSE pgs[p]]
<1>10. /\ DOMAIN all = DOMAIN pgs \ {sid} /\ all[id] = m /\ all[q] = k /\ id \in DOMAIN all /\ q \in DOMAIN all
       /\ \A p \in DOMAIN all : p # id /\ p # q => all[p] = pgs[p]
  BY <1>1
<1> HIDE DEF all
<1>11. Merged(pgs, all, q, c, f, cells, m)
  BY <1>3, <1>8, <1>9, <1>10 DEF Merged, id, sid
<1>12. PICK lo1, hi1 : Whole(all, rt, h, lo1, hi1) /\ lo1[id] = lo[id] /\ hi1[id] = hi[sid]
  BY <1>11, MergedTree DEF id, sid
<1>13. /\ g \in Key /\ lo[id] < g /\ g < hi[sid]
       /\ Halves(m, grown, small, lo[id], g, hi[sid], Len(pgs[id].keys) + give + 1)
  <2>1. /\ lo[id] \in Nat /\ hi[sid] \in Nat /\ pgs[id].leaf = pgs[sid].leaf
        /\ Given(pgs[sid], f, cells) /\ give \in 1 .. Len(cells) - 1
        /\ Appended(pgs[id], cells, give, grown) /\ Keeps(pgs[sid], give, small)
    BY <1>3, <1>5
  <2> QED BY <1>6, <1>8, <2>1, SharedPages DEF g
(* The two pages apart, and the parent without the one.                    *)
<1> DEFINE apart == [p \in DOMAIN pgs |-> IF p = id THEN grown ELSE IF p = sid THEN small ELSE all[p]]
           lo3 == [p \in DOMAIN pgs |-> IF p = sid THEN g ELSE lo1[p]]
           hi3 == [p \in DOMAIN pgs |-> IF p = id THEN g ELSE IF p = sid THEN hi[sid] ELSE hi1[p]]
<1>14. /\ DOMAIN apart = DOMAIN all \cup {sid} /\ apart[id] = grown /\ apart[sid] = small
       /\ \A p \in DOMAIN all : p # id => apart[p] = all[p]
       /\ sid \notin DOMAIN all
  BY <1>1, <1>10
<1>15. /\ \A p \in DOMAIN all : lo3[p] = lo1[p] /\ (p # id => hi3[p] = hi1[p])
       /\ hi3[id] = g /\ lo3[sid] = g /\ hi3[sid] = hi[sid]
  BY <1>1, <1>10
<1> HIDE DEF apart, lo3, hi3
<1>16. SplitPages(all, apart, id, sid, grown, small)
  BY <1>14 DEF SplitPages
<1>17. SplitBounds(all, h, lo1, hi1, h, lo3, hi3, id, sid, g)
  BY <1>1, <1>12, <1>15 DEF SplitBounds
<1>18. grown.next = sid
  BY <1>3, <1>4 DEF Appended
<1>19. Tree(apart, rt, h, lo3, hi3, id, sid)
  <2>1. g \in Nat
    BY <1>13, Numbers
  <2>2. Halves(all[id], grown, small, lo1[id], g, hi1[id], Len(pgs[id].keys) + give + 1) /\ lo1[id] < g /\ g < hi1[id]
    BY <1>10, <1>12, <1>13
  <2> QED BY <1>5, <1>10, <1>12, <1>14, <1>16, <1>17, <1>18, <2>1, <2>2, SplitTree
(* The parent gets it back, with another key.                              *)
<1>20. apart[q] = k /\ q \in DOMAIN apart
  BY <1>1, <1>10, <1>14
<1>21. Adopts(k, new[q], c, g, sid)
  BY <1>2, <1>3, <1>9, LosesAdopts DEF sid
<1>22. c \in 1 .. Len(k.kids) /\ k.kids[c] = id
  <2>1. Len(k.kids) = Len(pgs[q].kids) - 1 /\ \A j \in 1 .. Len(pgs[q].kids) - 1 : k.kids[j] = IF j <= c THEN pgs[q].kids[j] ELSE pgs[q].kids[j + 1]
    BY <1>9 DEF LosesKid
  <2>2. c \in 1 .. Len(pgs[q].kids) - 1 /\ c <= c
    BY <1>2
  <2> QED BY <2>1, <2>2 DEF id
<1>23. Changed(apart, new, q, new[q])
  <2>1. DOMAIN new = DOMAIN apart
    BY <1>1, <1>3, <1>10, <1>14
  <2>2. ASSUME NEW p \in DOMAIN apart, p # q PROVE new[p] = apart[p]
    <3>1. CASE p = id
      BY <1>3, <1>14, <3>1
    <3>2. CASE p = sid
      BY <1>3, <1>14, <3>2
    <3>3. CASE p # id /\ p # sid
      <4>1. p \in DOMAIN all /\ p \in DOMAIN new
        BY <1>14, <2>1, <3>3
      <4> QED BY <1>3, <1>10, <1>14, <2>2, <3>3, <4>1
    <3> QED BY <3>1, <3>2, <3>3
  <2> QED BY <1>20, <2>1, <2>2 DEF Changed
<1>24. Whole(new, rt, h, lo3, hi3)
  <2>1. Adopts(apart[q], new[q], c, hi3[id], sid) /\ c \in 1 .. Len(apart[q].kids) /\ apart[q].kids[c] = id
    BY <1>15, <1>20, <1>21, <1>22
  <2> QED BY <1>1, <1>19, <1>20, <1>23, <2>1, AdoptedTree
<1> QED BY <1>24

-----------------------------------------------------------------------------
(* The first leaf below a page, and traverse_level(), with pages missing.  *)

(* delete_cell() on an internal page, at one of its cells.                 *)
LEMMA CellLost ==
  ASSUME NEW n, PageOK(n), ~n.leaf, NEW c \in 1 .. Len(n.keys), NEW m, m = DeleteCell(n, c)
  PROVE  LosesKid(n, m, c) /\ PageOK(m)
<1> DEFINE l == Len(n.keys)  ks == RemoveAt(n.keys, c)  cs == RemoveAt(n.kids, c + 1)
           new == [leaf |-> FALSE, keys |-> ks, kids |-> cs, next |-> n.next,
                   room |-> n.room + InternalSpace, gap |-> n.gap + PtrSpace]
<1>1. /\ n \in PageRec /\ l \in Nat /\ n.keys \in Seq(Key) /\ Len(n.kids) = l + 1 /\ n.leaf = FALSE
      /\ n.room \in Nat /\ n.gap \in Nat /\ n.kids \in Seq(Nat) /\ n.next \in Links /\ RoomFits(n)
      /\ InternalSpace \in Nat /\ PtrSpace \in Nat /\ PtrSpace < InternalSpace /\ PageSpace \in Nat
  <2>1. n \in PageRec /\ Len(n.kids) = Len(n.keys) + 1 /\ RoomFits(n)
    BY DEF PageOK
  <2>2. n.leaf = FALSE
    BY <2>1, RecFields
  <2> QED BY <2>1, <2>2, RecFields, Numbers DEF Links
<1>2. c # 0 /\ ~(c > l) /\ c + 1 \in 1 .. Len(n.kids)
  BY <1>1
<1>3. m = new
  <2>1. n = [leaf |-> n.leaf, keys |-> n.keys, kids |-> n.kids, next |-> n.next, room |-> n.room, gap |-> n.gap]
    BY <1>1 DEF PageRec
  <2>2. m = [n EXCEPT !.keys = RemoveAt(@, c), !.kids = IF n.leaf THEN @ ELSE RemoveAt(@, c + 1),
                      !.room = @ + Space(n, n.keys[c]), !.gap = IF n.leaf THEN @ ELSE @ + PtrSpace]
    BY <1>2 DEF DeleteCell, Cells
  <2>3. Space(n, n.keys[c]) = InternalSpace
    BY <1>1 DEF Space
  <2> QED BY <1>1, <2>1, <2>2, <2>3
<1>4. ks \in Seq(Key) /\ Len(ks) = l - 1 /\ \A j \in 1 .. l - 1 : ks[j] = IF j < c THEN n.keys[j] ELSE n.keys[j + 1]
  <2> DEFINE u == n.keys
  <2>1. u \in Seq(Key) /\ c \in 1 .. Len(u)
    BY <1>1
  <2> HIDE DEF u
  <2>2. RemoveAt(u, c) \in Seq(Key) /\ Len(RemoveAt(u, c)) = Len(u) - 1
        /\ \A j \in 1 .. Len(u) - 1 : RemoveAt(u, c)[j] = IF j < c THEN u[j] ELSE u[j + 1]
    BY <2>1, RemoveAtFacts
  <2> QED BY <2>2 DEF u
<1>5. cs \in Seq(Nat) /\ Len(cs) = (l + 1) - 1 /\ \A j \in 1 .. (l + 1) - 1 : cs[j] = IF j < c + 1 THEN n.kids[j] ELSE n.kids[j + 1]
  <2> DEFINE u == n.kids  d == c + 1
  <2>1. u \in Seq(Nat) /\ d \in 1 .. Len(u) /\ Len(u) = l + 1
    BY <1>1, <1>2
  <2> HIDE DEF u, d
  <2>2. RemoveAt(u, d) \in Seq(Nat) /\ Len(RemoveAt(u, d)) = Len(u) - 1
        /\ \A j \in 1 .. Len(u) - 1 : RemoveAt(u, d)[j] = IF j < d THEN u[j] ELSE u[j + 1]
    BY <2>1, RemoveAtFacts
  <2> QED BY <2>1, <2>2 DEF u, d
<1>6. \A j \in 1 .. l : j <= c <=> j < c + 1
  BY <1>1
<1> DEFINE k == n.keys[c]
<1>7. k \in Key /\ InsertAt(ks, c, k) = n.keys /\ c \in 1 .. Len(ks) + 1
  BY <1>1, <1>4, PutBack
<1> HIDE DEF ks, cs, k
<1>8. /\ m \in PageRec /\ m.leaf = FALSE /\ m.next = n.next /\ m.keys = ks /\ m.kids = cs
      /\ m.room = n.room + InternalSpace /\ m.gap = n.gap + PtrSpace
  <2>1. n.room + InternalSpace \in Nat /\ n.gap + PtrSpace \in Nat
    <3>1. n.room \in Nat /\ n.gap \in Nat /\ InternalSpace \in Nat /\ PtrSpace \in Nat
      BY ONLY <1>1
    <3> QED BY ONLY <3>1
  <2>2. new \in PageRec
    BY <1>1, <1>4, <1>5, <2>1 DEF PageRec, Links
  <2>3. new.leaf = FALSE /\ new.next = n.next /\ new.keys = ks /\ new.kids = cs
        /\ new.room = n.room + InternalSpace /\ new.gap = n.gap + PtrSpace
    OBVIOUS
  <2> HIDE DEF new
  <2> QED BY <1>3, <2>2, <2>3
<1>9. SpaceOf(n) = SpaceOf(m) + InternalSpace
  <2>1. SpaceIn(FALSE, InsertAt(ks, c, k)) = SpaceIn(FALSE, ks) + OneSpace(FALSE, k)
    BY <1>4, <1>7, SpaceInsert
  <2>2. OneSpace(FALSE, k) = InternalSpace
    BY DEF OneSpace
  <2>3. SpaceOf(n) = SpaceIn(n.leaf, n.keys) /\ SpaceOf(m) = SpaceIn(m.leaf, m.keys)
    BY <1>1, <1>8, SpaceOfIs
  <2> QED BY <1>1, <1>7, <1>8, <2>1, <2>2, <2>3
<1>10. RoomFits(m)
  <2>1. n.room + SpaceOf(n) <= PageSpace /\ n.gap + SpaceOf(n) <= PageSpace
    BY <1>1 DEF RoomFits
  <2>2. SpaceOf(m) \in Nat
    BY <1>8, SpaceNat
  <2>3. m.room + SpaceOf(m) <= PageSpace
    BY <1>1, <1>8, <1>9, <2>1, <2>2
  <2>4. m.gap + SpaceOf(m) <= PageSpace
    BY <1>1, <1>8, <1>9, <2>1, <2>2
  <2> QED BY <1>8, <2>3, <2>4 DEF RoomFits
<1>11. LosesKid(n, m, c)
  <2>1. Len(n.kids) - 1 = l /\ (l + 1) - 1 = l
    BY <1>1
  <2>2. Len(m.kids) = Len(n.kids) - 1
    BY <1>5, <1>8, <2>1
  <2>3. ASSUME NEW j \in 1 .. Len(n.kids) - 1 PROVE m.kids[j] = IF j <= c THEN n.kids[j] ELSE n.kids[j + 1]
    <3>1. j \in 1 .. (l + 1) - 1 /\ j \in 1 .. l
      BY <2>1
    <3> QED BY <1>5, <1>6, <1>8, <3>1
  <2> QED BY <1>4, <1>8, <2>2, <2>3 DEF LosesKid
<1>12. PageOK(m)
  <2>1. Len(m.kids) = Len(m.keys) + 1
    BY <1>1, <1>4, <1>5, <1>8
  <2> QED BY <1>8, <1>10, <2>1 DEF PageOK
<1> QED BY <1>11, <1>12

(* One step of traverse_to_key_level().                                    *)
LevelStep(rest, k, w) ==
  LET id == Last(w).page
      i  == ChildIdx(rest[id], k)
  IN IF id \notin DOMAIN rest THEN w
     ELSE Append(Front(w), Entry(id, i)) \o <<Entry(rest[id].kids[i + 1], 0)>>

(* A way with its last entry replaced, and one more.                       *)
OneMore(w, e, t) == Append(Front(w), e) \o <<t>>

(* Such a way has entries.                                                 *)
LEMMA StepOn ==
  ASSUME NEW w \in Seq(Step), Len(w) > 0, NEW e \in Step, NEW t \in Step
  PROVE  LET x == OneMore(w, e, t) IN x \in Seq(Step) /\ Len(x) > 0 /\ Last(x) = t
<1> DEFINE x == OneMore(w, e, t)
<1>1. Front(w) \in Seq(Step)
  BY FrontOf
<1> DEFINE u == Append(Front(w), e)
<1>2. u \in Seq(Step) /\ <<t>> \in Seq(Step)
  BY <1>1
<1> HIDE DEF u
<1>3. x = u \o <<t>>
  BY DEF u, OneMore
<1> HIDE DEF x
<1>4. x \in Seq(Step) /\ Len(x) = Len(u) + 1 /\ x[Len(u) + 1] = t /\ Len(u) \in Nat
  <2> DEFINE v == <<t>>
  <2>1. v \in Seq(Step) /\ Len(v) = 1 /\ v[1] = t
    OBVIOUS
  <2> HIDE DEF v
  <2>2. /\ u \o v \in Seq(Step) /\ Len(u \o v) = Len(u) + Len(v)
        /\ \A i \in 1 .. Len(u) + Len(v) : (u \o v)[i] = IF i <= Len(u) THEN u[i] ELSE v[i - Len(u)]
    BY <1>2, <2>1, ConcatProperties
  <2>3. Len(u) \in Nat
    BY <1>2
  <2>4. Len(u) + 1 \in 1 .. Len(u) + Len(v) /\ ~(Len(u) + 1 <= Len(u)) /\ (Len(u) + 1) - Len(u) = 1
    BY <2>1, <2>3
  <2>5. (u \o v)[Len(u) + 1] = t
    BY <2>1, <2>2, <2>4
  <2> QED BY <1>3, <2>1, <2>2, <2>3, <2>5 DEF v
<1>5. Last(x) = t /\ Len(x) > 0
  BY <1>4 DEF Last
<1> QED BY <1>4, <1>5 DEF x

(* A key is within the bounds of one page of a level.                      *)
LEMMA SameWithin ==
  ASSUME NEW pgs, NEW rt, NEW h, NEW lo, NEW hi, Whole(pgs, rt, h, lo, hi),
         NEW p \in DOMAIN pgs, NEW q \in DOMAIN pgs, h[p] = h[q],
         NEW k \in Nat, Within(lo, hi, p, k), Within(lo, hi, q, k)
  PROVE  p = q
<1>1. lo[p] \in Nat /\ hi[p] \in Nat /\ lo[q] \in Nat /\ hi[q] \in Nat
  BY WholePage
<1>2. p # q => hi[p] <= lo[q] \/ hi[q] <= lo[p]
  BY DEF Whole, Tree, LevelsApart
<1>3. lo[p] <= k /\ k < hi[p] /\ lo[q] <= k /\ k < hi[q]
  BY DEF Within
<1>4. ~(hi[p] <= lo[q] \/ hi[q] <= lo[p])
  BY <1>1, <1>3
<1> QED BY <1>2, <1>4

(* The level is reached at a page that is not there: nothing above it is   *)
(* missing.                                                                *)
LevelGood(full, lo, hi, k, w) ==
  /\ w \in Seq(Step) /\ Len(w) > 0 /\ Last(w).page \in DOMAIN full
  /\ Within(lo, hi, Last(w).page, k)

(* A step of traverse_level() leads one level down to the page that has    *)
(* the key, though some pages are missing.                                 *)
LEMMA LevelOneDown ==
  ASSUME NEW full, NEW rt, NEW h, NEW lo, NEW hi, Whole(full, rt, h, lo, hi),
         NEW rest, PartOfTree(rest, full), NEW k \in Key,
         NEW w, LevelGood(full, lo, hi, k, w), ~full[Last(w).page].leaf,
         NEW v, v = LevelStep(rest, k, w)
  PROVE  /\ LevelGood(full, lo, hi, k, v)
         /\ Last(w).page \in DOMAIN rest => h[Last(w).page] = h[Last(v).page] + 1
<1> DEFINE id == Last(w).page
           i == ChildIdx(full[id], k)
           kid == full[id].kids[i + 1]
<1>1. CASE id \notin DOMAIN rest
  BY <1>1 DEF LevelStep
<1>2. CASE id \in DOMAIN rest
  <2>1. rest[id] = full[id] /\ id \in DOMAIN full /\ Within(lo, hi, id, k)
    BY <1>2 DEF PartOfTree, LevelGood
  <2>2. v = Append(Front(w), Entry(id, i)) \o <<Entry(kid, 0)>>
    BY <1>2, <2>1 DEF LevelStep
  <2> HIDE DEF id
  <2>3. i \in Nat /\ i + 1 \in 1 .. Len(full[id].kids) /\ Within(lo, hi, kid, k)
    BY <2>1, ChildWithin DEF id
  <2>4. kid \in DOMAIN full /\ h[id] = h[kid] + 1
    <3> HIDE DEF i
    <3> QED BY <2>1, <2>3, WholeKid
  <2> HIDE DEF kid, i
  <2>5. id \in Nat /\ kid \in Nat
    BY <2>1, <2>4, WholePage
  <2>6. Entry(id, i) \in Step /\ Entry(kid, 0) \in Step /\ Entry(kid, 0).page = kid
    BY <2>3, <2>5 DEF Entry, Step
  <2>7. v \in Seq(Step) /\ Len(v) > 0 /\ Last(v) = Entry(kid, 0)
    <3> DEFINE e == Entry(id, i)  t == Entry(kid, 0)
    <3>1. w \in Seq(Step) /\ Len(w) > 0
      BY DEF LevelGood
    <3>2. e \in Step /\ t \in Step /\ v = OneMore(w, e, t)
      BY <2>2, <2>6 DEF OneMore
    <3> HIDE DEF e, t
    <3>3. v \in Seq(Step) /\ Len(v) > 0 /\ Last(v) = t
      BY <3>1, <3>2, StepOn
    <3> QED BY <3>3 DEF t
  <2>8. Last(v).page = kid
    BY <2>6, <2>7
  <2> QED BY <2>3, <2>4, <2>7, <2>8 DEF LevelGood, id
<1> QED BY <1>1, <1>2

(* traverse_level() comes to the sibling itself, which its caller holds:   *)
(* it is missing from the pages.                                           *)
LEMMA SiblingMissing ==
  ASSUME NEW full, NEW h, NEW lo, NEW hi, Whole(full, root, h, lo, hi),
         NEW rest, PartOfTree(rest, full), NEW k \in Key, NEW n \in Nat, NEW sid \in DOMAIN full,
         sid \notin DOMAIN rest, Within(lo, hi, sid, k), h[sid] + n = h[root],
         \A p \in DOMAIN full : h[sid] < h[p] => p \in DOMAIN rest
  PROVE  Last(TraverseLevel(rest, k, n)).page = sid
<1> DEFINE V == {w \in Seq(Step) : LevelGood(full, lo, hi, k, w)}
           b == <<Entry(root, 0)>>
           step(w) == LevelStep(rest, k, w)
           g == [x \in (0 .. n) \X V |-> IF full[Last(x[2]).page].leaf THEN x[2] ELSE step(x[2])]
           Rec(f) == [d \in 0 .. n |-> IF d = 0 THEN b ELSE step(f[d - 1])]
<1>1. root \in DOMAIN full /\ root \in Nat /\ lo[root] = 0 /\ hi[root] = MaxKey + 1 /\ k \in Nat /\ k < MaxKey + 1
  <2>1. root \in DOMAIN full /\ lo[root] = 0 /\ hi[root] = MaxKey + 1
    BY DEF Whole, Tree, RootFits, EndOf
  <2> QED BY <2>1, WholePage, Numbers
<1>2. b \in V /\ Last(b).page = root
  <2>1. Entry(root, 0) \in Step /\ Entry(root, 0).page = root
    BY <1>1 DEF Entry, Step
  <2>2. b \in Seq(Step) /\ Len(b) = 1 /\ b[1] = Entry(root, 0)
    BY <2>1
  <2> HIDE DEF b
  <2>3. Last(b) = Entry(root, 0) /\ Len(b) > 0
    BY <2>2 DEF Last
  <2>4. Within(lo, hi, root, k)
    BY <1>1 DEF Within
  <2> QED BY <1>1, <2>1, <2>2, <2>3, <2>4 DEF LevelGood
<1> HIDE DEF b
<1>3. ASSUME NEW d \in 0 .. n, NEW w \in V PROVE g[<<d, w>>] \in V
  <2>1. g[<<d, w>>] = IF full[Last(w).page].leaf THEN w ELSE step(w)
    BY <1>3
  <2>2. ~full[Last(w).page].leaf => LevelGood(full, lo, hi, k, step(w))
    BY <1>3, LevelOneDown
  <2> HIDE DEF g
  <2> QED BY <1>3, <2>1, <2>2 DEF LevelGood
<1>4. PICK f : Recurs(f, 0, n, V, b, g)
  <2> HIDE DEF V, g
  <2>1. 0 \in Nat /\ 0 <= n
    OBVIOUS
  <2> QED BY <1>2, <1>3, <2>1, Recursion
<1>5. f \in [0 .. n -> V] /\ f[0] = b /\ \A d \in 0 .. n : d > 0 => f[d] = g[<<d, f[d - 1]>>]
  BY <1>4 DEF Recurs
<1>6. \A d \in 0 .. n : f[d] \in V /\ LevelGood(full, lo, hi, k, f[d])
  BY <1>5
<1> DEFINE S == {d \in 0 .. n : h[Last(f[d]).page] + d = h[root]}
<1>7. ASSUME NEW d \in 0 .. n, d > 0, d - 1 \in S PROVE f[d] = step(f[d - 1]) /\ d \in S
  <2> DEFINE e == d - 1  w == f[e]  id == Last(w).page  kid == Last(f[d]).page
  <2>1. e \in 0 .. n /\ LevelGood(full, lo, hi, k, w) /\ h[id] + e = h[root] /\ w \in V
    BY <1>6, <1>7
  <2>2. id \in DOMAIN full
    BY <2>1 DEF LevelGood
  <2>3. h[id] \in Nat /\ h[sid] \in Nat /\ h[root] \in Nat /\ (full[id].leaf <=> h[id] = 0)
    <3> HIDE DEF id
    <3> QED BY <1>1, <2>2, WholePage
  <2>4. h[sid] < h[id] /\ h[id] # 0
    <3> HIDE DEF id
    <3>1. e = d - 1 /\ d \in 0 .. n /\ h[id] + e = h[root] /\ h[sid] + n = h[root]
      BY <2>1
    <3> HIDE DEF e
    <3> QED BY <2>3, <3>1
  <2>5. id \in DOMAIN rest /\ ~full[id].leaf
    BY <2>2, <2>3, <2>4
  <2>6. f[d] = g[<<d, w>>]
    BY <1>5, <1>7
  <2>7. f[d] = step(w)
    <3>1. g[<<d, w>>] = IF full[Last(w).page].leaf THEN w ELSE step(w)
      BY <2>1
    <3> HIDE DEF g
    <3> QED BY <2>5, <2>6, <3>1
  <2>8. h[id] = h[kid] + 1
    BY <2>1, <2>5, <2>7, LevelOneDown
  <2>9. kid \in DOMAIN full
    BY <1>6 DEF LevelGood
  <2>10. h[kid] \in Nat
    <3> HIDE DEF kid
    <3> QED BY <2>9, WholePage
  <2>11. h[kid] + d = h[root]
    <3>1. e = d - 1 /\ d \in Nat /\ h[id] + e = h[root]
      BY <2>1
    <3> HIDE DEF e, kid, id
    <3> QED BY ONLY <2>3, <2>8, <2>10, <3>1
  <2> QED BY <2>7, <2>11
<1>8. 0 \in S
  <2>1. h[root] \in Nat
    BY <1>1, WholePage
  <2>2. f[0] = b /\ 0 \in 0 .. n
    BY <1>5
  <2> QED BY <1>2, <2>1, <2>2
<1>9. \A d \in 0 .. n : d \in S
  <2> HIDE DEF S
  <2>1. 0 \in Nat
    OBVIOUS
  <2> QED BY <1>7, <1>8, <2>1, StepInduction
<1>10. f = Rec(f)
  <2>1. \A d \in 0 .. n : f[d] = IF d = 0 THEN b ELSE step(f[d - 1])
    <3> SUFFICES ASSUME NEW d \in 0 .. n, d # 0 PROVE f[d] = step(f[d - 1])
      BY <1>5
    <3>1. d > 0 /\ d - 1 \in 0 .. n
      OBVIOUS
    <3> HIDE DEF S, step
    <3> QED BY <1>7, <1>9, <3>1
  <2>2. f = [d \in 0 .. n |-> f[d]]
    BY <1>5
  <2> HIDE DEF step
  <2> QED BY <2>1, <2>2
<1> DEFINE walk == CHOOSE u : u = Rec(u)
<1>11. walk = Rec(walk)
  <2> HIDE DEF Rec
  <2> QED BY <1>10
<1> DEFINE end == Last(walk[n]).page
<1>12. TraverseLevel(rest, k, n) = IF end \notin DOMAIN rest \/ rest[end].leaf THEN walk[n]
                                   ELSE Append(Front(walk[n]), Entry(end, ChildIdx(rest[end], k)))
  BY DEF TraverseLevel, LevelStep, b
<1> HIDE DEF walk
<1>13. \A d \in 0 .. n : walk[d] = IF d = 0 THEN b ELSE step(walk[d - 1])
  BY <1>11
<1> DEFINE T == {d \in 0 .. n : walk[d] = f[d]}
<1>14. walk[n] = f[n]
  <2>1. 0 \in T
    BY <1>5, <1>13
  <2>2. ASSUME NEW d \in 0 .. n, d > 0, d - 1 \in T PROVE d \in T
    <3>1. walk[d] = step(walk[d - 1]) /\ walk[d - 1] = f[d - 1]
      BY <1>13, <2>2
    <3>2. f[d] = step(f[d - 1])
      <4> HIDE DEF S, step
      <4>1. d - 1 \in 0 .. n
        BY <2>2
      <4> QED BY <1>7, <1>9, <2>2, <4>1
    <3> QED BY <3>1, <3>2
  <2>3. \A d \in 0 .. n : d \in T
    <3> HIDE DEF T
    <3>1. 0 \in Nat
      OBVIOUS
    <3> QED BY <2>1, <2>2, <3>1, StepInduction
  <2>4. n \in 0 .. n
    OBVIOUS
  <2> QED BY <2>3, <2>4
<1>15. end = sid
  <2>1. n \in 0 .. n
    OBVIOUS
  <2>2. LevelGood(full, lo, hi, k, f[n]) /\ h[Last(f[n]).page] + n = h[root]
    BY <1>6, <1>9, <2>1
  <2> HIDE DEF end
  <2>3. end \in DOMAIN full /\ Within(lo, hi, end, k) /\ h[end] + n = h[root]
    BY <1>14, <2>2 DEF LevelGood, end
  <2>4. h[end] \in Nat /\ h[sid] \in Nat
    BY <2>3, WholePage
  <2>5. h[end] = h[sid]
    BY <2>3, <2>4
  <2> QED BY <1>1, <2>3, <2>5, SameWithin
<1> HIDE DEF end
<1>16. TraverseLevel(rest, k, n) = walk[n]
  BY <1>12, <1>15
<1> QED BY <1>15, <1>16 DEF end

(* The cells that rebalance_leaves() and rebalance_internals() move.       *)
LEMMA CellsOfAre ==
  ASSUME NEW n, PageOK(n)
  PROVE  /\ CellsOf(n) \in Seq(Key \X Links) /\ Len(CellsOf(n)) = Len(n.keys)
         /\ \A i \in 1 .. Len(n.keys) : CellsOf(n)[i] = <<n.keys[i], IF n.leaf THEN Null ELSE n.kids[i + 1]>>
<1> DEFINE N == Len(n.keys)  c == CellsOf(n)
<1>1. N \in Nat /\ n.keys \in Seq(Key) /\ DOMAIN n.keys = 1 .. N /\ n.leaf \in BOOLEAN
      /\ Len(n.kids) = IF n.leaf THEN 0 ELSE N + 1
  BY RecFields DEF PageOK
<1>2. c = [i \in 1 .. N |-> <<n.keys[i], IF n.leaf THEN Null ELSE n.kids[i + 1]>>]
  BY <1>1 DEF CellsOf
<1>3. ASSUME NEW i \in 1 .. N
      PROVE  <<n.keys[i], IF n.leaf THEN Null ELSE n.kids[i + 1]>> \in Key \X Links
  <2>1. n.keys[i] \in Key
    BY <1>1
  <2>2. CASE n.leaf
    BY <2>1, <2>2 DEF Links
  <2>3. CASE ~n.leaf
    <3>1. i + 1 \in 1 .. Len(n.kids)
      BY <1>1, <2>3
    <3>2. n.kids[i + 1] \in Nat
      BY <3>1, RecFields DEF PageOK
    <3> QED BY <2>1, <2>3, <3>2 DEF Links
  <2> QED BY <2>2, <2>3
<1> HIDE DEF c
<1>4. c \in Seq(Key \X Links) /\ Len(c) = N
  BY <1>1, <1>2, <1>3
<1> QED BY <1>2, <1>4 DEF c

(* The cells that are to be moved are those the sibling gives up.          *)
LEMMA MovingGiven ==
  ASSUME NEW sib, PageOK(sib), NEW rest, NEW f \in Key,
         sib.leaf \/ f = Head(rest[LeftmostLeaf(rest, sib.kids[1])].keys)
  PROVE  Given(sib, f, Moving(rest, sib))
<1> DEFINE N == Len(sib.keys)  c == CellsOf(sib)  cells == Moving(rest, sib)
<1>1. N \in Nat /\ sib.leaf \in BOOLEAN /\ Len(sib.kids) = IF sib.leaf THEN 0 ELSE N + 1
  BY RecFields DEF PageOK
<1>2. /\ c \in Seq(Key \X Links) /\ Len(c) = N
      /\ \A i \in 1 .. N : c[i] = <<sib.keys[i], IF sib.leaf THEN Null ELSE sib.kids[i + 1]>>
  BY CellsOfAre
<1> HIDE DEF c
<1>3. CASE sib.leaf
  <2>1. cells = c
    BY <1>3 DEF Moving, c
  <2> QED BY <1>2, <1>3, <2>1 DEF Given
<1>4. CASE ~sib.leaf
  <2> DEFINE first == <<<<f, sib.kids[1]>>>>
  <2>1. cells = first \o c
    BY <1>4 DEF Moving, c
  <2>2. sib.kids[1] \in Nat
    <3>1. 1 \in 1 .. Len(sib.kids)
      BY <1>1, <1>4
    <3> QED BY <3>1, RecFields DEF PageOK
  <2>3. first \in Seq(Key \X Links) /\ Len(first) = 1 /\ first[1] = <<f, sib.kids[1]>>
    BY <2>2 DEF Links
  <2> HIDE DEF first, cells
  <2>4. /\ cells \in Seq(Key \X Links) /\ Len(cells) = N + 1
        /\ cells[1] = first[1] /\ \A i \in 1 .. N : cells[i + 1] = c[i]
    <3>1. /\ first \o c \in Seq(Key \X Links) /\ Len(first \o c) = Len(first) + Len(c)
          /\ \A i \in 1 .. Len(first) + Len(c) :
               (first \o c)[i] = IF i <= Len(first) THEN first[i] ELSE c[i - Len(first)]
      <4> DEFINE S == Key \X Links
      <4>1. first \in Seq(S) /\ c \in Seq(S)
        BY <1>2, <2>3
      <4> HIDE DEF S
      <4>2. /\ first \o c \in Seq(S) /\ Len(first \o c) = Len(first) + Len(c)
            /\ \A i \in 1 .. Len(first) + Len(c) :
               (first \o c)[i] = IF i <= Len(first) THEN first[i] ELSE c[i - Len(first)]
        BY <4>1, ConcatProperties
      <4> QED BY <4>2 DEF S
    <3>2. Len(cells) = N + 1
      BY <1>1, <1>2, <2>1, <2>3, <3>1
    <3>3. cells[1] = first[1]
      BY <1>1, <1>2, <2>1, <2>3, <3>1
    <3>4. ASSUME NEW i \in 1 .. N PROVE cells[i + 1] = c[i]
      <4>1. i + 1 \in 1 .. Len(first) + Len(c) /\ ~(i + 1 <= Len(first)) /\ (i + 1) - Len(first) = i
        BY <1>1, <1>2, <2>3
      <4> QED BY <2>1, <3>1, <4>1
    <3> QED BY <2>1, <3>1, <3>2, <3>3, <3>4
  <2>5. ASSUME NEW i \in 1 .. N PROVE cells[i + 1] = <<sib.keys[i], sib.kids[i + 1]>>
    BY <1>2, <1>4, <2>4
  <2>6. Given(sib, f, cells)
    BY <1>4, <2>3, <2>4, <2>5 DEF Given
  <2> QED BY <2>6 DEF cells
<1> QED BY <1>3, <1>4

(* No page below that begins at key c of page q has a key in front of f.   *)
Edge(pgs, h, lo, hi, q, c, f) ==
  /\ f \in Key /\ pgs[q].keys[c] <= f
  /\ \A p \in DOMAIN pgs : h[p] < h[q] /\ lo[p] = pgs[q].keys[c] => Beyond(pgs[p], hi[p], f)

(* The key that a first child gets when it moves as a cell.                *)
LEMMA EdgeKey ==
  ASSUME NEW full, NEW rt, NEW h, NEW lo, NEW hi, Whole(full, rt, h, lo, hi), PagesOK(full),
         NEW rest, PartOfTree(rest, full),
         NEW q \in DOMAIN full, ~full[q].leaf, NEW c \in 1 .. Len(full[q].keys),
         NEW sib, sib = full[full[q].kids[c + 1]],
         NEW leaf, leaf = LeftmostLeaf(rest, sib.kids[1]),
         sib.leaf \/ (leaf \in DOMAIN rest /\ rest[leaf].keys # << >>)
  PROVE  \E f : Edge(full, h, lo, hi, q, c, f) /\ Given(sib, f, Moving(rest, sib))
<1> DEFINE sid == full[q].kids[c + 1]  b == full[q].keys[c]
<1>1. sid \in DOMAIN full /\ h[q] = h[sid] + 1 /\ lo[sid] = b /\ b \in Key
  <2>1. sid \in DOMAIN full /\ h[q] = h[sid] + 1 /\ lo[sid] = b
    BY ONLY Whole(full, rt, h, lo, hi), q \in DOMAIN full, ~full[q].leaf, c \in 1 .. Len(full[q].keys), KeySides
  <2>2. full[q] \in PageRec
    BY DEF PagesOK, PageOK
  <2> QED BY <2>1, <2>2, RecFields
<1>2. sib = full[sid] /\ PageOK(sib)
  BY <1>1 DEF PagesOK
<1> HIDE DEF sid, b
<1>3. CASE sib.leaf
  <2>1. h[q] = 1
    <3>1. h[sid] = 0
      BY <1>1, <1>2, <1>3, WholePage
    <3> QED BY ONLY <1>1, <3>1
  <2>2. ASSUME NEW p \in DOMAIN full, h[p] < h[q], lo[p] = b PROVE Beyond(full[p], hi[p], b)
    BY <2>1, <2>2, LeafBeyond
  <2>3. b <= b
    <3>1. b \in Nat
      BY ONLY <1>1, Numbers
    <3> QED BY ONLY <3>1
  <2>4. Edge(full, h, lo, hi, q, c, b)
    BY <1>1, <2>2, <2>3 DEF Edge, b
  <2>5. Given(sib, b, Moving(rest, sib))
    BY <1>1, <1>2, <1>3, MovingGiven
  <2> QED BY <2>4, <2>5
<1>4. CASE ~sib.leaf
  <2> DEFINE kid == sib.kids[1]  f == Head(rest[leaf].keys)
  <2>1. leaf \in DOMAIN rest /\ rest[leaf].keys # << >> /\ leaf = LeftmostLeaf(rest, kid)
    BY <1>4
  <2> HIDE DEF kid
  <2>2. kid \in DOMAIN rest /\ full[leaf].leaf /\ lo[leaf] = lo[kid]
    BY <2>1, LeftmostPart
  <2>3. leaf \in DOMAIN full /\ full[leaf] = rest[leaf]
    BY <2>1 DEF PartOfTree
  <2>4. lo[kid] = lo[sid]
    <3>0. Whole(full, rt, h, lo, hi) /\ sid \in DOMAIN full /\ ~full[sid].leaf
      BY <1>1, <1>2, <1>4
    <3>1. 1 \in 1 .. Len(full[sid].kids)
      <4>1. Len(full[sid].keys) \in Nat /\ Len(full[sid].kids) = Len(full[sid].keys) + 1
        BY ONLY <3>0, WholePage
      <4> QED BY ONLY <4>1
    <3>2. lo[full[sid].kids[1]] = Low(full[sid], lo[sid], 1)
      BY ONLY <3>0, <3>1, WholeKid
    <3> QED BY <1>2, <3>2 DEF Low, kid
  <2>5. full[leaf].keys \in Seq(Key) /\ Len(full[leaf].keys) # 0
    <3>1. full[leaf].keys \in Seq(Key)
      BY <2>3, RecFields DEF PagesOK, PageOK
    <3> QED BY <2>1, <2>3, <3>1
  <2>6. f = full[leaf].keys[1]
    <3> DEFINE s == full[leaf].keys
    <3>1. s \in Seq(Key) /\ f = Head(s)
      BY <2>3, <2>5
    <3> HIDE DEF s, f
    <3>2. f = s[1]
      BY ONLY <3>1
    <3> QED BY <3>2 DEF s
  <2> HIDE DEF f
  <2>7. lo[leaf] = b
    BY <1>1, <2>2, <2>4
  <2>8. ASSUME NEW p \in DOMAIN full, lo[p] = b PROVE f \in Key /\ b <= f /\ Beyond(full[p], hi[p], f)
    <3>1. lo[p] = lo[leaf]
      BY <2>7, <2>8
    <3> QED BY <2>2, <2>3, <2>5, <2>6, <2>7, <3>1, EdgeGap
  <2>9. f \in Key /\ b <= f
    BY <2>3, <2>7, <2>8
  <2>10. Edge(full, h, lo, hi, q, c, f)
    BY <2>8, <2>9 DEF Edge, b
  <2>11. f = Head(rest[LeftmostLeaf(rest, sib.kids[1])].keys)
    BY DEF f
  <2>12. Given(sib, f, Moving(rest, sib))
    BY <1>2, <2>9, <2>11, MovingGiven
  <2> QED BY <2>10, <2>12
<1> QED BY <1>3, <1>4

-----------------------------------------------------------------------------
(* Both, with the pages that result.                                       *)

(* Only the last leaf, and page but, may be empty.                         *)
LastEmptyBut(pgs, but) ==
  \A id \in DOMAIN pgs :
    pgs[id].leaf /\ (pgs[id].next # Null \/ Deletable = {}) /\ id # but => Len(pgs[id].keys) # 0

(* The two pages, had the parent the key f between them.                   *)
LEMMA AcrossEdge ==
  ASSUME NEW pgs, NEW rt, NEW h, NEW lo, NEW hi, Whole(pgs, rt, h, lo, hi),
         NEW q \in DOMAIN pgs, ~pgs[q].leaf, NEW c \in 1 .. Len(pgs[q].keys),
         NEW id, id = pgs[q].kids[c], NEW sid, sid = pgs[q].kids[c + 1],
         NEW f, Edge(pgs, h, lo, hi, q, c, f)
  PROVE  /\ id \in DOMAIN pgs /\ sid \in DOMAIN pgs /\ id # sid /\ id # q /\ sid # q /\ sid # rt
         /\ lo[id] \in Nat /\ hi[sid] \in Nat /\ f \in Key /\ lo[id] < f /\ f < hi[sid]
         /\ PageFits(pgs[id], lo[id], f) /\ PageFits(pgs[sid], f, hi[sid])
         /\ pgs[id].leaf = pgs[sid].leaf /\ pgs[id].next = sid
<1> DEFINE b == pgs[q].keys[c]
<1>1. /\ id \in DOMAIN pgs /\ sid \in DOMAIN pgs /\ id # sid /\ id # q /\ sid # q /\ sid # rt
      /\ h[id] = h[sid] /\ hi[id] = b /\ lo[sid] = b /\ lo[id] < b /\ b < hi[sid] /\ h[q] = h[sid] + 1
  BY KeySides
<1>2. /\ pgs[q] \in PageRec /\ Len(pgs[q].keys) \in Nat
      /\ Len(pgs[q].kids) = Len(pgs[q].keys) + 1
  BY WholePage
<1>3. pgs[id].next = sid
  <2>1. c \in 1 .. Len(pgs[q].kids) /\ c < Len(pgs[q].kids)
    BY <1>2
  <2> QED BY <2>1, WholeInOrder
<1>4. f \in Key /\ b <= f
      /\ \A p \in DOMAIN pgs : h[p] < h[q] /\ lo[p] = b => Beyond(pgs[p], hi[p], f)
  BY DEF Edge
<1>5. /\ PageFits(pgs[id], lo[id], hi[id]) /\ PageFits(pgs[sid], lo[sid], hi[sid])
      /\ lo[id] \in Nat /\ hi[sid] \in Nat /\ b \in Key /\ pgs[id].leaf = pgs[sid].leaf
  <2>1. /\ PageFits(pgs[id], lo[id], hi[id]) /\ lo[id] \in Nat /\ (pgs[id].leaf <=> h[id] = 0) /\ pgs[id] \in PageRec
    BY ONLY <1>1, Whole(pgs, rt, h, lo, hi), WholePage
  <2>2. /\ PageFits(pgs[sid], lo[sid], hi[sid]) /\ hi[sid] \in Nat /\ (pgs[sid].leaf <=> h[sid] = 0)
        /\ pgs[sid] \in PageRec
    BY ONLY <1>1, Whole(pgs, rt, h, lo, hi), WholePage
  <2>3. pgs[id].leaf \in BOOLEAN /\ pgs[sid].leaf \in BOOLEAN
    BY <2>1, <2>2, RecFields
  <2>4. b \in Key
    BY <1>2, RecFields
  <2> QED BY <1>1, <2>1, <2>2, <2>3, <2>4
<1>6. h[sid] < h[q] /\ lo[sid] = b
  <2>1. h[sid] \in Nat
    BY <1>1, WholePage
  <2> QED BY <1>1, <2>1
<1>7. Beyond(pgs[sid], hi[sid], f)
  BY <1>1, <1>4, <1>6
<1>8. b \in Nat /\ f \in Nat
  BY <1>4, <1>5, Numbers
<1>9. PageFits(pgs[sid], f, hi[sid]) /\ f < hi[sid]
  BY <1>5, <1>7 DEF PageFits, Beyond
<1>10. PageFits(pgs[id], lo[id], f)
  <2>1. \A i \in 1 .. Len(pgs[id].keys) : pgs[id].keys[i] \in Nat /\ pgs[id].keys[i] < b
    BY <1>1, <1>5, FitsFacts
  <2>2. \A i \in 1 .. Len(pgs[id].keys) : pgs[id].keys[i] < f
    BY ONLY <1>4, <1>8, <2>1
  <2> QED BY <1>5, <2>2 DEF PageFits
<1>11. lo[id] < f
  BY <1>1, <1>4, <1>5, <1>8
<1> QED BY <1>1, <1>3, <1>4, <1>5, <1>9, <1>10, <1>11

(* A leaf has taken the rows of another, or some of them.                  *)
LEMMA RowsJoin ==
  ASSUME NEW pgs, NEW new, NEW id \in DOMAIN pgs, NEW sid \in DOMAIN pgs, id # sid,
         DOMAIN new = DOMAIN pgs \ {sid}, \A p \in DOMAIN new : p # id => new[p] = pgs[p],
         pgs[id].leaf = pgs[sid].leaf, new[id].leaf = pgs[id].leaf,
         pgs[id].leaf => KeysIn(new[id]) = KeysIn(pgs[id]) \cup KeysIn(pgs[sid])
  PROVE  RowsIn(new) = RowsIn(pgs)
<1>1. ASSUME NEW k \in Key PROVE k \in RowsIn(new) <=> k \in RowsIn(pgs)
  <2>1. ASSUME NEW p \in DOMAIN new, new[p].leaf, k \in KeysIn(new[p]) PROVE k \in RowsIn(pgs)
    BY <2>1 DEF RowsIn
  <2>2. ASSUME NEW p \in DOMAIN pgs, pgs[p].leaf, k \in KeysIn(pgs[p]) PROVE k \in RowsIn(new)
    BY <2>2 DEF RowsIn
  <2> QED BY <2>1, <2>2 DEF RowsIn
<1>2. \A k \in RowsIn(new) \cup RowsIn(pgs) : k \in Key
  BY DEF RowsIn
<1> QED BY <1>1, <1>2

(* Leaves that share their keys anew have the same rows.                   *)
LEMMA RowsShare ==
  ASSUME NEW pgs, NEW new, NEW id \in DOMAIN pgs, NEW sid \in DOMAIN pgs, id # sid,
         DOMAIN new = DOMAIN pgs,
         \A p \in DOMAIN pgs : p # id /\ p # sid => new[p].leaf = pgs[p].leaf /\ (pgs[p].leaf => new[p] = pgs[p]),
         pgs[id].leaf = pgs[sid].leaf, new[id].leaf = pgs[id].leaf, new[sid].leaf = pgs[id].leaf,
         pgs[id].leaf => KeysIn(new[id]) \cup KeysIn(new[sid]) = KeysIn(pgs[id]) \cup KeysIn(pgs[sid])
  PROVE  RowsIn(new) = RowsIn(pgs)
<1>1. ASSUME NEW k \in Key PROVE k \in RowsIn(new) <=> k \in RowsIn(pgs)
  <2>1. ASSUME NEW p \in DOMAIN new, new[p].leaf, k \in KeysIn(new[p]) PROVE k \in RowsIn(pgs)
    BY <2>1 DEF RowsIn
  <2>2. ASSUME NEW p \in DOMAIN pgs, pgs[p].leaf, k \in KeysIn(pgs[p]) PROVE k \in RowsIn(new)
    BY <2>2 DEF RowsIn
  <2> QED BY <2>1, <2>2 DEF RowsIn
<1>2. \A k \in RowsIn(new) \cup RowsIn(pgs) : k \in Key
  BY DEF RowsIn
<1> QED BY <1>1, <1>2

(* A page has taken all cells of its sibling, whose place goes.            *)
Merging(full, rt, h, lo, hi, q, c, id, sid, f, cells, r, m, new, tree) ==
  /\ Whole(full, rt, h, lo, hi) /\ PagesOK(full)
  /\ q \in DOMAIN full /\ ~full[q].leaf /\ c \in 1 .. Len(full[q].keys)
  /\ id = full[q].kids[c] /\ sid = full[q].kids[c + 1]
  /\ Edge(full, h, lo, hi, q, c, f) /\ Given(full[sid], f, cells)
  /\ r = InsertAll(full[id], cells) /\ r.res = "ok"
  /\ m = [r.node EXCEPT !.next = full[sid].next]
  /\ DOMAIN new = DOMAIN full \ {sid} /\ new[id] = m
  /\ \A p \in DOMAIN new : p # id => new[p] = full[p]
  /\ Changed(new, tree, q, DeleteCell(new[q], c))

(* What a merge does to tree, pages and rows.                              *)
LEMMA MergeStep ==
  ASSUME NEW full, NEW rt, NEW h, NEW lo, NEW hi, NEW q, NEW c, NEW id, NEW sid, NEW f, NEW cells, NEW r, NEW m,
         NEW new, NEW tree, Merging(full, rt, h, lo, hi, q, c, id, sid, f, cells, r, m, new, tree)
  PROVE  /\ \E lo2, hi2 : Whole(tree, rt, h, lo2, hi2)
         /\ PagesOK(new) /\ RowsIn(new) = RowsIn(full)
         /\ LastEmptyBut(full, id) => LastEmpty(new)
<1> SUFFICES ASSUME Whole(full, rt, h, lo, hi), PagesOK(full),
                    q \in DOMAIN full, ~full[q].leaf, c \in 1 .. Len(full[q].keys),
                    id = full[q].kids[c], sid = full[q].kids[c + 1],
                    Edge(full, h, lo, hi, q, c, f), Given(full[sid], f, cells),
                    r = InsertAll(full[id], cells), r.res = "ok",
                    m = [r.node EXCEPT !.next = full[sid].next],
                    DOMAIN new = DOMAIN full \ {sid}, new[id] = m,
                    \A p \in DOMAIN new : p # id => new[p] = full[p],
                    Changed(new, tree, q, DeleteCell(new[q], c))
             PROVE  /\ \E lo2, hi2 : Whole(tree, rt, h, lo2, hi2)
                    /\ PagesOK(new) /\ RowsIn(new) = RowsIn(full)
                    /\ LastEmptyBut(full, id) => LastEmpty(new)
  BY DEF Merging
<1>1. /\ id \in DOMAIN full /\ sid \in DOMAIN full /\ id # sid /\ id # q /\ sid # q /\ sid # rt
      /\ lo[id] \in Nat /\ hi[sid] \in Nat /\ f \in Key /\ lo[id] < f /\ f < hi[sid]
      /\ PageFits(full[id], lo[id], f) /\ PageFits(full[sid], f, hi[sid])
      /\ full[id].leaf = full[sid].leaf
  <2>1. /\ Whole(full, rt, h, lo, hi) /\ q \in DOMAIN full /\ ~full[q].leaf /\ c \in 1 .. Len(full[q].keys)
        /\ id = full[q].kids[c] /\ sid = full[q].kids[c + 1] /\ Edge(full, h, lo, hi, q, c, f)
    OBVIOUS
  <2> QED BY ONLY <2>1, AcrossEdge
<1> DEFINE n == full[id]  sib == full[sid]  a == lo[id]  z == hi[sid]
<1>2. PageOK(n) /\ PageOK(sib) /\ PageOK(full[q])
  BY <1>1 DEF PagesOK
<1>3. /\ PageFits(n, a, f) /\ PageFits(sib, f, z) /\ a \in Nat /\ z \in Nat /\ f \in Key /\ a < f /\ f < z
      /\ n.leaf = sib.leaf /\ Given(sib, f, cells) /\ r = InsertAll(n, cells)
      /\ m = [r.node EXCEPT !.next = sib.next]
  BY <1>1
<1> HIDE DEF n, sib, a, z
<1>4. CellsFor(n.leaf, cells) /\ Behind(n, cells)
  BY <1>3, GivenBehind
<1>5. Appended(n, cells, Len(cells), r.node)
  BY <1>2, <1>3, <1>4, AppendsAll
<1>6. sib.next \in Links /\ Len(cells) \in Nat
  <2>1. sib.next \in Links
    BY ONLY <1>3, FitsFacts
  <2>2. cells \in Seq(Key \X Links)
    BY ONLY <1>3 DEF Given
  <2> QED BY ONLY <2>1, <2>2
<1>7. HasAll(n, cells, m) /\ PageOK(m) /\ m.next = sib.next
  <2> DEFINE g == r.node  next == sib.next
  <2>1. Appended(n, cells, Len(cells), g) /\ m = [g EXCEPT !.next = next] /\ next \in Links
    BY <1>3, <1>5, <1>6
  <2> HIDE DEF g, next
  <2>2. HasAll(n, cells, m) /\ PageOK(m) /\ m.next = next
    BY ONLY <1>2, <1>6, <2>1, AppendedAll
  <2> QED BY <2>2 DEF next
<1>8. KeysIn(m) = KeysIn(n) \cup {cells[i][1] : i \in 1 .. Len(cells)} /\ m.leaf = n.leaf
  <2>0. /\ PageFits(n, a, f) /\ PageFits(sib, f, z) /\ a \in Nat /\ z \in Nat /\ f \in Key /\ f < z /\ a < f
        /\ n.leaf = sib.leaf /\ Given(sib, f, cells) /\ HasAll(n, cells, m) /\ m.next = sib.next
    BY <1>3, <1>7
  <2>1. /\ PageFits(m, a, z) /\ Halves(m, n, sib, a, f, z, Len(n.keys) + 1)
        /\ KeysIn(m) = KeysIn(n) \cup {cells[i][1] : i \in 1 .. Len(cells)}
    BY ONLY <2>0, JoinPages
  <2> QED BY <1>7, <2>1 DEF HasAll
<1>9. n.leaf => KeysIn(m) = KeysIn(n) \cup KeysIn(sib)
  <2> SUFFICES ASSUME n.leaf PROVE KeysIn(m) = KeysIn(n) \cup KeysIn(sib)
    OBVIOUS
  <2>1. Len(cells) = Len(sib.keys) /\ \A i \in 1 .. Len(sib.keys) : cells[i] = <<sib.keys[i], Null>>
    BY <1>3 DEF Given
  <2>2. {cells[i][1] : i \in 1 .. Len(cells)} = KeysIn(sib)
    BY ONLY <2>1 DEF KeysIn
  <2> QED BY ONLY <1>8, <2>2
<1>10. q \in DOMAIN new /\ new[q] = full[q] /\ id \in DOMAIN new
  BY <1>1
<1>11. LosesKid(full[q], tree[q], c)
  <2>1. tree[q] = DeleteCell(full[q], c)
    BY <1>10 DEF Changed
  <2> QED BY <1>2, <2>1, CellLost
<1>12. Merged(full, tree, q, c, f, cells, m)
  <2>1. DOMAIN tree = DOMAIN full \ {sid} /\ tree[id] = m /\ \A p \in DOMAIN tree : p # id /\ p # q => tree[p] = full[p]
    BY <1>1, <1>10 DEF Changed
  <2> QED BY <1>3, <1>7, <1>11, <2>1 DEF Merged, n, sib
<1>13. \E lo2, hi2 : Whole(tree, rt, h, lo2, hi2)
  <2>1. \E lo2, hi2 : /\ Whole(tree, rt, h, lo2, hi2)
                       /\ lo2[full[q].kids[c]] = lo[full[q].kids[c]] /\ hi2[full[q].kids[c]] = hi[full[q].kids[c + 1]]
    <3>1. /\ Whole(full, rt, h, lo, hi) /\ q \in DOMAIN full /\ ~full[q].leaf /\ c \in 1 .. Len(full[q].keys)
          /\ f \in Key /\ full[q].keys[c] <= f
          /\ \A p \in DOMAIN full : h[p] < h[q] /\ lo[p] = full[q].keys[c] => Beyond(full[p], hi[p], f)
      BY <1>1 DEF Edge
    <3> QED BY ONLY <3>1, <1>12, MergedTree
  <2> QED BY <2>1
<1>14. PagesOK(new)
  BY <1>7 DEF PagesOK
<1>15. RowsIn(new) = RowsIn(full)
  <2>1. /\ full[id].leaf = full[sid].leaf /\ new[id].leaf = full[id].leaf
        /\ full[id].leaf => KeysIn(new[id]) = KeysIn(full[id]) \cup KeysIn(full[sid])
    BY <1>1, <1>8, <1>9 DEF n, sib
  <2>2. \A p \in DOMAIN new : p # id => new[p] = full[p]
    OBVIOUS
  <2> QED BY ONLY <1>1, <2>1, <2>2, DOMAIN new = DOMAIN full \ {sid}, RowsJoin
<1>16. ASSUME LastEmptyBut(full, id) PROVE LastEmpty(new)
  <2>1. ASSUME NEW p \in DOMAIN new, new[p].leaf, new[p].next # Null \/ Deletable = {}
        PROVE  Len(new[p].keys) # 0
    <3>1. CASE p # id
      BY <1>16, <2>1, <3>1 DEF LastEmptyBut
    <3>2. CASE p = id
      <4>1. sib.leaf /\ (sib.next # Null \/ Deletable = {})
        BY <1>3, <1>7, <1>8, <2>1, <3>2
      <4>2. Len(sib.keys) # 0
        BY <1>1, <1>16, <4>1 DEF LastEmptyBut, sib
      <4>3. Len(cells) = Len(sib.keys) /\ Len(m.keys) = Len(n.keys) + Len(cells)
        BY <1>3, <1>7, <4>1 DEF Given, HasAll
      <4>4. Len(n.keys) \in Nat /\ Len(sib.keys) \in Nat
        BY <1>3, FitsFacts
      <4> DEFINE x == Len(n.keys)  y == Len(sib.keys)  w == Len(m.keys)
      <4>5. x \in Nat /\ y \in Nat /\ y # 0 /\ w = x + y
        BY <4>2, <4>3, <4>4
      <4>6. new[p] = m
        BY <3>2
      <4> HIDE DEF x, y, w
      <4>7. w # 0
        BY ONLY <4>5
      <4> QED BY ONLY <4>6, <4>7 DEF w
    <3> QED BY <3>1, <3>2
  <2> QED BY <2>1 DEF LastEmpty
<1> QED BY <1>13, <1>14, <1>15, <1>16

(* The first of the cells alone.                                           *)
LEMMA FirstCells ==
  ASSUME NEW n, PageOK(n), NEW cells, CellsFor(n.leaf, cells), Behind(n, cells),
         NEW give \in 1 .. Len(cells), NEW part, part = SubSeq(cells, 1, give),
         NEW r, r = InsertAll(n, part), r.res = "ok"
  PROVE  Appended(n, cells, give, r.node)
<1>1. cells \in Seq(Key \X Links) /\ Len(cells) \in Nat
  <2>1. cells \in Seq(Key \X Links)
    BY DEF CellsFor
  <2> QED BY <2>1
<1>2. part \in Seq(Key \X Links) /\ Len(part) = give /\ \A i \in 1 .. give : part[i] = cells[i]
  <2> DEFINE S == Key \X Links
  <2>1. cells \in Seq(S) /\ 1 \in 1 .. Len(cells) + 1 /\ give \in 0 .. Len(cells) /\ 1 <= give + 1
    BY <1>1
  <2> HIDE DEF S
  <2>2. part \in Seq(S) /\ Len(part) = (give - 1) + 1
        /\ \A x \in 1 .. (give - 1) + 1 : part[x] = cells[(x + 1) - 1]
    BY <2>1, PartOf
  <2>3. (give - 1) + 1 = give /\ \A x \in 1 .. give : (x + 1) - 1 = x
    BY <1>1
  <2>4. \A i \in 1 .. give : part[i] = cells[i]
    BY <2>2, <2>3
  <2> QED BY <2>2, <2>3, <2>4 DEF S
<1>3. \A i \in 1 .. give : i \in 1 .. Len(cells)
  BY <1>1
<1>4. CellsFor(n.leaf, part)
  BY <1>2, <1>3 DEF CellsFor
<1>5. Behind(n, part)
  BY <1>2, <1>3 DEF Behind
<1>6. Appended(n, part, Len(part), r.node)
  BY <1>4, <1>5, AppendsAll
<1>7. Appended(n, part, give, r.node)
  BY <1>2, <1>6
<1> QED BY <1>2, <1>7 DEF Appended

(* A key of an internal page that becomes another one.                     *)
LEMMA KeyMoved ==
  ASSUME NEW n, PageOK(n), ~n.leaf, NEW c \in 1 .. Len(n.keys), NEW g \in Key,
         NEW m, m = [n EXCEPT !.keys[c] = g]
  PROVE  MovesKey(n, m, c, g) /\ PageOK(m)
<1> DEFINE ks == [n.keys EXCEPT ![c] = g]
<1>1. /\ n \in PageRec /\ n.keys \in Seq(Key) /\ n.kids \in Seq(Nat) /\ n.next \in Nat \cup {Null}
      /\ n.room \in Nat /\ n.gap \in Nat /\ n.leaf = FALSE /\ Len(n.kids) = Len(n.keys) + 1 /\ RoomFits(n)
  BY RecFields DEF PageOK
<1>2. ks \in Seq(Key) /\ Len(ks) = Len(n.keys) /\ \A i \in 1 .. Len(n.keys) : ks[i] = IF i = c THEN g ELSE n.keys[i]
  BY <1>1
<1>3. m = [n EXCEPT !.keys = ks]
  OBVIOUS
<1> HIDE DEF ks
<1>4. /\ m \in PageRec /\ m.leaf = FALSE /\ m.keys = ks /\ m.kids = n.kids /\ m.next = n.next
      /\ m.room = n.room /\ m.gap = n.gap
  BY <1>1, <1>2, <1>3 DEF PageRec
<1>5. SpaceOf(m) = SpaceOf(n)
  <2>1. SpaceOf(m) = SpaceIn(FALSE, ks) /\ SpaceOf(n) = SpaceIn(FALSE, n.keys)
    BY <1>1, <1>4, SpaceOfIs
  <2>2. SpaceIn(FALSE, ks) = Len(ks) * InternalSpace /\ SpaceIn(FALSE, n.keys) = Len(n.keys) * InternalSpace
    BY <1>1, <1>2, SpaceInternal
  <2> QED BY <1>2, <2>1, <2>2
<1>6. RoomFits(m)
  BY <1>1, <1>4, <1>5 DEF RoomFits
<1>7. MovesKey(n, m, c, g)
  BY <1>1, <1>2, <1>4 DEF MovesKey
<1>8. PageOK(m)
  BY <1>1, <1>2, <1>4, <1>6 DEF PageOK
<1> QED BY <1>7, <1>8

(* The rows of the two leaves among which they are shared.                 *)
LEMMA KeysShared ==
  ASSUME NEW n, PageOK(n), n.leaf, NEW sib, PageOK(sib), sib.leaf, NEW f, NEW cells, Given(sib, f, cells),
         NEW give \in 1 .. Len(cells) - 1, NEW grown, Appended(n, cells, give, grown),
         NEW small, Keeps(sib, give, small)
  PROVE  /\ KeysIn(grown) \cup KeysIn(small) = KeysIn(n) \cup KeysIn(sib)
         /\ Len(grown.keys) # 0 /\ Len(small.keys) # 0
<1> DEFINE N == Len(n.keys)  S == Len(sib.keys)
<1>1. N \in Nat /\ S \in Nat
  BY RecFields DEF PageOK
<1>2. Len(cells) = S /\ \A i \in 1 .. S : cells[i][1] = sib.keys[i]
  BY DEF Given
<1>3. /\ Len(grown.keys) = N + give /\ \A i \in 1 .. N : grown.keys[i] = n.keys[i]
      /\ \A i \in 1 .. give : grown.keys[N + i] = cells[i][1]
  BY DEF Appended
<1>4. Len(small.keys) = S - give /\ \A i \in 1 .. S - give : small.keys[i] = sib.keys[give + i]
  BY DEF Keeps
<1>5. give \in Nat /\ give >= 1 /\ S - give \in Nat /\ S - give >= 1
  BY <1>1, <1>2
<1> HIDE DEF N, S
<1>6. Len(grown.keys) # 0 /\ Len(small.keys) # 0
  BY <1>1, <1>3, <1>4, <1>5
<1>7. ASSUME NEW i \in 1 .. N + give PROVE grown.keys[i] \in KeysIn(n) \cup KeysIn(sib)
  <2>1. CASE i \in 1 .. N
    BY <1>3, <2>1 DEF KeysIn, N
  <2>2. CASE i \notin 1 .. N
    <3> DEFINE j == i - N
    <3>1. j \in 1 .. give /\ j \in 1 .. S /\ N + j = i
      BY <1>1, <1>5, <2>2
    <3> HIDE DEF j
    <3>2. grown.keys[i] = sib.keys[j]
      BY <1>2, <1>3, <3>1
    <3> QED BY <3>1, <3>2 DEF KeysIn, S
  <2> QED BY <2>1, <2>2
<1>8. ASSUME NEW i \in 1 .. S - give PROVE small.keys[i] \in KeysIn(sib)
  <2>1. give + i \in 1 .. S
    BY <1>1, <1>5
  <2> QED BY <1>4, <2>1 DEF KeysIn, S
<1>9. ASSUME NEW i \in 1 .. N PROVE n.keys[i] \in KeysIn(grown)
  <2>1. i \in 1 .. N + give
    BY <1>1, <1>5
  <2> QED BY <1>3, <2>1 DEF KeysIn
<1>10. ASSUME NEW i \in 1 .. S PROVE sib.keys[i] \in KeysIn(grown) \cup KeysIn(small)
  <2>1. CASE i <= give
    <3>1. i \in 1 .. give /\ N + i \in 1 .. N + give
      BY <1>1, <1>5, <2>1
    <3>2. grown.keys[N + i] = sib.keys[i]
      BY <1>2, <1>3, <3>1
    <3> QED BY <1>3, <3>1, <3>2 DEF KeysIn
  <2>2. CASE ~(i <= give)
    <3> DEFINE j == i - give
    <3>1. j \in 1 .. S - give /\ give + j = i
      BY <1>1, <1>5, <2>2
    <3> HIDE DEF j
    <3>2. small.keys[j] = sib.keys[i]
      BY <1>4, <3>1
    <3> QED BY <1>4, <3>1, <3>2 DEF KeysIn
  <2> QED BY <2>1, <2>2
<1>11. KeysIn(grown) \subseteq KeysIn(n) \cup KeysIn(sib) /\ KeysIn(small) \subseteq KeysIn(sib)
  <2>1. KeysIn(grown) \subseteq KeysIn(n) \cup KeysIn(sib)
    <3> SUFFICES ASSUME NEW k \in KeysIn(grown) PROVE k \in KeysIn(n) \cup KeysIn(sib)
      OBVIOUS
    <3>1. PICK i \in 1 .. N + give : k = grown.keys[i]
      BY <1>3 DEF KeysIn
    <3> QED BY <1>7, <3>1
  <2>2. KeysIn(small) \subseteq KeysIn(sib)
    <3> SUFFICES ASSUME NEW k \in KeysIn(small) PROVE k \in KeysIn(sib)
      OBVIOUS
    <3>1. PICK i \in 1 .. S - give : k = small.keys[i]
      BY <1>4 DEF KeysIn
    <3> QED BY <1>8, <3>1
  <2> QED BY <2>1, <2>2
<1>12. KeysIn(n) \subseteq KeysIn(grown) /\ KeysIn(sib) \subseteq KeysIn(grown) \cup KeysIn(small)
  <2>1. KeysIn(n) \subseteq KeysIn(grown)
    BY <1>9 DEF KeysIn, N
  <2>2. KeysIn(sib) \subseteq KeysIn(grown) \cup KeysIn(small)
    <3> SUFFICES ASSUME NEW k \in KeysIn(sib) PROVE k \in KeysIn(grown) \cup KeysIn(small)
      OBVIOUS
    <3>1. PICK i \in 1 .. S : k = sib.keys[i]
      BY DEF KeysIn, S
    <3> QED BY <1>10, <3>1
  <2> QED BY <2>1, <2>2
<1> QED BY <1>6, <1>11, <1>12

(* A page has taken some cells of its sibling, and their parent the key of *)
(* the first that stays.                                                   *)
Sharing(full, rt, h, lo, hi, q, c, id, sid, f, cells, give, part, r, left, new) ==
  /\ Whole(full, rt, h, lo, hi) /\ PagesOK(full)
  /\ q \in DOMAIN full /\ ~full[q].leaf /\ c \in 1 .. Len(full[q].keys)
  /\ id = full[q].kids[c] /\ sid = full[q].kids[c + 1]
  /\ Edge(full, h, lo, hi, q, c, f) /\ Given(full[sid], f, cells)
  /\ give \in 1 .. Len(cells) - 1 /\ part = SubSeq(cells, 1, give)
  /\ r = InsertAll(full[id], part) /\ r.res = "ok"
  /\ left = SubSeq(cells, give + 1, Len(cells))
  /\ DOMAIN new = DOMAIN full /\ new[id] = r.node /\ new[sid] = Remainder(full[sid], left)
  /\ new[q] = [full[q] EXCEPT !.keys[c] = Head(left)[1]]
  /\ \A p \in DOMAIN new : p # id /\ p # sid /\ p # q => new[p] = full[p]

(* What moving cells from the sibling does to tree, pages and rows.        *)
LEMMA ShareStep ==
  ASSUME NEW full, NEW rt, NEW h, NEW lo, NEW hi, NEW q, NEW c, NEW id, NEW sid, NEW f, NEW cells, NEW give, NEW part,
         NEW r, NEW left, NEW new,
         Sharing(full, rt, h, lo, hi, q, c, id, sid, f, cells, give, part, r, left, new)
  PROVE  /\ \E lo2, hi2 : Whole(new, rt, h, lo2, hi2)
         /\ PagesOK(new) /\ RowsIn(new) = RowsIn(full)
         /\ LastEmptyBut(full, id) => LastEmpty(new)
<1> SUFFICES ASSUME Whole(full, rt, h, lo, hi), PagesOK(full),
                    q \in DOMAIN full, ~full[q].leaf, c \in 1 .. Len(full[q].keys),
                    id = full[q].kids[c], sid = full[q].kids[c + 1],
                    Edge(full, h, lo, hi, q, c, f), Given(full[sid], f, cells),
                    give \in 1 .. Len(cells) - 1, part = SubSeq(cells, 1, give),
                    r = InsertAll(full[id], part), r.res = "ok",
                    left = SubSeq(cells, give + 1, Len(cells)),
                    DOMAIN new = DOMAIN full, new[id] = r.node, new[sid] = Remainder(full[sid], left),
                    new[q] = [full[q] EXCEPT !.keys[c] = Head(left)[1]],
                    \A p \in DOMAIN new : p # id /\ p # sid /\ p # q => new[p] = full[p]
             PROVE  /\ \E lo2, hi2 : Whole(new, rt, h, lo2, hi2)
                    /\ PagesOK(new) /\ RowsIn(new) = RowsIn(full)
                    /\ LastEmptyBut(full, id) => LastEmpty(new)
  BY DEF Sharing
<1>1. /\ id \in DOMAIN full /\ sid \in DOMAIN full /\ id # sid /\ id # q /\ sid # q /\ sid # rt
      /\ lo[id] \in Nat /\ hi[sid] \in Nat /\ f \in Key /\ lo[id] < f /\ f < hi[sid]
      /\ PageFits(full[id], lo[id], f) /\ PageFits(full[sid], f, hi[sid])
      /\ full[id].leaf = full[sid].leaf
  BY ONLY Whole(full, rt, h, lo, hi), q \in DOMAIN full, ~full[q].leaf, c \in 1 .. Len(full[q].keys),
          id = full[q].kids[c], sid = full[q].kids[c + 1], Edge(full, h, lo, hi, q, c, f), AcrossEdge
<1> DEFINE n == full[id]  sib == full[sid]  a == lo[id]  z == hi[sid]  small == Remainder(sib, left)
           g == cells[give + 1][1]
<1>2. PageOK(n) /\ PageOK(sib) /\ PageOK(full[q])
  BY <1>1 DEF PagesOK
<1>3. /\ PageFits(n, a, f) /\ PageFits(sib, f, z) /\ a \in Nat /\ z \in Nat /\ f \in Key /\ a < f /\ f < z
      /\ n.leaf = sib.leaf /\ Given(sib, f, cells) /\ r = InsertAll(n, part)
  BY <1>1
<1> HIDE DEF n, sib, a, z
<1>4. CellsFor(n.leaf, cells) /\ Behind(n, cells)
  BY <1>3, GivenBehind
<1>5. cells \in Seq(Key \X Links) /\ Len(cells) \in Nat /\ give \in 1 .. Len(cells) /\ give + 1 \in 1 .. Len(cells)
  <2>1. cells \in Seq(Key \X Links)
    BY <1>3 DEF Given
  <2> QED BY <2>1
<1>6. Appended(n, cells, give, r.node)
  BY <1>2, <1>3, <1>4, <1>5, FirstCells
<1>7. Keeps(sib, give, small) /\ Head(left) = cells[give + 1]
  <2>1. Keeps(sib, give, Remainder(sib, left)) /\ Head(left) = cells[give + 1]
    <3>1. left = SubSeq(cells, give + 1, Len(cells)) /\ give \in 1 .. Len(cells) - 1
      OBVIOUS
    <3> QED BY ONLY <1>2, <1>3, <3>1, RemainderKeeps
  <2> QED BY <2>1
<1>8. g \in Key
  BY <1>4, <1>5 DEF CellsFor
<1>9. new[id] = r.node /\ new[sid] = small /\ new[q] = [full[q] EXCEPT !.keys[c] = g]
  BY <1>7 DEF sib
<1> HIDE DEF small, g
<1>10. MovesKey(full[q], new[q], c, g) /\ PageOK(new[q])
  <2> DEFINE o == full[q]  m == new[q]
  <2>1. PageOK(o) /\ ~o.leaf /\ c \in 1 .. Len(o.keys) /\ m = [o EXCEPT !.keys[c] = g]
    BY <1>2, <1>9
  <2> HIDE DEF o, m
  <2>2. MovesKey(o, m, c, g) /\ PageOK(m)
    BY ONLY <1>8, <2>1, KeyMoved
  <2> QED BY <2>2 DEF o, m
<1>11. Shared(full, new, q, c, f, cells, give, r.node, small)
  BY <1>3, <1>6, <1>7, <1>9, <1>10 DEF Shared, n, sib, g
<1>12. \E lo2, hi2 : Whole(new, rt, h, lo2, hi2)
  BY <1>11, <1>1, SharedTree DEF Edge
<1>13. PageOK(new[id]) /\ PageOK(new[sid]) /\ new[id].leaf = n.leaf /\ new[sid].leaf = n.leaf /\ new[q].leaf = full[q].leaf
  BY <1>3, <1>6, <1>7, <1>9, <1>10 DEF Appended, Keeps, MovesKey
<1>14. PagesOK(new)
  <2> SUFFICES ASSUME NEW p \in DOMAIN new PROVE PageOK(new[p])
    BY DEF PagesOK
  <2> QED BY <1>10, <1>13 DEF PagesOK
<1>15. n.leaf => /\ KeysIn(new[id]) \cup KeysIn(new[sid]) = KeysIn(n) \cup KeysIn(sib)
                 /\ Len(new[id].keys) # 0 /\ Len(new[sid].keys) # 0
  <2> SUFFICES ASSUME n.leaf
               PROVE  /\ KeysIn(new[id]) \cup KeysIn(new[sid]) = KeysIn(n) \cup KeysIn(sib)
                      /\ Len(new[id].keys) # 0 /\ Len(new[sid].keys) # 0
    OBVIOUS
  <2> DEFINE grown == new[id]  kept == new[sid]
  <2>1. Appended(n, cells, give, grown) /\ Keeps(sib, give, kept) /\ sib.leaf
    BY <1>3, <1>6, <1>7, <1>9
  <2> HIDE DEF grown, kept
  <2>2. /\ KeysIn(grown) \cup KeysIn(kept) = KeysIn(n) \cup KeysIn(sib)
        /\ Len(grown.keys) # 0 /\ Len(kept.keys) # 0
    BY ONLY <1>2, <1>3, <2>1, n.leaf, give \in 1 .. Len(cells) - 1, KeysShared
  <2> QED BY <2>2 DEF grown, kept
<1>16. RowsIn(new) = RowsIn(full)
  <2>1. /\ full[id].leaf = full[sid].leaf /\ new[id].leaf = full[id].leaf /\ new[sid].leaf = full[id].leaf
        /\ full[id].leaf => KeysIn(new[id]) \cup KeysIn(new[sid]) = KeysIn(full[id]) \cup KeysIn(full[sid])
    BY <1>1, <1>13, <1>15 DEF n, sib
  <2>2. \A p \in DOMAIN full : p # id /\ p # sid => new[p].leaf = full[p].leaf /\ (full[p].leaf => new[p] = full[p])
    BY <1>13
  <2> QED BY ONLY <1>1, <2>1, <2>2, DOMAIN new = DOMAIN full, RowsShare
<1>17. ASSUME LastEmptyBut(full, id) PROVE LastEmpty(new)
  <2>1. ASSUME NEW p \in DOMAIN new, new[p].leaf, new[p].next # Null \/ Deletable = {}
        PROVE  Len(new[p].keys) # 0
    <3>1. CASE p = id \/ p = sid
      BY <1>13, <1>15, <2>1, <3>1
    <3>2. CASE p # id /\ p # sid
      <4>1. p # q
        BY <1>13, <2>1
      <4> QED BY <1>17, <2>1, <3>2, <4>1 DEF LastEmptyBut
    <3> QED BY <3>1, <3>2
  <2> QED BY <2>1 DEF LastEmpty
<1> QED BY <1>12, <1>14, <1>16, <1>17

(* All of a sequence.                                                      *)
LEMMA AllOfIt ==
  ASSUME NEW S, NEW s \in Seq(S)
  PROVE  SubSeq(s, 1, Len(s)) = s
<1> DEFINE N == Len(s)  t == SubSeq(s, 1, N)
<1>0. N \in Nat
  OBVIOUS
<1> HIDE DEF N
<1>1. t \in Seq(S) /\ Len(t) = (N - 1) + 1 /\ \A x \in 1 .. (N - 1) + 1 : t[x] = s[(x + 1) - 1]
  <2>1. 1 \in 1 .. Len(s) + 1 /\ N \in 0 .. Len(s) /\ 1 <= N + 1
    BY <1>0 DEF N
  <2> QED BY <2>1, PartOf
<1>2. (N - 1) + 1 = N /\ \A x \in 1 .. N : (x + 1) - 1 = x
  BY <1>0
<1> HIDE DEF t
<1>3. Len(t) = N /\ \A x \in 1 .. N : t[x] = s[x]
  BY <1>1, <1>2
<1>4. t = s
  BY <1>1, <1>3 DEF N
<1> QED BY <1>4 DEF t, N

(* Used space of a leaf is the space of its cells.                         *)
LEMMA UsedIs ==
  ASSUME NEW n, PageOK(n), n.leaf
  PROVE  Used(n) = SpaceOf(n) /\ SpaceOf(n) = SpaceIn(TRUE, n.keys) /\ SpaceOf(n) \in Nat /\ n.keys \in Seq(Key)
<1>1. n \in PageRec /\ n.room + SpaceOf(n) = PageSpace /\ n.room \in Nat /\ n.keys \in Seq(Key) /\ n.leaf = TRUE
  BY RecFields DEF PageOK, RoomFits
<1>2. SpaceOf(n) \in Nat /\ PageSpace \in Nat
  BY <1>1, SpaceNat, Numbers
<1>3. SpaceOf(n) = SpaceIn(TRUE, n.keys)
  BY <1>1, SpaceOfIs
<1> DEFINE r == n.room  u == SpaceOf(n)
<1>4. r \in Nat /\ u \in Nat /\ PageSpace \in Nat /\ r + u = PageSpace /\ Used(n) = PageSpace - r
  BY <1>1, <1>2 DEF Used
<1> HIDE DEF r, u
<1>5. Used(n) = u
  BY ONLY <1>4
<1> QED BY <1>1, <1>2, <1>3, <1>5 DEF u

(* Leaves that are merged have the room for all rows of both.              *)
LEMMA LeafMerges ==
  ASSUME NEW n, PageOK(n), n.leaf, NEW sib, PageOK(sib), sib.leaf, Used(n) + Used(sib) < Half,
         NEW f, NEW cells, Given(sib, f, cells), CellsFor(n.leaf, cells), Behind(n, cells)
  PROVE  InsertAll(n, cells).res = "ok"
<1>1. /\ Used(n) = SpaceOf(n) /\ SpaceOf(n) \in Nat /\ Used(sib) = SpaceIn(TRUE, sib.keys)
      /\ SpaceIn(TRUE, sib.keys) \in Nat /\ sib.keys \in Seq(Key)
  BY UsedIs
<1>2. SpaceOf(n) + SpaceIn(TRUE, sib.keys) <= PageSpace
  <2>1. SpaceOf(n) + SpaceIn(TRUE, sib.keys) < Half
    BY <1>1
  <2>2. Half \in Nat /\ PageSpace \in Nat /\ Half + Half <= PageSpace
    BY Numbers
  <2> DEFINE x == SpaceOf(n)  y == SpaceIn(TRUE, sib.keys)  hf == Half
  <2>3. x \in Nat /\ y \in Nat /\ x + y < hf /\ hf \in Nat /\ PageSpace \in Nat /\ hf + hf <= PageSpace
    BY <1>1, <2>1, <2>2
  <2> HIDE DEF x, y, hf
  <2>4. x + y <= PageSpace
    BY ONLY <2>3
  <2> QED BY <2>4 DEF x, y
<1>3. Len(sib.keys) = Len(cells) /\ \A i \in 1 .. Len(sib.keys) : sib.keys[i] = cells[i][1]
  BY DEF Given
<1> QED BY <1>1, <1>2, <1>3, LeafTakesAll

(* A leaf with one row at most uses less than half a page.                 *)
LEMMA SmallLeaf ==
  ASSUME NEW n, PageOK(n), n.leaf, Len(n.keys) <= 1
  PROVE  Used(n) \in Nat /\ Used(n) < Half /\ (Len(n.keys) = 0 => Used(n) = 0)
<1>1. Used(n) = SpaceIn(TRUE, n.keys) /\ SpaceIn(TRUE, n.keys) \in Nat /\ n.keys \in Seq(Key)
  BY UsedIs
<1>2. Half \in Nat /\ InternalSpace < Half /\ InternalSpace \in Nat /\ \A k \in Key : RowSpace[k] \in Nat /\ RowSpace[k] < Half
  BY Numbers
<1>3. CASE Len(n.keys) = 0
  <2>1. SpaceIn(TRUE, n.keys) = 0
    BY <1>1, <1>3, SpaceNone
  <2>2. 0 < Half
    <3> DEFINE hf == Half
    <3>1. hf \in Nat /\ InternalSpace < hf /\ InternalSpace \in Nat
      BY <1>2
    <3> HIDE DEF hf
    <3>2. 0 < hf
      BY ONLY <3>1
    <3> QED BY <3>2 DEF hf
  <2>3. Used(n) = 0
    BY <1>1, <2>1
  <2>4. Used(n) \in Nat /\ Used(n) < Half
    BY ONLY <2>2, <2>3
  <2> QED BY ONLY <2>3, <2>4
<1>4. CASE Len(n.keys) = 1
  <2>1. SpaceIn(TRUE, n.keys) = OneSpace(TRUE, n.keys[1])
    BY <1>1, <1>4, SpaceOne
  <2>2. n.keys[1] \in Key
    BY <1>1, <1>4
  <2>3. Used(n) < Half
    BY <1>1, <1>2, <2>1, <2>2 DEF OneSpace
  <2>4. Used(n) \in Nat
    BY ONLY <1>1
  <2>5. Len(n.keys) # 0
    BY ONLY <1>4
  <2> QED BY ONLY <2>3, <2>4, <2>5
<1>5. Len(n.keys) = 0 \/ Len(n.keys) = 1
  <2>1. Len(n.keys) \in Nat
    BY <1>1
  <2>2. \A x \in Nat : x <= 1 => x = 0 \/ x = 1
    OBVIOUS
  <2>3. Len(n.keys) <= 1
    OBVIOUS
  <2> QED BY ONLY <2>1, <2>2, <2>3
<1> QED BY ONLY <1>3, <1>4, <1>5

(* A sibling never gives all its cells where the pages are not merged.     *)
LEMMA ShareNumbers ==
  ASSUME NEW n, PageOK(n), NEW sib, PageOK(sib), n.leaf = sib.leaf, ~(Used(n) + Used(sib) < Half),
         Cells(n) < Cells(sib), NEW f, NEW cells, Given(sib, f, cells),
         NEW give, give = (Cells(n) + Cells(sib) + 1) \div 2 - Cells(n)
  PROVE  give \in 1 .. Len(cells) - 1
<1> DEFINE N == Len(n.keys)  S == Len(sib.keys)  L == Len(cells)
<1>1. N \in Nat /\ S \in Nat /\ N < S /\ n.leaf \in BOOLEAN /\ give = (N + S + 1) \div 2 - N
  BY RecFields DEF PageOK, Cells
<1>2. L = IF sib.leaf THEN S ELSE S + 1
  BY DEF Given
<1>3. sib.leaf => N + S >= 2
  <2> SUFFICES ASSUME sib.leaf, ~(N + S >= 2) PROVE FALSE
    OBVIOUS
  <2>0. ASSUME NEW x \in Nat, NEW y \in Nat, x < y, ~(x + y >= 2) PROVE x = 0 /\ y = 1
    BY <2>0
  <2>1. N = 0 /\ S = 1
    <3> HIDE DEF N, S
    <3> QED BY <1>1, <2>0
  <2>2. Used(n) = 0 /\ Used(sib) \in Nat /\ Used(sib) < Half
    <3>1. Len(n.keys) <= 1 /\ Len(n.keys) = 0 /\ Len(sib.keys) <= 1 /\ n.leaf
      BY <1>1, <2>1
    <3> QED BY ONLY <3>1, PageOK(n), PageOK(sib), sib.leaf, SmallLeaf
  <2>3. Used(n) + Used(sib) < Half
    BY <2>2
  <2> QED BY <2>3
<1> HIDE DEF N, S, L
<1>4. ASSUME NEW x \in Nat, NEW y \in Nat, x < y, NEW l \in Nat, l = y + 1 \/ (l = y /\ x + y >= 2)
      PROVE  (x + y + 1) \div 2 - x \in 1 .. l - 1
  BY <1>4
<1>5. L \in Nat /\ (L = S + 1 \/ (L = S /\ N + S >= 2))
  BY <1>1, <1>2, <1>3
<1>6. (N + S + 1) \div 2 - N \in 1 .. L - 1
  BY ONLY <1>1, <1>4, <1>5
<1> QED BY <1>1, <1>6 DEF L

(* An empty leaf that cannot be merged takes cells from its sibling: none  *)
(* is left empty.                                                          *)
LEMMA EmptyTakes ==
  ASSUME NEW n, PageOK(n), n.leaf, NEW sib, PageOK(sib), sib.leaf, Len(n.keys) = 0,
         ~(Used(n) + Used(sib) < Half)
  PROVE  Cells(n) < Cells(sib)
<1>1. Len(sib.keys) \in Nat
  BY RecFields DEF PageOK
<1> SUFFICES ASSUME Len(sib.keys) = 0 PROVE FALSE
  BY <1>1 DEF Cells
<1>2. Used(n) = 0 /\ Used(sib) = 0 /\ 0 < Half
  BY SmallLeaf
<1> QED BY <1>2

(* Putting in one by one gives one of the answers of insert_cell().        *)
LEMMA InsertAllAnswers ==
  ASSUME NEW n, PageOK(n), NEW cells, CellsFor(n.leaf, cells)
  PROVE  InsertAll(n, cells).res \in Results
<1>1. PICK done : Steps(n, cells, done) /\ InsertAll(n, cells) = done[Len(cells)]
  BY InsertAllDef
<1> DEFINE N == Len(cells)  S == {j \in 0 .. N : done[j].res \in Results}
<1>2. N \in Nat /\ 0 \in 0 .. N
  BY DEF CellsFor
<1>3. 0 \in S
  BY <1>1, <1>2 DEF Steps, Results
<1>4. ASSUME NEW j \in 0 .. N, j > 0, j - 1 \in S PROVE j \in S
  <2>1. j \in 1 .. N
    BY <1>2, <1>4
  <2>2. done[j] = IF done[j - 1].res = "ok"
                    THEN InsertCell(done[j - 1].node, cells[j][1], cells[j][2]) ELSE done[j - 1]
    BY <1>1, <2>1 DEF Steps
  <2>3. ASSUME NEW m, NEW k, NEW c PROVE InsertCell(m, k, c).res \in Results
    BY DEF InsertCell, Results
  <2>4. done[j].res \in Results
    BY <1>4, <2>2, <2>3
  <2> QED BY <2>4
<1>5. \A j \in 0 .. N : j \in S
  <2> HIDE DEF S, N
  <2>1. 0 \in Nat
    OBVIOUS
  <2> QED BY <1>2, <1>3, <1>4, <2>1, StepInduction
<1>6. N \in 0 .. N
  BY <1>2
<1>7. N \in S
  BY <1>5, <1>6
<1> QED BY <1>1, <1>7

(* A page above the leaves takes a cell that it has the room for.          *)
LEMMA InternalTakesOne ==
  ASSUME NEW n \in PageRec, ~n.leaf, NEW k \in Key, NEW c, k \notin KeysIn(n), InternalSpace <= n.room
  PROVE  InsertCell(n, k, c).res = "ok" /\ InsertCell(n, k, c).node.room = n.room - InternalSpace
<1> DEFINE s == Space(n, k)  r == InsertCell(n, k, c)  p == Below(n, k) + 1
           exact == PageSpace - SpaceOf(n)
           fits == IF n.leaf THEN n.room >= s ELSE n.gap >= s
           m == IF fits \/ n.leaf THEN n ELSE [n EXCEPT !.gap = exact]
           new == [m EXCEPT !.keys = InsertAt(@, p, k),
                            !.kids = IF n.leaf THEN @ ELSE InsertAt(@, p + 1, c),
                            !.room = @ - s,
                            !.gap  = IF n.leaf THEN @ ELSE @ - s]
<1>1. s = InternalSpace /\ s \in Nat /\ n.room \in Nat
  BY RecFields, Numbers DEF Space
<1>2. k \notin KeySet(n)
  BY RecFields DEF KeySet, KeysIn, Range
<1>3. r = IF ~fits /\ n.room < s THEN [res |-> "full", node |-> n]
          ELSE IF k \in KeySet(n) THEN [res |-> "exists", node |-> m]
          ELSE IF n.room < s THEN [res |-> "overflow", node |-> m]
          ELSE [res  |-> "ok", node |-> new]
  BY DEF InsertCell
<1>4. ~(n.room < s)
  BY <1>1
<1>5. r = [res |-> "ok", node |-> new]
  <2> HIDE DEF new, m, fits, s, r
  <2> QED BY <1>2, <1>3, <1>4
<1>6. m.room = n.room /\ m = [leaf |-> m.leaf, keys |-> m.keys, kids |-> m.kids, next |-> m.next,
                              room |-> m.room, gap |-> m.gap]
  BY DEF PageRec
<1>7. new.room = m.room - s
  <2> HIDE DEF m, s
  <2> QED BY <1>6
<1> HIDE DEF new
<1> QED BY <1>1, <1>5, <1>6, <1>7

(* Multiples of the space of a cell.                                       *)
LEMMA Multiples ==
  ASSUME NEW j \in Nat, NEW s \in Nat
  PROVE  j * s \in Nat /\ (j + 1) * s = j * s + s /\ 0 * s = 0
OBVIOUS

LEMMA MoreSpace ==
  ASSUME NEW j \in Nat, NEW l \in Nat, j <= l, NEW s \in Nat
  PROVE  j * s <= l * s
OBVIOUS

(* A page above the leaves takes all cells that it has the room for.       *)
LEMMA InternalTakesAll ==
  ASSUME NEW n, PageOK(n), ~n.leaf, NEW cells, CellsFor(n.leaf, cells), Behind(n, cells),
         Len(cells) * InternalSpace <= n.room
  PROVE  InsertAll(n, cells).res = "ok"
<1>1. PICK done : Steps(n, cells, done) /\ InsertAll(n, cells) = done[Len(cells)]
  BY InsertAllDef
<1> DEFINE N == Len(cells)
           S == {j \in 0 .. N : done[j].res = "ok" /\ done[j].node.room + j * InternalSpace = n.room}
<1>2. N \in Nat /\ 0 \in 0 .. N /\ N \in 0 .. N /\ n \in PageRec /\ n.room \in Nat /\ InternalSpace \in Nat
      /\ N * InternalSpace <= n.room
  <2>1. N \in Nat
    BY DEF CellsFor
  <2> QED BY <2>1, RecFields, Numbers DEF PageOK
<1>3. 0 \in S
  BY <1>1, <1>2, Multiples DEF Steps
<1>4. ASSUME NEW j \in 0 .. N, j > 0, j - 1 \in S PROVE j \in S
  <2> DEFINE i == j - 1  m == done[i].node  k == cells[j][1]
  <2>1. j \in 1 .. N /\ i \in Nat /\ i + 1 = j /\ i + 1 \in 1 .. N /\ i \in 0 .. N
    BY <1>2, <1>4
  <2>2. done[j] = InsertCell(m, k, cells[j][2])
    <3>1. done[j - 1].res = "ok"
      BY <1>4
    <3> QED BY <1>1, <2>1, <3>1 DEF Steps
  <2>3. Appended(n, cells, i, m)
    BY <1>1, <1>4, <2>1, StepsAppend
  <2>4. k \in Key
    BY <2>1 DEF CellsFor
  <2>5. m \in PageRec /\ ~m.leaf /\ m.room \in Nat
    BY <2>3, RecFields DEF Appended, PageOK
  <2>6. m.room + i * InternalSpace = n.room
    BY <1>4
  <2>7. /\ i * InternalSpace \in Nat /\ j * InternalSpace \in Nat /\ j * InternalSpace <= N * InternalSpace
        /\ j * InternalSpace = i * InternalSpace + InternalSpace
    <3>1. j \in Nat /\ j <= N
      BY <2>1
    <3> HIDE DEF N, i
    <3> QED BY <1>2, <2>1, <3>1, Multiples, MoreSpace
  <2>8. InternalSpace <= m.room
    <3> DEFINE a == i * InternalSpace  b == j * InternalSpace  w == N * InternalSpace  e == m.room
    <3>1. a \in Nat /\ b = a + InternalSpace /\ b <= w /\ w <= n.room /\ e + a = n.room /\ e \in Nat
          /\ b \in Nat /\ InternalSpace \in Nat /\ n.room \in Nat
      BY <1>2, <2>5, <2>6, <2>7
    <3>2. w \in Nat
      BY <1>2, Multiples
    <3> HIDE DEF a, b, w, e
    <3>3. InternalSpace <= e
      BY ONLY <3>1, <3>2
    <3> QED BY <3>3 DEF e
  <2>9. k \notin KeysIn(m)
    <3>1. \A x \in 1 .. Len(m.keys) : m.keys[x] < k
      <4>1. \A x \in 1 .. Len(m.keys) : m.keys[x] < cells[i + 1][1]
        <5> HIDE DEF i, m, N
        <5>1. i \in Nat /\ i + 1 \in 1 .. Len(cells)
          BY <2>1 DEF i, N
        <5> QED BY <2>3, <5>1, AppendedKeys
      <4> QED BY <2>1, <4>1
    <3>2. \A x \in 1 .. Len(m.keys) : m.keys[x] \in Key
      BY <2>3, RecFields DEF Appended, PageOK
    <3> HIDE DEF m, k
    <3>3. \A x \in 1 .. Len(m.keys) : m.keys[x] # k
      <4>1. \A y, z \in Nat : y < z => y # z
        OBVIOUS
      <4> QED BY <2>4, <3>1, <3>2, <4>1, Numbers
    <3> QED BY <3>3 DEF KeysIn
  <2>10. done[j].res = "ok" /\ done[j].node.room = m.room - InternalSpace
    <3> HIDE DEF m, k
    <3> QED BY <2>2, <2>4, <2>5, <2>8, <2>9, InternalTakesOne
  <2>11. done[j].node.room + j * InternalSpace = n.room
    <3> DEFINE a == i * InternalSpace  b == j * InternalSpace  e == m.room  d == done[j].node.room
    <3>1. a \in Nat /\ b = a + InternalSpace /\ e + a = n.room /\ e \in Nat /\ InternalSpace \in Nat
          /\ d = e - InternalSpace
      BY <1>2, <2>5, <2>6, <2>7, <2>10
    <3> HIDE DEF a, b, e, d
    <3>2. d + b = n.room
      BY ONLY <3>1
    <3> QED BY <3>2 DEF d, b
  <2> QED BY <2>10, <2>11
<1>5. \A j \in 0 .. N : j \in S
  <2> HIDE DEF S, N
  <2>1. 0 \in Nat
    OBVIOUS
  <2> QED BY <1>2, <1>3, <1>4, <2>1, StepInduction
<1>6. N \in S
  BY <1>2, <1>5
<1> QED BY <1>1, <1>6

(* Pages above the leaves that are merged have the room for all cells of   *)
(* both, and for one more, with the key between them.                      *)
LEMMA InternalMerges ==
  ASSUME NEW n, PageOK(n), ~n.leaf, NEW sib, PageOK(sib), ~sib.leaf, Used(n) + Used(sib) < Half,
         NEW f, NEW cells, Given(sib, f, cells), CellsFor(n.leaf, cells), Behind(n, cells)
  PROVE  InsertAll(n, cells).res = "ok"
<1> DEFINE S == Len(sib.keys)  w == S * InternalSpace
<1>1. Len(cells) = S + 1 /\ S \in Nat
  BY RecFields DEF Given, PageOK
<1>2. sib.room + w <= PageSpace
  <2>1. sib.room + SpaceOf(sib) <= PageSpace /\ sib \in PageRec /\ sib.keys \in Seq(Key) /\ sib.leaf = FALSE
    BY RecFields DEF PageOK, RoomFits
  <2>2. SpaceOf(sib) = w
    BY <2>1, SpaceOfIs, SpaceInternal
  <2> QED BY <2>1, <2>2
<1>3. /\ w \in Nat /\ Len(cells) * InternalSpace = w + InternalSpace
  BY <1>1, Numbers, Multiples
<1>4. Len(cells) * InternalSpace <= n.room
  <2> DEFINE a == n.room  b == sib.room  hf == Half
  <2>1. /\ a \in Nat /\ b \in Nat /\ hf \in Nat /\ PageSpace \in Nat /\ InternalSpace \in Nat /\ InternalSpace < hf
        /\ hf + hf <= PageSpace /\ (PageSpace - a) + (PageSpace - b) < hf /\ w \in Nat /\ b + w <= PageSpace
    BY <1>2, <1>3, RecFields, Numbers DEF PageOK, Used
  <2> HIDE DEF a, b, hf, w
  <2>2. w + InternalSpace <= a
    BY ONLY <2>1
  <2> QED BY <1>3, <2>2 DEF a, w
<1> QED BY <1>4, InternalTakesAll

-----------------------------------------------------------------------------
(* Rows that go into a leaf, or out of it.                                 *)

(* A key is among the rows just when it is in the leaf within whose bounds *)
(* it is.                                                                  *)
LEMMA LeafOfKey ==
  ASSUME NEW pgs, NEW rt, NEW h, NEW lo, NEW hi, Whole(pgs, rt, h, lo, hi),
         NEW id \in DOMAIN pgs, pgs[id].leaf, NEW k \in Key, Within(lo, hi, id, k)
  PROVE  k \in KeysIn(pgs[id]) <=> k \in RowsIn(pgs)
<1>0. Tree(pgs, rt, h, lo, hi, rt, rt)
  BY DEF Whole
<1>1. ASSUME NEW q \in DOMAIN pgs, pgs[q].leaf, k \in KeysIn(pgs[q]) PROVE q = id
  <2>1. PageFits(pgs[q], lo[q], hi[q]) /\ lo[q] \in Nat /\ hi[q] \in Nat /\ h[q] = 0
    BY <1>0, <1>1, Bounds
  <2>2. PICK i \in 1 .. Len(pgs[q].keys) : k = pgs[q].keys[i]
    BY <1>1 DEF KeysIn
  <2>3. lo[q] <= k /\ k < hi[q]
    BY <2>1, <2>2 DEF PageFits
  <2>4. h[id] = 0 /\ lo[id] \in Nat /\ hi[id] \in Nat
    BY <1>0, Bounds
  <2>5. q # id => hi[q] <= lo[id] \/ hi[id] <= lo[q]
    BY <1>0, <2>1, <2>4 DEF Tree, LevelsApart
  <2>6. lo[id] <= k /\ k < hi[id] /\ k \in Nat
    BY Numbers DEF Within
  <2> QED BY ONLY <2>1, <2>3, <2>4, <2>5, <2>6
<1> QED BY <1>1 DEF RowsIn

(* A row goes into a leaf that has the room.                               *)
LEMMA LeafInsert ==
  ASSUME NEW pgs, NEW rt, NEW h, NEW lo, NEW hi, Whole(pgs, rt, h, lo, hi), LastEmpty(pgs), PagesOK(pgs),
         NEW id \in DOMAIN pgs, pgs[id].leaf, NEW k \in Key, Within(lo, hi, id, k),
         NEW r, r = InsertCell(pgs[id], k, Null), r.res = "ok",
         NEW new, Changed(pgs, new, id, r.node)
  PROVE  /\ Whole(new, rt, h, lo, hi) /\ LastEmpty(new) /\ PagesOK(new)
         /\ RowsIn(new) = RowsIn(pgs) \cup {k} /\ k \notin RowsIn(pgs)
<1>0. Tree(pgs, rt, h, lo, hi, rt, rt)
  BY DEF Whole
<1> DEFINE n == pgs[id]  m == r.node  a == lo[id]  z == hi[id]
<1>1. /\ PageFits(n, a, z) /\ a \in Nat /\ z \in Nat /\ n.leaf /\ RoomFits(n) /\ a <= k /\ k < z
      /\ DOMAIN new = DOMAIN pgs /\ new[id] = m /\ \A p \in DOMAIN pgs : p # id => new[p] = pgs[p]
  BY <1>0, Bounds DEF PagesOK, PageOK, Within, Changed
<1>2. /\ PageFits(m, a, z) /\ RoomFits(m) /\ m.leaf /\ m.kids = n.kids /\ m.next = n.next
      /\ k \notin KeysIn(n) /\ KeysIn(m) = KeysIn(n) \cup {k}
      /\ Len(m.keys) = Len(n.keys) + 1
  <2>1. r = InsertCell(n, k, Null)
    OBVIOUS
  <2> HIDE DEF n, a, z
  <2> QED BY <1>1, <2>1, LeafTakes
<1> HIDE DEF m
<1>3. n \in PageRec /\ m \in PageRec /\ Len(n.keys) \in Nat /\ Len(m.keys) # 0
  <2>1. n \in PageRec /\ m \in PageRec
    BY <1>1, <1>2 DEF PageFits
  <2>2. Len(n.keys) \in Nat
    BY <2>1, RecFields
  <2> QED BY <1>2, <2>1, <2>2
<1>4. m.leaf = n.leaf
  BY <1>1, <1>2, <1>3 DEF PageRec
<1>5. Whole(new, rt, h, lo, hi)
  BY <1>0, <1>2, <1>4, SameShape DEF Whole, m
<1>6. LastEmpty(new)
  BY <1>1, <1>3 DEF LastEmpty
<1>7. PagesOK(new)
  <2>1. PageOK(m)
    BY <1>2, <1>3 DEF PageOK, PageFits
  <2> QED BY <2>1, <1>1 DEF PagesOK
<1>8. RowsIn(new) = RowsIn(pgs) \cup {k}
  BY <1>1, <1>2, RowsGain DEF m
<1>9. k \notin RowsIn(pgs)
  BY <1>2, LeafOfKey
<1> QED BY <1>5, <1>6, <1>7, <1>8, <1>9

(* A row is taken out of its leaf.                                         *)
LEMMA LeafDelete ==
  ASSUME NEW pgs, NEW rt, NEW h, NEW lo, NEW hi, Whole(pgs, rt, h, lo, hi), LastEmpty(pgs), PagesOK(pgs),
         NEW id \in DOMAIN pgs, pgs[id].leaf, NEW k, k \in KeysIn(pgs[id]),
         NEW m, m = DeleteCell(pgs[id], Below(pgs[id], k) + 1),
         NEW new, Changed(pgs, new, id, m)
  PROVE  /\ Whole(new, rt, h, lo, hi) /\ PagesOK(new) /\ m.next = pgs[id].next /\ m.kids = pgs[id].kids
         /\ (~Underflows(m) \/ m.next = Null) /\ Deletable # {} => LastEmpty(new)
         /\ RowsIn(new) = RowsIn(pgs) \ {k}
<1>0. Tree(pgs, rt, h, lo, hi, rt, rt)
  BY DEF Whole
<1> DEFINE n == pgs[id]  a == lo[id]  z == hi[id]
<1>1. /\ PageFits(n, a, z) /\ a \in Nat /\ z \in Nat /\ n.leaf /\ RoomFits(n)
      /\ DOMAIN new = DOMAIN pgs /\ new[id] = m /\ \A p \in DOMAIN pgs : p # id => new[p] = pgs[p]
  BY <1>0, Bounds DEF PagesOK, PageOK, Changed
<1>2. /\ PageFits(m, a, z) /\ RoomFits(m) /\ m.leaf /\ m.kids = n.kids /\ m.next = n.next
      /\ KeysIn(m) = KeysIn(n) \ {k}
  <2>1. k \in KeysIn(n) /\ m = DeleteCell(n, Below(n, k) + 1)
    OBVIOUS
  <2> HIDE DEF n, a, z
  <2> QED BY <1>1, <2>1, LeafLoses
<1>3. n \in PageRec /\ m \in PageRec
  BY <1>1, <1>2 DEF PageFits
<1>4. m.leaf = n.leaf
  BY <1>1, <1>2, <1>3 DEF PageRec
<1>5. Whole(new, rt, h, lo, hi)
  BY <1>0, <1>2, <1>4, SameShape DEF Whole
<1>6. ASSUME ~Underflows(m) PROVE Len(m.keys) # 0
  <2> SUFFICES ASSUME Len(m.keys) = 0 PROVE FALSE
    OBVIOUS
  <2>1. m.keys \in Seq(Key) /\ m.leaf \in BOOLEAN
    BY <1>3, RecFields
  <2>2. SpaceOf(m) = 0
    BY <2>1, <1>3, SpaceOfIs, SpaceNone
  <2>3. m.room = PageSpace
    BY <2>2, <1>2, <1>3, RecFields DEF RoomFits
  <2>4. ~(PageSpace - PageSpace < Half)
    BY <2>3, <1>6 DEF Underflows, Used
  <2> QED BY <2>4, Numbers
<1>7. ASSUME ~Underflows(m) \/ m.next = Null, Deletable # {} PROVE LastEmpty(new)
  BY <1>1, <1>6, <1>7 DEF LastEmpty
<1>8. PagesOK(new)
  <2>1. PageOK(m)
    BY <1>2, <1>3 DEF PageOK, PageFits
  <2> QED BY <2>1, <1>1 DEF PagesOK
<1>9. RowsIn(new) = RowsIn(pgs) \ {k}
  BY <1>0, <1>1, <1>2, RowsLose
<1> QED BY <1>2, <1>5, <1>7, <1>8, <1>9

-----------------------------------------------------------------------------
(* Splits.                                                                 *)

(* Page y waits behind x for its place: f divides the two.                 *)
Cleft(pgs, rt, x, y, f) == \E h, lo, hi : Tree(pgs, rt, h, lo, hi, x, y) /\ hi[x] = f

(* A full leaf is split and takes the row; the new page has no place yet.  *)
LEMMA LeafSplit ==
  ASSUME NEW pgs, NEW rt, NEW h, NEW lo, NEW hi, Whole(pgs, rt, h, lo, hi), LastEmpty(pgs), PagesOK(pgs),
         num \in Nat, num \notin DOMAIN pgs,
         NEW id \in DOMAIN pgs, pgs[id].leaf, NEW k \in Key, Within(lo, hi, id, k),
         pgs[id].room < RowSpace[k], k \notin KeysIn(pgs[id]),
         NEW s, s = Split(pgs[id]), NEW r, r = InsertCell(SplitTarget(s, k), k, Null), r.res = "ok",
         NEW new, SplitPages(pgs, new, id, num, SplitLeft(s, k, r), SplitRight(s, k, r))
  PROVE  /\ s.first \in Key
         /\ Cleft(new, rt, id, num, s.first) /\ new[num].next = pgs[id].next
         /\ LastEmpty(new) /\ PagesOK(new)
         /\ RowsIn(new) = RowsIn(pgs) \cup {k} /\ k \notin RowsIn(pgs)
<1>0. Tree(pgs, rt, h, lo, hi, rt, rt)
  BY DEF Whole
<1> DEFINE n == pgs[id]  a == lo[id]  z == hi[id]  f == s.first
           l == SplitLeft(s, k, r)  t == SplitRight(s, k, r)
<1>1. PageFits(n, a, z) /\ a \in Nat /\ z \in Nat /\ n.leaf /\ RoomFits(n) /\ a <= k /\ k < z /\ n \in PageRec
  BY <1>0, Bounds DEF PagesOK, PageOK, Within
<1>2. Len(n.keys) >= 2
  BY <1>1, FullLeaf
<1>3. LeafDivided(n, a, z, k, f, l, t)
  <2>1. n.room < RowSpace[k] /\ s = Split(n)
    OBVIOUS
  <2> HIDE DEF n, a, z
  <2> QED BY <1>1, <1>2, <2>1, LeafSplits
<1> HIDE DEF l, t
<1>4. /\ Halves(n, l, t, a, f, z, 0) /\ f \in Key /\ a < f /\ f < z
      /\ l.leaf /\ t.leaf /\ l.next = num /\ RoomFits(l) /\ RoomFits(t)
      /\ Len(l.keys) >= 1 /\ Len(t.keys) >= 1
      /\ KeysIn(l) \cup KeysIn(t) = KeysIn(n) \cup {k}
  BY <1>3 DEF LeafDivided
<1>5. SplitPages(pgs, new, id, num, l, t)
  BY DEF l, t
<1>6. /\ DOMAIN new = DOMAIN pgs \cup {num} /\ new[id] = l /\ new[num] = t
      /\ \A p \in DOMAIN pgs : p # id => new[p] = pgs[p]
  BY <1>5 DEF SplitPages
<1> DEFINE h2  == [p \in DOMAIN new |-> IF p = num THEN h[id] ELSE h[p]]
           lo2 == [p \in DOMAIN new |-> IF p = num THEN f ELSE lo[p]]
           hi2 == [p \in DOMAIN new |-> IF p = num THEN hi[id] ELSE IF p = id THEN f ELSE hi[p]]
<1>7. SplitBounds(pgs, h, lo, hi, h2, lo2, hi2, id, num, f) /\ hi2[id] = f
  BY <1>6 DEF SplitBounds
<1> HIDE DEF h2, lo2, hi2
<1>8. Tree(new, rt, h2, lo2, hi2, id, num)
  <2>1. /\ Whole(pgs, rt, h, lo, hi) /\ id \in DOMAIN pgs /\ num \in Nat /\ num \notin DOMAIN pgs
        /\ f \in Nat /\ lo[id] < f /\ f < hi[id]
        /\ Halves(pgs[id], l, t, lo[id], f, hi[id], 0) /\ l.next = num
        /\ SplitPages(pgs, new, id, num, l, t)
    BY <1>4, <1>5, Numbers
  <2> HIDE DEF f
  <2> QED BY ONLY <1>7, <2>1, SplitTree
<1>9. PagesOK(new)
  <2>1. PageFits(l, a, f) /\ PageFits(t, f, z)
    BY <1>4 DEF Halves
  <2>2. PageOK(l) /\ PageOK(t)
    BY <1>4, <2>1 DEF PageOK, PageFits
  <2> QED BY <2>2, <1>6 DEF PagesOK
<1>10. LastEmpty(new)
  <2>1. Len(l.keys) # 0 /\ Len(t.keys) # 0
    BY <1>4
  <2> QED BY <2>1, <1>6 DEF LastEmpty
<1>11. RowsIn(new) = RowsIn(pgs) \cup {k}
  BY <1>4, <1>5, <1>1, RowsSplit
<1>12. k \notin RowsIn(pgs)
  BY LeafOfKey
<1>13. Cleft(new, rt, id, num, f)
  BY <1>7, <1>8 DEF Cleft
<1>14. new[num].next = n.next
  BY <1>4, <1>6 DEF Halves
<1> QED BY <1>14, <1>4, <1>9, <1>10, <1>11, <1>12, <1>13

-----------------------------------------------------------------------------
(* The key that goes up with the page without a place lies within the      *)
(* bounds of the place its left half has.                                  *)
LEMMA KeyGoesUp ==
  ASSUME NEW pgs, NEW rt, NEW h, NEW lo, NEW hi, NEW x, NEW y, Tree(pgs, rt, h, lo, hi, x, y), x # y,
         NEW q \in DOMAIN pgs, NEW i \in 1 .. Len(pgs[q].kids), pgs[q].kids[i] = x,
         NEW k, k = hi[x], NEW n, n = pgs[q]
  PROVE  /\ PageFits(n, lo[q], hi[q]) /\ lo[q] \in Nat /\ hi[q] \in Nat /\ ~n.leaf /\ n \in PageRec
         /\ k \in Key /\ Low(n, lo[q], i) < k /\ k < High(n, hi[q], i) /\ y \in Nat
<1>1. PageFits(n, lo[q], hi[q]) /\ lo[q] \in Nat /\ hi[q] \in Nat
  BY Bounds
<1>2. ~n.leaf /\ n \in PageRec
  BY <1>1 DEF PageFits
<1>3. KidFits(pgs, h, lo, hi, x, y, q, i)
  BY KidOf
<1>4. lo[x] = Low(n, lo[q], i) /\ hi[y] = High(n, hi[q], i)
  BY <1>3 DEF KidFits, EndOf
<1>5. x \in DOMAIN pgs /\ y \in DOMAIN pgs /\ lo[y] = hi[x]
  BY DEF Tree, PairFits
<1>6. /\ lo[x] < hi[x] /\ hi[x] = lo[y] /\ lo[y] < hi[y] /\ hi[y] <= MaxKey + 1
      /\ lo[x] \in Nat /\ hi[x] \in Nat /\ hi[y] \in Nat /\ y \in Nat
  BY <1>5, Bounds
<1>7. k \in Key
  <2>1. k \in Nat /\ k < hi[y] /\ hi[y] <= MaxKey + 1 /\ hi[y] \in Nat /\ MaxKey \in Nat
    BY <1>6, Numbers
  <2>2. k <= MaxKey
    BY ONLY <2>1
  <2> QED BY <2>1, <2>2, Numbers
<1> QED BY <1>1, <1>2, <1>4, <1>6, <1>7

(* An internal page takes the key and the page.                            *)
LEMMA NodeInsert ==
  ASSUME NEW pgs, NEW rt, NEW h, NEW lo, NEW hi, NEW x, NEW y, Tree(pgs, rt, h, lo, hi, x, y), x # y,
         LastEmpty(pgs), PagesOK(pgs),
         NEW q \in DOMAIN pgs, NEW i \in 1 .. Len(pgs[q].kids), pgs[q].kids[i] = x,
         NEW k, k = hi[x], NEW r, r = InsertCell(pgs[q], k, y), r.res = "ok",
         NEW new, Changed(pgs, new, q, r.node)
  PROVE  Whole(new, rt, h, lo, hi) /\ LastEmpty(new) /\ PagesOK(new) /\ RowsIn(new) = RowsIn(pgs)
<1> DEFINE n == pgs[q]  m == r.node  a == lo[q]  z == hi[q]
<1>1. /\ PageFits(n, a, z) /\ a \in Nat /\ z \in Nat /\ ~n.leaf /\ n \in PageRec
      /\ k \in Key /\ Low(n, a, i) < k /\ k < High(n, z, i) /\ y \in Nat
  BY KeyGoesUp
<1>2. RoomFits(n)
  BY DEF PagesOK, PageOK
<1>3. Adopts(n, m, i, k, y) /\ PageFits(m, a, z) /\ RoomFits(m)
  <2>1. i \in 1 .. Len(n.kids) /\ r = InsertCell(n, k, y)
    OBVIOUS
  <2> HIDE DEF n, a, z
  <2> QED BY <1>1, <1>2, <2>1, NodeTakes
<1> HIDE DEF m
<1>4. DOMAIN new = DOMAIN pgs /\ new[q] = m /\ \A p \in DOMAIN pgs : p # q => new[p] = pgs[p]
  BY DEF Changed, m
<1>5. Whole(new, rt, h, lo, hi)
  <2>1. Changed(pgs, new, q, m) /\ Adopts(pgs[q], m, i, hi[x], y)
    BY <1>3 DEF m
  <2> QED BY <2>1, AdoptedTree
<1>6. ~m.leaf /\ PageOK(m)
  BY <1>3 DEF Adopts, PageOK, PageFits
<1>7. PagesOK(new)
  BY <1>4, <1>6 DEF PagesOK
<1>8. LastEmpty(new)
  BY <1>4, <1>6 DEF LastEmpty
<1>9. SameLeaves(pgs, new)
  BY <1>1, <1>4, <1>6 DEF SameLeaves
<1>10. RowsIn(new) = RowsIn(pgs)
  BY <1>9, RowsSame
<1> QED BY <1>5, <1>7, <1>8, <1>10

(* It never has the key already.                                           *)
LEMMA NodeHasNot ==
  ASSUME NEW pgs, NEW rt, NEW h, NEW lo, NEW hi, NEW x, NEW y, Tree(pgs, rt, h, lo, hi, x, y), x # y,
         NEW q \in DOMAIN pgs, NEW i \in 1 .. Len(pgs[q].kids), pgs[q].kids[i] = x,
         NEW k, k = hi[x]
  PROVE  InsertCell(pgs[q], k, y).res # "exists"
<1> DEFINE n == pgs[q]  a == lo[q]  z == hi[q]
<1>1. /\ PageFits(n, a, z) /\ a \in Nat /\ z \in Nat /\ ~n.leaf /\ n \in PageRec
      /\ k \in Key /\ Low(n, a, i) < k /\ k < High(n, z, i) /\ y \in Nat
  BY KeyGoesUp
<1>2. k \notin KeysIn(n)
  <2>1. i \in 1 .. Len(n.kids)
    OBVIOUS
  <2> HIDE DEF n, a, z
  <2> QED BY <1>1, <2>1, PlaceOfKey
<1>3. InsertCell(n, k, y).res = "exists" => k \in KeysIn(n)
  <2> HIDE DEF n
  <2> QED BY <1>1, InsertRefused
<1> QED BY <1>2, <1>3

(* A split of page q, whose child i is x, puts r in the place of the page  *)
(* it splits off, once that has the cell of the key k that ends x and of   *)
(* child y.                                                                *)
NodeCuts(pgs, new, hi, id, q, i, x, s, r, k, y) ==
  /\ q \in DOMAIN pgs /\ i \in 1 .. Len(pgs[q].kids) /\ pgs[q].kids[i] = x /\ k = hi[x]
  /\ Len(pgs[q].keys) >= 2 /\ pgs[q].keys[KeptBySplit(pgs[q])] < k
  /\ r = InsertCell(NodeTarget(s, k, y), NodeKey(s, k), NodeChild(s, k, y)) /\ r.res = "ok"
  /\ SplitPages(pgs, new, q, id, s.left, r.node)

(* A full internal page is split and takes the key and the page: the page  *)
(* that is left over is now the new one of its own level.                  *)
LEMMA NodeSplit ==
  ASSUME NEW pgs, NEW rt, NEW h, NEW lo, NEW hi, NEW x, NEW y, Tree(pgs, rt, h, lo, hi, x, y), x # y,
         LastEmpty(pgs), PagesOK(pgs), num \in Nat, num \notin DOMAIN pgs,
         NEW q, NEW i, NEW k, NEW s, s = Split(pgs[q]), NEW r, NEW new,
         NodeCuts(pgs, new, hi, num, q, i, x, s, r, k, y)
  PROVE  /\ Cleft(new, rt, q, num, NodeUp(s, k)) /\ new[num].next = pgs[q].next
         /\ LastEmpty(new) /\ PagesOK(new) /\ RowsIn(new) = RowsIn(pgs)
<1> DEFINE n == pgs[q]  a == lo[q]  z == hi[q]  l == s.left  t == r.node  f == NodeUp(s, k)
           e == KeptBySplit(n)  m == Wide(n, i, k, y)
           mid == [p \in DOMAIN pgs |-> IF p = q THEN m ELSE pgs[p]]
<1>0. /\ q \in DOMAIN pgs /\ i \in 1 .. Len(pgs[q].kids) /\ pgs[q].kids[i] = x /\ k = hi[x]
      /\ Len(n.keys) >= 2 /\ n.keys[KeptBySplit(n)] < k /\ r.res = "ok"
      /\ r = InsertCell(NodeTarget(s, k, y), NodeKey(s, k), NodeChild(s, k, y))
      /\ SplitPages(pgs, new, q, num, l, t)
  BY DEF NodeCuts
<1>1. /\ PageFits(n, a, z) /\ a \in Nat /\ z \in Nat /\ ~n.leaf /\ n \in PageRec
      /\ k \in Key /\ Low(n, a, i) < k /\ k < High(n, z, i) /\ y \in Nat
  BY <1>0, KeyGoesUp
<1>2. RoomFits(n)
  BY <1>0 DEF PagesOK, PageOK
<1>3. NodeDivided(n, i, a, z, k, y, f, l, t, e)
  <2>1. i \in 1 .. Len(n.kids) /\ s = Split(n)
    BY <1>0
  <2> HIDE DEF n, a, z
  <2> QED BY <1>0, <1>1, <1>2, <2>1, NodeSplits DEF e
<1>4. /\ Halves(m, l, t, a, f, z, e + 1) /\ f \in Key /\ f \in Nat /\ a < f /\ f < z
      /\ ~l.leaf /\ ~t.leaf /\ l.next = num /\ RoomFits(l) /\ RoomFits(t)
  BY <1>3, Numbers DEF NodeDivided
<1>5. Adopts(n, m, i, k, y)
  <2>1. i \in 1 .. Len(n.kids)
    BY <1>0
  <2> HIDE DEF n, a, z
  <2> QED BY <1>1, <2>1, WideAdopts
<1> HIDE DEF l, t, f, e, m
<1>6. Changed(pgs, mid, q, m)
  BY <1>0 DEF Changed
<1> HIDE DEF mid
<1>7. Whole(mid, rt, h, lo, hi)
  BY <1>0, <1>5, <1>6, AdoptedTree
<1>8. DOMAIN mid = DOMAIN pgs /\ mid[q] = m /\ \A p \in DOMAIN pgs : p # q => mid[p] = pgs[p]
  BY <1>6 DEF Changed
<1>9. /\ DOMAIN new = DOMAIN pgs \cup {num} /\ new[q] = l /\ new[num] = t
      /\ \A p \in DOMAIN pgs : p # q => new[p] = pgs[p]
  BY <1>0 DEF SplitPages
<1>10. SplitPages(mid, new, q, num, l, t)
  BY <1>8, <1>9 DEF SplitPages
<1> DEFINE h2  == [p \in DOMAIN new |-> IF p = num THEN h[q] ELSE h[p]]
           lo2 == [p \in DOMAIN new |-> IF p = num THEN f ELSE lo[p]]
           hi2 == [p \in DOMAIN new |-> IF p = num THEN hi[q] ELSE IF p = q THEN f ELSE hi[p]]
<1>11. SplitBounds(mid, h, lo, hi, h2, lo2, hi2, q, num, f) /\ hi2[q] = f
  BY <1>0, <1>8, <1>9 DEF SplitBounds
<1> HIDE DEF h2, lo2, hi2
<1>12. Tree(new, rt, h2, lo2, hi2, q, num)
  <2> DEFINE w == e + 1
  <2>1. /\ Whole(mid, rt, h, lo, hi) /\ q \in DOMAIN mid /\ num \in Nat /\ num \notin DOMAIN mid
        /\ f \in Nat /\ lo[q] < f /\ f < hi[q]
        /\ Halves(mid[q], l, t, lo[q], f, hi[q], w) /\ l.next = num
        /\ SplitPages(mid, new, q, num, l, t)
    BY <1>0, <1>4, <1>7, <1>8, <1>10
  <2> HIDE DEF w
  <2> QED BY ONLY <1>11, <2>1, SplitTree
<1>13. PagesOK(new)
  <2>1. PageFits(l, a, f) /\ PageFits(t, f, z)
    BY <1>4 DEF Halves
  <2>2. PageOK(l) /\ PageOK(t)
    BY <1>4, <2>1 DEF PageOK, PageFits
  <2> QED BY <2>2, <1>9 DEF PagesOK
<1>14. LastEmpty(new)
  BY <1>4, <1>9 DEF LastEmpty
<1>15. RowsIn(new) = RowsIn(pgs)
  <2>1. SameLeaves(pgs, new)
    BY <1>1, <1>4, <1>9 DEF SameLeaves
  <2> QED BY <2>1, RowsSame
<1>16. Cleft(new, rt, q, num, f)
  BY <1>11, <1>12 DEF Cleft
<1>17. new[num].next = pgs[q].next
  BY <1>4, <1>9 DEF Halves, m, Wide
<1> QED BY <1>13, <1>14, <1>15, <1>16, <1>17 DEF f

(* A new root above pages x and y, divided at key k.                       *)
NewRoot(pgs, new, id, k, x, y) == new = Put(pgs, id, Node(FALSE, <<k>>, <<x, y>>, Null))

(* The root was split: a new root has the two halves.                      *)
LEMMA RootGrows ==
  ASSUME NEW pgs, NEW rt, NEW h, NEW lo, NEW hi, NEW y, Tree(pgs, rt, h, lo, hi, rt, y), rt # y,
         LastEmpty(pgs), PagesOK(pgs), NEW z \in Nat, z \notin DOMAIN pgs,
         NEW k, k = hi[rt], NEW new, NewRoot(pgs, new, z, k, rt, y)
  PROVE  /\ \E h2, lo2, hi2 : Whole(new, z, h2, lo2, hi2)
         /\ LastEmpty(new) /\ PagesOK(new) /\ RowsIn(new) = RowsIn(pgs)
<1> DEFINE n == Node(FALSE, <<k>>, <<rt, y>>, Null)
<1>0. new = Put(pgs, z, n)
  BY DEF NewRoot
<1>1. /\ rt \in DOMAIN pgs /\ y \in DOMAIN pgs /\ lo[y] = hi[rt]
  BY DEF Tree, PairFits
<1>2. rt \in Nat /\ y \in Nat /\ k \in Nat /\ hi[y] \in Nat /\ k < hi[y] /\ hi[y] <= MaxKey + 1
  BY <1>1, Bounds
<1>3. k \in Key
  <2>1. MaxKey \in Nat
    BY Numbers
  <2>2. k <= MaxKey
    BY ONLY <1>2, <2>1
  <2> QED BY <1>2, <2>2, Numbers
<1>4. n \in PageRec /\ n.leaf = FALSE /\ n.keys = <<k>> /\ n.kids = <<rt, y>> /\ n.next = Null /\ RoomFits(n)
  <2> DEFINE g == <<k>>  u == <<rt, y>>  b == FALSE  v == SpaceIn(b, g)
  <2>1. g \in Seq(Key) /\ u \in Seq(Nat) /\ Len(g) = 1
    BY <1>2, <1>3
  <2>2. Null \in Links 
    BY DEF Links
  <2>3. n = Node(b, g, u, Null)
    OBVIOUS
  <2> HIDE DEF n
  <2>4. v <= PageSpace /\ b \in BOOLEAN
    <3>1. v = InternalSpace
      <4>1. SpaceIn(b, g) = OneSpace(b, g[1])
        <5>1. b \in BOOLEAN
          OBVIOUS
        <5> HIDE DEF b, g
        <5> QED BY <5>1, <2>1, SpaceOne
      <4> HIDE DEF g
      <4> QED BY <2>1, <4>1 DEF OneSpace
    <3>2. /\ PageSpace \in Nat /\ Half \in Nat /\ InternalSpace \in Nat /\ InternalSpace < Half
          /\ Half + Half <= PageSpace
      BY Numbers
    <3> HIDE DEF v
    <3>3. v <= PageSpace
      BY ONLY <3>1, <3>2
    <3> QED BY <3>3
  <2>5. n \in PageRec /\ n.leaf = b /\ n.keys = g /\ n.kids = u /\ n.next = Null /\ RoomFits(n)
    <3>1. SpaceIn(b, g) <= PageSpace
      BY <2>4
    <3> HIDE DEF b, g, u, v
    <3> QED BY <2>1, <2>2, <2>3, <2>4, <3>1, NewPage
  <2> QED BY <2>5 
<1> HIDE DEF n
<1>5. DOMAIN new = DOMAIN pgs \cup {z} /\ new[z] = n /\ \A p \in DOMAIN pgs : new[p] = pgs[p]
  BY <1>0 DEF Put
<1> DEFINE h2  == [p \in DOMAIN new |-> IF p = z THEN h[rt] + 1 ELSE h[p]]
           lo2 == [p \in DOMAIN new |-> IF p = z THEN 0 ELSE lo[p]]
           hi2 == [p \in DOMAIN new |-> IF p = z THEN MaxKey + 1 ELSE hi[p]]
<1>6. /\ \A p \in DOMAIN pgs : h2[p] = h[p] /\ lo2[p] = lo[p] /\ hi2[p] = hi[p]
      /\ h2[z] = h[rt] + 1 /\ lo2[z] = 0 /\ hi2[z] = MaxKey + 1
  BY <1>5
<1> HIDE DEF h2, lo2, hi2
<1>7. Grown(pgs, new, rt, h, lo, hi, y, z, n, h2, lo2, hi2)
  BY <1>4, <1>5, <1>6 DEF Grown
<1>8. Whole(new, z, h2, lo2, hi2)
  BY <1>7, GrownTree
<1>9. PagesOK(new)
  <2>1. PageOK(n)
    BY <1>4 DEF PageOK
  <2> QED BY <2>1, <1>5 DEF PagesOK
<1>10. LastEmpty(new)
  BY <1>4, <1>5 DEF LastEmpty
<1>11. RowsIn(new) = RowsIn(pgs)
  <2>1. SameLeaves(pgs, new)
    BY <1>4, <1>5 DEF SameLeaves
  <2> QED BY <2>1, RowsSame
<1> QED BY <1>8, <1>9, <1>10, <1>11

(* The first row makes the root.                                           *)
LEMMA FirstRow ==
  ASSUME NEW k \in Key, NEW pgs, DOMAIN pgs = {},
         NEW new, new = Put(pgs, 0, Node(TRUE, <<k>>, << >>, Null))
  PROVE  /\ \E h, lo, hi : Whole(new, 0, h, lo, hi)
         /\ LastEmpty(new) /\ PagesOK(new) /\ RowsIn(new) = {k} /\ DOMAIN new = {0}
<1> DEFINE n == Node(TRUE, <<k>>, << >>, Null)
<1>1. n \in PageRec /\ n.leaf = TRUE /\ n.keys = <<k>> /\ n.kids = << >> /\ n.next = Null /\ RoomFits(n)
  <2> DEFINE g == <<k>>  u == << >>  b == TRUE  v == SpaceIn(b, g)
  <2>1. g \in Seq(Key) /\ u \in Seq(Nat) /\ Len(g) = 1 /\ g[1] = k
    OBVIOUS
  <2>2. Null \in Links 
    BY DEF Links
  <2>3. n = Node(b, g, u, Null)
    OBVIOUS
  <2> HIDE DEF n
  <2>4. v <= PageSpace /\ b \in BOOLEAN
    <3>1. v = RowSpace[k]
      <4>1. SpaceIn(b, g) = OneSpace(b, g[1])
        <5>1. b \in BOOLEAN
          OBVIOUS
        <5> HIDE DEF b, g
        <5> QED BY <5>1, <2>1, SpaceOne
      <4> HIDE DEF g
      <4> QED BY <2>1, <4>1 DEF OneSpace
    <3>2. /\ PageSpace \in Nat /\ Half \in Nat /\ RowSpace[k] \in Nat /\ RowSpace[k] < Half
          /\ Half + Half <= PageSpace
      BY Numbers
    <3> HIDE DEF v
    <3>3. v <= PageSpace
      BY ONLY <3>1, <3>2
    <3> QED BY <3>3
  <2>5. n \in PageRec /\ n.leaf = b /\ n.keys = g /\ n.kids = u /\ n.next = Null /\ RoomFits(n)
    <3>1. SpaceIn(b, g) <= PageSpace
      BY <2>4
    <3> HIDE DEF b, g, u, v
    <3> QED BY <2>1, <2>2, <2>3, <2>4, <3>1, NewPage
  <2> QED BY <2>5 
<1> HIDE DEF n
<1>2. DOMAIN new = {0} /\ new[0] = n
  BY DEF Put, n
<1>3. Len(n.keys) = 1 /\ n.keys[1] = k
  BY <1>1
<1> DEFINE h == [p \in {0} |-> 0]  hi == [p \in {0} |-> MaxKey + 1]
<1>4. Whole(new, 0, h, h, hi)
  <2>1. KeysRise(n)
    BY <1>3 DEF KeysRise
  <2>2. n.leaf
    BY <1>1
  <2>3. h[0] = 0 /\ hi[0] = MaxKey + 1
    OBVIOUS
  <2> HIDE DEF h, hi
  <2> QED BY <1>1, <1>2, <2>1, <2>2, <2>3, FirstTree
<1>5. PagesOK(new)
  <2>1. PageOK(n)
    BY <1>1 DEF PageOK
  <2> QED BY <2>1, <1>2 DEF PagesOK
<1>6. LastEmpty(new)
  <2>1. ASSUME NEW p \in DOMAIN new PROVE Len(new[p].keys) # 0
    <3>1. new[p] = n
      BY <1>2
    <3>2. Len(n.keys) # 0
      BY <1>3
    <3> QED BY <3>1, <3>2
  <2> QED BY <2>1 DEF LastEmpty
<1>7. RowsIn(new) = {k}
  <2>1. KeysIn(n) = {k}
    BY <1>3 DEF KeysIn
  <2> QED BY <1>1, <1>2, <2>1 DEF RowsIn
<1> QED BY <1>2, <1>4, <1>5, <1>6, <1>7

-----------------------------------------------------------------------------
(* The invariant.                                                          *)

(* What the theorems ask of a client's calls: they leave out those that     *)
(* meet known defects, a duplicate of a row in a full leaf, and a key that *)
(* a split internal page takes for the leftmost one of its right half.     *)
Untroubled ==
  /\ pc = "split_leaf" => arg.key \notin KeySet(pages[Last(path).page])
  /\ pc = "split_internal" =>
       LET n == pages[Last(path).page] IN \A i \in 1 .. KeptBySplit(n) : n.keys[i] < arg.key

(* A page of the file is registered, taken or free.                        *)
StoreInv ==
  /\ root \in Nat /\ num \in Nat
  /\ DOMAIN pages \cup taken \cup free = 0 .. num - 1
  /\ DOMAIN pages \cap taken = {} /\ DOMAIN pages \cap free = {} /\ taken \cap free = {}
  /\ pages = [id \in DOMAIN pages |-> pages[id]] /\ PagesOK(pages)

(* Where a call is, what it has answered, and when callers hold pages.     *)
CallInv ==
  /\ pc \in {"idle", "answered", "panic", "return", "split_leaf", "to_parent", "split_internal",
             "rebalance_leaves", "delete_internal", "rebalance_internals"}
  /\ num = 0 => pc \in {"idle", "answered"}
  /\ reply \in {"none", "ok", "row_exists", "deleted", "not_found"}
  /\ reply = "none" <=> pc # "answered"
  /\ held = << >> \/ pc \in {"panic", "return", "delete_internal", "rebalance_internals"}

(* An insert has come to a leaf that is full.                              *)
AtLeaf(lo, hi) ==
  LET id == Last(path).page
  IN  /\ Way(pages, root, path) /\ pages[id].leaf
      /\ arg.key \in Key /\ Within(lo, hi, id, arg.key) /\ pages[id].room < RowSpace[arg.key]

(* Page arg.child waits for its place, behind page x.                      *)
Waits(h, lo, hi, x) ==
  /\ Tree(pages, root, h, lo, hi, x, arg.child) /\ x # arg.child /\ arg.key = hi[x]
  /\ Way(pages, root, path)

(* The same while the parent that has no room for it is split.             *)
WaitsBelow(h, lo, hi) ==
  LET e == Last(path)
  IN  /\ e.idx \in Nat /\ e.idx + 1 \in 1 .. Len(pages[e.page].kids)
      /\ Waits(h, lo, hi, pages[e.page].kids[e.idx + 1])

(* The tree during an insert.                                              *)
Shape(h, lo, hi) ==
  /\ pc \in {"idle", "answered", "split_leaf"} => Whole(pages, root, h, lo, hi)
  /\ pc = "split_leaf" => AtLeaf(lo, hi)
  /\ pc = "to_parent" => Waits(h, lo, hi, Last(path).page)
  /\ pc = "split_internal" => WaitsBelow(h, lo, hi)

Inserting == {"idle", "answered", "split_leaf", "to_parent", "split_internal"}

ShapeInv == pc \in Inserting /\ num > 0 => LastEmpty(pages) /\ \E h, lo, hi : Shape(h, lo, hi)

(* The row an insert adds, and what an operation has done when it answers. *)
Adds(k) ==
  \/ op.op = "insert" /\ op.key = k
  \/ op.op = "auto" /\ op.key = 0 /\ R!NextKey(k, before)

(* The row of an insert is in.                                             *)
HasAdded == \E k \in Key : Adds(k) /\ k \notin before /\ RowsIn(pages) = before \cup {k}
(* The row of a delete is out.                                             *)
HasDeleted(pgs) ==
  /\ op.op = "delete" /\ op.key \in Key /\ op.key \in before /\ RowsIn(pgs) = before \ {op.key}

(* An answer is true.                                                      *)
Answered ==
  \/ reply = "ok" /\ HasAdded
  \/ reply = "deleted" /\ HasDeleted(pages)
  \/ /\ reply = "row_exists" /\ op.op = "insert"
     /\ op.key \in Key /\ op.key \in before /\ RowsIn(pages) = before
  \/ /\ reply = "not_found" /\ op.op = "delete"
     /\ op.key \in Key /\ op.key \notin before /\ RowsIn(pages) = before

(* Rows while an insert goes on, and when an operation has answered.       *)
RowsInv ==
  /\ pc = "split_leaf" => Adds(arg.key) /\ RowsIn(pages) = before
  /\ pc \in {"to_parent", "split_internal"} => HasAdded
  /\ pc = "answered" => Answered

(* While a delete merges pages, the whole tree has the registered pages    *)
(* and those that the suspended callers give back.                         *)
Holds(full) ==
  /\ held \in Seq([id : Nat, node : PageRec])
  /\ DOMAIN full = DOMAIN pages \cup {held[i].id : i \in 1 .. Len(held)}
  /\ \A p \in DOMAIN pages : full[p] = pages[p]
  /\ \A i \in 1 .. Len(held) : held[i].id \in taken /\ full[held[i].id] = held[i].node
  /\ full = [p \in DOMAIN full |-> full[p]]

(* A delete has taken its row out of the leaves.                           *)
Deleting(full) == Holds(full) /\ PagesOK(full) /\ HasDeleted(full) /\ Deletable # {}

(* The pages that are given back are below the one that is looked at.      *)
Upward(tree, h) ==
  Way(tree, root, path) /\ \A i \in 1 .. Len(held) : h[held[i].id] < h[Last(path).page]

(* A page may be too empty, and is looked at.                              *)
ToRebalance(full, h, lo, hi) ==
  /\ Deleting(full) /\ Whole(full, root, h, lo, hi) /\ Upward(full, h)
  /\ LastEmptyBut(full, Last(path).page)

(* A page has lost its place, which its parent is yet to drop.             *)
ToPrune(full, tree, h, lo, hi) ==
  LET q == Last(path).page  c == Last(path).idx
  IN  /\ Deleting(full) /\ LastEmpty(full) /\ q \in DOMAIN full /\ ~full[q].leaf
      /\ c \in 1 .. Len(full[q].keys) /\ Changed(full, tree, q, DeleteCell(full[q], c))
      /\ tree = [p \in DOMAIN tree |-> tree[p]] /\ Whole(tree, root, h, lo, hi) /\ Upward(tree, h)

(* Every page has its place, and the callers are yet to give theirs back.  *)
ToReturn(full, h, lo, hi) == Deleting(full) /\ Whole(full, root, h, lo, hi) /\ LastEmpty(full)

(* The tree during a delete.                                               *)
DeleteInv ==
  /\ pc \in {"rebalance_leaves", "rebalance_internals"} =>
       \E full, h, lo, hi : ToRebalance(full, h, lo, hi)
  /\ pc = "delete_internal" => \E full, tree, h, lo, hi : ToPrune(full, tree, h, lo, hi)
  /\ pc = "return" => \E full, h, lo, hi : ToReturn(full, h, lo, hi)

(* The inductive invariant.                                                *)
IInv == StoreInv /\ CallInv /\ ShapeInv /\ RowsInv /\ DeleteInv

-----------------------------------------------------------------------------
(* Pages after an assignment.                                              *)
LEMMA ChangedPage ==
  ASSUME NEW pgs, NEW id \in DOMAIN pgs, NEW n, NEW new, new = [pgs EXCEPT ![id] = n]
  PROVE  Changed(pgs, new, id, n) /\ DOMAIN new = DOMAIN pgs /\ new = [x \in DOMAIN new |-> new[x]]
BY DEF Changed

(* Page numbers after a page is added.                                     *)
LEMMA NextDomain ==
  ASSUME NEW n \in Nat
  PROVE  (0 .. n - 1) \cup {n} = 0 .. (n + 1) - 1 /\ n \notin 0 .. n - 1
OBVIOUS

(* The rows a search finds are the rows of the leaves.                     *)
LEMMA RowsFound ==
  ASSUME StoreInv, ShapeInv, pc \in {"idle", "answered"}
  PROVE  TreeRows = RowsIn(pages)
<1>1. CASE num = 0
  <2>1. TreeRows = {}
    BY <1>1 DEF TreeRows, Found
  <2>2. DOMAIN pages = {}
    <3>1. DOMAIN pages \cup taken \cup free = 0 .. 0 - 1
      BY <1>1 DEF StoreInv
    <3>2. 0 .. 0 - 1 = {}
      OBVIOUS
    <3> QED BY <3>1, <3>2
  <2> QED BY <2>1, <2>2 DEF RowsIn
<1>2. CASE num # 0
  <2>0. num > 0
    BY <1>2 DEF StoreInv
  <2>1. PICK h, lo, hi : Shape(h, lo, hi)
    BY <2>0 DEF ShapeInv, Inserting
  <2>2. Whole(pages, root, h, lo, hi)
    BY <2>1 DEF Shape
  <2>3. ASSUME NEW k \in Key PROVE Found(k) <=> k \in RowsIn(pages)
    <3> DEFINE p == Descent(pages, root, ByKey(pages, k))
    <3>1. Last(Traverse(pages, k)) = p[Len(p)]
      BY DEF Traverse, ByKey, Last
    <3> HIDE DEF p
    <3>2. k \in KeySet(pages[p[Len(p)].page]) <=> k \in RowsIn(pages)
      BY <2>2, SearchFinds DEF p
    <3> QED BY <2>0, <3>1, <3>2 DEF Found
  <2>4. \A k \in RowsIn(pages) : k \in Key
    BY DEF RowsIn
  <2> QED BY <2>3, <2>4 DEF TreeRows
<1> QED BY <1>1, <1>2

(* A panic leaves the pages as they are.                                   *)
LEMMA PanicKeeps ==
  ASSUME IInv, num > 0, pc # "answered", NEW why, Panic(why)
  PROVE  IInv'
<1> USE DEF Panic, store
<1>1. StoreInv'
  BY DEF IInv, StoreInv
<1>2. CallInv'
  BY DEF IInv, CallInv
<1>3. ShapeInv'
  BY DEF ShapeInv, Inserting
<1>4. RowsInv'
  BY DEF RowsInv
<1>5. DeleteInv'
  BY DEF DeleteInv
<1> QED BY <1>1, <1>2, <1>3, <1>4, <1>5 DEF IInv

(* The pages have changed, and not which of them there are; or the last    *)
(* one is new.                                                             *)
LEMMA StoreKeeps ==
  ASSUME StoreInv, DOMAIN pages' = DOMAIN pages, num' = num /\ taken' = taken /\ free' = free,
         root' \in Nat, pages' = [x \in DOMAIN pages' |-> pages'[x]], PagesOK(pages')
  PROVE  StoreInv'
BY DEF StoreInv

(* A page with the next number.                                            *)
LEMMA StoreGrows ==
  ASSUME StoreInv, DOMAIN pages' = DOMAIN pages \cup {num}, num' = num + 1 /\ taken' = taken /\ free' = free,
         root' \in Nat, pages' = [x \in DOMAIN pages' |-> pages'[x]], PagesOK(pages')
  PROVE  StoreInv'
<1>1. num \in Nat /\ DOMAIN pages \cup taken \cup free = 0 .. num - 1
  BY DEF StoreInv
<1>2. (0 .. num - 1) \cup {num} = 0 .. (num + 1) - 1 /\ num \notin 0 .. num - 1
  BY <1>1, NextDomain
<1>3. DOMAIN pages' \cup taken \cup free = 0 .. num' - 1 /\ num \notin taken /\ num \notin free
  BY <1>1, <1>2
<1> QED BY <1>1, <1>3 DEF StoreInv

(* That number is new.                                                     *)
LEMMA NumIsNew ==
  ASSUME StoreInv
  PROVE  num \in Nat /\ num \notin DOMAIN pages /\ num \notin taken /\ num \notin free
<1>1. num \in Nat /\ DOMAIN pages \cup taken \cup free = 0 .. num - 1
  BY DEF StoreInv
<1> QED BY <1>1, NextDomain

-----------------------------------------------------------------------------
(* Inserts keep the invariant.                                             *)

(* An operation that answers leaves a tree that is whole.                  *)
LEMMA AnswerKeeps ==
  ASSUME IInv, held = << >>, NEW r, r \in {"ok", "row_exists", "deleted", "not_found"}, Answer(r),
         StoreInv', num' > 0,
         \E h, lo, hi : Whole(pages', root', h, lo, hi), LastEmpty(pages'),
         reply' = r => Answered'
  PROVE  IInv'
<1> USE DEF Answer
<1>1. CallInv'
  <2>1. pc' = "answered" /\ reply' = r /\ r # "none" /\ num' # 0 /\ held' = << >>
    OBVIOUS
  <2> QED BY <2>1 DEF CallInv
<1>2. ShapeInv'
  <2>1. PICK h, lo, hi : Whole(pages', root', h, lo, hi)
    OBVIOUS
  <2>2. Shape(h, lo, hi)'
    BY <2>1 DEF Shape
  <2> QED BY <2>2 DEF ShapeInv
<1>3. RowsInv'
  BY DEF RowsInv
<1>4. DeleteInv'
  BY DEF DeleteInv
<1> QED BY <1>1, <1>2, <1>3, <1>4 DEF IInv

(* Only inserts and answers: nothing is held.                              *)
LEMMA NothingHeld ==
  ASSUME IInv, pc \in Inserting \cup {"rebalance_leaves"}
  PROVE  held = << >>
BY DEF IInv, CallInv, Inserting

(* The first row of an empty file.                                         *)
LEMMA FirstInsert ==
  ASSUME IInv, pc = "idle", NEW k \in Key, InsertFirst(k), before' = TreeRows, Adds(k)'
  PROVE  IInv'
<1>1. num = 0 /\ DOMAIN pages = {} /\ taken = {} /\ free = {} /\ TreeRows = {} /\ held = << >>
  <2>1. num = 0 /\ TreeRows = {}
    BY DEF InsertFirst, TreeRows, Found
  <2>2. DOMAIN pages \cup taken \cup free = 0 .. 0 - 1
    BY <2>1 DEF IInv, StoreInv
  <2>3. 0 .. 0 - 1 = {}
    OBVIOUS
  <2> QED BY <2>1, <2>2, <2>3, NothingHeld DEF Inserting
<1>2. pages' = Put(pages, 0, Node(TRUE, <<k>>, << >>, Null)) /\ root' = 0 /\ num' = 1
  BY DEF InsertFirst
<1>3. /\ \E h, lo, hi : Whole(pages', 0, h, lo, hi)
      /\ LastEmpty(pages') /\ PagesOK(pages') /\ RowsIn(pages') = {k} /\ DOMAIN pages' = {0}
  BY <1>1, <1>2, FirstRow
<1>4. pages' = [x \in DOMAIN pages' |-> pages'[x]]
  <2> DEFINE n == Node(TRUE, <<k>>, << >>, Null)
  <2> HIDE DEF n
  <2>1. pages' = Put(pages, 0, n)
    BY <1>2 DEF n
  <2> QED BY <2>1 DEF Put
<1>5. taken' = {} /\ free' = {} /\ Answer("ok")
  BY <1>1 DEF InsertFirst
<1>6. HasAdded'
  BY <1>1, <1>3 DEF HasAdded
<1>7. reply' = "ok" => Answered'
  BY <1>6 DEF Answered
<1>8. {0} = 0 .. 1 - 1
  OBVIOUS
<1>9. num' > 0 /\ root' \in Nat /\ num' \in Nat /\ DOMAIN pages' = 0 .. num' - 1
  <2>1. root' = 0 /\ num' = 1 /\ DOMAIN pages' = {0}
    BY <1>2, <1>3
  <2> QED BY ONLY <2>1, <1>8
<1>10. \E h, lo, hi : Whole(pages', root', h, lo, hi)
  BY <1>2, <1>3
<1>11. StoreInv'
  BY <1>3, <1>4, <1>5, <1>9 DEF StoreInv
<1> QED BY <1>1, <1>3, <1>5, <1>7, <1>9, <1>10, <1>11, AnswerKeeps

(* The leaf that a row belongs to is full: the operation goes on.          *)
LEMMA FullLeafKeeps ==
  ASSUME IInv, pc = "idle", num > 0, NEW p, NEW k \in Key,
         Goto("split_leaf", p, k, Null), UNCHANGED store,
         NEW h, NEW lo, NEW hi, Whole(pages, root, h, lo, hi),
         Way(pages, root, p), pages[Last(p).page].leaf, Within(lo, hi, Last(p).page, k),
         pages[Last(p).page].room < RowSpace[k],
         before' = RowsIn(pages), Adds(k)'
  PROVE  IInv'
<1> USE DEF Goto, store
<1>1. StoreInv'
  BY DEF IInv, StoreInv
<1>2. CallInv'
  BY DEF IInv, CallInv
<1>3. ShapeInv'
  <2>1. AtLeaf(lo, hi)'
    BY DEF AtLeaf
  <2>2. Shape(h, lo, hi)'
    BY <2>1 DEF Shape
  <2>3. LastEmpty(pages)
    BY DEF IInv, ShapeInv, Inserting
  <2> QED BY <2>2, <2>3 DEF ShapeInv
<1>4. RowsInv'
  BY DEF RowsInv
<1>5. DeleteInv'
  BY DEF DeleteInv
<1> QED BY <1>1, <1>2, <1>3, <1>4, <1>5 DEF IInv

(* A row that goes into the leaf whose bounds its key is in.               *)
LEMMA LeafKeeps ==
  ASSUME IInv, pc = "idle", NEW p, NEW k \in Key, InsertInLeaf(p, k),
         NEW h, NEW lo, NEW hi, Whole(pages, root, h, lo, hi),
         Way(pages, root, p), pages[Last(p).page].leaf, Within(lo, hi, Last(p).page, k),
         before' = RowsIn(pages), Adds(k)', op'.op = "auto" => k \notin RowsIn(pages)
  PROVE  IInv'
<1> DEFINE id == Last(p).page  r == InsertCell(pages[id], k, Null)
<1>0. num > 0 /\ pc # "panic"
  BY DEF InsertInLeaf
<1>1. id \in DOMAIN pages /\ pages[id] \in PageRec
  <2>1. p \in Seq(Step) /\ Len(p) > 0 /\ id = p[Len(p)].page /\ \A i \in 1 .. Len(p) : p[i].page \in DOMAIN pages
    BY DEF Way, Last
  <2>2. Len(p) \in 1 .. Len(p)
    BY <2>1
  <2>3. id \in DOMAIN pages
    BY <2>1, <2>2
  <2> QED BY <2>3 DEF IInv, StoreInv, PagesOK, PageOK
<1>2. /\ r.res \in {"full", "exists", "ok"}
      /\ r.res = "full" => pages[id].room < RowSpace[k]
      /\ r.res = "exists" => k \in KeysIn(pages[id]) /\ r.node = pages[id]
  BY <1>1, InsertRefused
<1>3. /\ r.res = "full" => Goto("split_leaf", p, k, Null) /\ UNCHANGED store
      /\ r.res # "full" =>
           /\ Answer(IF r.res = "ok" THEN "ok" ELSE "row_exists")
           /\ pages' = [pages EXCEPT ![id] = r.node]
           /\ UNCHANGED <<root, num, taken, free>>
  BY DEF InsertInLeaf
<1>4. k \in KeysIn(pages[id]) <=> k \in RowsIn(pages)
  BY <1>1, LeafOfKey
<1>5. LastEmpty(pages) /\ PagesOK(pages) /\ StoreInv /\ held = << >>
      /\ root \in Nat /\ pages = [x \in DOMAIN pages |-> pages[x]]
  BY <1>0, NothingHeld DEF IInv, ShapeInv, StoreInv, Inserting
<1> HIDE DEF r
<1>6. CASE r.res = "full"
  BY <1>0, <1>2, <1>3, <1>6, FullLeafKeeps
<1>7. CASE r.res = "exists"
  <2>1. pages' = pages /\ UNCHANGED <<root, num, taken, free>> /\ Answer("row_exists")
    <3>1. r.node = pages[id] /\ r.res # "full" /\ r.res # "ok"
      BY <1>2, <1>7
    <3>2. pages' = [pages EXCEPT ![id] = pages[id]] /\ UNCHANGED <<root, num, taken, free>>
      BY <1>3, <3>1
    <3>3. pages' = pages
      BY <1>1, <1>5, <3>2
    <3> QED BY <1>3, <3>1, <3>2, <3>3
  <2>2. k \in RowsIn(pages)
    BY <1>2, <1>4, <1>7
  <2>3. op'.op = "insert" /\ op'.key = k
    BY <2>2 DEF Adds
  <2>4. reply' = "row_exists" => Answered'
    BY <2>1, <2>2, <2>3 DEF Answered
  <2>5. StoreInv'
    BY <1>5, <2>1, StoreKeeps
  <2> QED BY <1>0, <1>5, <2>1, <2>4, <2>5, AnswerKeeps
<1>8. CASE r.res = "ok"
  <2> DEFINE m == r.node
  <2>1. pages' = [pages EXCEPT ![id] = m] /\ UNCHANGED <<root, num, taken, free>> /\ Answer("ok")
    BY <1>3, <1>8
  <2>2. Changed(pages, pages', id, m) /\ DOMAIN pages' = DOMAIN pages /\ pages' = [x \in DOMAIN pages' |-> pages'[x]]
    BY <1>1, <2>1, ChangedPage
  <2>3. r = InsertCell(pages[id], k, Null)
    BY DEF r
  <2>4. /\ Whole(pages', root, h, lo, hi) /\ LastEmpty(pages') /\ PagesOK(pages')
        /\ RowsIn(pages') = RowsIn(pages) \cup {k} /\ k \notin RowsIn(pages)
    BY <1>1, <1>5, <1>8, <2>2, <2>3, LeafInsert
  <2>5. HasAdded'
    BY <2>4 DEF HasAdded
  <2>6. reply' = "ok" => Answered'
    BY <2>5 DEF Answered
  <2>7. StoreInv'
    BY <1>5, <2>1, <2>2, <2>4, StoreKeeps
  <2> QED BY <1>0, <1>5, <2>1, <2>4, <2>6, <2>7, AnswerKeeps
<1> QED BY <1>2, <1>6, <1>7, <1>8

(* insert_row() keeps the invariant.                                       *)
LEMMA InsertRowKeeps ==
  ASSUME IInv, NEW k \in Key, InsertRow(k)
  PROVE  IInv'
<1>1. pc = "idle" /\ op' = [op |-> "insert", key |-> k] /\ before' = TreeRows
  BY DEF InsertRow, Begin
<1>2. Adds(k)' /\ op'.op = "insert"
  BY <1>1 DEF Adds
<1>3. CASE InsertFirst(k)
  BY <1>1, <1>2, <1>3, FirstInsert
<1>4. CASE InsertInLeaf(Traverse(pages, k), k)
  <2>0. num > 0 /\ StoreInv /\ ShapeInv
    BY <1>4 DEF InsertInLeaf, IInv
  <2>1. PICK h, lo, hi : Shape(h, lo, hi)
    BY <1>1, <2>0 DEF ShapeInv, Inserting
  <2>2. Whole(pages, root, h, lo, hi)
    BY <1>1, <2>1 DEF Shape
  <2> DEFINE p == Traverse(pages, k)
  <2>3. p = Descent(pages, root, ByKey(pages, k))
    BY DEF Traverse, ByKey
  <2> HIDE DEF p
  <2>4. GoodWay(pages, ByKey(pages, k), root, p, h[root]) /\ \A i \in 1 .. Len(p) : Within(lo, hi, p[i].page, k)
    BY <2>2, <2>3, SearchWay
  <2>5. Way(pages, root, p) /\ pages[Last(p).page].leaf /\ Within(lo, hi, Last(p).page, k)
    BY <2>4 DEF GoodWay, Way, ByIndex, Last
  <2>6. TreeRows = RowsIn(pages)
    BY <1>1, <2>0, RowsFound
  <2>7. InsertInLeaf(p, k)
    BY <1>4 DEF p
  <2>8. before' = RowsIn(pages) /\ (op'.op = "auto" => k \notin RowsIn(pages))
    BY <1>1, <2>6
  <2> QED BY <1>1, <1>2, <2>2, <2>5, <2>7, <2>8, LeafKeeps
<1> QED BY <1>3, <1>4 DEF InsertRow

(* insert_row_auto() keeps the invariant: the key it makes belongs to the  *)
(* last leaf and is not there yet.                                         *)
LEMMA InsertRowAutoKeeps ==
  ASSUME IInv, InsertRowAuto
  PROVE  IInv'
<1>1. pc = "idle" /\ op' = [op |-> "auto", key |-> 0] /\ before' = TreeRows
  BY DEF InsertRowAuto, Begin
<1>2. CASE InsertFirst(0)
  <2>1. num = 0
    BY <1>2 DEF InsertFirst
  <2>2. TreeRows = {}
    BY <2>1 DEF TreeRows, Found
  <2>3. Adds(0)'
    BY <1>1, <2>2 DEF Adds, R!NextKey
  <2>4. 0 \in Key
    BY BTreeAssumption DEF Key
  <2> QED BY <1>1, <1>2, <2>3, <2>4, FirstInsert
<1>3. ASSUME num > 0, NEW p, p = Rightmost, NEW last, last = pages[Last(p).page],
             Cells(last) # 0, Last(last.keys) # MaxKey, InsertInLeaf(p, Last(last.keys) + 1)
      PROVE  IInv'
  <2>0. StoreInv /\ ShapeInv
    BY DEF IInv
  <2>1. PICK h, lo, hi : Shape(h, lo, hi)
    BY <1>1, <1>3, <2>0 DEF ShapeInv, Inserting
  <2>2. Whole(pages, root, h, lo, hi)
    BY <1>1, <2>1 DEF Shape
  <2> DEFINE b == Last(last.keys)  id == Last(p).page
  <2>3. p = Descent(pages, root, ToLast(pages))
    BY <1>3 DEF Rightmost, ToLast
  <2>4. GoodWay(pages, ToLast(pages), root, p, h[root]) /\ \A i \in 1 .. Len(p) : hi[p[i].page] = MaxKey + 1
    BY <2>2, <2>3, LastWay
  <2>5. Way(pages, root, p) /\ pages[id].leaf /\ hi[id] = MaxKey + 1 /\ id \in DOMAIN pages
    <3>1. /\ Way(pages, root, p) /\ p \in Seq(Step) /\ Len(p) > 0 /\ id = p[Len(p)].page
          /\ \A i \in 1 .. Len(p) : p[i].page \in DOMAIN pages
          /\ pages[p[Len(p)].page].leaf
      BY <2>4 DEF GoodWay, Way, ByIndex, Last
    <3>2. Len(p) \in 1 .. Len(p)
      BY <3>1
    <3> QED BY <2>4, <3>1, <3>2
  <2>6. Len(pages[id].keys) # 0 /\ b = Last(pages[id].keys)
    BY <1>3 DEF Cells
  <2>7. b \in Key /\ lo[id] <= b /\ b \in RowsIn(pages) /\ \A j \in RowsIn(pages) : j <= b
    <3> HIDE DEF b, id
    <3> QED BY <2>2, <2>5, <2>6, LastKey
  <2>8. TreeRows = RowsIn(pages)
    BY <1>1, <2>0, RowsFound
  <2>9. lo[id] \in Nat /\ b \in Nat /\ MaxKey \in Nat /\ b <= MaxKey /\ b # MaxKey
        /\ \A j \in RowsIn(pages) : j \in Nat
    <3>1. lo[id] \in Nat
      BY <2>2, <2>5, Bounds DEF Whole
    <3>2. \A j \in Key : j \in Nat
      BY DEF Key
    <3>3. \A j \in RowsIn(pages) : j \in Key
      BY DEF RowsIn
    <3>4. MaxKey \in Nat
      BY BTreeAssumption
    <3> QED BY <1>3, <2>7, <3>1, <3>2, <3>3, <3>4 DEF Key
  <2> DEFINE k == b + 1
  <2>10. k \in Key /\ lo[id] <= k /\ k < MaxKey + 1
    <3> HIDE DEF b, id
    <3> QED BY <2>7, <2>9 DEF Key
  <2>11. k - 1 \in RowsIn(pages) /\ \A j \in RowsIn(pages) : j < k
    <3>1. k - 1 = b
      BY <2>9
    <3> QED BY <2>7, <2>9, <3>1
  <2>12. k \notin RowsIn(pages)
    <3> SUFFICES ASSUME k \in RowsIn(pages) PROVE FALSE
      OBVIOUS
    <3> HIDE DEF k
    <3>1. k < k /\ k \in Nat
      BY <2>9, <2>11
    <3> QED BY <3>1
  <2>13. Within(lo, hi, id, k)
    BY <2>5, <2>10 DEF Within
  <2>14. InsertInLeaf(p, k)
    BY <1>3
  <2> HIDE DEF k, b
  <2>15. R!NextKey(k, RowsIn(pages))
    BY <2>7, <2>11 DEF R!NextKey
  <2>16. Adds(k)' /\ before' = RowsIn(pages)
    <3>1. before' = RowsIn(pages) /\ op'.op = "auto" /\ op'.key = 0
      BY <1>1, <2>8
    <3>2. R!NextKey(k, before')
      BY <2>15, <3>1
    <3> QED BY <3>1, <3>2 DEF Adds
  <2>17. op'.op = "auto" => k \notin RowsIn(pages)
    BY <2>12
  <2> QED BY <1>1, <2>2, <2>5, <2>10, <2>13, <2>14, <2>16, <2>17, LeafKeeps
<1>4. ASSUME num > 0, NEW why, Panic(why) PROVE IInv'
  BY <1>1, <1>4, PanicKeeps
<1> QED BY <1>2, <1>3, <1>4 DEF InsertRowAuto

(* The page of a split has its right half, which waits for its place.      *)
LEMMA SplitKeeps ==
  ASSUME IInv, num > 0, pc \in {"split_leaf", "split_internal"}, NEW id, id = Last(path).page, NEW l, NEW r, NEW f,
         PutSplit(id, l, r), Goto("to_parent", path, f, num),
         NEW h, NEW lo, NEW hi, NEW x, NEW y, Tree(pages, root, h, lo, hi, x, y), Way(pages, root, path),
         Cleft(pages', root, id, num, f),
         LastEmpty(pages'), PagesOK(pages'), HasAdded'
  PROVE  IInv'
<1>1. /\ pages' = Put([pages EXCEPT ![id] = l], num, r) /\ num' = num + 1
      /\ UNCHANGED <<root, taken, free>>
  BY DEF PutSplit
<1>2. /\ pc' = "to_parent" /\ path' = path /\ arg' = [key |-> f, child |-> num]
      /\ UNCHANGED <<held, reply, fault>>
  BY DEF Goto
<1>3. num \in Nat /\ num \notin DOMAIN pages /\ StoreInv /\ root \in Nat /\ held = << >>
  BY NumIsNew, NothingHeld DEF IInv, StoreInv, Inserting
<1>4. path \in Seq(Step) /\ Len(path) > 0 /\ id = path[Len(path)].page
      /\ \A i \in 1 .. Len(path) : path[i].page \in DOMAIN pages
  BY DEF Way, Last
<1>5. id \in DOMAIN pages
  <2>1. Len(path) \in 1 .. Len(path)
    BY <1>4
  <2> QED BY <1>4, <2>1
<1>6. SplitPages(pages, pages', id, num, l, r) /\ pages' = [p \in DOMAIN pages' |-> pages'[p]]
  <2>1. DOMAIN [pages EXCEPT ![id] = l] = DOMAIN pages
    OBVIOUS
  <2> QED BY <1>1, <1>3, <1>5, <2>1 DEF Put, SplitPages
<1>7. DOMAIN pages' = DOMAIN pages \cup {num} /\ num' # 0
  BY <1>1, <1>3, <1>6 DEF SplitPages
<1>8. StoreInv'
  BY <1>1, <1>3, <1>6, <1>7, StoreGrows
<1>9. CallInv'
  <2>1. reply' = "none" /\ pc' = "to_parent" /\ held' = << >>
    BY <1>2, <1>3 DEF IInv, CallInv
  <2> QED BY <1>7, <2>1 DEF CallInv
<1>10. Way(pages', root, path)
  <2>1. \A i \in 1 .. Len(path) - 1 : path[i].page # path[Len(path)].page
    BY WayOnce
  <2>2. DOMAIN pages \subseteq DOMAIN pages' /\ \A p \in DOMAIN pages : p # path[Len(path)].page => pages'[p] = pages[p]
    BY <1>4, <1>6 DEF SplitPages
  <2> QED BY <2>1, <2>2, WayKept
<1>11. ShapeInv'
  <2>1. PICK h2, lo2, hi2 : Tree(pages', root, h2, lo2, hi2, id, num) /\ hi2[id] = f
    BY DEF Cleft
  <2>2. Waits(h2, lo2, hi2, Last(path).page)'
    <3>1. arg'.child = num /\ arg'.key = f /\ root' = root /\ path' = path /\ id # num
      BY <1>1, <1>2, <1>3, <1>5
    <3> QED BY <1>10, <2>1, <3>1 DEF Waits
  <2>3. Shape(h2, lo2, hi2)'
    BY <1>2, <2>2 DEF Shape
  <2> QED BY <2>3 DEF ShapeInv
<1>12. RowsInv'
  BY <1>2 DEF RowsInv
<1>13. DeleteInv'
  BY <1>2 DEF DeleteInv
<1> QED BY <1>8, <1>9, <1>11, <1>12, <1>13 DEF IInv

(* The page that a split adds has the sibling of the page it splits.       *)
SameEnd == arg'.child = num /\ pages'[num].next = pages[Last(path).page].next

(* split_insert_leaf() keeps the invariant, and its new page is where the  *)
(* page it splits was in its level.                                        *)
LEMMA SplitInsertLeafKeeps ==
  ASSUME IInv, Untroubled, SplitInsertLeaf
  PROVE  IInv' /\ (pc' = "to_parent" => SameEnd)
<1> DEFINE id == Last(path).page  n == pages[id]  k == arg.key
           s == Split(n)  toLeft == k < s.first
           r == InsertCell(IF toLeft THEN s.left ELSE s.right, k, Null)
           l == IF toLeft THEN r.node ELSE s.left
           t == IF toLeft THEN s.right ELSE r.node
<1>1. /\ pc = "split_leaf" /\ UNCHANGED <<op, before, loaded>>
      /\ \/ k \in {s.first, Last(s.left.keys)}
         \/ r.res # "ok" /\ Panic(r.res)
         \/ r.res = "ok" /\ PutSplit(id, l, t) /\ Goto("to_parent", path, s.first, num)
  BY DEF SplitInsertLeaf, Inside
<1>2. num > 0 /\ StoreInv /\ ShapeInv /\ RowsInv
  BY <1>1 DEF IInv, CallInv, StoreInv
<1>3. PICK h, lo, hi : Shape(h, lo, hi)
  BY <1>1, <1>2 DEF ShapeInv, Inserting
<1>4. Whole(pages, root, h, lo, hi) /\ AtLeaf(lo, hi)
  BY <1>1, <1>3 DEF Shape
<1>5. /\ Way(pages, root, path) /\ n.leaf
      /\ k \in Key /\ Within(lo, hi, id, k) /\ n.room < RowSpace[k]
  BY <1>4 DEF AtLeaf
<1>6. id \in DOMAIN pages
  <2>1. path \in Seq(Step) /\ Len(path) > 0 /\ id = path[Len(path)].page
        /\ \A i \in 1 .. Len(path) : path[i].page \in DOMAIN pages
    BY <1>5 DEF Way, Last
  <2>2. Len(path) \in 1 .. Len(path)
    BY <2>1
  <2> QED BY <2>1, <2>2
<1>7. LastEmpty(pages) /\ PagesOK(pages) /\ num \in Nat /\ num \notin DOMAIN pages
  BY <1>1, <1>2, NumIsNew DEF ShapeInv, StoreInv, Inserting
<1>8. PageOK(n) /\ n \in PageRec /\ RoomFits(n)
  BY <1>6, <1>7 DEF PagesOK, PageOK
<1>9. k \notin KeysIn(n)
  BY <1>1, <1>8, KeySetIs DEF Untroubled
<1>10. k # s.first /\ k # Last(s.left.keys)
  <2> DEFINE a == lo[id]  z == hi[id]
  <2>1. PageFits(n, a, z) /\ a \in Nat /\ z \in Nat /\ a <= k /\ k < z
    BY <1>4, <1>5, <1>6, Bounds DEF Whole, Within
  <2>2. Len(n.keys) >= 2 /\ s = Split(n) /\ n.leaf /\ num \in Nat
    <3> HIDE DEF n
    <3>1. Len(n.keys) >= 2
      BY <1>5, <1>8, <2>1, FullLeaf
    <3> QED BY <1>5, <1>7, <3>1
  <2> HIDE DEF n, a, z, s
  <2>3. /\ s.first \in KeysIn(n) /\ Len(s.left.keys) >= 1
        /\ PageFits(s.left, a, s.first)
        /\ KeysIn(n) = KeysIn(s.left) \cup KeysIn(s.right)
    BY <1>8, <2>1, <2>2, LeafCut
  <2>4. s.left.keys \in Seq(Key)
    BY <2>3, RecFields DEF PageFits
  <2>5. Last(s.left.keys) \in KeysIn(s.left)
    <3>1. Len(s.left.keys) \in 1 .. Len(s.left.keys)
      BY <2>3, <2>4
    <3> QED BY <3>1 DEF KeysIn, Last
  <2> QED BY <1>9, <2>3, <2>5
<1>11. CASE r.res # "ok" /\ Panic(r.res)
  <2> HIDE DEF r
  <2>1. pc' = "panic"
    BY <1>11 DEF Panic
  <2> QED BY <1>1, <1>2, <1>11, <2>1, PanicKeeps
<1>12. CASE r.res = "ok" /\ PutSplit(id, l, t) /\ Goto("to_parent", path, s.first, num)
  <2>1. r = InsertCell(SplitTarget(s, k), k, Null)
    BY DEF SplitTarget
  <2>2. l = SplitLeft(s, k, r) /\ t = SplitRight(s, k, r)
    BY DEF SplitLeft, SplitRight
  <2>3. s = Split(pages[id])
    OBVIOUS
  <2> HIDE DEF id, k, s, r, l, t
  <2>4. pages' = Put([pages EXCEPT ![id] = l], num, t) /\ root' = root
    BY <1>12 DEF PutSplit
  <2>5. SplitPages(pages, pages', id, num, SplitLeft(s, k, r), SplitRight(s, k, r))
    <3>1. DOMAIN [pages EXCEPT ![id] = l] = DOMAIN pages
      OBVIOUS
    <3>2. SplitPages(pages, pages', id, num, l, t)
      BY <1>6, <1>7, <2>4, <3>1 DEF Put, SplitPages
    <3> QED BY <2>2, <3>2
  <2>6. /\ Cleft(pages', root, id, num, s.first)
        /\ LastEmpty(pages') /\ PagesOK(pages')
        /\ RowsIn(pages') = RowsIn(pages) \cup {k} /\ k \notin RowsIn(pages)
        /\ pages'[num].next = pages[id].next
    BY <1>4, <1>5, <1>6, <1>7, <1>9, <1>12, <2>1, <2>3, <2>5, LeafSplit DEF n
  <2>7. HasAdded'
    <3>1. Adds(k) /\ RowsIn(pages) = before
      BY <1>1, <1>2 DEF RowsInv, k
    <3>2. PICK j \in Key : j = k
      BY <1>5
    <3>3. Adds(j)' /\ before' = before
      BY <1>1, <3>1, <3>2 DEF Adds
    <3> QED BY <2>6, <3>1, <3>2, <3>3 DEF HasAdded
  <2>8. Tree(pages, root, h, lo, hi, root, root)
    BY <1>4 DEF Whole
  <2>10. id = Last(path).page /\ pc \in {"split_leaf", "split_internal"}
    BY <1>1 DEF id
  <2>11. IInv'
    BY <1>2, <1>5, <1>12, <2>6, <2>7, <2>8, <2>10, SplitKeeps
  <2>12. SameEnd
    BY <1>12, <2>6, <2>10 DEF SameEnd, Goto
  <2> QED BY <2>11, <2>12
<1> QED BY <1>1, <1>10, <1>11, <1>12

(* What an operation has done stays done while its methods return.         *)
LEMMA AddedStays ==
  ASSUME HasAdded, UNCHANGED <<op, before>>, RowsIn(pages') = RowsIn(pages)
  PROVE  HasAdded'
<1>1. PICK k \in Key : Adds(k) /\ k \notin before /\ RowsIn(pages) = before \cup {k}
  BY DEF HasAdded
<1>2. Adds(k)'
  BY <1>1 DEF Adds
<1> QED BY <1>1, <1>2 DEF HasAdded

(* The old root was split: it and its right half get a new root.           *)
LEMMA NewRootKeeps ==
  ASSUME IInv, pc = "to_parent", Front(path) = << >>, InsertToParent
  PROVE  IInv'
<1> DEFINE y == arg.child  k == arg.key
<1>1. StoreInv /\ ShapeInv /\ RowsInv /\ num > 0 /\ held = << >>
  BY NothingHeld DEF IInv, CallInv, StoreInv, Inserting
<1>2. PICK h, lo, hi : Shape(h, lo, hi)
  BY <1>1 DEF ShapeInv, Inserting
<1>3. Waits(h, lo, hi, Last(path).page)
  BY <1>2 DEF Shape
<1>4. Last(path).page = root
  BY <1>3, WayOfOne DEF Waits
<1>5. Tree(pages, root, h, lo, hi, root, y) /\ root # y /\ k = hi[root]
  BY <1>3, <1>4 DEF Waits
<1>6. LastEmpty(pages) /\ PagesOK(pages) /\ num \in Nat /\ num \notin DOMAIN pages
      /\ num \notin taken /\ num \notin free
      /\ DOMAIN pages \cup taken \cup free = 0 .. num - 1
      /\ DOMAIN pages \cap taken = {} /\ DOMAIN pages \cap free = {} /\ taken \cap free = {}
  BY <1>1, NumIsNew DEF ShapeInv, StoreInv, Inserting
<1>7. PICK z :
        /\ z \in IF free = {} THEN {num} ELSE free
        /\ pages' = Put(pages, z, Node(FALSE, <<k>>, <<root, y>>, Null))
        /\ root' = z
        /\ num' = IF free = {} THEN num + 1 ELSE num
        /\ free' = free \ {z} /\ taken' = taken
        /\ Answer("ok") /\ UNCHANGED <<op, before>>
  BY <1>4 DEF InsertToParent, Inside
<1>8. z \in Nat /\ z \notin DOMAIN pages /\ z \notin taken
  <2>1. CASE free = {}
    BY <1>6, <1>7, <2>1
  <2>2. CASE free # {}
    <3>1. z \in free
      BY <1>7, <2>2
    <3>2. z \in 0 .. num - 1
      BY <1>6, <3>1
    <3>3. z \in Nat
      BY <1>6, <3>2
    <3> QED BY <1>6, <3>1, <3>3
  <2> QED BY <2>1, <2>2
<1>9. /\ \E h2, lo2, hi2 : Whole(pages', z, h2, lo2, hi2)
      /\ LastEmpty(pages') /\ PagesOK(pages') /\ RowsIn(pages') = RowsIn(pages)
  <2>1. pages' = Put(pages, z, Node(FALSE, <<k>>, <<root, y>>, Null))
    BY <1>7
  <2>2. NewRoot(pages, pages', z, k, root, y)
    BY <2>1 DEF NewRoot
  <2>3. LastEmpty(pages) /\ PagesOK(pages) /\ z \in Nat /\ z \notin DOMAIN pages
    BY <1>6, <1>8
  <2> HIDE DEF y, k
  <2>4. Tree(pages, root, h, lo, hi, root, y) /\ root # y /\ k = hi[root]
    BY <1>5
  <2> QED BY ONLY <2>4, <2>2, <2>3, RootGrows
<1>10. pages' = [x \in DOMAIN pages' |-> pages'[x]] /\ DOMAIN pages' = DOMAIN pages \cup {z}
  <2> DEFINE n == Node(FALSE, <<k>>, <<root, y>>, Null)
  <2> HIDE DEF n
  <2>1. pages' = Put(pages, z, n)
    BY <1>7 DEF n
  <2> QED BY <2>1 DEF Put
<1>11. num' \in Nat /\ DOMAIN pages' \cup taken \cup (free \ {z}) = 0 .. num' - 1
  <2>1. CASE free = {}
    <3>1. num' = num + 1 /\ z = num
      BY <1>7, <2>1
    <3>2. (0 .. num - 1) \cup {num} = 0 .. (num + 1) - 1
      BY <1>6, NextDomain
    <3>3. DOMAIN pages' \cup taken \cup (free \ {z}) = (DOMAIN pages \cup taken \cup free) \cup {num}
      BY <1>10, <2>1, <3>1
    <3>4. num + 1 \in Nat
      BY <1>6
    <3> QED BY <1>6, <3>1, <3>2, <3>3, <3>4
  <2>2. CASE free # {}
    <3>1. num' = num /\ z \in free
      BY <1>7, <2>2
    <3>2. DOMAIN pages' \cup taken \cup (free \ {z}) = DOMAIN pages \cup taken \cup free
      BY <1>10, <3>1
    <3> QED BY <1>6, <3>1, <3>2
  <2> QED BY <2>1, <2>2
<1>12. StoreInv'
  <2>1. DOMAIN pages' \cap taken' = {} /\ DOMAIN pages' \cap free' = {} /\ taken' \cap free' = {}
    BY <1>6, <1>7, <1>8, <1>10
  <2> QED BY <1>7, <1>8, <1>9, <1>10, <1>11, <2>1 DEF StoreInv
<1>13. num' > 0
  BY <1>1, <1>6, <1>7
<1>14. HasAdded'
  <2>1. HasAdded
    BY <1>1 DEF RowsInv
  <2> QED BY <1>7, <1>9, <2>1, AddedStays
<1>15. reply' = "ok" => Answered'
  BY <1>14 DEF Answered
<1>16. \E h2, lo2, hi2 : Whole(pages', root', h2, lo2, hi2)
  BY <1>7, <1>9
<1> QED BY <1>1, <1>7, <1>9, <1>12, <1>13, <1>15, <1>16, AnswerKeeps

(* The parent of a page that was split takes the key and the right half,   *)
(* or is full and is split in its turn.                                    *)
LEMMA ParentKeeps ==
  ASSUME IInv, pc = "to_parent", Front(path) # << >>, InsertToParent
  PROVE  IInv'
<1> DEFINE up == Front(path)  e == Last(up)  q == e.page  i == e.idx + 1
           x == Last(path).page  y == arg.child  k == arg.key  r == InsertCell(pages[q], k, y)
<1>1. StoreInv /\ CallInv /\ ShapeInv /\ RowsInv /\ num > 0 /\ held = << >>
  BY NothingHeld DEF IInv, CallInv, StoreInv, Inserting
<1>2. PICK h, lo, hi : Shape(h, lo, hi)
  BY <1>1 DEF ShapeInv, Inserting
<1>3. Tree(pages, root, h, lo, hi, x, y) /\ x # y /\ k = hi[x] /\ Way(pages, root, path)
  BY <1>2 DEF Shape, Waits
<1>4. Way(pages, root, up) /\ q \in DOMAIN pages /\ e.idx \in Nat
      /\ i \in 1 .. Len(pages[q].kids) /\ pages[q].kids[i] = x
  BY <1>3, WayUp
<1>5. LastEmpty(pages) /\ PagesOK(pages) /\ root \in Nat
      /\ pages = [p \in DOMAIN pages |-> pages[p]]
  BY <1>1 DEF ShapeInv, StoreInv, Inserting
<1>6. /\ UNCHANGED <<op, before>>
      /\ \/ r.res = "full" /\ Goto("split_internal", up, k, y) /\ UNCHANGED store
         \/ r.res = "overflow" /\ Panic("overflow")
         \/ /\ r.res # "full" /\ r.res # "overflow"
            /\ pages' = [pages EXCEPT ![q] = r.node]
            /\ UNCHANGED <<root, num, taken, free>>
            /\ Answer(IF r.res = "ok" THEN "ok" ELSE "row_exists")
  BY DEF InsertToParent, Inside
<1>7. HasAdded
  BY <1>1 DEF RowsInv
<1>8. r.res \in {"full", "exists", "overflow", "ok"} /\ r.res # "exists"
  <2> DEFINE n == pages[q]
  <2>1. n \in PageRec /\ k \in Key
    <3>1. n = pages[q]
      OBVIOUS
    <3> HIDE DEF n, q, i, x, k, y
    <3> QED BY <1>3, <1>4, <3>1, KeyGoesUp
  <2>2. InsertCell(n, k, y).res \in {"full", "exists", "overflow", "ok"}
    <3> HIDE DEF n, q, k, y
    <3> QED BY <2>1, InsertRefused
  <2>3. r.res # "exists"
    <3>1. r = InsertCell(pages[q], k, y)
      OBVIOUS
    <3> HIDE DEF r, n, q, i, x, k, y
    <3> QED BY <1>3, <1>4, <3>1, NodeHasNot
  <2> QED BY <2>2, <2>3
<1>9. CASE r.res = "full" /\ Goto("split_internal", up, k, y) /\ UNCHANGED store
  <2> USE DEF Goto, store
  <2>1. /\ pc' = "split_internal" /\ path' = up /\ arg' = [key |-> k, child |-> y]
        /\ reply' = "none" /\ held' = held
        /\ UNCHANGED <<pages, root, num, taken, free>>
    BY <1>1, <1>9 DEF CallInv
  <2>2. StoreInv'
    BY <1>1, <2>1 DEF StoreInv
  <2>3. CallInv'
    BY <1>1, <2>1 DEF CallInv
  <2>4. ShapeInv'
    <3>1. WaitsBelow(h, lo, hi)'
      <4>1. arg'.child = y /\ arg'.key = k /\ path' = up /\ root' = root /\ pages' = pages
        BY <2>1
      <4>2. /\ Last(up).idx \in Nat /\ Last(up).idx + 1 \in 1 .. Len(pages[Last(up).page].kids)
            /\ pages[Last(up).page].kids[Last(up).idx + 1] = x
        BY <1>4
      <4> HIDE DEF up, e, q, i, x, k, y
      <4>3. PICK v : v = x
        OBVIOUS
      <4>4. Waits(h, lo, hi, v)'
        BY <1>3, <1>4, <4>1, <4>3 DEF Waits
      <4> QED BY <4>1, <4>2, <4>3, <4>4 DEF WaitsBelow
    <3>2. Shape(h, lo, hi)'
      BY <2>1, <3>1 DEF Shape
    <3> QED BY <1>5, <2>1, <3>2 DEF ShapeInv
  <2>5. RowsInv'
    <3>1. HasAdded'
      BY <1>6, <1>7, <2>1, AddedStays
    <3> QED BY <2>1, <3>1 DEF RowsInv
  <2>6. DeleteInv'
    BY <2>1 DEF DeleteInv
  <2> QED BY <2>2, <2>3, <2>4, <2>5, <2>6 DEF IInv
<1>10. CASE r.res = "overflow" /\ Panic("overflow")
  <2> HIDE DEF r
  <2> QED BY <1>1, <1>10, PanicKeeps
<1>11. CASE r.res = "ok"
  <2> DEFINE m == r.node
  <2>1. pages' = [pages EXCEPT ![q] = m] /\ UNCHANGED <<root, num, taken, free>> /\ Answer("ok")
    <3> HIDE DEF r, q
    <3> QED BY <1>6, <1>11
  <2>2. Changed(pages, pages', q, m) /\ DOMAIN pages' = DOMAIN pages /\ pages' = [p \in DOMAIN pages' |-> pages'[p]]
    <3> HIDE DEF m, q
    <3> QED BY <1>4, <2>1, ChangedPage
  <2>3. r = InsertCell(pages[q], k, y)
    OBVIOUS
  <2> HIDE DEF r, up, e, q, i, x, k, y
  <2>4. Whole(pages', root, h, lo, hi) /\ LastEmpty(pages') /\ PagesOK(pages') /\ RowsIn(pages') = RowsIn(pages)
    BY <1>3, <1>4, <1>5, <1>11, <2>2, <2>3, NodeInsert
  <2>5. HasAdded'
    BY <1>6, <1>7, <2>4, AddedStays
  <2>6. reply' = "ok" => Answered'
    BY <2>5 DEF Answered
  <2>7. StoreInv'
    BY <1>1, <1>5, <2>1, <2>2, <2>4, StoreKeeps
  <2>8. num' > 0
    BY <1>1, <2>1
  <2> QED BY <1>1, <2>1, <2>4, <2>6, <2>7, <2>8, AnswerKeeps
<1> QED BY <1>6, <1>8, <1>9, <1>10, <1>11

(* insert_to_parent() keeps the invariant, with a new root or without.     *)
LEMMA InsertToParentKeeps ==
  ASSUME IInv, InsertToParent
  PROVE  IInv'
<1>1. pc = "to_parent"
  BY DEF InsertToParent
<1> QED BY <1>1, NewRootKeeps, ParentKeeps

(* split_insert_internal() keeps the invariant.                            *)
LEMMA SplitInsertInternalKeeps ==
  ASSUME IInv, Untroubled, SplitInsertInternal
  PROVE  IInv' /\ (pc' = "to_parent" => SameEnd)
<1> DEFINE e == Last(path)  q == e.page  n == pages[q]  i == e.idx + 1  x == n.kids[i]
           k == arg.key  c == arg.child  s == Split(n)
           r == InsertCell(NodeTarget(s, k, c), NodeKey(s, k), NodeChild(s, k, c))
<1>1. /\ StoreInv /\ CallInv /\ ShapeInv /\ RowsInv /\ num > 0
      /\ pc = "split_internal" /\ UNCHANGED <<op, before>>
  <2>1. StoreInv /\ CallInv /\ ShapeInv /\ RowsInv
    BY DEF IInv
  <2>2. pc = "split_internal" /\ UNCHANGED <<op, before>>
    BY DEF SplitInsertInternal, Inside
  <2>3. num # 0 /\ num \in Nat
    BY <2>1, <2>2 DEF CallInv, StoreInv
  <2> QED BY <2>1, <2>2, <2>3
<1>2. PICK h, lo, hi : Shape(h, lo, hi)
  BY <1>1 DEF ShapeInv, Inserting
<1>3. /\ Tree(pages, root, h, lo, hi, x, c) /\ x # c /\ k = hi[x] /\ Way(pages, root, path)
      /\ i \in 1 .. Len(n.kids)
  BY <1>1, <1>2 DEF Shape, Waits, WaitsBelow
<1>4. q \in DOMAIN pages
  <2>1. path \in Seq(Step) /\ Len(path) > 0 /\ q = path[Len(path)].page
        /\ \A j \in 1 .. Len(path) : path[j].page \in DOMAIN pages
    BY <1>3 DEF Way, Last
  <2>2. Len(path) \in 1 .. Len(path)
    BY <2>1
  <2> QED BY <2>1, <2>2
<1>5. LastEmpty(pages) /\ PagesOK(pages) /\ num \in Nat /\ num \notin DOMAIN pages
  BY <1>1, NumIsNew DEF ShapeInv, StoreInv, Inserting
<1>6. \A j \in 1 .. KeptBySplit(n) : n.keys[j] < k
  BY <1>1 DEF Untroubled
<1>7. r = IF k >= s.first THEN InsertCell(s.right, k, c)
          ELSE InsertCell([s.right EXCEPT !.kids[1] = c], s.first, s.right.kids[1])
  BY DEF NodeTarget, NodeKey, NodeChild
<1>8. NodeUp(s, k) = IF k >= s.first THEN s.first ELSE k
  BY DEF NodeUp
<1>9. \/ Cells(n) < 2 /\ Panic("no_cell")
      \/ r.res # "ok" /\ Panic(r.res)
      \/ /\ ~(Cells(n) < 2) /\ r.res = "ok" /\ PutSplit(q, s.left, r.node)
         /\ Goto("to_parent", path, NodeUp(s, k), num)
  BY <1>7, <1>8 DEF SplitInsertInternal
<1>10. ASSUME NEW why, Panic(why) PROVE IInv' /\ pc' = "panic"
  BY <1>1, <1>10, PanicKeeps DEF Panic
<1>11. CASE /\ ~(Cells(n) < 2) /\ r.res = "ok" /\ PutSplit(q, s.left, r.node)
            /\ Goto("to_parent", path, NodeUp(s, k), num)
  <2> DEFINE l == s.left  t == r.node
  <2>1. PageOK(n)
    BY <1>4, <1>5 DEF PagesOK
  <2>2. Len(n.keys) >= 2 /\ KeptBySplit(n) \in 1 .. KeptBySplit(n)
    <3>1. Len(n.keys) \in Nat /\ Cells(n) = Len(n.keys)
      BY <2>1, RecFields DEF PageOK, Cells
    <3>2. ~(Len(n.keys) < 2)
      BY <1>11, <3>1
    <3>3. KeptBySplit(n) = (Len(n.keys) + 1) \div 2
      BY DEF KeptBySplit, Cells
    <3>4. ASSUME NEW m \in Nat, ~(m < 2), NEW u, u = (m + 1) \div 2 PROVE m >= 2 /\ u \in 1 .. u
      BY <3>4
    <3> HIDE DEF n
    <3> QED BY ONLY <3>1, <3>2, <3>3, <3>4
  <2>3. n.keys[KeptBySplit(n)] < k
    BY <1>6, <2>2
  <2>4. r = InsertCell(NodeTarget(s, k, c), NodeKey(s, k), NodeChild(s, k, c)) /\ s = Split(pages[q])
    OBVIOUS
  <2>5. pages' = Put([pages EXCEPT ![q] = l], num, t) /\ root' = root
    BY <1>11 DEF PutSplit
  <2>6. SplitPages(pages, pages', q, num, s.left, r.node)
    <3> HIDE DEF l, t, q
    <3>1. DOMAIN [pages EXCEPT ![q] = l] = DOMAIN pages
      OBVIOUS
    <3>2. SplitPages(pages, pages', q, num, l, t)
      BY <1>4, <1>5, <2>5, <3>1 DEF Put, SplitPages
    <3> QED BY <3>2 DEF l, t
  <2>7. /\ i \in 1 .. Len(pages[q].kids) /\ pages[q].kids[i] = x
        /\ Len(pages[q].keys) >= 2 /\ pages[q].keys[KeptBySplit(pages[q])] < k
        /\ r.res = "ok"
    BY <1>3, <1>11, <2>2, <2>3
  <2> HIDE DEF n, x, k, c, s, r
  <2>13. NodeCuts(pages, pages', hi, num, q, i, x, s, r, k, c)
    BY <1>3, <1>4, <2>4, <2>6, <2>7 DEF NodeCuts
  <2> HIDE DEF e, q, n, i, x, k, c, s, r, l, t
  <2>8. /\ Cleft(pages', root, q, num, NodeUp(s, k))
        /\ LastEmpty(pages') /\ PagesOK(pages') /\ RowsIn(pages') = RowsIn(pages)
        /\ pages'[num].next = pages[q].next
    <3>1. Tree(pages, root, h, lo, hi, x, c) /\ x # c
      BY <1>3
    <3>2. LastEmpty(pages) /\ PagesOK(pages) /\ num \in Nat /\ num \notin DOMAIN pages
      BY <1>5
    <3>3. s = Split(pages[q])
      BY <2>4
    <3> QED BY <3>1, <3>2, <3>3, <2>13, NodeSplit
  <2>9. HasAdded'
    <3>1. HasAdded
      BY <1>1 DEF RowsInv
    <3> QED BY <1>1, <2>8, <3>1, AddedStays
  <2>11. q = Last(path).page /\ pc \in {"split_leaf", "split_internal"}
    BY <1>1 DEF e, q
  <2>12. PutSplit(q, s.left, r.node) /\ Goto("to_parent", path, NodeUp(s, k), num)
    BY <1>11
  <2>14. IInv'
    BY <1>1, <1>3, <2>8, <2>9, <2>11, <2>12, SplitKeeps
  <2>15. SameEnd
    BY <1>11, <2>8, <2>11 DEF SameEnd, Goto
  <2> QED BY <2>14, <2>15
<1> QED BY <1>9, <1>10, <1>11

-----------------------------------------------------------------------------
(* Rebalancing: what rebalance_leaves() and rebalance_internals() do.      *)

(* What rebalance_leaves() and rebalance_internals() look at.              *)
OwnId    == Last(path).page
(* The way to the parent, the page, its right sibling, and the pages that  *)
(* are left when both are taken.                                           *)
Above    == Front(path)
OwnNode  == pages[OwnId]
SibId    == OwnNode.next
SibNode  == pages[SibId]
RestOf   == Restrict(pages, DOMAIN pages \ {OwnId, SibId})
(* The parent by that way, and whether the sibling has its place in it.    *)
ParentEntry == Last(Above)
SameParent  == ParentEntry.idx = 0 \/ ParentEntry.idx < Cells(RestOf[ParentEntry.page])
(* Whether the two pages are merged, or share their cells anew.            *)
Merges   == Used(OwnNode) + Used(SibNode) < Half
Shares   == ~Merges /\ Cells(OwnNode) < Cells(SibNode)
(* The cells that may move, how many do, the page that takes them, and     *)
(* those that stay.                                                        *)
MovedCells == Moving(RestOf, SibNode)
MovedCount == IF Merges THEN Len(MovedCells) ELSE (Cells(OwnNode) + Cells(SibNode) + 1) \div 2 - Cells(OwnNode)
GrownRes == InsertAll(OwnNode, SubSeq(MovedCells, 1, MovedCount))
LeftCells == SubSeq(MovedCells, MovedCount + 1, Len(MovedCells))
(* The way to the place of the sibling.                                    *)
SibWay   == IF SameParent THEN Append(Front(Above), Entry(ParentEntry.page, ParentEntry.idx + 1))
            ELSE TraverseLevel(RestOf, Head(SibNode.keys), Len(Above))
Spot     == Last(SibWay)
(* No leaf is found below the sibling that gives its first child a key.    *)
NoLeaf   == ~OwnNode.leaf /\ LET leaf == LeftmostLeaf(RestOf, SibNode.kids[1]) IN
                   leaf \notin DOMAIN RestOf \/ RestOf[leaf].keys = << >>
(* The panics.                                                             *)
Why ==
  IF Above = << >> THEN "no_parent"
  ELSE IF Cells(RestOf[ParentEntry.page]) = 0 THEN "underflow"
  ELSE IF ~Merges /\ ~Shares THEN "none"
  ELSE IF NoLeaf THEN "no_cell"
       ELSE IF GrownRes.res # "ok" /\ ~(OwnNode.leaf /\ Merges) THEN GrownRes.res
       ELSE IF ~SameParent /\ Cells(SibNode) = 0 THEN "no_cell"
       ELSE IF Spot.page \notin DOMAIN RestOf THEN "taken"
       ELSE IF Shares /\ Spot.idx = 0 THEN "no_cell"
       ELSE "none"

(* How it ends: without a sibling, with a merge that has no room, with a   *)
(* merge, or with cells moved or left where they are.                      *)
GoesBack == pc' = "return" /\ UNCHANGED <<store, path, arg, held, reply, fault>>
MergeFails ==
  /\ pages' = RestOf /\ taken' = taken \cup {OwnId, SibId} /\ UNCHANGED <<root, num, free>>
  /\ Answer(GrownRes.res)
MergeDone ==
  /\ pages' = RestOf /\ taken' = taken \cup {OwnId, SibId}
  /\ held' = Append(held, [id |-> OwnId, node |-> [GrownRes.node EXCEPT !.next = SibNode.next]])
  /\ pc' = "delete_internal"
  /\ path' = IF SameParent THEN SibWay ELSE Append(Front(SibWay), Entry(Spot.page, 0))
  /\ UNCHANGED <<root, num, free, arg, reply, fault>>
ShareDone ==
  /\ pages' = IF ~Shares THEN pages
              ELSE [[pages EXCEPT ![OwnId] = GrownRes.node, ![SibId] = Remainder(SibNode, LeftCells)]
                      EXCEPT ![Spot.page].keys[Spot.idx] = Head(LeftCells)[1]]
  /\ pc' = "return" /\ path' = << >>
  /\ UNCHANGED <<root, num, taken, free, arg, held, reply, fault>>

(* Rebalance is one of these.                                              *)
LEMMA RebalanceIs ==
  ASSUME Rebalance
  PROVE  /\ UNCHANGED <<op, before, loaded>>
         /\ \/ SibId = Null /\ GoesBack
            \/ SibId # Null /\ Why # "none" /\ Panic(Why)
            \/ SibId # Null /\ Why = "none" /\ Merges /\ GrownRes.res # "ok" /\ MergeFails
            \/ SibId # Null /\ Why = "none" /\ Merges /\ GrownRes.res = "ok" /\ MergeDone
            \/ SibId # Null /\ Why = "none" /\ ~Merges /\ ShareDone
<1>1. UNCHANGED <<op, before, loaded>>
  BY DEF Rebalance, Inside
<1>2. IF SibId = Null THEN GoesBack
      ELSE IF Why # "none" THEN Panic(Why)
      ELSE IF Merges /\ GrownRes.res # "ok" THEN MergeFails
      ELSE IF Merges THEN MergeDone
      ELSE ShareDone
  BY DEF Rebalance, OwnId, Above, OwnNode, SibId, SibNode, RestOf, ParentEntry, SameParent, Merges, Shares,
         MovedCells, MovedCount, GrownRes, LeftCells, SibWay, Spot, NoLeaf, Why, GoesBack, MergeFails, MergeDone, ShareDone
<1> QED BY <1>1, <1>2

-----------------------------------------------------------------------------
(* They keep the invariant, and so do the removal of a cell in the parent  *)
(* and the return.                                                         *)

(* No page at the level of the one that is looked at is held, and none     *)
(* above it.                                                               *)
LEMMA HeldBelow ==
  ASSUME NEW full, NEW h, NEW lo, NEW hi, Holds(full), Whole(full, root, h, lo, hi), Upward(full, h),
         NEW p \in DOMAIN full, h[OwnId] <= h[p]
  PROVE  p \in DOMAIN pages /\ full[p] = pages[p]
<1>1. ASSUME NEW i \in 1 .. Len(held) PROVE p # held[i].id
  <2> SUFFICES ASSUME p = held[i].id PROVE FALSE
    OBVIOUS
  <2>1. h[p] < h[OwnId]
    BY DEF Upward, OwnId
  <2>2. OwnId \in DOMAIN full
    <3>1. path \in Seq(Step) /\ Len(path) > 0 /\ \A j \in 1 .. Len(path) : path[j].page \in DOMAIN full
      BY DEF Upward, Way
    <3>2. Len(path) \in 1 .. Len(path) /\ OwnId = path[Len(path)].page
      BY <3>1 DEF OwnId, Last
    <3> QED BY <3>1, <3>2
  <2> DEFINE x == h[p]  y == h[OwnId]
  <2>3. x \in Nat /\ y \in Nat /\ x < y /\ y <= x
    BY <2>1, <2>2, WholePage
  <2> HIDE DEF x, y
  <2> QED BY ONLY <2>3
<1>2. DOMAIN full = DOMAIN pages \cup {held[i].id : i \in 1 .. Len(held)}
  BY DEF Holds
<1>3. p \in DOMAIN pages
  BY <1>1, <1>2
<1> QED BY <1>3 DEF Holds

(* Page and sibling are next to each other in one level.                   *)
LEMMA Neighbours ==
  ASSUME NEW full, NEW h, NEW lo, NEW hi, ToRebalance(full, h, lo, hi), SibId # Null
  PROVE  /\ OwnId \in DOMAIN full /\ SibId \in DOMAIN full /\ OwnId # SibId
         /\ OwnId \in DOMAIN pages /\ SibId \in DOMAIN pages
         /\ full[OwnId] = OwnNode /\ full[SibId] = SibNode
         /\ h[SibId] = h[OwnId] /\ lo[SibId] = hi[OwnId]
         /\ PageOK(OwnNode) /\ PageOK(SibNode) /\ OwnNode.leaf = SibNode.leaf
         /\ PartOfTree(RestOf, full) /\ DOMAIN RestOf = DOMAIN pages \ {OwnId, SibId}
         /\ \A p \in DOMAIN full : h[OwnId] < h[p] => p \in DOMAIN RestOf
<1>1. Holds(full) /\ PagesOK(full) /\ Whole(full, root, h, lo, hi) /\ Upward(full, h)
  BY DEF ToRebalance, Deleting
<1>2. OwnId \in DOMAIN full
  <2>1. path \in Seq(Step) /\ Len(path) > 0 /\ \A j \in 1 .. Len(path) : path[j].page \in DOMAIN full
    BY <1>1 DEF Upward, Way
  <2>2. Len(path) \in 1 .. Len(path) /\ OwnId = path[Len(path)].page
    BY <2>1 DEF OwnId, Last
  <2> QED BY <2>1, <2>2
<1>3. h[OwnId] \in Nat /\ lo[OwnId] \in Nat /\ hi[OwnId] \in Nat /\ lo[OwnId] < hi[OwnId] /\ (full[OwnId].leaf <=> h[OwnId] = 0)
      /\ full[OwnId] \in PageRec
  BY <1>1, <1>2, WholePage
<1>4. OwnId \in DOMAIN pages /\ full[OwnId] = OwnNode
  <2>1. h[OwnId] <= h[OwnId]
    BY <1>3
  <2> QED BY <1>1, <1>2, <2>1, HeldBelow DEF OwnNode
<1>5. SibId \in DOMAIN full /\ h[SibId] = h[OwnId] /\ lo[SibId] = hi[OwnId]
  <2>1. full[OwnId].next = SibId
    BY <1>4 DEF SibId
  <2>2. ChainFits(full, h, lo, hi)
    BY <1>1 DEF Whole, Tree
  <2>3. IF hi[OwnId] = MaxKey + 1 THEN full[OwnId].next = Null
        ELSE full[OwnId].next \in DOMAIN full /\ h[full[OwnId].next] = h[OwnId] /\ lo[full[OwnId].next] = hi[OwnId]
    BY <1>2, <2>2 DEF ChainFits
  <2> QED BY <2>1, <2>3
<1>6. SibId # OwnId
  <2>1. lo[OwnId] # hi[OwnId]
    BY <1>3
  <2> QED BY <1>5, <2>1
<1>7. SibId \in DOMAIN pages /\ full[SibId] = SibNode
  <2>1. h[OwnId] <= h[SibId]
    BY <1>3, <1>5
  <2> QED BY <1>1, <1>5, <2>1, HeldBelow DEF SibNode
<1>8. DOMAIN RestOf = DOMAIN pages \ {OwnId, SibId} /\ \A p \in DOMAIN RestOf : RestOf[p] = pages[p]
  BY DEF RestOf, Restrict
<1>9. PartOfTree(RestOf, full)
  <2>1. \A p \in DOMAIN pages : p \in DOMAIN full /\ full[p] = pages[p]
    BY <1>1 DEF Holds
  <2> QED BY <1>8, <2>1 DEF PartOfTree
<1>10. ASSUME NEW p \in DOMAIN full, h[OwnId] < h[p] PROVE p \in DOMAIN RestOf
  <2>1. h[p] \in Nat
    BY <1>1, WholePage
  <2>2. h[OwnId] <= h[p] /\ h[p] # h[OwnId]
    BY <1>3, <1>10, <2>1
  <2>3. p # OwnId /\ p # SibId
    BY <1>5, <2>2
  <2>4. p \in DOMAIN pages
    BY <1>1, <2>2, HeldBelow
  <2> QED BY <1>8, <2>3, <2>4
<1>11. PageOK(OwnNode) /\ PageOK(SibNode)
  BY <1>1, <1>2, <1>4, <1>5, <1>7 DEF PagesOK
<1>12. OwnNode.leaf = SibNode.leaf
  <2>1. (full[SibId].leaf <=> h[SibId] = 0) /\ full[SibId] \in PageRec
    BY <1>1, <1>5, WholePage
  <2>2. full[OwnId].leaf \in BOOLEAN /\ full[SibId].leaf \in BOOLEAN
    BY <1>3, <2>1, RecFields
  <2>3. full[OwnId].leaf = full[SibId].leaf
    BY <1>3, <1>5, <2>1, <2>2
  <2> QED BY <1>4, <1>7, <2>3
<1> QED BY <1>2, <1>4, <1>5, <1>6, <1>7, <1>8, <1>9, <1>10, <1>11, <1>12

(* The parent of the page that is looked at is registered.                 *)
LEMMA ParentPage ==
  ASSUME NEW full, NEW h, NEW lo, NEW hi, ToRebalance(full, h, lo, hi), SibId # Null, Above # << >>,
         NEW q, q = ParentEntry.page
  PROVE  /\ q \in DOMAIN full /\ q \in DOMAIN RestOf /\ RestOf[q] = full[q] /\ ~full[q].leaf
         /\ ParentEntry.idx \in Nat /\ ParentEntry.idx + 1 \in 1 .. Len(full[q].kids)
         /\ full[q].kids[ParentEntry.idx + 1] = OwnId /\ h[q] = h[OwnId] + 1
         /\ Len(full[q].kids) = Len(full[q].keys) + 1 /\ Len(full[q].keys) \in Nat
         /\ Way(full, root, Above)
<1>1. Whole(full, root, h, lo, hi) /\ Way(full, root, path) /\ Front(path) # << >>
  BY DEF ToRebalance, Upward, Above
<1>2. /\ Way(full, root, Above)
      /\ q \in DOMAIN full /\ ParentEntry.idx \in Nat /\ ParentEntry.idx + 1 \in 1 .. Len(full[q].kids)
      /\ full[q].kids[ParentEntry.idx + 1] = OwnId
  <2>1. /\ Way(full, root, Front(path))
        /\ LET e == Last(Front(path))
           IN  /\ e.page \in DOMAIN full /\ e.idx \in Nat
               /\ e.idx + 1 \in 1 .. Len(full[e.page].kids)
               /\ full[e.page].kids[e.idx + 1] = Last(path).page
    BY ONLY <1>1, WayUp
  <2> QED BY <2>1 DEF Above, ParentEntry, OwnId
<1>3. h[q] = h[OwnId] + 1
  <2> DEFINE i == ParentEntry.idx + 1
  <2>1. i \in 1 .. Len(full[q].kids) /\ OwnId = full[q].kids[i]
    BY <1>2
  <2> HIDE DEF i
  <2> QED BY ONLY <1>1, <1>2, <2>1, WholeKid
<1>4. /\ Len(full[q].kids) = (IF full[q].leaf THEN 0 ELSE Len(full[q].keys) + 1) /\ Len(full[q].keys) \in Nat
  BY ONLY <1>1, <1>2, WholePage
<1>5. ~full[q].leaf
  <2> SUFFICES ASSUME full[q].leaf PROVE FALSE
    OBVIOUS
  <2>1. Len(full[q].kids) = 0
    BY <1>4
  <2> DEFINE N == Len(full[q].kids)  i == ParentEntry.idx + 1
  <2>2. N = 0 /\ i \in 1 .. N
    BY <1>2, <2>1
  <2> HIDE DEF N, i
  <2> QED BY ONLY <2>2
<1>6. q \in DOMAIN RestOf
  <2>1. h[OwnId] \in Nat
    <3>1. OwnId \in DOMAIN full
      BY Neighbours
    <3> QED BY ONLY <1>1, <3>1, WholePage
  <2>2. h[OwnId] < h[q]
    BY <1>3, <2>1
  <2> QED BY <1>2, <2>2, Neighbours
<1>7. RestOf[q] = full[q]
  BY <1>6, Neighbours DEF PartOfTree
<1> QED BY <1>2, <1>3, <1>4, <1>5, <1>6, <1>7

(* Pages of one parent: the sibling is the next child.                     *)
LEMMA NextChild ==
  ASSUME NEW full, NEW h, NEW lo, NEW hi, ToRebalance(full, h, lo, hi), SibId # Null, Above # << >>,
         NEW q, q = ParentEntry.page, Cells(RestOf[q]) # 0, SameParent, NEW c, c = ParentEntry.idx + 1
  PROVE  c \in 1 .. Len(full[q].keys) /\ full[q].kids[c] = OwnId /\ full[q].kids[c + 1] = SibId
<1>1. /\ q \in DOMAIN full /\ RestOf[q] = full[q]
      /\ ParentEntry.idx \in Nat /\ c \in 1 .. Len(full[q].kids)
      /\ full[q].kids[c] = OwnId
      /\ Len(full[q].kids) = Len(full[q].keys) + 1 /\ Len(full[q].keys) \in Nat
  BY ParentPage
<1>2. c \in 1 .. Len(full[q].keys)
  <2> DEFINE x == ParentEntry.idx  N == Len(full[q].keys)
  <2>1. N # 0 /\ (x = 0 \/ x < N) /\ x \in Nat /\ N \in Nat /\ c = x + 1
    BY <1>1 DEF SameParent, Cells
  <2> HIDE DEF x, N
  <2>2. c \in 1 .. N
    BY ONLY <2>1
  <2> QED BY <2>2 DEF N
<1>3. full[q].kids[c + 1] = SibId
  <2>1. Whole(full, root, h, lo, hi)
    BY DEF ToRebalance
  <2> DEFINE n == full[q]
  <2>2. n.kids[c] = OwnId /\ c < Len(n.kids) /\ c \in 1 .. Len(n.kids) /\ n = full[q]
    <3>1. c < Len(n.kids)
      BY <1>1, <1>2
    <3> QED BY <1>1, <3>1
  <2> HIDE DEF n
  <2>3. full[n.kids[c]].next = IF c < Len(n.kids) THEN n.kids[c + 1]
                               ELSE IF n.next = Null THEN Null ELSE full[n.next].kids[1]
    BY ONLY <1>1, <2>1, <2>2, WholeInOrder
  <2>4. full[OwnId].next = SibId
    <3>1. full[OwnId] = OwnNode
      BY Neighbours
    <3> QED BY <3>1 DEF SibId
  <2>5. n.kids[c + 1] = SibId
    BY <2>2, <2>3, <2>4
  <2> QED BY <2>5 DEF n
<1> QED BY <1>1, <1>2, <1>3

(* Pages of two parents: the way to the sibling's parent goes on to the    *)
(* sibling, which is taken.                                                *)
LEMMA NoWay ==
  ASSUME NEW full, NEW h, NEW lo, NEW hi, ToRebalance(full, h, lo, hi), SibId # Null, Above # << >>,
         ~SameParent, Cells(SibNode) # 0
  PROVE  Spot.page \notin DOMAIN RestOf
<1>1. /\ OwnId \in DOMAIN full /\ SibId \in DOMAIN full /\ SibId \notin DOMAIN RestOf
      /\ full[SibId] = SibNode /\ h[SibId] = h[OwnId] /\ PartOfTree(RestOf, full)
      /\ \A p \in DOMAIN full : h[OwnId] < h[p] => p \in DOMAIN RestOf
  BY Neighbours
<1>2. Whole(full, root, h, lo, hi) /\ Way(full, root, path)
  BY DEF ToRebalance, Upward
<1> DEFINE k == Head(SibNode.keys)  n == Len(Above)  rest == RestOf  sid == SibId
<1>3. k \in Key /\ k \in Nat /\ Within(lo, hi, SibId, k)
  <2>1. /\ full[SibId] \in PageRec /\ Len(full[SibId].keys) \in Nat
        /\ \A i \in 1 .. Len(full[SibId].keys) :
              full[SibId].keys[i] \in Nat /\ lo[SibId] <= full[SibId].keys[i] /\ full[SibId].keys[i] < hi[SibId]
    BY ONLY <1>1, <1>2, WholePage
  <2>2. 1 \in 1 .. Len(full[SibId].keys) /\ full[SibId].keys \in Seq(Key)
    <3>1. Len(full[SibId].keys) # 0
      BY <1>1 DEF Cells
    <3>2. full[SibId].keys \in Seq(Key)
      BY <2>1, RecFields
    <3> QED BY <2>1, <3>1, <3>2
  <2>3. k = full[SibId].keys[1]
    <3> DEFINE s == full[SibId].keys
    <3>1. s \in Seq(Key) /\ k = Head(s)
      BY <1>1, <2>2
    <3> HIDE DEF s, k
    <3>2. k = s[1]
      BY <3>1
    <3> QED BY <3>2 DEF s
  <2> HIDE DEF k
  <2> QED BY <2>1, <2>2, <2>3 DEF Within
<1>4. n \in Nat /\ h[sid] + n = h[root]
  <2>1. path \in Seq(Step) /\ Len(path) > 0 /\ OwnId = path[Len(path)].page /\ Front(path) \in Seq(Step) /\ n = Len(path) - 1
    <3>1. path \in Seq(Step) /\ Len(path) > 0
      BY <1>2 DEF Way
    <3>2. Front(path) \in Seq(Step) /\ Len(Front(path)) = Len(path) - 1
      BY <3>1, FrontOf
    <3> QED BY <3>1, <3>2 DEF Above, OwnId, Last
  <2>2. \A i \in 1 .. Len(path) : h[path[i].page] + i = h[root] + 1
    BY ONLY <1>2, WayHeights DEF Whole
  <2>3. Len(path) \in 1 .. Len(path)
    BY <2>1
  <2>4. h[OwnId] + Len(path) = h[root] + 1
    BY <2>1, <2>2, <2>3
  <2>5. h[OwnId] \in Nat /\ h[root] \in Nat
    <3>1. root \in DOMAIN full
      BY <1>2 DEF Whole, Tree, RootFits
    <3> QED BY ONLY <1>1, <1>2, <3>1, WholePage
  <2> DEFINE x == h[OwnId]  L == Len(path)  z == h[root]
  <2>6. x \in Nat /\ z \in Nat /\ L \in Nat /\ L > 0 /\ x + L = z + 1 /\ n = L - 1
    BY <2>1, <2>4, <2>5
  <2> HIDE DEF x, L, z, n
  <2>7. n \in Nat /\ x + n = z
    BY ONLY <2>6
  <2> QED BY <1>1, <2>7 DEF x, z
<1>5. /\ Whole(full, root, h, lo, hi) /\ PartOfTree(rest, full) /\ k \in Key /\ n \in Nat /\ sid \in DOMAIN full
      /\ sid \notin DOMAIN rest /\ Within(lo, hi, sid, k) /\ h[sid] + n = h[root]
      /\ \A p \in DOMAIN full : h[sid] < h[p] => p \in DOMAIN rest
  BY <1>1, <1>2, <1>3, <1>4
<1>6. Spot = Last(TraverseLevel(rest, k, n))
  BY DEF Spot, SibWay
<1> HIDE DEF rest, k, n, sid
<1>7. Last(TraverseLevel(rest, k, n)).page = sid
  BY ONLY <1>5, SiblingMissing
<1> QED BY <1>5, <1>6, <1>7 DEF rest

(* The cells of the sibling can be put in one by one.                      *)
LEMMA CellsGiven ==
  ASSUME NEW full, NEW h, NEW lo, NEW hi, ToRebalance(full, h, lo, hi), SibId # Null, ~NoLeaf, Merges \/ Shares
  PROVE  /\ \E f \in Key : Given(SibNode, f, MovedCells)
         /\ MovedCells \in Seq(Key \X Links) /\ MovedCount \in 0 .. Len(MovedCells)
         /\ Shares => MovedCount \in 1 .. Len(MovedCells) - 1
         /\ GrownRes.res \in Results
<1>1. /\ PageOK(OwnNode) /\ PageOK(SibNode) /\ OwnNode.leaf = SibNode.leaf /\ PartOfTree(RestOf, full)
  BY Neighbours
<1> DEFINE leaf == LeftmostLeaf(RestOf, SibNode.kids[1])
<1>2. SibNode.leaf \/ (leaf \in DOMAIN RestOf /\ RestOf[leaf].keys # << >>)
  BY <1>1 DEF NoLeaf
<1>3. \E f \in Key : SibNode.leaf \/ f = Head(RestOf[leaf].keys)
  <2>1. CASE SibNode.leaf
    <3>1. 0 \in Key
      BY Numbers
    <3> QED BY <2>1, <3>1
  <2>2. CASE ~SibNode.leaf
    <3>1. RestOf[leaf] \in PageRec /\ RestOf[leaf].keys # << >>
      BY <1>1, <1>2, <2>2 DEF PartOfTree, ToRebalance, Deleting, PagesOK, PageOK
    <3> DEFINE s == RestOf[leaf].keys
    <3>2. s \in Seq(Key) /\ s # << >>
      BY <3>1, RecFields
    <3> HIDE DEF s
    <3>3. Head(s) \in Key
      BY <3>2
    <3> QED BY <3>3 DEF s
  <2> QED BY <2>1, <2>2
<1>4. PICK f \in Key : Given(SibNode, f, MovedCells)
  <2>1. PICK f \in Key : SibNode.leaf \/ f = Head(RestOf[leaf].keys)
    BY <1>3
  <2>2. Given(SibNode, f, Moving(RestOf, SibNode))
    BY <1>1, <2>1, MovingGiven
  <2> QED BY <2>2 DEF MovedCells
<1> DEFINE cells == MovedCells  L == Len(cells)  g == MovedCount
<1>5. cells \in Seq(Key \X Links) /\ L \in Nat
  <2>1. cells \in Seq(Key \X Links)
    BY <1>4 DEF Given
  <2> QED BY <2>1
<1>6. ASSUME Shares PROVE g \in 1 .. L - 1
  <2>1. ~(Used(OwnNode) + Used(SibNode) < Half) /\ Cells(OwnNode) < Cells(SibNode)
    BY <1>6 DEF Shares, Merges
  <2>2. g = (Cells(OwnNode) + Cells(SibNode) + 1) \div 2 - Cells(OwnNode)
    BY <2>1 DEF MovedCount, Merges
  <2> HIDE DEF g
  <2> QED BY ONLY <1>1, <1>4, <2>1, <2>2, ShareNumbers
<1>7. g \in 0 .. L
  <2>1. CASE Merges
    <3>1. g = L
      BY <2>1 DEF MovedCount
    <3> QED BY <1>5, <3>1
  <2>2. CASE Shares
    <3> HIDE DEF g, L
    <3> QED BY <1>5, <1>6, <2>2
  <2> QED BY <2>1, <2>2
<1>8. \A i \in 1 .. L : cells[i][1] \in Key /\ cells[i][2] \in Links /\ (OwnNode.leaf \/ cells[i][2] \in Nat)
  <2> SUFFICES ASSUME NEW i \in 1 .. L
               PROVE  cells[i][1] \in Key /\ cells[i][2] \in Links /\ (OwnNode.leaf \/ cells[i][2] \in Nat)
    OBVIOUS
  <2>1. cells[i] \in Key \X Links
    BY <1>5
  <2>2. ASSUME ~OwnNode.leaf PROVE cells[i][2] \in Nat
    <3>1. ~SibNode.leaf /\ L = Len(SibNode.keys) + 1 /\ Len(SibNode.keys) \in Nat /\ Len(SibNode.kids) = Len(SibNode.keys) + 1
      BY <1>1, <1>4, <2>2, RecFields DEF Given, PageOK
    <3>2. i \in 1 .. Len(SibNode.kids)
      BY <3>1
    <3>3. SibNode.kids[i] \in Nat
      BY <1>1, <3>2, RecFields DEF PageOK
    <3>4. cells[i][2] = SibNode.kids[i]
      <4>1. CASE i = 1
        BY <1>4, <3>1, <4>1 DEF Given
      <4>2. CASE i # 1
        <5> DEFINE j == i - 1
        <5>1. j \in 1 .. Len(SibNode.keys) /\ j + 1 = i
          BY <3>1, <4>2
        <5> HIDE DEF j
        <5>2. cells[j + 1] = <<SibNode.keys[j], SibNode.kids[j + 1]>>
          BY <1>4, <3>1, <5>1 DEF Given
        <5> QED BY <5>1, <5>2
      <4> QED BY <4>1, <4>2
    <3> QED BY <3>3, <3>4
  <2> QED BY <2>1, <2>2
<1>9. GrownRes.res \in Results
  <2> DEFINE part == SubSeq(cells, 1, g)
  <2>1. part \in Seq(Key \X Links) /\ Len(part) = g /\ \A i \in 1 .. g : part[i] = cells[i]
    <3> DEFINE S == Key \X Links
    <3>1. cells \in Seq(S) /\ 1 \in 1 .. Len(cells) + 1 /\ g \in 0 .. Len(cells) /\ 1 <= g + 1
      BY <1>5, <1>7
    <3> HIDE DEF S, g, cells
    <3>2. part \in Seq(S) /\ Len(part) = (g - 1) + 1
          /\ \A x \in 1 .. (g - 1) + 1 : part[x] = cells[(x + 1) - 1]
      BY <3>1, PartOf
    <3>3. (g - 1) + 1 = g /\ \A x \in 1 .. g : (x + 1) - 1 = x
      BY <3>1
    <3>4. \A i \in 1 .. g : part[i] = cells[i]
      BY <3>2, <3>3
    <3> QED BY <3>2, <3>3, <3>4 DEF S
  <2>2. \A i \in 1 .. g : i \in 1 .. L
    <3> HIDE DEF g, L
    <3> QED BY <1>5, <1>7
  <2>3. CellsFor(OwnNode.leaf, part)
    <3> HIDE DEF part, g, cells, L
    <3> QED BY <1>8, <2>1, <2>2 DEF CellsFor
  <2>4. GrownRes = InsertAll(OwnNode, part)
    BY DEF GrownRes
  <2> HIDE DEF part
  <2> QED BY <1>1, <2>3, <2>4, InsertAllAnswers
<1> QED BY <1>4, <1>5, <1>6, <1>7, <1>9

(* What is so when nothing panics.                                         *)
LEMMA WhyNone ==
  ASSUME NEW full, NEW h, NEW lo, NEW hi, ToRebalance(full, h, lo, hi), SibId # Null, Why = "none"
  PROVE  /\ Above # << >> /\ Cells(RestOf[ParentEntry.page]) # 0
         /\ Merges \/ Shares =>
              /\ ~NoLeaf /\ SameParent
              /\ GrownRes.res # "ok" => OwnNode.leaf /\ Merges
<1>1. Above # << >> /\ Cells(RestOf[ParentEntry.page]) # 0
  BY DEF Why
<1>2. ASSUME Merges \/ Shares
      PROVE  ~NoLeaf /\ GrownRes.res # "none" /\ ~(GrownRes.res # "ok" /\ ~(OwnNode.leaf /\ Merges))
  <2>1. ~NoLeaf
    BY <1>1, <1>2 DEF Why
  <2>2. GrownRes.res # "none"
    <3>1. GrownRes.res \in Results
      BY <1>2, <2>1, CellsGiven
    <3> QED BY <3>1 DEF Results
  <2>3. ~(GrownRes.res # "ok" /\ ~(OwnNode.leaf /\ Merges))
    BY <1>1, <1>2, <2>1, <2>2 DEF Why
  <2> QED BY <2>1, <2>2, <2>3
<1>3. ASSUME Merges \/ Shares PROVE SameParent
  <2> SUFFICES ASSUME ~SameParent PROVE FALSE
    OBVIOUS
  <2>1. Cells(SibNode) # 0 /\ Spot.page \in DOMAIN RestOf
    BY <1>1, <1>2, <1>3 DEF Why
  <2> QED BY <1>1, <2>1, NoWay
<1> QED BY <1>1, <1>2, <1>3

(* A delete goes on in another method.                                     *)
LEMMA DeleteGoesOn ==
  ASSUME IInv, pc \in {"rebalance_leaves", "delete_internal", "rebalance_internals"},
         pc' \in {"return", "delete_internal", "rebalance_internals"},
         num' = num, reply' = reply, StoreInv', DeleteInv'
  PROVE  IInv'
<1>1. CallInv'
  BY DEF IInv, CallInv
<1>2. ShapeInv'
  BY DEF ShapeInv, Inserting
<1>3. RowsInv'
  BY DEF RowsInv
<1> QED BY <1>1, <1>2, <1>3 DEF IInv

(* A way whose last step takes another child.                              *)
Turned(pgs, new, from, p, j, q, w) ==
  /\ Way(pgs, from, p) /\ j \in Nat /\ q = Last(p).page /\ q \in DOMAIN new
  /\ \A i \in 1 .. Len(p) - 1 : p[i].page \in DOMAIN new /\ new[p[i].page] = pgs[p[i].page]
  /\ w = Append(Front(p), Entry(q, j))

(* A way whose last entry takes another child.                             *)
LEMMA WayTurned ==
  ASSUME NEW pgs, NEW new, NEW from, NEW p, NEW j, NEW q, NEW w, Turned(pgs, new, from, p, j, q, w)
  PROVE  Way(new, from, w) /\ Last(w) = Entry(q, j)
<1> SUFFICES ASSUME Way(pgs, from, p), j \in Nat, q = Last(p).page, q \in DOMAIN new,
                    \A i \in 1 .. Len(p) - 1 : p[i].page \in DOMAIN new /\ new[p[i].page] = pgs[p[i].page],
                    w = Append(Front(p), Entry(q, j))
             PROVE  Way(new, from, w) /\ Last(w) = Entry(q, j)
  BY DEF Turned
<1> DEFINE N == Len(p)  e == Entry(q, j)
<1>1. p \in Seq(Step) /\ N \in Nat /\ N > 0 /\ q = p[N].page
  BY DEF Way, Last
<1>2. e \in Step /\ e.page = q /\ e.idx = j
  <2>1. p[N] \in Step
    BY <1>1
  <2> QED BY <1>1, <2>1 DEF Entry, Step
<1> DEFINE f == Front(p)
<1>3. f \in Seq(Step) /\ Len(f) = N - 1 /\ \A i \in 1 .. N - 1 : f[i] = p[i]
  <2>1. f = SubSeq(p, 1, N - 1)
    BY DEF Front
  <2>2. \A i \in 1 .. N - 1 : SubSeq(p, 1, N - 1)[i] = p[i]
    BY <1>1
  <2>3. f \in Seq(Step) /\ Len(f) = N - 1
    BY <1>1, FrontOf
  <2> QED BY <2>1, <2>2, <2>3
<1> HIDE DEF f, e
<1>4. w \in Seq(Step) /\ Len(w) = N /\ w[N] = e /\ \A i \in 1 .. N - 1 : w[i] = p[i]
  <2>1. w = Append(f, e)
    BY DEF f, e
  <2>2. w \in Seq(Step)
    BY <1>2, <1>3, <2>1
  <2> DEFINE M == Len(f)
  <2>3. M \in Nat /\ Len(w) = M + 1 /\ w[M + 1] = e /\ \A i \in 1 .. M : w[i] = f[i]
    BY ONLY <1>2, <1>3, <2>1
  <2>4. M = N - 1 /\ M + 1 = N
    BY <1>1, <1>3
  <2> HIDE DEF M, N
  <2>5. Len(w) = N /\ w[N] = e
    BY ONLY <2>3, <2>4
  <2>6. \A i \in 1 .. N - 1 : w[i] = p[i]
    BY ONLY <1>3, <2>3, <2>4
  <2> QED BY <2>2, <2>5, <2>6
<1> HIDE DEF N
<1>5. /\ \A i \in 1 .. N : p[i].page \in DOMAIN pgs
      /\ \A i \in 1 .. N - 1 : /\ p[i].idx + 1 \in 1 .. Len(pgs[p[i].page].kids)
                               /\ p[i + 1].page = pgs[p[i].page].kids[p[i].idx + 1]
      /\ p[1].page = from
  BY DEF Way, N
<1>6. \A i \in 1 .. N : w[i].page = p[i].page
  <2> SUFFICES ASSUME NEW i \in 1 .. N PROVE w[i].page = p[i].page
    OBVIOUS
  <2>1. i = N \/ i \in 1 .. N - 1
    BY <1>1
  <2> QED BY <1>1, <1>2, <1>4, <2>1
<1>7. \A i \in 1 .. N : w[i].page \in DOMAIN new
  <2> SUFFICES ASSUME NEW i \in 1 .. N PROVE w[i].page \in DOMAIN new
    OBVIOUS
  <2>1. i = N \/ i \in 1 .. N - 1
    BY <1>1
  <2>2. ASSUME i \in 1 .. N - 1 PROVE p[i].page \in DOMAIN new
    BY <2>2 DEF N
  <2> QED BY <1>1, <1>6, <2>1, <2>2
<1>8. ASSUME NEW i \in 1 .. N - 1
      PROVE  /\ w[i].idx + 1 \in 1 .. Len(new[w[i].page].kids)
             /\ w[i + 1].page = new[w[i].page].kids[w[i].idx + 1]
  <2>1. w[i] = p[i] /\ new[p[i].page] = pgs[p[i].page]
    BY <1>4, <1>8 DEF N
  <2>2. i + 1 \in 1 .. N
    BY <1>1
  <2>3. w[i + 1].page = p[i + 1].page
    BY <1>6, <2>2
  <2> QED BY <1>5, <2>1, <2>3
<1>9. w[1].page = from
  <2>1. 1 \in 1 .. N
    BY <1>1
  <2> QED BY <1>5, <1>6, <2>1
<1>10. Last(w) = e
  BY <1>4 DEF Last
<1> QED BY <1>1, <1>4, <1>7, <1>8, <1>9, <1>10 DEF Way, e

(* The cells that move are above the page's own.                           *)
LEMMA EdgeAt ==
  ASSUME NEW full, NEW h, NEW lo, NEW hi, ToRebalance(full, h, lo, hi), SibId # Null,
         Above # << >>, Cells(RestOf[ParentEntry.page]) # 0, ~NoLeaf, SameParent,
         NEW q, q = ParentEntry.page, NEW c, c = ParentEntry.idx + 1
  PROVE  /\ q \in DOMAIN full /\ ~full[q].leaf /\ c \in 1 .. Len(full[q].keys) /\ c \in Nat
         /\ full[q].kids[c] = OwnId /\ full[q].kids[c + 1] = SibId /\ h[q] = h[OwnId] + 1
         /\ q \in DOMAIN RestOf /\ RestOf[q] = full[q] /\ Way(full, root, Above)
         /\ \E f : Edge(full, h, lo, hi, q, c, f) /\ Given(SibNode, f, MovedCells)
<1>1. Above # << >> /\ Cells(RestOf[q]) # 0 /\ ~NoLeaf /\ SameParent
  OBVIOUS
<1>2. /\ q \in DOMAIN full /\ ~full[q].leaf /\ h[q] = h[OwnId] + 1
      /\ q \in DOMAIN RestOf /\ RestOf[q] = full[q] /\ Way(full, root, Above) /\ Len(full[q].keys) \in Nat
  BY <1>1, ParentPage
<1>3. c \in 1 .. Len(full[q].keys) /\ full[q].kids[c] = OwnId /\ full[q].kids[c + 1] = SibId
  BY <1>1, NextChild
<1>4. \E f : Edge(full, h, lo, hi, q, c, f) /\ Given(SibNode, f, MovedCells)
  <2> DEFINE leaf == LeftmostLeaf(RestOf, SibNode.kids[1])  sib == SibNode  rest == RestOf
  <2>1. Whole(full, root, h, lo, hi) /\ PagesOK(full)
    BY DEF ToRebalance, Deleting
  <2>2. PartOfTree(rest, full) /\ sib = full[full[q].kids[c + 1]]
    BY <1>3, Neighbours
  <2>3. sib.leaf \/ (leaf \in DOMAIN rest /\ rest[leaf].keys # << >>)
    <3>1. OwnNode.leaf = SibNode.leaf
      BY Neighbours
    <3> QED BY <1>1, <3>1 DEF NoLeaf
  <2>4. leaf = LeftmostLeaf(rest, sib.kids[1])
    OBVIOUS
  <2> HIDE DEF leaf, sib, rest
  <2>5. \E f : Edge(full, h, lo, hi, q, c, f) /\ Given(sib, f, Moving(rest, sib))
    BY ONLY <1>2, <1>3, <2>1, <2>2, <2>3, <2>4, EdgeKey
  <2> QED BY <2>5 DEF MovedCells, sib, rest
<1>5. c \in Nat
  BY <1>2, <1>3
<1> QED BY <1>2, <1>3, <1>4, <1>5

LEMMA EdgeCells ==
  ASSUME NEW full, NEW h, NEW lo, NEW hi, ToRebalance(full, h, lo, hi), SibId # Null, Why = "none",
         Merges \/ Shares, NEW q, q = ParentEntry.page, NEW c, c = ParentEntry.idx + 1
  PROVE  /\ q \in DOMAIN full /\ ~full[q].leaf /\ c \in 1 .. Len(full[q].keys) /\ c \in Nat
         /\ full[q].kids[c] = OwnId /\ full[q].kids[c + 1] = SibId /\ h[q] = h[OwnId] + 1
         /\ q \in DOMAIN RestOf /\ RestOf[q] = full[q] /\ Way(full, root, Above)
         /\ \E f : Edge(full, h, lo, hi, q, c, f) /\ Given(SibNode, f, MovedCells)
<1>1. Above # << >> /\ Cells(RestOf[q]) # 0 /\ ~NoLeaf /\ SameParent
  BY WhyNone
<1> QED BY <1>1, EdgeAt

(* A merge takes all cells of the sibling.                                 *)
LEMMA MergeHasRoom ==
  ASSUME NEW full, NEW h, NEW lo, NEW hi, ToRebalance(full, h, lo, hi), SibId # Null,
         Above # << >>, Cells(RestOf[ParentEntry.page]) # 0, ~NoLeaf, SameParent, Merges
  PROVE  GrownRes.res = "ok" /\ GrownRes = InsertAll(OwnNode, MovedCells)
<1> DEFINE q == ParentEntry.page  c == ParentEntry.idx + 1
<1>1. /\ q \in DOMAIN full /\ ~full[q].leaf /\ c \in 1 .. Len(full[q].keys)
      /\ full[q].kids[c] = OwnId /\ full[q].kids[c + 1] = SibId
      /\ \E f : Edge(full, h, lo, hi, q, c, f) /\ Given(SibNode, f, MovedCells)
  BY EdgeAt
<1>2. PICK f : Edge(full, h, lo, hi, q, c, f) /\ Given(SibNode, f, MovedCells)
  BY <1>1
<1> DEFINE n == OwnNode  sib == SibNode  cells == MovedCells  id == OwnId  sid == SibId
<1>3. PageOK(n) /\ PageOK(sib) /\ n.leaf = sib.leaf /\ full[id] = n /\ full[sid] = sib
  BY Neighbours
<1>4. Whole(full, root, h, lo, hi)
  BY DEF ToRebalance
<1>5. id = full[q].kids[c] /\ sid = full[q].kids[c + 1] /\ Given(sib, f, cells)
  BY <1>1, <1>2
<1> HIDE DEF q, c, id, sid
<1>6. /\ lo[id] \in Nat /\ hi[sid] \in Nat /\ f \in Key /\ lo[id] < f /\ f < hi[sid]
      /\ PageFits(full[id], lo[id], f) /\ PageFits(full[sid], f, hi[sid])
  BY ONLY <1>1, <1>2, <1>4, <1>5, AcrossEdge
<1> DEFINE a == lo[id]  z == hi[sid]
<1>7. PageFits(n, a, f) /\ PageFits(sib, f, z) /\ a \in Nat /\ z \in Nat /\ f \in Key /\ f < z
  BY <1>3, <1>6
<1> HIDE DEF n, sib, cells, a, z
<1>8. CellsFor(n.leaf, cells) /\ Behind(n, cells)
  BY ONLY <1>3, <1>5, <1>7, GivenBehind
<1>9. GrownRes = InsertAll(n, cells)
  <2>1. cells \in Seq(Key \X Links)
    BY <1>5 DEF Given
  <2>2. SubSeq(cells, 1, Len(cells)) = cells
    BY ONLY <2>1, AllOfIt
  <2>3. MovedCount = Len(cells)
    BY DEF MovedCount, cells
  <2> QED BY <2>2, <2>3 DEF GrownRes, n, cells
<1>10. InsertAll(n, cells).res = "ok"
  <2>1. Used(n) + Used(sib) < Half /\ sib.leaf = n.leaf
    BY <1>3 DEF Merges, n, sib
  <2>2. CASE n.leaf
    BY ONLY <1>3, <1>5, <1>8, <2>1, <2>2, LeafMerges
  <2>3. CASE ~n.leaf
    BY ONLY <1>3, <1>5, <1>8, <2>1, <2>3, InternalMerges
  <2> QED BY <2>2, <2>3
<1> QED BY <1>9, <1>10 DEF n, cells

LEMMA MergeTakesAll ==
  ASSUME NEW full, NEW h, NEW lo, NEW hi, ToRebalance(full, h, lo, hi), SibId # Null, Why = "none", Merges
  PROVE  GrownRes.res = "ok" /\ GrownRes = InsertAll(OwnNode, MovedCells)
<1>1. Above # << >> /\ Cells(RestOf[ParentEntry.page]) # 0 /\ ~NoLeaf /\ SameParent
  BY WhyNone
<1> QED BY <1>1, MergeHasRoom

(* The pages with the one that has taken its sibling's cells, and without  *)
(* the sibling.                                                            *)
Without(pgs, new, id, sid, m) ==
  /\ DOMAIN new = DOMAIN pgs \ {sid} /\ new[id] = m
  /\ \A p \in DOMAIN new : p # id => new[p] = pgs[p]
  /\ new = [p \in DOMAIN new |-> new[p]]

(* A merge, to be followed by the loss of the key in the parent.           *)
Merger(full, new, tree, h, id, sid, m, q, c) ==
  /\ Without(full, new, id, sid, m) /\ q \in DOMAIN new /\ ~new[q].leaf /\ c \in 1 .. Len(new[q].keys)
  /\ Changed(new, tree, q, DeleteCell(new[q], c))
  /\ tree = [p \in DOMAIN tree |-> tree[p]]
  /\ PagesOK(new) /\ RowsIn(new) = RowsIn(full) /\ LastEmpty(new)

(* The way to the parent of a page is above it.                            *)
LEMMA AboveIsHigh ==
  ASSUME NEW full, NEW h, NEW lo, NEW hi, ToRebalance(full, h, lo, hi), SibId # Null, Above # << >>,
         NEW i \in 1 .. Len(Above)
  PROVE  h[OwnId] < h[Above[i].page] /\ Above[i].page \in DOMAIN full
<1> DEFINE q == ParentEntry.page
<1>1. h[q] = h[OwnId] + 1 /\ Way(full, root, Above) /\ q \in DOMAIN full
  BY ParentPage
<1>2. Whole(full, root, h, lo, hi) /\ OwnId \in DOMAIN full
  BY Neighbours DEF ToRebalance
<1>3. \A j \in 1 .. Len(Above) : h[Above[j].page] + j = h[root] + 1
  BY ONLY <1>1, <1>2, WayHeights DEF Whole
<1>4. Above \in Seq(Step) /\ Len(Above) > 0 /\ q = Above[Len(Above)].page
      /\ \A j \in 1 .. Len(Above) : Above[j].page \in DOMAIN full
  BY <1>1 DEF Way, ParentEntry, Last
<1>5. Above[i].page \in DOMAIN full /\ Len(Above) \in 1 .. Len(Above) /\ Len(Above) \in Nat /\ i \in 1 .. Len(Above)
  BY <1>4
<1>6. h[Above[i].page] \in Nat /\ h[OwnId] \in Nat
  BY ONLY <1>2, <1>5, WholePage
<1>7. h[root] \in Nat
  <2>1. root \in DOMAIN full
    BY <1>2 DEF Whole, Tree, RootFits
  <2> QED BY ONLY <1>2, <2>1, WholePage
<1> DEFINE L == Len(Above)  x == h[Above[i].page]  y == h[OwnId]  z == h[root]
<1>8. x + i = z + 1 /\ (y + 1) + L = z + 1 /\ x \in Nat /\ y \in Nat /\ z \in Nat /\ L \in Nat /\ i \in 1 .. L
  BY <1>1, <1>3, <1>4, <1>5, <1>6, <1>7
<1> HIDE DEF L, x, y, z, q
<1>9. y < x
  BY ONLY <1>8
<1> QED BY <1>5, <1>9 DEF x, y

(* The way with the index of the sibling, in pages that differ at the      *)
(* parent's level and below only.                                          *)
LEMMA SibWayIs ==
  ASSUME NEW full, NEW h, NEW lo, NEW hi, ToRebalance(full, h, lo, hi), SibId # Null, Why = "none",
         Merges \/ Shares, NEW q, q = ParentEntry.page, NEW c, c = ParentEntry.idx + 1,
         NEW tree, q \in DOMAIN tree,
         \A p \in DOMAIN full : h[OwnId] < h[p] /\ p # q => p \in DOMAIN tree /\ tree[p] = full[p]
  PROVE  Way(tree, root, SibWay) /\ Last(SibWay) = Entry(q, c)
<1>1. SameParent /\ Above # << >>
  BY WhyNone
<1>2. SibWay = Append(Front(Above), Entry(q, c))
  BY <1>1 DEF SibWay
<1>3. Way(full, root, Above) /\ c \in Nat
  BY EdgeCells
<1>4. Whole(full, root, h, lo, hi)
  BY DEF ToRebalance
<1>5. \A i \in 1 .. Len(Above) - 1 : Above[i].page # Above[Len(Above)].page
  BY ONLY <1>3, <1>4, WayOnce DEF Whole
<1>6. q = Last(Above).page /\ q = Above[Len(Above)].page /\ Len(Above) \in Nat
  BY <1>3 DEF ParentEntry, Last, Way
<1>7. ASSUME NEW i \in 1 .. Len(Above) - 1
      PROVE  Above[i].page \in DOMAIN tree /\ tree[Above[i].page] = full[Above[i].page]
  <2>1. i \in 1 .. Len(Above)
    BY <1>6
  <2>2. h[OwnId] < h[Above[i].page] /\ Above[i].page \in DOMAIN full
    BY <1>1, <2>1, AboveIsHigh
  <2>3. Above[i].page # q
    BY <1>5, <1>6
  <2> QED BY <2>2, <2>3
<1> DEFINE p == Above  w == SibWay
<1>8. /\ Way(full, root, p) /\ c \in Nat /\ q = Last(p).page /\ q \in DOMAIN tree /\ w = Append(Front(p), Entry(q, c))
      /\ (\A i \in 1 .. Len(p) - 1 : p[i].page \in DOMAIN tree /\ tree[p[i].page] = full[p[i].page])
  BY <1>2, <1>3, <1>6, <1>7
<1> HIDE DEF p, w
<1>10. Turned(full, tree, root, p, c, q, w)
  BY ONLY <1>8 DEF Turned
<1>9. Way(tree, root, w) /\ Last(w) = Entry(q, c)
  BY ONLY <1>10, WayTurned
<1> QED BY <1>9 DEF w

(* The parent of both is found, and without the key it has a whole tree    *)
(* below it.                                                               *)
LEMMA MergeTree ==
  ASSUME NEW full, NEW h, NEW lo, NEW hi, ToRebalance(full, h, lo, hi), SibId # Null, Why = "none", Merges,
         NEW q, q = ParentEntry.page, NEW c, c = ParentEntry.idx + 1,
         NEW id, id = OwnId, NEW sid, sid = SibId, NEW m, m = [GrownRes.node EXCEPT !.next = SibNode.next]
  PROVE  \E new, tree : /\ Merger(full, new, tree, h, id, sid, m, q, c)
                        /\ \E lo2, hi2 : Whole(tree, root, h, lo2, hi2)
                        /\ Way(tree, root, SibWay) /\ Last(SibWay) = Entry(q, c)
<1>1. /\ q \in DOMAIN full /\ ~full[q].leaf /\ c \in 1 .. Len(full[q].keys)
      /\ full[q].kids[c] = id /\ full[q].kids[c + 1] = sid /\ h[q] = h[id] + 1
      /\ \E f : Edge(full, h, lo, hi, q, c, f) /\ Given(SibNode, f, MovedCells)
  BY EdgeCells
<1>2. PICK f : Edge(full, h, lo, hi, q, c, f) /\ Given(SibNode, f, MovedCells)
  BY <1>1
<1>3. GrownRes.res = "ok" /\ GrownRes = InsertAll(OwnNode, MovedCells)
  BY MergeTakesAll
<1>4. /\ id \in DOMAIN full /\ sid \in DOMAIN full /\ id # sid /\ full[id] = OwnNode /\ full[sid] = SibNode
      /\ h[sid] = h[id]
  BY Neighbours
<1>5. Whole(full, root, h, lo, hi) /\ PagesOK(full) /\ LastEmptyBut(full, id) /\ full = [p \in DOMAIN full |-> full[p]]
  BY DEF ToRebalance, Deleting, OwnId, Holds
<1>6. h[id] \in Nat
  BY ONLY <1>4, <1>5, WholePage
<1>7. q # id /\ q # sid
  BY <1>1, <1>4, <1>6
<1> DEFINE new == [p \in DOMAIN full \ {sid} |-> IF p = id THEN m ELSE full[p]]
           k == DeleteCell(new[q], c)
           tree == [p \in DOMAIN new |-> IF p = q THEN k ELSE new[p]]
<1>8. Without(full, new, id, sid, m)
  BY <1>4 DEF Without
<1>9. q \in DOMAIN new /\ new[q] = full[q]
  BY <1>1, <1>7
<1> HIDE DEF new
<1>21. tree = [p \in DOMAIN tree |-> tree[p]]
  OBVIOUS
<1>10. DOMAIN tree = DOMAIN new /\ tree[q] = k /\ \A p \in DOMAIN new : p # q => tree[p] = new[p]
  BY <1>9
<1> HIDE DEF tree
<1>11. Changed(new, tree, q, DeleteCell(new[q], c))
  BY <1>9, <1>10 DEF Changed
<1> DEFINE cells == MovedCells  r == GrownRes
<1>12. /\ Given(full[sid], f, cells) /\ r = InsertAll(full[id], cells) /\ r.res = "ok"
       /\ m = [r.node EXCEPT !.next = full[sid].next]
  BY <1>2, <1>3, <1>4
<1> HIDE DEF cells, r
<1>13. DOMAIN new = DOMAIN full \ {sid} /\ new[id] = m /\ \A p \in DOMAIN new : p # id => new[p] = full[p]
  BY <1>8 DEF Without
<1>14. Merging(full, root, h, lo, hi, q, c, id, sid, f, cells, r, m, new, tree)
  BY ONLY <1>1, <1>2, <1>5, <1>11, <1>12, <1>13 DEF Merging
<1>20. /\ \E lo2, hi2 : Whole(tree, root, h, lo2, hi2)
       /\ PagesOK(new) /\ RowsIn(new) = RowsIn(full)
       /\ LastEmptyBut(full, id) => LastEmpty(new)
  BY ONLY <1>14, MergeStep
<1>15. Merger(full, new, tree, h, id, sid, m, q, c)
  BY <1>1, <1>5, <1>8, <1>9, <1>11, <1>20, <1>21 DEF Merger
<1>16. Way(tree, root, SibWay) /\ Last(SibWay) = Entry(q, c)
  <2>1. ASSUME NEW p \in DOMAIN full, h[OwnId] < h[p], p # q PROVE p \in DOMAIN tree /\ tree[p] = full[p]
    <3>1. h[id] < h[p]
      BY <2>1
    <3>2. p # id /\ p # sid
      BY <1>4, <1>6, <3>1
    <3> QED BY <1>10, <1>13, <2>1, <3>2
  <2>2. q \in DOMAIN tree
    BY <1>9, <1>10
  <2> QED BY <2>1, <2>2, SibWayIs
<1> QED BY <1>20, <1>15, <1>16

(* The pages a page has come to, after another one was given back.         *)
LEMMA HeldAppends ==
  ASSUME NEW hl \in Seq([id : Nat, node : PageRec]), NEW id \in Nat, NEW m \in PageRec,
         NEW hl2, hl2 = Append(hl, [id |-> id, node |-> m])
  PROVE  /\ hl2 \in Seq([id : Nat, node : PageRec]) /\ Len(hl) \in Nat /\ Len(hl2) = Len(hl) + 1
         /\ \A i \in 1 .. Len(hl) : hl2[i] = hl[i]
         /\ hl2[Len(hl) + 1].id = id /\ hl2[Len(hl) + 1].node = m
         /\ {hl2[i].id : i \in 1 .. Len(hl2)} = {hl[i].id : i \in 1 .. Len(hl)} \cup {id}
<1> DEFINE S == [id : Nat, node : PageRec]  e == [id |-> id, node |-> m]  N == Len(hl)
<1>1. e \in S /\ e.id = id /\ e.node = m
  OBVIOUS
<1>2. hl \in Seq(S) /\ hl2 = Append(hl, e)
  OBVIOUS
<1> HIDE DEF S, e
<1>3. hl2 \in Seq(S) /\ N \in Nat /\ Len(hl2) = N + 1 /\ (\A i \in 1 .. N : hl2[i] = hl[i]) /\ hl2[N + 1] = e
  BY ONLY <1>1, <1>2
<1> HIDE DEF N
<1>4. 1 .. N + 1 = (1 .. N) \cup {N + 1}
  BY <1>3
<1>5. {hl2[i].id : i \in 1 .. N + 1} = {hl2[i].id : i \in 1 .. N} \cup {hl2[N + 1].id}
  BY ONLY <1>4
<1>6. {hl2[i].id : i \in 1 .. N} = {hl[i].id : i \in 1 .. N}
  BY ONLY <1>3
<1>7. {hl2[i].id : i \in 1 .. Len(hl2)} = {hl2[i].id : i \in 1 .. N + 1}
  BY ONLY <1>3
<1> QED BY <1>1, <1>3, <1>5, <1>6, <1>7 DEF S, N

(* The pages that are held after the merge are those of the tree.          *)
IdsIn(hl) == {hl[i].id : i \in 1 .. Len(hl)}

(* A page is removed, and another one is held with the cells of both.      *)
GivesUp(full, pgs, tkn, hl, id, sid, m, new, pgs2, tkn2, hl2) ==
  /\ hl \in Seq([id : Nat, node : PageRec]) /\ DOMAIN pgs \cap tkn = {}
  /\ DOMAIN full = DOMAIN pgs \cup {hl[i].id : i \in 1 .. Len(hl)}
  /\ \A p \in DOMAIN pgs : full[p] = pgs[p]
  /\ \A i \in 1 .. Len(hl) : hl[i].id \in tkn /\ full[hl[i].id] = hl[i].node
  /\ id \in DOMAIN pgs /\ sid \in DOMAIN pgs /\ id # sid /\ id \in Nat /\ m \in PageRec
  /\ DOMAIN new = DOMAIN full \ {sid} /\ new[id] = m
  /\ \A p \in DOMAIN new : p # id => new[p] = full[p]
  /\ DOMAIN pgs2 = DOMAIN pgs \ {id, sid} /\ \A p \in DOMAIN pgs2 : pgs2[p] = pgs[p]
  /\ tkn2 = tkn \cup {id, sid}
  /\ hl2 = Append(hl, [id |-> id, node |-> m])

(* Holds, of any pages.                                                    *)
HoldsIn(full, pgs, tkn, hl) ==
  /\ hl \in Seq([id : Nat, node : PageRec])
  /\ DOMAIN full = DOMAIN pgs \cup IdsIn(hl)
  /\ \A p \in DOMAIN pgs : full[p] = pgs[p]
  /\ \A i \in 1 .. Len(hl) : hl[i].id \in tkn /\ full[hl[i].id] = hl[i].node

(* The callers hold the pages of the tree that are not registered.         *)
LEMMA HoldsMerged ==
  ASSUME NEW full, NEW pgs, NEW tkn, NEW hl, NEW id, NEW sid, NEW m, NEW new, NEW pgs2, NEW tkn2, NEW hl2,
         GivesUp(full, pgs, tkn, hl, id, sid, m, new, pgs2, tkn2, hl2)
  PROVE  HoldsIn(new, pgs2, tkn2, hl2)
<1> USE DEF GivesUp
<1> DEFINE N == Len(hl)  H == {hl[i].id : i \in 1 .. Len(hl)}  H2 == {hl2[i].id : i \in 1 .. Len(hl2)}
<1>1. /\ hl2 \in Seq([id : Nat, node : PageRec]) /\ N \in Nat /\ Len(hl2) = N + 1
      /\ (\A i \in 1 .. N : hl2[i] = hl[i]) /\ hl2[N + 1].id = id /\ hl2[N + 1].node = m
      /\ H2 = H \cup {id}
  <2>1. hl \in Seq([id : Nat, node : PageRec]) /\ id \in Nat /\ m \in PageRec /\ hl2 = Append(hl, [id |-> id, node |-> m])
    OBVIOUS
  <2> QED BY ONLY <2>1, HeldAppends DEF N, H, H2
<1>2. ASSUME NEW i \in 1 .. N PROVE hl[i].id \in tkn /\ hl[i].id # id /\ hl[i].id # sid /\ hl[i].id \in DOMAIN full
  OBVIOUS
<1>3. \A p \in H : p # id /\ p # sid
  BY <1>2
<1>4. DOMAIN full = DOMAIN pgs \cup H
  OBVIOUS
<1> HIDE DEF H, H2
<1>5. DOMAIN new = DOMAIN pgs2 \cup H2
  BY <1>1, <1>3, <1>4
<1>6. \A p \in DOMAIN pgs2 : new[p] = pgs2[p]
  BY <1>4
<1>7. ASSUME NEW i \in 1 .. Len(hl2) PROVE hl2[i].id \in tkn2 /\ new[hl2[i].id] = hl2[i].node
  <2>1. CASE i \in 1 .. N
    <3>1. hl[i].id \in tkn /\ hl[i].id # id /\ hl[i].id # sid /\ hl[i].id \in DOMAIN full
      BY <1>2, <2>1
    <3>2. hl[i].id \in DOMAIN new
      BY <3>1
    <3>3. new[hl[i].id] = full[hl[i].id] /\ full[hl[i].id] = hl[i].node
      BY <2>1, <3>1, <3>2
    <3>4. hl2[i] = hl[i]
      BY <1>1, <2>1
    <3> QED BY <3>1, <3>3, <3>4
  <2>2. CASE i = N + 1
    BY <1>1, <2>2
  <2> QED BY <1>1, <2>1, <2>2
<1> QED BY <1>1, <1>5, <1>6, <1>7 DEF H2, IdsIn, HoldsIn

(* The parent's level is above the pages that are held.                    *)
LEMMA UpwardMerged ==
  ASSUME NEW full, NEW h, NEW hl \in Seq([id : Nat, node : PageRec]), NEW id \in Nat, NEW m \in PageRec,
         NEW hl2, hl2 = Append(hl, [id |-> id, node |-> m]), NEW q,
         \A i \in 1 .. Len(hl) : h[hl[i].id] \in Nat /\ h[hl[i].id] < h[id], h[id] \in Nat, h[q] = h[id] + 1
  PROVE  \A i \in 1 .. Len(hl2) : h[hl2[i].id] < h[q]
<1> DEFINE N == Len(hl)  x == h[id]  z == h[q]
<1>1. N \in Nat /\ Len(hl2) = N + 1 /\ (\A i \in 1 .. N : hl2[i] = hl[i]) /\ hl2[N + 1].id = id
  BY HeldAppends
<1>2. TAKE i \in 1 .. Len(hl2)
<1> DEFINE y == h[hl2[i].id]
<1>3. CASE i \in 1 .. N
  <2>1. hl2[i] = hl[i]
    BY <1>1, <1>3
  <2>2. y \in Nat /\ y < x /\ x \in Nat /\ z = x + 1
    BY <1>3, <2>1
  <2> HIDE DEF x, y, z
  <2>3. y < z
    BY ONLY <2>2
  <2> QED BY <2>3 DEF y, z
<1>4. CASE i = N + 1
  <2>1. y = x /\ x \in Nat /\ z = x + 1
    BY <1>1, <1>4
  <2> HIDE DEF x, y, z
  <2>2. y < z
    BY ONLY <2>1
  <2> QED BY <2>2 DEF y, z
<1> QED BY <1>1, <1>2, <1>3, <1>4

(* The pages of the file after two were taken.                             *)
LEMMA StoreTakes ==
  ASSUME StoreInv, NEW id \in DOMAIN pages, NEW sid \in DOMAIN pages,
         pages' = Restrict(pages, DOMAIN pages \ {id, sid}), taken' = taken \cup {id, sid},
         root' = root /\ num' = num /\ free' = free
  PROVE  StoreInv'
<1>1. DOMAIN pages' = DOMAIN pages \ {id, sid} /\ (\A p \in DOMAIN pages' : pages'[p] = pages[p])
      /\ pages' = [p \in DOMAIN pages' |-> pages'[p]]
  BY DEF Restrict
<1>2. PagesOK(pages')
  BY <1>1 DEF PagesOK, StoreInv
<1>3. /\ root \in Nat /\ num \in Nat
      /\ DOMAIN pages \cup taken \cup free = 0 .. num - 1
      /\ DOMAIN pages \cap taken = {} /\ DOMAIN pages \cap free = {} /\ taken \cap free = {}
  BY DEF StoreInv
<1>4. /\ DOMAIN pages' \cup taken' \cup free' = 0 .. num - 1
      /\ DOMAIN pages' \cap taken' = {} /\ DOMAIN pages' \cap free' = {} /\ taken' \cap free' = {}
  BY <1>1, <1>3
<1>5. root' \in Nat /\ num' \in Nat /\ DOMAIN pages' \cup taken' \cup free' = 0 .. num' - 1
  BY <1>3, <1>4
<1> QED BY <1>1, <1>2, <1>4, <1>5 DEF StoreInv

(* A page takes all the cells of its sibling.                              *)
LEMMA MergeKeeps ==
  ASSUME IInv, pc \in {"rebalance_leaves", "rebalance_internals"}, SibId # Null, Why = "none", Merges,
         MergeDone, UNCHANGED <<op, before>>
  PROVE  IInv'
<1>1. PICK full, h, lo, hi : ToRebalance(full, h, lo, hi)
  BY DEF IInv, DeleteInv
<1>2. PICK id, sid, q, c, m, way : /\ id = OwnId /\ sid = SibId /\ q = ParentEntry.page /\ c = ParentEntry.idx + 1
                                   /\ m = [GrownRes.node EXCEPT !.next = SibNode.next] /\ way = SibWay
  OBVIOUS
<1>3. \E new, tree : /\ Merger(full, new, tree, h, id, sid, m, q, c)
                     /\ \E lo2, hi2 : Whole(tree, root, h, lo2, hi2)
                     /\ Way(tree, root, way) /\ Last(way) = Entry(q, c)
  BY <1>1, <1>2, MergeTree
<1>4. PICK new, tree, lo2, hi2 : /\ Merger(full, new, tree, h, id, sid, m, q, c)
                                 /\ Whole(tree, root, h, lo2, hi2)
                                 /\ Way(tree, root, way) /\ Last(way) = Entry(q, c)
  BY <1>3
<1>5. /\ id \in DOMAIN full /\ sid \in DOMAIN full /\ id # sid /\ id \in DOMAIN pages /\ sid \in DOMAIN pages
      /\ DOMAIN RestOf = DOMAIN pages \ {id, sid}
  BY <1>1, <1>2, Neighbours
<1>6. SameParent /\ h[q] = h[id] + 1
  <2>1. SameParent
    BY <1>1, WhyNone
  <2>2. h[q] = h[id] + 1
    BY <1>1, <1>2, EdgeCells
  <2> QED BY <2>1, <2>2
<1>7. /\ pages' = RestOf /\ taken' = taken \cup {id, sid} /\ held' = Append(held, [id |-> id, node |-> m])
      /\ pc' = "delete_internal" /\ path' = way /\ root' = root /\ num' = num /\ free' = free /\ reply' = reply
      /\ op' = op /\ before' = before
  BY <1>2, <1>6 DEF MergeDone
<1>8. RestOf = Restrict(pages, DOMAIN pages \ {id, sid})
  BY <1>2 DEF RestOf
<1>9. StoreInv'
  BY <1>5, <1>7, <1>8, StoreTakes DEF IInv
<1>10. Holds(full) /\ Upward(full, h) /\ Whole(full, root, h, lo, hi) /\ HasDeleted(full) /\ Deletable # {}
  BY <1>1 DEF ToRebalance, Deleting
<1>11. /\ DOMAIN new = DOMAIN full \ {sid} /\ new[id] = m /\ (\A p \in DOMAIN new : p # id => new[p] = full[p])
       /\ new = [p \in DOMAIN new |-> new[p]] /\ PagesOK(new) /\ RowsIn(new) = RowsIn(full) /\ LastEmpty(new)
       /\ q \in DOMAIN new /\ ~new[q].leaf /\ c \in 1 .. Len(new[q].keys)
       /\ Changed(new, tree, q, DeleteCell(new[q], c)) /\ tree = [p \in DOMAIN tree |-> tree[p]]
  BY <1>4 DEF Merger, Without
<1>12. id \in Nat /\ m \in PageRec
  <2>1. DOMAIN pages \subseteq 0 .. num - 1
    BY DEF IInv, StoreInv
  <2>2. id \in Nat
    BY <1>5, <2>1
  <2>3. id \in DOMAIN new
    BY <1>5, <1>11
  <2> QED BY <1>11, <2>2, <2>3 DEF PagesOK, PageOK
<1>13. \A p \in DOMAIN RestOf : RestOf[p] = pages[p]
  BY <1>8 DEF Restrict
<1>14. Holds(new)'
  <2> DEFINE pgs == pages  tkn == taken  hl == held  pgs2 == pages'  tkn2 == taken'  hl2 == held'
  <2>1. /\ hl \in Seq([id : Nat, node : PageRec]) /\ DOMAIN pgs \cap tkn = {}
        /\ DOMAIN full = DOMAIN pgs \cup {hl[i].id : i \in 1 .. Len(hl)}
        /\ \A p \in DOMAIN pgs : full[p] = pgs[p]
        /\ \A i \in 1 .. Len(hl) : hl[i].id \in tkn /\ full[hl[i].id] = hl[i].node
    BY <1>10 DEF Holds, IInv, StoreInv
  <2>2. /\ id \in DOMAIN pgs /\ sid \in DOMAIN pgs /\ id # sid /\ id \in Nat /\ m \in PageRec
        /\ DOMAIN new = DOMAIN full \ {sid} /\ new[id] = m /\ \A p \in DOMAIN new : p # id => new[p] = full[p]
    BY <1>5, <1>11, <1>12
  <2>3. /\ DOMAIN pgs2 = DOMAIN pgs \ {id, sid} /\ \A p \in DOMAIN pgs2 : pgs2[p] = pgs[p]
    BY <1>5, <1>7, <1>13
  <2>4. tkn2 = tkn \cup {id, sid} /\ hl2 = Append(hl, [id |-> id, node |-> m])
    BY <1>7
  <2> HIDE DEF pgs, tkn, hl, pgs2, tkn2, hl2
  <2>6. GivesUp(full, pgs, tkn, hl, id, sid, m, new, pgs2, tkn2, hl2)
    BY ONLY <2>1, <2>2, <2>3, <2>4 DEF GivesUp
  <2>5. HoldsIn(new, pgs2, tkn2, hl2)
    BY ONLY <2>6, HoldsMerged
  <2> QED BY <1>11, <2>5 DEF Holds, HoldsIn, IdsIn, pgs2, tkn2, hl2
<1>15. Upward(tree, h)'
  <2> DEFINE hl == held  hl2 == held'
  <2>1. hl \in Seq([id : Nat, node : PageRec]) /\ hl2 = Append(hl, [id |-> id, node |-> m]) /\ h[q] = h[id] + 1
    BY <1>6, <1>7, <1>10 DEF Holds
  <2>2. h[id] \in Nat
    BY <1>5, <1>10, WholePage
  <2>3. ASSUME NEW i \in 1 .. Len(hl) PROVE h[hl[i].id] \in Nat /\ h[hl[i].id] < h[id]
    <3>1. hl[i].id \in DOMAIN full
      BY <1>10 DEF Holds
    <3>2. h[hl[i].id] \in Nat
      BY <1>10, <3>1, WholePage
    <3> QED BY <1>2, <1>10, <3>2 DEF Upward, OwnId
  <2> HIDE DEF hl, hl2
  <2>4. \A i \in 1 .. Len(hl2) : h[hl2[i].id] < h[q]
    BY ONLY <1>12, <2>1, <2>2, <2>3, UpwardMerged
  <2>5. Last(path').page = q /\ Way(tree, root', path')
    BY <1>4, <1>7 DEF Entry
  <2> QED BY <2>4, <2>5 DEF Upward, hl2
<1>16. Last(path').page = q /\ Last(path').idx = c /\ root' = root
  BY <1>4, <1>7 DEF Entry
<1>17. HasDeleted(new)'
  BY <1>7, <1>10, <1>11 DEF HasDeleted
<1>18. Whole(tree, root', h, lo2, hi2)
  BY <1>4, <1>16
<1>19. ToPrune(new, tree, h, lo2, hi2)'
  BY <1>10, <1>11, <1>14, <1>15, <1>16, <1>17, <1>18 DEF ToPrune, Deleting
<1>20. DeleteInv'
  BY <1>7, <1>19 DEF DeleteInv
<1> QED BY <1>7, <1>9, <1>20, DeleteGoesOn

(* The pages stay where they are, and so do those that are held.           *)
LEMMA HoldsStill ==
  ASSUME NEW full, Holds(full), StoreInv, NEW new, DOMAIN new = DOMAIN full, new = [p \in DOMAIN new |-> new[p]],
         DOMAIN pages' = DOMAIN pages, \A p \in DOMAIN pages : pages'[p] = new[p],
         \A p \in DOMAIN full : p \notin DOMAIN pages => new[p] = full[p],
         taken' = taken, held' = held
  PROVE  Holds(new)'
<1> DEFINE hl == held  tkn == taken  pgs == pages  pgs2 == pages'
<1>1. /\ hl \in Seq([id : Nat, node : PageRec]) /\ DOMAIN full = DOMAIN pgs \cup {hl[i].id : i \in 1 .. Len(hl)}
      /\ \A i \in 1 .. Len(hl) : hl[i].id \in tkn /\ full[hl[i].id] = hl[i].node
  BY DEF Holds
<1>2. DOMAIN pgs \cap tkn = {}
  BY DEF StoreInv
<1>3. \A i \in 1 .. Len(hl) : hl[i].id \in tkn /\ new[hl[i].id] = hl[i].node
  <2> TAKE i \in 1 .. Len(hl)
  <2>1. hl[i].id \in DOMAIN full /\ hl[i].id \in tkn /\ full[hl[i].id] = hl[i].node
    BY <1>1
  <2>2. hl[i].id \notin DOMAIN pgs
    BY <1>2, <2>1
  <2>3. new[hl[i].id] = full[hl[i].id]
    BY <2>1, <2>2
  <2> QED BY <2>1, <2>3
<1>4. DOMAIN new = DOMAIN pgs2 \cup {hl[i].id : i \in 1 .. Len(hl)} /\ \A p \in DOMAIN pgs2 : new[p] = pgs2[p]
  BY <1>1
<1>5. hl = held' /\ tkn = taken'
  OBVIOUS
<1> HIDE DEF hl, tkn
<1> QED BY <1>1, <1>3, <1>4, <1>5 DEF Holds

(* No page but the last one is empty if the cells need not move.           *)
LEMMA StillFull ==
  ASSUME NEW full, NEW h, NEW lo, NEW hi, ToRebalance(full, h, lo, hi),
         SibId = Null \/ (~Merges /\ ~Shares)
  PROVE  LastEmpty(full)
<1>1. LastEmptyBut(full, OwnId) /\ Deletable # {}
  BY DEF ToRebalance, Deleting, OwnId
<1> SUFFICES ASSUME NEW p \in DOMAIN full, full[p].leaf, full[p].next # Null \/ Deletable = {},
                    p = OwnId, Len(full[p].keys) = 0
             PROVE  FALSE
  BY <1>1 DEF LastEmpty, LastEmptyBut
<1>2. full[OwnId] = OwnNode
  <2>1. Holds(full) /\ Whole(full, root, h, lo, hi) /\ Upward(full, h)
    BY DEF ToRebalance, Deleting
  <2>2. h[OwnId] \in Nat /\ OwnId \in DOMAIN full
    BY <2>1, WholePage
  <2>3. h[OwnId] <= h[OwnId]
    BY <2>2
  <2> QED BY <2>1, <2>2, <2>3, HeldBelow DEF OwnNode
<1>3. SibId # Null
  BY <1>1, <1>2 DEF SibId
<1>4. PageOK(OwnNode) /\ PageOK(SibNode) /\ OwnNode.leaf = SibNode.leaf
  BY <1>3, Neighbours
<1>5. OwnNode.leaf /\ SibNode.leaf /\ Len(OwnNode.keys) = 0
  BY <1>2, <1>4
<1>6. ~(Used(OwnNode) + Used(SibNode) < Half) /\ ~(Cells(OwnNode) < Cells(SibNode))
  BY <1>3 DEF Merges, Shares
<1> DEFINE n == OwnNode  sib == SibNode
<1>7. PageOK(n) /\ n.leaf /\ PageOK(sib) /\ sib.leaf /\ Len(n.keys) = 0 /\ ~(Used(n) + Used(sib) < Half)
  BY <1>4, <1>5, <1>6
<1>8. ~(Cells(n) < Cells(sib))
  BY <1>6
<1> HIDE DEF n, sib
<1> QED BY ONLY <1>7, <1>8, EmptyTakes

(* A delete that changes nothing more returns.                             *)
LEMMA ReturnsSame ==
  ASSUME IInv, pc \in {"rebalance_leaves", "rebalance_internals"}, SibId = Null \/ (~Merges /\ ~Shares),
         UNCHANGED store, pc' = "return", UNCHANGED <<held, reply, op, before>>
  PROVE  IInv'
<1>1. PICK full, h, lo, hi : ToRebalance(full, h, lo, hi)
  BY DEF IInv, DeleteInv
<1>2. pages' = pages /\ root' = root /\ num' = num /\ taken' = taken /\ free' = free
  BY DEF store
<1>3. StoreInv'
  BY <1>2 DEF IInv, StoreInv
<1>4. LastEmpty(full)
  BY <1>1, StillFull
<1>5. Holds(full) /\ PagesOK(full) /\ HasDeleted(full) /\ Deletable # {} /\ Whole(full, root, h, lo, hi)
  BY <1>1 DEF ToRebalance, Deleting
<1>6. Holds(full)'
  BY <1>2, <1>5 DEF Holds
<1>7. HasDeleted(full)'
  BY <1>5 DEF HasDeleted
<1>8. ToReturn(full, h, lo, hi)'
  BY <1>2, <1>4, <1>5, <1>6, <1>7 DEF ToReturn, Deleting
<1>9. DeleteInv'
  BY <1>8 DEF DeleteInv
<1> QED BY <1>2, <1>3, <1>9, DeleteGoesOn

(* What the two pages and the parent become.                               *)
ShareTo(full, new, id, sid, q, c) ==
  /\ DOMAIN new = DOMAIN full /\ new = [p \in DOMAIN new |-> new[p]]
  /\ id \in DOMAIN full /\ sid \in DOMAIN full /\ q \in DOMAIN full /\ id # sid /\ q # id /\ q # sid
  /\ new[id] = GrownRes.node /\ new[sid] = Remainder(full[sid], LeftCells)
  /\ new[q] = [full[q] EXCEPT !.keys[c] = Head(LeftCells)[1]]
  /\ \A p \in DOMAIN new : p # id /\ p # sid /\ p # q => new[p] = full[p]

(* When cells move, the parent has the new key between the two pages, and  *)
(* the tree is whole.                                                      *)
LEMMA ShareTree ==
  ASSUME NEW full, NEW h, NEW lo, NEW hi, ToRebalance(full, h, lo, hi), SibId # Null, Why = "none", ~Merges, Shares,
         NEW q, q = ParentEntry.page, NEW c, c = ParentEntry.idx + 1, NEW id, id = OwnId, NEW sid, sid = SibId
  PROVE  \E new : /\ ShareTo(full, new, id, sid, q, c)
                  /\ \E lo2, hi2 : Whole(new, root, h, lo2, hi2)
                  /\ PagesOK(new) /\ RowsIn(new) = RowsIn(full) /\ LastEmpty(new)
<1>1. /\ q \in DOMAIN full /\ ~full[q].leaf /\ c \in 1 .. Len(full[q].keys)
      /\ full[q].kids[c] = id /\ full[q].kids[c + 1] = sid /\ h[q] = h[id] + 1
      /\ \E f : Edge(full, h, lo, hi, q, c, f) /\ Given(SibNode, f, MovedCells)
  BY EdgeCells
<1>2. PICK f : Edge(full, h, lo, hi, q, c, f) /\ Given(SibNode, f, MovedCells)
  BY <1>1
<1>3. /\ id \in DOMAIN full /\ sid \in DOMAIN full /\ id # sid /\ full[id] = OwnNode /\ full[sid] = SibNode
      /\ h[sid] = h[id] /\ PageOK(OwnNode) /\ PageOK(SibNode) /\ OwnNode.leaf = SibNode.leaf
  BY Neighbours
<1>4. Whole(full, root, h, lo, hi) /\ PagesOK(full) /\ LastEmptyBut(full, id)
  BY DEF ToRebalance, Deleting, OwnId
<1>5. q # id /\ q # sid
  <2>1. h[id] \in Nat
    BY ONLY <1>3, <1>4, WholePage
  <2> QED BY <1>1, <1>3, <2>1
<1>6. GrownRes.res = "ok"
  BY WhyNone
<1> DEFINE n == OwnNode  sib == SibNode  cells == MovedCells  give == MovedCount
<1>7. give \in 1 .. Len(cells) - 1
  <2>1. /\ PageOK(n) /\ PageOK(sib) /\ n.leaf = sib.leaf /\ ~(Used(n) + Used(sib) < Half) /\ Cells(n) < Cells(sib)
        /\ Given(sib, f, cells) /\ give = (Cells(n) + Cells(sib) + 1) \div 2 - Cells(n)
    BY <1>2, <1>3 DEF Merges, Shares, MovedCount
  <2> HIDE DEF n, sib, cells, give
  <2> QED BY ONLY <2>1, ShareNumbers
<1> DEFINE part == SubSeq(cells, 1, give)  r == GrownRes  left == LeftCells
<1>8. r = InsertAll(n, part) /\ left = SubSeq(cells, give + 1, Len(cells)) /\ r.res = "ok"
  BY <1>6 DEF GrownRes, LeftCells
<1> DEFINE new == [p \in DOMAIN full |-> IF p = id THEN r.node ELSE IF p = sid THEN Remainder(full[sid], left)
                                       ELSE IF p = q THEN [full[q] EXCEPT !.keys[c] = Head(left)[1]] ELSE full[p]]
<1>9. ShareTo(full, new, id, sid, q, c)
  BY <1>1, <1>3, <1>5 DEF ShareTo
<1> HIDE DEF new
<1>10. /\ DOMAIN new = DOMAIN full /\ new[id] = r.node /\ new[sid] = Remainder(full[sid], left)
       /\ new[q] = [full[q] EXCEPT !.keys[c] = Head(left)[1]]
       /\ \A p \in DOMAIN new : p # id /\ p # sid /\ p # q => new[p] = full[p]
  BY <1>9 DEF ShareTo
<1>11. /\ id = full[q].kids[c] /\ sid = full[q].kids[c + 1]
       /\ Given(full[sid], f, cells) /\ r = InsertAll(full[id], part)
  BY <1>1, <1>2, <1>3, <1>8
<1>12. part = SubSeq(cells, 1, give)
  OBVIOUS
<1> HIDE DEF n, sib, cells, give, r, left, part
<1>13. Sharing(full, root, h, lo, hi, q, c, id, sid, f, cells, give, part, r, left, new)
  BY ONLY <1>1, <1>2, <1>4, <1>7, <1>8, <1>10, <1>11, <1>12 DEF Sharing
<1>14. /\ \E lo2, hi2 : Whole(new, root, h, lo2, hi2)
       /\ PagesOK(new) /\ RowsIn(new) = RowsIn(full)
       /\ LastEmptyBut(full, id) => LastEmpty(new)
  BY ONLY <1>13, ShareStep
<1> QED BY <1>4, <1>9, <1>14

(* The three assignments to the pages.                                     *)
LEMMA ShareAssigns ==
  ASSUME NEW pgs, NEW id \in DOMAIN pgs, NEW sid \in DOMAIN pgs, NEW q \in DOMAIN pgs, id # sid, q # id, q # sid,
         NEW a, NEW b, NEW c, NEW k,
         NEW pgs2, pgs2 = [[pgs EXCEPT ![id] = a, ![sid] = b] EXCEPT ![q].keys[c] = k]
  PROVE  /\ DOMAIN pgs2 = DOMAIN pgs /\ pgs2 = [p \in DOMAIN pgs2 |-> pgs2[p]]
         /\ pgs2[id] = a /\ pgs2[sid] = b /\ pgs2[q] = [pgs[q] EXCEPT !.keys[c] = k]
         /\ \A p \in DOMAIN pgs : p # id /\ p # sid /\ p # q => pgs2[p] = pgs[p]
<1> DEFINE one == [pgs EXCEPT ![id] = a]  two == [one EXCEPT ![sid] = b]
           n == [two[q] EXCEPT !.keys[c] = k]  three == [two EXCEPT ![q] = n]
<1>1. DOMAIN one = DOMAIN pgs /\ one[id] = a /\ \A p \in DOMAIN pgs : p # id => one[p] = pgs[p]
  OBVIOUS
<1>2. [pgs EXCEPT ![id] = a, ![sid] = b] = two
  OBVIOUS
<1> HIDE DEF one
<1>3. DOMAIN two = DOMAIN pgs /\ two[id] = a /\ two[sid] = b /\ \A p \in DOMAIN pgs : p # id /\ p # sid => two[p] = pgs[p]
  BY <1>1
<1>4. pgs2 = [two EXCEPT ![q].keys[c] = k]
  BY <1>2
<1> HIDE DEF two
<1>5. pgs2 = three
  BY <1>4
<1>6. n = [pgs[q] EXCEPT !.keys[c] = k]
  BY <1>3
<1> HIDE DEF n
<1>7. /\ DOMAIN three = DOMAIN pgs /\ three[q] = n /\ three = [p \in DOMAIN three |-> three[p]]
      /\ \A p \in DOMAIN pgs : p # q => three[p] = two[p]
  BY <1>3
<1> HIDE DEF three
<1> QED BY <1>3, <1>5, <1>6, <1>7

(* A page takes as many cells as make it and its sibling equal.            *)
LEMMA ShareKeeps ==
  ASSUME IInv, pc \in {"rebalance_leaves", "rebalance_internals"}, SibId # Null, Why = "none", ~Merges, Shares,
         ShareDone, UNCHANGED <<op, before>>
  PROVE  IInv'
<1>1. PICK full, h, lo, hi : ToRebalance(full, h, lo, hi)
  BY DEF IInv, DeleteInv
<1>2. PICK id, sid, q, c, k, a, b : /\ id = OwnId /\ sid = SibId /\ q = ParentEntry.page /\ c = ParentEntry.idx + 1
                                    /\ k = Head(LeftCells)[1] /\ a = GrownRes.node /\ b = Remainder(SibNode, LeftCells)
  OBVIOUS
<1>3. \E new : /\ ShareTo(full, new, id, sid, q, c)
               /\ \E lo2, hi2 : Whole(new, root, h, lo2, hi2)
               /\ PagesOK(new) /\ RowsIn(new) = RowsIn(full) /\ LastEmpty(new)
  BY <1>1, <1>2, ShareTree
<1>4. PICK new, lo2, hi2 : /\ ShareTo(full, new, id, sid, q, c) /\ Whole(new, root, h, lo2, hi2)
                           /\ PagesOK(new) /\ RowsIn(new) = RowsIn(full) /\ LastEmpty(new)
  BY <1>3
<1>5. Spot = Entry(q, c)
  <2>1. \A p \in DOMAIN full : h[OwnId] < h[p] /\ p # q => p \in DOMAIN full /\ full[p] = full[p]
    OBVIOUS
  <2>2. q \in DOMAIN full
    BY <1>4 DEF ShareTo
  <2>3. Last(SibWay) = Entry(q, c)
    BY <1>1, <1>2, <2>1, <2>2, SibWayIs
  <2> QED BY <2>3 DEF Spot
<1>6. Spot.page = q /\ Spot.idx = c
  BY <1>5 DEF Entry
<1>7. /\ pages' = [[pages EXCEPT ![id] = a, ![sid] = b] EXCEPT ![q].keys[c] = k]
      /\ pc' = "return" /\ root' = root /\ num' = num /\ taken' = taken /\ free' = free /\ held' = held
      /\ reply' = reply /\ op' = op /\ before' = before
  BY <1>2, <1>6 DEF ShareDone
<1>8. /\ id \in DOMAIN pages /\ sid \in DOMAIN pages /\ full[id] = pages[id] /\ full[sid] = pages[sid]
      /\ full[sid] = SibNode
  BY <1>1, <1>2, Neighbours DEF OwnNode, SibNode
<1>9. q \in DOMAIN pages /\ full[q] = pages[q]
  <2>1. q \in DOMAIN RestOf /\ RestOf[q] = full[q]
    BY <1>1, <1>2, EdgeCells
  <2>2. q \in DOMAIN pages
    BY <2>1 DEF RestOf, Restrict
  <2>3. Holds(full)
    BY <1>1 DEF ToRebalance, Deleting
  <2> QED BY <2>2, <2>3 DEF Holds
<1>10. id # sid /\ q # id /\ q # sid
  BY <1>4 DEF ShareTo
<1>11. /\ DOMAIN pages' = DOMAIN pages /\ pages' = [p \in DOMAIN pages' |-> pages'[p]]
       /\ pages'[id] = a /\ pages'[sid] = b /\ pages'[q] = [pages[q] EXCEPT !.keys[c] = k]
       /\ \A p \in DOMAIN pages : p # id /\ p # sid /\ p # q => pages'[p] = pages[p]
  <2> DEFINE pgs == pages  pgs2 == pages'
  <2>1. /\ id \in DOMAIN pgs /\ sid \in DOMAIN pgs /\ q \in DOMAIN pgs /\ id # sid /\ q # id /\ q # sid
        /\ pgs2 = [[pgs EXCEPT ![id] = a, ![sid] = b] EXCEPT ![q].keys[c] = k]
    BY <1>7, <1>8, <1>9, <1>10
  <2> HIDE DEF pgs, pgs2
  <2>2. /\ DOMAIN pgs2 = DOMAIN pgs /\ pgs2 = [p \in DOMAIN pgs2 |-> pgs2[p]]
        /\ pgs2[id] = a /\ pgs2[sid] = b /\ pgs2[q] = [pgs[q] EXCEPT !.keys[c] = k]
        /\ \A p \in DOMAIN pgs : p # id /\ p # sid /\ p # q => pgs2[p] = pgs[p]
    BY ONLY <2>1, ShareAssigns
  <2> QED BY <2>2 DEF pgs, pgs2
<1>12. Holds(full) /\ HasDeleted(full) /\ Deletable # {}
  BY <1>1 DEF ToRebalance, Deleting
<1>13. /\ DOMAIN new = DOMAIN full /\ new = [p \in DOMAIN new |-> new[p]]
       /\ new[id] = a /\ new[sid] = b /\ new[q] = [full[q] EXCEPT !.keys[c] = k]
       /\ \A p \in DOMAIN new : p # id /\ p # sid /\ p # q => new[p] = full[p]
  BY <1>2, <1>4, <1>8 DEF ShareTo
<1>14. DOMAIN pages \subseteq DOMAIN full /\ \A p \in DOMAIN pages : full[p] = pages[p]
  BY <1>12 DEF Holds
<1>15. \A p \in DOMAIN pages : pages'[p] = new[p]
  <2> TAKE p \in DOMAIN pages
  <2>1. CASE p = q
    BY <1>9, <1>11, <1>13, <2>1
  <2>2. CASE p # q
    BY <1>11, <1>13, <1>14, <2>2
  <2> QED BY <2>1, <2>2
<1>16. \A p \in DOMAIN full : p \notin DOMAIN pages => new[p] = full[p]
  BY <1>8, <1>9, <1>13
<1>17. Holds(new)'
  BY <1>7, <1>11, <1>12, <1>13, <1>15, <1>16, HoldsStill DEF IInv
<1>18. PagesOK(pages')
  BY <1>4, <1>11, <1>13, <1>14, <1>15 DEF PagesOK
<1>19. StoreInv'
  <2>1. root' \in Nat
    BY <1>7 DEF IInv, StoreInv
  <2> QED BY <1>7, <1>11, <1>18, <2>1, StoreKeeps DEF IInv
<1>20. HasDeleted(new)'
  BY <1>4, <1>7, <1>12 DEF HasDeleted
<1>21. Whole(new, root', h, lo2, hi2)
  BY <1>4, <1>7
<1>22. ToReturn(new, h, lo2, hi2)'
  BY <1>4, <1>12, <1>17, <1>20, <1>21 DEF ToReturn, Deleting
<1>23. DeleteInv'
  BY <1>7, <1>22 DEF DeleteInv
<1> QED BY <1>7, <1>19, <1>23, DeleteGoesOn

(* rebalance_leaves() and rebalance_internals() keep the invariant.        *)
LEMMA RebalanceKeeps ==
  ASSUME IInv, pc \in {"rebalance_leaves", "rebalance_internals"}, Rebalance
  PROVE  IInv'
<1>1. /\ UNCHANGED <<op, before>>
      /\ \/ SibId = Null /\ GoesBack
         \/ SibId # Null /\ Why # "none" /\ Panic(Why)
         \/ SibId # Null /\ Why = "none" /\ Merges /\ GrownRes.res # "ok" /\ MergeFails
         \/ SibId # Null /\ Why = "none" /\ Merges /\ GrownRes.res = "ok" /\ MergeDone
         \/ SibId # Null /\ Why = "none" /\ ~Merges /\ ShareDone
  BY RebalanceIs
<1>2. ASSUME SibId = Null, GoesBack PROVE IInv'
  BY <1>1, <1>2, ReturnsSame DEF GoesBack
<1>3. ASSUME Panic(Why) PROVE IInv'
  <2>1. num > 0 /\ pc # "answered"
    BY DEF IInv, CallInv, StoreInv
  <2> QED BY <1>3, <2>1, PanicKeeps
<1>4. ASSUME SibId # Null, Why = "none", Merges, GrownRes.res # "ok" PROVE FALSE
  BY <1>4, MergeTakesAll DEF IInv, DeleteInv
<1>5. ASSUME SibId # Null, Why = "none", Merges, MergeDone PROVE IInv'
  BY <1>1, <1>5, MergeKeeps
<1>6. ASSUME SibId # Null, Why = "none", ~Merges, ShareDone PROVE IInv'
  <2>1. CASE Shares
    BY <1>1, <1>6, <2>1, ShareKeeps
  <2>2. CASE ~Shares
    <3>1. pages' = pages /\ pc' = "return" /\ UNCHANGED <<root, num, taken, free, held, reply>>
      BY <1>6, <2>2 DEF ShareDone
    <3> QED BY <1>1, <1>6, <2>2, <3>1, ReturnsSame DEF store
  <2> QED BY <2>1, <2>2
<1> QED BY <1>1, <1>2, <1>3, <1>4, <1>5, <1>6

(* The page that loses a child is registered.                              *)
LEMMA PrunedPage ==
  ASSUME NEW full, NEW tree, NEW h, NEW lo, NEW hi, ToPrune(full, tree, h, lo, hi),
         NEW q, q = Last(path).page
  PROVE  q \in DOMAIN pages /\ full[q] = pages[q]
<1>1. Holds(full) /\ Whole(tree, root, h, lo, hi) /\ Upward(tree, h) /\ q \in DOMAIN full /\ DOMAIN tree = DOMAIN full
  BY DEF ToPrune, Deleting, Changed
<1>2. h[q] \in Nat
  BY <1>1, WholePage
<1>3. \A i \in 1 .. Len(held) : held[i].id # q
  BY <1>1, <1>2 DEF Upward
<1>4. q \in DOMAIN pages
  BY <1>1, <1>3 DEF Holds
<1> QED BY <1>1, <1>4 DEF Holds

(* A parent drops the child that was given up; the key above the page      *)
(* stays, for the first child never goes.                                  *)
LEMMA DeleteInternalCellKeeps ==
  ASSUME IInv, DeleteInternalCell
  PROVE  IInv'
<1>1. pc = "delete_internal" /\ UNCHANGED <<op, before>>
  BY DEF DeleteInternalCell, Inside
<1>2. PICK full, tree, h, lo, hi : ToPrune(full, tree, h, lo, hi)
  BY <1>1 DEF IInv, DeleteInv
<1>3. PICK q, c, m : q = Last(path).page /\ c = Last(path).idx /\ m = DeleteCell(full[q], c)
  OBVIOUS
<1>4. q \in DOMAIN pages /\ full[q] = pages[q]
  BY <1>2, <1>3, PrunedPage
<1>5. /\ Deleting(full) /\ LastEmpty(full) /\ q \in DOMAIN full /\ ~full[q].leaf
      /\ c \in 1 .. Len(full[q].keys) /\ Changed(full, tree, q, m)
      /\ tree = [p \in DOMAIN tree |-> tree[p]] /\ Whole(tree, root, h, lo, hi) /\ Upward(tree, h)
  BY <1>2, <1>3 DEF ToPrune
<1>6. Holds(full) /\ PagesOK(full) /\ HasDeleted(full) /\ Deletable # {}
  BY <1>5 DEF Deleting
<1>7. ~(c = 0)
  BY <1>5
<1>8. /\ pages' = [p \in DOMAIN pages |-> IF p = q THEN m ELSE pages[p]]
      /\ UNCHANGED <<root, num, taken, free, held, reply>>
      /\ \/ Underflows(m) /\ pc' = "rebalance_internals" /\ path' = path
         \/ ~Underflows(m) /\ pc' = "return"
  BY <1>3, <1>4, <1>7 DEF DeleteInternalCell
<1>9. LosesKid(full[q], m, c) /\ PageOK(m)
  <2>1. PageOK(full[q])
    BY <1>5, <1>6 DEF PagesOK
  <2> QED BY <1>3, <1>5, <2>1, CellLost
<1>10. ~m.leaf
  BY <1>5, <1>9 DEF LosesKid
<1>11. DOMAIN tree = DOMAIN full /\ tree[q] = m /\ \A p \in DOMAIN full : p # q => tree[p] = full[p]
  BY <1>5 DEF Changed
<1>12. PagesOK(tree)
  BY <1>6, <1>9, <1>11 DEF PagesOK
<1>13. LastEmpty(tree)
  BY <1>5, <1>10, <1>11 DEF LastEmpty
<1>14. RowsIn(tree) = RowsIn(full)
  BY <1>5, <1>10, <1>11 DEF RowsIn
<1>15. DOMAIN pages' = DOMAIN pages /\ pages' = [p \in DOMAIN pages' |-> pages'[p]]
  BY <1>8
<1>16. DOMAIN pages \subseteq DOMAIN full /\ \A p \in DOMAIN pages : full[p] = pages[p]
  BY <1>6 DEF Holds
<1>17. \A p \in DOMAIN pages : pages'[p] = tree[p]
  BY <1>8, <1>11, <1>16
<1>18. \A p \in DOMAIN full : p \notin DOMAIN pages => tree[p] = full[p]
  BY <1>4, <1>11
<1>19. Holds(tree)'
  BY <1>5, <1>6, <1>8, <1>11, <1>15, <1>17, <1>18, HoldsStill DEF IInv
<1>20. StoreInv'
  <2>1. root' \in Nat
    BY <1>8 DEF IInv, StoreInv
  <2>2. PagesOK(pages')
    BY <1>11, <1>12, <1>15, <1>16, <1>17 DEF PagesOK
  <2> QED BY <1>8, <1>15, <2>1, <2>2, StoreKeeps DEF IInv
<1>21. HasDeleted(tree)'
  BY <1>1, <1>6, <1>14 DEF HasDeleted
<1>22. Deleting(tree)'
  BY <1>6, <1>12, <1>19, <1>21 DEF Deleting
<1>23. Whole(tree, root', h, lo, hi)
  BY <1>5, <1>8
<1>24. CASE pc' = "return"
  <2>1. ToReturn(tree, h, lo, hi)'
    BY <1>13, <1>22, <1>23 DEF ToReturn
  <2>2. DeleteInv'
    BY <1>24, <2>1 DEF DeleteInv
  <2> QED BY <1>1, <1>8, <1>20, <1>24, <2>2, DeleteGoesOn
<1>25. CASE pc' = "rebalance_internals" /\ path' = path
  <2>1. Upward(tree, h)'
    BY <1>5, <1>8, <1>25 DEF Upward
  <2>2. LastEmptyBut(tree, Last(path').page)
    BY <1>13 DEF LastEmpty, LastEmptyBut
  <2>3. ToRebalance(tree, h, lo, hi)'
    BY <1>22, <1>23, <2>1, <2>2 DEF ToRebalance
  <2>4. DeleteInv'
    BY <1>25, <2>3 DEF DeleteInv
  <2> QED BY <1>1, <1>8, <1>20, <1>25, <2>4, DeleteGoesOn
<1> QED BY <1>8, <1>24, <1>25

(* The pages that the callers held are registered back: the tree is whole. *)
LEMMA GivenBackIs ==
  ASSUME NEW full, Holds(full)
  PROVE  /\ GivenBack = IdsIn(held) /\ GivenBack \subseteq taken
         /\ full = [id \in DOMAIN pages \cup GivenBack |->
                      IF id \in GivenBack THEN (CHOOSE g \in Range(held) : g.id = id).node ELSE pages[id]]
<1> DEFINE S == [id : Nat, node : PageRec]  hl == held  G == GivenBack
<1>1. hl \in Seq(S) /\ full = [p \in DOMAIN full |-> full[p]]
      /\ DOMAIN full = DOMAIN pages \cup IdsIn(hl) /\ (\A p \in DOMAIN pages : full[p] = pages[p])
      /\ \A i \in 1 .. Len(hl) : hl[i].id \in taken /\ full[hl[i].id] = hl[i].node
  BY DEF Holds, IdsIn
<1>2. Range(hl) = {hl[i] : i \in 1 .. Len(hl)}
  <2> HIDE DEF S
  <2>1. DOMAIN hl = 1 .. Len(hl)
    BY <1>1
  <2> QED BY <2>1 DEF Range
<1>3. G = IdsIn(hl)
  BY <1>2 DEF GivenBack, IdsIn
<1>4. G \subseteq taken
  BY <1>1, <1>3 DEF IdsIn
<1>5. ASSUME NEW p \in G PROVE full[p] = (CHOOSE g \in Range(hl) : g.id = p).node
  <2>1. \E g \in Range(hl) : g.id = p
    BY <1>2, <1>3 DEF IdsIn
  <2> DEFINE g == CHOOSE e \in Range(hl) : e.id = p
  <2>2. g \in Range(hl) /\ g.id = p
    BY <2>1
  <2> HIDE DEF g
  <2>3. PICK i \in 1 .. Len(hl) : g = hl[i]
    BY <1>2, <2>2
  <2>4. full[p] = g.node
    BY <1>1, <2>2, <2>3
  <2> QED BY <2>4 DEF g
<1>6. \A p \in DOMAIN full : full[p] = IF p \in G THEN (CHOOSE g \in Range(hl) : g.id = p).node ELSE pages[p]
  BY <1>1, <1>3, <1>5
<1>7. DOMAIN full = DOMAIN pages \cup G
  BY <1>1, <1>3
<1> HIDE DEF hl, G
<1>8. full = [id \in DOMAIN pages \cup G |-> IF id \in G THEN (CHOOSE g \in Range(hl) : g.id = id).node ELSE pages[id]]
  BY <1>1, <1>6, <1>7
<1> QED BY <1>3, <1>4, <1>8 DEF hl, G

(* The callers give back the pages they hold, and the tree is registered   *)
(* as a whole.                                                             *)
LEMMA ReturnKeeps ==
  ASSUME IInv, Return
  PROVE  IInv'
<1>1. pc = "return" /\ UNCHANGED <<op, before>>
  BY DEF Return, Inside
<1>2. PICK full, h, lo, hi : ToReturn(full, h, lo, hi)
  BY <1>1 DEF IInv, DeleteInv
<1>3. /\ Holds(full) /\ PagesOK(full) /\ HasDeleted(full) /\ Whole(full, root, h, lo, hi) /\ LastEmpty(full)
  BY <1>2 DEF ToReturn, Deleting
<1>4. /\ pages' = full /\ GivenBack \subseteq taken /\ DOMAIN full = DOMAIN pages \cup GivenBack
      /\ full = [p \in DOMAIN full |-> full[p]]
  BY <1>3, GivenBackIs DEF Return, Holds, IdsIn
<1>5. /\ taken' = taken \ GivenBack /\ held' = << >> /\ pc' = "answered" /\ reply' = "deleted"
      /\ root' = root /\ num' = num /\ free' = free
  BY DEF Return
<1>6. StoreInv'
  <2>1. /\ root \in Nat /\ num \in Nat /\ DOMAIN pages \cup taken \cup free = 0 .. num - 1
        /\ DOMAIN pages \cap taken = {} /\ DOMAIN pages \cap free = {} /\ taken \cap free = {}
    BY DEF IInv, StoreInv
  <2>2. DOMAIN pages' = DOMAIN pages \cup GivenBack
    BY <1>4
  <2>3. /\ DOMAIN pages' \cup taken' \cup free = 0 .. num - 1
        /\ DOMAIN pages' \cap taken' = {} /\ DOMAIN pages' \cap free = {} /\ taken' \cap free = {}
    BY <1>4, <1>5, <2>1, <2>2
  <2>4. PagesOK(pages') /\ pages' = [p \in DOMAIN pages' |-> pages'[p]]
    BY <1>3, <1>4
  <2> QED BY <1>5, <2>1, <2>3, <2>4 DEF StoreInv
<1>7. num' # 0
  BY <1>1, <1>5 DEF IInv, CallInv
<1>8. CallInv'
  BY <1>5, <1>7 DEF CallInv
<1>9. ShapeInv'
  <2>1. Whole(pages', root', h, lo, hi) /\ LastEmpty(pages')
    BY <1>3, <1>4, <1>5
  <2>2. Shape(h, lo, hi)'
    BY <1>5, <2>1 DEF Shape
  <2> QED BY <2>1, <2>2 DEF ShapeInv
<1>10. RowsInv'
  <2>1. HasDeleted(pages)'
    BY <1>1, <1>3, <1>4 DEF HasDeleted
  <2>2. Answered'
    BY <1>5, <2>1 DEF Answered
  <2> QED BY <1>5, <2>2 DEF RowsInv
<1>11. DeleteInv'
  BY <1>5 DEF DeleteInv
<1> QED BY <1>6, <1>8, <1>9, <1>10, <1>11 DEF IInv

(* flush() touches no page of the tree.                                    *)
LEMMA FlushKeeps ==
  ASSUME IInv, Flush
  PROVE  IInv'
<1>1. /\ pc = "idle" /\ pc' = "idle" /\ free' = free \cup taken /\ taken' = {}
      /\ pages' = pages /\ root' = root /\ num' = num /\ held' = held /\ reply' = reply
  BY DEF Flush
<1>2. StoreInv'
  <2>1. /\ root \in Nat /\ num \in Nat /\ DOMAIN pages \cup taken \cup free = 0 .. num - 1
        /\ DOMAIN pages \cap taken = {} /\ DOMAIN pages \cap free = {} /\ taken \cap free = {}
        /\ pages = [id \in DOMAIN pages |-> pages[id]] /\ PagesOK(pages)
    BY DEF IInv, StoreInv
  <2>2. /\ DOMAIN pages' \cup taken' \cup free' = 0 .. num - 1
        /\ DOMAIN pages' \cap taken' = {} /\ DOMAIN pages' \cap free' = {} /\ taken' \cap free' = {}
    BY <1>1, <2>1
  <2> QED BY <1>1, <2>1, <2>2 DEF StoreInv
<1>3. CallInv'
  BY <1>1 DEF IInv, CallInv
<1>4. ShapeInv'
  <2> SUFFICES ASSUME num > 0 PROVE LastEmpty(pages') /\ \E h, lo, hi : Shape(h, lo, hi)'
    BY <1>1 DEF ShapeInv
  <2>1. LastEmpty(pages)
    BY <1>1 DEF IInv, ShapeInv, Inserting
  <2>2. PICK h, lo, hi : Shape(h, lo, hi)
    BY <1>1 DEF IInv, ShapeInv, Inserting
  <2>3. Whole(pages, root, h, lo, hi)
    BY <1>1, <2>2 DEF Shape
  <2>4. Shape(h, lo, hi)'
    BY <1>1, <2>3 DEF Shape
  <2> QED BY <1>1, <2>1, <2>4
<1>5. RowsInv' /\ DeleteInv'
  BY <1>1 DEF RowsInv, DeleteInv
<1> QED BY <1>2, <1>3, <1>4, <1>5 DEF IInv

-----------------------------------------------------------------------------
(* Every step keeps the invariant.                                         *)

(* An operation that answers and leaves the pages as they were.            *)
LEMMA SamePagesKeep ==
  ASSUME IInv, pc = "idle", NEW r, r \in {"row_exists", "deleted", "not_found"},
         UNCHANGED store, held' = << >>, pc' = "answered", reply' = r, Answered'
  PROVE  IInv'
<1> USE DEF store
<1>1. StoreInv'
  BY DEF IInv, StoreInv
<1>2. CallInv'
  BY DEF CallInv
<1>3. ShapeInv'
  <2> SUFFICES ASSUME num > 0 PROVE LastEmpty(pages) /\ \E h, lo, hi : Shape(h, lo, hi)'
    BY DEF ShapeInv
  <2>1. LastEmpty(pages)
    BY DEF IInv, ShapeInv, Inserting
  <2>2. PICK h, lo, hi : Shape(h, lo, hi)
    BY DEF IInv, ShapeInv, Inserting
  <2>3. Whole(pages, root, h, lo, hi)
    BY <2>2 DEF Shape
  <2>4. Shape(h, lo, hi)'
    BY <2>3 DEF Shape
  <2> QED BY <2>1, <2>4
<1>4. RowsInv' /\ DeleteInv'
  BY DEF RowsInv, DeleteInv
<1> QED BY <1>1, <1>2, <1>3, <1>4 DEF IInv

(* delete_row_by_key() keeps the invariant.                                *)
LEMMA DeleteRowKeeps ==
  ASSUME IInv, NEW k \in Key, DeleteRow(k)
  PROVE  IInv'
<1>1. /\ pc = "idle" /\ op' = [op |-> "delete", key |-> k] /\ before' = TreeRows
      /\ StoreInv /\ ShapeInv /\ CallInv /\ Deletable # {}
  BY DEF DeleteRow, Begin, IInv
<1>2. TreeRows = RowsIn(pages)
  BY <1>1, RowsFound
<1>3. Found(k) <=> k \in RowsIn(pages)
  BY <1>2 DEF TreeRows
<1>4. CASE ~Found(k)
  <2>1. Answer("not_found") /\ UNCHANGED store
    BY <1>4 DEF DeleteRow
  <2>2. Answered'
    <3>1. RowsIn(pages') = before' /\ k \notin before' /\ op'.op = "delete" /\ op'.key = k /\ reply' = "not_found"
      BY <1>1, <1>2, <1>3, <1>4, <2>1 DEF store, Answer
    <3> QED BY <3>1 DEF Answered
  <2>3. held' = << >> /\ pc' = "answered" /\ reply' = "not_found"
    BY <1>1, <2>1 DEF Answer, CallInv
  <2> QED BY <1>1, <2>1, <2>2, <2>3, SamePagesKeep
<1>5. CASE Found(k)
  <2> DEFINE p == Traverse(pages, k)  id == Last(p).page
             n == DeleteCell(pages[id], Below(pages[id], k) + 1)
  <2>1. num > 0 /\ k \in KeySet(pages[id])
    BY <1>5 DEF Found
  <2>2. /\ pages' = [pages EXCEPT ![id] = n] /\ UNCHANGED <<root, num, taken, free>>
        /\ \/ Underflows(n) /\ Goto("rebalance_leaves", p, 0, Null)
           \/ ~Underflows(n) /\ Answer("deleted")
    BY <1>5 DEF DeleteRow
  <2>3. PICK h, lo, hi : Shape(h, lo, hi)
    BY <1>1, <2>1 DEF ShapeInv, Inserting
  <2>4. Whole(pages, root, h, lo, hi)
    BY <1>1, <2>3 DEF Shape
  <2>5. p = Descent(pages, root, ByKey(pages, k))
    BY DEF Traverse, ByKey
  <2>6. id \in DOMAIN pages /\ pages[id].leaf
    <3> HIDE DEF p
    <3>1. GoodWay(pages, ByKey(pages, k), root, p, h[root])
      BY <2>4, <2>5, SearchWay
    <3>2. p \in Seq(Step) /\ Len(p) > 0 /\ id = p[Len(p)].page /\ pages[p[Len(p)].page].leaf
          /\ \A i \in 1 .. Len(p) : p[i].page \in DOMAIN pages
      BY <3>1 DEF GoodWay, Way, ByIndex, Last
    <3>3. Len(p) \in 1 .. Len(p)
      BY <3>2
    <3> QED BY <3>2, <3>3
  <2>7. LastEmpty(pages) /\ PagesOK(pages) /\ root \in Nat /\ num \in Nat /\ held = << >>
    BY <1>1, <2>1 DEF ShapeInv, Inserting, StoreInv, CallInv
  <2>8. k \in KeysIn(pages[id])
    BY <2>1, <2>6, <2>7, KeySetIs DEF PagesOK, PageOK
  <2>9. n = DeleteCell(pages[id], Below(pages[id], k) + 1)
    OBVIOUS
  <2> HIDE DEF p, n, id
  <2>16. Way(pages, root, p) /\ id = Last(p).page
    <3>1. GoodWay(pages, ByKey(pages, k), root, p, h[root])
      BY <2>4, <2>5, SearchWay
    <3> QED BY <3>1 DEF GoodWay, id
  <2>10. Changed(pages, pages', id, n) /\ DOMAIN pages' = DOMAIN pages /\ pages' = [x \in DOMAIN pages' |-> pages'[x]]
    BY <2>2, <2>6, ChangedPage
  <2>11. /\ Whole(pages', root, h, lo, hi) /\ PagesOK(pages') /\ n.kids = pages[id].kids
         /\ ~Underflows(n) \/ n.next = Null => LastEmpty(pages')
         /\ RowsIn(pages') = RowsIn(pages) \ {k}
    BY <1>1, <2>4, <2>6, <2>7, <2>8, <2>9, <2>10, LeafDelete
  <2>15. Way(pages', root, p)
    <3>1. DOMAIN pages' = DOMAIN pages /\ \A x \in DOMAIN pages : pages'[x].kids = pages[x].kids
      BY <2>10, <2>11 DEF Changed
    <3>2. /\ p \in Seq(Step) /\ Len(p) > 0 /\ p[1].page = root
          /\ (\A i \in 1 .. Len(p) : p[i].page \in DOMAIN pages)
          /\ \A i \in 1 .. Len(p) - 1 : /\ p[i].idx + 1 \in 1 .. Len(pages[p[i].page].kids)
                                       /\ p[i + 1].page = pages[p[i].page].kids[p[i].idx + 1]
      BY <2>16 DEF Way
    <3>3. \A i \in 1 .. Len(p) - 1 : p[i].page \in DOMAIN pages
      <4> DEFINE N == Len(p)
      <4>1. N \in Nat
        BY <3>2
      <4> HIDE DEF N
      <4>2. \A i \in 1 .. N - 1 : i \in 1 .. N
        BY <4>1
      <4> QED BY <3>2, <4>2 DEF N
    <3> QED BY <3>1, <3>2, <3>3 DEF Way
  <2>12. HasDeleted(pages)'
    <3>1. before' = RowsIn(pages) /\ op'.op = "delete" /\ op'.key = k /\ k \in RowsIn(pages)
      BY <1>1, <1>2, <1>3, <1>5
    <3> QED BY <2>11, <3>1 DEF HasDeleted
  <2>20. StoreInv'
    <3>1. root' \in Nat
      BY <2>2, <2>7
    <3> QED BY <1>1, <2>2, <2>10, <2>11, <3>1, StoreKeeps
  <2>13. CASE ~Underflows(n) /\ Answer("deleted")
    <3>1. reply' = "deleted" => Answered'
      BY <2>12 DEF Answered
    <3> QED BY <2>1, <2>2, <2>7, <2>11, <2>13, <2>20, <3>1, AnswerKeeps
  <2>14. CASE Underflows(n) /\ Goto("rebalance_leaves", p, 0, Null)
    <3>1. /\ pc' = "rebalance_leaves" /\ path' = p /\ held' = << >> /\ reply' = "none"
          /\ root' = root /\ num' = num
      BY <1>1, <2>2, <2>7, <2>14 DEF Goto, CallInv
    <3>2. Last(path').page = id
      BY <3>1 DEF id
    <3>3. PICK new : new = pages'
      OBVIOUS
    <3>4. CallInv'
      BY <2>1, <3>1 DEF CallInv
    <3>5. ShapeInv' /\ RowsInv'
      BY <3>1 DEF ShapeInv, Inserting, RowsInv
    <3>6. Holds(new)'
      <4>1. held' \in Seq([id : Nat, node : PageRec]) /\ Len(held') = 0
        BY <3>1
      <4> DEFINE hl == held'
      <4>2. hl \in Seq([id : Nat, node : PageRec]) /\ Len(hl) = 0
        BY <4>1
      <4>3. {hl[i].id : i \in 1 .. Len(hl)} = {} /\ \A i \in 1 .. Len(hl) : FALSE
        BY <4>2
      <4> QED BY <2>10, <3>3, <4>1, <4>3 DEF Holds
    <3>7. Upward(new, h)'
      <4>1. Way(new, root', path')
        BY <2>15, <3>1, <3>3
      <4>2. Len(held') = 0
        BY <3>1
      <4>3. \A i \in 1 .. Len(held') : FALSE
        BY <4>2
      <4> QED BY <4>1, <4>3 DEF Upward
    <3>8. LastEmptyBut(new, id)
      BY <2>7, <2>10, <3>3 DEF LastEmpty, LastEmptyBut, Changed
    <3>9. Deleting(new)'
      <4>1. HasDeleted(new)'
        BY <2>12, <3>3 DEF HasDeleted
      <4> QED BY <1>1, <2>11, <3>3, <3>6, <4>1 DEF Deleting
    <3>10. ToRebalance(new, h, lo, hi)'
      BY <2>11, <3>1, <3>2, <3>3, <3>7, <3>8, <3>9 DEF ToRebalance
    <3>11. DeleteInv'
      BY <3>1, <3>10 DEF DeleteInv
    <3> QED BY <2>20, <3>4, <3>5, <3>11 DEF IInv
  <2> QED BY <2>2, <2>13, <2>14
<1> QED BY <1>4, <1>5

(* The client reads its answer.                                            *)
LEMMA ReadKeeps ==
  ASSUME IInv, Read
  PROVE  IInv'
<1>1. pc = "answered" /\ pc' = "idle" /\ reply' = "none" /\ UNCHANGED <<store, held>>
  BY DEF Read
<1> USE DEF store
<1>2. StoreInv'
  BY <1>1 DEF IInv, StoreInv
<1>3. CallInv'
  BY <1>1 DEF IInv, CallInv
<1>4. ShapeInv'
  <2> SUFFICES ASSUME num > 0 PROVE LastEmpty(pages) /\ \E h, lo, hi : Shape(h, lo, hi)'
    BY <1>1 DEF ShapeInv
  <2>1. LastEmpty(pages)
    BY <1>1 DEF IInv, ShapeInv, Inserting
  <2>2. PICK h, lo, hi : Shape(h, lo, hi)
    BY <1>1 DEF IInv, ShapeInv, Inserting
  <2>3. Whole(pages, root, h, lo, hi)
    BY <1>1, <2>2 DEF Shape
  <2>4. Shape(h, lo, hi)'
    BY <1>1, <2>3 DEF Shape
  <2> QED BY <2>1, <2>4
<1>5. RowsInv'
  BY <1>1 DEF RowsInv
<1>6. DeleteInv'
  BY <1>1 DEF DeleteInv
<1> QED BY <1>2, <1>3, <1>4, <1>5, <1>6 DEF IInv

(* Nothing happens.                                                        *)
LEMMA StutterKeeps ==
  ASSUME IInv, UNCHANGED vars
  PROVE  IInv'
<1> USE DEF vars, store
<1>1. StoreInv'
  BY DEF IInv, StoreInv
<1>2. CallInv'
  BY DEF IInv, CallInv
<1>3. ASSUME NEW k PROVE Adds(k)' <=> Adds(k)
  BY DEF Adds
<1>4. HasAdded' <=> HasAdded
  BY <1>3 DEF HasAdded
<1>5. ASSUME NEW pgs PROVE HasDeleted(pgs)' <=> HasDeleted(pgs)
  BY DEF HasDeleted
<1>9. HasDeleted(pages)' <=> HasDeleted(pages)
  BY DEF HasDeleted
<1>6. Answered' <=> Answered
  BY <1>4, <1>9 DEF Answered
<1>7. RowsInv'
  BY <1>4, <1>6 DEF IInv, RowsInv, Adds
<1>8. ShapeInv'
  <2> SUFFICES ASSUME pc \in Inserting, num > 0 PROVE LastEmpty(pages) /\ \E h, lo, hi : Shape(h, lo, hi)'
    BY DEF ShapeInv
  <2>1. LastEmpty(pages)
    BY DEF IInv, ShapeInv, Inserting
  <2>2. PICK h, lo, hi : Shape(h, lo, hi)
    BY DEF IInv, ShapeInv, Inserting
  <2>3. Shape(h, lo, hi)'
    BY <2>2 DEF Shape, AtLeaf, Waits, WaitsBelow
  <2> QED BY <2>1, <2>3
<1>10. ASSUME NEW full, Deleting(full) PROVE Deleting(full)'
  <2>1. Holds(full)'
    BY <1>10 DEF Deleting, Holds
  <2> QED BY <1>5, <1>10, <2>1 DEF Deleting
<1>11. DeleteInv'
  <2>1. ASSUME pc \in {"rebalance_leaves", "rebalance_internals"}
        PROVE  \E full, h, lo, hi : ToRebalance(full, h, lo, hi)'
    <3>1. PICK full, h, lo, hi : ToRebalance(full, h, lo, hi)
      BY <2>1 DEF IInv, DeleteInv
    <3>2. ToRebalance(full, h, lo, hi)'
      BY <1>10, <3>1 DEF ToRebalance, Upward
    <3> QED BY <3>2
  <2>2. ASSUME pc = "delete_internal" PROVE \E full, tree, h, lo, hi : ToPrune(full, tree, h, lo, hi)'
    <3>1. PICK full, tree, h, lo, hi : ToPrune(full, tree, h, lo, hi)
      BY <2>2 DEF IInv, DeleteInv
    <3>2. ToPrune(full, tree, h, lo, hi)'
      BY <1>10, <3>1 DEF ToPrune, Upward
    <3> QED BY <3>2
  <2>3. ASSUME pc = "return" PROVE \E full, h, lo, hi : ToReturn(full, h, lo, hi)'
    <3>1. PICK full, h, lo, hi : ToReturn(full, h, lo, hi)
      BY <2>3 DEF IInv, DeleteInv
    <3>2. ToReturn(full, h, lo, hi)'
      BY <1>10, <3>1 DEF ToReturn
    <3> QED BY <3>2
  <2> QED BY <2>1, <2>2, <2>3 DEF DeleteInv
<1> QED BY <1>1, <1>2, <1>7, <1>8, <1>11 DEF IInv

(* Every step keeps the invariant.                                         *)
LEMMA NextKeeps ==
  ASSUME IInv, Untroubled, [Next]_vars
  PROVE  IInv'
<1>1. ASSUME NEW k \in Key, InsertRow(k) PROVE IInv'
  BY <1>1, InsertRowKeeps
<1>2. ASSUME NEW k \in Key, DeleteRow(k) PROVE IInv'
  BY <1>2, DeleteRowKeeps
<1>3. CASE InsertRowAuto
  BY <1>3, InsertRowAutoKeeps
<1>4. CASE Flush
  BY <1>4, FlushKeeps
<1>5. CASE SplitInsertLeaf
  BY <1>5, SplitInsertLeafKeeps
<1>6. CASE InsertToParent
  BY <1>6, InsertToParentKeeps
<1>7. CASE SplitInsertInternal
  BY <1>7, SplitInsertInternalKeeps
<1>8. CASE RebalanceLeaves
  BY <1>8, RebalanceKeeps DEF RebalanceLeaves
<1>9. CASE DeleteInternalCell
  BY <1>9, DeleteInternalCellKeeps
<1>10. CASE RebalanceInternals
  BY <1>10, RebalanceKeeps DEF RebalanceInternals
<1>11. CASE Return
  BY <1>11, ReturnKeeps
<1>12. CASE Read
  BY <1>12, ReadKeeps
<1>13. CASE StayPanicked
  BY <1>13, StutterKeeps DEF StayPanicked
<1>14. CASE UNCHANGED vars
  BY <1>14, StutterKeeps
<1> QED BY <1>1, <1>2, <1>3, <1>4, <1>5, <1>6, <1>7, <1>8, <1>9, <1>10, <1>11, <1>12, <1>13, <1>14
        DEF Next, Method

(* An empty file.                                                          *)
LEMMA InitHolds ==
  ASSUME Init
  PROVE  IInv
<1> USE DEF Init
<1>1. StoreInv
  <2>1. DOMAIN pages = {} /\ num = 0 /\ root = 0
    OBVIOUS
  <2>2. {} = 0 .. 0 - 1
    OBVIOUS
  <2>3. pages = [id \in DOMAIN pages |-> pages[id]]
    OBVIOUS
  <2> QED BY <2>1, <2>2, <2>3 DEF StoreInv, PagesOK
<1>2. CallInv
  BY DEF CallInv
<1>3. ShapeInv
  BY DEF ShapeInv
<1>4. RowsInv
  BY DEF RowsInv
<1>5. DeleteInv
  BY DEF DeleteInv
<1> QED BY <1>1, <1>2, <1>3, <1>4, <1>5 DEF IInv

(* The invariant holds in every state of every behaviour whose calls are   *)
(* untroubled: the tree is whole, and its rows are those the operations so *)
(* far have made.                                                          *)
THEOREM Inductive == Spec /\ []Untroubled => []IInv
<1>1. Init => IInv
  BY InitHolds
<1>2. IInv /\ Untroubled /\ [Next]_vars => IInv'
  BY NextKeeps
<1> QED BY <1>1, <1>2, PTL DEF Spec

-----------------------------------------------------------------------------
(* What the invariant implies.                                             *)

(* Between operations the tree is whole.                                   *)
LEMMA WholeAtRest ==
  ASSUME IInv, AtRest
  PROVE  LastEmpty(pages) /\ \E h, lo, hi : Whole(pages, root, h, lo, hi)
BY DEF IInv, AtRest, ShapeInv, Shape, Inserting

(* The invariant implies the types.                                        *)
LEMMA TypesHold ==
  ASSUME IInv
  PROVE  TypeOK
<1>1. StoreInv /\ CallInv
  BY DEF IInv
<1>2. ASSUME NEW id \in DOMAIN pages PROVE NodeOK(pages[id])
  <2> DEFINE n == pages[id]
  <2>1. n \in PageRec /\ RoomFits(n) /\ Len(n.kids) = IF n.leaf THEN 0 ELSE Len(n.keys) + 1
    BY <1>1 DEF StoreInv, PagesOK, PageOK
  <2> HIDE DEF n
  <2>2. /\ n.leaf \in BOOLEAN /\ n.keys \in Seq(Key) /\ n.kids \in Seq(Nat)
        /\ n.next \in Nat \cup {Null} /\ n.room \in Nat /\ n.gap \in Nat
    BY <2>1, RecFields
  <2>3. SpaceOf(n) \in Nat /\ PageSpace \in Nat
    BY <2>1, SpaceNat, Numbers
  <2>4. n.room <= PageSpace /\ n.gap <= PageSpace
    BY <2>1, <2>2, <2>3 DEF RoomFits
  <2>5. n.room \in 0 .. PageSpace /\ n.gap \in 0 .. PageSpace
    BY <2>2, <2>3, <2>4
  <2>6. NodeOK(n)
    BY <2>1, <2>2, <2>5 DEF NodeOK, Cells
  <2> QED BY <2>6 DEF n
<1>3. /\ root \in Nat /\ num \in Nat
      /\ DOMAIN pages \cup taken \cup free = 0 .. num - 1
      /\ DOMAIN pages \cap taken = {} /\ DOMAIN pages \cap free = {} /\ taken \cap free = {}
  BY <1>1 DEF StoreInv
<1>4. /\ pc \in {"idle", "answered", "panic", "return", "split_leaf", "to_parent", "split_internal",
                 "rebalance_leaves", "delete_internal", "rebalance_internals"}
      /\ reply \in {"none", "ok", "row_exists", "deleted", "not_found"}
  BY <1>1 DEF CallInv
<1> QED BY <1>2, <1>3, <1>4 DEF TypeOK

(* In a whole tree a page has one place: two would have the same bounds.   *)
LEMMA OwnsHolds ==
  ASSUME IInv
  PROVE  TreeOwnsItsPages
<1> SUFFICES ASSUME AtRest
             PROVE /\ root \in DOMAIN pages
                   /\ \A p \in Places : ChildAt(p) \in DOMAIN pages
                   /\ \A id \in DOMAIN pages :
                        IF id = root THEN \A p \in Places : ChildAt(p) # id
                        ELSE \E p \in Places : \A q \in Places : ChildAt(q) = id <=> q = p
                   /\ \A p \in Places : Height(p.page) = Height(ChildAt(p)) + 1
  BY DEF TreeOwnsItsPages
<1>1. PICK h, lo, hi : Whole(pages, root, h, lo, hi)
  BY WholeAtRest
<1> QED BY <1>1, WholeOwns

(* Sibling pointers lead to the next place of the tree.                    *)
LEMMA OrderHolds ==
  ASSUME IInv
  PROVE  SiblingsInOrder
<1> SUFFICES ASSUME AtRest
             PROVE /\ pages[root].next = Null
                   /\ \A p \in Places :
                        LET n == pages[p.page] IN
                        pages[ChildAt(p)].next =
                          IF p.nth < Len(n.kids) THEN n.kids[p.nth + 1]
                          ELSE IF n.next = Null THEN Null ELSE pages[n.next].kids[1]
  BY DEF SiblingsInOrder
<1>1. PICK h, lo, hi : Whole(pages, root, h, lo, hi)
  BY WholeAtRest
<1>2. pages[root].next = Null
  BY <1>1 DEF Whole, Tree, RootFits, EndOf, ChainFits
<1>3. ASSUME NEW p \in Places
      PROVE  pages[ChildAt(p)].next =
               IF p.nth < Len(pages[p.page].kids) THEN pages[p.page].kids[p.nth + 1]
               ELSE IF pages[p.page].next = Null THEN Null ELSE pages[pages[p.page].next].kids[1]
  <2>1. PICK id \in DOMAIN pages : p \in {[page |-> id, nth |-> i] : i \in DOMAIN pages[id].kids}
    BY DEF Places
  <2>2. PICK i \in DOMAIN pages[id].kids : p = [page |-> id, nth |-> i]
    BY <2>1
  <2>3. pages[id].kids \in Seq(Nat)
    BY RecFields DEF IInv, StoreInv, PagesOK, PageOK
  <2>4. i \in 1 .. Len(pages[id].kids) /\ p.page = id /\ p.nth = i /\ ChildAt(p) = pages[id].kids[i]
    BY <2>2, <2>3 DEF ChildAt
  <2> DEFINE n == pages[id]
  <2>5. n = pages[id]
    OBVIOUS
  <2> HIDE DEF n
  <2>6. pages[n.kids[i]].next = IF i < Len(n.kids) THEN n.kids[i + 1]
                                ELSE IF n.next = Null THEN Null ELSE pages[n.next].kids[1]
    BY <1>1, <2>4, <2>5, WholeInOrder
  <2> QED BY <2>4, <2>6 DEF n
<1> QED BY <1>2, <1>3

(* Searches and scans both find the rows in the leaves.                    *)
LEMMA AgreesHolds ==
  ASSUME IInv
  PROVE  SearchAgreesWithScan
<1> SUFFICES ASSUME AtRest
             PROVE  /\ \A i \in 1 .. Len(Scan) - 1 : Scan[i] < Scan[i + 1]
                    /\ TreeRows = Range(Scan)
  BY DEF SearchAgreesWithScan
<1>1. PICK h, lo, hi : Whole(pages, root, h, lo, hi)
  BY WholeAtRest
<1>2. LastEmpty(pages) /\ Tree(pages, root, h, lo, hi, root, root) /\ root \in DOMAIN pages /\ lo[root] = 0
  BY <1>1, WholeAtRest DEF Whole, Tree, RootFits
<1>3. TreeRows = RowsIn(pages)
  BY RowsFound DEF IInv, AtRest
<1>4. PICK from : Scans(pages, from) /\ Scan = from[LeftmostLeaf(pages, root)]
  BY <1>1, ScanDef
<1> DEFINE p == Leftmost(pages, root)  leaf == Last(p).page  K == RowsIn(pages)
<1>5. leaf \in DOMAIN pages /\ pages[leaf].leaf /\ lo[leaf] = 0 /\ leaf = LeftmostLeaf(pages, root)
  <2>1. p = Leftmost(pages, root)
    OBVIOUS
  <2>2. leaf = LeftmostLeaf(pages, root)
    BY DEF LeftmostLeaf
  <2> HIDE DEF p
  <2>3. Way(pages, root, p) /\ pages[leaf].leaf /\ lo[leaf] = lo[root]
    BY <1>2, <2>1, LeftmostWay
  <2>4. p \in Seq(Step) /\ Len(p) > 0 /\ leaf = p[Len(p)].page /\ \A i \in 1 .. Len(p) : p[i].page \in DOMAIN pages
    BY <2>3 DEF Way, Last
  <2>5. Len(p) \in 1 .. Len(p)
    BY <2>4
  <2> QED BY <1>2, <2>2, <2>3, <2>4, <2>5
<1> HIDE DEF p, leaf
<1>6. Yields(from[leaf], lo[leaf], K)
  BY <1>1, <1>2, <1>4, <1>5, ScanYields
<1> DEFINE s == Scan
<1>7. Yields(s, 0, K)
  BY <1>4, <1>5, <1>6
<1> HIDE DEF s, K
<1>8. /\ s \in Seq(Key) /\ \A i, j \in 1 .. Len(s) : i < j => s[i] < s[j]
      /\ \A k \in Key : (\E i \in 1 .. Len(s) : s[i] = k) <=> k \in K /\ 0 <= k
  BY <1>7 DEF Yields, Rises
<1>9. \A i \in 1 .. Len(s) - 1 : s[i] < s[i + 1]
  <2> SUFFICES ASSUME NEW i \in 1 .. Len(s) - 1 PROVE s[i] < s[i + 1]
    OBVIOUS
  <2>1. i \in 1 .. Len(s) /\ i + 1 \in 1 .. Len(s) /\ i < i + 1
    BY <1>8
  <2> QED BY <1>8, <2>1
<1>10. K = Range(s)
  <2>1. Range(s) = {s[i] : i \in 1 .. Len(s)}
    BY <1>8 DEF Range
  <2>2. \A i \in 1 .. Len(s) : s[i] \in Key
    BY <1>8
  <2>3. \A k \in Key : 0 <= k
    BY Numbers
  <2>4. \A k \in K : k \in Key
    BY DEF K, RowsIn
  <2> QED BY <1>8, <2>1, <2>2, <2>3, <2>4
<1> QED BY <1>3, <1>9, <1>10 DEF s, K

(* Only the last leaf is empty.                                            *)
LEMMA LastEmptyHolds ==
  ASSUME IInv
  PROVE  OnlyLastLeafEmpty
BY WholeAtRest DEF OnlyLastLeafEmpty, LastEmpty, Cells

(* Room is counted rightly.                                                *)
LEMMA RoomHolds ==
  ASSUME IInv
  PROVE  RoomNeverOverstated
<1> SUFFICES ASSUME NEW id \in DOMAIN pages
             PROVE  IF pages[id].leaf THEN pages[id].room = PageSpace - SpaceOf(pages[id])
                    ELSE pages[id].room <= PageSpace - SpaceOf(pages[id])
  BY DEF RoomNeverOverstated
<1> DEFINE n == pages[id]
<1>1. n \in PageRec /\ RoomFits(n)
  BY DEF IInv, StoreInv, PagesOK, PageOK
<1>2. n.room \in Nat /\ SpaceOf(n) \in Nat /\ PageSpace \in Nat
  BY <1>1, RecFields, SpaceNat, Numbers
<1> QED BY <1>1, <1>2 DEF RoomFits

-----------------------------------------------------------------------------
(* The table implements module RowSet.                                     *)

(* The rows and the answer that module RowSet sees.                        *)
MapRows  == IF pc \in {"idle", "answered"} THEN TreeRows ELSE before
MapReply == [op |-> IF reply = "none" THEN "none" ELSE op.op,
             key |-> IF reply = "none" THEN 0 ELSE op.key, res |-> reply]

(* After a step too, a search finds the rows of the leaves.                *)
LEMMA RowsFoundThen == IInv' /\ pc' \in {"idle", "answered"} => TreeRows' = RowsIn(pages')
<1>1. IInv /\ pc \in {"idle", "answered"} => TreeRows = RowsIn(pages)
  BY RowsFound DEF IInv
<1>2. (IInv /\ pc \in {"idle", "answered"} => TreeRows = RowsIn(pages))'
  BY <1>1, PTL
<1> QED BY <1>2

(* What a step does to the operation that runs.                            *)
Stays == UNCHANGED <<pages, root, num, pc, reply, op, before>>
Starts == pc = "idle" /\ before' = TreeRows /\ pc' # "idle"
Continues == pc \notin {"idle", "answered", "panic"} /\ before' = before /\ pc' # "idle"

(* What each action is for the operation that runs.                        *)
LEMMA Flow ==
  ASSUME IInv, [Next]_vars
  PROVE  Stays \/ Read \/ Starts \/ Continues
<1>1. ASSUME NEW k \in Key, InsertRow(k) PROVE Starts
  BY <1>1 DEF InsertRow, Begin, InsertFirst, InsertInLeaf, Answer, Goto, Starts
<1>2. ASSUME NEW k \in Key, DeleteRow(k) PROVE Starts
  <2>1. pc = "idle" /\ before' = TreeRows
    BY <1>2 DEF DeleteRow, Begin
  <2>2. pc' # "idle"
    BY <1>2 DEF DeleteRow, Answer, Goto
  <2> QED BY <2>1, <2>2 DEF Starts
<1>3. CASE InsertRowAuto
  <2>1. pc = "idle" /\ before' = TreeRows
    BY <1>3 DEF InsertRowAuto, Begin
  <2>2. pc' # "idle"
    BY <1>3 DEF InsertRowAuto, InsertFirst, InsertInLeaf, Answer, Goto, Panic
  <2> QED BY <2>1, <2>2 DEF Starts
<1>4. CASE Flush
  BY <1>4 DEF Flush, Stays
<1>5. CASE SplitInsertLeaf
  <2>1. pc = "split_leaf" /\ before' = before
    BY <1>5 DEF SplitInsertLeaf, Inside
  <2>2. pc' # "idle"
    BY <1>5 DEF SplitInsertLeaf, Answer, Goto, Panic
  <2> QED BY <2>1, <2>2 DEF Continues
<1>6. CASE InsertToParent
  <2>1. pc = "to_parent" /\ before' = before
    BY <1>6 DEF InsertToParent, Inside
  <2>2. pc' # "idle"
    BY <1>6 DEF InsertToParent, Answer, Goto, Panic
  <2> QED BY <2>1, <2>2 DEF Continues
<1>7. CASE SplitInsertInternal
  <2>1. pc = "split_internal" /\ before' = before
    BY <1>7 DEF SplitInsertInternal, Inside
  <2>2. pc' # "idle"
    BY <1>7 DEF SplitInsertInternal, Goto, Panic
  <2> QED BY <2>1, <2>2 DEF Continues
<1>8. ASSUME Rebalance, pc \in {"rebalance_leaves", "rebalance_internals"} PROVE Continues
  <2>1. before' = before /\ (GoesBack \/ Panic(Why) \/ MergeFails \/ MergeDone \/ ShareDone)
    BY <1>8, RebalanceIs
  <2>2. pc' # "idle"
    BY <2>1 DEF GoesBack, Panic, MergeFails, Answer, MergeDone, ShareDone
  <2> QED BY <1>8, <2>1, <2>2 DEF Continues
<1>9. CASE DeleteInternalCell
  <2>1. pc = "delete_internal" /\ before' = before
    BY <1>9 DEF DeleteInternalCell, Inside
  <2>2. pc' # "idle"
    BY <1>9 DEF DeleteInternalCell, Panic
  <2> QED BY <2>1, <2>2 DEF Continues
<1>10. CASE RebalanceLeaves \/ RebalanceInternals
  BY <1>8, <1>10 DEF RebalanceLeaves, RebalanceInternals
<1>11. CASE Return
  BY <1>11 DEF Return, Inside, Continues
<1>12. CASE StayPanicked
  BY <1>12 DEF StayPanicked, vars, store, Stays
<1>13. CASE UNCHANGED vars
  BY <1>13 DEF vars, store, Stays
<1> QED BY <1>1, <1>2, <1>3, <1>4, <1>5, <1>6, <1>7, <1>9, <1>10, <1>11, <1>12, <1>13
        DEF Next, Method

(* A step of the table is one of the set of rows, or changes nothing of it. *)
LEMMA StepImplements ==
  ASSUME IInv, IInv', [Next]_vars
  PROVE  [R!Next]_(R!vars)
<1>0. /\ reply = "none" <=> pc # "answered"
      /\ reply' = "none" <=> pc' # "answered"
  BY DEF IInv, CallInv
<1>1. CASE Stays
  <2>1. MapRows' = MapRows
    BY <1>1 DEF Stays, MapRows, TreeRows, Found, Traverse
  <2>2. MapReply' = MapReply /\ pc' = pc
    BY <1>1 DEF Stays, MapReply
  <2> QED BY <2>1, <2>2 DEF R!vars, MapRows, MapReply
<1>2. CASE Read
  <2>1. MapRows' = MapRows
    BY <1>2 DEF Read, store, MapRows, TreeRows, Found, Traverse
  <2>2. MapReply # R!None
    BY <1>2, <1>0 DEF Read, MapReply, R!None, R!Answer
  <2>3. MapReply' = R!None /\ (pc' = "panic") = (pc = "panic")
    BY <1>2 DEF Read, MapReply, R!None, R!Answer
  <2>4. R!Read
    BY <2>1, <2>2, <2>3 DEF R!Read, MapRows, MapReply
  <2> QED BY <2>4 DEF R!Next
<1>3. CASE Starts \/ Continues
  <2>1. MapRows = before' /\ MapReply = R!None /\ pc # "panic"
    BY <1>0, <1>3 DEF Starts, Continues, MapRows, MapReply, R!None, R!Answer
  <2>2. pc' # "idle"
    BY <1>3 DEF Starts, Continues
  <2>3. CASE pc' \notin {"answered", "panic"}
    <3>1. MapRows' = before' /\ MapReply' = R!None /\ (pc' = "panic") = (pc = "panic")
      BY <1>0, <2>1, <2>2, <2>3 DEF MapRows, MapReply, R!None, R!Answer
    <3> QED BY <2>1, <3>1 DEF R!vars, MapRows, MapReply
  <2>4. CASE pc' = "panic"
    <3>1. MapRows' = before' /\ MapReply' = R!None /\ (pc' = "panic") = TRUE
      BY <1>0, <2>4 DEF MapRows, MapReply, R!None, R!Answer
    <3>2. R!Abort
      BY <2>1, <3>1 DEF R!Abort, MapRows, MapReply
    <3> QED BY <3>2 DEF R!Next
  <2>5. CASE pc' = "answered"
    <3>1. MapRows' = RowsIn(pages') /\ (pc' = "panic") = (pc = "panic")
      BY <2>1, <2>5, RowsFoundThen DEF MapRows
    <3>2. MapReply' = R!Answer(op'.op, op'.key, reply')
      BY <1>0, <2>5 DEF MapReply, R!Answer
    <3>3. Answered'
      BY <2>5 DEF IInv, RowsInv
    <3>4. \E k \in Key : R!Insert(k) \/ R!InsertAuto(k) \/ R!Delete(k)
      <4>1. CASE reply' = "ok" /\ HasAdded'
        <5>1. PICK k \in Key : Adds(k)' /\ k \notin before' /\ RowsIn(pages') = before' \cup {k}
          BY <4>1 DEF HasAdded
        <5>2. CASE op'.op = "insert" /\ op'.key = k
          <6>1. R!Insert(k)
            BY <2>1, <3>1, <3>2, <4>1, <5>1, <5>2 DEF R!Insert, MapRows, MapReply
          <6> QED BY <6>1
        <5>3. CASE op'.op = "auto" /\ op'.key = 0 /\ R!NextKey(k, before')
          <6>1. R!InsertAuto(k)
            BY <2>1, <3>1, <3>2, <4>1, <5>1, <5>3 DEF R!InsertAuto, MapRows, MapReply
          <6> QED BY <6>1
        <5> QED BY <5>1, <5>2, <5>3 DEF Adds
      <4>2. CASE reply' = "deleted" /\ HasDeleted(pages)'
        <5>1. R!Delete(op'.key) /\ op'.key \in Key
          BY <2>1, <3>1, <3>2, <4>2 DEF HasDeleted, R!Delete, MapRows, MapReply
        <5> QED BY <5>1
      <4>3. CASE /\ reply' = "row_exists" /\ op'.op = "insert"
                 /\ op'.key \in Key /\ op'.key \in before' /\ RowsIn(pages') = before'
        <5>1. R!Insert(op'.key)
          BY <2>1, <3>1, <3>2, <4>3 DEF R!Insert, MapRows, MapReply
        <5> QED BY <4>3, <5>1
      <4>4. CASE /\ reply' = "not_found" /\ op'.op = "delete"
                 /\ op'.key \in Key /\ op'.key \notin before' /\ RowsIn(pages') = before'
        <5>1. R!Delete(op'.key)
          BY <2>1, <3>1, <3>2, <4>4 DEF R!Delete, MapRows, MapReply
        <5> QED BY <4>4, <5>1
      <4> QED BY <3>3, <4>1, <4>2, <4>3, <4>4 DEF Answered
    <3>5. R!Operation
      BY <2>1, <3>1, <3>4 DEF R!Operation, MapReply
    <3> QED BY <3>5 DEF R!Next
  <2> QED BY <2>2, <2>3, <2>4, <2>5
<1> QED BY <1>1, <1>2, <1>3, Flow

(* An empty file has no rows.                                              *)
LEMMA InitImplements ==
  ASSUME Init
  PROVE  R!Init
<1>1. TreeRows = {}
  BY DEF Init, TreeRows, Found
<1> QED BY <1>1 DEF Init, R!Init, R!None, R!Answer

(* The table implements the set of rows: a search finds just the rows that *)
(* were inserted and not deleted, and each operation answers as the set    *)
(* would, however it splits pages.                                         *)
THEOREM TableIsRowSet == Spec /\ []Untroubled => ImplementsRowSet
<1>1. Init => R!Init
  BY InitImplements
<1>2. IInv /\ IInv' /\ [Next]_vars => [R!Next]_(R!vars)
  BY StepImplements
<1>3. Spec /\ []Untroubled => []IInv
  BY Inductive
<1> QED BY <1>1, <1>2, <1>3, PTL DEF Spec, ImplementsRowSet, R!Spec

-----------------------------------------------------------------------------
(* Clients that append.                                                    *)

(* A client that inserts rising keys, or leaves the keys to the table, and *)
(* deletes nothing.                                                        *)
Appends ==
  /\ Ascending /\ Deletable = {}
  /\ \A i, j \in 1 .. Len(Preload) : i < j => Preload[i] < Preload[j]

(* Key k is before the keys still to be inserted.                          *)
Ahead(k) == loaded < Len(Preload) => k < Preload[loaded + 1]

(* The rows are before the key that is inserted and those still to be      *)
(* inserted, and a split on its way up is at the end of its level.         *)
AppendInv ==
  /\ loaded \in 0 .. Len(Preload)
  /\ pc \notin {"rebalance_leaves", "delete_internal", "rebalance_internals", "return"}
  /\ pc = "idle" => \A j \in RowsIn(pages) : Ahead(j)
  /\ pc # "idle" => /\ op.op = "insert" => Ahead(op.key)
                    /\ op.op = "auto" => loaded = Len(Preload)
                    /\ \A j \in before : Ahead(j)
  /\ pc = "split_leaf" => \A j \in before : j < arg.key
  /\ pc \in {"to_parent", "split_internal"} => pages[arg.child].next = Null

(* A key above all rows belongs to the last leaf.                          *)
LEMMA LeafOfLast ==
  ASSUME NEW pgs, NEW rt, NEW h, NEW lo, NEW hi, Whole(pgs, rt, h, lo, hi), LastEmpty(pgs), Deletable = {},
         NEW id \in DOMAIN pgs, pgs[id].leaf, NEW k \in Key, Within(lo, hi, id, k),
         \A j \in RowsIn(pgs) : j < k
  PROVE  pgs[id].next = Null
<1>0. Tree(pgs, rt, h, lo, hi, rt, rt)
  BY DEF Whole
<1>1. SUFFICES ASSUME pgs[id].next # Null PROVE FALSE
  OBVIOUS
<1> DEFINE s == pgs[id].next
<1>2. s \in DOMAIN pgs /\ h[s] = h[id] /\ lo[s] = hi[id]
  BY <1>0, <1>1 DEF Tree, ChainFits
<1> HIDE DEF s
<1>3. h[id] = 0
  BY <1>0, Bounds
<1>4. PageFits(pgs[s], lo[s], hi[s]) /\ pgs[s].leaf /\ lo[s] \in Nat
  BY <1>0, <1>2, <1>3, Bounds
<1>5. Len(pgs[s].keys) # 0 /\ pgs[s] \in PageRec
  BY <1>2, <1>4 DEF LastEmpty, PageFits
<1>6. 1 \in 1 .. Len(pgs[s].keys) /\ pgs[s].keys[1] \in Key
  BY <1>5, RecFields
<1> DEFINE j == pgs[s].keys[1]
<1>7. j \in RowsIn(pgs)
  BY <1>2, <1>4, <1>6 DEF RowsIn, KeysIn
<1>8. lo[s] <= j
  BY <1>4, <1>6 DEF PageFits
<1>9. j \in Nat /\ k \in Nat /\ j < k /\ k < lo[s]
  BY <1>2, <1>6, <1>7, Numbers DEF Within
<1> QED BY ONLY <1>4, <1>8, <1>9

(* The place of a page whose right half is at the end of its level is the  *)
(* last one of a page that is at the end of its own.                       *)
LEMMA LastPlace ==
  ASSUME NEW pgs, NEW rt, NEW h, NEW lo, NEW hi, NEW x, NEW y, Tree(pgs, rt, h, lo, hi, x, y), x # y,
         NEW q \in DOMAIN pgs, NEW i \in 1 .. Len(pgs[q].kids), pgs[q].kids[i] = x, pgs[y].next = Null
  PROVE  pgs[q].next = Null /\ \A j \in 1 .. Len(pgs[q].keys) : pgs[q].keys[j] < hi[x]
<1> DEFINE n == pgs[q]  k == hi[x]
<1>1. /\ PageFits(n, lo[q], hi[q]) /\ lo[q] \in Nat /\ hi[q] \in Nat /\ ~n.leaf /\ n \in PageRec
      /\ k \in Key /\ Low(n, lo[q], i) < k
  <2>1. n = pgs[q] /\ k = hi[x]
    OBVIOUS
  <2> HIDE DEF n, k
  <2> QED BY <2>1, KeyGoesUp
<1>2. y \in DOMAIN pgs
  BY DEF Tree, PairFits
<1>3. \A id \in DOMAIN pgs : id \in Nat
  BY Bounds
<1>4. hi[y] = MaxKey + 1
  BY <1>2, <1>3, Numbers DEF Tree, ChainFits
<1>5. hi[y] = High(n, hi[q], i)
  BY KidOf DEF KidFits, EndOf
<1>6. Len(n.kids) = Len(n.keys) + 1 /\ Len(n.keys) \in Nat
  BY <1>1, RecFields DEF PageFits
<1>7. i = Len(n.kids)
  <2> SUFFICES ASSUME i # Len(n.kids) PROVE FALSE
    OBVIOUS
  <2>1. i \in 1 .. Len(n.keys)
    BY <1>6
  <2>2. n.keys[i] \in Key
    BY <1>1, <2>1, RecFields
  <2>3. n.keys[i] = MaxKey + 1
    BY <1>4, <1>5 DEF High
  <2>4. n.keys[i] <= MaxKey /\ MaxKey \in Nat
    BY <2>2, Numbers
  <2> QED BY ONLY <2>3, <2>4
<1>8. hi[q] = MaxKey + 1
  BY <1>4, <1>5, <1>7 DEF High
<1>9. n.next = Null
  BY <1>8 DEF Tree, ChainFits
<1>10. ASSUME NEW j \in 1 .. Len(n.keys) PROVE n.keys[j] < k
  <2> DEFINE e == Len(n.keys)
  <2>1. e \in 1 .. e /\ i # 1 /\ i - 1 = e
    BY <1>6, <1>7
  <2>2. n.keys[e] < k
    BY <1>1, <2>1 DEF Low
  <2>3. n.keys[j] \in Nat /\ n.keys[e] \in Nat /\ k \in Nat
    BY <1>1, <2>1, RecFields, Numbers
  <2>4. j < e => n.keys[j] < n.keys[e]
    BY <1>1, <2>1 DEF PageFits, KeysRise
  <2>5. j < e \/ j = e
    BY <1>6
  <2> QED BY <2>2, <2>3, <2>4, <2>5
<1> QED BY <1>9, <1>10

(* Then neither defect of a split is met.                                  *)
LEMMA AppendUntroubled ==
  ASSUME IInv, AppendInv
  PROVE  Untroubled
<1>1. StoreInv /\ CallInv /\ ShapeInv /\ RowsInv
  BY DEF IInv
<1>2. ASSUME pc = "split_leaf" PROVE arg.key \notin KeySet(pages[Last(path).page])
  <2> DEFINE id == Last(path).page
  <2>1. num > 0
    BY <1>1, <1>2 DEF CallInv, StoreInv
  <2>2. PICK h, lo, hi : Shape(h, lo, hi)
    BY <1>1, <1>2, <2>1 DEF ShapeInv, Inserting
  <2>3. Way(pages, root, path) /\ pages[id].leaf /\ arg.key \in Key
    BY <1>2, <2>2 DEF Shape, AtLeaf
  <2>4. id \in DOMAIN pages
    <3>1. path \in Seq(Step) /\ Len(path) > 0 /\ id = path[Len(path)].page
          /\ \A i \in 1 .. Len(path) : path[i].page \in DOMAIN pages
      BY <2>3 DEF Way, Last
    <3>2. Len(path) \in 1 .. Len(path)
      BY <3>1
    <3> QED BY <3>1, <3>2
  <2>5. arg.key \notin RowsIn(pages)
    <3>1. \A j \in RowsIn(pages) : j < arg.key
      BY <1>1, <1>2 DEF RowsInv, AppendInv
    <3>2. ~(arg.key < arg.key)
      BY <2>3, Numbers
    <3> QED BY <3>1, <3>2
  <2>6. arg.key \notin KeysIn(pages[id])
    BY <2>3, <2>4, <2>5 DEF RowsIn
  <2>7. pages[id] \in PageRec
    BY <1>1, <2>4 DEF StoreInv, PagesOK, PageOK
  <2> QED BY <2>6, <2>7, KeySetIs
<1>3. ASSUME pc = "split_internal", NEW n, n = pages[Last(path).page], NEW i \in 1 .. KeptBySplit(n)
      PROVE  n.keys[i] < arg.key
  <2> DEFINE e == Last(path)  q == e.page  x == pages[q].kids[e.idx + 1]  y == arg.child  m == e.idx + 1
  <2>1. num > 0
    BY <1>1, <1>3 DEF CallInv, StoreInv
  <2>2. PICK h, lo, hi : Shape(h, lo, hi)
    BY <1>1, <1>3, <2>1 DEF ShapeInv, Inserting
  <2>3. /\ Tree(pages, root, h, lo, hi, x, y) /\ x # y /\ arg.key = hi[x] /\ Way(pages, root, path)
        /\ m \in 1 .. Len(pages[q].kids) /\ pages[q].kids[m] = x
    BY <1>3, <2>2 DEF Shape, Waits, WaitsBelow
  <2>4. q \in DOMAIN pages
    <3>1. path \in Seq(Step) /\ Len(path) > 0 /\ q = path[Len(path)].page
          /\ \A j \in 1 .. Len(path) : path[j].page \in DOMAIN pages
      BY <2>3 DEF Way, Last
    <3>2. Len(path) \in 1 .. Len(path)
      BY <3>1
    <3> QED BY <3>1, <3>2
  <2>5. pages[y].next = Null
    BY <1>3 DEF AppendInv
  <2>6. n = pages[q]
    BY <1>3
  <2> HIDE DEF e, q, x, y, m
  <2>7. \A j \in 1 .. Len(n.keys) : n.keys[j] < arg.key
    BY <2>3, <2>4, <2>5, <2>6, LastPlace
  <2>8. n \in PageRec
    BY <1>1, <2>4, <2>6 DEF StoreInv, PagesOK, PageOK
  <2>9. Len(n.keys) \in Nat /\ KeptBySplit(n) = (Len(n.keys) + 1) \div 2
    BY <2>8, RecFields DEF KeptBySplit, Cells
  <2>10. i \in 1 .. Len(n.keys)
    <3>1. i \in 1 .. KeptBySplit(n)
      BY <1>3
    <3>2. ASSUME NEW a \in Nat, NEW b, b = (a + 1) \div 2, NEW c \in 1 .. b PROVE c \in 1 .. a
      BY <3>2
    <3> QED BY ONLY <2>9, <3>1, <3>2
  <2> QED BY <2>7, <2>10
<1> QED BY <1>2, <1>3 DEF Untroubled

(* An insert begins: its rows are before it, and those to come after it.   *)
LEMMA AppendBegins ==
  ASSUME Appends, IInv, AppendInv, NEW k \in Key, InsertRow(k)
  PROVE  /\ loaded' \in 0 .. Len(Preload) /\ op' = [op |-> "insert", key |-> k]
         /\ pc' \in {"answered", "split_leaf"}
         /\ \A j \in before' : j < k
         /\ Ahead(k)' /\ \A j \in before' : Ahead(j)'
<1> DEFINE m == Len(Preload)
<1>1. pc = "idle" /\ MayInsert(k) /\ op' = [op |-> "insert", key |-> k] /\ before' = TreeRows
  BY DEF InsertRow, Begin
<1>2. TreeRows = RowsIn(pages)
  BY <1>1, RowsFound DEF IInv
<1>3. m \in Nat /\ loaded \in 0 .. m /\ \A i \in 1 .. m : Preload[i] \in Nat
  <2>1. Preload \in Seq(Key)
    BY BTreeAssumption
  <2>2. \A i \in 1 .. m : Preload[i] \in Key
    BY <2>1
  <2> QED BY <2>1, <2>2, Numbers DEF AppendInv
<1>4. \A j \in RowsIn(pages) : j \in Nat /\ Ahead(j)
  BY <1>1, Numbers DEF AppendInv, RowsIn
<1>5. pc' \in {"answered", "split_leaf"}
  BY DEF InsertRow, InsertFirst, InsertInLeaf, Answer, Goto
<1>6. k \in Nat
  BY Numbers
<1>7. CASE loaded < m
  <2>1. k = Preload[loaded + 1] /\ loaded' = loaded + 1
    BY <1>1, <1>7 DEF MayInsert
  <2>2. \A j \in RowsIn(pages) : j < k
    BY <1>4, <1>7, <2>1 DEF Ahead
  <2>3. loaded' \in 0 .. m
    BY <1>3, <1>7, <2>1
  <2>4. ASSUME loaded' < m PROVE k < Preload[loaded' + 1] /\ Preload[loaded' + 1] \in Nat
    <3>1. loaded + 1 \in 1 .. m /\ loaded' + 1 \in 1 .. m /\ loaded + 1 < loaded' + 1
      BY <1>3, <2>1, <2>4
    <3>2. Preload[loaded + 1] < Preload[loaded' + 1]
      BY <3>1 DEF Appends
    <3> QED BY <1>3, <2>1, <3>1, <3>2
  <2>5. Ahead(k)'
    BY <2>4 DEF Ahead
  <2>6. ASSUME NEW j \in before' PROVE j < k /\ Ahead(j)'
    <3>1. j \in Nat /\ j < k
      BY <1>1, <1>2, <1>4, <2>2, <2>6
    <3>2. loaded' < m => j < Preload[loaded' + 1]
      BY <1>6, <2>4, <3>1
    <3> QED BY <3>1, <3>2 DEF Ahead
  <2> QED BY <1>1, <1>5, <2>3, <2>5, <2>6
<1>8. CASE ~(loaded < m)
  <2>1. loaded' = loaded /\ \A j \in TreeRows : j < k
    BY <1>1, <1>8 DEF MayInsert, Appends
  <2>2. \A j : Ahead(j)'
    BY <1>8, <2>1 DEF Ahead
  <2> QED BY <1>1, <1>3, <1>5, <2>1, <2>2
<1> QED BY <1>7, <1>8

(* Every step of an appending client keeps that.                           *)
LEMMA AppendNext ==
  ASSUME Appends, IInv, AppendInv, [Next]_vars, IInv'
  PROVE  AppendInv'
<1>0. loaded \in 0 .. Len(Preload) /\ Len(Preload) \in Nat /\ Deletable = {}
  BY BTreeAssumption DEF AppendInv, Appends
<1>1. ASSUME NEW k \in Key, InsertRow(k) PROVE AppendInv'
  <2>1. /\ loaded' \in 0 .. Len(Preload) /\ op' = [op |-> "insert", key |-> k]
        /\ pc' \in {"answered", "split_leaf"}
        /\ \A j \in before' : j < k
        /\ Ahead(k)' /\ \A j \in before' : Ahead(j)'
    BY <1>1, AppendBegins
  <2>2. op'.op = "insert" /\ op'.key = k
    BY <2>1
  <2>3. pc' = "split_leaf" => arg'.key = k
    <3>1. pc' = "split_leaf" => Adds(arg.key)'
      BY DEF IInv, RowsInv
    <3> QED BY <2>2, <3>1 DEF Adds
  <2>4. pc' = "split_leaf" => \A j \in before' : j < arg'.key
    BY <2>1, <2>3
  <2>5. Ahead(op.key)'
    BY <2>1, <2>2 DEF Ahead
  <2> QED BY <2>1, <2>2, <2>4, <2>5 DEF AppendInv
<1>2. ASSUME NEW k \in Key, DeleteRow(k) PROVE AppendInv'
  BY <1>0, <1>2 DEF DeleteRow
<1>3. CASE InsertRowAuto
  <2>1. /\ loaded = Len(Preload) /\ loaded' = loaded /\ op' = [op |-> "auto", key |-> 0]
        /\ pc' \in {"answered", "split_leaf", "panic"}
    BY <1>3 DEF InsertRowAuto, Begin, Preloaded, InsertFirst, InsertInLeaf, Answer, Goto, Panic
  <2>2. \A j : Ahead(j)'
    BY <1>0, <2>1 DEF Ahead
  <2>3. ASSUME pc' = "split_leaf" PROVE \A j \in before' : j < arg'.key
    <3>1. PICK k : k = arg'.key
      OBVIOUS
    <3>2. Adds(arg.key)'
      BY <2>3 DEF IInv, RowsInv
    <3>3. R!NextKey(arg.key, before)'
      BY <2>1, <3>2 DEF Adds
    <3> QED BY <3>3 DEF R!NextKey
  <2> QED BY <1>0, <2>1, <2>2, <2>3 DEF AppendInv
<1>4. CASE Flush
  <2>1. UNCHANGED <<pages, pc, arg, op, before>>
    BY <1>4 DEF Flush
  <2>2. loaded' = loaded
    BY <1>4 DEF Flush, Preloaded
  <2> QED BY <2>1, <2>2 DEF AppendInv, Ahead
<1>5. ASSUME UNCHANGED <<op, before, loaded>>, pc # "idle", pc' \in {"answered", "panic", "to_parent", "split_internal"},
             pc' \in {"to_parent", "split_internal"} => pages'[arg'.child].next = Null
      PROVE  AppendInv'
  BY <1>5 DEF AppendInv, Ahead
<1>6. CASE SplitInsertLeaf
  <2>1. SameEnd \/ pc' # "to_parent"
    BY <1>6, AppendUntroubled, SplitInsertLeafKeeps
  <2>2. UNCHANGED <<op, before, loaded>> /\ pc = "split_leaf" /\ pc' \in {"answered", "panic", "to_parent"}
    BY <1>6 DEF SplitInsertLeaf, Inside, Panic, Answer, Goto
  <2>3. pages[Last(path).page].next = Null
    <3> DEFINE id == Last(path).page
    <3>1. num > 0 /\ StoreInv /\ ShapeInv /\ RowsInv
      BY <2>2 DEF IInv, CallInv, StoreInv
    <3>2. PICK h, lo, hi : Shape(h, lo, hi)
      BY <2>2, <3>1 DEF ShapeInv, Inserting
    <3>3. /\ Whole(pages, root, h, lo, hi) /\ Way(pages, root, path) /\ pages[id].leaf
          /\ arg.key \in Key /\ Within(lo, hi, id, arg.key)
      BY <2>2, <3>2 DEF Shape, AtLeaf
    <3>4. id \in DOMAIN pages
      <4>1. path \in Seq(Step) /\ Len(path) > 0 /\ id = path[Len(path)].page
            /\ \A i \in 1 .. Len(path) : path[i].page \in DOMAIN pages
        BY <3>3 DEF Way, Last
      <4>2. Len(path) \in 1 .. Len(path)
        BY <4>1
      <4> QED BY <4>1, <4>2
    <3>5. LastEmpty(pages) /\ \A j \in RowsIn(pages) : j < arg.key
      BY <2>2, <3>1 DEF ShapeInv, Inserting, RowsInv, AppendInv
    <3> HIDE DEF id
    <3>6. pages[id].next = Null
      BY <1>0, <3>3, <3>4, <3>5, LeafOfLast
    <3> QED BY <3>6 DEF id
  <2>4. pc' = "to_parent" => pages'[arg'.child].next = Null
    BY <2>1, <2>3 DEF SameEnd
  <2>5. pc # "idle" /\ pc' \in {"answered", "panic", "to_parent", "split_internal"} /\ pc' # "split_internal"
    BY <2>2
  <2> QED BY <1>5, <2>2, <2>4, <2>5
<1>7. CASE InsertToParent
  <2>1. UNCHANGED <<op, before, loaded>> /\ pc = "to_parent"
    BY <1>7 DEF InsertToParent, Inside
  <2>2. \/ pc' \in {"answered", "panic"}
        \/ pc' = "split_internal" /\ pages' = pages /\ arg'.child = arg.child
    <3> DEFINE up == Front(path)  r == InsertCell(pages[Last(up).page], arg.key, arg.child)
    <3>1. \/ \E v : Answer(v)
          \/ Panic("overflow")
          \/ Goto("split_internal", up, arg.key, arg.child) /\ UNCHANGED store
      <4> HIDE DEF r
      <4> QED BY <1>7 DEF InsertToParent, r
    <3> HIDE DEF up
    <3>2. ASSUME NEW v, Answer(v) PROVE pc' = "answered"
      BY <3>2 DEF Answer
    <3>3. Panic("overflow") => pc' = "panic"
      BY DEF Panic
    <3>4. ASSUME Goto("split_internal", up, arg.key, arg.child), UNCHANGED store
          PROVE  pc' = "split_internal" /\ pages' = pages /\ arg'.child = arg.child
      BY <3>4 DEF Goto, store
    <3> QED BY <3>1, <3>2, <3>3, <3>4
  <2>3. pages[arg.child].next = Null
    BY <2>1 DEF AppendInv
  <2> QED BY <1>5, <2>1, <2>2, <2>3
<1>8. CASE SplitInsertInternal
  <2>1. SameEnd \/ pc' # "to_parent"
    BY <1>8, AppendUntroubled, SplitInsertInternalKeeps
  <2>2. UNCHANGED <<op, before, loaded>> /\ pc = "split_internal" /\ pc' \in {"panic", "to_parent"}
    BY <1>8 DEF SplitInsertInternal, Inside, Panic, Goto
  <2>3. pages[Last(path).page].next = Null
    <3> DEFINE e == Last(path)  q == e.page  x == pages[q].kids[e.idx + 1]  y == arg.child  m == e.idx + 1
    <3>1. num > 0 /\ StoreInv /\ ShapeInv
      BY <2>2 DEF IInv, CallInv, StoreInv
    <3>2. PICK h, lo, hi : Shape(h, lo, hi)
      BY <2>2, <3>1 DEF ShapeInv, Inserting
    <3>3. /\ Tree(pages, root, h, lo, hi, x, y) /\ x # y /\ Way(pages, root, path)
          /\ m \in 1 .. Len(pages[q].kids) /\ pages[q].kids[m] = x
      BY <2>2, <3>2 DEF Shape, Waits, WaitsBelow
    <3>4. q \in DOMAIN pages
      <4>1. path \in Seq(Step) /\ Len(path) > 0 /\ q = path[Len(path)].page
            /\ \A j \in 1 .. Len(path) : path[j].page \in DOMAIN pages
        BY <3>3 DEF Way, Last
      <4>2. Len(path) \in 1 .. Len(path)
        BY <4>1
      <4> QED BY <4>1, <4>2
    <3>5. pages[y].next = Null
      BY <2>2 DEF AppendInv
    <3> HIDE DEF e, q, x, y, m
    <3>6. pages[q].next = Null
      BY <3>3, <3>4, <3>5, LastPlace
    <3> QED BY <3>6 DEF e, q
  <2>4. pc' = "to_parent" => pages'[arg'.child].next = Null
    BY <2>1, <2>3 DEF SameEnd
  <2>5. pc # "idle" /\ pc' \in {"answered", "panic", "to_parent", "split_internal"} /\ pc' # "split_internal"
    BY <2>2
  <2> QED BY <1>5, <2>2, <2>4, <2>5
<1>9. CASE RebalanceLeaves
  BY <1>9 DEF RebalanceLeaves, AppendInv
<1>10. CASE DeleteInternalCell \/ RebalanceInternals
  BY <1>10 DEF DeleteInternalCell, RebalanceInternals, AppendInv
<1>11. CASE Return
  BY <1>11 DEF Return, AppendInv
<1>12. CASE Read
  <2>1. pc = "answered" /\ pc' = "idle" /\ pages' = pages /\ loaded' = loaded
    BY <1>12 DEF Read, store
  <2>2. /\ op.op = "insert" => Ahead(op.key)
        /\ op.op = "auto" => loaded = Len(Preload)
        /\ \A j \in before : Ahead(j)
    BY <2>1 DEF AppendInv
  <2>3. ASSUME NEW j \in RowsIn(pages) PROVE Ahead(j)
    <3>1. j \in before \/ (HasAdded /\ j \notin before)
      BY <2>1, <2>3 DEF IInv, RowsInv, Answered, HasDeleted
    <3>2. ASSUME HasAdded, j \notin before PROVE Ahead(j)
      <4>1. Adds(j)
        BY <2>3, <3>2 DEF HasAdded
      <4>2. CASE op.op = "insert" /\ op.key = j
        BY <2>2, <4>2
      <4>3. CASE op.op = "auto"
        BY <1>0, <2>2, <4>3 DEF Ahead
      <4> QED BY <4>1, <4>2, <4>3 DEF Adds
    <3> QED BY <2>2, <3>1, <3>2
  <2>4. \A j \in RowsIn(pages') : Ahead(j)'
    BY <2>1, <2>3 DEF Ahead
  <2> QED BY <1>0, <2>1, <2>4 DEF AppendInv
<1>13. CASE UNCHANGED vars
  BY <1>13 DEF vars, store, AppendInv, Ahead
<1>14. CASE StayPanicked
  BY <1>13, <1>14 DEF StayPanicked
<1> QED BY <1>1, <1>2, <1>3, <1>4, <1>6, <1>7, <1>8, <1>9, <1>10, <1>11, <1>12, <1>13, <1>14
        DEF Next, Method

(* No rows at first.                                                       *)
LEMMA AppendStarts ==
  ASSUME Init
  PROVE  AppendInv
<1>1. Len(Preload) \in Nat
  BY BTreeAssumption
<1>2. RowsIn(pages) = {}
  BY DEF Init, RowsIn
<1> QED BY <1>1, <1>2 DEF Init, AppendInv

(* Appending clients never run into what the theorems above leave out.     *)
THEOREM AppendsUntroubled ==
  ASSUME Appends
  PROVE  Spec => [](IInv /\ AppendInv /\ Untroubled)
<1>1. Init => IInv /\ AppendInv
  BY InitHolds, AppendStarts
<1>2. IInv /\ AppendInv /\ [Next]_vars => IInv' /\ AppendInv'
  <2> SUFFICES ASSUME IInv, AppendInv, [Next]_vars PROVE IInv' /\ AppendInv'
    OBVIOUS
  <2>2. IInv'
    BY AppendUntroubled, NextKeeps
  <2> QED BY <2>2, AppendNext
<1>3. IInv /\ AppendInv => Untroubled
  BY AppendUntroubled
<1> QED BY <1>1, <1>2, <1>3, PTL DEF Spec

-----------------------------------------------------------------------------
(* Merges go through, and cells are never taken across parents.            *)

(* A rebalance that would merge a page, or take cells for it, from a       *)
(* sibling that is not behind it in its own parent.                        *)
TakesAcrossParents ==
  /\ pc \in {"rebalance_leaves", "rebalance_internals"} /\ SibId # Null
  /\ Above # << >> /\ ~SameParent /\ (Merges \/ Shares)

(* Why a rebalance panics, when it does.                                   *)
LEMMA AcrossPanics ==
  ASSUME IInv, pc \in {"rebalance_leaves", "rebalance_internals"}, Rebalance, TakesAcrossParents
  PROVE  pc' = "panic"
<1>1. CASE Why = "none"
  <2>1. PICK full, h, lo, hi : ToRebalance(full, h, lo, hi)
    BY DEF IInv, DeleteInv
  <2>2. SameParent
    BY <1>1, <2>1, WhyNone DEF TakesAcrossParents
  <2> QED BY <2>2 DEF TakesAcrossParents
<1>2. CASE Why # "none"
  <2>1. Panic(Why)
    BY <1>2, RebalanceIs DEF TakesAcrossParents
  <2> QED BY <2>1 DEF Panic
<1> QED BY <1>1, <1>2

(* A merge of two pages of one parent, with a first row found below the    *)
(* sibling.                                                                *)
MergesInParent ==
  /\ pc \in {"rebalance_leaves", "rebalance_internals"} /\ SibId # Null /\ Merges
  /\ Above # << >> /\ Cells(RestOf[ParentEntry.page]) # 0 /\ SameParent /\ ~NoLeaf

(* The parent is there.                                                    *)
LEMMA MergeSpot ==
  ASSUME NEW full, NEW h, NEW lo, NEW hi, ToRebalance(full, h, lo, hi), MergesInParent
  PROVE  Spot.page \in DOMAIN RestOf
<1> DEFINE q == ParentEntry.page  c == ParentEntry.idx + 1
<1>1. q \in DOMAIN full /\ q \in DOMAIN RestOf /\ c \in Nat /\ Way(full, root, Above)
  BY EdgeAt DEF MergesInParent
<1>2. q = Last(Above).page
  BY DEF ParentEntry
<1>3. SibWay = Append(Front(Above), Entry(q, c))
  BY DEF SibWay, MergesInParent
<1>4. \A i \in 1 .. Len(Above) - 1 : Above[i].page \in DOMAIN full
  <2>1. Len(Above) \in Nat /\ \A i \in 1 .. Len(Above) : Above[i].page \in DOMAIN full
    BY <1>1 DEF Way
  <2> QED BY <2>1
<1> DEFINE p == Above  w == SibWay
<1>5. /\ Way(full, root, p) /\ c \in Nat /\ q = Last(p).page /\ q \in DOMAIN full
      /\ (\A i \in 1 .. Len(p) - 1 : p[i].page \in DOMAIN full /\ full[p[i].page] = full[p[i].page])
      /\ w = Append(Front(p), Entry(q, c))
  BY <1>1, <1>2, <1>3, <1>4
<1> HIDE DEF p, w, q, c
<1>6. Turned(full, full, root, p, c, q, w)
  BY ONLY <1>5 DEF Turned
<1>7. Last(w) = Entry(q, c)
  BY ONLY <1>6, WayTurned
<1>8. Spot = Entry(q, c)
  BY <1>7 DEF Spot, w
<1> QED BY <1>1, <1>8 DEF Entry

(* Such a merge is done.                                                   *)
LEMMA MergeGoesOn ==
  ASSUME IInv, Rebalance, MergesInParent
  PROVE  pc' = "delete_internal"
<1>1. PICK full, h, lo, hi : ToRebalance(full, h, lo, hi)
  BY DEF IInv, DeleteInv, MergesInParent
<1>2. GrownRes.res = "ok"
  BY <1>1, MergeHasRoom DEF MergesInParent
<1>3. Spot.page \in DOMAIN RestOf
  BY <1>1, MergeSpot
<1>4. Why = "none"
  BY <1>2, <1>3 DEF Why, Shares, MergesInParent
<1>5. MergeDone
  BY <1>2, <1>4, RebalanceIs DEF MergesInParent
<1> QED BY <1>5 DEF MergeDone

(* No other action goes on from there.                                    *)
LEMMA RebalanceOnly ==
  ASSUME Next, pc \in {"rebalance_leaves", "rebalance_internals"}
  PROVE  Rebalance
BY DEF Next, Method, StayPanicked, InsertRow, DeleteRow, InsertRowAuto, Begin, Flush, SplitInsertLeaf,
       InsertToParent, SplitInsertInternal, RebalanceLeaves, RebalanceInternals, DeleteInternalCell, Return, Read

-----------------------------------------------------------------------------
(* The theorems.                                                           *)

(* The registered pages have the types of pages, and are, with the taken   *)
(* and the free ones, the pages of the file: no split or delete loses one. *)
THEOREM Types == Spec /\ []Untroubled => []TypeOK
BY Inductive, TypesHold, PTL

(* Through any sequence of inserts, splits and deletes every page but the  *)
(* root keeps exactly one place in a parent, and all leaves stay on one    *)
(* level, for any sizes of pages and cells.                                *)
THEOREM PagesAreOwned == Spec /\ []Untroubled => []TreeOwnsItsPages
BY Inductive, OwnsHolds, PTL

(* The sibling pointers of every level stay the order of the tree.         *)
THEOREM SiblingsStayInOrder == Spec /\ []Untroubled => []SiblingsInOrder
BY Inductive, OrderHolds, PTL

(* The leaves hold their keys in rising order, and a search from the root  *)
(* finds just the keys that a scan of the leaves yields.                   *)
THEOREM SearchFindsWhatScanYields == Spec /\ []Untroubled => []SearchAgreesWithScan
BY Inductive, AgreesHolds, PTL

(* No delete leaves an empty leaf that a cursor would take for the end.    *)
THEOREM NoLeafEmptyButLast == Spec /\ []Untroubled => []OnlyLastLeafEmpty
BY Inductive, LastEmptyHolds, PTL

(* The free space of a page, counted up and down by inserts, deletes and   *)
(* splits, is never more than what its cells leave.                        *)
THEOREM RoomIsThere == Spec /\ []Untroubled => []RoomNeverOverstated
BY Inductive, RoomHolds, PTL

(* A page never takes cells from a sibling in another parent: whenever     *)
(* rebalance_leaves() or rebalance_internals() would, the program panics.  *)
(* (table.rs:846)                                                          *)
THEOREM TakingAcrossPanics ==
  Spec /\ []Untroubled => [][TakesAcrossParents => pc' = "panic"]_vars
<1>1. IInv /\ [Next]_vars => [TakesAcrossParents => pc' = "panic"]_vars
  <2> SUFFICES ASSUME IInv, Next, TakesAcrossParents PROVE pc' = "panic"
    OBVIOUS
  <2>1. pc \in {"rebalance_leaves", "rebalance_internals"}
    BY DEF TakesAcrossParents
  <2> QED BY <2>1, RebalanceOnly, AcrossPanics
<1>2. Spec /\ []Untroubled => []IInv
  BY Inductive
<1> QED BY <1>1, <1>2, PTL DEF Spec

(* A merge always has room: where the pages have one parent, no cell of    *)
(* the sibling is refused halfway through, with both pages taken, and the  *)
(* parent is told to drop its key.  (the `?` of table.rs:818)              *)
THEOREM MergesGoThrough ==
  Spec /\ []Untroubled => [][MergesInParent => pc' = "delete_internal"]_vars
<1>1. IInv /\ [Next]_vars => [MergesInParent => pc' = "delete_internal"]_vars
  <2> SUFFICES ASSUME IInv, Next, MergesInParent PROVE pc' = "delete_internal"
    OBVIOUS
  <2>1. pc \in {"rebalance_leaves", "rebalance_internals"}
    BY DEF MergesInParent
  <2> QED BY <2>1, RebalanceOnly, MergeGoesOn
<1>2. Spec /\ []Untroubled => []IInv
  BY Inductive
<1> QED BY <1>1, <1>2, PTL DEF Spec

(* A client that inserts rising keys needs no hypothesis on its calls:     *)
(* its tables are whole and implement the set of rows, of any size.        *)
THEOREM AppendedTablesAreRight ==
  ASSUME Appends
  PROVE  Spec => /\ [](TypeOK /\ TreeOwnsItsPages /\ SiblingsInOrder)
                 /\ [](SearchAgreesWithScan /\ OnlyLastLeafEmpty /\ RoomNeverOverstated)
                 /\ ImplementsRowSet
<1>1. Spec => []Untroubled
  BY AppendsUntroubled, PTL
<1> QED BY <1>1, Types, PagesAreOwned, SiblingsStayInOrder, SearchFindsWhatScanYields, NoLeafEmptyButLast,
           RoomIsThere, TableIsRowSet, PTL
=============================================================================
