------------------------------ MODULE TreeShape -----------------------------
(***************************************************************************)
(* The shape of the B+tree of module BTree, and what the operators of that *)
(* module do to it: the lemmas that BTreeProofs takes its steps from.      *)
(*                                                                         *)
(* A set of pages is a tree when every page has bounds - lo[id] and        *)
(* hi[id], the keys from lo up to but not including hi belong below it -   *)
(* and a level h[id], such that the root has all keys, the children of a   *)
(* page divide the bounds between its keys, pages of one level do not      *)
(* overlap, and the sibling pointer of a page leads to the page whose      *)
(* bounds begin where its own end. While a split is under way one page, y, *)
(* has no place in a parent yet: the place of page x has the bounds of     *)
(* both.                                                                   *)
(***************************************************************************)
EXTENDS BTree, Induction

(* Pages as records.                                                       *)
PageRec == [leaf : BOOLEAN, keys : Seq(Key), kids : Seq(Nat), next : Nat \cup {Null},
            room : Nat, gap : Nat]

KeysRise(n) == \A i, j \in 1 .. Len(n.keys) : i < j => n.keys[i] < n.keys[j]

(* The keys of a page rise and are within its bounds; only in a leaf can   *)
(* one be the lower bound.                                                 *)
PageFits(n, a, z) ==
  /\ n \in PageRec
  /\ Len(n.kids) = IF n.leaf THEN 0 ELSE Len(n.keys) + 1
  /\ KeysRise(n)
  /\ \A i \in 1 .. Len(n.keys) : a <= n.keys[i] /\ n.keys[i] < z /\ (n.leaf \/ a < n.keys[i])

(* Bounds of the child with number i, and the end of the place that x      *)
(* shares with y.                                                          *)
Low(n, a, i)  == IF i = 1 THEN a ELSE n.keys[i - 1]
High(n, z, i) == IF i = Len(n.kids) THEN z ELSE n.keys[i]
EndOf(hi, x, y, id) == IF id = x THEN hi[y] ELSE hi[id]

(* Every page has bounds and a level that fit it.                          *)
PagesFit(pgs, h, lo, hi) ==
  \A id \in DOMAIN pgs :
    /\ id \in Nat /\ h[id] \in Nat /\ lo[id] \in Nat /\ hi[id] \in Nat
    /\ lo[id] < hi[id] /\ hi[id] <= MaxKey + 1
    /\ PageFits(pgs[id], lo[id], hi[id])
    /\ pgs[id].leaf <=> h[id] = 0

(* The root has all keys, and the highest level.                           *)
RootFits(pgs, rt, h, lo, hi, x, y) ==
  /\ rt \in DOMAIN pgs /\ lo[rt] = 0 /\ EndOf(hi, x, y, rt) = MaxKey + 1
  /\ \A id \in DOMAIN pgs : h[id] <= h[rt]

(* The children of a page divide its bounds.                               *)
KidFits(pgs, h, lo, hi, x, y, id, i) ==
  LET kid == pgs[id].kids[i]
  IN  /\ kid \in DOMAIN pgs /\ h[id] = h[kid] + 1
      /\ lo[kid] = Low(pgs[id], lo[id], i)
      /\ EndOf(hi, x, y, kid) = High(pgs[id], hi[id], i)

KidsFit(pgs, h, lo, hi, x, y) ==
  \A id \in DOMAIN pgs : \A i \in 1 .. Len(pgs[id].kids) : KidFits(pgs, h, lo, hi, x, y, id, i)

(* Every page but the root and the waiting one has a place.                *)
HasPlace(pgs, id) ==
  \E p \in DOMAIN pgs : \E i \in 1 .. Len(pgs[p].kids) : pgs[p].kids[i] = id

AllPlaced(pgs, rt, y) == \A id \in DOMAIN pgs : id # rt /\ id # y => HasPlace(pgs, id)

(* Pages of one level have no key in common.                               *)
LevelsApart(pgs, h, lo, hi) ==
  \A p, q \in DOMAIN pgs : h[p] = h[q] /\ p # q => hi[p] <= lo[q] \/ hi[q] <= lo[p]

(* A sibling pointer leads to the page that begins where its page ends.    *)
ChainFits(pgs, h, lo, hi) ==
  \A id \in DOMAIN pgs :
    IF hi[id] = MaxKey + 1 THEN pgs[id].next = Null
    ELSE pgs[id].next \in DOMAIN pgs /\ h[pgs[id].next] = h[id] /\ lo[pgs[id].next] = hi[id]

(* The waiting page y is right behind page x.                              *)
PairFits(pgs, rt, h, lo, hi, x, y) ==
  x # y => x \in DOMAIN pgs /\ y \in DOMAIN pgs /\ h[x] = h[y] /\ lo[y] = hi[x] /\ y # rt

(* A tree in which y has no place yet; a whole one if x is y.              *)
Tree(pgs, rt, h, lo, hi, x, y) ==
  /\ PagesFit(pgs, h, lo, hi)
  /\ RootFits(pgs, rt, h, lo, hi, x, y)
  /\ KidsFit(pgs, h, lo, hi, x, y)
  /\ AllPlaced(pgs, rt, y)
  /\ LevelsApart(pgs, h, lo, hi)
  /\ ChainFits(pgs, h, lo, hi)
  /\ PairFits(pgs, rt, h, lo, hi, x, y)

Whole(pgs, rt, h, lo, hi) == Tree(pgs, rt, h, lo, hi, rt, rt)

(* One page becomes another.                                               *)
Changed(pgs, new, id, n) ==
  /\ id \in DOMAIN pgs /\ DOMAIN new = DOMAIN pgs /\ new[id] = n
  /\ \A p \in DOMAIN pgs : p # id => new[p] = pgs[p]

(* Another page in the place of one with the same children and sibling: a  *)
(* leaf may have any rows between its bounds.                              *)
LEMMA SameShape ==
  ASSUME NEW pgs, NEW new, NEW rt, NEW h, NEW lo, NEW hi, NEW x, NEW y, NEW id, NEW n,
         Tree(pgs, rt, h, lo, hi, x, y), Changed(pgs, new, id, n),
         PageFits(n, lo[id], hi[id]),
         n.leaf = pgs[id].leaf, n.kids = pgs[id].kids, n.next = pgs[id].next,
         n.leaf \/ n.keys = pgs[id].keys
  PROVE  Tree(new, rt, h, lo, hi, x, y)
<1>1. PagesFit(new, h, lo, hi)
  BY DEF Tree, PagesFit, Changed
<1>2. RootFits(new, rt, h, lo, hi, x, y)
  BY DEF Tree, RootFits, Changed
<1>3. KidsFit(new, h, lo, hi, x, y)
  <2> SUFFICES ASSUME NEW p \in DOMAIN new, NEW i \in 1 .. Len(new[p].kids)
               PROVE  KidFits(new, h, lo, hi, x, y, p, i)
    BY DEF KidsFit
  <2>1. p \in DOMAIN pgs /\ new[p].kids = pgs[p].kids
    BY DEF Changed
  <2>2. KidFits(pgs, h, lo, hi, x, y, p, i)
    BY <2>1 DEF Tree, KidsFit
  <2>3. Low(new[p], lo[p], i) = Low(pgs[p], lo[p], i) /\ High(new[p], hi[p], i) = High(pgs[p], hi[p], i)
    <3>1. CASE p # id
      BY <3>1 DEF Changed, Low, High
    <3>2. CASE p = id /\ n.leaf
      <4>1. Len(new[p].kids) = 0
        BY <3>2 DEF Changed, PageFits
      <4> QED BY <4>1
    <3>3. CASE p = id /\ n.keys = pgs[id].keys
      BY <3>3, <2>1 DEF Changed, Low, High
    <3> QED BY <3>1, <3>2, <3>3
  <2> QED BY <2>1, <2>2, <2>3 DEF KidFits, Changed
<1>4. AllPlaced(new, rt, y)
  <2> SUFFICES ASSUME NEW c \in DOMAIN new, c # rt, c # y PROVE HasPlace(new, c)
    BY DEF AllPlaced
  <2>1. \A p \in DOMAIN pgs : p \in DOMAIN new /\ new[p].kids = pgs[p].kids
    BY DEF Changed
  <2>2. HasPlace(pgs, c)
    BY DEF Tree, AllPlaced, Changed
  <2> QED BY <2>1, <2>2 DEF HasPlace
<1>5. LevelsApart(new, h, lo, hi)
  BY DEF Tree, LevelsApart, Changed
<1>6. ChainFits(new, h, lo, hi)
  <2>1. \A p \in DOMAIN new : p \in DOMAIN pgs /\ new[p].next = pgs[p].next
    BY DEF Changed
  <2>2. DOMAIN new = DOMAIN pgs /\ ChainFits(pgs, h, lo, hi)
    BY DEF Tree, Changed
  <2> QED BY <2>1, <2>2 DEF ChainFits
<1>7. PairFits(new, rt, h, lo, hi, x, y)
  BY DEF Tree, PairFits, Changed
<1> QED BY <1>1, <1>2, <1>3, <1>4, <1>5, <1>6, <1>7 DEF Tree

(* The page without a parent gets its place behind the other one.          *)
Adopts(n, m, i, f, y) ==
  /\ m \in PageRec /\ m.leaf = FALSE /\ m.next = n.next
  /\ i \in 1 .. Len(n.kids)
  /\ Len(m.keys) = Len(n.keys) + 1 /\ Len(m.kids) = Len(n.kids) + 1
  /\ \A j \in 1 .. Len(n.keys) + 1 :
       m.keys[j] = IF j < i THEN n.keys[j] ELSE IF j = i THEN f ELSE n.keys[j - 1]
  /\ \A j \in 1 .. Len(n.kids) + 1 :
       m.kids[j] = IF j <= i THEN n.kids[j] ELSE IF j = i + 1 THEN y ELSE n.kids[j - 1]

-----------------------------------------------------------------------------
(* Bounds and key of a page that is a place of the tree.                   *)
LEMMA KidOf ==
  ASSUME NEW pgs, NEW rt, NEW h, NEW lo, NEW hi, NEW x, NEW y, Tree(pgs, rt, h, lo, hi, x, y),
         NEW id \in DOMAIN pgs, NEW i \in 1 .. Len(pgs[id].kids)
  PROVE  KidFits(pgs, h, lo, hi, x, y, id, i)
BY DEF Tree, KidsFit

(* The keys of a page are within its bounds.                               *)
LEMMA Bounds ==
  ASSUME NEW pgs, NEW rt, NEW h, NEW lo, NEW hi, NEW x, NEW y, Tree(pgs, rt, h, lo, hi, x, y),
         NEW id \in DOMAIN pgs
  PROVE  /\ id \in Nat /\ h[id] \in Nat /\ lo[id] \in Nat /\ hi[id] \in Nat
         /\ lo[id] < hi[id] /\ hi[id] <= MaxKey + 1
         /\ PageFits(pgs[id], lo[id], hi[id])
         /\ pgs[id].leaf <=> h[id] = 0
BY DEF Tree, PagesFit

(* Fields of a page.                                                       *)
LEMMA RecFields ==
  ASSUME NEW n \in PageRec
  PROVE  /\ n.leaf \in BOOLEAN /\ n.keys \in Seq(Key) /\ n.kids \in Seq(Nat)
         /\ n.next \in Nat \cup {Null} /\ n.room \in Nat /\ n.gap \in Nat
         /\ Len(n.keys) \in Nat /\ Len(n.kids) \in Nat
         /\ \A i \in 1 .. Len(n.keys) : n.keys[i] \in Key
         /\ \A i \in 1 .. Len(n.kids) : n.kids[i] \in Nat
BY DEF PageRec

(* What is assumed of the constants.                                       *)
LEMMA Numbers ==
  /\ MaxKey \in Nat /\ Key = 0 .. MaxKey /\ Key \subseteq Nat
  /\ PageSpace \in Nat /\ Half \in Nat /\ PtrSpace \in Nat /\ InternalSpace \in Nat
  /\ \A k \in Key : RowSpace[k] \in Nat /\ PtrSpace < RowSpace[k] /\ RowSpace[k] < Half
  /\ PtrSpace < InternalSpace /\ InternalSpace < Half
  /\ Half + Half <= PageSpace /\ Null \notin Nat
BY BTreeAssumption DEF Key, Half

(* A page that adopts a child stays sound when the key is between the      *)
(* bounds of the place.                                                    *)
LEMMA AdoptsFits ==
  ASSUME NEW n, NEW m, NEW a \in Nat, NEW z \in Nat, NEW i, NEW f \in Key, NEW y,
         PageFits(n, a, z), ~n.leaf, Adopts(n, m, i, f, y),
         Low(n, a, i) < f, f < High(n, z, i)
  PROVE  PageFits(m, a, z)
<1> DEFINE c == Len(n.keys)
<1>1. n \in PageRec /\ c \in Nat /\ Len(n.kids) = c + 1 /\ m \in PageRec
  BY RecFields DEF PageFits, Adopts
<1>2. \A j \in 1 .. c : n.keys[j] \in Nat /\ a < n.keys[j] /\ n.keys[j] < z
  BY <1>1, RecFields, Numbers DEF PageFits
<1>3. i \in 1 .. c + 1 /\ f \in Nat
  BY <1>1, Numbers DEF Adopts
<1>4. a < f
  <2>1. CASE i = 1
    BY <2>1 DEF Low
  <2>2. CASE i > 1
    <3>1. i - 1 \in 1 .. c
      BY <1>3, <1>1, <2>2
    <3>2. n.keys[i - 1] < f
      BY <2>2, <1>3 DEF Low
    <3> QED BY <3>1, <3>2, <1>2, <1>3
  <2> QED BY <2>1, <2>2, <1>3
<1>5. f < z
  <2>1. CASE i = c + 1
    BY <2>1, <1>1 DEF High
  <2>2. CASE i \in 1 .. c
    <3>1. f < n.keys[i]
      BY <2>2, <1>1 DEF High
    <3> QED BY <3>1, <2>2, <1>2, <1>3
  <2> QED BY <2>1, <2>2, <1>3, <1>1
<1>6. \A j \in 1 .. c : j < i => n.keys[j] < f
  <2> SUFFICES ASSUME NEW j \in 1 .. c, j < i PROVE n.keys[j] < f
    OBVIOUS
  <2>1. i > 1 /\ i - 1 \in 1 .. c
    BY <1>3, <1>1
  <2>2. n.keys[i - 1] < f
    BY <2>1, <1>3 DEF Low
  <2>3. j = i - 1 \/ j < i - 1
    BY <2>1, <1>3
  <2>4. j < i - 1 => n.keys[j] < n.keys[i - 1]
    BY <2>1, <1>1 DEF PageFits, KeysRise
  <2> QED BY <2>1, <2>2, <2>3, <2>4, <1>2, <1>3
<1>7. \A j \in 1 .. c : j >= i => f < n.keys[j]
  <2> SUFFICES ASSUME NEW j \in 1 .. c, j >= i PROVE f < n.keys[j]
    OBVIOUS
  <2>1. i \in 1 .. c
    BY <1>3, <1>1
  <2>2. f < n.keys[i]
    BY <2>1, <1>1 DEF High
  <2>3. j = i \/ n.keys[i] < n.keys[j]
    BY <2>1 DEF PageFits, KeysRise
  <2> QED BY <2>1, <2>2, <2>3, <1>2, <1>3
<1>8. Len(m.keys) = c + 1 /\ Len(m.kids) = c + 2 /\ ~m.leaf
  BY <1>1 DEF Adopts
<1>9. \A j \in 1 .. c + 1 : a < m.keys[j] /\ m.keys[j] < z
  <2> SUFFICES ASSUME NEW j \in 1 .. c + 1 PROVE a < m.keys[j] /\ m.keys[j] < z
    OBVIOUS
  <2>1. CASE j < i
    <3>1. m.keys[j] = n.keys[j] /\ j \in 1 .. c
      BY <2>1, <1>3, <1>1 DEF Adopts
    <3> QED BY <3>1, <1>2
  <2>2. CASE j = i
    BY <2>2, <1>3, <1>4, <1>5 DEF Adopts
  <2>3. CASE j > i
    <3>0. j - 1 \in 1 .. c /\ ~(j < i) /\ j # i
      BY <2>3, <1>3, <1>1
    <3>1. m.keys[j] = n.keys[j - 1] /\ j - 1 \in 1 .. c
      BY <3>0 DEF Adopts
    <3> QED BY <3>1, <1>2
  <2> QED BY <2>1, <2>2, <2>3, <1>3
<1>10. KeysRise(m)
  <2> SUFFICES ASSUME NEW j \in 1 .. c + 1, NEW k \in 1 .. c + 1, j < k PROVE m.keys[j] < m.keys[k]
    BY <1>8 DEF KeysRise
  <2>1. \A p, q \in 1 .. c : p < q => n.keys[p] < n.keys[q]
    BY DEF PageFits, KeysRise
  <2>2. \A p \in 1 .. c + 1 : m.keys[p] = IF p < i THEN n.keys[p] ELSE IF p = i THEN f ELSE n.keys[p - 1]
    BY DEF Adopts
  <2>3. CASE k < i
    <3>1. m.keys[j] = n.keys[j] /\ m.keys[k] = n.keys[k] /\ j \in 1 .. c /\ k \in 1 .. c
      BY <2>2, <2>3, <1>3, <1>1
    <3> QED BY <3>1, <2>1
  <2>4. CASE k = i
    <3>1. m.keys[j] = n.keys[j] /\ m.keys[k] = f /\ j \in 1 .. c
      BY <2>2, <2>4, <1>3, <1>1
    <3> QED BY <3>1, <1>6, <2>4
  <2>5. CASE k > i /\ j < i
    <3>1. m.keys[j] = n.keys[j] /\ m.keys[k] = n.keys[k - 1] /\ j \in 1 .. c /\ k - 1 \in 1 .. c /\ j < k - 1
      BY <2>2, <2>5, <1>3, <1>1
    <3> QED BY <3>1, <2>1
  <2>6. CASE k > i /\ j = i
    <3>1. m.keys[j] = f /\ m.keys[k] = n.keys[k - 1] /\ k - 1 \in 1 .. c /\ k - 1 >= i
      BY <2>2, <2>6, <1>3, <1>1
    <3> QED BY <3>1, <1>7
  <2>7. CASE k > i /\ j > i
    <3>1. m.keys[j] = n.keys[j - 1] /\ m.keys[k] = n.keys[k - 1] /\ j - 1 \in 1 .. c /\ k - 1 \in 1 .. c /\ j - 1 < k - 1
      BY <2>2, <2>7, <1>3, <1>1
    <3> QED BY <3>1, <2>1
  <2> QED BY <2>3, <2>4, <2>5, <2>6, <2>7, <1>3
<1>11. \A j \in 1 .. c + 1 : a <= m.keys[j]
  <2>1. \A j \in 1 .. c + 1 : m.keys[j] \in Nat
    BY <1>1, <1>8, RecFields, Numbers
  <2> QED BY <2>1, <1>9
<1> QED BY <1>1, <1>8, <1>9, <1>10, <1>11 DEF PageFits

(* When the waiting page gets its place in the parent, the tree is whole.  *)
LEMMA AdoptedTree ==
  ASSUME NEW pgs, NEW new, NEW rt, NEW h, NEW lo, NEW hi, NEW x, NEW y,
         Tree(pgs, rt, h, lo, hi, x, y), x # y,
         NEW q \in DOMAIN pgs, NEW i \in 1 .. Len(pgs[q].kids), pgs[q].kids[i] = x,
         NEW m, Adopts(pgs[q], m, i, hi[x], y), Changed(pgs, new, q, m)
  PROVE  Whole(new, rt, h, lo, hi)
<1> DEFINE n == pgs[q]  c == Len(pgs[q].keys)  f == hi[x]
<1>0. PairFits(pgs, rt, h, lo, hi, x, y) /\ x \in DOMAIN pgs /\ y \in DOMAIN pgs /\ h[x] = h[y] /\ lo[y] = f /\ y # rt
  BY DEF Tree, PairFits
<1>1. PageFits(n, lo[q], hi[q]) /\ lo[q] \in Nat /\ hi[q] \in Nat /\ h[q] \in Nat
  BY Bounds
<1>2. /\ n \in PageRec /\ c \in Nat /\ Len(n.kids) = c + 1 /\ ~n.leaf
  BY <1>1, RecFields DEF PageFits
<1>3. KidFits(pgs, h, lo, hi, x, y, q, i)
  BY KidOf
<1>4. h[q] = h[x] + 1 /\ lo[x] = Low(n, lo[q], i) /\ hi[y] = High(n, hi[q], i)
  BY <1>3 DEF KidFits, EndOf
<1>5. /\ lo[x] \in Nat /\ f \in Nat /\ hi[y] \in Nat /\ lo[x] < f /\ f < hi[y] /\ hi[y] <= MaxKey + 1
      /\ h[x] \in Nat
  BY <1>0, Bounds
<1>6. f \in Key
  BY <1>5, Numbers
<1>7. PageFits(m, lo[q], hi[q])
  BY <1>1, <1>2, <1>4, <1>5, <1>6, AdoptsFits
<1>8. Len(m.kids) = c + 2 /\ Len(m.keys) = c + 1 /\ m.leaf = FALSE /\ m.next = n.next
  BY <1>2 DEF Adopts
<1>a. x # rt
  <2>1. h[q] <= h[rt] /\ rt \in DOMAIN pgs
    BY DEF Tree, RootFits
  <2> QED BY <2>1, <1>4, <1>5, <1>1
<1>b. /\ DOMAIN new = DOMAIN pgs /\ new[q] = m /\ \A p \in DOMAIN pgs : p # q => new[p] = pgs[p]
  BY DEF Changed
<1>9. PagesFit(new, h, lo, hi)
  BY <1>7, <1>8, <1>2, <1>b DEF Tree, PagesFit
<1>10. RootFits(new, rt, h, lo, hi, rt, rt)
  BY <1>b, <1>a DEF Tree, RootFits, EndOf
<1>11. KidsFit(new, h, lo, hi, rt, rt)
  <2> SUFFICES ASSUME NEW p \in DOMAIN new, NEW j \in 1 .. Len(new[p].kids)
               PROVE  KidFits(new, h, lo, hi, rt, rt, p, j)
    BY DEF KidsFit
  <2>0. \A id : EndOf(hi, rt, rt, id) = hi[id]
    BY DEF EndOf
  <2>1. CASE p # q
    <3>1. new[p] = pgs[p] /\ p \in DOMAIN pgs
      BY <2>1, <1>b
    <3>2. KidFits(pgs, h, lo, hi, x, y, p, j)
      BY <3>1, KidOf
    <3>3. pgs[p].kids[j] # x
      <4> SUFFICES ASSUME pgs[p].kids[j] = x PROVE FALSE
        OBVIOUS
      <4>1. h[p] = h[q] /\ lo[x] = Low(pgs[p], lo[p], j) /\ hi[y] = High(pgs[p], hi[p], j)
        BY <3>2, <1>4 DEF KidFits, EndOf
      <4>2. PageFits(pgs[p], lo[p], hi[p]) /\ lo[p] \in Nat /\ hi[p] \in Nat /\ lo[p] < hi[p]
        BY <3>1, Bounds
      <4>3. lo[p] <= lo[x] /\ lo[x] < hi[p]
        <5>1. CASE j = 1
          BY <5>1, <4>1, <4>2 DEF Low
        <5>2. CASE j > 1
          <6>1. pgs[p] \in PageRec /\ Len(pgs[p].keys) \in Nat
            BY <4>2, RecFields DEF PageFits
          <6>2. j - 1 \in 1 .. Len(pgs[p].keys)
            BY <5>2, <3>1, <4>2, <6>1 DEF PageFits
          <6>3. lo[p] <= pgs[p].keys[j - 1] /\ pgs[p].keys[j - 1] < hi[p]
            BY <6>2, <4>2 DEF PageFits
          <6> QED BY <6>3, <4>1, <5>2 DEF Low
        <5> QED BY <5>1, <5>2
      <4>4. lo[q] <= lo[x] /\ lo[x] < hi[q]
        <5>1. CASE i = 1
          BY <5>1, <1>4, <1>1, Bounds DEF Low
        <5>2. CASE i > 1
          <6>2. i - 1 \in 1 .. c
            BY <5>2, <1>2
          <6>3. lo[q] <= n.keys[i - 1] /\ n.keys[i - 1] < hi[q]
            BY <6>2, <1>1 DEF PageFits
          <6> QED BY <6>3, <1>4, <5>2 DEF Low
        <5> QED BY <5>1, <5>2
      <4>5. hi[p] <= lo[q] \/ hi[q] <= lo[p]
        BY <2>1, <3>1, <4>1 DEF Tree, LevelsApart
      <4> QED BY <4>2, <4>3, <4>4, <4>5, <1>1, <1>5
    <3> QED BY <3>1, <3>2, <3>3, <2>0, <1>b DEF KidFits, EndOf
  <2>2. CASE p = q
    <3>0. new[p] = m /\ j \in 1 .. c + 2
      BY <2>2, <1>b, <1>8
    <3>1. /\ \A k \in 1 .. c + 1 : m.keys[k] = IF k < i THEN n.keys[k] ELSE IF k = i THEN f ELSE n.keys[k - 1]
          /\ \A k \in 1 .. c + 2 : m.kids[k] = IF k <= i THEN n.kids[k] ELSE IF k = i + 1 THEN y ELSE n.kids[k - 1]
      BY <1>2 DEF Adopts
    <3>2. i \in 1 .. c + 1
      BY <1>2
    <3>3. \A k \in 1 .. c + 1 : k # i => n.kids[k] # x
      <4> SUFFICES ASSUME NEW k \in 1 .. c + 1, k # i, n.kids[k] = x PROVE FALSE
        OBVIOUS
      <4>1. KidFits(pgs, h, lo, hi, x, y, q, k)
        BY KidOf, <1>2
      <4>2. Low(n, lo[q], k) = Low(n, lo[q], i)
        BY <4>1, <1>4 DEF KidFits
      <4>3. /\ \A a, b \in 1 .. c : a < b => n.keys[a] < n.keys[b]
            /\ \A a \in 1 .. c : n.keys[a] \in Nat /\ lo[q] < n.keys[a]
        BY <1>1, <1>2, RecFields, Numbers DEF PageFits, KeysRise
      <4>4. CASE k = 1
        <5>1. i - 1 \in 1 .. c /\ n.keys[i - 1] = lo[q]
          BY <4>4, <3>2, <4>2, <1>2 DEF Low
        <5> QED BY SMTT(30), <5>1, <4>3, <1>1
      <4>5. CASE i = 1
        <5>1. k - 1 \in 1 .. c /\ n.keys[k - 1] = lo[q]
          BY <4>5, <3>2, <4>2, <1>2 DEF Low
        <5> QED BY <5>1, <4>3, <1>1
      <4>6. CASE k > 1 /\ i > 1
        <5>1. k - 1 \in 1 .. c /\ i - 1 \in 1 .. c /\ n.keys[k - 1] = n.keys[i - 1]
          BY <4>6, <3>2, <4>2, <1>2 DEF Low
        <5>2. k - 1 < i - 1 \/ i - 1 < k - 1
          BY <5>1, <3>2
        <5>3. k - 1 < i - 1 => n.keys[k - 1] < n.keys[i - 1]
          BY <5>1, <4>3
        <5>4. i - 1 < k - 1 => n.keys[i - 1] < n.keys[k - 1]
          BY <5>1, <4>3
        <5>5. n.keys[k - 1] \in Nat
          BY <5>1, <4>3
        <5> QED BY <5>1, <5>2, <5>3, <5>4, <5>5
      <4> QED BY <4>4, <4>5, <4>6, <3>2
    <3>4. \A k \in 1 .. c + 1 : KidFits(pgs, h, lo, hi, x, y, q, k)
      BY KidOf, <1>2
    <3>5. CASE j < i
      <4>1. m.kids[j] = n.kids[j] /\ n.kids[j] # x /\ j \in 1 .. c + 1
        BY SMTT(30), <3>1, <3>0, <3>5, <3>3, <3>2, <1>2
      <4>2. Low(m, lo[q], j) = Low(n, lo[q], j)
        BY SMTT(30), <3>1, <3>5, <3>0, <3>2, <1>2 DEF Low
      <4>3. High(m, hi[q], j) = High(n, hi[q], j)
        BY <3>1, <3>5, <3>0, <3>2, <1>2, <1>8 DEF High
      <4>4. KidFits(pgs, h, lo, hi, x, y, q, j)
        BY <4>1, <3>4
      <4> QED BY <4>1, <4>2, <4>3, <4>4, <2>2, <3>0, <2>0, <1>b DEF KidFits, EndOf
    <3>6. CASE j = i
      <4>1. m.kids[j] = x
        BY <3>1, <3>0, <3>6, <3>2, <1>2
      <4>2. Low(m, lo[q], j) = Low(n, lo[q], i)
        BY <3>1, <3>6, <3>0, <3>2, <1>2 DEF Low
      <4>3. High(m, hi[q], j) = f
        BY <3>1, <3>6, <3>0, <3>2, <1>2, <1>8 DEF High
      <4> QED BY <4>1, <4>2, <4>3, <1>4, <1>0, <2>2, <3>0, <2>0, <1>b DEF KidFits
    <3>7. CASE j = i + 1
      <4>1. m.kids[j] = y
        BY <3>1, <3>0, <3>7, <3>2, <1>2
      <4>2. Low(m, lo[q], j) = f
        BY <3>1, <3>7, <3>0, <3>2, <1>2 DEF Low
      <4>3. High(m, hi[q], j) = High(n, hi[q], i)
        BY <3>1, <3>7, <3>0, <3>2, <1>2, <1>8 DEF High
      <4> QED BY <4>1, <4>2, <4>3, <1>4, <1>0, <2>2, <3>0, <2>0, <1>b DEF KidFits
    <3>8. CASE j > i + 1
      <4>1. m.kids[j] = n.kids[j - 1] /\ n.kids[j - 1] # x /\ j - 1 \in 1 .. c + 1
        BY SMTT(30), <3>1, <3>0, <3>8, <3>3, <3>2, <1>2
      <4>a. j # 1 /\ j - 1 # 1 /\ j - 1 \in 1 .. c + 1 /\ ~(j - 1 < i) /\ j - 1 # i
        BY <3>8, <3>0, <3>2, <1>2
      <4>b. m.keys[j - 1] = n.keys[(j - 1) - 1]
        BY <4>a, <3>1
      <4>2. Low(m, lo[q], j) = Low(n, lo[q], j - 1)
        BY <4>a, <4>b DEF Low
      <4>3. High(m, hi[q], j) = High(n, hi[q], j - 1)
        BY SMTT(30), <3>1, <3>8, <3>0, <3>2, <1>2, <1>8 DEF High
      <4>4. KidFits(pgs, h, lo, hi, x, y, q, j - 1)
        BY <4>1, <3>4
      <4> QED BY <4>1, <4>2, <4>3, <4>4, <2>2, <3>0, <2>0, <1>b DEF KidFits, EndOf
    <3> QED BY <3>5, <3>6, <3>7, <3>8, <3>0, <3>2
  <2> QED BY <2>1, <2>2
<1>12. AllPlaced(new, rt, rt)
  <2> SUFFICES ASSUME NEW d \in DOMAIN new, d # rt PROVE HasPlace(new, d)
    BY DEF AllPlaced
  <2>0. /\ \A k \in 1 .. c + 2 : m.kids[k] = IF k <= i THEN n.kids[k] ELSE IF k = i + 1 THEN y ELSE n.kids[k - 1]
        /\ i \in 1 .. c + 1
    BY <1>2 DEF Adopts
  <2>1. CASE d = y
    <3>1. i + 1 \in 1 .. Len(new[q].kids) /\ new[q].kids[i + 1] = y /\ q \in DOMAIN new
      BY <2>0, <1>b, <1>8, <1>2
    <3> QED BY <3>1, <2>1 DEF HasPlace
  <2>2. CASE d # y
    <3>1. HasPlace(pgs, d)
      BY <2>2, <1>b DEF Tree, AllPlaced
    <3>2. PICK p \in DOMAIN pgs : \E j \in 1 .. Len(pgs[p].kids) : pgs[p].kids[j] = d
      BY <3>1 DEF HasPlace
    <3>3. PICK j \in 1 .. Len(pgs[p].kids) : pgs[p].kids[j] = d
      BY <3>2
    <3>4. CASE p # q
      BY <3>3, <3>4, <1>b DEF HasPlace
    <3>5. CASE p = q /\ j <= i
      <4>1. j \in 1 .. Len(new[q].kids) /\ new[q].kids[j] = d /\ q \in DOMAIN new
        BY SMTT(30), <2>0, <3>5, <3>3, <1>b, <1>8, <1>2
      <4> QED BY <4>1 DEF HasPlace
    <3>6. CASE p = q /\ j > i
      <4>1. j + 1 \in 1 .. Len(new[q].kids) /\ q \in DOMAIN new
        BY <2>0, <3>6, <3>3, <1>b, <1>8, <1>2
      <4>2. m.kids[j + 1] = n.kids[j]
        BY SMTT(30), <2>0, <3>6, <3>3, <4>1, <1>b, <1>8, <1>2
      <4> QED BY <4>1, <4>2, <3>6, <3>3, <1>b DEF HasPlace
    <3> QED BY <3>4, <3>5, <3>6, <2>0, <1>2
  <2> QED BY <2>1, <2>2
<1>13. LevelsApart(new, h, lo, hi)
  BY <1>b DEF Tree, LevelsApart
<1>14. ChainFits(new, h, lo, hi)
  <2>1. \A p \in DOMAIN new : p \in DOMAIN pgs /\ new[p].next = pgs[p].next
    BY <1>b, <1>8
  <2>2. DOMAIN new = DOMAIN pgs /\ ChainFits(pgs, h, lo, hi)
    BY <1>b DEF Tree
  <2> QED BY <2>1, <2>2 DEF ChainFits
<1>15. PairFits(new, rt, h, lo, hi, rt, rt)
  BY DEF PairFits
<1> QED BY <1>9, <1>10, <1>11, <1>12, <1>13, <1>14, <1>15 DEF Tree, Whole

-----------------------------------------------------------------------------
(* The bounds of a place are within those of its page.                     *)
LEMMA PlaceBounds ==
  ASSUME NEW n, NEW a \in Nat, NEW z \in Nat, PageFits(n, a, z), a < z, NEW i \in 1 .. Len(n.kids)
  PROVE  /\ Low(n, a, i) \in Nat /\ High(n, z, i) \in Nat
         /\ a <= Low(n, a, i) /\ Low(n, a, i) < High(n, z, i) /\ High(n, z, i) <= z
<1>1. n \in PageRec /\ Len(n.keys) \in Nat /\ Len(n.kids) = Len(n.keys) + 1
  BY RecFields DEF PageFits
<1>2. \A j \in 1 .. Len(n.keys) : n.keys[j] \in Nat /\ a <= n.keys[j] /\ n.keys[j] < z /\ a < n.keys[j]
  BY <1>1, RecFields, Numbers DEF PageFits
<1>3. i > 1 => i - 1 \in 1 .. Len(n.keys)
  BY <1>1
<1>4. i # Len(n.kids) => i \in 1 .. Len(n.keys)
  BY <1>1
<1>5. i > 1 /\ i # Len(n.kids) => n.keys[i - 1] < n.keys[i]
  BY <1>1, <1>3, <1>4 DEF PageFits, KeysRise
<1> QED BY <1>1, <1>2, <1>3, <1>4, <1>5 DEF Low, High

(* Places with the same lower bound are the same.                          *)
LEMMA SameLow ==
  ASSUME NEW n, NEW a \in Nat, NEW z \in Nat, PageFits(n, a, z),
         NEW i \in 1 .. Len(n.kids), NEW k \in 1 .. Len(n.kids), Low(n, a, i) = Low(n, a, k)
  PROVE  i = k
<1>1. n \in PageRec /\ Len(n.keys) \in Nat /\ Len(n.kids) = Len(n.keys) + 1 /\ ~n.leaf
  BY RecFields DEF PageFits
<1>2. \A j \in 1 .. Len(n.keys) : n.keys[j] \in Nat /\ a < n.keys[j]
  BY <1>1, RecFields, Numbers DEF PageFits
<1>3. i > 1 => i - 1 \in 1 .. Len(n.keys)
  BY <1>1
<1>4. k > 1 => k - 1 \in 1 .. Len(n.keys)
  BY <1>1
<1>7. i > 1 => Low(n, a, i) \in Nat /\ a < Low(n, a, i)
  <2> SUFFICES ASSUME i > 1 PROVE Low(n, a, i) \in Nat /\ a < Low(n, a, i)
    OBVIOUS
  <2>1. Low(n, a, i) = n.keys[i - 1]
    BY <1>1 DEF Low
  <2> QED BY <2>1, <1>2, <1>3
<1>8. k > 1 => Low(n, a, k) \in Nat /\ a < Low(n, a, k)
  <2> SUFFICES ASSUME k > 1 PROVE Low(n, a, k) \in Nat /\ a < Low(n, a, k)
    OBVIOUS
  <2>1. Low(n, a, k) = n.keys[k - 1]
    BY <1>1 DEF Low
  <2> QED BY <2>1, <1>2, <1>4
<1>9. (i = 1 => Low(n, a, i) = a) /\ (k = 1 => Low(n, a, k) = a)
  BY DEF Low
<1>5. CASE i = 1 \/ k = 1
  <2>1. ~(i > 1) /\ ~(k > 1)
    BY <1>5, <1>7, <1>8, <1>9
  <2> QED BY <2>1, <1>1
<1>6. CASE i > 1 /\ k > 1
  <2>1. n.keys[i - 1] = n.keys[k - 1]
    BY <1>6 DEF Low
  <2>2. i - 1 < k - 1 => n.keys[i - 1] < n.keys[k - 1]
    BY <1>3, <1>4, <1>6 DEF PageFits, KeysRise
  <2>3. k - 1 < i - 1 => n.keys[k - 1] < n.keys[i - 1]
    BY <1>3, <1>4, <1>6 DEF PageFits, KeysRise
  <2>4. n.keys[k - 1] \in Nat
    BY <1>2, <1>4, <1>6
  <2> QED BY <2>1, <2>2, <2>3, <2>4
<1> QED BY <1>5, <1>6

(* A page is at no more than one place.                                    *)
LEMMA OnePlace ==
  ASSUME NEW pgs, NEW rt, NEW h, NEW lo, NEW hi, NEW x, NEW y, Tree(pgs, rt, h, lo, hi, x, y),
         NEW p \in DOMAIN pgs, NEW i \in 1 .. Len(pgs[p].kids),
         NEW q \in DOMAIN pgs, NEW j \in 1 .. Len(pgs[q].kids),
         pgs[p].kids[i] = pgs[q].kids[j]
  PROVE  p = q /\ i = j
<1> DEFINE c == pgs[p].kids[i]
<1>1. KidFits(pgs, h, lo, hi, x, y, p, i) /\ KidFits(pgs, h, lo, hi, x, y, q, j)
  BY KidOf
<1>2. /\ c \in DOMAIN pgs /\ h[p] = h[q]
      /\ lo[c] = Low(pgs[p], lo[p], i) /\ lo[c] = Low(pgs[q], lo[q], j)
  BY <1>1 DEF KidFits
<1>3. /\ PageFits(pgs[p], lo[p], hi[p]) /\ lo[p] \in Nat /\ hi[p] \in Nat /\ lo[p] < hi[p]
      /\ PageFits(pgs[q], lo[q], hi[q]) /\ lo[q] \in Nat /\ hi[q] \in Nat /\ lo[q] < hi[q]
  BY Bounds
<1>4. lo[p] <= lo[c] /\ lo[c] < hi[p] /\ lo[c] \in Nat
  <2>1. /\ Low(pgs[p], lo[p], i) \in Nat /\ High(pgs[p], hi[p], i) \in Nat
        /\ lo[p] <= Low(pgs[p], lo[p], i) /\ Low(pgs[p], lo[p], i) < High(pgs[p], hi[p], i)
        /\ High(pgs[p], hi[p], i) <= hi[p]
    BY <1>3, PlaceBounds
  <2> QED BY <2>1, <1>2, <1>3
<1>5. lo[q] <= lo[c] /\ lo[c] < hi[q]
  <2>1. /\ Low(pgs[q], lo[q], j) \in Nat /\ High(pgs[q], hi[q], j) \in Nat
        /\ lo[q] <= Low(pgs[q], lo[q], j) /\ Low(pgs[q], lo[q], j) < High(pgs[q], hi[q], j)
        /\ High(pgs[q], hi[q], j) <= hi[q]
    BY <1>3, PlaceBounds
  <2> QED BY <2>1, <1>2, <1>3
<1>6. p = q
  <2> SUFFICES ASSUME p # q PROVE FALSE
    OBVIOUS
  <2>1. hi[p] <= lo[q] \/ hi[q] <= lo[p]
    BY <1>2 DEF Tree, LevelsApart
  <2> QED BY SMTT(30), <2>1, <1>3, <1>4, <1>5
<1>7. Low(pgs[p], lo[p], i) = Low(pgs[p], lo[p], j)
  BY <1>6, <1>2
<1>8. i = j
  BY <1>6, <1>7, <1>3, SameLow
<1> QED BY <1>6, <1>8

(* Page n, with bounds from a to z, is divided into l and r at key f; with *)
(* the first s children of an internal page going to the left.             *)
Halves(n, l, r, a, f, z, s) ==
  /\ PageFits(l, a, f) /\ PageFits(r, f, z)
  /\ l.leaf = n.leaf /\ r.leaf = n.leaf /\ r.next = n.next
  /\ n.leaf \/ /\ s \in 1 .. Len(n.keys)
               /\ f = n.keys[s]
               /\ Len(l.keys) = s - 1 /\ Len(r.keys) = Len(n.keys) - s
               /\ \A i \in 1 .. s - 1 : l.keys[i] = n.keys[i]
               /\ \A i \in 1 .. Len(n.keys) - s : r.keys[i] = n.keys[i + s]
               /\ \A i \in 1 .. s : l.kids[i] = n.kids[i]
               /\ \A i \in 1 .. Len(n.keys) + 1 - s : r.kids[i] = n.kids[i + s]

SplitPages(pgs, new, id, y, l, r) ==
  /\ DOMAIN new = DOMAIN pgs \cup {y} /\ new[id] = l /\ new[y] = r
  /\ \A p \in DOMAIN pgs : p # id => new[p] = pgs[p]

(* The bounds of the pages after the split: f ends the one and begins the  *)
(* other.                                                                  *)
SplitBounds(pgs, h, lo, hi, h2, lo2, hi2, id, y, f) ==
  /\ \A p \in DOMAIN pgs : h2[p] = h[p] /\ lo2[p] = lo[p] /\ (p # id => hi2[p] = hi[p])
  /\ hi2[id] = f /\ h2[y] = h[id] /\ lo2[y] = f /\ hi2[y] = hi[id]

(* A page of a whole tree is cut in two: the right half waits for its      *)
(* place.                                                                  *)
LEMMA SplitTree ==
  ASSUME NEW pgs, NEW new, NEW rt, NEW h, NEW lo, NEW hi, Whole(pgs, rt, h, lo, hi),
         NEW id \in DOMAIN pgs, NEW y \in Nat, y \notin DOMAIN pgs,
         NEW l, NEW r, NEW f \in Nat, NEW s, lo[id] < f, f < hi[id],
         Halves(pgs[id], l, r, lo[id], f, hi[id], s), l.next = y,
         SplitPages(pgs, new, id, y, l, r),
         NEW h2, NEW lo2, NEW hi2, SplitBounds(pgs, h, lo, hi, h2, lo2, hi2, id, y, f)
  PROVE  Tree(new, rt, h2, lo2, hi2, id, y)
<1> DEFINE n == pgs[id]
<1> USE DEF SplitBounds
<1>0. Tree(pgs, rt, h, lo, hi, rt, rt)
  BY DEF Whole
<1>1. /\ DOMAIN new = DOMAIN pgs \cup {y} /\ new[id] = l /\ new[y] = r
      /\ \A p \in DOMAIN pgs : p # id => new[p] = pgs[p]
  BY DEF SplitPages
<1>2. /\ PageFits(n, lo[id], hi[id]) /\ lo[id] \in Nat /\ hi[id] \in Nat /\ h[id] \in Nat
      /\ hi[id] <= MaxKey + 1 /\ (n.leaf <=> h[id] = 0)
  BY <1>0, Bounds
<1>3. n \in PageRec /\ Len(n.keys) \in Nat /\ Len(n.kids) = IF n.leaf THEN 0 ELSE Len(n.keys) + 1
  BY <1>2, RecFields DEF PageFits
<1>4. y # id
  OBVIOUS
<1>5. /\ PageFits(l, lo[id], f) /\ PageFits(r, f, hi[id]) /\ l.leaf = n.leaf /\ r.leaf = n.leaf /\ r.next = n.next
  BY DEF Halves
<1>6. PagesFit(new, h2, lo2, hi2)
  <2> SUFFICES ASSUME NEW p \in DOMAIN new
               PROVE  /\ p \in Nat /\ h2[p] \in Nat /\ lo2[p] \in Nat /\ hi2[p] \in Nat
                      /\ lo2[p] < hi2[p] /\ hi2[p] <= MaxKey + 1
                      /\ PageFits(new[p], lo2[p], hi2[p])
                      /\ new[p].leaf <=> h2[p] = 0
    BY DEF PagesFit
  <2>1. CASE p = y
    BY <2>1, <1>1, <1>2, <1>5, Numbers
  <2>2. CASE p = id
    <3>1. id \in Nat
      BY <1>0, Bounds
    <3> QED BY <3>1, <2>2, <1>1, <1>2, <1>5, Numbers
  <2>3. CASE p # y /\ p # id
    <3>1. p \in DOMAIN pgs /\ new[p] = pgs[p] /\ h2[p] = h[p] /\ lo2[p] = lo[p] /\ hi2[p] = hi[p]
      BY <2>3, <1>1
    <3> QED BY <3>1, <1>0, Bounds
  <2> QED BY <2>1, <2>2, <2>3
<1>7. RootFits(new, rt, h2, lo2, hi2, id, y)
  <2>1. rt \in DOMAIN pgs /\ lo[rt] = 0 /\ hi[rt] = MaxKey + 1 /\ \A p \in DOMAIN pgs : h[p] <= h[rt]
    BY <1>0 DEF Tree, RootFits, EndOf
  <2>2. \A p \in DOMAIN new : h2[p] <= h2[rt]
    BY <2>1, <1>1
  <2>3. EndOf(hi2, id, y, rt) = MaxKey + 1
    BY <2>1 DEF EndOf
  <2> QED BY <2>1, <2>2, <2>3, <1>1 DEF RootFits
<1>a. \A p \in DOMAIN pgs : EndOf(hi2, id, y, p) = hi[p]
  BY DEF EndOf
<1>b. \A p : EndOf(hi, rt, rt, p) = hi[p]
  BY DEF EndOf
<1>8. KidsFit(new, h2, lo2, hi2, id, y)
  <2> SUFFICES ASSUME NEW p \in DOMAIN new, NEW j \in 1 .. Len(new[p].kids)
               PROVE  KidFits(new, h2, lo2, hi2, id, y, p, j)
    BY DEF KidsFit
  <2>1. CASE p # y /\ p # id
    <3>1. p \in DOMAIN pgs /\ new[p] = pgs[p] /\ h2[p] = h[p] /\ lo2[p] = lo[p] /\ hi2[p] = hi[p]
      BY <2>1, <1>1
    <3>2. KidFits(pgs, h, lo, hi, rt, rt, p, j)
      BY <3>1, <1>0, KidOf
    <3>3. /\ pgs[p].kids[j] \in DOMAIN pgs /\ h[p] = h[pgs[p].kids[j]] + 1
          /\ lo[pgs[p].kids[j]] = Low(pgs[p], lo[p], j) /\ hi[pgs[p].kids[j]] = High(pgs[p], hi[p], j)
      BY <3>2, <1>b DEF KidFits
    <3> HIDE DEF n
    <3> QED BY <3>1, <3>3, <1>1, <1>a DEF KidFits
  <2>2. CASE p = id
    <3>1. new[p] = l /\ j \in 1 .. Len(l.kids) /\ lo2[p] = lo[id] /\ hi2[p] = f /\ h2[p] = h[id]
      BY <2>2, <1>1
    <3>2. ~n.leaf /\ l \in PageRec /\ Len(l.kids) = Len(l.keys) + 1
      BY <3>1, <1>5, RecFields DEF PageFits
    <3>3. /\ s \in 1 .. Len(n.keys) /\ f = n.keys[s] /\ Len(l.keys) = s - 1
          /\ \A i \in 1 .. s - 1 : l.keys[i] = n.keys[i]
          /\ \A i \in 1 .. s : l.kids[i] = n.kids[i]
      BY <3>2 DEF Halves
    <3>4. j \in 1 .. s /\ j \in 1 .. Len(n.kids) /\ Len(l.kids) = s
      BY <3>1, <3>2, <3>3, <1>3
    <3>5. KidFits(pgs, h, lo, hi, rt, rt, id, j)
      BY <3>4, <1>0, KidOf
    <3>6. Low(l, lo[id], j) = Low(n, lo[id], j)
      BY <3>3, <3>4 DEF Low
    <3>7. High(l, f, j) = High(n, hi[id], j)
      BY <3>3, <3>4, <3>2, <1>3 DEF High
    <3>8. l.kids[j] = n.kids[j]
      BY <3>3, <3>4
    <3>9. /\ n.kids[j] \in DOMAIN pgs /\ h[id] = h[n.kids[j]] + 1
          /\ lo[n.kids[j]] = Low(n, lo[id], j) /\ hi[n.kids[j]] = High(n, hi[id], j)
      BY <3>5, <1>b DEF KidFits
    <3> HIDE DEF n
    <3> QED BY <3>1, <3>6, <3>7, <3>8, <3>9, <2>2, <1>1, <1>a DEF KidFits
  <2>3. CASE p = y
    <3>1. new[p] = r /\ j \in 1 .. Len(r.kids) /\ lo2[p] = f /\ hi2[p] = hi[id] /\ h2[p] = h[id]
      BY <2>3, <1>1
    <3>2. ~n.leaf /\ r \in PageRec /\ Len(r.kids) = Len(r.keys) + 1
      BY <3>1, <1>5, RecFields DEF PageFits
    <3>3. /\ s \in 1 .. Len(n.keys) /\ f = n.keys[s] /\ Len(r.keys) = Len(n.keys) - s
          /\ \A i \in 1 .. Len(n.keys) - s : r.keys[i] = n.keys[i + s]
          /\ \A i \in 1 .. Len(n.keys) + 1 - s : r.kids[i] = n.kids[i + s]
      BY <3>2 DEF Halves
    <3>a. /\ Len(n.kids) = Len(n.keys) + 1 /\ Len(n.keys) \in Nat /\ s \in Nat /\ s <= Len(n.keys)
          /\ Len(r.kids) = Len(n.keys) + 1 - s /\ j \in Nat /\ 1 <= j /\ j <= Len(r.kids) /\ 1 <= s
      BY <3>1, <3>2, <3>3, <1>3
    <3>4. j \in 1 .. Len(n.keys) + 1 - s /\ j + s \in 1 .. Len(n.kids) /\ Len(r.kids) = Len(n.keys) + 1 - s
      BY ONLY <3>a
    <3>5. KidFits(pgs, h, lo, hi, rt, rt, id, j + s)
      BY <3>4, <1>0, KidOf
    <3>6. Low(r, f, j) = Low(n, lo[id], j + s)
      <4>1. CASE j = 1
        <5>1. j + s # 1 /\ (j + s) - 1 = s
          BY <4>1, <3>3, <1>3
        <5> QED BY <5>1, <4>1, <3>3 DEF Low
      <4>2. CASE j > 1
        <5>1. j + s # 1 /\ (j + s) - 1 = (j - 1) + s /\ j - 1 \in 1 .. Len(n.keys) - s /\ j # 1
          BY <4>2, <3>3, <3>4, <1>3
        <5>2. r.keys[j - 1] = n.keys[(j - 1) + s]
          BY <5>1, <3>3
        <5> QED BY <5>1, <5>2 DEF Low
      <4> QED BY <4>1, <4>2, <3>4
    <3>7. High(r, hi[id], j) = High(n, hi[id], j + s)
      <4>1. CASE j = Len(r.kids)
        <5>1. j + s = Len(n.kids)
          BY <4>1, <3>3, <3>4, <1>3, <3>2
        <5> QED BY <5>1, <4>1 DEF High
      <4>2. CASE j # Len(r.kids)
        <5>1. j + s # Len(n.kids) /\ j \in 1 .. Len(n.keys) - s
          BY ONLY <4>2, <3>a
        <5>2. r.keys[j] = n.keys[j + s]
          BY <5>1, <3>3
        <5> QED BY <5>1, <5>2, <4>2 DEF High
      <4> QED BY <4>1, <4>2
    <3>8. r.kids[j] = n.kids[j + s]
      BY <3>3, <3>4
    <3>9. /\ n.kids[j + s] \in DOMAIN pgs /\ h[id] = h[n.kids[j + s]] + 1
          /\ lo[n.kids[j + s]] = Low(n, lo[id], j + s) /\ hi[n.kids[j + s]] = High(n, hi[id], j + s)
      BY <3>5, <1>b DEF KidFits
    <3> HIDE DEF n
    <3> QED BY <3>1, <3>6, <3>7, <3>8, <3>9, <2>3, <1>1, <1>a DEF KidFits
  <2> QED BY <2>1, <2>2, <2>3
<1>9. AllPlaced(new, rt, y)
  <2> SUFFICES ASSUME NEW d \in DOMAIN new, d # rt, d # y PROVE HasPlace(new, d)
    BY DEF AllPlaced
  <2>1. HasPlace(pgs, d)
    BY <1>0, <1>1 DEF Tree, AllPlaced
  <2>2. PICK p \in DOMAIN pgs : \E j \in 1 .. Len(pgs[p].kids) : pgs[p].kids[j] = d
    BY <2>1 DEF HasPlace
  <2>3. PICK j \in 1 .. Len(pgs[p].kids) : pgs[p].kids[j] = d
    BY <2>2
  <2>4. CASE p # id
    BY <2>3, <2>4, <1>1 DEF HasPlace
  <2>5. CASE p = id
    <3>1. ~n.leaf /\ j \in 1 .. Len(n.keys) + 1
      BY <2>3, <2>5, <1>3
    <3>2. /\ s \in 1 .. Len(n.keys) /\ Len(l.keys) = s - 1 /\ Len(r.keys) = Len(n.keys) - s
          /\ \A i \in 1 .. s : l.kids[i] = n.kids[i]
          /\ \A i \in 1 .. Len(n.keys) + 1 - s : r.kids[i] = n.kids[i + s]
      BY <3>1 DEF Halves
    <3>3. Len(l.kids) = s /\ Len(r.kids) = Len(n.keys) + 1 - s
      BY <3>1, <3>2, <1>5, <1>3 DEF PageFits
    <3>4. CASE j <= s
      <4>1. j \in 1 .. s
        BY <3>4, <3>1, <3>2
      <4>2. j \in 1 .. Len(new[id].kids) /\ new[id].kids[j] = d
        BY <4>1, <3>2, <3>3, <2>3, <2>5, <1>1
      <4> QED BY <4>2, <1>1 DEF HasPlace
    <3>5. CASE j > s
      <4>1. j - s \in 1 .. Len(n.keys) + 1 - s /\ (j - s) + s = j
        BY <3>5, <3>1, <3>2, <1>3
      <4>2. r.kids[j - s] = n.kids[j]
        BY <4>1, <3>2
      <4>3. j - s \in 1 .. Len(new[y].kids) /\ new[y].kids[j - s] = d
        BY <4>1, <4>2, <3>3, <2>3, <2>5, <1>1
      <4> QED BY <4>3, <1>1 DEF HasPlace
    <3> QED BY <3>4, <3>5, <3>1, <3>2
  <2> QED BY <2>4, <2>5
<1>10. LevelsApart(new, h2, lo2, hi2)
  <2> SUFFICES ASSUME NEW p \in DOMAIN new, NEW q \in DOMAIN new, h2[p] = h2[q], p # q
               PROVE  hi2[p] <= lo2[q] \/ hi2[q] <= lo2[p]
    BY DEF LevelsApart
  <2>0. \A a, b \in DOMAIN pgs : h[a] = h[b] /\ a # b => hi[a] <= lo[b] \/ hi[b] <= lo[a]
    BY <1>0 DEF Tree, LevelsApart
  <2>b. \A a \in DOMAIN pgs : lo[a] \in Nat /\ hi[a] \in Nat /\ lo[a] < hi[a]
    BY <1>0, Bounds
  <2>1. CASE p = y /\ q = id
    BY <2>1
  <2>2. CASE p = id /\ q = y
    BY <2>2
  <2>3. CASE p = y /\ q # id
    <3>1. q \in DOMAIN pgs /\ h[q] = h[id] /\ lo2[q] = lo[q] /\ hi2[q] = hi[q]
      BY <2>3, <1>1
    <3>2. hi[q] <= lo[id] \/ hi[id] <= lo[q]
      BY <3>1, <2>3, <2>0
    <3> QED BY <3>1, <3>2, <2>3, <2>b, <1>2
  <2>4. CASE q = y /\ p # id
    <3>1. p \in DOMAIN pgs /\ h[p] = h[id] /\ lo2[p] = lo[p] /\ hi2[p] = hi[p]
      BY <2>4, <1>1
    <3>2. hi[p] <= lo[id] \/ hi[id] <= lo[p]
      BY <3>1, <2>4, <2>0
    <3> QED BY <3>1, <3>2, <2>4, <2>b, <1>2
  <2>5. CASE p # y /\ q # y
    <3>1. p \in DOMAIN pgs /\ q \in DOMAIN pgs
      BY <2>5, <1>1
    <3>2. /\ h[p] = h[q] /\ lo2[p] = lo[p] /\ lo2[q] = lo[q] /\ hi2[p] <= hi[p] /\ hi2[q] <= hi[q]
          /\ hi2[p] \in Nat /\ hi2[q] \in Nat
      BY <3>1, <2>b, <1>2
    <3>3. hi[p] <= lo[q] \/ hi[q] <= lo[p]
      BY <3>1, <3>2, <2>0
    <3>4. lo[p] \in Nat /\ lo[q] \in Nat /\ hi[p] \in Nat /\ hi[q] \in Nat
      BY <3>1, <2>b
    <3> QED BY <3>2, <3>3, <3>4
  <2> QED BY <2>1, <2>2, <2>3, <2>4, <2>5
<1>11. ChainFits(new, h2, lo2, hi2)
  <2> SUFFICES ASSUME NEW p \in DOMAIN new
               PROVE  IF hi2[p] = MaxKey + 1 THEN new[p].next = Null
                      ELSE new[p].next \in DOMAIN new /\ h2[new[p].next] = h2[p] /\ lo2[new[p].next] = hi2[p]
    BY DEF ChainFits
  <2>0. \A q \in DOMAIN pgs : IF hi[q] = MaxKey + 1 THEN pgs[q].next = Null
                 ELSE pgs[q].next \in DOMAIN pgs /\ h[pgs[q].next] = h[q] /\ lo[pgs[q].next] = hi[q]
    BY <1>0 DEF Tree, ChainFits
  <2>1. CASE p = id
    <3>1. hi2[p] # MaxKey + 1
      BY <2>1, <1>2, Numbers
    <3> QED BY <3>1, <2>1, <1>1, <1>4
  <2>2. CASE p = y
    <3>1. new[p].next = n.next /\ hi2[p] = hi[id] /\ h2[p] = h[id]
      BY <2>2, <1>1, <1>5
    <3>2. IF hi[id] = MaxKey + 1 THEN n.next = Null
          ELSE n.next \in DOMAIN pgs /\ h[n.next] = h[id] /\ lo[n.next] = hi[id]
      BY <2>0
    <3> HIDE DEF n
    <3> QED BY <3>1, <3>2, <1>1
  <2>3. CASE p # id /\ p # y
    <3>1. p \in DOMAIN pgs /\ new[p] = pgs[p] /\ hi2[p] = hi[p] /\ h2[p] = h[p]
      BY <2>3, <1>1
    <3>2. IF hi[p] = MaxKey + 1 THEN pgs[p].next = Null
          ELSE pgs[p].next \in DOMAIN pgs /\ h[pgs[p].next] = h[p] /\ lo[pgs[p].next] = hi[p]
      BY <3>1, <2>0
    <3> QED BY <3>1, <3>2, <1>1
  <2> QED BY <2>1, <2>2, <2>3
<1>12. PairFits(new, rt, h2, lo2, hi2, id, y)
  <2>1. rt \in DOMAIN pgs
    BY <1>0 DEF Tree, RootFits
  <2> QED BY <2>1, <1>1 DEF PairFits
<1> QED BY <1>6, <1>7, <1>8, <1>9, <1>10, <1>11, <1>12 DEF Tree

-----------------------------------------------------------------------------
(* A page alone in the file is a tree.                                     *)
LEMMA FirstTree ==
  ASSUME NEW pgs, NEW rt \in Nat, NEW n, DOMAIN pgs = {rt}, pgs[rt] = n,
         n \in PageRec, n.leaf, n.kids = << >>, n.next = Null, KeysRise(n),
         NEW h, NEW lo, NEW hi, h[rt] = 0, lo[rt] = 0, hi[rt] = MaxKey + 1
  PROVE  Whole(pgs, rt, h, lo, hi)
<1>1. PageFits(n, 0, MaxKey + 1)
  <2>1. Len(n.kids) = 0
    OBVIOUS
  <2>2. \A i \in 1 .. Len(n.keys) : n.keys[i] \in 0 .. MaxKey
    BY RecFields, Numbers
  <2> QED BY <2>1, <2>2, Numbers DEF PageFits
<1>2. PagesFit(pgs, h, lo, hi)
  BY <1>1, Numbers DEF PagesFit
<1>3. RootFits(pgs, rt, h, lo, hi, rt, rt)
  BY DEF RootFits, EndOf
<1>4. KidsFit(pgs, h, lo, hi, rt, rt)
  BY DEF KidsFit
<1>5. AllPlaced(pgs, rt, rt) /\ LevelsApart(pgs, h, lo, hi) /\ PairFits(pgs, rt, h, lo, hi, rt, rt)
  BY DEF AllPlaced, LevelsApart, PairFits
<1>6. ChainFits(pgs, h, lo, hi)
  BY DEF ChainFits
<1> QED BY <1>2, <1>3, <1>4, <1>5, <1>6 DEF Whole, Tree

(* The two halves of a root get a page above them.                         *)
Grown(pgs, new, rt, h, lo, hi, y, z, n, h2, lo2, hi2) ==
  /\ DOMAIN new = DOMAIN pgs \cup {z} /\ new[z] = n /\ \A p \in DOMAIN pgs : new[p] = pgs[p]
  /\ n \in PageRec /\ n.leaf = FALSE /\ n.next = Null /\ n.keys = <<hi[rt]>> /\ n.kids = <<rt, y>>
  /\ \A p \in DOMAIN pgs : h2[p] = h[p] /\ lo2[p] = lo[p] /\ hi2[p] = hi[p]
  /\ h2[z] = h[rt] + 1 /\ lo2[z] = 0 /\ hi2[z] = MaxKey + 1

(* A new root over the old one and the waiting page makes the tree whole.  *)
LEMMA GrownTree ==
  ASSUME NEW pgs, NEW new, NEW rt, NEW h, NEW lo, NEW hi, NEW y, rt # y,
         Tree(pgs, rt, h, lo, hi, rt, y), NEW z \in Nat, z \notin DOMAIN pgs, NEW n,
         NEW h2, NEW lo2, NEW hi2, Grown(pgs, new, rt, h, lo, hi, y, z, n, h2, lo2, hi2)
  PROVE  Whole(new, z, h2, lo2, hi2)
<1> USE DEF Grown
<1>1. /\ rt \in DOMAIN pgs /\ y \in DOMAIN pgs /\ h[y] = h[rt] /\ lo[y] = hi[rt]
      /\ lo[rt] = 0 /\ hi[y] = MaxKey + 1 /\ \A p \in DOMAIN pgs : h[p] <= h[rt]
  BY DEF Tree, PairFits, RootFits, EndOf
<1>2. /\ h[rt] \in Nat /\ hi[rt] \in Nat /\ lo[rt] < hi[rt] /\ lo[y] < hi[y] /\ lo[y] \in Nat /\ hi[y] \in Nat
  BY <1>1, Bounds
<1>3. /\ Len(n.keys) = 1 /\ Len(n.kids) = 2 /\ n.keys[1] = hi[rt] /\ n.kids[1] = rt /\ n.kids[2] = y
  OBVIOUS
<1>4. PageFits(n, 0, MaxKey + 1)
  <2>1. \A i \in 1 .. Len(n.keys) : i = 1 /\ 0 < n.keys[i] /\ n.keys[i] < MaxKey + 1
    BY <1>1, <1>2, <1>3
  <2>2. KeysRise(n)
    BY <2>1 DEF KeysRise
  <2>3. \A i \in 1 .. Len(n.keys) : 0 <= n.keys[i]
    BY <1>2, <2>1
  <2> QED BY <2>1, <2>2, <2>3, <1>3 DEF PageFits
<1>5. PagesFit(new, h2, lo2, hi2)
  <2> SUFFICES ASSUME NEW p \in DOMAIN new
               PROVE  /\ p \in Nat /\ h2[p] \in Nat /\ lo2[p] \in Nat /\ hi2[p] \in Nat
                      /\ lo2[p] < hi2[p] /\ hi2[p] <= MaxKey + 1
                      /\ PageFits(new[p], lo2[p], hi2[p])
                      /\ new[p].leaf <=> h2[p] = 0
    BY DEF PagesFit
  <2>1. CASE p = z
    BY SMTT(30), <2>1, <1>2, <1>4, Numbers
  <2>2. CASE p # z
    <3>1. p \in DOMAIN pgs
      BY <2>2
    <3> QED BY <3>1, Bounds
  <2> QED BY <2>1, <2>2
<1>6. RootFits(new, z, h2, lo2, hi2, z, z)
  <2>1. \A p \in DOMAIN new : h2[p] <= h2[z]
    <3> SUFFICES ASSUME NEW p \in DOMAIN new PROVE h2[p] <= h2[z]
      OBVIOUS
    <3>1. CASE p = z
      BY <3>1, <1>2
    <3>2. CASE p # z
      <4>1. p \in DOMAIN pgs /\ h2[p] = h[p] /\ h[p] <= h[rt] /\ h[p] \in Nat
        BY <3>2, <1>1, Bounds
      <4> QED BY <4>1, <1>2
    <3> QED BY <3>1, <3>2
  <2> QED BY <2>1 DEF RootFits, EndOf
<1>7. KidsFit(new, h2, lo2, hi2, z, z)
  <2> SUFFICES ASSUME NEW p \in DOMAIN new, NEW j \in 1 .. Len(new[p].kids)
               PROVE  KidFits(new, h2, lo2, hi2, z, z, p, j)
    BY DEF KidsFit
  <2>0. \A q : EndOf(hi2, z, z, q) = hi2[q]
    BY DEF EndOf
  <2>1. CASE p = z
    <3>0. Len(new[p].kids) = 2
      BY <2>1, <1>3
    <3>1. j = 1 \/ j = 2
      BY <3>0
    <3>2. CASE j = 1
      <4>1. Low(n, 0, j) = 0 /\ High(n, MaxKey + 1, j) = hi[rt]
        BY <3>2, <1>3 DEF Low, High
      <4> QED BY <4>1, <3>2, <2>1, <2>0, <1>1, <1>2, <1>3 DEF KidFits
    <3>3. CASE j = 2
      <4>1. Low(n, 0, j) = hi[rt] /\ High(n, MaxKey + 1, j) = MaxKey + 1
        BY <3>3, <1>3 DEF Low, High
      <4> QED BY <4>1, <3>3, <2>1, <2>0, <1>1, <1>2, <1>3 DEF KidFits
    <3> QED BY <3>1, <3>2, <3>3
  <2>2. CASE p # z
    <3>1. p \in DOMAIN pgs /\ new[p] = pgs[p]
      BY <2>2
    <3>2. KidFits(pgs, h, lo, hi, rt, y, p, j)
      BY <3>1, KidOf
    <3>3. pgs[p].kids[j] # rt
      <4>1. h[p] = h[pgs[p].kids[j]] + 1 /\ h[p] <= h[rt] /\ h[p] \in Nat
        BY <3>1, <3>2, <1>1, Bounds DEF KidFits
      <4> QED BY <4>1, <1>2
    <3> QED BY <3>1, <3>2, <3>3, <2>0 DEF KidFits, EndOf
  <2> QED BY <2>1, <2>2
<1>8. AllPlaced(new, z, z)
  <2> SUFFICES ASSUME NEW d \in DOMAIN new, d # z PROVE HasPlace(new, d)
    BY DEF AllPlaced
  <2>1. CASE d = rt
    <3>1. z \in DOMAIN new /\ 1 \in 1 .. Len(new[z].kids) /\ new[z].kids[1] = d
      BY <2>1, <1>3
    <3> QED BY <3>1 DEF HasPlace
  <2>2. CASE d = y
    <3>1. z \in DOMAIN new /\ 2 \in 1 .. Len(new[z].kids) /\ new[z].kids[2] = d
      BY <2>2, <1>3
    <3> QED BY <3>1 DEF HasPlace
  <2>3. CASE d # rt /\ d # y
    <3>1. HasPlace(pgs, d)
      BY <2>3 DEF Tree, AllPlaced
    <3> QED BY <3>1 DEF HasPlace
  <2> QED BY <2>1, <2>2, <2>3
<1>9. LevelsApart(new, h2, lo2, hi2)
  <2> SUFFICES ASSUME NEW p \in DOMAIN new, NEW q \in DOMAIN new, h2[p] = h2[q], p # q
               PROVE  hi2[p] <= lo2[q] \/ hi2[q] <= lo2[p]
    BY DEF LevelsApart
  <2>0. \A a \in DOMAIN pgs : h2[a] # h2[z]
    <3> SUFFICES ASSUME NEW a \in DOMAIN pgs PROVE h2[a] # h2[z]
      OBVIOUS
    <3>1. h2[a] = h[a] /\ h[a] <= h[rt] /\ h[a] \in Nat
      BY <1>1, Bounds
    <3> QED BY <3>1, <1>2
  <2>1. p \in DOMAIN pgs /\ q \in DOMAIN pgs
    BY <2>0
  <2> QED BY <2>1 DEF Tree, LevelsApart
<1>10. ChainFits(new, h2, lo2, hi2)
  <2> SUFFICES ASSUME NEW p \in DOMAIN new
               PROVE  IF hi2[p] = MaxKey + 1 THEN new[p].next = Null
                      ELSE new[p].next \in DOMAIN new /\ h2[new[p].next] = h2[p] /\ lo2[new[p].next] = hi2[p]
    BY DEF ChainFits
  <2>1. CASE p = z
    BY <2>1
  <2>2. CASE p # z
    <3>1. p \in DOMAIN pgs
      BY <2>2
    <3>2. IF hi[p] = MaxKey + 1 THEN pgs[p].next = Null
          ELSE pgs[p].next \in DOMAIN pgs /\ h[pgs[p].next] = h[p] /\ lo[pgs[p].next] = hi[p]
      BY <3>1 DEF Tree, ChainFits
    <3> QED BY <3>1, <3>2
  <2> QED BY <2>1, <2>2
<1>11. PairFits(new, z, h2, lo2, hi2, z, z)
  BY DEF PairFits
<1> QED BY <1>5, <1>6, <1>7, <1>8, <1>9, <1>10, <1>11 DEF Whole, Tree

-----------------------------------------------------------------------------
(* Ways down.                                                              *)
Step == [page : Nat, idx : Nat]

Way(pgs, from, p) ==
  /\ p \in Seq(Step) /\ Len(p) > 0 /\ p[1].page = from
  /\ \A i \in 1 .. Len(p) : p[i].page \in DOMAIN pgs
  /\ \A i \in 1 .. Len(p) - 1 :
       /\ p[i].idx + 1 \in 1 .. Len(pgs[p[i].page].kids)
       /\ p[i + 1].page = pgs[p[i].page].kids[p[i].idx + 1]

ByIndex(pgs, p, idx) ==
  /\ pgs[p[Len(p)].page].leaf
  /\ \A i \in 1 .. Len(p) : ~pgs[p[i].page].leaf => p[i].idx = idx[p[i].page]

Chosen(pgs, idx) ==
  \A id \in DOMAIN pgs : ~pgs[id].leaf => idx[id] \in Nat /\ idx[id] + 1 \in 1 .. Len(pgs[id].kids)

(* A way from a child, with an entry for its parent in front.              *)
LEMMA WayCons ==
  ASSUME NEW pgs, NEW id \in DOMAIN pgs, id \in Nat, NEW i \in Nat, i + 1 \in 1 .. Len(pgs[id].kids),
         NEW q, Way(pgs, pgs[id].kids[i + 1], q)
  PROVE  LET p == <<Entry(id, i)>> \o q
         IN  /\ Way(pgs, id, p) /\ Len(p) = Len(q) + 1 /\ p[1] = Entry(id, i)
             /\ \A j \in 1 .. Len(q) : p[j + 1] = q[j]
<1> DEFINE e == <<Entry(id, i)>>  p == e \o q
<1>1. e \in Seq(Step) /\ Len(e) = 1 /\ e[1] = Entry(id, i) /\ q \in Seq(Step) /\ Len(q) \in Nat
  BY DEF Step, Entry, Way
<1> HIDE DEF e
<1>a. /\ e \o q \in Seq(Step) /\ Len(e \o q) = Len(e) + Len(q)
      /\ \A j \in 1 .. Len(e) + Len(q) : (e \o q)[j] = IF j <= Len(e) THEN e[j] ELSE q[j - Len(e)]
  BY <1>1, ConcatProperties
<1>2. p \in Seq(Step) /\ Len(p) = Len(q) + 1
  BY <1>a, <1>1
<1>3. p[1] = Entry(id, i)
  BY <1>1, <1>a
<1>4. ASSUME NEW j \in 1 .. Len(q) PROVE p[j + 1] = q[j]
  <2>1. j + 1 \in 1 .. 1 + Len(q) /\ ~(j + 1 <= 1) /\ (j + 1) - 1 = j
    BY <1>1
  <2> QED BY <2>1, <1>a, <1>1
<1>5. p[1].page = id /\ p[1].idx = i
  BY <1>3 DEF Entry
<1> HIDE DEF p
<1>6. \A j \in 1 .. Len(p) : p[j].page \in DOMAIN pgs
  <2> SUFFICES ASSUME NEW j \in 1 .. Len(p) PROVE p[j].page \in DOMAIN pgs
    OBVIOUS
  <2>1. CASE j = 1
    BY <2>1, <1>5
  <2>2. CASE j > 1
    <3>1. j - 1 \in 1 .. Len(q) /\ (j - 1) + 1 = j
      BY <2>2, <1>2, <1>1
    <3> QED BY <3>1, <1>4 DEF Way
  <2> QED BY <2>1, <2>2
<1>7. ASSUME NEW j \in 1 .. Len(p) - 1
      PROVE  /\ p[j].idx + 1 \in 1 .. Len(pgs[p[j].page].kids)
             /\ p[j + 1].page = pgs[p[j].page].kids[p[j].idx + 1]
  <2>1. CASE j = 1
    <3>1. 1 \in 1 .. Len(q) /\ p[1 + 1] = q[1]
      BY <1>2, <1>1, <1>4, <1>7
    <3> QED BY <3>1, <2>1, <1>5 DEF Way
  <2>2. CASE j > 1
    <3>1. j - 1 \in 1 .. Len(q) - 1 /\ j - 1 \in 1 .. Len(q) /\ (j - 1) + 1 = j /\ j \in 1 .. Len(q)
      BY <2>2, <1>2, <1>1
    <3>2. p[j] = q[j - 1] /\ p[j + 1] = q[j]
      <4>1. p[(j - 1) + 1] = q[j - 1]
        BY <3>1, <1>4
      <4>2. p[j + 1] = q[j]
        BY <3>1, <1>4
      <4> QED BY <4>1, <4>2, <3>1
    <3>3. /\ q[j - 1].idx + 1 \in 1 .. Len(pgs[q[j - 1].page].kids)
          /\ q[(j - 1) + 1].page = pgs[q[j - 1].page].kids[q[j - 1].idx + 1]
      BY <3>1 DEF Way
    <3> QED BY <3>2, <3>3, <3>1
  <2> QED BY <2>1, <2>2
<1>8. Way(pgs, id, p)
  BY <1>1, <1>2, <1>5, <1>6, <1>7 DEF Way
<1> QED BY <1>8, <1>2, <1>3, <1>4 DEF p, e

-----------------------------------------------------------------------------
(* The recursion of Descent, which ends in a tree: every child has one     *)
(* level less below it.                                                    *)
Walks(pgs, idx, walk) ==
  /\ DOMAIN walk = DOMAIN pgs
  /\ \A id \in DOMAIN pgs :
       walk[id] = IF pgs[id].leaf THEN <<Entry(id, 0)>>
                  ELSE <<Entry(id, idx[id])>> \o walk[pgs[id].kids[idx[id] + 1]]

(* What the recursion needs when pages are missing: a child that is there  *)
(* has one level less below it.                                            *)
Sloping(pgs, n, h, idx) ==
  \A id \in DOMAIN pgs :
    /\ id \in Nat /\ h[id] \in 0 .. n /\ (pgs[id].leaf <=> h[id] = 0)
    /\ ~pgs[id].leaf => LET kid == pgs[id].kids[idx[id] + 1]
                        IN  /\ idx[id] \in Nat /\ kid \in Nat
                            /\ kid \in DOMAIN pgs => h[kid] = h[id] - 1

(* The recursive function inside Descent.                                  *)
PartWalks(pgs, idx, walk) ==
  /\ walk \in [DOMAIN pgs -> Seq(Step)]
  /\ \A id \in DOMAIN pgs :
       LET kid == pgs[id].kids[idx[id] + 1]
       IN walk[id] = IF pgs[id].leaf THEN <<Entry(id, 0)>>
                     ELSE <<Entry(id, idx[id])>> \o
                            (IF kid \in DOMAIN pgs THEN walk[kid] ELSE <<Entry(kid, 0)>>)

(* Descent is the function that its recursive definition describes, with   *)
(* all pages of a tree or some of them.                                    *)
LEMMA PartDescent ==
  ASSUME NEW pgs, NEW n \in Nat, NEW h, NEW idx, Sloping(pgs, n, h, idx)
  PROVE  \E walk : /\ PartWalks(pgs, idx, walk)
                   /\ \A from \in DOMAIN pgs : Descent(pgs, from, idx) = walk[from]
<1> DEFINE Pg == DOMAIN pgs  V == [Pg -> Seq(Step)]
           kid == [id \in Pg |-> pgs[id].kids[idx[id] + 1]]
           b == [id \in Pg |-> <<Entry(id, 0)>>]
           g == [w \in (0 .. n) \X V |->
                   [id \in Pg |-> IF pgs[id].leaf THEN <<Entry(id, 0)>>
                                  ELSE <<Entry(id, idx[id])>> \o
                                         (IF kid[id] \in Pg THEN w[2][kid[id]] ELSE <<Entry(kid[id], 0)>>)]]
<1>1. \A id \in Pg : h[id] \in 0 .. n /\ id \in Nat /\ (pgs[id].leaf <=> h[id] = 0)
  BY DEF Sloping
<1>2. \A id \in Pg : ~pgs[id].leaf => /\ idx[id] \in Nat /\ kid[id] \in Nat
                                      /\ kid[id] \in Pg => h[kid[id]] = h[id] - 1
  BY DEF Sloping
<1>3. \A id \in Pg : /\ <<Entry(id, 0)>> \in Seq(Step)
                     /\ ~pgs[id].leaf => <<Entry(id, idx[id])>> \in Seq(Step) /\ <<Entry(kid[id], 0)>> \in Seq(Step)
  <2> HIDE DEF kid
  <2> QED BY <1>1, <1>2 DEF Entry, Step
<1> HIDE DEF kid
<1>4. b \in V
  BY <1>3
<1>5. \A k \in 0 .. n, v \in V : g[<<k, v>>] \in V
  <2> SUFFICES ASSUME NEW k \in 0 .. n, NEW v \in V PROVE g[<<k, v>>] \in V
    OBVIOUS
  <2>1. g[<<k, v>>] = [id \in Pg |-> IF pgs[id].leaf THEN <<Entry(id, 0)>>
                                  ELSE <<Entry(id, idx[id])>> \o
                                         (IF kid[id] \in Pg THEN v[kid[id]] ELSE <<Entry(kid[id], 0)>>)]
    OBVIOUS
  <2>2. ASSUME NEW id \in Pg
        PROVE  (IF pgs[id].leaf THEN <<Entry(id, 0)>>
                ELSE <<Entry(id, idx[id])>> \o
                       (IF kid[id] \in Pg THEN v[kid[id]] ELSE <<Entry(kid[id], 0)>>)) \in Seq(Step)
    <3>1. CASE pgs[id].leaf
      BY <3>1, <1>3
    <3>2. CASE ~pgs[id].leaf
      <4> DEFINE u == IF kid[id] \in Pg THEN v[kid[id]] ELSE <<Entry(kid[id], 0)>>
      <4>1. u \in Seq(Step) /\ <<Entry(id, idx[id])>> \in Seq(Step)
        <5>1. CASE kid[id] \in Pg
          BY <5>1, <3>2, <1>3
        <5>2. CASE kid[id] \notin Pg
          BY <5>2, <3>2, <1>3
        <5> QED BY <5>1, <5>2
      <4> HIDE DEF u
      <4>2. <<Entry(id, idx[id])>> \o u \in Seq(Step)
        BY <4>1, ConcatProperties
      <4> QED BY <4>2, <3>2 DEF u
    <3> QED BY <3>1, <3>2
  <2> HIDE DEF g
  <2> QED BY <2>1, <2>2
<1>6. PICK w : Recurs(w, 0, n, V, b, g)
  <2>1. 0 \in Nat /\ 0 <= n
    OBVIOUS
  <2> HIDE DEF V, b, g
  <2> QED BY ONLY <2>1, n \in Nat, <1>4, <1>5, Recursion
<1>7. /\ w \in [0 .. n -> V] /\ w[0] = b
      /\ \A k \in 0 .. n : k > 0 => w[k] = g[<<k, w[k - 1]>>] /\ w[k - 1] \in V
  <2>1. w \in [0 .. n -> V] /\ w[0] = b /\ \A k \in 0 .. n : k > 0 => w[k] = g[<<k, w[k - 1]>>]
    <3> HIDE DEF V, b, g
    <3> QED BY <1>6 DEF Recurs
  <2>2. \A k \in 0 .. n : k > 0 => k - 1 \in 0 .. n
    OBVIOUS
  <2> HIDE DEF V, b, g
  <2> QED BY <2>1, <2>2
<1> DEFINE f == [id \in Pg |-> w[h[id]][id]]
<1>8. \A id \in Pg : f[id] = IF pgs[id].leaf THEN <<Entry(id, 0)>>
                             ELSE <<Entry(id, idx[id])>> \o
                                    (IF kid[id] \in Pg THEN f[kid[id]] ELSE <<Entry(kid[id], 0)>>)
  <2> SUFFICES ASSUME NEW id \in Pg
               PROVE  f[id] = IF pgs[id].leaf THEN <<Entry(id, 0)>>
                              ELSE <<Entry(id, idx[id])>> \o
                                     (IF kid[id] \in Pg THEN f[kid[id]] ELSE <<Entry(kid[id], 0)>>)
    OBVIOUS
  <2>1. CASE pgs[id].leaf
    <3>1. h[id] = 0 /\ f[id] = w[0][id]
      BY <2>1, <1>1
    <3> QED BY <3>1, <2>1, <1>7
  <2>2. CASE ~pgs[id].leaf
    <3> DEFINE k == h[id]
    <3>1. k \in 0 .. n /\ k > 0 /\ (kid[id] \in Pg => h[kid[id]] = k - 1)
      BY <2>2, <1>1, <1>2
    <3>2. w[k] = g[<<k, w[k - 1]>>] /\ w[k - 1] \in V
      BY <3>1, <1>7
    <3>3. g[<<k, w[k - 1]>>][id] =
            <<Entry(id, idx[id])>> \o (IF kid[id] \in Pg THEN w[k - 1][kid[id]] ELSE <<Entry(kid[id], 0)>>)
      BY <3>1, <3>2, <2>2
    <3>4. f[id] = w[k][id] /\ (kid[id] \in Pg => f[kid[id]] = w[k - 1][kid[id]])
      BY <3>1
    <3> HIDE DEF k, g, f
    <3> QED BY <3>2, <3>3, <3>4, <2>2
  <2> QED BY <2>1, <2>2
<1>9. f \in V
  <2> SUFFICES ASSUME NEW id \in Pg PROVE w[h[id]][id] \in Seq(Step)
    OBVIOUS
  <2>1. h[id] \in 0 .. n
    BY <1>1
  <2>2. w[h[id]] \in V
    <3> HIDE DEF V
    <3> QED BY <2>1, <1>7
  <2> QED BY <2>2
<1> DEFINE Rec(u) == [id \in Pg |-> IF pgs[id].leaf THEN <<Entry(id, 0)>>
             ELSE <<Entry(id, idx[id])>> \o
                    (IF pgs[id].kids[idx[id] + 1] \in DOMAIN pgs THEN u[pgs[id].kids[idx[id] + 1]]
                     ELSE <<Entry(pgs[id].kids[idx[id] + 1], 0)>>)]
           walk == CHOOSE u : u = Rec(u)
<1>10. f = Rec(f)
  <2>1. DOMAIN f = Pg /\ f = [id \in Pg |-> f[id]]
    OBVIOUS
  <2>2. \A id \in Pg : kid[id] = pgs[id].kids[idx[id] + 1]
    BY DEF kid
  <2> HIDE DEF f
  <2> QED BY <2>1, <2>2, <1>8
<1>11. walk = Rec(walk)
  <2> HIDE DEF f
  <2> QED BY <1>10
<1>12. \A from \in DOMAIN pgs : Descent(pgs, from, idx) = walk[from]
  BY DEF Descent
<1> HIDE DEF walk
<1>13. ASSUME NEW u, u = Rec(u)
       PROVE  \A id \in Pg : u[id] = IF pgs[id].leaf THEN <<Entry(id, 0)>>
                             ELSE <<Entry(id, idx[id])>> \o
                                    (IF kid[id] \in Pg THEN u[kid[id]] ELSE <<Entry(kid[id], 0)>>)
  BY <1>13 DEF kid
<1>14. walk \in V
  <2> DEFINE S == {k \in Nat : \A id \in Pg : h[id] = k => walk[id] = f[id]}
  <2>1. 0 \in S
    <3> SUFFICES ASSUME NEW id \in Pg, h[id] = 0 PROVE walk[id] = f[id]
      OBVIOUS
    <3> HIDE DEF Rec, f
    <3> QED BY <1>1, <1>8, <1>11, <1>13
  <2>2. ASSUME NEW k \in Nat, k \in S PROVE k + 1 \in S
    <3> SUFFICES ASSUME NEW id \in Pg, h[id] = k + 1 PROVE walk[id] = f[id]
      OBVIOUS
    <3>1. ~pgs[id].leaf /\ (kid[id] \in Pg => h[kid[id]] = k)
      BY <1>1, <1>2
    <3>2. kid[id] \in Pg => walk[kid[id]] = f[kid[id]]
      BY <2>2, <3>1
    <3> HIDE DEF Rec, f
    <3> QED BY <1>8, <1>11, <1>13, <3>1, <3>2
  <2>3. Nat \subseteq S
    <3> HIDE DEF S
    <3> QED BY <2>1, <2>2, SetInduction
  <2>4. \A id \in Pg : walk[id] = f[id]
    BY <1>1, <2>3
  <2>5. walk = [id \in Pg |-> walk[id]]
    BY <1>11
  <2> HIDE DEF f, Rec
  <2> QED BY <1>9, <2>4, <2>5
<1>15. PartWalks(pgs, idx, walk)
  <2> HIDE DEF Rec
  <2> QED BY <1>11, <1>13, <1>14 DEF PartWalks, kid
<1> QED BY <1>12, <1>15

(* In a tree no child is missing.                                          *)
LEMMA DescentDef ==
  ASSUME NEW pgs, NEW rt, NEW h, NEW lo, NEW hi, NEW x, NEW y, Tree(pgs, rt, h, lo, hi, x, y),
         NEW idx, Chosen(pgs, idx), NEW from \in DOMAIN pgs
  PROVE  \E walk : Walks(pgs, idx, walk) /\ Descent(pgs, from, idx) = walk[from]
<1>1. h[rt] \in Nat /\ \A id \in DOMAIN pgs : h[id] \in 0 .. h[rt] /\ id \in Nat /\ (pgs[id].leaf <=> h[id] = 0)
  <2>1. rt \in DOMAIN pgs /\ \A id \in DOMAIN pgs : h[id] <= h[rt]
    BY DEF Tree, RootFits
  <2> QED BY <2>1, Bounds
<1>2. ASSUME NEW id \in DOMAIN pgs, ~pgs[id].leaf
      PROVE  LET kid == pgs[id].kids[idx[id] + 1]
             IN  idx[id] \in Nat /\ kid \in DOMAIN pgs /\ kid \in Nat /\ h[kid] = h[id] - 1
  <2>1. idx[id] \in Nat /\ idx[id] + 1 \in 1 .. Len(pgs[id].kids)
    BY <1>2 DEF Chosen
  <2>2. KidFits(pgs, h, lo, hi, x, y, id, idx[id] + 1)
    BY <2>1, KidOf
  <2> DEFINE kid == pgs[id].kids[idx[id] + 1]
  <2>3. kid \in DOMAIN pgs /\ h[id] = h[kid] + 1
    BY <2>2 DEF KidFits
  <2>4. h[kid] \in Nat /\ kid \in Nat
    BY <2>3, <1>1
  <2> HIDE DEF kid
  <2>5. h[kid] = h[id] - 1
    BY <2>3, <2>4
  <2> QED BY <2>1, <2>3, <2>4, <2>5 DEF kid
<1>3. Sloping(pgs, h[rt], h, idx)
  BY <1>1, <1>2 DEF Sloping
<1>4. PICK walk : PartWalks(pgs, idx, walk) /\ Descent(pgs, from, idx) = walk[from]
  BY <1>1, <1>3, PartDescent
<1>5. Walks(pgs, idx, walk)
  BY <1>2, <1>4 DEF PartWalks, Walks
<1> QED BY <1>4, <1>5

(* A way to a leaf, with an entry for every level.                         *)
GoodWay(pgs, idx, id, p, k) == Way(pgs, id, p) /\ ByIndex(pgs, p, idx) /\ Len(p) = k + 1

(* So the way down is one from page to child, by the indices given, to a   *)
(* leaf.                                                                   *)
LEMMA DescentIsWay ==
  ASSUME NEW pgs, NEW rt, NEW h, NEW lo, NEW hi, NEW x, NEW y, Tree(pgs, rt, h, lo, hi, x, y),
         NEW idx, Chosen(pgs, idx), NEW from \in DOMAIN pgs
  PROVE  GoodWay(pgs, idx, from, Descent(pgs, from, idx), h[from])
<1>1. PICK walk : Walks(pgs, idx, walk) /\ Descent(pgs, from, idx) = walk[from]
  BY DescentDef
<1> DEFINE S == {k \in Nat : \A id \in DOMAIN pgs : h[id] = k => GoodWay(pgs, idx, id, walk[id], k)}
<1>2. 0 \in S
  <2> SUFFICES ASSUME NEW id \in DOMAIN pgs, h[id] = 0 PROVE GoodWay(pgs, idx, id, walk[id], 0)
    OBVIOUS
  <2>1. pgs[id].leaf /\ id \in Nat
    BY Bounds
  <2>2. walk[id] = <<Entry(id, 0)>>
    BY <2>1, <1>1 DEF Walks
  <2>3. walk[id] \in Seq(Step) /\ Len(walk[id]) = 1 /\ walk[id][1] = Entry(id, 0)
    BY <2>1, <2>2 DEF Entry, Step
  <2>4. walk[id][1].page = id /\ 1 .. Len(walk[id]) = {1}
    BY <2>3 DEF Entry
  <2>5. Way(pgs, id, walk[id])
    BY <2>3, <2>4 DEF Way
  <2>6. ByIndex(pgs, walk[id], idx)
    BY <2>1, <2>3, <2>4 DEF ByIndex
  <2> QED BY <2>3, <2>5, <2>6 DEF GoodWay
<1>3. ASSUME NEW k \in Nat, k \in S PROVE k + 1 \in S
  <2> SUFFICES ASSUME NEW id \in DOMAIN pgs, h[id] = k + 1 PROVE GoodWay(pgs, idx, id, walk[id], k + 1)
    OBVIOUS
  <2>1. ~pgs[id].leaf /\ id \in Nat
    BY Bounds
  <2>2. idx[id] \in Nat /\ idx[id] + 1 \in 1 .. Len(pgs[id].kids)
    BY <2>1 DEF Chosen
  <2> DEFINE c == pgs[id].kids[idx[id] + 1]  q == walk[c]  p == walk[id]
  <2>3. c \in DOMAIN pgs /\ h[c] = k
    <3>1. KidFits(pgs, h, lo, hi, x, y, id, idx[id] + 1)
      BY <2>2, KidOf
    <3>2. c \in DOMAIN pgs /\ h[id] = h[c] + 1
      BY <3>1 DEF KidFits
    <3> QED BY <3>2, Bounds
  <2>4. GoodWay(pgs, idx, c, q, k)
    BY <1>3, <2>3
  <2>5. p = <<Entry(id, idx[id])>> \o q
    BY <2>1, <1>1 DEF Walks
  <2>6. Way(pgs, c, q) /\ ByIndex(pgs, q, idx) /\ Len(q) = k + 1
    BY <2>4 DEF GoodWay
  <2> HIDE DEF q, p
  <2>7. Way(pgs, id, p) /\ Len(p) = Len(q) + 1 /\ p[1] = Entry(id, idx[id]) /\ \A j \in 1 .. Len(q) : p[j + 1] = q[j]
    BY SMTT(30), <2>1, <2>2, <2>5, <2>6, WayCons
  <2>8. ByIndex(pgs, p, idx)
    <3>1. p[Len(p)] = q[Len(q)]
      BY <2>7, <2>6
    <3>2. ASSUME NEW j \in 1 .. Len(p), ~pgs[p[j].page].leaf PROVE p[j].idx = idx[p[j].page]
      <4>1. CASE j = 1
        BY <4>1, <2>7 DEF Entry
      <4>2. CASE j > 1
        <5>1. j - 1 \in 1 .. Len(q) /\ (j - 1) + 1 = j
          BY <4>2, <2>7, <2>6
        <5>2. p[j] = q[j - 1]
          BY <5>1, <2>7
        <5> QED BY <5>1, <5>2, <2>6, <3>2 DEF ByIndex
      <4> QED BY <4>1, <4>2
    <3> QED BY <3>1, <3>2, <2>6 DEF ByIndex
  <2> QED BY <2>6, <2>7, <2>8 DEF GoodWay, p
<1>4. Nat \subseteq S
  <2> HIDE DEF S
  <2> QED BY <1>2, <1>3, SetInduction
<1>5. h[from] \in Nat
  BY Bounds
<1> QED BY <1>1, <1>4, <1>5

-----------------------------------------------------------------------------
(* Searching a page: the cells in front of the place found are just those  *)
(* with smaller keys, or with keys not larger.                             *)
LEMMA ChildIdxFacts ==
  ASSUME NEW n, NEW a, NEW z, PageFits(n, a, z), NEW k \in Nat
  PROVE  /\ ChildIdx(n, k) \in 0 .. Len(n.keys)
         /\ \A i \in 1 .. Len(n.keys) : n.keys[i] <= k <=> i <= ChildIdx(n, k)
<1> DEFINE c == Len(n.keys)  T == {i \in 1 .. c : n.keys[i] > k}
<1>1. n \in PageRec /\ c \in Nat /\ DOMAIN n.keys = 1 .. c /\ \A i \in 1 .. c : n.keys[i] \in Nat
  BY RecFields, Numbers DEF PageFits
<1>2. \A i, j \in 1 .. c : i < j /\ i \in T => j \in T
  <2> SUFFICES ASSUME NEW i \in 1 .. c, NEW j \in 1 .. c, i < j, i \in T PROVE j \in T
    OBVIOUS
  <2>1. n.keys[i] < n.keys[j]
    BY DEF PageFits, KeysRise
  <2> QED BY <2>1, <1>1
<1>3. /\ Cardinality({i \in 1 .. c : i \notin T}) \in 0 .. c
      /\ \A i \in 1 .. c : i \in T <=> i > Cardinality({j \in 1 .. c : j \notin T})
  <2> HIDE DEF T, c
  <2> QED BY <1>1, <1>2, CountBelow
<1>4. {i \in 1 .. c : i \notin T} = {i \in DOMAIN n.keys : n.keys[i] <= k}
  BY <1>1
<1>5. ChildIdx(n, k) = Cardinality({i \in 1 .. c : i \notin T})
  BY <1>4 DEF ChildIdx
<1>6. \A i \in 1 .. c : i \in T <=> ~(n.keys[i] <= k)
  BY <1>1
<1>7. \A i \in 1 .. c : i \in T <=> i > ChildIdx(n, k)
  BY <1>3, <1>5
<1>8. ChildIdx(n, k) \in 0 .. c
  BY <1>3, <1>5
<1>9. ASSUME NEW i \in 1 .. c PROVE n.keys[i] <= k <=> i <= ChildIdx(n, k)
  <2>1. i \in Nat /\ ChildIdx(n, k) \in Nat
    BY <1>8, <1>1
  <2>2. i \in T <=> ~(n.keys[i] <= k)
    BY <1>6
  <2>3. i \in T <=> i > ChildIdx(n, k)
    BY <1>7
  <2> HIDE DEF T
  <2> QED BY <2>1, <2>2, <2>3
<1> HIDE DEF T
<1> QED BY <1>8, <1>9

(* The keys below another are the first ones, so that counting them is a   *)
(* search for the place of the key.                                        *)
LEMMA BelowFacts ==
  ASSUME NEW n, NEW a, NEW z, PageFits(n, a, z), NEW k \in Nat
  PROVE  /\ Below(n, k) \in 0 .. Len(n.keys)
         /\ \A i \in 1 .. Len(n.keys) : n.keys[i] < k <=> i <= Below(n, k)
<1> DEFINE c == Len(n.keys)  T == {i \in 1 .. c : n.keys[i] >= k}
<1>1. n \in PageRec /\ c \in Nat /\ DOMAIN n.keys = 1 .. c /\ \A i \in 1 .. c : n.keys[i] \in Nat
  BY RecFields, Numbers DEF PageFits
<1>2. \A i, j \in 1 .. c : i < j /\ i \in T => j \in T
  <2> SUFFICES ASSUME NEW i \in 1 .. c, NEW j \in 1 .. c, i < j, i \in T PROVE j \in T
    OBVIOUS
  <2>1. n.keys[i] < n.keys[j]
    BY DEF PageFits, KeysRise
  <2> QED BY <2>1, <1>1
<1>3. /\ Cardinality({i \in 1 .. c : i \notin T}) \in 0 .. c
      /\ \A i \in 1 .. c : i \in T <=> i > Cardinality({j \in 1 .. c : j \notin T})
  <2> HIDE DEF T, c
  <2> QED BY <1>1, <1>2, CountBelow
<1>4. {i \in 1 .. c : i \notin T} = {i \in DOMAIN n.keys : n.keys[i] < k}
  BY <1>1
<1>5. Below(n, k) = Cardinality({i \in 1 .. c : i \notin T})
  BY <1>4 DEF Below
<1>6. \A i \in 1 .. c : i \in T <=> ~(n.keys[i] < k)
  BY <1>1
<1>7. \A i \in 1 .. c : i \in T <=> i > Below(n, k)
  BY <1>3, <1>5
<1>8. Below(n, k) \in 0 .. c
  BY <1>3, <1>5
<1>9. ASSUME NEW i \in 1 .. c PROVE n.keys[i] < k <=> i <= Below(n, k)
  <2>1. i \in Nat /\ Below(n, k) \in Nat
    BY <1>8, <1>1
  <2>2. i \in T <=> ~(n.keys[i] < k)
    BY <1>6
  <2>3. i \in T <=> i > Below(n, k)
    BY <1>7
  <2> HIDE DEF T
  <2> QED BY <2>1, <2>2, <2>3
<1> HIDE DEF T
<1> QED BY <1>8, <1>9

(* Keys of a page.                                                         *)
KeysIn(n) == {n.keys[i] : i \in 1 .. Len(n.keys)}

(* KeySet without the operators of the community modules.                  *)
LEMMA KeySetIs ==
  ASSUME NEW n \in PageRec
  PROVE  KeySet(n) = KeysIn(n)
<1>1. DOMAIN n.keys = 1 .. Len(n.keys)
  BY RecFields
<1> QED BY <1>1 DEF KeySet, Range, KeysIn

(* A key that belongs below a page.                                        *)
Within(lo, hi, id, k) == lo[id] <= k /\ k < hi[id]

(* The child a search goes to has the key within its bounds.               *)
LEMMA ChildWithin ==
  ASSUME NEW pgs, NEW rt, NEW h, NEW lo, NEW hi, Whole(pgs, rt, h, lo, hi),
         NEW k \in Key, NEW id \in DOMAIN pgs, ~pgs[id].leaf, Within(lo, hi, id, k)
  PROVE  LET i == ChildIdx(pgs[id], k)
         IN  i \in Nat /\ i + 1 \in 1 .. Len(pgs[id].kids) /\ Within(lo, hi, pgs[id].kids[i + 1], k)
<1> DEFINE n == pgs[id]  c == Len(n.keys)  i == ChildIdx(n, k)
<1>0. Tree(pgs, rt, h, lo, hi, rt, rt) /\ k \in Nat
  BY Numbers DEF Whole
<1>1. PageFits(n, lo[id], hi[id])
  BY <1>0, Bounds
<1>2. n \in PageRec /\ c \in Nat /\ Len(n.kids) = c + 1
  BY <1>1, RecFields DEF PageFits
<1>3. i \in 0 .. c /\ \A j \in 1 .. c : n.keys[j] <= k <=> j <= i
  BY <1>0, <1>1, ChildIdxFacts
<1> HIDE DEF i
<1>4. i \in Nat /\ i + 1 \in 1 .. Len(n.kids)
  BY <1>2, <1>3
<1>5. KidFits(pgs, h, lo, hi, rt, rt, id, i + 1)
  BY <1>0, <1>4, KidOf
<1>6. lo[n.kids[i + 1]] = Low(n, lo[id], i + 1) /\ hi[n.kids[i + 1]] = High(n, hi[id], i + 1)
  BY <1>5 DEF KidFits, EndOf
<1>7. Low(n, lo[id], i + 1) <= k
  <2>1. CASE i = 0
    BY <2>1 DEF Low, Within
  <2>2. CASE i > 0
    <3>1. i \in 1 .. c /\ i + 1 # 1 /\ (i + 1) - 1 = i
      BY <2>2, <1>3, <1>2
    <3>2. n.keys[i] <= k
      BY <3>1, <1>3
    <3> QED BY <3>1, <3>2 DEF Low
  <2> QED BY <2>1, <2>2, <1>4
<1>8. k < High(n, hi[id], i + 1)
  <2>1. CASE i = c
    <3>1. i + 1 = Len(n.kids)
      BY <2>1, <1>2
    <3> QED BY <3>1 DEF High, Within
  <2>2. CASE i < c
    <3>1. i + 1 \in 1 .. c /\ i + 1 # Len(n.kids) /\ ~(i + 1 <= i)
      BY <2>2, <1>3, <1>2
    <3>2. ~(n.keys[i + 1] <= k) /\ n.keys[i + 1] \in Nat
      BY <3>1, <1>3, <1>2, RecFields, Numbers
    <3> QED BY <3>1, <3>2, <1>0 DEF High
  <2> QED BY <2>1, <2>2, <1>3, <1>2
<1> QED BY <1>4, <1>6, <1>7, <1>8 DEF Within, i

(* What holds at the start of a way and is handed down holds on all of it. *)
LEMMA DownTheWay ==
  ASSUME NEW pgs, NEW from, NEW p, Way(pgs, from, p), NEW S, from \in S,
         \A i \in 1 .. Len(p) - 1 : p[i].page \in S => p[i + 1].page \in S
  PROVE  \A i \in 1 .. Len(p) : p[i].page \in S
<1> DEFINE U == {i \in 1 .. Len(p) : p[i].page \in S}
<1>0. Len(p) \in Nat /\ Len(p) >= 1 /\ p[1].page = from
  BY DEF Way
<1>1. 1 \in U
  BY <1>0
<1>2. \A k \in 1 .. Len(p) : k > 1 /\ k - 1 \in U => k \in U
  <2> SUFFICES ASSUME NEW k \in 1 .. Len(p), k > 1, k - 1 \in U PROVE k \in U
    OBVIOUS
  <2>1. k - 1 \in 1 .. Len(p) - 1 /\ (k - 1) + 1 = k
    BY <1>0
  <2> QED BY <2>1
<1>3. \A k \in 1 .. Len(p) : k \in U
  <2> HIDE DEF U
  <2> QED BY <1>0, <1>1, <1>2, StepInduction
<1> QED BY <1>3

(* The child that a search takes in every page.                            *)
ByKey(pgs, k) == [id \in DOMAIN pgs |-> ChildIdx(pgs[id], k)]

(* A search for a key ends at the leaf whose bounds it is in.              *)
LEMMA SearchWay ==
  ASSUME NEW pgs, NEW rt, NEW h, NEW lo, NEW hi, Whole(pgs, rt, h, lo, hi), NEW k \in Key,
         NEW p, p = Descent(pgs, rt, ByKey(pgs, k))
  PROVE  /\ GoodWay(pgs, ByKey(pgs, k), rt, p, h[rt])
         /\ \A i \in 1 .. Len(p) : Within(lo, hi, p[i].page, k)
<1>0. Tree(pgs, rt, h, lo, hi, rt, rt) /\ k \in Nat
  BY Numbers DEF Whole
<1>1. rt \in DOMAIN pgs /\ lo[rt] = 0 /\ hi[rt] = MaxKey + 1
  BY <1>0 DEF Tree, RootFits, EndOf
<1>2. Chosen(pgs, ByKey(pgs, k))
  <2> SUFFICES ASSUME NEW id \in DOMAIN pgs, ~pgs[id].leaf
               PROVE  ChildIdx(pgs[id], k) \in Nat /\ ChildIdx(pgs[id], k) + 1 \in 1 .. Len(pgs[id].kids)
    BY DEF Chosen, ByKey
  <2>1. PageFits(pgs[id], lo[id], hi[id])
    BY <1>0, Bounds
  <2>2. Len(pgs[id].kids) = Len(pgs[id].keys) + 1 /\ Len(pgs[id].keys) \in Nat
    BY <2>1, RecFields DEF PageFits
  <2>3. ChildIdx(pgs[id], k) \in 0 .. Len(pgs[id].keys)
    BY <2>1, <1>0, ChildIdxFacts
  <2> QED BY <2>2, <2>3
<1>3. GoodWay(pgs, ByKey(pgs, k), rt, p, h[rt])
  BY <1>0, <1>1, <1>2, DescentIsWay
<1>4. Way(pgs, rt, p) /\ ByIndex(pgs, p, ByKey(pgs, k))
  BY <1>3 DEF GoodWay
<1> DEFINE S == {id \in DOMAIN pgs : Within(lo, hi, id, k)}
<1>5. rt \in S
  BY <1>1, Numbers DEF Within
<1>6. \A i \in 1 .. Len(p) - 1 : p[i].page \in S => p[i + 1].page \in S
  <2> SUFFICES ASSUME NEW i \in 1 .. Len(p) - 1, p[i].page \in S PROVE p[i + 1].page \in S
    OBVIOUS
  <2> DEFINE q == p[i].page
  <2>1. /\ p[i].idx + 1 \in 1 .. Len(pgs[q].kids) /\ p[i + 1].page = pgs[q].kids[p[i].idx + 1]
        /\ i \in 1 .. Len(p) /\ i + 1 \in 1 .. Len(p) /\ p[i + 1].page \in DOMAIN pgs
    BY <1>4 DEF Way
  <2>2. q \in DOMAIN pgs /\ PageFits(pgs[q], lo[q], hi[q])
    BY <1>0, Bounds
  <2>3. ~pgs[q].leaf
    BY <2>1, <2>2 DEF PageFits
  <2>4. p[i].idx = ChildIdx(pgs[q], k)
    BY <2>1, <2>2, <2>3, <1>4 DEF ByIndex, ByKey
  <2>5. Within(lo, hi, pgs[q].kids[p[i].idx + 1], k)
    BY <2>2, <2>3, <2>4, ChildWithin
  <2> QED BY <2>1, <2>5
<1>7. \A i \in 1 .. Len(p) : p[i].page \in S
  <2> HIDE DEF S
  <2> QED BY <1>4, <1>5, <1>6, DownTheWay
<1> QED BY <1>3, <1>7

(* The keys of the leaves, and the leaf a key is in.                       *)
RowsIn(pgs) == {k \in Key : \E id \in DOMAIN pgs : pgs[id].leaf /\ k \in KeysIn(pgs[id])}

(* The leaf that a search comes to has the key just if any leaf has it.    *)
LEMMA SearchFinds ==
  ASSUME NEW pgs, NEW rt, NEW h, NEW lo, NEW hi, Whole(pgs, rt, h, lo, hi), NEW k \in Key,
         NEW p, p = Descent(pgs, rt, ByKey(pgs, k))
  PROVE  k \in KeySet(pgs[p[Len(p)].page]) <=> k \in RowsIn(pgs)
<1>0. Tree(pgs, rt, h, lo, hi, rt, rt)
  BY DEF Whole
<1> DEFINE id == p[Len(p)].page
<1>1. Way(pgs, rt, p) /\ ByIndex(pgs, p, ByKey(pgs, k)) /\ \A i \in 1 .. Len(p) : Within(lo, hi, p[i].page, k)
  BY SearchWay DEF GoodWay
<1>2. Len(p) \in 1 .. Len(p)
  BY <1>1 DEF Way
<1>3. id \in DOMAIN pgs /\ pgs[id].leaf /\ Within(lo, hi, id, k)
  BY <1>1, <1>2 DEF Way, ByIndex
<1>4. KeySet(pgs[id]) = KeysIn(pgs[id])
  BY <1>0, <1>3, Bounds, KeySetIs DEF PageFits
<1>5. ASSUME NEW q \in DOMAIN pgs, pgs[q].leaf, k \in KeysIn(pgs[q]) PROVE q = id
  <2>1. PageFits(pgs[q], lo[q], hi[q]) /\ lo[q] \in Nat /\ hi[q] \in Nat /\ h[q] = 0
    BY <1>0, <1>5, Bounds
  <2>2. PICK i \in 1 .. Len(pgs[q].keys) : k = pgs[q].keys[i]
    BY <1>5 DEF KeysIn
  <2>3. lo[q] <= k /\ k < hi[q]
    BY <2>1, <2>2 DEF PageFits
  <2>4. h[id] = 0 /\ lo[id] \in Nat /\ hi[id] \in Nat
    BY <1>0, <1>3, Bounds
  <2>5. q # id => hi[q] <= lo[id] \/ hi[id] <= lo[q]
    BY <1>0, <1>3, <2>1, <2>4 DEF Tree, LevelsApart
  <2> QED BY <2>1, <2>3, <2>4, <2>5, <1>3, Numbers DEF Within
<1> HIDE DEF id
<1> QED BY <1>3, <1>4, <1>5 DEF RowsIn, id

-----------------------------------------------------------------------------
(* The space of the cells of a page.                                       *)
CellSpaces(leaf, keys) == [i \in 1 .. Len(keys) |-> IF leaf THEN RowSpace[keys[i]] ELSE InternalSpace]
SpaceIn(leaf, keys) == Total(CellSpaces(leaf, keys))

(* Space of the cells of a page, from its keys.                            *)
LEMMA SpaceOfIs ==
  ASSUME NEW n \in PageRec
  PROVE  SpaceOf(n) = SpaceIn(n.leaf, n.keys)
<1>1. DOMAIN n.keys = 1 .. Len(n.keys)
  BY RecFields
<1>2. [i \in DOMAIN n.keys |-> Space(n, n.keys[i])] = CellSpaces(n.leaf, n.keys)
  BY <1>1 DEF CellSpaces, Space
<1> QED BY <1>2 DEF SpaceOf, SpaceIn

(* Spaces of cells can be summed.                                          *)
LEMMA SpacesNat ==
  ASSUME NEW leaf \in BOOLEAN, NEW keys \in Seq(Key)
  PROVE  /\ IsFiniteSet(DOMAIN CellSpaces(leaf, keys))
         /\ DOMAIN CellSpaces(leaf, keys) = 1 .. Len(keys)
         /\ \A i \in 1 .. Len(keys) : CellSpaces(leaf, keys)[i] \in Nat
         /\ SpaceIn(leaf, keys) \in Nat
<1> DEFINE f == CellSpaces(leaf, keys)
<1>1. DOMAIN f = 1 .. Len(keys) /\ Len(keys) \in Nat
  BY DEF CellSpaces
<1>2. IsFiniteSet(1 .. Len(keys))
  BY <1>1, FS_Interval
<1>3. ASSUME NEW i \in 1 .. Len(keys) PROVE f[i] \in Nat
  <2>1. keys[i] \in Key
    BY <1>1
  <2> QED BY <2>1, Numbers DEF CellSpaces
<1> HIDE DEF f
<1>4. Total(f) \in Nat
  BY <1>1, <1>2, <1>3, TotalNat
<1> QED BY <1>1, <1>2, <1>3, <1>4 DEF f, SpaceIn

(* Space is a natural number.                                              *)
LEMMA SpaceNat ==
  ASSUME NEW n \in PageRec
  PROVE  SpaceOf(n) \in Nat
BY SpaceOfIs, SpacesNat, RecFields

(* No cells take no space, and one cell takes its own.                     *)
LEMMA SpaceNone ==
  ASSUME NEW leaf \in BOOLEAN, NEW keys \in Seq(Key), Len(keys) = 0
  PROVE  SpaceIn(leaf, keys) = 0
<1>1. DOMAIN CellSpaces(leaf, keys) = {}
  <2>1. DOMAIN CellSpaces(leaf, keys) = 1 .. 0
    BY SpacesNat
  <2>2. 1 .. 0 = {}
    OBVIOUS
  <2> QED BY <2>1, <2>2
<1> QED BY <1>1, TotalEmpty DEF SpaceIn

(* Space of one cell.                                                      *)
OneSpace(leaf, k) == IF leaf THEN RowSpace[k] ELSE InternalSpace

(* A cell at any place adds its space.                                     *)
LEMMA SpaceInsert ==
  ASSUME NEW leaf \in BOOLEAN, NEW keys \in Seq(Key), NEW p \in 1 .. Len(keys) + 1, NEW k \in Key
  PROVE  SpaceIn(leaf, InsertAt(keys, p, k)) = SpaceIn(leaf, keys) + OneSpace(leaf, k)
<1> DEFINE new == InsertAt(keys, p, k)  c == Len(keys)
           f == CellSpaces(leaf, keys)  g == CellSpaces(leaf, new)
           u == [i \in (1 .. c + 1) \ {p} |-> g[i]]
           b == [i \in 1 .. c |-> IF i < p THEN i ELSE i + 1]
<1>1. new \in Seq(Key) /\ Len(new) = c + 1 /\ c \in Nat /\ p \in 1 .. c + 1
  BY InsertAtSeq
<1>2. /\ \A i \in 1 .. c : i < p => new[i] = keys[i]
      /\ \A i \in 1 .. c : i >= p => new[i + 1] = keys[i]
      /\ new[p] = k
  <2>1. \A i \in 1 .. c : i < p => i \in 1 .. p - 1
    BY <1>1
  <2>2. \A i \in 1 .. c : i >= p => i \in p .. c
    BY <1>1
  <2> HIDE DEF new
  <2>3. ASSUME NEW i \in 1 .. c, i < p PROVE new[i] = keys[i]
    BY <2>1, <2>3, InsertAtBefore DEF new
  <2>4. ASSUME NEW i \in 1 .. c, i >= p PROVE new[i + 1] = keys[i]
    BY <2>2, <2>4, InsertAtBehind DEF new
  <2>5. new[p] = k
    BY InsertAtHere DEF new
  <2> QED BY <2>3, <2>4, <2>5
<1> HIDE DEF new
<1>3. /\ IsFiniteSet(1 .. c) /\ DOMAIN f = 1 .. c /\ \A i \in 1 .. c : f[i] \in Nat
      /\ IsFiniteSet(1 .. c + 1) /\ DOMAIN g = 1 .. c + 1 /\ \A i \in 1 .. c + 1 : g[i] \in Nat
  BY <1>1, SpacesNat, FS_Interval
<1>4. /\ \A i \in 1 .. c : i < p => g[i] = f[i]
      /\ \A i \in 1 .. c : i >= p => g[i + 1] = f[i]
      /\ g[p] = OneSpace(leaf, k)
  BY <1>1, <1>2 DEF CellSpaces, OneSpace
<1> HIDE DEF f, g
<1>5. Total(u) = Total(f)
  <2>1. b \in [DOMAIN f -> DOMAIN u]
    BY <1>1, <1>3
  <2>2. \A i, j \in DOMAIN f : b[i] = b[j] => i = j
    BY <1>1, <1>3
  <2>3. ASSUME NEW j \in DOMAIN u PROVE \E i \in DOMAIN f : b[i] = j
    <3>1. CASE j < p
      <4>1. j \in 1 .. c /\ b[j] = j
        BY <3>1, <1>1
      <4> QED BY <4>1, <1>3
    <3>2. CASE ~(j < p)
      <4>1. j - 1 \in 1 .. c /\ ~(j - 1 < p) /\ (j - 1) + 1 = j
        BY <3>2, <1>1
      <4>2. b[j - 1] = j
        BY <4>1
      <4> QED BY <4>1, <4>2, <1>3
    <3> QED BY <3>1, <3>2
  <2>4. \A i \in DOMAIN f : u[b[i]] = f[i]
    <3> SUFFICES ASSUME NEW i \in DOMAIN f PROVE u[b[i]] = f[i]
      OBVIOUS
    <3>1. b[i] \in DOMAIN u
      BY <2>1
    <3>2. u[b[i]] = g[b[i]]
      BY <3>1
    <3>3. CASE i < p
      BY <3>2, <3>3, <1>3, <1>4
    <3>4. CASE ~(i < p)
      <4>1. i >= p /\ b[i] = i + 1
        BY <3>4, <1>1, <1>3
      <4> QED BY <3>2, <4>1, <1>3, <1>4
    <3> QED BY <3>3, <3>4
  <2>5. \A j \in DOMAIN u : u[j] \in Nat
    BY <1>3
  <2> HIDE DEF u, b
  <2> QED BY <2>1, <2>2, <2>3, <2>4, <1>3, TotalRenamed
<1>6. Total(g) = Total(u) + g[p]
  <2>1. IsFiniteSet(DOMAIN u) /\ DOMAIN u = (1 .. c + 1) \ {p}
    BY <1>3, FS_RemoveElement
  <2>2. p \notin DOMAIN u /\ DOMAIN g = DOMAIN u \cup {p}
    BY <2>1, <1>1, <1>3
  <2>3. \A i \in DOMAIN u : u[i] \in Nat /\ g[i] = u[i]
    BY <1>3
  <2>4. g[p] \in Nat
    BY <1>1, <1>3
  <2> HIDE DEF u
  <2> QED BY <2>1, <2>2, <2>3, <2>4, TotalAdd
<1> QED BY <1>4, <1>5, <1>6 DEF SpaceIn, f, g, new

(* Space of a single cell.                                                 *)
LEMMA SpaceOne ==
  ASSUME NEW leaf \in BOOLEAN, NEW keys \in Seq(Key), Len(keys) = 1
  PROVE  SpaceIn(leaf, keys) = OneSpace(leaf, keys[1])
<1> DEFINE f == [i \in {} |-> 0]  g == CellSpaces(leaf, keys)
<1>1. DOMAIN g = {1} /\ g[1] \in Nat /\ g[1] = OneSpace(leaf, keys[1])
  <2>1. DOMAIN g = 1 .. 1 /\ \A i \in 1 .. 1 : g[i] \in Nat
    BY SpacesNat
  <2>2. 1 .. 1 = {1}
    OBVIOUS
  <2>3. g[1] = OneSpace(leaf, keys[1])
    BY <2>2 DEF CellSpaces, OneSpace
  <2> HIDE DEF g
  <2> QED BY <2>1, <2>2, <2>3
<1>2. DOMAIN f = {} /\ IsFiniteSet(DOMAIN f)
  BY FS_EmptySet
<1> HIDE DEF f, g
<1>3. Total(g) = Total(f) + g[1]
  BY <1>1, <1>2, TotalAdd
<1>4. Total(f) = 0
  BY <1>2, TotalEmpty
<1> QED BY <1>1, <1>3, <1>4 DEF SpaceIn, g

(* The space of the cells of a page is that of its two halves.             *)
Cut(keys, l, r) ==
  /\ Len(l) + Len(r) = Len(keys)
  /\ \A i \in 1 .. Len(l) : l[i] = keys[i]
  /\ \A i \in 1 .. Len(r) : r[i] = keys[Len(l) + i]

(* Both halves take the space of the whole.                                *)
LEMMA SpaceCut ==
  ASSUME NEW leaf \in BOOLEAN, NEW keys \in Seq(Key), NEW l \in Seq(Key), NEW r \in Seq(Key),
         Cut(keys, l, r)
  PROVE  SpaceIn(leaf, keys) = SpaceIn(leaf, l) + SpaceIn(leaf, r)
<1> DEFINE c == Len(keys)  a == Len(l)  b == Len(r)
           h == CellSpaces(leaf, keys)  f == CellSpaces(leaf, l)  g == CellSpaces(leaf, r)
           u == [i \in (a + 1) .. c |-> h[i]]
           m == [i \in 1 .. b |-> a + i]
<1>1. a \in Nat /\ b \in Nat /\ c \in Nat /\ a + b = c
  BY DEF Cut
<1>2. /\ IsFiniteSet(1 .. c) /\ DOMAIN h = 1 .. c /\ \A i \in 1 .. c : h[i] \in Nat
      /\ IsFiniteSet(1 .. a) /\ DOMAIN f = 1 .. a /\ \A i \in 1 .. a : f[i] \in Nat
      /\ IsFiniteSet(1 .. b) /\ DOMAIN g = 1 .. b /\ \A i \in 1 .. b : g[i] \in Nat
  BY <1>1, SpacesNat, FS_Interval
<1>3. /\ \A i \in 1 .. a : f[i] = h[i]
      /\ \A i \in 1 .. b : g[i] = h[a + i]
  BY <1>1 DEF Cut, CellSpaces
<1> HIDE DEF h, f, g, a, b, c
<1>4. Total(u) = Total(g)
  <2>1. m \in [DOMAIN g -> DOMAIN u]
    BY <1>1, <1>2
  <2>2. \A i, j \in DOMAIN g : m[i] = m[j] => i = j
    BY <1>1, <1>2
  <2>3. ASSUME NEW j \in DOMAIN u PROVE \E i \in DOMAIN g : m[i] = j
    <3>1. j - a \in 1 .. b /\ a + (j - a) = j
      BY <1>1
    <3> QED BY <3>1, <1>2
  <2>4. \A i \in DOMAIN g : u[m[i]] = g[i]
    <3> SUFFICES ASSUME NEW i \in DOMAIN g PROVE u[m[i]] = g[i]
      OBVIOUS
    <3>1. i \in 1 .. b /\ a + i \in (a + 1) .. c /\ m[i] = a + i
      BY SMTT(30), <1>1, <1>2
    <3> QED BY <3>1, <1>3
  <2> HIDE DEF u, m
  <2> QED BY <2>1, <2>2, <2>3, <2>4, <1>2, TotalRenamed
<1>5. Total(h) = Total(f) + Total(u)
  <2>1. DOMAIN h = DOMAIN f \cup DOMAIN u /\ DOMAIN f \cap DOMAIN u = {}
    BY <1>1, <1>2
  <2>2. \A i \in DOMAIN f : f[i] = h[i]
    BY <1>2, <1>3
  <2>3. \A i \in DOMAIN u : u[i] = h[i]
    OBVIOUS
  <2> HIDE DEF u
  <2> QED BY <2>1, <2>2, <2>3, <1>2, TotalSplit
<1> QED BY <1>4, <1>5 DEF SpaceIn, h, f, g

(* In an internal page all cells take the same space.                      *)
LEMMA SpaceInternal ==
  ASSUME NEW keys \in Seq(Key)
  PROVE  SpaceIn(FALSE, keys) = Len(keys) * InternalSpace
<1> DEFINE f(k) == [i \in 1 .. k |-> InternalSpace]
           S == {k \in Nat : Total(f(k)) = k * InternalSpace}
<1>0. InternalSpace \in Nat
  BY Numbers
<1>1. 0 \in S
  <2>1. DOMAIN f(0) = {}
    OBVIOUS
  <2>2. Total(f(0)) = 0
    BY <2>1, TotalEmpty
  <2> QED BY <2>2, <1>0
<1>2. ASSUME NEW k \in Nat, k \in S PROVE k + 1 \in S
  <2> DEFINE u == f(k)  v == f(k + 1)
  <2>1. /\ DOMAIN u = 1 .. k /\ DOMAIN v = 1 .. k + 1 /\ v[k + 1] = InternalSpace
        /\ \A i \in 1 .. k : u[i] = InternalSpace /\ v[i] = InternalSpace
    OBVIOUS
  <2>2. IsFiniteSet(1 .. k) /\ k + 1 \notin 1 .. k /\ 1 .. k + 1 = (1 .. k) \cup {k + 1}
    <3>1. IsFiniteSet(1 .. k)
      BY 1 \in Int /\ k \in Int, FS_Interval
    <3>2. k + 1 \notin 1 .. k /\ 1 .. k + 1 = (1 .. k) \cup {k + 1}
      OBVIOUS
    <3> QED BY <3>1, <3>2
  <2>3. Total(v) = Total(u) + v[k + 1]
    <3> HIDE DEF u, v
    <3> QED BY <2>1, <2>2, <1>0, TotalAdd
  <2>4. Total(v) = k * InternalSpace + InternalSpace
    <3>1. Total(u) = k * InternalSpace
      BY <1>2
    <3> HIDE DEF u, v
    <3> QED BY <3>1, <2>1, <2>3
  <2>5. (k + 1) * InternalSpace = k * InternalSpace + InternalSpace
    BY <1>0
  <2> QED BY <2>4, <2>5
<1>3. Nat \subseteq S
  <2> HIDE DEF S
  <2> QED BY <1>1, <1>2, SetInduction
<1>4. CellSpaces(FALSE, keys) = f(Len(keys)) /\ Len(keys) \in Nat
  BY DEF CellSpaces
<1> QED BY <1>3, <1>4 DEF SpaceIn

-----------------------------------------------------------------------------
(* The room of a page is right: for a leaf it is just what its cells       *)
(* leave, for an internal page no more than that.                          *)
RoomFits(n) ==
  IF n.leaf THEN n.room + SpaceOf(n) = PageSpace /\ n.gap <= PageSpace
  ELSE n.room + SpaceOf(n) <= PageSpace /\ n.gap + SpaceOf(n) <= PageSpace

(* A cell of key k and child c put in front of the cell p of page n.       *)
Gains(n, m, p, k, c) ==
  /\ m \in PageRec /\ m.leaf = n.leaf /\ m.next = n.next
  /\ m.keys = InsertAt(n.keys, p, k)
  /\ m.kids = IF n.leaf THEN n.kids ELSE InsertAt(n.kids, p + 1, c)

(* When insert_cell() refuses a cell, and why.                             *)
LEMMA InsertRefused ==
  ASSUME NEW n \in PageRec, NEW k \in Key, NEW c
  PROVE  /\ InsertCell(n, k, c).res \in {"full", "exists", "overflow", "ok"}
         /\ n.leaf => InsertCell(n, k, c).res # "overflow"
         /\ n.leaf /\ InsertCell(n, k, c).res = "full" => n.room < RowSpace[k]
         /\ InsertCell(n, k, c).res = "exists" => k \in KeysIn(n)
         /\ n.leaf /\ InsertCell(n, k, c).res = "exists" => InsertCell(n, k, c).node = n
<1> DEFINE s == Space(n, k)
<1>1. n.room \in Nat /\ n.gap \in Nat /\ s \in Nat /\ n.leaf \in BOOLEAN /\ (n.leaf => s = RowSpace[k])
  BY RecFields, Numbers DEF Space
<1>2. KeySet(n) = KeysIn(n)
  BY KeySetIs
<1> HIDE DEF s
<1>3. CASE n.leaf
  <2>1. InsertCell(n, k, c).res = IF n.room < s THEN "full" ELSE IF k \in KeySet(n) THEN "exists" ELSE "ok"
    BY <1>1, <1>3 DEF InsertCell, s
  <2>2. ~(n.room < s) /\ k \in KeySet(n) => InsertCell(n, k, c).node = n
    BY <1>1, <1>3 DEF InsertCell, s
  <2> QED BY <2>1, <2>2, <1>1, <1>2, <1>3
<1>4. CASE ~n.leaf
  <2>1. InsertCell(n, k, c).res = IF ~(n.gap >= s) /\ n.room < s THEN "full"
                                  ELSE IF k \in KeySet(n) THEN "exists"
                                  ELSE IF n.room < s THEN "overflow" ELSE "ok"
    BY <1>1, <1>4 DEF InsertCell, s
  <2> QED BY <2>1, <1>1, <1>2, <1>4
<1> QED BY <1>1, <1>3, <1>4

(* A cell that insert_cell() takes is at the place the search found, and   *)
(* its space is taken from the room that was there.                        *)
LEMMA InsertGains ==
  ASSUME NEW n \in PageRec, RoomFits(n), NEW k \in Key, NEW c \in Nat \cup {Null},
         n.leaf \/ (c \in Nat /\ Len(n.kids) = Len(n.keys) + 1),
         Below(n, k) \in 0 .. Len(n.keys),
         InsertCell(n, k, c).res = "ok"
  PROVE  /\ Gains(n, InsertCell(n, k, c).node, Below(n, k) + 1, k, c)
         /\ RoomFits(InsertCell(n, k, c).node)
         /\ k \notin KeysIn(n)
<1> DEFINE s == Space(n, k)  r == InsertCell(n, k, c)  p == Below(n, k) + 1
           exact == PageSpace - SpaceOf(n)
           fits == IF n.leaf THEN n.room >= s ELSE n.gap >= s
           g == IF fits \/ n.leaf THEN n.gap ELSE exact
           m == IF fits \/ n.leaf THEN n ELSE [n EXCEPT !.gap = exact]
           new == [leaf |-> n.leaf, keys |-> InsertAt(n.keys, p, k),
                   kids |-> IF n.leaf THEN n.kids ELSE InsertAt(n.kids, p + 1, c), next |-> n.next,
                   room |-> n.room - s, gap |-> IF n.leaf THEN g ELSE g - s]
<1>1. /\ n.room \in Nat /\ n.gap \in Nat /\ s \in Nat /\ n.leaf \in BOOLEAN
      /\ SpaceOf(n) \in Nat /\ PageSpace \in Nat
      /\ n.keys \in Seq(Key) /\ n.kids \in Seq(Nat) /\ n.next \in Nat \cup {Null}
      /\ Len(n.keys) \in Nat /\ Len(n.kids) \in Nat
  BY RecFields, Numbers, SpaceNat DEF Space
<1>2. n = [leaf |-> n.leaf, keys |-> n.keys, kids |-> n.kids, next |-> n.next, room |-> n.room, gap |-> n.gap]
  BY DEF PageRec
<1>3. m = [leaf |-> n.leaf, keys |-> n.keys, kids |-> n.kids, next |-> n.next, room |-> n.room, gap |-> g]
  BY <1>2
<1>4. r = IF ~fits /\ n.room < s THEN [res |-> "full", node |-> n]
          ELSE IF k \in KeySet(n) THEN [res |-> "exists", node |-> m]
          ELSE IF n.room < s THEN [res |-> "overflow", node |-> m]
          ELSE [res  |-> "ok",
                node |-> [m EXCEPT !.keys = InsertAt(@, p, k),
                                   !.kids = IF n.leaf THEN @ ELSE InsertAt(@, p + 1, c),
                                   !.room = @ - s,
                                   !.gap  = IF n.leaf THEN @ ELSE @ - s]]
  BY DEF InsertCell
<1>5. /\ k \notin KeySet(n) /\ ~(n.room < s)
      /\ r.node = [m EXCEPT !.keys = InsertAt(@, p, k),
                            !.kids = IF n.leaf THEN @ ELSE InsertAt(@, p + 1, c),
                            !.room = @ - s,
                            !.gap  = IF n.leaf THEN @ ELSE @ - s]
  <2> HIDE DEF m, fits, p, s
  <2> QED BY <1>4
<1>6. r.node = new
  <2> HIDE DEF p, s, g, r, m, fits
  <2> QED BY <1>3, <1>5 DEF new
<1>7. k \notin KeysIn(n)
  BY <1>5, KeySetIs
<1>8. (g \in Nat /\ g >= s) \/ n.leaf
  <2>1. CASE n.leaf
    BY <2>1
  <2>2. CASE ~n.leaf
    <3>1. n.room + SpaceOf(n) <= PageSpace
      BY <2>2 DEF RoomFits
    <3>2. ~(n.room < s)
      BY <1>5
    <3>3. exact \in Nat /\ exact >= s
      <4> HIDE DEF s
      <4> QED BY ONLY <3>1, <3>2, <1>1 DEF exact
    <3>4. fits => n.gap >= s
      BY <2>2
    <3> HIDE DEF s, exact, fits
    <3> QED BY <3>3, <3>4, <2>2, <1>1 DEF g
  <2> QED BY <2>1, <2>2
<1>9. new \in PageRec
  <2>1. InsertAt(n.keys, p, k) \in Seq(Key)
    <3>1. p \in 1 .. Len(n.keys) + 1
      BY <1>1
    <3> QED BY <3>1, <1>1, InsertAtSeq
  <2>2. (IF n.leaf THEN n.kids ELSE InsertAt(n.kids, p + 1, c)) \in Seq(Nat)
    <3>1. CASE n.leaf
      BY <3>1, <1>1
    <3>2. CASE ~n.leaf
      <4>1. p + 1 \in 1 .. Len(n.kids) + 1 /\ c \in Nat
        <5>1. Len(n.kids) = Len(n.keys) + 1 /\ c \in Nat
          BY <3>2
        <5>2. Below(n, k) \in 0 .. Len(n.keys) /\ Len(n.keys) \in Nat
          BY <1>1
        <5> QED BY ONLY <5>1, <5>2
      <4> QED BY <4>1, <3>2, <1>1, InsertAtSeq
    <3> QED BY <3>1, <3>2
  <2>3. n.room - s \in Nat
    <3> HIDE DEF s
    <3> QED BY <1>1, <1>5
  <2>4. (IF n.leaf THEN g ELSE g - s) \in Nat
    <3>1. CASE n.leaf
      BY <3>1, <1>1
    <3>2. CASE ~n.leaf
      <4> HIDE DEF s, g
      <4> QED BY <3>2, <1>1, <1>8
    <3> QED BY <3>1, <3>2
  <2> HIDE DEF s, g, p
  <2> QED BY <2>1, <2>2, <2>3, <2>4, <1>1 DEF PageRec
<1>10. SpaceOf(new) = SpaceOf(n) + s
  <2>1. p \in 1 .. Len(n.keys) + 1
    BY <1>1
  <2>2. SpaceIn(n.leaf, InsertAt(n.keys, p, k)) = SpaceIn(n.leaf, n.keys) + OneSpace(n.leaf, k)
    <3> HIDE DEF p
    <3> QED BY <2>1, <1>1, SpaceInsert
  <2>3. SpaceOf(new) = SpaceIn(new.leaf, new.keys) /\ SpaceOf(n) = SpaceIn(n.leaf, n.keys)
    <3> HIDE DEF new
    <3> QED BY <1>9, SpaceOfIs
  <2>4. s = OneSpace(n.leaf, k) /\ new.leaf = n.leaf /\ new.keys = InsertAt(n.keys, p, k)
    BY DEF Space, OneSpace
  <2> HIDE DEF new, s, p
  <2> QED BY <2>2, <2>3, <2>4
<1>11. Gains(n, new, p, k, c)
  <2>1. /\ new.leaf = n.leaf /\ new.next = n.next /\ new.keys = InsertAt(n.keys, p, k)
        /\ new.kids = IF n.leaf THEN n.kids ELSE InsertAt(n.kids, p + 1, c)
    OBVIOUS
  <2> HIDE DEF new, p
  <2> QED BY <2>1, <1>9 DEF Gains
<1>12. RoomFits(new)
  <2>1. new.leaf = n.leaf /\ new.room = n.room - s /\ new.gap = IF n.leaf THEN g ELSE g - s
    OBVIOUS
  <2>2. CASE n.leaf
    <3>1. n.room + SpaceOf(n) = PageSpace /\ n.gap <= PageSpace
      BY <2>2 DEF RoomFits
    <3>2. new.gap = n.gap
      BY <2>2
    <3> HIDE DEF new, s
    <3> QED BY <3>1, <3>2, <2>1, <2>2, <1>1, <1>5, <1>10 DEF RoomFits
  <2>3. CASE ~n.leaf
    <3>1. n.room + SpaceOf(n) <= PageSpace /\ n.gap + SpaceOf(n) <= PageSpace
      BY <2>3 DEF RoomFits
    <3>2. g + SpaceOf(n) <= PageSpace
      <4> HIDE DEF s
      <4> QED BY <3>1, <1>1
    <3>3. g \in Nat /\ g >= s
      BY <1>8, <2>3
    <3>4. ~new.leaf /\ new.room = n.room - s /\ new.gap = g - s
      BY <2>1, <2>3
    <3> HIDE DEF new, s, g
    <3>5. new.room + SpaceOf(new) <= PageSpace
      BY <3>1, <3>4, <1>1, <1>5, <1>10
    <3>6. new.gap + SpaceOf(new) <= PageSpace
      BY <3>2, <3>3, <3>4, <1>1, <1>10
    <3> QED BY <3>4, <3>5, <3>6 DEF RoomFits
  <2> QED BY <2>2, <2>3
<1> HIDE DEF new, r, p
<1> QED BY <1>6, <1>7, <1>11, <1>12 DEF r, p

-----------------------------------------------------------------------------
(* A sequence into which an element was put, at any of its places.         *)
LEMMA InsertAtAny ==
  ASSUME NEW S, NEW s \in Seq(S), NEW p \in 1 .. Len(s) + 1, NEW e \in S, NEW j \in 1 .. Len(s) + 1
  PROVE  InsertAt(s, p, e)[j] = IF j < p THEN s[j] ELSE IF j = p THEN e ELSE s[j - 1]
<1>1. Len(s) \in Nat /\ j \in Nat /\ p \in Nat
  OBVIOUS
<1>2. CASE j < p
  <2>1. j \in 1 .. p - 1
    BY <1>1, <1>2
  <2> QED BY <2>1, <1>2, InsertAtBefore
<1>3. CASE j = p
  BY <1>3, <1>1, InsertAtHere
<1>4. CASE j > p
  <2> DEFINE i == j - 1
  <2>1. i \in p .. Len(s) /\ i + 1 = j /\ ~(j < p) /\ j # p
    BY <1>1, <1>4
  <2> HIDE DEF i
  <2>2. InsertAt(s, p, e)[i + 1] = s[i]
    BY <2>1, InsertAtBehind
  <2> QED BY <2>1, <2>2 DEF i
<1> QED BY <1>1, <1>2, <1>3, <1>4

(* A key put into a leaf in front of the larger ones.                      *)
LEMMA LeafGains ==
  ASSUME NEW n, NEW m, NEW a \in Nat, NEW z \in Nat, PageFits(n, a, z), n.leaf,
         NEW k \in Key, a <= k, k < z, k \notin KeysIn(n), NEW c,
         Gains(n, m, Below(n, k) + 1, k, c)
  PROVE  PageFits(m, a, z) /\ KeysIn(m) = KeysIn(n) \cup {k} /\ Len(m.keys) = Len(n.keys) + 1
<1> DEFINE b == Below(n, k)  l == Len(n.keys)
<1>1. /\ n \in PageRec /\ l \in Nat /\ n.keys \in Seq(Key) /\ k \in Nat
      /\ \A i \in 1 .. l : n.keys[i] \in Nat /\ n.keys[i] \in Key
      /\ m \in PageRec /\ m.leaf /\ m.kids = n.kids /\ m.keys = InsertAt(n.keys, b + 1, k)
      /\ Len(n.kids) = 0
  <2>1. n \in PageRec /\ Len(n.kids) = 0
    BY DEF PageFits
  <2> QED BY <2>1, RecFields, Numbers DEF Gains
<1>2. b \in 0 .. l /\ \A i \in 1 .. l : n.keys[i] < k <=> i <= b
  BY <1>1, BelowFacts
<1> HIDE DEF b
<1>3. b + 1 \in 1 .. l + 1 /\ b \in Nat
  BY <1>1, <1>2
<1>4. m.keys \in Seq(Key) /\ Len(m.keys) = l + 1
  <2> DEFINE p == b + 1  s == n.keys
  <2>1. s \in Seq(Key) /\ p \in 1 .. Len(s) + 1
    BY <1>1, <1>3
  <2> HIDE DEF p, s
  <2>2. InsertAt(s, p, k) \in Seq(Key) /\ Len(InsertAt(s, p, k)) = Len(s) + 1
    BY <2>1, InsertAtSeq
  <2> QED BY <2>2, <1>1 DEF p, s
<1>5. ASSUME NEW i \in 1 .. b PROVE m.keys[i] = n.keys[i]
  <2>1. i \in 1 .. (b + 1) - 1
    BY <1>3
  <2> QED BY <2>1, <1>1, <1>3, InsertAtBefore
<1>6. m.keys[b + 1] = k
  BY <1>1, <1>3, InsertAtHere
<1>7. ASSUME NEW i \in b + 1 .. l PROVE m.keys[i + 1] = n.keys[i]
  <2> DEFINE p == b + 1  s == n.keys
  <2>1. s \in Seq(Key) /\ p \in 1 .. Len(s) + 1 /\ i \in p .. Len(s)
    BY <1>1, <1>3
  <2> HIDE DEF p, s
  <2>2. InsertAt(s, p, k)[i + 1] = s[i]
    BY <2>1, InsertAtBehind
  <2> QED BY <2>2, <1>1 DEF p, s
<1>8. \A i, j \in 1 .. l : i < j => n.keys[i] < n.keys[j]
  BY DEF PageFits, KeysRise
<1>9. \A i \in 1 .. l : i > b => k < n.keys[i]
  <2> SUFFICES ASSUME NEW i \in 1 .. l, i > b PROVE k < n.keys[i]
    OBVIOUS
  <2>1. ~(n.keys[i] < k)
    BY <1>2, <1>3
  <2>2. n.keys[i] # k
    BY DEF KeysIn
  <2> QED BY <2>1, <2>2, <1>1
(* every cell of the new leaf is the new one or one of the old             *)
<1>10. ASSUME NEW j \in 1 .. l + 1
       PROVE  \/ j <= b /\ j \in 1 .. l /\ m.keys[j] = n.keys[j] /\ n.keys[j] < k
              \/ j = b + 1 /\ m.keys[j] = k
              \/ j > b + 1 /\ j - 1 \in 1 .. l /\ m.keys[j] = n.keys[j - 1] /\ k < n.keys[j - 1]
  <2>1. CASE j <= b
    <3>1. j \in 1 .. b /\ j \in 1 .. l
      BY <2>1, <1>2, <1>1
    <3> QED BY <3>1, <2>1, <1>2, <1>5
  <2>2. CASE j = b + 1
    BY <2>2, <1>6
  <2>3. CASE j > b + 1
    <3>1. j - 1 \in b + 1 .. l /\ j - 1 \in 1 .. l /\ (j - 1) + 1 = j /\ j - 1 > b
      BY <2>3, <1>3, <1>1
    <3> QED BY <3>1, <2>3, <1>7, <1>9
  <2> QED BY <2>1, <2>2, <2>3, <1>3
<1>11. KeysRise(m)
  <2> SUFFICES ASSUME NEW i \in 1 .. l + 1, NEW j \in 1 .. l + 1, i < j PROVE m.keys[i] < m.keys[j]
    BY <1>4 DEF KeysRise
  <2>1. CASE j <= b
    <3>1. i <= b /\ i \in 1 .. l /\ j \in 1 .. l
      BY <2>1, <1>2, <1>1
    <3>2. m.keys[i] = n.keys[i] /\ m.keys[j] = n.keys[j]
      BY <2>1, <3>1, <1>10, <1>3
    <3> QED BY <3>1, <3>2, <1>8
  <2>2. CASE j = b + 1
    <3>1. i <= b
      BY <2>2, <1>3
    <3> QED BY <2>2, <3>1, <1>10, <1>3
  <2>3. CASE j > b + 1
    <3>0. j - 1 \in 1 .. l /\ m.keys[j] = n.keys[j - 1] /\ k < n.keys[j - 1]
      BY <2>3, <1>10, <1>3
    <3>1. CASE i <= b
      <4>1. i \in 1 .. l /\ m.keys[i] = n.keys[i] /\ n.keys[i] < k
        BY <3>1, <1>10, <1>3
      <4> QED BY SMTT(30), <4>1, <3>0, <1>1
    <3>2. CASE i = b + 1
      BY <3>2, <3>0, <1>6
    <3>3. CASE i > b + 1
      <4>1. i - 1 \in 1 .. l /\ m.keys[i] = n.keys[i - 1] /\ i - 1 < j - 1
        BY <3>3, <1>10, <1>3
      <4> QED BY <4>1, <3>0, <1>8
    <3> QED BY <3>1, <3>2, <3>3, <1>3
  <2> QED BY <2>1, <2>2, <2>3, <1>3
<1>12. ASSUME NEW j \in 1 .. l + 1 PROVE a <= m.keys[j] /\ m.keys[j] < z
  <2>1. \A i \in 1 .. l : a <= n.keys[i] /\ n.keys[i] < z
    BY DEF PageFits
  <2> QED BY <2>1, <1>10
<1>13. PageFits(m, a, z)
  <2>1. Len(m.kids) = 0
    BY <1>1
  <2> QED BY <2>1, <1>1, <1>4, <1>11, <1>12 DEF PageFits
<1>14. ASSUME NEW v \in KeysIn(m) PROVE v \in KeysIn(n) \cup {k}
  <2>1. PICK j \in 1 .. l + 1 : v = m.keys[j]
    BY <1>4 DEF KeysIn
  <2> QED BY <2>1, <1>10 DEF KeysIn
<1>15. ASSUME NEW v \in KeysIn(n) PROVE v \in KeysIn(m)
  <2>1. PICK i \in 1 .. l : v = n.keys[i]
    BY DEF KeysIn
  <2>2. CASE i <= b
    <3>1. i \in 1 .. b /\ i \in 1 .. l + 1
      BY <2>2, <1>1, <1>3
    <3> QED BY <3>1, <2>1, <1>5, <1>4 DEF KeysIn
  <2>3. CASE i > b
    <3>1. i \in b + 1 .. l /\ i + 1 \in 1 .. l + 1
      BY <2>3, <1>1, <1>3
    <3> QED BY <3>1, <2>1, <1>7, <1>4 DEF KeysIn
  <2> QED BY <2>2, <2>3, <1>3
<1>16. k \in KeysIn(m)
  BY <1>3, <1>6, <1>4 DEF KeysIn
<1> QED BY <1>4, <1>13, <1>14, <1>15, <1>16

(* A key and child put into an internal page go behind the place whose     *)
(* bounds the key is in.                                                   *)
LEMMA PlaceOfKey ==
  ASSUME NEW n, NEW a \in Nat, NEW z \in Nat, PageFits(n, a, z), ~n.leaf,
         NEW i \in 1 .. Len(n.kids), NEW k \in Key, Low(n, a, i) < k, k < High(n, z, i)
  PROVE  Below(n, k) + 1 = i /\ Below(n, k) \in 0 .. Len(n.keys) /\ k \notin KeysIn(n)
<1> DEFINE b == Below(n, k)  l == Len(n.keys)
<1>1. /\ n \in PageRec /\ l \in Nat /\ k \in Nat /\ Len(n.kids) = l + 1
      /\ \A j \in 1 .. l : n.keys[j] \in Nat
  <2>1. n \in PageRec /\ Len(n.kids) = l + 1
    BY DEF PageFits
  <2> QED BY <2>1, RecFields, Numbers
<1>2. b \in 0 .. l /\ \A j \in 1 .. l : n.keys[j] < k <=> j <= b
  BY <1>1, BelowFacts
<1> HIDE DEF b
<1>3. \A p, q \in 1 .. l : p < q => n.keys[p] < n.keys[q]
  BY DEF PageFits, KeysRise
<1>4. i > 1 => i - 1 \in 1 .. l /\ n.keys[i - 1] < k
  <2> SUFFICES ASSUME i > 1 PROVE i - 1 \in 1 .. l /\ n.keys[i - 1] < k
    OBVIOUS
  <2>1. i - 1 \in 1 .. l /\ i # 1
    BY <1>1
  <2> QED BY <2>1 DEF Low
<1>5. i <= l => i \in 1 .. l /\ k < n.keys[i]
  <2> SUFFICES ASSUME i <= l PROVE i \in 1 .. l /\ k < n.keys[i]
    OBVIOUS
  <2>1. i \in 1 .. l /\ i # Len(n.kids)
    BY <1>1
  <2> QED BY <2>1 DEF High
<1>6. i - 1 <= b
  <2>1. CASE i > 1
    BY <2>1, <1>2, <1>4
  <2>2. CASE ~(i > 1)
    BY <2>2, <1>1, <1>2
  <2> QED BY <2>1, <2>2
<1>7. b < i
  <2>1. CASE i <= l
    <3>1. ~(n.keys[i] < k)
      BY <2>1, <1>5, <1>1
    <3>2. ~(i <= b)
      BY <2>1, <3>1, <1>2, <1>5
    <3> QED BY <3>2, <1>2, <1>1
  <2>2. CASE ~(i <= l)
    BY <2>2, <1>1, <1>2
  <2> QED BY <2>1, <2>2
<1>8. k \notin KeysIn(n)
  <2> SUFFICES ASSUME NEW j \in 1 .. l, n.keys[j] = k PROVE FALSE
    BY DEF KeysIn
  <2>1. ~(j <= b) /\ j >= i /\ i <= l
    <3>1. ~(n.keys[j] < k)
      BY <1>1
    <3>2. ~(j <= b)
      BY <3>1, <1>2
    <3> QED BY <3>2, <1>1, <1>2, <1>6
  <2>2. k < n.keys[i] /\ i \in 1 .. l
    BY <2>1, <1>5
  <2>3. i < j => n.keys[i] < n.keys[j]
    BY <2>2, <1>3
  <2>4. i = j \/ i < j
    BY <2>1, <1>1
  <2> QED BY <2>2, <2>3, <2>4, <1>1
<1>9. b + 1 = i
  BY <1>1, <1>2, <1>6, <1>7
<1> QED BY <1>2, <1>8, <1>9 DEF b

(* An internal page that takes a cell adopts the child.                    *)
LEMMA NodeGains ==
  ASSUME NEW n, NEW m, NEW a \in Nat, NEW z \in Nat, PageFits(n, a, z), ~n.leaf,
         NEW i \in 1 .. Len(n.kids), NEW k \in Key, NEW c \in Nat, Gains(n, m, i, k, c)
  PROVE  Adopts(n, m, i, k, c)
<1> DEFINE l == Len(n.keys)
<1>1. n \in PageRec /\ l \in Nat /\ n.keys \in Seq(Key) /\ n.kids \in Seq(Nat) /\ Len(n.kids) = l + 1
  <2>1. n \in PageRec /\ Len(n.kids) = l + 1
    BY DEF PageFits
  <2> QED BY <2>1, RecFields
<1>2. /\ m \in PageRec /\ m.leaf = FALSE /\ m.next = n.next
      /\ m.keys = InsertAt(n.keys, i, k) /\ m.kids = InsertAt(n.kids, i + 1, c)
  <2>1. n.leaf = FALSE
    BY <1>1, RecFields
  <2> QED BY <2>1 DEF Gains
<1>3. i \in 1 .. l + 1 /\ i + 1 \in 1 .. Len(n.kids) + 1
  BY <1>1
<1>4. /\ Len(m.keys) = l + 1
      /\ \A j \in 1 .. l + 1 : m.keys[j] = IF j < i THEN n.keys[j] ELSE IF j = i THEN k ELSE n.keys[j - 1]
  <2> DEFINE s == n.keys
  <2>1. s \in Seq(Key) /\ i \in 1 .. Len(s) + 1 /\ m.keys = InsertAt(s, i, k)
    BY <1>1, <1>2, <1>3
  <2> HIDE DEF s
  <2>2. ASSUME NEW j \in 1 .. Len(s) + 1
        PROVE  InsertAt(s, i, k)[j] = IF j < i THEN s[j] ELSE IF j = i THEN k ELSE s[j - 1]
    BY <2>1, InsertAtAny
  <2>3. Len(InsertAt(s, i, k)) = Len(s) + 1
    BY <2>1, InsertAtSeq
  <2> QED BY <2>1, <2>2, <2>3 DEF s
<1>5. /\ Len(m.kids) = Len(n.kids) + 1
      /\ \A j \in 1 .. Len(n.kids) + 1 :
           m.kids[j] = IF j < i + 1 THEN n.kids[j] ELSE IF j = i + 1 THEN c ELSE n.kids[j - 1]
  <2> DEFINE s == n.kids  p == i + 1
  <2>1. s \in Seq(Nat) /\ p \in 1 .. Len(s) + 1 /\ c \in Nat /\ m.kids = InsertAt(s, p, c)
    BY <1>1, <1>2, <1>3
  <2> HIDE DEF s, p
  <2>2. ASSUME NEW j \in 1 .. Len(s) + 1
        PROVE  InsertAt(s, p, c)[j] = IF j < p THEN s[j] ELSE IF j = p THEN c ELSE s[j - 1]
    BY <2>1, InsertAtAny
  <2>3. Len(InsertAt(s, p, c)) = Len(s) + 1
    BY <2>1, InsertAtSeq
  <2> QED BY <2>1, <2>2, <2>3 DEF s, p
<1>6. \A j \in 1 .. Len(n.kids) + 1 : j < i + 1 <=> j <= i
  BY <1>1
<1> QED BY <1>2, <1>4, <1>5, <1>6 DEF Adopts

-----------------------------------------------------------------------------
(* What a sequence lost can be put back.                                   *)
LEMMA PutBack ==
  ASSUME NEW S, NEW s \in Seq(S), NEW i \in 1 .. Len(s)
  PROVE  InsertAt(RemoveAt(s, i), i, s[i]) = s
<1> DEFINE u == RemoveAt(s, i)  v == InsertAt(u, i, s[i])
<1>1. Len(s) \in Nat /\ i \in Nat /\ s[i] \in S
  OBVIOUS
<1>2. u \in Seq(S) /\ Len(u) = Len(s) - 1
  BY RemoveAtSeq
<1>3. /\ \A j \in 1 .. i - 1 : u[j] = s[j]
      /\ \A j \in i .. Len(s) - 1 : u[j] = s[j + 1]
  BY RemoveAtBefore, RemoveAtBehind
<1> HIDE DEF u
<1>4. i \in 1 .. Len(u) + 1
  BY <1>1, <1>2
<1>5. v \in Seq(S) /\ Len(v) = Len(u) + 1
  BY <1>1, <1>2, <1>4, InsertAtSeq
<1>6. ASSUME NEW j \in 1 .. Len(u) + 1
      PROVE  v[j] = IF j < i THEN u[j] ELSE IF j = i THEN s[i] ELSE u[j - 1]
  BY <1>1, <1>2, <1>4, InsertAtAny
<1> HIDE DEF v
<1>7. ASSUME NEW j \in 1 .. Len(s) PROVE v[j] = s[j]
  <2>1. j \in 1 .. Len(u) + 1
    BY <1>1, <1>2
  <2>2. CASE j < i
    <3>1. j \in 1 .. i - 1
      BY <2>2, <1>1
    <3> QED BY <2>1, <2>2, <3>1, <1>6, <1>3
  <2>3. CASE j = i
    BY <2>1, <2>3, <1>6
  <2>4. CASE j > i
    <3>1. j - 1 \in i .. Len(s) - 1 /\ (j - 1) + 1 = j /\ ~(j < i) /\ j # i
      BY <2>4, <1>1
    <3> QED BY <2>1, <3>1, <1>6, <1>3
  <2> QED BY <2>2, <2>3, <2>4, <1>1
<1>8. Len(v) = Len(s)
  BY <1>1, <1>2, <1>5
<1>9. v = s
  BY <1>5, <1>7, <1>8, SeqEqual
<1> QED BY <1>9 DEF v, u

(* A cell taken out of a leaf gives its space back.                        *)
LEMMA LeafLoses ==
  ASSUME NEW n, NEW a \in Nat, NEW z \in Nat, PageFits(n, a, z), n.leaf, RoomFits(n),
         NEW k \in KeysIn(n), NEW m, m = DeleteCell(n, Below(n, k) + 1)
  PROVE  /\ PageFits(m, a, z) /\ RoomFits(m)
         /\ m.leaf /\ m.kids = n.kids /\ m.next = n.next
         /\ KeysIn(m) = KeysIn(n) \ {k}
<1> DEFINE l == Len(n.keys)  b == Below(n, k)  i == b + 1  s == Space(n, n.keys[i])
<1>1. /\ n \in PageRec /\ l \in Nat /\ n.keys \in Seq(Key) /\ Len(n.kids) = 0
      /\ \A j \in 1 .. l : n.keys[j] \in Nat /\ n.keys[j] \in Key
      /\ n.room \in Nat /\ n.gap \in Nat /\ n.kids \in Seq(Nat) /\ n.next \in Nat \cup {Null}
  <2>1. n \in PageRec /\ Len(n.kids) = 0
    BY DEF PageFits
  <2> QED BY <2>1, RecFields, Numbers
<1>2. PICK x \in 1 .. l : n.keys[x] = k
  BY DEF KeysIn
<1>3. k \in Key /\ k \in Nat
  BY <1>1, <1>2
<1>4. b \in 0 .. l /\ \A j \in 1 .. l : n.keys[j] < k <=> j <= b
  BY <1>1, <1>3, BelowFacts
<1> HIDE DEF b
<1>5. \A p, q \in 1 .. l : p < q => n.keys[p] < n.keys[q]
  BY DEF PageFits, KeysRise
<1>6. x = i
  <2>1. ~(x <= b)
    BY <1>2, <1>3, <1>4
  <2>2. CASE b + 1 < x
    <3>1. b + 1 \in 1 .. l /\ ~(b + 1 <= b)
      BY <2>2, <1>1, <1>4
    <3>2. n.keys[b + 1] < n.keys[x]
      BY <3>1, <2>2, <1>5
    <3> QED BY <3>1, <3>2, <1>2, <1>4
  <2> QED BY <2>1, <2>2, <1>1, <1>4
<1>7. i \in 1 .. l /\ n.keys[i] = k /\ i # 0 /\ ~(i > l)
  BY <1>1, <1>2, <1>6
<1> HIDE DEF i
<1>8. s = RowSpace[k] /\ s \in Nat
  BY <1>3, <1>7, Numbers DEF Space
<1> HIDE DEF s
<1> DEFINE new == [leaf |-> n.leaf, keys |-> RemoveAt(n.keys, i), kids |-> n.kids, next |-> n.next,
                   room |-> n.room + s, gap |-> n.gap]
<1>9. m = new
  <2>1. n = [leaf |-> n.leaf, keys |-> n.keys, kids |-> n.kids, next |-> n.next, room |-> n.room, gap |-> n.gap]
    BY <1>1 DEF PageRec
  <2>2. m = DeleteCell(n, i)
    BY DEF i, b
  <2>3. m = [n EXCEPT !.keys = RemoveAt(@, i), !.kids = IF n.leaf THEN @ ELSE RemoveAt(@, i + 1),
                      !.room = @ + s, !.gap = IF n.leaf THEN @ ELSE @ + PtrSpace]
    BY <2>2, <1>7 DEF DeleteCell, Cells, s
  <2> QED BY <2>1, <2>3
<1>10. /\ RemoveAt(n.keys, i) \in Seq(Key) /\ Len(RemoveAt(n.keys, i)) = l - 1
       /\ \A j \in 1 .. i - 1 : RemoveAt(n.keys, i)[j] = n.keys[j]
       /\ \A j \in i .. l - 1 : RemoveAt(n.keys, i)[j] = n.keys[j + 1]
  <2> DEFINE u == n.keys
  <2>1. u \in Seq(Key) /\ i \in 1 .. Len(u)
    BY <1>1, <1>7
  <2> HIDE DEF u
  <2>2. RemoveAt(u, i) \in Seq(Key) /\ Len(RemoveAt(u, i)) = Len(u) - 1
    BY <2>1, RemoveAtSeq
  <2>3. ASSUME NEW j \in 1 .. i - 1 PROVE RemoveAt(u, i)[j] = u[j]
    BY <2>1, RemoveAtBefore
  <2>4. ASSUME NEW j \in i .. Len(u) - 1 PROVE RemoveAt(u, i)[j] = u[j + 1]
    BY <2>1, RemoveAtBehind
  <2> QED BY <2>2, <2>3, <2>4 DEF u
<1>11. /\ m.leaf /\ m.kids = n.kids /\ m.next = n.next /\ m.keys = RemoveAt(n.keys, i)
       /\ m.room = n.room + s /\ m.gap = n.gap /\ m \in PageRec
  <2>1. new \in PageRec
    <3>1. n.room + s \in Nat /\ n.leaf \in BOOLEAN
      BY <1>1, <1>8, RecFields
    <3> QED BY <3>1, <1>1, <1>10 DEF PageRec
  <2>2. /\ new.leaf = n.leaf /\ new.kids = n.kids /\ new.next = n.next
        /\ new.keys = RemoveAt(n.keys, i) /\ new.room = n.room + s /\ new.gap = n.gap
    OBVIOUS
  <2> HIDE DEF new
  <2> QED BY <1>9, <2>1, <2>2
<1>12. SpaceOf(n) = SpaceOf(m) + s
  <2> DEFINE u == RemoveAt(n.keys, i)
  <2>1. u \in Seq(Key) /\ i \in 1 .. Len(u) + 1
    BY <1>1, <1>7, <1>10
  <2>2. InsertAt(u, i, k) = n.keys
    BY <1>1, <1>7, PutBack
  <2> HIDE DEF u
  <2>3. SpaceIn(TRUE, InsertAt(u, i, k)) = SpaceIn(TRUE, u) + OneSpace(TRUE, k)
    BY <2>1, <1>3, SpaceInsert
  <2>4. SpaceOf(n) = SpaceIn(n.leaf, n.keys) /\ SpaceOf(m) = SpaceIn(m.leaf, m.keys)
    BY <1>1, <1>11, SpaceOfIs
  <2>5. m.keys = u /\ OneSpace(TRUE, k) = s
    BY <1>8, <1>11 DEF u, OneSpace
  <2>6. n.leaf = TRUE /\ m.leaf = TRUE
    BY <1>1, <1>11, RecFields
  <2> QED BY <2>2, <2>3, <2>4, <2>5, <2>6
<1>13. RoomFits(m)
  <2>1. n.room + SpaceOf(n) = PageSpace /\ n.gap <= PageSpace
    BY DEF RoomFits
  <2>2. SpaceOf(m) \in Nat
    BY <1>11, SpaceNat
  <2>3. m.room + SpaceOf(m) = PageSpace
    BY <2>1, <2>2, <1>1, <1>8, <1>11, <1>12
  <2> QED BY <2>1, <2>3, <1>11 DEF RoomFits
<1>14. Len(m.keys) = l - 1
  BY <1>10, <1>11
<1>15. ASSUME NEW j \in 1 .. l - 1
       PROVE  \/ j < i /\ j \in 1 .. l /\ m.keys[j] = n.keys[j]
              \/ j >= i /\ j + 1 \in 1 .. l /\ m.keys[j] = n.keys[j + 1]
  <2>1. CASE j < i
    <3>1. j \in 1 .. i - 1 /\ j \in 1 .. l
      BY <2>1, <1>1, <1>7
    <3> QED BY <2>1, <3>1, <1>10, <1>11
  <2>2. CASE j >= i
    <3>1. j \in i .. l - 1 /\ j + 1 \in 1 .. l
      BY <2>2, <1>1, <1>7
    <3> QED BY <2>2, <3>1, <1>10, <1>11
  <2> QED BY <2>1, <2>2, <1>1, <1>7
<1>16. KeysRise(m)
  <2> SUFFICES ASSUME NEW p \in 1 .. l - 1, NEW q \in 1 .. l - 1, p < q PROVE m.keys[p] < m.keys[q]
    BY <1>14 DEF KeysRise
  <2> DEFINE P == IF p < i THEN p ELSE p + 1  Q == IF q < i THEN q ELSE q + 1
  <2>1. P \in 1 .. l /\ Q \in 1 .. l /\ P < Q
    BY <1>1, <1>7
  <2>2. m.keys[p] = n.keys[P] /\ m.keys[q] = n.keys[Q]
    <3>1. CASE p < i /\ q < i
      <4>1. P = p /\ Q = q
        BY <3>1
      <4> HIDE DEF P, Q
      <4> QED BY SMTT(30), <3>1, <4>1, <1>15, <1>7
    <3>2. CASE p < i /\ q >= i
      <4>1. P = p /\ Q = q + 1
        BY <3>2, <1>7
      <4> HIDE DEF P, Q
      <4> QED BY <3>2, <4>1, <1>15, <1>7
    <3>3. CASE p >= i /\ q >= i
      <4>1. P = p + 1 /\ Q = q + 1
        BY <3>3, <1>7
      <4> HIDE DEF P, Q
      <4> QED BY <3>3, <4>1, <1>15, <1>7
    <3> QED BY <3>1, <3>2, <3>3, <1>7
  <2> HIDE DEF P, Q
  <2> QED BY <2>1, <2>2, <1>5
<1>17. PageFits(m, a, z)
  <2>1. \A j \in 1 .. l : a <= n.keys[j] /\ n.keys[j] < z
    BY DEF PageFits
  <2>2. ASSUME NEW j \in 1 .. l - 1 PROVE a <= m.keys[j] /\ m.keys[j] < z
    BY <2>1, <1>15
  <2>3. Len(m.kids) = 0
    BY <1>1, <1>11
  <2> QED BY <2>2, <2>3, <1>11, <1>14, <1>16 DEF PageFits
<1>18. ASSUME NEW v \in KeysIn(m) PROVE v \in KeysIn(n) \ {k}
  <2>1. PICK j \in 1 .. l - 1 : v = m.keys[j]
    BY <1>14 DEF KeysIn
  <2>2. CASE j < i
    <3>1. j \in 1 .. l /\ v = n.keys[j]
      BY <2>1, <2>2, <1>15, <1>7
    <3>2. n.keys[j] < n.keys[i]
      BY <3>1, <2>2, <1>5, <1>7
    <3>3. v # k
      <4>1. v < k /\ k \in Nat /\ v \in Nat
        BY <3>1, <3>2, <1>7, <1>1
      <4> QED BY ONLY <4>1
    <3> QED BY <3>1, <3>3 DEF KeysIn
  <2>3. CASE j >= i
    <3>1. j + 1 \in 1 .. l /\ v = n.keys[j + 1] /\ i < j + 1
      BY <2>1, <2>3, <1>15, <1>7
    <3>2. n.keys[i] < n.keys[j + 1]
      BY <3>1, <1>5, <1>7
    <3>3. v # k
      BY <3>1, <3>2, <1>7, <1>1
    <3> QED BY <3>1, <3>3 DEF KeysIn
  <2> QED BY <2>2, <2>3, <1>7
<1>19. ASSUME NEW v \in KeysIn(n), v # k PROVE v \in KeysIn(m)
  <2>1. PICK j \in 1 .. l : v = n.keys[j]
    BY DEF KeysIn
  <2>2. CASE j < i
    <3>1. j \in 1 .. l - 1 /\ j \in 1 .. i - 1
      BY <2>2, <1>1, <1>7
    <3> QED BY <3>1, <2>1, <1>10, <1>11, <1>14 DEF KeysIn
  <2>3. CASE j > i
    <3>1. j - 1 \in 1 .. l - 1 /\ j - 1 \in i .. l - 1 /\ (j - 1) + 1 = j
      BY <2>3, <1>1, <1>7
    <3>2. m.keys[j - 1] = v
      BY <3>1, <2>1, <1>10, <1>11
    <3> QED BY <3>1, <3>2, <1>14 DEF KeysIn
  <2> QED BY <2>1, <2>2, <2>3, <1>7, <1>19
<1> QED BY <1>11, <1>13, <1>17, <1>18, <1>19

-----------------------------------------------------------------------------
(* A page made of cells has the room its cells leave.                      *)
Links == Nat \cup {Null}

(* A page that a split makes.                                              *)
LEMMA NewPage ==
  ASSUME NEW leaf \in BOOLEAN, NEW keys \in Seq(Key), NEW kids \in Seq(Nat), NEW next \in Links,
         SpaceIn(leaf, keys) <= PageSpace, NEW n, n = Node(leaf, keys, kids, next)
  PROVE  /\ n \in PageRec /\ n.leaf = leaf /\ n.keys = keys /\ n.kids = kids /\ n.next = next
         /\ RoomFits(n) /\ SpaceOf(n) = SpaceIn(leaf, keys)
<1> DEFINE raw == [leaf |-> leaf, keys |-> keys, kids |-> kids, next |-> next,
                   room |-> PageSpace, gap |-> 0]
           s == SpaceIn(leaf, keys)
           e == PageSpace - s
           new == [leaf |-> leaf, keys |-> keys, kids |-> kids, next |-> next,
                   room |-> e, gap |-> IF leaf THEN 0 ELSE e]
<1>1. s \in Nat /\ PageSpace \in Nat /\ e \in Nat
  <2>1. s \in Nat /\ PageSpace \in Nat
    BY SpacesNat, Numbers
  <2> QED BY <2>1
<1>2. raw \in PageRec /\ raw.leaf = leaf /\ raw.keys = keys
  BY <1>1 DEF PageRec, Links
<1>3. SpaceOf(raw) = s
  <2> HIDE DEF raw
  <2> QED BY <1>2, SpaceOfIs
<1>4. n = [raw EXCEPT !.room = PageSpace - SpaceOf(raw),
                      !.gap = IF leaf THEN 0 ELSE PageSpace - SpaceOf(raw)]
  BY DEF Node
<1> HIDE DEF s
<1>5. n = new
  BY <1>3, <1>4
<1>6. new \in PageRec
  <2>1. (IF leaf THEN 0 ELSE e) \in Nat
    BY <1>1
  <2> HIDE DEF e
  <2> QED BY <1>1, <2>1 DEF PageRec, Links
<1>7. n.leaf = leaf /\ n.keys = keys /\ n.kids = kids /\ n.next = next /\ n.room = e /\ n.gap = IF leaf THEN 0 ELSE e
  BY <1>5
<1>8. SpaceOf(n) = s
  BY <1>5, <1>6, <1>7, SpaceOfIs DEF s
<1>9. n.room + SpaceOf(n) = PageSpace
  BY <1>1, <1>7, <1>8
<1>10. RoomFits(n)
  <2>1. CASE leaf
    <3>1. n.gap = 0 /\ n.leaf
      BY <2>1, <1>7
    <3>2. n.gap <= PageSpace
      BY <3>1, <1>1
    <3> QED BY <3>1, <3>2, <1>9 DEF RoomFits
  <2>2. CASE ~leaf
    <3>1. n.gap = n.room /\ ~n.leaf
      BY <2>2, <1>7
    <3>2. n.room + SpaceOf(n) <= PageSpace /\ n.gap + SpaceOf(n) <= PageSpace
      BY <3>1, <1>1, <1>9
    <3> QED BY <3>1, <3>2 DEF RoomFits
  <2> QED BY <2>1, <2>2
<1> QED BY <1>5, <1>6, <1>7, <1>8, <1>10 DEF s

(* A leaf that a row does not fit into has two cells at least: no row      *)
(* takes half a page.                                                      *)
LEMMA FullLeaf ==
  ASSUME NEW n \in PageRec, n.leaf, RoomFits(n), NEW k \in Key, n.room < RowSpace[k]
  PROVE  Len(n.keys) >= 2
<1>1. /\ n.leaf = TRUE /\ n.keys \in Seq(Key) /\ Len(n.keys) \in Nat /\ n.room \in Nat
      /\ \A i \in 1 .. Len(n.keys) : n.keys[i] \in Key
  BY RecFields
<1>2. /\ Half \in Nat /\ Half + Half <= PageSpace /\ PageSpace \in Nat
      /\ \A j \in Key : RowSpace[j] \in Nat /\ RowSpace[j] < Half
  BY Numbers
<1>3. n.room + SpaceOf(n) = PageSpace /\ SpaceOf(n) = SpaceIn(TRUE, n.keys)
  BY <1>1, SpaceOfIs DEF RoomFits
<1> DEFINE c == Len(n.keys)  s == SpaceIn(TRUE, n.keys)  x == RowSpace[k]
<1>6. x \in Nat /\ x < Half /\ n.room < x /\ n.room + s = PageSpace
  BY <1>2, <1>3
<1>7. s \in Nat => s >= Half
  <2> HIDE DEF s, x
  <2> QED BY <1>6, <1>1, <1>2
<1>4. c # 0
  <2> SUFFICES ASSUME c = 0 PROVE FALSE
    OBVIOUS
  <2>1. SpaceIn(TRUE, n.keys) = 0
    BY <1>1, SpaceNone
  <2>2. Half > 0
    <3> HIDE DEF s, x
    <3> QED BY <1>6, <1>2
  <2>3. s = 0
    BY <2>1
  <2> HIDE DEF s
  <2> QED BY <2>2, <2>3, <1>2, <1>7
<1>5. c # 1
  <2> SUFFICES ASSUME c = 1 PROVE FALSE
    OBVIOUS
  <2>1. SpaceIn(TRUE, n.keys) = OneSpace(TRUE, n.keys[1])
    BY <1>1, SpaceOne
  <2>2. n.keys[1] \in Key
    BY <1>1
  <2>3. OneSpace(TRUE, n.keys[1]) = RowSpace[n.keys[1]]
    BY DEF OneSpace
  <2>4. s \in Nat /\ s < Half
    BY <2>1, <2>2, <2>3, <1>2
  <2> HIDE DEF s
  <2> QED BY <2>4, <1>2, <1>7
<1> HIDE DEF c
<1>8. c \in Nat
  BY <1>1 DEF c
<1>9. c >= 2
  BY <1>4, <1>5, <1>8
<1> QED BY <1>9 DEF c

(* Where a page is cut.                                                    *)
LEMMA CutAt ==
  ASSUME NEW n, Len(n.keys) \in Nat, Len(n.keys) >= 2
  PROVE  KeptBySplit(n) \in 1 .. Len(n.keys) - 1
<1>1. \A c \in Nat : c >= 2 => (c + 1) \div 2 \in 1 .. c - 1
  OBVIOUS
<1> QED BY <1>1 DEF KeptBySplit, Cells

(* A part of a sequence.                                                   *)
LEMMA PartOf ==
  ASSUME NEW S, NEW s \in Seq(S), NEW i \in 1 .. Len(s) + 1, NEW j \in 0 .. Len(s), i <= j + 1
  PROVE  /\ SubSeq(s, i, j) \in Seq(S) /\ Len(SubSeq(s, i, j)) = (j - i) + 1
         /\ \A x \in 1 .. (j - i) + 1 : SubSeq(s, i, j)[x] = s[(x + i) - 1]
<1>1. i \in Int /\ j \in Int /\ Len(s) \in Nat
  OBVIOUS
<1>2. \A x \in i .. j : s[x] \in S
  <2> SUFFICES ASSUME NEW x \in i .. j PROVE s[x] \in S
    OBVIOUS
  <2>1. x \in 1 .. Len(s)
    BY <1>1
  <2> QED BY <2>1
<1>3. /\ SubSeq(s, i, j) \in Seq(S)
      /\ Len(SubSeq(s, i, j)) = IF i <= j THEN j - i + 1 ELSE 0
      /\ \A x \in 1 .. j - i + 1 : SubSeq(s, i, j)[x] = s[i + x - 1]
  BY SMTT(30), <1>1, <1>2, SubSeqProperties
<1>4. \A x \in 1 .. (j - i) + 1 : i + x - 1 = (x + i) - 1
  BY <1>1
<1>5. (IF i <= j THEN j - i + 1 ELSE 0) = (j - i) + 1 /\ j - i + 1 = (j - i) + 1
  BY <1>1
<1> QED BY <1>3, <1>4, <1>5

(* Entries of a part of a sequence.                                        *)
LEMMA PartAt ==
  ASSUME NEW S, NEW s \in Seq(S), NEW i \in 1 .. Len(s) + 1, NEW j \in 0 .. Len(s), i <= j + 1,
         NEW x \in 1 .. (j - i) + 1
  PROVE  SubSeq(s, i, j)[x] = s[(x + i) - 1]
BY PartOf

(* A part of a sequence.                                                   *)
LEMMA PartSeq ==
  ASSUME NEW S, NEW s \in Seq(S), NEW i \in 1 .. Len(s) + 1, NEW j \in 0 .. Len(s), i <= j + 1
  PROVE  SubSeq(s, i, j) \in Seq(S) /\ Len(SubSeq(s, i, j)) = (j - i) + 1
BY PartOf

-----------------------------------------------------------------------------
(* The two leaves a leaf is cut into.                                      *)
LEMMA LeafCut ==
  ASSUME NEW n, NEW a \in Nat, NEW z \in Nat, PageFits(n, a, z), n.leaf, RoomFits(n),
         Len(n.keys) >= 2, num \in Nat,
         NEW s, s = Split(n)
  PROVE  /\ s.first \in Key /\ a < s.first /\ s.first < z /\ s.first \in KeysIn(n)
         /\ PageFits(s.left, a, s.first) /\ PageFits(s.right, s.first, z)
         /\ RoomFits(s.left) /\ RoomFits(s.right)
         /\ s.left.leaf /\ s.right.leaf /\ s.left.next = num /\ s.right.next = n.next
         /\ Len(s.left.keys) >= 1 /\ Len(s.right.keys) >= 1
         /\ KeysIn(n) = KeysIn(s.left) \cup KeysIn(s.right)
<1> DEFINE c == Len(n.keys)  h == KeptBySplit(n)
           lk == SubSeq(n.keys, 1, h)  rk == SubSeq(n.keys, h + 1, c)
           kk == SubSeq(n.kids, h + 2, Len(n.kids))
           f == n.keys[h + 1]
           right == Node(n.leaf, rk, kk, n.next)
           left == [leaf |-> n.leaf, keys |-> lk, kids |-> n.kids, next |-> num,
                    room |-> n.room + SpaceOf(right), gap |-> n.gap]
<1>1. /\ n \in PageRec /\ c \in Nat /\ n.keys \in Seq(Key) /\ Len(n.kids) = 0 /\ n.leaf = TRUE
      /\ \A j \in 1 .. c : n.keys[j] \in Nat /\ n.keys[j] \in Key
      /\ n.room \in Nat /\ n.gap \in Nat /\ n.kids \in Seq(Nat) /\ n.next \in Nat \cup {Null}
  <2>1. n \in PageRec /\ Len(n.kids) = 0
    BY DEF PageFits
  <2> QED BY <2>1, RecFields, Numbers
<1>2. h \in 1 .. c - 1
  BY <1>1, CutAt
<1> HIDE DEF h
<1>3. /\ lk \in Seq(Key) /\ Len(lk) = h
      /\ \A x \in 1 .. h : lk[x] = n.keys[x]
  <2>1. 1 \in 1 .. Len(n.keys) + 1 /\ h \in 0 .. Len(n.keys) /\ 1 <= h + 1
    BY <1>1, <1>2
  <2>2. lk \in Seq(Key) /\ Len(lk) = (h - 1) + 1
    BY <1>1, <2>1, PartSeq
  <2>3. ASSUME NEW x \in 1 .. h PROVE lk[x] = n.keys[x]
    <3>1. x \in 1 .. (h - 1) + 1 /\ (x + 1) - 1 = x
      BY <1>2
    <3>2. lk[x] = n.keys[(x + 1) - 1]
      BY <1>1, <2>1, <3>1, PartAt
    <3> QED BY <3>1, <3>2
  <2>4. (h - 1) + 1 = h
    BY <1>2
  <2> QED BY <2>2, <2>3, <2>4
<1>4. /\ rk \in Seq(Key) /\ Len(rk) = c - h
      /\ \A x \in 1 .. c - h : rk[x] = n.keys[h + x]
  <2> DEFINE i == h + 1  k == n.keys
  <2>1. i \in 1 .. Len(k) + 1 /\ c \in 0 .. Len(k) /\ i <= c + 1 /\ (c - i) + 1 = c - h /\ k \in Seq(Key)
    BY <1>1, <1>2
  <2>2. rk = SubSeq(k, i, c) /\ \A x \in 1 .. c - h : (x + i) - 1 = h + x
    BY <1>1, <1>2
  <2> HIDE DEF i, k, c
  <2>3. SubSeq(k, i, c) \in Seq(Key) /\ Len(SubSeq(k, i, c)) = (c - i) + 1
    BY <2>1, PartSeq
  <2>4. ASSUME NEW x \in 1 .. (c - i) + 1 PROVE SubSeq(k, i, c)[x] = k[(x + i) - 1]
    BY <2>1, PartAt
  <2> QED BY <2>1, <2>2, <2>3, <2>4 DEF k
<1>5. kk = << >>
  <2>1. h + 2 \in Int /\ Len(n.kids) \in Int /\ Len(n.kids) < h + 2
    BY <1>1, <1>2
  <2> HIDE DEF h
  <2> QED BY <2>1, SubSeqEmpty
<1>6. s.first = f /\ s.right = right
      /\ s.left = [n EXCEPT !.keys = SubSeq(@, 1, h),
                            !.kids = IF n.leaf THEN @ ELSE SubSeq(@, 1, h + 1),
                            !.next = num,
                            !.room = @ + SpaceOf(right),
                            !.gap  = IF n.leaf THEN @ ELSE @ + PtrSpace * (Cells(n) - h)]
  BY <1>1 DEF Split, h, Cells
<1>7. s.left = left
  <2>1. n = [leaf |-> n.leaf, keys |-> n.keys, kids |-> n.kids, next |-> n.next, room |-> n.room, gap |-> n.gap]
    BY <1>1 DEF PageRec
  <2> HIDE DEF right
  <2> QED BY <2>1, <1>1, <1>6
<1>8. SpaceIn(TRUE, n.keys) = SpaceIn(TRUE, lk) + SpaceIn(TRUE, rk)
  <2>1. Cut(n.keys, lk, rk)
    BY <1>1, <1>2, <1>3, <1>4 DEF Cut
  <2> HIDE DEF lk, rk
  <2> QED BY <2>1, <1>1, <1>3, <1>4, SpaceCut
<1>9. SpaceIn(TRUE, lk) \in Nat /\ SpaceIn(TRUE, rk) \in Nat
  BY <1>3, <1>4, SpacesNat
<1>10. /\ n.room + SpaceIn(TRUE, n.keys) = PageSpace /\ n.gap <= PageSpace
       /\ SpaceIn(TRUE, rk) <= PageSpace /\ PageSpace \in Nat
  <2>1. SpaceOf(n) = SpaceIn(TRUE, n.keys) /\ n.room + SpaceOf(n) = PageSpace /\ n.gap <= PageSpace
    BY <1>1, SpaceOfIs DEF RoomFits
  <2>2. n.room + SpaceIn(TRUE, n.keys) = PageSpace /\ PageSpace \in Nat /\ n.room \in Nat
    BY <2>1, <1>1, Numbers
  <2>3. SpaceIn(TRUE, rk) <= PageSpace
    <3> DEFINE A == SpaceIn(TRUE, lk)  B == SpaceIn(TRUE, rk)  C == SpaceIn(TRUE, n.keys)
    <3>1. A \in Nat /\ B \in Nat /\ C = A + B /\ n.room + C = PageSpace
      BY <1>8, <1>9, <2>2
    <3> HIDE DEF A, B, C
    <3>2. B <= PageSpace
      BY ONLY <3>1, <2>2
    <3> QED BY <3>2 DEF B
  <2> QED BY <2>1, <2>2, <2>3
<1>11. /\ right \in PageRec /\ right.leaf /\ right.keys = rk /\ right.kids = << >>
       /\ right.next = n.next /\ RoomFits(right) /\ SpaceOf(right) = SpaceIn(TRUE, rk)
  <2> HIDE DEF rk, kk
  <2> DEFINE leaf == n.leaf
  <2>1. right = Node(leaf, rk, kk, n.next) /\ kk \in Seq(Nat) /\ leaf \in BOOLEAN
    BY <1>1, <1>5
  <2>4. leaf = TRUE
    BY <1>1
  <2> HIDE DEF right, leaf
  <2>2. rk \in Seq(Key) /\ n.next \in Links /\ SpaceIn(leaf, rk) <= PageSpace
    BY <1>1, <1>4, <1>10, <2>4 DEF Links
  <2>3. /\ right \in PageRec /\ right.leaf = leaf /\ right.keys = rk /\ right.kids = kk
        /\ right.next = n.next /\ RoomFits(right) /\ SpaceOf(right) = SpaceIn(leaf, rk)
    BY ONLY <2>1, <2>2, NewPage
  <2> QED BY <2>3, <2>4, <1>5
<1> HIDE DEF right, rk, lk
<1>12. /\ left.leaf /\ left.keys = lk /\ left.kids = n.kids /\ left.next = num
       /\ left.room = n.room + SpaceIn(TRUE, rk) /\ left.gap = n.gap /\ left \in PageRec
  <2>1. n.room + SpaceOf(right) \in Nat
    <3>1. n.room \in Nat /\ SpaceOf(right) \in Nat
      BY <1>1, <1>9, <1>11
    <3> QED BY <3>1
  <2>2. left \in PageRec
    BY <2>1, <1>1, <1>3 DEF PageRec
  <2> QED BY <2>2, <1>1, <1>11
<1> HIDE DEF left
<1>13. RoomFits(left)
  <2>1. SpaceOf(left) = SpaceIn(TRUE, lk)
    <3>1. left.leaf = TRUE
      BY <1>12, RecFields
    <3> QED BY <3>1, <1>12, SpaceOfIs
  <2>2. left.room + SpaceOf(left) = PageSpace
    <3> DEFINE A == SpaceIn(TRUE, lk)  B == SpaceIn(TRUE, rk)  C == SpaceIn(TRUE, n.keys)  D == n.room
    <3>1. A \in Nat /\ B \in Nat /\ C = A + B /\ D + C = PageSpace /\ D \in Nat
      BY <1>1, <1>8, <1>9, <1>10
    <3>2. left.room = D + B /\ SpaceOf(left) = A
      BY <2>1, <1>12
    <3> HIDE DEF A, B, C, D
    <3> QED BY ONLY <3>1, <3>2
  <2>3. left.gap <= PageSpace
    BY <1>10, <1>12
  <2> QED BY <2>2, <2>3, <1>12 DEF RoomFits
<1>14. \A p, q \in 1 .. c : p < q => n.keys[p] < n.keys[q]
  BY DEF PageFits, KeysRise
<1>15. \A j \in 1 .. c : a <= n.keys[j] /\ n.keys[j] < z
  BY DEF PageFits
<1>16. /\ f \in Key /\ f \in Nat /\ f < z /\ h + 1 \in 1 .. c /\ f \in KeysIn(n)
       /\ \A j \in 1 .. h : n.keys[j] < f
       /\ \A j \in 1 .. c - h : f <= n.keys[h + j]
  <2>1. h + 1 \in 1 .. c
    BY <1>1, <1>2
  <2>2. f \in Key /\ f \in Nat /\ f < z
    BY <2>1, <1>1, <1>15
  <2>3. ASSUME NEW j \in 1 .. h PROVE n.keys[j] < f
    <3>1. j \in 1 .. c /\ j < h + 1
      BY <1>1, <1>2
    <3> QED BY <3>1, <2>1, <1>14
  <2>4. ASSUME NEW j \in 1 .. c - h PROVE f <= n.keys[h + j]
    <3>1. h + j \in 1 .. c /\ (h + j = h + 1 \/ h + 1 < h + j)
      BY <1>1, <1>2
    <3>2. CASE h + j = h + 1
      BY <3>2, <2>2
    <3>3. CASE h + 1 < h + j
      <4>1. f < n.keys[h + j]
        BY <3>1, <3>3, <2>1, <1>14
      <4> QED BY SMTT(30), <4>1, <3>1, <2>2, <1>1
    <3> QED BY <3>1, <3>2, <3>3
  <2> QED BY <2>1, <2>2, <2>3, <2>4 DEF KeysIn
<1>17. a < f
  <2>1. 1 \in 1 .. c /\ 1 \in 1 .. h
    BY <1>1, <1>2
  <2>2. a <= n.keys[1] /\ n.keys[1] < f /\ n.keys[1] \in Nat
    BY <2>1, <1>15, <1>16, <1>1
  <2> QED BY <2>2, <1>16
<1> HIDE DEF f
<1>18. PageFits(left, a, f)
  <2>1. Len(left.keys) = h /\ \A x \in 1 .. h : left.keys[x] = n.keys[x] /\ x \in 1 .. c
    BY <1>1, <1>2, <1>3, <1>12
  <2>2. KeysRise(left)
    BY <2>1, <1>14 DEF KeysRise
  <2>3. \A x \in 1 .. h : a <= left.keys[x] /\ left.keys[x] < f
    BY <2>1, <1>15, <1>16
  <2>4. Len(left.kids) = 0
    BY <1>1, <1>12
  <2> QED BY <2>1, <2>2, <2>3, <2>4, <1>12 DEF PageFits
<1>19. PageFits(right, f, z)
  <2>1. Len(right.keys) = c - h /\ \A x \in 1 .. c - h : right.keys[x] = n.keys[h + x] /\ h + x \in 1 .. c
    BY <1>1, <1>2, <1>4, <1>11
  <2>2. KeysRise(right)
    <3> SUFFICES ASSUME NEW p \in 1 .. c - h, NEW q \in 1 .. c - h, p < q
                 PROVE  right.keys[p] < right.keys[q]
      BY <2>1 DEF KeysRise
    <3>1. h + p \in 1 .. c /\ h + q \in 1 .. c /\ h + p < h + q
      BY <1>1, <1>2
    <3>2. n.keys[h + p] < n.keys[h + q]
      BY <3>1, <1>14
    <3> QED BY <3>2, <2>1
  <2>3. \A x \in 1 .. c - h : f <= right.keys[x] /\ right.keys[x] < z
    BY <2>1, <1>15, <1>16
  <2>4. Len(right.kids) = 0
    BY <1>11
  <2> QED BY <2>1, <2>2, <2>3, <2>4, <1>11 DEF PageFits
<1>20. KeysIn(n) = KeysIn(left) \cup KeysIn(right)
  <2>1. Len(left.keys) = h /\ \A x \in 1 .. h : left.keys[x] = n.keys[x] /\ x \in 1 .. c
    BY <1>1, <1>2, <1>3, <1>12
  <2>2. Len(right.keys) = c - h /\ \A x \in 1 .. c - h : right.keys[x] = n.keys[h + x] /\ h + x \in 1 .. c
    BY <1>1, <1>2, <1>4, <1>11
  <2>3. ASSUME NEW v \in KeysIn(n) PROVE v \in KeysIn(left) \cup KeysIn(right)
    <3>1. PICK j \in 1 .. c : v = n.keys[j]
      BY DEF KeysIn
    <3>2. CASE j <= h
      <4>1. j \in 1 .. h
        BY <3>2, <1>2
      <4> QED BY <4>1, <3>1, <2>1 DEF KeysIn
    <3>3. CASE j > h
      <4>1. j - h \in 1 .. c - h /\ h + (j - h) = j
        BY <3>3, <1>1, <1>2
      <4>2. right.keys[j - h] = v
        BY <4>1, <3>1, <2>2
      <4> QED BY <4>1, <4>2, <2>2 DEF KeysIn
    <3> QED BY <3>2, <3>3, <1>2
  <2>4. ASSUME NEW v \in KeysIn(left) PROVE v \in KeysIn(n)
    BY <2>1 DEF KeysIn
  <2>5. ASSUME NEW v \in KeysIn(right) PROVE v \in KeysIn(n)
    BY <2>2 DEF KeysIn
  <2> QED BY <2>3, <2>4, <2>5
<1>21. Len(left.keys) >= 1 /\ Len(right.keys) >= 1
  BY SMTT(30), <1>1, <1>2, <1>3, <1>4, <1>11, <1>12
<1> QED BY <1>6, <1>7, <1>11, <1>12, <1>13, <1>16, <1>17, <1>18, <1>19, <1>20, <1>21

-----------------------------------------------------------------------------
(* A leaf that takes a row.                                                *)
LEMMA LeafTakes ==
  ASSUME NEW n, NEW a \in Nat, NEW z \in Nat, PageFits(n, a, z), n.leaf, RoomFits(n),
         NEW k \in Key, a <= k, k < z, NEW r, r = InsertCell(n, k, Null), r.res = "ok"
  PROVE  /\ PageFits(r.node, a, z) /\ RoomFits(r.node)
         /\ r.node.leaf /\ r.node.kids = n.kids /\ r.node.next = n.next
         /\ k \notin KeysIn(n) /\ KeysIn(r.node) = KeysIn(n) \cup {k}
         /\ Len(r.node.keys) = Len(n.keys) + 1
<1> DEFINE m == r.node
<1>1. n \in PageRec /\ k \in Nat
  BY Numbers DEF PageFits
<1>2. Below(n, k) \in 0 .. Len(n.keys)
  BY <1>1, BelowFacts
<1>3. Null \in Nat \cup {Null}
  OBVIOUS
<1>4. Gains(n, m, Below(n, k) + 1, k, Null) /\ RoomFits(m) /\ k \notin KeysIn(n)
  BY <1>1, <1>2, <1>3, InsertGains
<1>5. PageFits(m, a, z) /\ KeysIn(m) = KeysIn(n) \cup {k} /\ Len(m.keys) = Len(n.keys) + 1
  BY <1>4, LeafGains
<1>6. m.leaf /\ m.kids = n.kids /\ m.next = n.next
  BY <1>4 DEF Gains
<1> QED BY <1>4, <1>5, <1>6

(* Both pages of a leaf split with a row inserted, and the one it goes to. *)
SplitLeft(s, k, r)  == IF k < s.first THEN r.node ELSE s.left
SplitRight(s, k, r) == IF k < s.first THEN s.right ELSE r.node
SplitTarget(s, k)   == IF k < s.first THEN s.left ELSE s.right

(* The two leaves of a full one, with the new row in one of them.          *)
LeafDivided(n, a, z, k, f, l, r) ==
  /\ Halves(n, l, r, a, f, z, 0)
  /\ f \in Key /\ a < f /\ f < z
  /\ l.leaf /\ r.leaf /\ l.next = num
  /\ RoomFits(l) /\ RoomFits(r)
  /\ Len(l.keys) >= 1 /\ Len(r.keys) >= 1
  /\ KeysIn(l) \cup KeysIn(r) = KeysIn(n) \cup {k}

(* split_insert_leaf() divides a leaf rightly.                             *)
LEMMA LeafSplits ==
  ASSUME NEW n, NEW a \in Nat, NEW z \in Nat, PageFits(n, a, z), n.leaf, RoomFits(n),
         Len(n.keys) >= 2, num \in Nat, NEW k \in Key, a <= k, k < z,
         NEW s, s = Split(n), NEW r, r = InsertCell(SplitTarget(s, k), k, Null), r.res = "ok"
  PROVE  LeafDivided(n, a, z, k, s.first, SplitLeft(s, k, r), SplitRight(s, k, r))
<1> DEFINE f == s.first
<1>1. /\ f \in Key /\ a < f /\ f < z
      /\ PageFits(s.left, a, f) /\ PageFits(s.right, f, z)
      /\ RoomFits(s.left) /\ RoomFits(s.right)
      /\ s.left.leaf /\ s.right.leaf /\ s.left.next = num /\ s.right.next = n.next
      /\ Len(s.left.keys) >= 1 /\ Len(s.right.keys) >= 1
      /\ KeysIn(n) = KeysIn(s.left) \cup KeysIn(s.right)
  BY LeafCut
<1>2. f \in Nat /\ k \in Nat /\ n.leaf = TRUE
  <2>1. n \in PageRec
    BY DEF PageFits
  <2> QED BY <2>1, <1>1, RecFields, Numbers
<1>3. CASE k < f
  <2>1. r = InsertCell(s.left, k, Null)
    BY <1>3 DEF SplitTarget
  <2>2. /\ PageFits(r.node, a, f) /\ RoomFits(r.node)
        /\ r.node.leaf /\ r.node.next = num
        /\ KeysIn(r.node) = KeysIn(s.left) \cup {k}
        /\ Len(r.node.keys) = Len(s.left.keys) + 1
    BY SMTT(30), <2>1, <1>1, <1>2, <1>3, LeafTakes
  <2>3. SplitLeft(s, k, r) = r.node /\ SplitRight(s, k, r) = s.right
    BY <1>3 DEF SplitLeft, SplitRight
  <2>4. Len(r.node.keys) >= 1
    BY <1>1, <2>2, RecFields DEF PageFits
  <2>5. r.node.leaf = TRUE /\ s.right.leaf = TRUE
    BY <1>1, <2>2, RecFields DEF PageFits
  <2>6. Halves(n, r.node, s.right, a, f, z, 0)
    BY <1>1, <1>2, <2>2, <2>5 DEF Halves
  <2>7. KeysIn(r.node) \cup KeysIn(s.right) = KeysIn(n) \cup {k}
    BY <1>1, <2>2
  <2> QED BY <1>1, <2>2, <2>3, <2>4, <2>6, <2>7 DEF LeafDivided
<1>4. CASE ~(k < f)
  <2>1. r = InsertCell(s.right, k, Null) /\ f <= k
    BY <1>2, <1>4 DEF SplitTarget
  <2>2. /\ PageFits(r.node, f, z) /\ RoomFits(r.node)
        /\ r.node.leaf /\ r.node.next = n.next
        /\ KeysIn(r.node) = KeysIn(s.right) \cup {k}
        /\ Len(r.node.keys) = Len(s.right.keys) + 1
    BY <2>1, <1>1, <1>2, LeafTakes
  <2>3. SplitLeft(s, k, r) = s.left /\ SplitRight(s, k, r) = r.node
    BY <1>4 DEF SplitLeft, SplitRight
  <2>4. Len(r.node.keys) >= 1
    BY <1>1, <2>2, RecFields DEF PageFits
  <2>5. r.node.leaf = TRUE /\ s.left.leaf = TRUE
    BY <1>1, <2>2, RecFields DEF PageFits
  <2>6. Halves(n, s.left, r.node, a, f, z, 0)
    BY <1>1, <1>2, <2>2, <2>5 DEF Halves
  <2>7. KeysIn(s.left) \cup KeysIn(r.node) = KeysIn(n) \cup {k}
    BY <1>1, <2>2
  <2> QED BY <1>1, <2>2, <2>3, <2>4, <2>6, <2>7 DEF LeafDivided
<1> QED BY <1>3, <1>4

-----------------------------------------------------------------------------
(* What the cells of an internal page take when it is cut.                 *)
LEMMA CutNumbers ==
  ASSUME NEW h \in Nat, NEW d \in Nat, NEW i \in Nat, NEW p \in Nat, p < i
  PROVE  /\ h * i \in Nat /\ d * i \in Nat /\ p * (d + 1) \in Nat
         /\ (h + d + 1) * i = h * i + d * i + i
         /\ p * (d + 1) <= d * i + i
<1>1. h * i \in Nat /\ d * i \in Nat /\ p * (d + 1) \in Nat
  OBVIOUS
<1>2. (h + d + 1) * i = h * i + d * i + i
  OBVIOUS
<1>3. (d + 1) * p <= (d + 1) * i
  BY d + 1 \in Nat /\ p <= i, TimesMonotone
<1>4. (d + 1) * i = d * i + i /\ p * (d + 1) = (d + 1) * p
  OBVIOUS
<1> QED BY <1>1, <1>2, <1>3, <1>4

(* The two internal pages an internal page is cut into: the key between    *)
(* them belongs to neither.                                                *)
NodeCutKeys(n, s, h) ==
  /\ Len(s.left.keys) = h /\ Len(s.right.keys) = Len(n.keys) - h - 1
  /\ Len(s.left.kids) = h + 1 /\ Len(s.right.kids) = Len(n.keys) - h
  /\ \A x \in 1 .. h : s.left.keys[x] = n.keys[x]
  /\ \A x \in 1 .. h + 1 : s.left.kids[x] = n.kids[x]
  /\ \A x \in 1 .. Len(n.keys) - h - 1 : s.right.keys[x] = n.keys[h + 1 + x]
  /\ \A x \in 1 .. Len(n.keys) - h : s.right.kids[x] = n.kids[h + 1 + x]
  /\ s.first = n.keys[h + 1]

(* split_page() cuts an internal page.                                     *)
LEMMA NodeCut ==
  ASSUME NEW n, NEW a \in Nat, NEW z \in Nat, PageFits(n, a, z), ~n.leaf, RoomFits(n),
         Len(n.keys) >= 2, num \in Nat, NEW h, h = KeptBySplit(n),
         NEW s, s = Split(n)
  PROVE  /\ NodeCutKeys(n, s, h)
         /\ s.left \in PageRec /\ s.right \in PageRec
         /\ RoomFits(s.left) /\ RoomFits(s.right)
         /\ s.left.leaf = FALSE /\ s.right.leaf = FALSE
         /\ s.left.next = num /\ s.right.next = n.next
<1> DEFINE c == Len(n.keys)
           lk == SubSeq(n.keys, 1, h)  rk == SubSeq(n.keys, h + 2, c)
           lc == SubSeq(n.kids, 1, h + 1)  rc == SubSeq(n.kids, h + 2, Len(n.kids))
           right == Node(n.leaf, rk, rc, n.next)
           left == [leaf |-> n.leaf, keys |-> lk, kids |-> lc, next |-> num,
                    room |-> n.room + SpaceOf(right), gap |-> n.gap + PtrSpace * (c - h)]
<1>1. /\ n \in PageRec /\ c \in Nat /\ n.keys \in Seq(Key) /\ Len(n.kids) = c + 1 /\ n.leaf = FALSE
      /\ n.room \in Nat /\ n.gap \in Nat /\ n.kids \in Seq(Nat) /\ n.next \in Links
  <2>1. n \in PageRec /\ Len(n.kids) = c + 1
    BY DEF PageFits
  <2> QED BY <2>1, RecFields DEF Links
<1>2. h \in 1 .. c - 1
  BY <1>1, CutAt
<1>18. c \in Nat /\ Len(n.kids) = c + 1 /\ h \in 1 .. c - 1 /\ Len(n.keys) = c
  BY <1>1, <1>2
<1>19. n.keys \in Seq(Key) /\ n.kids \in Seq(Nat)
  BY <1>1
<1>3. /\ lk \in Seq(Key) /\ Len(lk) = h
      /\ \A x \in 1 .. h : lk[x] = n.keys[x]
  <2> DEFINE k == n.keys
  <2>1. 1 \in 1 .. Len(k) + 1 /\ h \in 0 .. Len(k) /\ 1 <= h + 1 /\ (h - 1) + 1 = h /\ k \in Seq(Key)
    BY ONLY <1>18, <1>19
  <2>2. \A x \in 1 .. h : (x + 1) - 1 = x
    BY <1>2
  <2> HIDE DEF k
  <2>3. SubSeq(k, 1, h) \in Seq(Key) /\ Len(SubSeq(k, 1, h)) = (h - 1) + 1
    BY <2>1, PartSeq
  <2>4. ASSUME NEW x \in 1 .. (h - 1) + 1 PROVE SubSeq(k, 1, h)[x] = k[(x + 1) - 1]
    BY <2>1, PartAt
  <2> QED BY <2>1, <2>2, <2>3, <2>4 DEF k
<1>4. /\ rk \in Seq(Key) /\ Len(rk) = c - h - 1
      /\ \A x \in 1 .. c - h - 1 : rk[x] = n.keys[h + 1 + x]
  <2> DEFINE i == h + 2  k == n.keys
  <2>1. i \in 1 .. Len(k) + 1 /\ c \in 0 .. Len(k) /\ i <= c + 1 /\ (c - i) + 1 = c - h - 1 /\ k \in Seq(Key)
    BY ONLY <1>18, <1>19
  <2>2. rk = SubSeq(k, i, c) /\ \A x \in 1 .. c - h - 1 : (x + i) - 1 = h + 1 + x
    BY <1>1, <1>2
  <2> HIDE DEF i, k, c
  <2>3. SubSeq(k, i, c) \in Seq(Key) /\ Len(SubSeq(k, i, c)) = (c - i) + 1
    BY <2>1, PartSeq
  <2>4. ASSUME NEW x \in 1 .. (c - i) + 1 PROVE SubSeq(k, i, c)[x] = k[(x + i) - 1]
    BY <2>1, PartAt
  <2> QED BY <2>1, <2>2, <2>3, <2>4 DEF k
<1>5. /\ lc \in Seq(Nat) /\ Len(lc) = h + 1
      /\ \A x \in 1 .. h + 1 : lc[x] = n.kids[x]
  <2> DEFINE j == h + 1  k == n.kids
  <2>1. 1 \in 1 .. Len(k) + 1 /\ j \in 0 .. Len(k) /\ 1 <= j + 1 /\ (j - 1) + 1 = j /\ k \in Seq(Nat)
    BY ONLY <1>18, <1>19
  <2>2. \A x \in 1 .. j : (x + 1) - 1 = x
    BY <1>2
  <2> HIDE DEF k, j
  <2>3. SubSeq(k, 1, j) \in Seq(Nat) /\ Len(SubSeq(k, 1, j)) = (j - 1) + 1
    BY <2>1, PartSeq
  <2>4. ASSUME NEW x \in 1 .. (j - 1) + 1 PROVE SubSeq(k, 1, j)[x] = k[(x + 1) - 1]
    BY <2>1, PartAt
  <2> QED BY <2>1, <2>2, <2>3, <2>4 DEF k, j
<1>6. /\ rc \in Seq(Nat) /\ Len(rc) = c - h
      /\ \A x \in 1 .. c - h : rc[x] = n.kids[h + 1 + x]
  <2> DEFINE i == h + 2  k == n.kids  e == Len(n.kids)
  <2>1. i \in 1 .. Len(k) + 1 /\ e \in 0 .. Len(k) /\ i <= e + 1 /\ (e - i) + 1 = c - h /\ k \in Seq(Nat)
    BY ONLY <1>18, <1>19
  <2>2. rc = SubSeq(k, i, e) /\ \A x \in 1 .. c - h : (x + i) - 1 = h + 1 + x
    BY <1>1, <1>2
  <2> HIDE DEF i, k, c, e
  <2>3. SubSeq(k, i, e) \in Seq(Nat) /\ Len(SubSeq(k, i, e)) = (e - i) + 1
    BY <2>1, PartSeq
  <2>4. ASSUME NEW x \in 1 .. (e - i) + 1 PROVE SubSeq(k, i, e)[x] = k[(x + i) - 1]
    BY <2>1, PartAt
  <2> QED BY <2>1, <2>2, <2>3, <2>4 DEF k
<1>7. s.first = n.keys[h + 1] /\ s.right = right
      /\ s.left = [n EXCEPT !.keys = SubSeq(@, 1, h),
                            !.kids = IF n.leaf THEN @ ELSE SubSeq(@, 1, h + 1),
                            !.next = num,
                            !.room = @ + SpaceOf(right),
                            !.gap  = IF n.leaf THEN @ ELSE @ + PtrSpace * (c - h)]
  BY <1>1 DEF Split, Cells
<1>8. s.left = left
  <2>1. n = [leaf |-> n.leaf, keys |-> n.keys, kids |-> n.kids, next |-> n.next, room |-> n.room, gap |-> n.gap]
    BY <1>1 DEF PageRec
  <2> HIDE DEF right
  <2> QED BY <2>1, <1>1, <1>7
<1> DEFINE I == InternalSpace  P == PtrSpace  A == h * I  B == (c - h - 1) * I  C == c * I  G == P * (c - h)
<1>9. I \in Nat /\ P \in Nat /\ P < I /\ PageSpace \in Nat
  BY Numbers
<1>10. A \in Nat /\ B \in Nat /\ C = A + B + I /\ G \in Nat /\ G <= B + I
  <2> DEFINE d == c - h - 1
  <2>1. d \in Nat /\ h \in Nat /\ c = h + d + 1 /\ c - h = d + 1
    BY ONLY <1>18
  <2>2. A = h * I /\ B = d * I /\ C = (h + d + 1) * I /\ G = P * (d + 1)
    BY <2>1
  <2> HIDE DEF d, A, B, C, G, I, P
  <2>3. /\ h * I \in Nat /\ d * I \in Nat /\ P * (d + 1) \in Nat
        /\ (h + d + 1) * I = h * I + d * I + I
        /\ P * (d + 1) <= d * I + I
    BY ONLY <2>1, <1>9, CutNumbers
  <2> QED BY ONLY <2>2, <2>3
<1>11. SpaceIn(FALSE, n.keys) = C /\ SpaceIn(FALSE, lk) = A /\ SpaceIn(FALSE, rk) = B
  <2>1. SpaceIn(FALSE, n.keys) = Len(n.keys) * InternalSpace
    BY <1>1, SpaceInternal
  <2>2. SpaceIn(FALSE, lk) = Len(lk) * InternalSpace
    BY <1>3, SpaceInternal
  <2>3. SpaceIn(FALSE, rk) = Len(rk) * InternalSpace
    BY <1>4, SpaceInternal
  <2> HIDE DEF lk, rk
  <2> QED BY <2>1, <2>2, <2>3, <1>3, <1>4
<1> HIDE DEF A, B, C, G, I, P
<1>12. n.room + C <= PageSpace /\ n.gap + C <= PageSpace
  <2>1. n.room + SpaceOf(n) <= PageSpace /\ n.gap + SpaceOf(n) <= PageSpace
    BY DEF RoomFits
  <2>2. SpaceOf(n) = SpaceIn(FALSE, n.keys)
    BY <1>1, SpaceOfIs
  <2> QED BY <2>1, <2>2, <1>11
<1>13. B <= PageSpace
  <2> HIDE DEF c
  <2> QED BY <1>1, <1>9, <1>10, <1>12
<1>14. /\ right \in PageRec /\ right.leaf = FALSE /\ right.keys = rk /\ right.kids = rc
       /\ right.next = n.next /\ RoomFits(right) /\ SpaceOf(right) = B
  <2> HIDE DEF rk, rc
  <2> DEFINE leaf == n.leaf
  <2>1. right = Node(leaf, rk, rc, n.next) /\ rc \in Seq(Nat) /\ leaf \in BOOLEAN
    BY <1>1, <1>6
  <2>2. leaf = FALSE
    BY <1>1
  <2> HIDE DEF right, leaf
  <2>3. rk \in Seq(Key) /\ n.next \in Links /\ SpaceIn(leaf, rk) <= PageSpace
    BY <1>1, <1>4, <1>11, <1>13, <2>2
  <2>4. /\ right \in PageRec /\ right.leaf = leaf /\ right.keys = rk /\ right.kids = rc
        /\ right.next = n.next /\ RoomFits(right) /\ SpaceOf(right) = SpaceIn(leaf, rk)
    BY ONLY <2>1, <2>3, NewPage
  <2> QED BY <2>2, <2>4, <1>11
<1> HIDE DEF right, rk, lk, lc, rc
<1>15. /\ left.leaf = FALSE /\ left.keys = lk /\ left.kids = lc /\ left.next = num
       /\ left.room = n.room + B /\ left.gap = n.gap + G /\ left \in PageRec
  <2>1. n.room + SpaceOf(right) \in Nat /\ n.room + SpaceOf(right) = n.room + B
    <3>1. n.room \in Nat /\ B \in Nat /\ SpaceOf(right) = B
      BY <1>1, <1>10, <1>14
    <3> QED BY ONLY <3>1
  <2>2. n.gap + PtrSpace * (c - h) \in Nat /\ n.gap + PtrSpace * (c - h) = n.gap + G
    <3>1. n.gap + G \in Nat
      <4>1. n.gap \in Nat /\ G \in Nat
        BY <1>1, <1>10
      <4> QED BY ONLY <4>1
    <3> QED BY <3>1 DEF G, P
  <2>3. left \in PageRec
    <3> DEFINE r == n.room + SpaceOf(right)  g == n.gap + PtrSpace * (c - h)
    <3>1. /\ r \in Nat /\ g \in Nat /\ lk \in Seq(Key) /\ lc \in Seq(Nat)
          /\ n.leaf \in BOOLEAN /\ num \in Nat \cup {Null}
      BY <2>1, <2>2, <1>1, <1>3, <1>5
    <3>2. left = [leaf |-> n.leaf, keys |-> lk, kids |-> lc, next |-> num, room |-> r, gap |-> g]
      BY DEF left
    <3> HIDE DEF r, g, left
    <3> QED BY ONLY <3>1, <3>2 DEF PageRec
  <2> QED BY <2>1, <2>2, <2>3, <1>1
<1> HIDE DEF left
<1>16. RoomFits(left)
  <2>1. SpaceOf(left) = A
    BY <1>11, <1>15, SpaceOfIs
  <2> DEFINE V == n.room  Q == n.gap
  <2>2. left.room = V + B /\ left.gap = Q + G /\ V \in Nat /\ Q \in Nat /\ V + C <= PageSpace /\ Q + C <= PageSpace
    BY <1>1, <1>12, <1>15
  <2> HIDE DEF V, Q
  <2>3. left.room + SpaceOf(left) <= PageSpace /\ left.gap + SpaceOf(left) <= PageSpace
    BY ONLY <2>1, <2>2, <1>9, <1>10
  <2> QED BY <2>3, <1>15 DEF RoomFits
<1>17. NodeCutKeys(n, s, h)
  <2>1. s.left.keys = lk /\ s.left.kids = lc /\ s.right.keys = rk /\ s.right.kids = rc
    BY <1>7, <1>8, <1>14, <1>15
  <2> QED BY <2>1, <1>3, <1>4, <1>5, <1>6, <1>7 DEF NodeCutKeys
<1> QED BY <1>7, <1>8, <1>14, <1>15, <1>16, <1>17

-----------------------------------------------------------------------------
(* The page that is cut, had there been room for the new cell.             *)
Wide(n, i, k, c) ==
  [leaf |-> FALSE, keys |-> InsertAt(n.keys, i, k), kids |-> InsertAt(n.kids, i + 1, c),
   next |-> n.next, room |-> n.room, gap |-> n.gap]

(* The page before the split, with the new cell, would adopt the child.    *)
LEMMA WideAdopts ==
  ASSUME NEW n, NEW a \in Nat, NEW z \in Nat, PageFits(n, a, z), ~n.leaf,
         NEW i \in 1 .. Len(n.kids), NEW k \in Key, NEW c \in Nat
  PROVE  Adopts(n, Wide(n, i, k, c), i, k, c)
<1> DEFINE m == Wide(n, i, k, c)
<1>1. /\ n \in PageRec /\ Len(n.kids) = Len(n.keys) + 1 /\ n.leaf = FALSE
      /\ n.keys \in Seq(Key) /\ n.kids \in Seq(Nat) /\ n.next \in Nat \cup {Null}
      /\ n.room \in Nat /\ n.gap \in Nat /\ Len(n.keys) \in Nat
  <2>1. n \in PageRec /\ Len(n.kids) = Len(n.keys) + 1
    BY DEF PageFits
  <2> QED BY <2>1, RecFields
<1>2. InsertAt(n.keys, i, k) \in Seq(Key)
  <2> DEFINE s == n.keys
  <2>1. s \in Seq(Key) /\ i \in 1 .. Len(s) + 1
    BY <1>1
  <2> HIDE DEF s
  <2>2. InsertAt(s, i, k) \in Seq(Key)
    BY <2>1, InsertAtSeq
  <2> QED BY <2>2 DEF s
<1>3. InsertAt(n.kids, i + 1, c) \in Seq(Nat)
  <2> DEFINE s == n.kids  p == i + 1
  <2>1. s \in Seq(Nat) /\ p \in 1 .. Len(s) + 1
    BY <1>1
  <2> HIDE DEF s, p
  <2>2. InsertAt(s, p, c) \in Seq(Nat)
    BY <2>1, InsertAtSeq
  <2> QED BY <2>2 DEF s, p
<1>4. m \in PageRec
  BY <1>1, <1>2, <1>3 DEF Wide, PageRec
<1>5. /\ m.leaf = FALSE /\ m.next = n.next
      /\ m.keys = InsertAt(n.keys, i, k) /\ m.kids = InsertAt(n.kids, i + 1, c)
  BY DEF Wide
<1> HIDE DEF m
<1>6. Gains(n, m, i, k, c)
  BY <1>1, <1>4, <1>5 DEF Gains
<1>7. Adopts(n, m, i, k, c)
  BY <1>6, NodeGains
<1> QED BY <1>7 DEF m

(* A page an internal page is cut into, or one with another first child,   *)
(* takes a cell.                                                           *)
LEMMA NodeTakes ==
  ASSUME NEW n, NEW a \in Nat, NEW z \in Nat, PageFits(n, a, z), ~n.leaf, RoomFits(n),
         NEW i \in 1 .. Len(n.kids), NEW k \in Key, Low(n, a, i) < k, k < High(n, z, i),
         NEW c \in Nat, NEW r, r = InsertCell(n, k, c), r.res = "ok"
  PROVE  Adopts(n, r.node, i, k, c) /\ PageFits(r.node, a, z) /\ RoomFits(r.node)
<1>1. n \in PageRec /\ Len(n.kids) = Len(n.keys) + 1
  BY DEF PageFits
<1>2. Below(n, k) + 1 = i /\ Below(n, k) \in 0 .. Len(n.keys)
  BY PlaceOfKey
<1>3. c \in Nat \cup {Null}
  OBVIOUS
<1>4. Gains(n, r.node, i, k, c) /\ RoomFits(r.node)
  BY <1>1, <1>2, <1>3, InsertGains
<1>5. Adopts(n, r.node, i, k, c)
  BY <1>4, NodeGains
<1>6. PageFits(r.node, a, z)
  BY <1>5, AdoptsFits
<1> QED BY <1>4, <1>5, <1>6

(* A key that is in no other place than the parent's.                      *)
NodeTarget(s, k, c) == IF k >= s.first THEN s.right ELSE [s.right EXCEPT !.kids[1] = c]
NodeKey(s, k)       == IF k >= s.first THEN k ELSE s.first
NodeChild(s, k, c)  == IF k >= s.first THEN c ELSE s.right.kids[1]
NodeUp(s, k)        == IF k >= s.first THEN s.first ELSE k

(* The bounds of the two pages.                                            *)
LEMMA NodeCutFits ==
  ASSUME NEW n, NEW a \in Nat, NEW z \in Nat, PageFits(n, a, z), ~n.leaf,
         Len(n.keys) >= 2, NEW h, h \in 1 .. Len(n.keys) - 1, NEW s, NodeCutKeys(n, s, h),
         s.left \in PageRec, s.right \in PageRec, s.left.leaf = FALSE, s.right.leaf = FALSE,
         NEW k \in Key, a < k, k < z, n.keys[h] < k, k < n.keys[h + 1] \/ k = n.keys[h + 1]
  PROVE  PageFits(s.left, a, k) /\ PageFits(s.right, k, z)
<1> DEFINE c == Len(n.keys)
<1>1. n \in PageRec /\ c \in Nat /\ k \in Nat /\ h \in 1 .. c - 1 /\ \A x \in 1 .. c : n.keys[x] \in Nat
  BY RecFields, Numbers DEF PageFits
<1>2. \A p, q \in 1 .. c : p < q => n.keys[p] < n.keys[q]
  BY DEF PageFits, KeysRise
<1>3. \A x \in 1 .. c : a < n.keys[x] /\ n.keys[x] < z
  BY DEF PageFits
<1>4. ASSUME NEW x \in 1 .. h PROVE x \in 1 .. c /\ n.keys[x] < k
  <2>1. x \in 1 .. c /\ h \in 1 .. c /\ (x = h \/ x < h)
    BY <1>1
  <2>2. x < h => n.keys[x] < n.keys[h]
    BY <2>1, <1>2
  <2> QED BY <2>1, <2>2, <1>1
<1>5. ASSUME NEW x \in 1 .. c - h - 1 PROVE h + 1 + x \in 1 .. c /\ k < n.keys[h + 1 + x]
  <2>1. h + 1 + x \in 1 .. c /\ h + 1 \in 1 .. c /\ h + 1 < h + 1 + x
    <3>1. c \in Nat /\ h \in 1 .. c - 1 /\ x \in 1 .. c - h - 1
      BY <1>1
    <3> HIDE DEF c
    <3> QED BY ONLY <3>1
  <2>2. n.keys[h + 1] < n.keys[h + 1 + x]
    BY <2>1, <1>2
  <2> QED BY <2>1, <2>2, <1>1
<1>6. PageFits(s.left, a, k)
  <2> DEFINE m == s.left
  <2>1. m \in PageRec /\ m.leaf = FALSE /\ Len(m.keys) = h /\ Len(m.kids) = h + 1
        /\ \A x \in 1 .. h : m.keys[x] = n.keys[x]
    BY DEF NodeCutKeys
  <2>2. KeysRise(m)
    BY <2>1, <1>2, <1>4 DEF KeysRise
  <2>3. \A x \in 1 .. h : a < m.keys[x] /\ m.keys[x] < k /\ m.keys[x] \in Nat
    BY <2>1, <1>1, <1>3, <1>4
  <2>4. \A x \in 1 .. h : a <= m.keys[x]
    BY <2>3
  <2> QED BY <2>1, <2>2, <2>3, <2>4 DEF PageFits
<1>7. PageFits(s.right, k, z)
  <2> DEFINE m == s.right  d == c - h - 1
  <2>1. m \in PageRec /\ m.leaf = FALSE /\ Len(m.keys) = d /\ Len(m.kids) = d + 1
        /\ \A x \in 1 .. d : m.keys[x] = n.keys[h + 1 + x]
    <3>1. c - h = d + 1
      BY <1>1
    <3> QED BY <3>1 DEF NodeCutKeys
  <2>2. KeysRise(m)
    <3> SUFFICES ASSUME NEW p \in 1 .. d, NEW q \in 1 .. d, p < q PROVE m.keys[p] < m.keys[q]
      BY <2>1 DEF KeysRise
    <3>1. h + 1 + p < h + 1 + q
      BY <1>1
    <3>2. n.keys[h + 1 + p] < n.keys[h + 1 + q]
      BY <3>1, <1>2, <1>5
    <3> QED BY <3>2, <2>1
  <2>3. \A x \in 1 .. d : k < m.keys[x] /\ m.keys[x] < z /\ m.keys[x] \in Nat
    BY <2>1, <1>1, <1>3, <1>5
  <2>4. \A x \in 1 .. d : k <= m.keys[x]
    <3> HIDE DEF m, d
    <3> QED BY ONLY <2>3, <1>1
  <2> QED BY <2>1, <2>2, <2>3, <2>4 DEF PageFits
<1> QED BY <1>6, <1>7

-----------------------------------------------------------------------------
(* Another first child for an internal page.                               *)
WithFirst(n, c) == [n EXCEPT !.kids[1] = c]

(* It fits where the page did.                                             *)
LEMMA OtherFirst ==
  ASSUME NEW n, NEW a \in Nat, NEW z \in Nat, PageFits(n, a, z), ~n.leaf, RoomFits(n),
         NEW c \in Nat, NEW m, m = WithFirst(n, c)
  PROVE  /\ PageFits(m, a, z) /\ RoomFits(m) /\ ~m.leaf /\ m.next = n.next
         /\ m.keys = n.keys /\ Len(m.kids) = Len(n.kids) /\ m.kids[1] = c
         /\ \A j \in 2 .. Len(n.kids) : m.kids[j] = n.kids[j]
<1> DEFINE u == [n.kids EXCEPT ![1] = c]
           new == [leaf |-> n.leaf, keys |-> n.keys, kids |-> u, next |-> n.next, room |-> n.room, gap |-> n.gap]
<1>1. /\ n \in PageRec /\ Len(n.kids) = Len(n.keys) + 1 /\ n.leaf \in BOOLEAN
      /\ n.keys \in Seq(Key) /\ n.kids \in Seq(Nat) /\ n.next \in Nat \cup {Null}
      /\ n.room \in Nat /\ n.gap \in Nat /\ Len(n.keys) \in Nat
  <2>1. n \in PageRec /\ Len(n.kids) = Len(n.keys) + 1
    BY DEF PageFits
  <2> QED BY <2>1, RecFields
<1>2. /\ u \in Seq(Nat) /\ Len(u) = Len(n.kids) /\ u[1] = c
      /\ \A j \in 2 .. Len(n.kids) : u[j] = n.kids[j]
  <2> DEFINE s == n.kids
  <2>1. s \in Seq(Nat) /\ 1 \in 1 .. Len(s)
    BY <1>1
  <2> HIDE DEF s
  <2>2. [s EXCEPT ![1] = c] \in Seq(Nat) /\ Len([s EXCEPT ![1] = c]) = Len(s)
    BY <2>1
  <2>3. [s EXCEPT ![1] = c][1] = c /\ \A j \in 2 .. Len(s) : [s EXCEPT ![1] = c][j] = s[j]
    BY <2>1
  <2> QED BY <2>2, <2>3 DEF s
<1>3. m = new
  <2>1. n = [leaf |-> n.leaf, keys |-> n.keys, kids |-> n.kids, next |-> n.next, room |-> n.room, gap |-> n.gap]
    BY <1>1 DEF PageRec
  <2>2. m = [n EXCEPT !.kids = u]
    BY DEF WithFirst
  <2> HIDE DEF u
  <2> QED BY <2>1, <2>2
<1> HIDE DEF u
<1>4. /\ m.leaf = n.leaf /\ m.keys = n.keys /\ m.kids = u /\ m.next = n.next
      /\ m.room = n.room /\ m.gap = n.gap /\ m \in PageRec
  <2>1. new \in PageRec
    BY <1>1, <1>2 DEF PageRec
  <2>2. /\ new.leaf = n.leaf /\ new.keys = n.keys /\ new.kids = u /\ new.next = n.next
        /\ new.room = n.room /\ new.gap = n.gap
    OBVIOUS
  <2> HIDE DEF new
  <2> QED BY <2>1, <2>2, <1>3
<1>5. PageFits(m, a, z)
  <2>1. KeysRise(m)
    BY <1>4 DEF KeysRise, PageFits
  <2> QED BY <2>1, <1>1, <1>2, <1>4 DEF PageFits
<1>6. SpaceOf(m) = SpaceOf(n)
  <2>1. SpaceOf(m) = SpaceIn(m.leaf, m.keys) /\ SpaceOf(n) = SpaceIn(n.leaf, n.keys)
    BY <1>1, <1>4, SpaceOfIs
  <2>2. SpaceIn(m.leaf, m.keys) = SpaceIn(n.leaf, n.keys)
    <3>1. m.leaf = n.leaf
      BY <1>4
    <3> QED BY <3>1, <1>4
  <2> QED BY <2>1, <2>2
<1>7. RoomFits(m)
  BY <1>4, <1>6 DEF RoomFits
<1> QED BY <1>2, <1>4, <1>5, <1>7

(* Both halves of an internal page and the key between them are what the   *)
(* page with the new cell divides into.                                    *)
NodeDivided(n, i, a, z, k, c, f, l, r, h) ==
  /\ Halves(Wide(n, i, k, c), l, r, a, f, z, h + 1)
  /\ f \in Key /\ a < f /\ f < z
  /\ ~l.leaf /\ ~r.leaf /\ l.next = num
  /\ RoomFits(l) /\ RoomFits(r)

(* The parts of the page with the new cell are what the code makes: where  *)
(* the new cell goes to the right.                                         *)
LEMMA NodeSplitsRight ==
  ASSUME NEW n, NEW a \in Nat, NEW z \in Nat, PageFits(n, a, z), ~n.leaf, RoomFits(n),
         Len(n.keys) >= 2, num \in Nat, NEW h, h = KeptBySplit(n),
         NEW i \in 1 .. Len(n.kids), NEW k \in Key, Low(n, a, i) < k, k < High(n, z, i),
         NEW c \in Nat, NEW s, s = Split(n), k >= s.first,
         NEW r, r = InsertCell(s.right, k, c), r.res = "ok"
  PROVE  NodeDivided(n, i, a, z, k, c, s.first, s.left, r.node, h)
<1> DEFINE l == Len(n.keys)  f == s.first  q == s.right  m == Wide(n, i, k, c)  p == i - (h + 1)  t == r.node
<1>1. n \in PageRec /\ l \in Nat /\ Len(n.kids) = l + 1 /\ k \in Nat /\ \A x \in 1 .. l : n.keys[x] \in Nat /\ n.keys[x] \in Key
  <2>1. n \in PageRec /\ Len(n.kids) = l + 1
    BY DEF PageFits
  <2> QED BY <2>1, RecFields, Numbers
<1>2. h \in 1 .. l - 1
  BY <1>1, CutAt
<1>23. l \in Nat /\ h \in 1 .. l - 1 /\ Len(n.kids) = l + 1 /\ i \in 1 .. Len(n.kids)
  BY <1>1, <1>2
<1>3. /\ NodeCutKeys(n, s, h)
      /\ s.left \in PageRec /\ q \in PageRec
      /\ RoomFits(s.left) /\ RoomFits(q)
      /\ s.left.leaf = FALSE /\ q.leaf = FALSE
      /\ s.left.next = num /\ q.next = n.next
  BY NodeCut
<1>4. f = n.keys[h + 1] /\ h + 1 \in 1 .. l /\ h \in 1 .. l
  <2>1. h + 1 \in 1 .. l /\ h \in 1 .. l
    BY ONLY <1>23
  <2> QED BY <2>1, <1>3 DEF NodeCutKeys
<1>5. /\ \A x \in 1 .. l : a < n.keys[x] /\ n.keys[x] < z
      /\ \A x, y \in 1 .. l : x < y => n.keys[x] < n.keys[y]
  BY DEF PageFits, KeysRise
<1>6. f \in Key /\ f \in Nat /\ a < f /\ f < z /\ n.keys[h] < f
  <2>1. h < h + 1
    BY <1>2
  <2> QED BY <2>1, <1>1, <1>4, <1>5
<1>7. PageFits(s.left, a, f) /\ PageFits(q, f, z)
  <2>1. h \in 1 .. Len(n.keys) - 1 /\ f = n.keys[h + 1]
    BY <1>2, <1>4
  <2> HIDE DEF f, q, l
  <2> QED BY <2>1, <1>3, <1>6, NodeCutFits DEF q
<1>8. i > h + 1
  <2> SUFFICES ASSUME i <= h + 1 PROVE FALSE
    BY <1>1, <1>2
  <2>1. i \in 1 .. l /\ i # Len(n.kids)
    BY <1>1, <1>2
  <2>2. k < n.keys[i]
    BY <2>1 DEF High
  <2>3. i < h + 1 => n.keys[i] < n.keys[h + 1]
    BY <2>1, <1>4, <1>5
  <2>4. i = h + 1 \/ i < h + 1
    BY <2>1, <1>1, <1>2
  <2>5. n.keys[i] \in Nat /\ n.keys[h + 1] \in Nat /\ k >= n.keys[h + 1]
    BY <2>1, <1>1, <1>4
  <2> QED BY SMTT(30), <2>2, <2>3, <2>4, <2>5, <1>1
<1>9. p \in 1 .. l - h /\ Len(q.kids) = l - h /\ i = h + 1 + p /\ Len(q.keys) = l - h - 1 /\ p \in 1 .. Len(q.kids)
  <2>1. Len(q.kids) = l - h /\ Len(q.keys) = l - h - 1
    BY <1>3 DEF NodeCutKeys
  <2>2. p \in 1 .. l - h /\ i = h + 1 + p
    BY ONLY <1>8, <1>23
  <2> QED BY <2>1, <2>2
<1> HIDE DEF p
<1>24. p \in 1 .. l - h /\ i = h + 1 + p /\ Len(q.kids) = l - h
  BY <1>9
<1>10. Low(q, f, p) = Low(n, a, i)
  <2>1. CASE p = 1
    <3>1. i # 1 /\ i - 1 = h + 1
      BY ONLY <2>1, <1>23, <1>24
    <3> QED BY <2>1, <3>1, <1>4 DEF Low
  <2>2. CASE p # 1
    <3>1. i # 1 /\ p - 1 \in 1 .. l - h - 1 /\ h + 1 + (p - 1) = i - 1
      BY ONLY <2>2, <1>23, <1>24
    <3>2. q.keys[p - 1] = n.keys[h + 1 + (p - 1)]
      BY <3>1, <1>3 DEF NodeCutKeys
    <3> QED BY <2>2, <3>1, <3>2 DEF Low
  <2> QED BY <2>1, <2>2
<1>11. High(q, z, p) = High(n, z, i)
  <2>1. CASE p = l - h
    <3>1. i = Len(n.kids) /\ p = Len(q.kids)
      <4>1. i = h + 1 + (l - h) /\ l \in Nat /\ h \in Nat
        BY <2>1, <1>23, <1>24
      <4>2. h + 1 + (l - h) = l + 1
        <5> HIDE DEF l
        <5> QED BY ONLY <4>1
      <4> QED BY <4>1, <4>2, <2>1, <1>23, <1>24
    <3> QED BY <3>1 DEF High
  <2>2. CASE p # l - h
    <3>1. i # Len(n.kids) /\ p # Len(q.kids) /\ p \in 1 .. l - h - 1
      BY ONLY <2>2, <1>23, <1>24
    <3>2. q.keys[p] = n.keys[i]
      BY <3>1, <1>3, <1>9 DEF NodeCutKeys
    <3> QED BY <3>1, <3>2 DEF High
  <2> QED BY <2>1, <2>2
<1>12. Adopts(q, t, p, k, c) /\ PageFits(t, f, z) /\ RoomFits(t)
  <2>1. ~q.leaf /\ Low(q, f, p) < k /\ k < High(q, z, p) /\ r = InsertCell(q, k, c) /\ PageFits(q, f, z) /\ RoomFits(q) /\ f \in Nat
    BY <1>3, <1>6, <1>7, <1>10, <1>11
  <2> HIDE DEF q, f
  <2> QED BY <2>1, <1>9, NodeTakes
<1>13. Adopts(n, m, i, k, c)
  BY WideAdopts
<1> HIDE DEF m, t
<1>14. /\ Len(m.keys) = l + 1 /\ Len(m.kids) = l + 2 /\ m.leaf = FALSE /\ m.next = n.next
       /\ \A j \in 1 .. l + 1 : m.keys[j] = IF j < i THEN n.keys[j] ELSE IF j = i THEN k ELSE n.keys[j - 1]
       /\ \A j \in 1 .. l + 2 : m.kids[j] = IF j <= i THEN n.kids[j] ELSE IF j = i + 1 THEN c ELSE n.kids[j - 1]
  <2>1. Len(n.kids) + 1 = l + 2
    BY <1>1
  <2> QED BY <2>1, <1>13 DEF Adopts
<1>15. /\ Len(t.keys) = l - h /\ Len(t.kids) = l - h + 1 /\ t.leaf = FALSE /\ t.next = n.next
       /\ \A j \in 1 .. l - h : t.keys[j] = IF j < p THEN q.keys[j] ELSE IF j = p THEN k ELSE q.keys[j - 1]
       /\ \A j \in 1 .. l - h + 1 : t.kids[j] = IF j <= p THEN q.kids[j] ELSE IF j = p + 1 THEN c ELSE q.kids[j - 1]
  <2>1. Len(q.keys) + 1 = l - h /\ Len(q.kids) = l - h
    <3>1. (l - h - 1) + 1 = l - h
      BY ONLY <1>23
    <3> QED BY <3>1, <1>9
  <2> QED BY <2>1, <1>3, <1>12 DEF Adopts
<1>16. /\ \A x \in 1 .. h : s.left.keys[x] = n.keys[x]
       /\ \A x \in 1 .. h + 1 : s.left.kids[x] = n.kids[x]
       /\ \A x \in 1 .. l - h - 1 : q.keys[x] = n.keys[h + 1 + x]
       /\ \A x \in 1 .. l - h : q.kids[x] = n.kids[h + 1 + x]
       /\ Len(s.left.keys) = h
  BY <1>3 DEF NodeCutKeys
<1>17. ASSUME NEW j \in 1 .. h PROVE s.left.keys[j] = m.keys[j]
  <2>1. j \in 1 .. l + 1 /\ j < i
    BY ONLY <1>8, <1>23
  <2> QED BY <2>1, <1>14, <1>16
<1>18. ASSUME NEW j \in 1 .. h + 1 PROVE s.left.kids[j] = m.kids[j]
  <2>1. j \in 1 .. l + 2 /\ j <= i
    BY ONLY <1>8, <1>23
  <2> QED BY <2>1, <1>14, <1>16
<1>19. ASSUME NEW j \in 1 .. l - h PROVE t.keys[j] = m.keys[j + (h + 1)]
  <2> DEFINE e == j + (h + 1)
  <2>1. e \in 1 .. l + 1 /\ e = h + 1 + j
    BY ONLY <1>23
  <2>2. CASE j < p
    <3>1. e < i /\ j \in 1 .. l - h - 1
      BY ONLY <2>2, <1>23, <1>24
    <3>2. m.keys[e] = n.keys[e]
      BY <2>1, <3>1, <1>14
    <3>3. t.keys[j] = q.keys[j]
      BY <2>2, <1>15
    <3> QED BY <2>1, <3>1, <3>2, <3>3, <1>16
  <2>3. CASE j = p
    <3>1. e = i /\ ~(e < i)
      BY ONLY <2>3, <1>23, <1>24
    <3>2. m.keys[e] = k
      BY <2>1, <3>1, <1>14
    <3>3. t.keys[j] = k
      BY SMTT(30), <2>3, <1>15, <1>9
    <3> QED BY <3>2, <3>3
  <2>4. CASE j > p
    <3>1. ~(e < i) /\ e # i /\ j - 1 \in 1 .. l - h - 1 /\ h + 1 + (j - 1) = e - 1 /\ ~(j < p) /\ j # p
      BY ONLY <2>4, <1>23, <1>24
    <3>2. m.keys[e] = n.keys[e - 1]
      BY <2>1, <3>1, <1>14
    <3>3. t.keys[j] = q.keys[j - 1]
      BY <3>1, <1>15
    <3>4. q.keys[j - 1] = n.keys[h + 1 + (j - 1)]
      BY <3>1, <1>16
    <3> QED BY <3>1, <3>2, <3>3, <3>4
  <2> QED BY <2>2, <2>3, <2>4, <1>9
<1>20. ASSUME NEW j \in 1 .. l - h + 1 PROVE t.kids[j] = m.kids[j + (h + 1)]
  <2> DEFINE e == j + (h + 1)
  <2>1. e \in 1 .. l + 2 /\ e = h + 1 + j
    BY ONLY <1>23
  <2>2. CASE j <= p
    <3>1. e <= i /\ j \in 1 .. l - h
      BY ONLY <2>2, <1>23, <1>24
    <3>2. m.kids[e] = n.kids[e]
      BY <2>1, <3>1, <1>14
    <3>3. t.kids[j] = q.kids[j]
      BY <2>2, <1>15
    <3> QED BY <2>1, <3>1, <3>2, <3>3, <1>16
  <2>3. CASE j = p + 1
    <3>1. e = i + 1 /\ ~(e <= i) /\ ~(j <= p)
      BY ONLY <2>3, <1>23, <1>24
    <3>2. m.kids[e] = c
      BY <2>1, <3>1, <1>14
    <3>3. t.kids[j] = c
      BY <2>3, <3>1, <1>15
    <3> QED BY <3>2, <3>3
  <2>4. CASE j > p + 1
    <3>1. ~(e <= i) /\ e # i + 1 /\ j - 1 \in 1 .. l - h /\ h + 1 + (j - 1) = e - 1 /\ ~(j <= p) /\ j # p + 1
      BY ONLY <2>4, <1>23, <1>24
    <3>2. m.kids[e] = n.kids[e - 1]
      BY <2>1, <3>1, <1>14
    <3>3. t.kids[j] = q.kids[j - 1]
      BY <3>1, <1>15
    <3>4. q.kids[j - 1] = n.kids[h + 1 + (j - 1)]
      BY <3>1, <1>16
    <3> QED BY <3>1, <3>2, <3>3, <3>4
  <2> QED BY <2>2, <2>3, <2>4, <1>9
<1>21. m.keys[h + 1] = f
  <2>1. h + 1 \in 1 .. l + 1 /\ h + 1 < i
    BY SMTT(30), <1>1, <1>2, <1>8
  <2> QED BY <2>1, <1>14, <1>4
<1>22. Halves(m, s.left, t, a, f, z, h + 1)
  <2>1. h + 1 \in 1 .. Len(m.keys) /\ Len(s.left.keys) = (h + 1) - 1 /\ Len(t.keys) = Len(m.keys) - (h + 1)
    <3>1. h + 1 \in 1 .. l + 1 /\ h = (h + 1) - 1 /\ l - h = (l + 1) - (h + 1)
      BY ONLY <1>23
    <3> QED BY <3>1, <1>14, <1>15, <1>16
  <2>2. \A j \in 1 .. (h + 1) - 1 : s.left.keys[j] = m.keys[j]
    BY <1>17, <1>2
  <2>3. Len(m.keys) - (h + 1) = l - h /\ Len(m.keys) + 1 - (h + 1) = l - h + 1
    <3>1. Len(m.keys) = l + 1 /\ l \in Nat /\ h \in Nat
      BY <1>1, <1>2, <1>14
    <3> DEFINE w == Len(m.keys)
    <3>2. w = l + 1
      BY ONLY <3>1
    <3> HIDE DEF l, w
    <3>3. w - (h + 1) = l - h /\ w + 1 - (h + 1) = l - h + 1
      BY ONLY <3>1, <3>2
    <3> QED BY ONLY <3>3 DEF w
  <2>4. s.left.leaf = m.leaf /\ t.leaf = m.leaf /\ t.next = m.next
    BY <1>3, <1>14, <1>15
  <2> HIDE DEF f, l
  <2>5. \A j \in 1 .. Len(m.keys) - (h + 1) : t.keys[j] = m.keys[j + (h + 1)]
    BY <2>3, <1>19
  <2>6. \A j \in 1 .. Len(m.keys) + 1 - (h + 1) : t.kids[j] = m.kids[j + (h + 1)]
    BY <2>3, <1>20
  <2> QED BY <2>1, <2>2, <2>4, <2>5, <2>6, <1>7, <1>12, <1>18, <1>21 DEF Halves
<1> QED BY <1>3, <1>6, <1>12, <1>15, <1>22 DEF NodeDivided, m, t

-----------------------------------------------------------------------------
(* Where the key of the new cell goes up, and its child becomes the first  *)
(* one of the right page.                                                  *)
LEMMA NodeSplitsLeft ==
  ASSUME NEW n, NEW a \in Nat, NEW z \in Nat, PageFits(n, a, z), ~n.leaf, RoomFits(n),
         Len(n.keys) >= 2, num \in Nat, NEW h, h = KeptBySplit(n),
         NEW i \in 1 .. Len(n.kids), NEW k \in Key, Low(n, a, i) < k, k < High(n, z, i),
         NEW c \in Nat, NEW s, s = Split(n), ~(k >= s.first), n.keys[h] < k,
         NEW q, q = [s.right EXCEPT !.kids[1] = c],
         NEW r, r = InsertCell(q, s.first, s.right.kids[1]), r.res = "ok"
  PROVE  NodeDivided(n, i, a, z, k, c, k, s.left, r.node, h)
<1> DEFINE l == Len(n.keys)  f == s.first  d == s.right.kids[1]  m == Wide(n, i, k, c)  t == r.node
<1>1. n \in PageRec /\ l \in Nat /\ Len(n.kids) = l + 1 /\ k \in Nat /\ n.kids \in Seq(Nat)
      /\ \A x \in 1 .. l : n.keys[x] \in Nat /\ n.keys[x] \in Key
  <2>1. n \in PageRec /\ Len(n.kids) = l + 1
    BY DEF PageFits
  <2> QED BY <2>1, RecFields, Numbers
<1>2. h \in 1 .. l - 1
  BY <1>1, CutAt
<1>23. l \in Nat /\ h \in 1 .. l - 1 /\ Len(n.kids) = l + 1 /\ i \in 1 .. Len(n.kids)
  BY <1>1, <1>2
<1>3. /\ NodeCutKeys(n, s, h)
      /\ s.left \in PageRec /\ s.right \in PageRec
      /\ RoomFits(s.left) /\ RoomFits(s.right)
      /\ s.left.leaf = FALSE /\ s.right.leaf = FALSE
      /\ s.left.next = num /\ s.right.next = n.next
  BY NodeCut
<1>4. f = n.keys[h + 1] /\ h + 1 \in 1 .. l /\ h \in 1 .. l
  <2>1. h + 1 \in 1 .. l /\ h \in 1 .. l
    BY ONLY <1>23
  <2> QED BY <2>1, <1>3 DEF NodeCutKeys
<1>5. /\ \A x \in 1 .. l : a < n.keys[x] /\ n.keys[x] < z
      /\ \A x, y \in 1 .. l : x < y => n.keys[x] < n.keys[y]
  BY DEF PageFits, KeysRise
<1>6. f \in Key /\ f \in Nat /\ f < z /\ k < f /\ n.keys[h] \in Nat /\ a < n.keys[h] /\ a < k /\ k < z
  <2>1. f \in Key /\ f \in Nat /\ f < z /\ n.keys[h] \in Nat /\ a < n.keys[h]
    BY <1>1, <1>4, <1>5
  <2>2. k < f
    <3>1. ~(k >= f) /\ k \in Nat /\ f \in Nat
      BY <1>1, <2>1
    <3> QED BY ONLY <3>1
  <2>3. n.keys[h] < k /\ a \in Nat /\ z \in Nat /\ k \in Nat
    BY <1>1
  <2>4. a < k /\ k < z
    BY ONLY <2>1, <2>2, <2>3
  <2> QED BY <2>1, <2>2, <2>4
<1>7. PageFits(s.left, a, k) /\ PageFits(s.right, k, z)
  <2>1. h \in 1 .. Len(n.keys) - 1 /\ k < n.keys[h + 1]
    BY <1>2, <1>4, <1>6
  <2> HIDE DEF f, l
  <2> QED BY <2>1, <1>3, <1>6, NodeCutFits
<1>8. i = h + 1
  <2>1. CASE i <= h
    <3>1. i \in 1 .. l /\ i # Len(n.kids) /\ (i = h \/ i < h)
      BY ONLY <2>1, <1>23
    <3>2. k < n.keys[i]
      BY <3>1 DEF High
    <3>3. i < h => n.keys[i] < n.keys[h]
      BY <3>1, <1>4, <1>5
    <3>4. n.keys[i] \in Nat /\ n.keys[h] \in Nat /\ k \in Nat /\ n.keys[h] < k
      BY <3>1, <1>1, <1>6
    <3>5. n.keys[i] = n.keys[h] \/ n.keys[i] < n.keys[h]
      BY <3>1, <3>3
    <3> QED BY ONLY <3>2, <3>4, <3>5
  <2>2. CASE i > h + 1
    <3>1. i # 1 /\ i - 1 \in 1 .. l /\ (i - 1 = h + 1 \/ h + 1 < i - 1)
      BY ONLY <2>2, <1>23
    <3>2. n.keys[i - 1] < k
      BY <3>1 DEF Low
    <3>3. h + 1 < i - 1 => n.keys[h + 1] < n.keys[i - 1]
      BY <3>1, <1>4, <1>5
    <3>4. n.keys[i - 1] \in Nat /\ n.keys[h + 1] \in Nat /\ k \in Nat /\ k < n.keys[h + 1]
      BY <3>1, <1>1, <1>4, <1>6
    <3>5. n.keys[i - 1] = n.keys[h + 1] \/ n.keys[h + 1] < n.keys[i - 1]
      BY <3>1, <3>3
    <3> QED BY ONLY <3>2, <3>4, <3>5
  <2> QED BY <2>1, <2>2, <1>23
<1>9. Len(s.right.kids) = l - h /\ Len(s.right.keys) = l - h - 1 /\ 1 \in 1 .. l - h
  <2>1. 1 \in 1 .. l - h
    BY ONLY <1>23
  <2> QED BY <2>1, <1>3 DEF NodeCutKeys
<1>10. /\ PageFits(q, k, z) /\ RoomFits(q) /\ q.leaf = FALSE /\ q.next = n.next
       /\ q.keys = s.right.keys /\ Len(q.kids) = l - h /\ q.kids[1] = c
       /\ \A j \in 2 .. l - h : q.kids[j] = s.right.kids[j]
  <2> DEFINE g == s.right
  <2>1. PageFits(g, k, z) /\ g.leaf = FALSE /\ RoomFits(g) /\ q = [g EXCEPT !.kids[1] = c] /\ Len(g.kids) = l - h /\ g.next = n.next
    BY <1>3, <1>7, <1>9
  <2> HIDE DEF g
  <2>2. /\ PageFits(q, k, z) /\ RoomFits(q) /\ q.leaf = FALSE /\ q.next = g.next
        /\ q.keys = g.keys /\ Len(q.kids) = Len(g.kids) /\ q.kids[1] = c
        /\ \A j \in 2 .. Len(g.kids) : q.kids[j] = g.kids[j]
    <3>1. k \in Nat /\ z \in Nat /\ c \in Nat /\ PageFits(g, k, z) /\ ~g.leaf /\ RoomFits(g)
      BY <2>1, <1>1
    <3>2. q = WithFirst(g, c)
      BY <2>1 DEF WithFirst
    <3> HIDE DEF l, f, d
    <3>4. /\ PageFits(q, k, z) /\ RoomFits(q) /\ ~q.leaf /\ q.next = g.next
          /\ q.keys = g.keys /\ Len(q.kids) = Len(g.kids) /\ q.kids[1] = c
          /\ \A j \in 2 .. Len(g.kids) : q.kids[j] = g.kids[j]
      BY ONLY <3>1, <3>2, OtherFirst
    <3>5. q.leaf = FALSE
      <4>1. q \in PageRec /\ ~q.leaf
        BY <3>4 DEF PageFits
      <4>2. q.leaf \in BOOLEAN
        BY <4>1, RecFields
      <4> QED BY ONLY <4>1, <4>2
    <3> QED BY <3>4, <3>5
  <2> QED BY <2>1, <2>2 DEF g
<1>11. d \in Nat /\ d = n.kids[h + 2]
  <2>1. h + 1 + 1 = h + 2 /\ h + 2 \in 1 .. Len(n.kids)
    BY ONLY <1>23
  <2>2. d = n.kids[h + 1 + 1]
    BY <1>3, <1>9 DEF NodeCutKeys
  <2>3. n.kids[h + 2] \in Nat
    <3>1. n.kids \in Seq(Nat) /\ h + 2 \in 1 .. Len(n.kids)
      BY <1>1, <2>1
    <3> QED BY ONLY <3>1
  <2> QED BY <2>1, <2>2, <2>3
<1>12. Low(q, k, 1) < f /\ f < High(q, z, 1)
  <2> DEFINE b == High(q, z, 1)
  <2>1. Low(q, k, 1) = k
    BY DEF Low
  <2>2. CASE l - h = 1
    <3>1. b = z
      BY <2>2, <1>10 DEF High
    <3> HIDE DEF b, f
    <3>2. f < b
      BY ONLY <3>1, <1>6
    <3> QED BY ONLY <3>2, <2>1, <1>6 DEF b
  <2>3. CASE l - h # 1
    <3>1. 1 \in 1 .. l - h - 1 /\ h + 1 + 1 \in 1 .. l /\ h + 1 < h + 1 + 1
      BY ONLY <2>3, <1>23
    <3>2. q.keys[1] = n.keys[h + 1 + 1]
      BY <3>1, <1>3, <1>10 DEF NodeCutKeys
    <3>3. f < n.keys[h + 1 + 1]
      BY <3>1, <1>4, <1>5
    <3>4. b = q.keys[1]
      BY <2>3, <1>10 DEF High
    <3> HIDE DEF b, f
    <3>5. f < b
      BY ONLY <3>2, <3>3, <3>4
    <3> QED BY ONLY <3>5, <2>1, <1>6 DEF b
  <2> QED BY <2>2, <2>3
<1>13. Adopts(q, t, 1, f, d) /\ PageFits(t, k, z) /\ RoomFits(t)
  <2>1. ~q.leaf /\ 1 \in 1 .. Len(q.kids) /\ r = InsertCell(q, f, d)
    BY <1>9, <1>10
  <2>2. /\ k \in Nat /\ z \in Nat /\ PageFits(q, k, z) /\ ~q.leaf /\ RoomFits(q)
        /\ 1 \in 1 .. Len(q.kids) /\ f \in Key /\ Low(q, k, 1) < f /\ f < High(q, z, 1)
        /\ d \in Nat /\ r = InsertCell(q, f, d) /\ r.res = "ok"
    BY <2>1, <1>1, <1>6, <1>10, <1>11, <1>12
  <2> HIDE DEF f, d, l
  <2> QED BY ONLY <2>2, NodeTakes DEF t
<1>14. Adopts(n, m, i, k, c)
  BY WideAdopts
<1> HIDE DEF m, t
<1>15. /\ Len(m.keys) = l + 1 /\ Len(m.kids) = l + 2 /\ m.leaf = FALSE /\ m.next = n.next
       /\ \A j \in 1 .. l + 1 : m.keys[j] = IF j < i THEN n.keys[j] ELSE IF j = i THEN k ELSE n.keys[j - 1]
       /\ \A j \in 1 .. l + 2 : m.kids[j] = IF j <= i THEN n.kids[j] ELSE IF j = i + 1 THEN c ELSE n.kids[j - 1]
  <2>1. Len(n.kids) + 1 = l + 2
    BY <1>1
  <2> QED BY <2>1, <1>14 DEF Adopts
<1>16. /\ Len(t.keys) = l - h /\ Len(t.kids) = l - h + 1 /\ t.leaf = FALSE /\ t.next = n.next
       /\ \A j \in 1 .. l - h : t.keys[j] = IF j < 1 THEN q.keys[j] ELSE IF j = 1 THEN f ELSE q.keys[j - 1]
       /\ \A j \in 1 .. l - h + 1 : t.kids[j] = IF j <= 1 THEN q.kids[j] ELSE IF j = 1 + 1 THEN d ELSE q.kids[j - 1]
  <2>1. Len(q.keys) + 1 = l - h /\ Len(q.kids) = l - h
    <3>1. (l - h - 1) + 1 = l - h
      BY ONLY <1>23
    <3> QED BY <3>1, <1>9, <1>10
  <2> QED BY <2>1, <1>10, <1>13 DEF Adopts
<1>17. /\ \A x \in 1 .. h : s.left.keys[x] = n.keys[x]
       /\ \A x \in 1 .. h + 1 : s.left.kids[x] = n.kids[x]
       /\ \A x \in 1 .. l - h - 1 : q.keys[x] = n.keys[h + 1 + x]
       /\ \A x \in 2 .. l - h : q.kids[x] = n.kids[h + 1 + x]
       /\ Len(s.left.keys) = h
  <2>1. \A x \in 2 .. l - h : x \in 1 .. l - h
    BY <1>23
  <2> QED BY <2>1, <1>3, <1>10 DEF NodeCutKeys
<1>18. ASSUME NEW j \in 1 .. h PROVE s.left.keys[j] = m.keys[j]
  <2>1. j \in 1 .. l + 1 /\ j < i
    BY ONLY <1>8, <1>23
  <2> QED BY <2>1, <1>15, <1>17
<1>19. ASSUME NEW j \in 1 .. h + 1 PROVE s.left.kids[j] = m.kids[j]
  <2>1. j \in 1 .. l + 2 /\ j <= i
    BY ONLY <1>8, <1>23
  <2> QED BY <2>1, <1>15, <1>17
<1>20. ASSUME NEW j \in 1 .. l - h PROVE t.keys[j] = m.keys[j + (h + 1)]
  <2> DEFINE e == j + (h + 1)
  <2>1. e \in 1 .. l + 1 /\ ~(e < i) /\ e # i
    BY ONLY <1>8, <1>23
  <2>2. m.keys[e] = n.keys[e - 1]
    BY <2>1, <1>15
  <2>3. CASE j = 1
    <3>1. e - 1 = h + 1
      BY ONLY <2>3, <1>23
    <3>2. t.keys[j] = f
      <4>1. 1 \in 1 .. l - h /\ ~(1 < 1)
        BY ONLY <1>23
      <4>2. t.keys[1] = f
        BY <4>1, <1>16
      <4> QED BY <4>2, <2>3
    <3> QED BY <2>2, <3>1, <3>2, <1>4
  <2>4. CASE j # 1
    <3>1. ~(j < 1) /\ j - 1 \in 1 .. l - h - 1 /\ h + 1 + (j - 1) = e - 1
      BY ONLY <2>4, <1>23
    <3>2. t.keys[j] = q.keys[j - 1]
      BY <3>1, <2>4, <1>16
    <3>3. q.keys[j - 1] = n.keys[h + 1 + (j - 1)]
      BY <3>1, <1>17
    <3> QED BY <2>2, <3>1, <3>2, <3>3
  <2> QED BY <2>3, <2>4
<1>21. ASSUME NEW j \in 1 .. l - h + 1 PROVE t.kids[j] = m.kids[j + (h + 1)]
  <2> DEFINE e == j + (h + 1)
  <2>1. e \in 1 .. l + 2 /\ ~(e <= i)
    BY ONLY <1>8, <1>23
  <2>2. CASE j = 1
    <3>1. e = i + 1
      BY ONLY <2>2, <1>8, <1>23
    <3>2. m.kids[e] = c
      BY <2>1, <3>1, <1>15
    <3>3. t.kids[j] = q.kids[1]
      <4>1. 1 \in 1 .. l - h + 1 /\ 1 <= 1
        BY ONLY <1>23
      <4>2. t.kids[1] = q.kids[1]
        BY <4>1, <1>16
      <4> QED BY <4>2, <2>2
    <3> QED BY <3>2, <3>3, <1>10
  <2>3. CASE j = 2
    <3>1. e # i + 1 /\ e - 1 = h + 2 /\ ~(j <= 1) /\ j = 1 + 1
      BY ONLY <2>3, <1>8, <1>23
    <3>2. m.kids[e] = n.kids[e - 1]
      BY <2>1, <3>1, <1>15
    <3>3. t.kids[j] = d
      BY <3>1, <1>16
    <3> QED BY <3>1, <3>2, <3>3, <1>11
  <2>4. CASE j > 2
    <3>1. e # i + 1 /\ j - 1 \in 2 .. l - h /\ h + 1 + (j - 1) = e - 1 /\ ~(j <= 1) /\ j # 1 + 1
      BY ONLY <2>4, <1>8, <1>23
    <3>2. m.kids[e] = n.kids[e - 1]
      BY <2>1, <3>1, <1>15
    <3>3. t.kids[j] = q.kids[j - 1]
      BY <3>1, <1>16
    <3>4. q.kids[j - 1] = n.kids[h + 1 + (j - 1)]
      BY <3>1, <1>17
    <3> QED BY <3>1, <3>2, <3>3, <3>4
  <2> QED BY <2>2, <2>3, <2>4
<1>22. m.keys[h + 1] = k
  <2>1. h + 1 \in 1 .. l + 1 /\ ~(h + 1 < i) /\ h + 1 = i
    BY ONLY <1>8, <1>23
  <2> QED BY <2>1, <1>15
<1>24. Halves(m, s.left, t, a, k, z, h + 1)
  <2>1. h + 1 \in 1 .. Len(m.keys) /\ Len(s.left.keys) = (h + 1) - 1 /\ Len(t.keys) = Len(m.keys) - (h + 1)
    <3>1. h + 1 \in 1 .. l + 1 /\ h = (h + 1) - 1 /\ l - h = (l + 1) - (h + 1)
      BY ONLY <1>23
    <3> QED BY <3>1, <1>15, <1>16, <1>17
  <2>2. \A j \in 1 .. (h + 1) - 1 : s.left.keys[j] = m.keys[j]
    BY <1>18, <1>2
  <2>3. Len(m.keys) - (h + 1) = l - h /\ Len(m.keys) + 1 - (h + 1) = l - h + 1
    <3> HIDE DEF l
    <3>1. (l + 1) - (h + 1) = l - h /\ (l + 1) + 1 - (h + 1) = l - h + 1
      BY ONLY <1>23
    <3> QED BY <3>1, <1>15
  <2>4. s.left.leaf = m.leaf /\ t.leaf = m.leaf /\ t.next = m.next
    BY <1>3, <1>15, <1>16
  <2> HIDE DEF f, l
  <2>5. \A j \in 1 .. Len(m.keys) - (h + 1) : t.keys[j] = m.keys[j + (h + 1)]
    BY <2>3, <1>20
  <2>6. \A j \in 1 .. Len(m.keys) + 1 - (h + 1) : t.kids[j] = m.kids[j + (h + 1)]
    BY <2>3, <1>21
  <2> QED BY <2>1, <2>2, <2>4, <2>5, <2>6, <1>7, <1>13, <1>19, <1>22 DEF Halves
<1> QED BY <1>3, <1>6, <1>13, <1>16, <1>24 DEF NodeDivided, m, t

(* A split of an internal page, whatever side the cell goes to.            *)
LEMMA NodeSplits ==
  ASSUME NEW n, NEW a \in Nat, NEW z \in Nat, PageFits(n, a, z), ~n.leaf, RoomFits(n),
         Len(n.keys) >= 2, num \in Nat,
         NEW i \in 1 .. Len(n.kids), NEW k \in Key, Low(n, a, i) < k, k < High(n, z, i),
         NEW c \in Nat, n.keys[KeptBySplit(n)] < k, NEW s, s = Split(n),
         NEW r, r = InsertCell(NodeTarget(s, k, c), NodeKey(s, k), NodeChild(s, k, c)), r.res = "ok"
  PROVE  NodeDivided(n, i, a, z, k, c, NodeUp(s, k), s.left, r.node, KeptBySplit(n))
<1> DEFINE h == KeptBySplit(n)  q == [s.right EXCEPT !.kids[1] = c]
<1>1. CASE k >= s.first
  <2>1. r = InsertCell(s.right, k, c) /\ NodeUp(s, k) = s.first
    BY <1>1 DEF NodeTarget, NodeKey, NodeChild, NodeUp
  <2>2. NodeDivided(n, i, a, z, k, c, s.first, s.left, r.node, h)
    BY <1>1, <2>1, NodeSplitsRight
  <2> QED BY <2>1, <2>2
<1>2. CASE ~(k >= s.first)
  <2>1. r = InsertCell(q, s.first, s.right.kids[1]) /\ NodeUp(s, k) = k
    BY <1>2 DEF NodeTarget, NodeKey, NodeChild, NodeUp
  <2> HIDE DEF q
  <2>2. q = [s.right EXCEPT !.kids[1] = c]
    BY DEF q
  <2>3. NodeDivided(n, i, a, z, k, c, k, s.left, r.node, h)
    BY <1>2, <2>1, <2>2, NodeSplitsLeft
  <2> QED BY <2>1, <2>3
<1> QED BY <1>1, <1>2

-----------------------------------------------------------------------------
(* Every step of a way is one level down, so that no page is on it twice.  *)
LEMMA WayHeights ==
  ASSUME NEW pgs, NEW rt, NEW h, NEW lo, NEW hi, NEW x, NEW y, Tree(pgs, rt, h, lo, hi, x, y),
         NEW from, NEW p, Way(pgs, from, p)
  PROVE  \A i \in 1 .. Len(p) : h[p[i].page] + i = h[from] + 1
<1> DEFINE S == {i \in 1 .. Len(p) : h[p[i].page] + i = h[from] + 1}
<1>1. /\ p \in Seq(Step) /\ Len(p) \in Nat /\ Len(p) > 0 /\ p[1].page = from
      /\ \A i \in 1 .. Len(p) : p[i].page \in DOMAIN pgs
  BY DEF Way
<1>2. \A i \in 1 .. Len(p) : h[p[i].page] \in Nat
  BY <1>1, Bounds
<1>3. 1 \in S
  <2>1. 1 \in 1 .. Len(p)
    BY <1>1
  <2> QED BY <2>1, <1>1, <1>2
<1>4. \A i \in 1 .. Len(p) : i > 1 /\ i - 1 \in S => i \in S
  <2> SUFFICES ASSUME NEW i \in 1 .. Len(p), i > 1, i - 1 \in S PROVE i \in S
    OBVIOUS
  <2>1. i - 1 \in 1 .. Len(p) - 1 /\ (i - 1) + 1 = i /\ i - 1 \in 1 .. Len(p)
    BY <1>1
  <2> DEFINE q == p[i - 1].page  j == p[i - 1].idx + 1
  <2>2. q \in DOMAIN pgs /\ j \in 1 .. Len(pgs[q].kids) /\ p[i].page = pgs[q].kids[j]
    BY <2>1, <1>1 DEF Way
  <2>3. KidFits(pgs, h, lo, hi, x, y, q, j)
    BY <2>2, KidOf
  <2>4. h[q] = h[p[i].page] + 1 /\ h[q] + (i - 1) = h[from] + 1
    BY <2>2, <2>3 DEF KidFits
  <2>5. h[p[i].page] \in Nat /\ i \in Nat
    BY <1>2
  <2> HIDE DEF q
  <2>6. h[p[i].page] + i = h[from] + 1
    BY ONLY <2>4, <2>5
  <2> QED BY <2>6
<1>5. \A i \in 1 .. Len(p) : i \in S
  <2>1. 1 \in Nat /\ Len(p) \in Nat
    BY <1>1
  <2> HIDE DEF S
  <2> QED BY ONLY <2>1, <1>3, <1>4, StepInduction
<1> QED BY <1>5

(* A way meets its last page only at its end.                              *)
LEMMA WayOnce ==
  ASSUME NEW pgs, NEW rt, NEW h, NEW lo, NEW hi, NEW x, NEW y, Tree(pgs, rt, h, lo, hi, x, y),
         NEW from, NEW p, Way(pgs, from, p)
  PROVE  \A i \in 1 .. Len(p) - 1 : p[i].page # p[Len(p)].page
<1>1. Len(p) \in Nat /\ \A i \in 1 .. Len(p) : p[i].page \in DOMAIN pgs
  BY DEF Way
<1>2. \A i \in 1 .. Len(p) : h[p[i].page] + i = h[from] + 1
  BY WayHeights
<1> TAKE i \in 1 .. Len(p) - 1
<1>3. i \in 1 .. Len(p) /\ Len(p) \in 1 .. Len(p) /\ i < Len(p)
  BY <1>1
<1>4. /\ h[p[i].page] + i = h[from] + 1 /\ h[p[Len(p)].page] + Len(p) = h[from] + 1
      /\ h[p[i].page] \in Nat /\ i \in Nat /\ Len(p) \in Nat
  BY <1>1, <1>2, <1>3, Bounds
<1> DEFINE a == h[p[i].page]  b == h[p[Len(p)].page]  c == h[from] + 1
<1>5. a + i = c /\ b + Len(p) = c /\ a \in Nat /\ i \in Nat /\ Len(p) \in Nat /\ i < Len(p)
  BY <1>4, <1>3
<1>6. a # b
  <2> HIDE DEF a, b, c
  <2> QED BY ONLY <1>5
<1> QED BY <1>6

(* A way stays one when only the page at its end changes, or others come.  *)
LEMMA WayKept ==
  ASSUME NEW pgs, NEW new, NEW from, NEW p, Way(pgs, from, p),
         \A i \in 1 .. Len(p) - 1 : p[i].page # p[Len(p)].page,
         DOMAIN pgs \subseteq DOMAIN new,
         \A id \in DOMAIN pgs : id # p[Len(p)].page => new[id] = pgs[id]
  PROVE  Way(new, from, p)
<1>1. \A i \in 1 .. Len(p) : p[i].page \in DOMAIN new
  BY DEF Way
<1>2. ASSUME NEW i \in 1 .. Len(p) - 1
      PROVE  /\ p[i].idx + 1 \in 1 .. Len(new[p[i].page].kids)
             /\ p[i + 1].page = new[p[i].page].kids[p[i].idx + 1]
  <2>1. i \in 1 .. Len(p)
    BY DEF Way
  <2>2. p[i].page \in DOMAIN pgs /\ p[i].page # p[Len(p)].page
    BY <2>1 DEF Way
  <2>3. new[p[i].page] = pgs[p[i].page]
    BY <2>2
  <2> QED BY <2>3 DEF Way
<1> QED BY <1>1, <1>2 DEF Way

(* A way without its last entry.                                           *)
LEMMA FrontOf ==
  ASSUME NEW S, NEW s \in Seq(S), Len(s) > 0
  PROVE  Front(s) \in Seq(S) /\ Len(Front(s)) = Len(s) - 1 /\ (Front(s) = << >> => Len(s) = 1)
<1> DEFINE d == Len(s) - 1
<1>1. d \in 0 .. Len(s) /\ 1 \in 1 .. Len(s) + 1 /\ 1 <= d + 1 /\ (d - 1) + 1 = d /\ Len(s) \in Nat
  OBVIOUS
<1>2. Front(s) = SubSeq(s, 1, d)
  BY DEF Front
<1> HIDE DEF d
<1>3. SubSeq(s, 1, d) \in Seq(S) /\ Len(SubSeq(s, 1, d)) = (d - 1) + 1
  BY <1>1, PartSeq
<1>4. Front(s) \in Seq(S) /\ Len(Front(s)) = d
  BY <1>1, <1>2, <1>3
<1>5. Front(s) = << >> => Len(s) = 1
  <2> SUFFICES ASSUME Front(s) = << >> PROVE Len(s) = 1
    OBVIOUS
  <2>1. Len(Front(s)) = 0
    OBVIOUS
  <2>2. d = 0
    BY <2>1, <1>4
  <2> QED BY <2>2, <1>1 DEF d
<1> QED BY <1>4, <1>5 DEF d

(* The way to the page above the last one.                                 *)
LEMMA WayUp ==
  ASSUME NEW pgs, NEW from, NEW p, Way(pgs, from, p), Front(p) # << >>
  PROVE  /\ Way(pgs, from, Front(p))
         /\ LET e == Last(Front(p))
            IN  /\ e.page \in DOMAIN pgs /\ e.idx \in Nat
                /\ e.idx + 1 \in 1 .. Len(pgs[e.page].kids)
                /\ pgs[e.page].kids[e.idx + 1] = Last(p).page
<1>1. p \in Seq(Step) /\ Len(p) \in Nat /\ Len(p) > 0 /\ p[1].page = from
  BY DEF Way
<1> DEFINE f == Front(p)  l == Len(p)
<1>2. f = SubSeq(p, 1, l - 1)
  BY DEF Front
<1>3. f \in Seq(Step) /\ Len(f) = l - 1 /\ \A i \in 1 .. l - 1 : f[i] = p[i]
  BY <1>1, <1>2
<1>4. l > 1
  <2>1. f \in Seq(Step) /\ Len(f) = l - 1 /\ f # << >> /\ l \in Nat
    BY <1>1, <1>3
  <2> HIDE DEF f, l
  <2>2. Len(f) # 0
    BY ONLY <2>1
  <2> QED BY <2>1, <2>2, <1>1 DEF l
<1>5. /\ l - 1 \in 1 .. l - 1 /\ 1 \in 1 .. l - 1 /\ (l - 1) + 1 = l
      /\ \A i \in 1 .. l - 1 : i \in 1 .. l
      /\ \A i \in 1 .. l - 1 - 1 : i \in 1 .. l - 1 /\ i + 1 \in 1 .. l - 1
  BY <1>1, <1>4
<1> HIDE DEF f, l
<1>6. Way(pgs, from, f)
  <2>1. \A i \in 1 .. Len(f) : f[i].page \in DOMAIN pgs
    BY <1>3, <1>5 DEF Way, l
  <2>2. ASSUME NEW i \in 1 .. Len(f) - 1
        PROVE  /\ f[i].idx + 1 \in 1 .. Len(pgs[f[i].page].kids)
               /\ f[i + 1].page = pgs[f[i].page].kids[f[i].idx + 1]
    <3>1. i \in 1 .. l - 1 /\ i + 1 \in 1 .. l - 1
      BY <1>3, <1>5
    <3>2. f[i] = p[i] /\ f[i + 1] = p[i + 1]
      BY <3>1, <1>3
    <3> QED BY <3>1, <3>2 DEF Way, l
  <2>3. f[1].page = from /\ Len(f) > 0
    <3>1. f[1] = p[1]
      BY <1>3, <1>5
    <3>2. Len(f) > 0
      BY <1>3, <1>4, <1>1 DEF l
    <3> QED BY <3>1, <3>2, <1>1
  <2> QED BY <1>3, <2>1, <2>2, <2>3 DEF Way
<1>7. Last(f) = p[l - 1] /\ Last(p) = p[l]
  BY <1>3, <1>5 DEF Last, l
<1>8. /\ p[l - 1].page \in DOMAIN pgs /\ p[l - 1].idx \in Nat
      /\ p[l - 1].idx + 1 \in 1 .. Len(pgs[p[l - 1].page].kids)
      /\ p[(l - 1) + 1].page = pgs[p[l - 1].page].kids[p[l - 1].idx + 1]
  <2>1. p[l - 1] \in Step
    BY <1>1, <1>5 DEF l
  <2> QED BY <2>1, <1>5 DEF Way, Step, l
<1> QED BY <1>5, <1>6, <1>7, <1>8 DEF f

(* A way of one page.                                                      *)
LEMMA WayOfOne ==
  ASSUME NEW pgs, NEW from, NEW p, Way(pgs, from, p), Front(p) = << >>
  PROVE  Last(p).page = from
<1>1. p \in Seq(Step) /\ Len(p) \in Nat /\ Len(p) > 0 /\ p[1].page = from
  BY DEF Way
<1>2. Len(p) = 1
  BY <1>1, FrontOf
<1> QED BY <1>1, <1>2 DEF Last

-----------------------------------------------------------------------------
(* Rows when leaves change.                                                *)
LEMMA RowsGain ==
  ASSUME NEW pgs, NEW new, NEW id, NEW m, Changed(pgs, new, id, m), pgs[id].leaf, m.leaf,
         NEW k \in Key, KeysIn(m) = KeysIn(pgs[id]) \cup {k}
  PROVE  RowsIn(new) = RowsIn(pgs) \cup {k}
<1>1. id \in DOMAIN pgs /\ DOMAIN new = DOMAIN pgs /\ new[id] = m /\ \A p \in DOMAIN pgs : p # id => new[p] = pgs[p]
  BY DEF Changed
<1>2. ASSUME NEW j \in RowsIn(new) PROVE j \in RowsIn(pgs) \cup {k}
  <2>1. PICK p \in DOMAIN new : new[p].leaf /\ j \in KeysIn(new[p])
    BY DEF RowsIn
  <2>2. j \in Key
    BY DEF RowsIn
  <2>3. CASE p = id
    BY <2>1, <2>2, <2>3, <1>1 DEF RowsIn
  <2>4. CASE p # id
    BY <2>1, <2>2, <2>4, <1>1 DEF RowsIn
  <2> QED BY <2>3, <2>4
<1>3. ASSUME NEW j \in RowsIn(pgs) PROVE j \in RowsIn(new)
  <2>1. PICK p \in DOMAIN pgs : pgs[p].leaf /\ j \in KeysIn(pgs[p])
    BY DEF RowsIn
  <2>2. j \in Key
    BY DEF RowsIn
  <2>3. new[p].leaf /\ j \in KeysIn(new[p])
    BY <2>1, <1>1
  <2> QED BY <2>1, <2>2, <2>3, <1>1 DEF RowsIn
<1>4. k \in RowsIn(new)
  BY <1>1 DEF RowsIn
<1> QED BY <1>2, <1>3, <1>4

(* A key is in one leaf only.                                              *)
LEMMA OneLeaf ==
  ASSUME NEW pgs, NEW rt, NEW h, NEW lo, NEW hi, NEW x, NEW y, Tree(pgs, rt, h, lo, hi, x, y),
         NEW p \in DOMAIN pgs, NEW q \in DOMAIN pgs, pgs[p].leaf, pgs[q].leaf,
         NEW k, k \in KeysIn(pgs[p]), k \in KeysIn(pgs[q])
  PROVE  p = q
<1>1. ASSUME NEW r \in DOMAIN pgs, pgs[r].leaf, k \in KeysIn(pgs[r])
      PROVE  lo[r] \in Nat /\ hi[r] \in Nat /\ h[r] = 0 /\ lo[r] <= k /\ k < hi[r] /\ k \in Nat
  <2>1. PageFits(pgs[r], lo[r], hi[r]) /\ lo[r] \in Nat /\ hi[r] \in Nat /\ h[r] = 0
    BY <1>1, Bounds
  <2>2. PICK i \in 1 .. Len(pgs[r].keys) : k = pgs[r].keys[i]
    BY <1>1 DEF KeysIn
  <2>3. lo[r] <= k /\ k < hi[r]
    BY <2>1, <2>2 DEF PageFits
  <2>4. k \in Nat
    BY <2>1, <2>2, RecFields, Numbers DEF PageFits
  <2> QED BY <2>1, <2>3, <2>4
<1>2. p # q => hi[p] <= lo[q] \/ hi[q] <= lo[p]
  BY <1>1 DEF Tree, LevelsApart
<1>3. /\ lo[p] \in Nat /\ hi[p] \in Nat /\ lo[p] <= k /\ k < hi[p] /\ k \in Nat
      /\ lo[q] \in Nat /\ hi[q] \in Nat /\ lo[q] <= k /\ k < hi[q]
  BY <1>1
<1> QED BY ONLY <1>2, <1>3

(* A leaf that loses a key takes it from the rows.                         *)
LEMMA RowsLose ==
  ASSUME NEW pgs, NEW new, NEW rt, NEW h, NEW lo, NEW hi, NEW x, NEW y, Tree(pgs, rt, h, lo, hi, x, y),
         NEW id, NEW m, Changed(pgs, new, id, m), pgs[id].leaf, m.leaf,
         NEW k, k \in KeysIn(pgs[id]), KeysIn(m) = KeysIn(pgs[id]) \ {k}
  PROVE  RowsIn(new) = RowsIn(pgs) \ {k}
<1>1. id \in DOMAIN pgs /\ DOMAIN new = DOMAIN pgs /\ new[id] = m /\ \A p \in DOMAIN pgs : p # id => new[p] = pgs[p]
  BY DEF Changed
<1>2. ASSUME NEW j \in RowsIn(new) PROVE j \in RowsIn(pgs) /\ j # k
  <2>1. PICK p \in DOMAIN new : new[p].leaf /\ j \in KeysIn(new[p])
    BY DEF RowsIn
  <2>2. j \in Key
    BY DEF RowsIn
  <2>3. CASE p = id
    BY <2>1, <2>2, <2>3, <1>1 DEF RowsIn
  <2>4. CASE p # id
    <3>1. p \in DOMAIN pgs /\ pgs[p].leaf /\ j \in KeysIn(pgs[p])
      BY <2>1, <2>4, <1>1
    <3>2. j # k
      BY <3>1, <2>4, <1>1, OneLeaf
    <3> QED BY <3>1, <3>2, <2>2 DEF RowsIn
  <2> QED BY <2>3, <2>4
<1>3. ASSUME NEW j \in RowsIn(pgs), j # k PROVE j \in RowsIn(new)
  <2>1. PICK p \in DOMAIN pgs : pgs[p].leaf /\ j \in KeysIn(pgs[p])
    BY DEF RowsIn
  <2>2. j \in Key
    BY DEF RowsIn
  <2>3. new[p].leaf /\ j \in KeysIn(new[p])
    BY <2>1, <1>1, <1>3
  <2> QED BY <2>1, <2>2, <2>3, <1>1 DEF RowsIn
<1> QED BY <1>2, <1>3

(* The halves of a leaf have its rows.                                     *)
LEMMA RowsSplit ==
  ASSUME NEW pgs, NEW new, NEW id \in DOMAIN pgs, NEW y, y \notin DOMAIN pgs, NEW l, NEW r,
         SplitPages(pgs, new, id, y, l, r), pgs[id].leaf, l.leaf, r.leaf,
         NEW k \in Key, KeysIn(l) \cup KeysIn(r) = KeysIn(pgs[id]) \cup {k}
  PROVE  RowsIn(new) = RowsIn(pgs) \cup {k}
<1>1. /\ DOMAIN new = DOMAIN pgs \cup {y} /\ new[id] = l /\ new[y] = r
      /\ \A p \in DOMAIN pgs : p # id => new[p] = pgs[p]
  BY DEF SplitPages
<1>2. ASSUME NEW j \in RowsIn(new) PROVE j \in RowsIn(pgs) \cup {k}
  <2>1. PICK p \in DOMAIN new : new[p].leaf /\ j \in KeysIn(new[p])
    BY DEF RowsIn
  <2>2. j \in Key
    BY DEF RowsIn
  <2>3. CASE p = id \/ p = y
    <3>1. j \in KeysIn(l) \cup KeysIn(r)
      BY <2>1, <2>3, <1>1
    <3>2. j \in KeysIn(pgs[id]) \/ j = k
      BY <3>1
    <3> QED BY <3>2, <2>2 DEF RowsIn
  <2>4. CASE p # id /\ p # y
    BY <2>1, <2>2, <2>4, <1>1 DEF RowsIn
  <2> QED BY <2>3, <2>4
<1>3. ASSUME NEW j \in Key, j \in KeysIn(l) \cup KeysIn(r) PROVE j \in RowsIn(new)
  BY <1>1, <1>3 DEF RowsIn
<1>4. ASSUME NEW j \in RowsIn(pgs) PROVE j \in RowsIn(new)
  <2>1. PICK p \in DOMAIN pgs : pgs[p].leaf /\ j \in KeysIn(pgs[p])
    BY DEF RowsIn
  <2>2. j \in Key
    BY DEF RowsIn
  <2>3. CASE p = id
    BY <2>1, <2>2, <2>3, <1>3
  <2>4. CASE p # id
    <3>1. p \in DOMAIN new /\ new[p].leaf /\ j \in KeysIn(new[p])
      BY <2>1, <2>4, <1>1
    <3> QED BY <3>1, <2>2 DEF RowsIn
  <2> QED BY <2>3, <2>4
<1>5. k \in RowsIn(new)
  BY <1>3
<1> QED BY <1>2, <1>4, <1>5

(* Leaves are as they were, only internal pages changed or came.           *)
SameLeaves(pgs, new) ==
  /\ \A id \in DOMAIN pgs : pgs[id].leaf => id \in DOMAIN new /\ new[id] = pgs[id]
  /\ \A id \in DOMAIN new : new[id].leaf => id \in DOMAIN pgs /\ new[id] = pgs[id]

(* Then the rows are the same.                                             *)
LEMMA RowsSame ==
  ASSUME NEW pgs, NEW new, SameLeaves(pgs, new)
  PROVE  RowsIn(new) = RowsIn(pgs)
<1>1. ASSUME NEW j \in RowsIn(new) PROVE j \in RowsIn(pgs)
  <2>1. PICK p \in DOMAIN new : new[p].leaf /\ j \in KeysIn(new[p])
    BY DEF RowsIn
  <2> QED BY <2>1 DEF RowsIn, SameLeaves
<1>2. ASSUME NEW j \in RowsIn(pgs) PROVE j \in RowsIn(new)
  <2>1. PICK p \in DOMAIN pgs : pgs[p].leaf /\ j \in KeysIn(pgs[p])
    BY DEF RowsIn
  <2> QED BY <2>1 DEF RowsIn, SameLeaves
<1> QED BY <1>1, <1>2

-----------------------------------------------------------------------------
(* The way to the last leaf, and the largest key.                          *)
ToLast(pgs) == [id \in DOMAIN pgs |-> Cells(pgs[id])]

(* The way to the last leaf has pages at the end of their levels.          *)
LEMMA LastWay ==
  ASSUME NEW pgs, NEW rt, NEW h, NEW lo, NEW hi, Whole(pgs, rt, h, lo, hi),
         NEW p, p = Descent(pgs, rt, ToLast(pgs))
  PROVE  /\ GoodWay(pgs, ToLast(pgs), rt, p, h[rt])
         /\ \A i \in 1 .. Len(p) : hi[p[i].page] = MaxKey + 1
<1>0. Tree(pgs, rt, h, lo, hi, rt, rt)
  BY DEF Whole
<1>1. rt \in DOMAIN pgs /\ hi[rt] = MaxKey + 1
  BY <1>0 DEF Tree, RootFits, EndOf
<1>2. ASSUME NEW id \in DOMAIN pgs, ~pgs[id].leaf
      PROVE  Cells(pgs[id]) \in Nat /\ Cells(pgs[id]) + 1 \in 1 .. Len(pgs[id].kids) /\ Cells(pgs[id]) + 1 = Len(pgs[id].kids)
  <2>1. PageFits(pgs[id], lo[id], hi[id])
    BY <1>0, Bounds
  <2>2. Len(pgs[id].kids) = Len(pgs[id].keys) + 1 /\ Len(pgs[id].keys) \in Nat
    BY <2>1, <1>2, RecFields DEF PageFits
  <2> QED BY <2>2 DEF Cells
<1>3. Chosen(pgs, ToLast(pgs))
  BY <1>2 DEF Chosen, ToLast
<1>4. GoodWay(pgs, ToLast(pgs), rt, p, h[rt])
  BY <1>0, <1>1, <1>3, DescentIsWay
<1>5. Way(pgs, rt, p) /\ ByIndex(pgs, p, ToLast(pgs))
  BY <1>4 DEF GoodWay
<1> DEFINE S == {id \in DOMAIN pgs : hi[id] = MaxKey + 1}
<1>6. \A i \in 1 .. Len(p) - 1 : p[i].page \in S => p[i + 1].page \in S
  <2> SUFFICES ASSUME NEW i \in 1 .. Len(p) - 1, p[i].page \in S PROVE p[i + 1].page \in S
    OBVIOUS
  <2> DEFINE q == p[i].page  j == p[i].idx + 1
  <2>1. /\ j \in 1 .. Len(pgs[q].kids) /\ p[i + 1].page = pgs[q].kids[j]
        /\ i \in 1 .. Len(p) /\ i + 1 \in 1 .. Len(p) /\ p[i + 1].page \in DOMAIN pgs
    BY <1>5 DEF Way
  <2>2. q \in DOMAIN pgs /\ PageFits(pgs[q], lo[q], hi[q])
    BY <1>0, Bounds
  <2>3. ~pgs[q].leaf
    BY <2>1, <2>2 DEF PageFits
  <2>4. p[i].idx = Cells(pgs[q])
    BY <2>1, <2>2, <2>3, <1>5 DEF ByIndex, ToLast
  <2>5. j = Len(pgs[q].kids)
    BY <2>2, <2>3, <2>4, <1>2
  <2>6. KidFits(pgs, h, lo, hi, rt, rt, q, j)
    BY <1>0, <2>1, <2>2, KidOf
  <2>7. EndOf(hi, rt, rt, p[i + 1].page) = hi[q]
    BY <2>1, <2>5, <2>6 DEF KidFits, High
  <2> QED BY <2>1, <2>7 DEF EndOf
<1>7. \A i \in 1 .. Len(p) : p[i].page \in S
  <2> HIDE DEF S
  <2>1. rt \in S
    BY <1>1 DEF S
  <2> QED BY <1>5, <1>6, <2>1, DownTheWay
<1> QED BY <1>4, <1>7

(* The last key of the last leaf is the largest row.                       *)
LEMMA LastKey ==
  ASSUME NEW pgs, NEW rt, NEW h, NEW lo, NEW hi, Whole(pgs, rt, h, lo, hi),
         NEW id \in DOMAIN pgs, pgs[id].leaf, hi[id] = MaxKey + 1,
         Len(pgs[id].keys) # 0, NEW b, b = Last(pgs[id].keys)
  PROVE  /\ b \in Key /\ lo[id] <= b /\ b \in RowsIn(pgs)
         /\ \A j \in RowsIn(pgs) : j <= b
<1>0. Tree(pgs, rt, h, lo, hi, rt, rt)
  BY DEF Whole
<1> DEFINE n == pgs[id]  l == Len(n.keys)
<1>1. PageFits(n, lo[id], hi[id]) /\ lo[id] \in Nat /\ h[id] = 0
  BY <1>0, Bounds
<1>2. n \in PageRec /\ l \in Nat /\ l \in 1 .. l /\ \A i \in 1 .. l : n.keys[i] \in Key /\ n.keys[i] \in Nat
  <2>1. n \in PageRec
    BY <1>1 DEF PageFits
  <2> QED BY <2>1, RecFields, Numbers
<1>3. b = n.keys[l] /\ b \in Key /\ b \in Nat /\ lo[id] <= b
  BY <1>1, <1>2 DEF Last, PageFits
<1>4. b \in RowsIn(pgs)
  BY <1>2, <1>3 DEF RowsIn, KeysIn
<1>5. ASSUME NEW j \in RowsIn(pgs) PROVE j <= b
  <2>1. PICK q \in DOMAIN pgs : pgs[q].leaf /\ j \in KeysIn(pgs[q])
    BY DEF RowsIn
  <2>2. PageFits(pgs[q], lo[q], hi[q]) /\ lo[q] \in Nat /\ hi[q] \in Nat /\ h[q] = 0 /\ lo[q] < hi[q] /\ hi[q] <= MaxKey + 1
    BY <1>0, <2>1, Bounds
  <2>3. PICK i \in 1 .. Len(pgs[q].keys) : j = pgs[q].keys[i]
    BY <2>1 DEF KeysIn
  <2>4. j < hi[q] /\ j \in Nat
    <3>1. pgs[q] \in PageRec
      BY <2>2 DEF PageFits
    <3> QED BY <3>1, <2>2, <2>3, RecFields, Numbers DEF PageFits
  <2>5. CASE q # id
    <3>1. hi[q] <= lo[id] \/ hi[id] <= lo[q]
      BY <2>2, <2>5, <1>0, <1>1 DEF Tree, LevelsApart
    <3>2. MaxKey \in Nat
      BY Numbers
    <3> QED BY <3>1, <3>2, <2>2, <2>4, <1>1, <1>3
  <2>6. CASE q = id
    <3>1. i \in 1 .. l /\ (i = l \/ i < l)
      BY <2>6, <1>2
    <3>2. i < l => n.keys[i] < n.keys[l]
      BY <3>1, <1>1, <1>2 DEF PageFits, KeysRise
    <3> QED BY <3>1, <3>2, <2>3, <2>6, <1>2, <1>3
  <2> QED BY <2>5, <2>6
<1> QED BY <1>3, <1>4, <1>5

-----------------------------------------------------------------------------
(* As many levels are below a page as the way down to its leftmost leaf    *)
(* has steps.                                                              *)
LEMMA LeftmostWay ==
  ASSUME NEW pgs, NEW rt, NEW h, NEW lo, NEW hi, NEW x, NEW y, Tree(pgs, rt, h, lo, hi, x, y),
         NEW id \in DOMAIN pgs, NEW p, p = Leftmost(pgs, id)
  PROVE  Way(pgs, id, p) /\ pgs[Last(p).page].leaf /\ Len(p) = h[id] + 1 /\ lo[Last(p).page] = lo[id]
<1> DEFINE idx == [q \in DOMAIN pgs |-> 0]
<1>1. p = Descent(pgs, id, idx)
  BY DEF Leftmost
<1>2. Chosen(pgs, idx)
  <2> SUFFICES ASSUME NEW q \in DOMAIN pgs, ~pgs[q].leaf PROVE 0 + 1 \in 1 .. Len(pgs[q].kids)
    BY DEF Chosen
  <2>1. PageFits(pgs[q], lo[q], hi[q])
    BY Bounds
  <2>2. Len(pgs[q].kids) = Len(pgs[q].keys) + 1 /\ Len(pgs[q].keys) \in Nat
    BY <2>1, RecFields DEF PageFits
  <2> QED BY <2>2
<1>3. GoodWay(pgs, idx, id, p, h[id])
  <2> HIDE DEF idx
  <2> QED BY <1>1, <1>2, DescentIsWay
<1>4. Way(pgs, id, p) /\ ByIndex(pgs, p, idx) /\ Len(p) = h[id] + 1
  BY <1>3 DEF GoodWay
<1> DEFINE S == {q \in DOMAIN pgs : lo[q] = lo[id]}
<1>5. \A i \in 1 .. Len(p) - 1 : p[i].page \in S => p[i + 1].page \in S
  <2> SUFFICES ASSUME NEW i \in 1 .. Len(p) - 1, p[i].page \in S PROVE p[i + 1].page \in S
    OBVIOUS
  <2> DEFINE q == p[i].page  j == p[i].idx + 1
  <2>1. /\ j \in 1 .. Len(pgs[q].kids) /\ p[i + 1].page = pgs[q].kids[j]
        /\ i \in 1 .. Len(p) /\ i + 1 \in 1 .. Len(p) /\ p[i + 1].page \in DOMAIN pgs
    BY <1>4 DEF Way
  <2>2. q \in DOMAIN pgs /\ PageFits(pgs[q], lo[q], hi[q])
    BY Bounds
  <2>3. ~pgs[q].leaf
    BY <2>1, <2>2 DEF PageFits
  <2>4. p[i].idx = 0
    BY <2>1, <2>2, <2>3, <1>4 DEF ByIndex
  <2>5. j = 1
    BY <2>4
  <2>6. KidFits(pgs, h, lo, hi, x, y, q, j)
    BY <2>1, <2>2, KidOf
  <2>7. lo[p[i + 1].page] = lo[q]
    BY <2>1, <2>5, <2>6 DEF KidFits, Low
  <2> QED BY <2>1, <2>7
<1>6. \A i \in 1 .. Len(p) : p[i].page \in S
  <2>1. id \in S
    OBVIOUS
  <2> HIDE DEF S
  <2> QED BY <1>4, <1>5, <2>1, DownTheWay
<1>7. Len(p) \in 1 .. Len(p)
  BY <1>4 DEF Way
<1>8. Last(p) = p[Len(p)]
  BY DEF Last
<1> QED BY <1>4, <1>6, <1>7, <1>8 DEF ByIndex

-----------------------------------------------------------------------------
(* Two pages of one level that begin with the same key are one.            *)
LEMMA SameStart ==
  ASSUME NEW pgs, NEW rt, NEW h, NEW lo, NEW hi, NEW x, NEW y, Tree(pgs, rt, h, lo, hi, x, y),
         NEW p \in DOMAIN pgs, NEW q \in DOMAIN pgs, h[p] = h[q], lo[p] = lo[q]
  PROVE  p = q
<1>1. p # q => hi[p] <= lo[q] \/ hi[q] <= lo[p]
  BY DEF Tree, LevelsApart
<1>2. /\ lo[p] \in Nat /\ hi[p] \in Nat /\ lo[p] < hi[p]
      /\ lo[q] \in Nat /\ hi[q] \in Nat /\ lo[q] < hi[q] /\ lo[p] = lo[q]
  BY Bounds
<1> QED BY ONLY <1>1, <1>2

(* The sibling of a page is the page that begins where it ends.            *)
LEMMA SiblingIs ==
  ASSUME NEW pgs, NEW rt, NEW h, NEW lo, NEW hi, Whole(pgs, rt, h, lo, hi),
         NEW p \in DOMAIN pgs, NEW q \in DOMAIN pgs, h[p] = h[q], hi[p] = lo[q]
  PROVE  pgs[p].next = q
<1>0. Tree(pgs, rt, h, lo, hi, rt, rt)
  BY DEF Whole
<1>1. lo[q] \in Nat /\ hi[q] \in Nat /\ lo[q] < hi[q] /\ hi[q] <= MaxKey + 1 /\ MaxKey \in Nat
  BY <1>0, Bounds, Numbers
<1>2. hi[p] # MaxKey + 1
  BY <1>1
<1>3. pgs[p].next \in DOMAIN pgs /\ h[pgs[p].next] = h[p] /\ lo[pgs[p].next] = hi[p]
  BY <1>0, <1>2 DEF Tree, ChainFits
<1> QED BY <1>0, <1>3, SameStart

(* The pointers of a whole tree: what TreeOwnsItsPages says.               *)
LEMMA WholeOwns ==
  ASSUME NEW h, NEW lo, NEW hi, Whole(pages, root, h, lo, hi)
  PROVE  /\ root \in DOMAIN pages
         /\ \A p \in Places : ChildAt(p) \in DOMAIN pages
         /\ \A id \in DOMAIN pages :
              IF id = root THEN \A p \in Places : ChildAt(p) # id
              ELSE \E p \in Places : \A q \in Places : ChildAt(q) = id <=> q = p
         /\ \A p \in Places : Height(p.page) = Height(ChildAt(p)) + 1
<1>0. Tree(pages, root, h, lo, hi, root, root)
  BY DEF Whole
<1>1. root \in DOMAIN pages /\ \A id \in DOMAIN pages : h[id] <= h[root]
  BY <1>0 DEF Tree, RootFits
<1>2. ASSUME NEW p \in Places
      PROVE  /\ p.page \in DOMAIN pages /\ p.nth \in 1 .. Len(pages[p.page].kids)
             /\ p = [page |-> p.page, nth |-> p.nth]
  <2>1. PICK id \in DOMAIN pages : p \in {[page |-> id, nth |-> i] : i \in DOMAIN pages[id].kids}
    BY DEF Places
  <2>2. PICK i \in DOMAIN pages[id].kids : p = [page |-> id, nth |-> i]
    BY <2>1
  <2>3. pages[id].kids \in Seq(Nat)
    BY <1>0, Bounds, RecFields DEF PageFits
  <2>4. i \in 1 .. Len(pages[id].kids)
    BY <2>2, <2>3
  <2> QED BY <2>2, <2>4
<1>3. ASSUME NEW id \in DOMAIN pages, NEW i \in 1 .. Len(pages[id].kids)
      PROVE  [page |-> id, nth |-> i] \in Places
  <2>1. pages[id].kids \in Seq(Nat)
    BY <1>0, Bounds, RecFields DEF PageFits
  <2>2. i \in DOMAIN pages[id].kids
    BY <2>1
  <2> QED BY <2>2 DEF Places
<1>4. ASSUME NEW p \in Places
      PROVE  ChildAt(p) \in DOMAIN pages /\ h[p.page] = h[ChildAt(p)] + 1
  <2>1. KidFits(pages, h, lo, hi, root, root, p.page, p.nth)
    BY <1>0, <1>2, KidOf
  <2> QED BY <2>1 DEF KidFits, ChildAt
<1>5. ASSUME NEW id \in DOMAIN pages PROVE Height(id) = h[id] /\ h[id] \in Nat
  <2>1. Len(Leftmost(pages, id)) = h[id] + 1 /\ h[id] \in Nat
    BY <1>0, LeftmostWay, Bounds
  <2> QED BY <2>1 DEF Height
<1>6. ASSUME NEW p \in Places PROVE Height(p.page) = Height(ChildAt(p)) + 1
  BY <1>2, <1>4, <1>5
<1>7. ASSUME NEW p \in Places PROVE ChildAt(p) # root
  <2>1. h[p.page] = h[ChildAt(p)] + 1 /\ h[p.page] <= h[root] /\ h[root] \in Nat /\ h[p.page] \in Nat
    BY <1>1, <1>2, <1>4, <1>5
  <2> QED BY <2>1
<1>8. ASSUME NEW id \in DOMAIN pages, id # root
      PROVE  \E p \in Places : \A q \in Places : ChildAt(q) = id <=> q = p
  <2>1. HasPlace(pages, id)
    BY <1>0, <1>8 DEF Tree, AllPlaced
  <2>2. PICK b \in DOMAIN pages : \E i \in 1 .. Len(pages[b].kids) : pages[b].kids[i] = id
    BY <2>1 DEF HasPlace
  <2>3. PICK i \in 1 .. Len(pages[b].kids) : pages[b].kids[i] = id
    BY <2>2
  <2> DEFINE p == [page |-> b, nth |-> i]
  <2>4. p \in Places /\ ChildAt(p) = id
    BY <2>3, <1>3 DEF ChildAt
  <2>5. ASSUME NEW q \in Places, ChildAt(q) = id PROVE q = p
    <3>1. q.page \in DOMAIN pages /\ q.nth \in 1 .. Len(pages[q.page].kids) /\ pages[q.page].kids[q.nth] = id
      BY <2>5, <1>2 DEF ChildAt
    <3>2. q.page = b /\ q.nth = i
      BY <3>1, <2>3, <1>0, OnePlace
    <3> QED BY <3>2, <1>2
  <2> QED BY <2>4, <2>5
<1> QED BY <1>1, <1>4, <1>6, <1>7, <1>8

(* The sibling pointers of a whole tree: what SiblingsInOrder says.        *)
LEMMA WholeInOrder ==
  ASSUME NEW pgs, NEW rt, NEW h, NEW lo, NEW hi, Whole(pgs, rt, h, lo, hi),
         NEW id \in DOMAIN pgs, NEW i \in 1 .. Len(pgs[id].kids), NEW n, n = pgs[id]
  PROVE  pgs[n.kids[i]].next = IF i < Len(n.kids) THEN n.kids[i + 1]
                               ELSE IF n.next = Null THEN Null ELSE pgs[n.next].kids[1]
<1>0. Tree(pgs, rt, h, lo, hi, rt, rt)
  BY DEF Whole
<1> DEFINE c == n.kids[i]  l == Len(n.keys)
<1>1. /\ PageFits(n, lo[id], hi[id]) /\ n \in PageRec /\ l \in Nat /\ Len(n.kids) = l + 1 /\ ~n.leaf
      /\ h[id] \in Nat /\ lo[id] \in Nat /\ hi[id] \in Nat
      /\ \A j \in 1 .. l : n.keys[j] \in Key
  <2>1. PageFits(n, lo[id], hi[id]) /\ h[id] \in Nat /\ lo[id] \in Nat /\ hi[id] \in Nat
    BY <1>0, Bounds
  <2>2. n \in PageRec /\ (n.leaf => Len(n.kids) = 0) /\ (~n.leaf => Len(n.kids) = l + 1)
    BY <2>1 DEF PageFits
  <2> QED BY <2>1, <2>2, RecFields
<1>2. KidFits(pgs, h, lo, hi, rt, rt, id, i)
  BY <1>0, KidOf
<1>3. c \in DOMAIN pgs /\ h[id] = h[c] + 1 /\ hi[c] = High(n, hi[id], i) /\ h[c] \in Nat
  BY <1>2, <1>0, Bounds DEF KidFits, EndOf
<1>4. ASSUME i < Len(n.kids) PROVE pgs[c].next = n.kids[i + 1]
  <2> DEFINE d == n.kids[i + 1]
  <2>1. i + 1 \in 1 .. Len(n.kids) /\ i # Len(n.kids) /\ i + 1 # 1 /\ (i + 1) - 1 = i
    BY <1>1, <1>4
  <2>2. KidFits(pgs, h, lo, hi, rt, rt, id, i + 1)
    BY <1>0, <2>1, KidOf
  <2>3. d \in DOMAIN pgs /\ h[id] = h[d] + 1 /\ lo[d] = Low(n, lo[id], i + 1) /\ h[d] \in Nat
    BY <2>2, <1>0, Bounds DEF KidFits
  <2>4. hi[c] = n.keys[i] /\ lo[d] = n.keys[i]
    BY <2>1, <2>3, <1>3 DEF High, Low
  <2> HIDE DEF d, c
  <2>5. h[c] = h[d]
    BY ONLY <2>3, <1>3
  <2>6. pgs[c].next = d
    BY <2>3, <2>4, <2>5, <1>3, SiblingIs
  <2> QED BY <2>6 DEF d
<1>5. ASSUME ~(i < Len(n.kids)) PROVE i = Len(n.kids) /\ hi[c] = hi[id]
  <2>1. i = Len(n.kids)
    BY <1>1, <1>5
  <2> QED BY <2>1, <1>3 DEF High
<1>6. ASSUME hi[c] = hi[id], n.next = Null PROVE pgs[c].next = Null
  <2>1. \A q \in DOMAIN pgs : q # Null
    BY <1>0, Bounds, Numbers
  <2>2. hi[id] = MaxKey + 1
    BY <2>1, <1>0, <1>6 DEF Tree, ChainFits
  <2> QED BY <2>2, <1>0, <1>3, <1>6 DEF Tree, ChainFits
<1>7. ASSUME hi[c] = hi[id], n.next # Null PROVE pgs[c].next = pgs[n.next].kids[1]
  <2> DEFINE s == n.next  d == pgs[s].kids[1]
  <2>1. s \in DOMAIN pgs /\ h[s] = h[id] /\ lo[s] = hi[id]
    BY <1>0, <1>7 DEF Tree, ChainFits
  <2>2. PageFits(pgs[s], lo[s], hi[s]) /\ (pgs[s].leaf <=> h[s] = 0) /\ (n.leaf <=> h[id] = 0)
    BY <2>1, <1>0, Bounds
  <2>3. ~pgs[s].leaf
    BY <2>1, <2>2, <1>1
  <2>4. 1 \in 1 .. Len(pgs[s].kids)
    BY <2>2, <2>3, RecFields DEF PageFits
  <2>5. KidFits(pgs, h, lo, hi, rt, rt, s, 1)
    BY <1>0, <2>1, <2>4, KidOf
  <2>6. d \in DOMAIN pgs /\ h[s] = h[d] + 1 /\ lo[d] = lo[s] /\ h[d] \in Nat
    BY <2>5, <1>0, Bounds DEF KidFits, Low
  <2> HIDE DEF d, c, s
  <2>7. h[c] = h[d]
    <3>1. h[d] + 1 = h[c] + 1 /\ h[c] \in Nat /\ h[d] \in Nat
      BY <2>1, <2>6, <1>3
    <3> QED BY ONLY <3>1
  <2>8. hi[c] = lo[d]
    BY <2>1, <2>6, <1>7
  <2>9. pgs[c].next = d
    BY <2>6, <2>7, <2>8, <1>3, SiblingIs
  <2> QED BY <2>9 DEF d, s
<1> QED BY <1>4, <1>5, <1>6, <1>7

-----------------------------------------------------------------------------
(* The recursion of Scan along the sibling pointers, which ends: every     *)
(* sibling begins with a larger key.                                       *)
Scans(pgs, from) ==
  /\ DOMAIN from = DOMAIN pgs
  /\ \A id \in DOMAIN pgs :
       from[id] = IF pgs[id].keys = << >> \/ pgs[id].next = Null THEN pgs[id].keys
                  ELSE pgs[id].keys \o from[pgs[id].next]

(* Scan is what its recursive definition describes.                        *)
LEMMA ScanDef ==
  ASSUME NEW h, NEW lo, NEW hi, Whole(pages, root, h, lo, hi)
  PROVE  \E from : Scans(pages, from) /\ Scan = from[LeftmostLeaf(pages, root)]
<1>0. Tree(pages, root, h, lo, hi, root, root)
  BY DEF Whole
<1> DEFINE Pg == DOMAIN pages  n == MaxKey + 1  V == [Pg -> Seq(Key)]
           d == [id \in Pg |-> n - lo[id]]
           ends == [id \in Pg |-> pages[id].keys = << >> \/ pages[id].next = Null]
           one(v, id) == IF ends[id] THEN pages[id].keys ELSE pages[id].keys \o v[pages[id].next]
           b == [id \in Pg |-> << >>]
           g == [w \in (0 .. n) \X V |->
                   [id \in Pg |-> IF d[id] = w[1] THEN one(w[2], id) ELSE w[2][id]]]
<1>1. n \in Nat /\ n > 0 /\ \A id \in Pg : d[id] \in 1 .. n /\ pages[id].keys \in Seq(Key)
  <2>1. n \in Nat /\ n > 0
    BY Numbers
  <2>2. ASSUME NEW id \in Pg PROVE d[id] \in 1 .. n /\ pages[id].keys \in Seq(Key)
    <3>1. lo[id] \in Nat /\ hi[id] \in Nat /\ lo[id] < hi[id] /\ hi[id] <= MaxKey + 1 /\ PageFits(pages[id], lo[id], hi[id])
      BY <1>0, Bounds
    <3>2. n - lo[id] \in 1 .. n
      BY <3>1, <2>1
    <3> QED BY <3>1, <3>2, RecFields DEF PageFits
  <2> QED BY <2>1, <2>2
<1>2. \A id \in Pg : ~ends[id] => pages[id].next \in Pg /\ d[pages[id].next] < d[id]
  <2> SUFFICES ASSUME NEW id \in Pg, ~ends[id] PROVE pages[id].next \in Pg /\ d[pages[id].next] < d[id]
    OBVIOUS
  <2>1. pages[id].next # Null
    OBVIOUS
  <2>2. pages[id].next \in Pg /\ lo[pages[id].next] = hi[id]
    BY <2>1, <1>0 DEF Tree, ChainFits
  <2>3. /\ lo[id] \in Nat /\ hi[id] \in Nat /\ lo[id] < hi[id] /\ n \in Nat
        /\ d[id] = n - lo[id] /\ d[pages[id].next] = n - hi[id]
    BY <1>0, <1>1, <2>2, Bounds
  <2> HIDE DEF d, n
  <2>4. d[pages[id].next] < d[id]
    BY ONLY <2>3
  <2> QED BY <2>2, <2>4
<1> HIDE DEF ends, d, n
<1>3. b \in V /\ \A v \in V, id \in Pg : one(v, id) \in Seq(Key)
  <2>1. b \in V
    OBVIOUS
  <2>2. ASSUME NEW v \in V, NEW id \in Pg PROVE one(v, id) \in Seq(Key)
    <3>1. CASE ends[id]
      BY <3>1, <1>1
    <3>2. CASE ~ends[id]
      <4>1. v[pages[id].next] \in Seq(Key) /\ pages[id].keys \in Seq(Key)
        BY <3>2, <1>1, <1>2
      <4>2. pages[id].keys \o v[pages[id].next] \in Seq(Key)
        BY <4>1, ConcatProperties
      <4> QED BY <4>2, <3>2
    <3> QED BY <3>1, <3>2
  <2> QED BY <2>1, <2>2
<1>4. \A k \in 0 .. n, v \in V : g[<<k, v>>] \in V /\ \A id \in Pg : g[<<k, v>>][id] = IF d[id] = k THEN one(v, id) ELSE v[id]
  <2> SUFFICES ASSUME NEW k \in 0 .. n, NEW v \in V
               PROVE  g[<<k, v>>] \in V /\ \A id \in Pg : g[<<k, v>>][id] = IF d[id] = k THEN one(v, id) ELSE v[id]
    OBVIOUS
  <2>1. g[<<k, v>>] = [id \in Pg |-> IF d[id] = k THEN one(v, id) ELSE v[id]]
    OBVIOUS
  <2>2. \A id \in Pg : (IF d[id] = k THEN one(v, id) ELSE v[id]) \in Seq(Key)
    BY <1>3
  <2> HIDE DEF g, one
  <2> QED BY <2>1, <2>2
<1> HIDE DEF one
<1>5. PICK w : Recurs(w, 0, n, V, b, g)
  <2>1. n \in Nat /\ 0 \in Nat /\ 0 <= n
    BY <1>1
  <2>2. b \in V
    BY <1>3
  <2> HIDE DEF V, b, g
  <2>3. \A k \in 0 .. n, v \in V : g[<<k, v>>] \in V
    BY <1>4
  <2> QED BY ONLY <2>1, <2>2, <2>3, Recursion
<1>6. w \in [0 .. n -> V] /\ \A k \in 0 .. n : k > 0 => w[k] = g[<<k, w[k - 1]>>]
  <2> HIDE DEF V, b, g
  <2> QED BY <1>5 DEF Recurs
<1>7. ASSUME NEW k \in 0 .. n, k > 0, NEW id \in Pg
      PROVE  w[k][id] = IF d[id] = k THEN one(w[k - 1], id) ELSE w[k - 1][id]
  <2>1. k - 1 \in 0 .. n
    BY <1>1, <1>7
  <2>2. w[k - 1] \in V /\ w[k] = g[<<k, w[k - 1]>>]
    BY <2>1, <1>6, <1>7
  <2> HIDE DEF g, V
  <2> QED BY <2>2, <1>4
(* a value once computed stays *)
<1>8. ASSUME NEW id \in Pg PROVE \A k \in d[id] .. n : w[k][id] = w[d[id]][id]
  <2> DEFINE T == {k \in d[id] .. n : w[k][id] = w[d[id]][id]}  m == d[id]
  <2>1. m \in Nat /\ n \in Nat /\ m \in T /\ m <= n /\ m > 0
    BY <1>1
  <2>2. ASSUME NEW k \in m .. n, k > m, k - 1 \in T PROVE k \in T
    <3>1. k \in 0 .. n /\ k > 0 /\ d[id] # k
      BY <2>1, <2>2
    <3>2. w[k][id] = w[k - 1][id]
      BY <3>1, <1>7
    <3> QED BY <3>2, <2>2
  <2>3. \A k \in m .. n : k \in T
    <3> HIDE DEF T, m
    <3>1. \A k \in m .. n : k > m /\ k - 1 \in T => k \in T
      BY <2>2
    <3>2. m \in Nat /\ n \in Nat /\ m \in T
      BY <2>1
    <3> QED BY ONLY <3>1, <3>2, StepInduction
  <2> QED BY <2>3
<1> DEFINE f == [id \in Pg |-> w[d[id]][id]]
<1>9. \A id \in Pg : f[id] = IF ends[id] THEN pages[id].keys ELSE pages[id].keys \o f[pages[id].next]
  <2> SUFFICES ASSUME NEW id \in Pg
               PROVE  f[id] = IF ends[id] THEN pages[id].keys ELSE pages[id].keys \o f[pages[id].next]
    OBVIOUS
  <2>1. d[id] \in 0 .. n /\ d[id] > 0 /\ n \in Nat
    BY <1>1
  <2>2. f[id] = one(w[d[id] - 1], id)
    <3>1. w[d[id]][id] = one(w[d[id] - 1], id)
      BY <2>1, <1>7
    <3> QED BY <3>1
  <2>3. CASE ends[id]
    BY <2>2, <2>3 DEF one
  <2>4. CASE ~ends[id]
    <3> DEFINE q == pages[id].next
    <3>1. q \in Pg /\ d[q] < d[id] /\ d[q] \in 1 .. n
      BY <2>4, <1>1, <1>2
    <3>2. d[id] - 1 \in d[q] .. n
      BY <3>1, <2>1
    <3>3. w[d[id] - 1][q] = f[q]
      BY <3>1, <3>2, <1>8
    <3>4. one(w[d[id] - 1], id) = pages[id].keys \o w[d[id] - 1][q]
      BY <2>4 DEF one
    <3> HIDE DEF f
    <3> QED BY <2>2, <2>4, <3>3, <3>4
  <2> QED BY <2>3, <2>4
<1>10. f = [id \in DOMAIN pages |->
              LET m == pages[id] IN
              IF m.keys = << >> \/ m.next = Null THEN m.keys ELSE m.keys \o f[m.next]]
  <2>1. DOMAIN f = Pg /\ f = [id \in Pg |-> f[id]]
    OBVIOUS
  <2>2. \A id \in Pg : f[id] = IF pages[id].keys = << >> \/ pages[id].next = Null THEN pages[id].keys
                               ELSE pages[id].keys \o f[pages[id].next]
    <3> HIDE DEF f
    <3> QED BY <1>9 DEF ends
  <2> HIDE DEF f
  <2> QED BY <2>1, <2>2
<1> DEFINE from == CHOOSE u : u = [id \in DOMAIN pages |->
              LET m == pages[id] IN
              IF m.keys = << >> \/ m.next = Null THEN m.keys ELSE m.keys \o u[m.next]]
<1>11. from = [id \in DOMAIN pages |->
              LET m == pages[id] IN
              IF m.keys = << >> \/ m.next = Null THEN m.keys ELSE m.keys \o from[m.next]]
  <2> HIDE DEF f
  <2> QED BY <1>10
<1>12. Scan = from[LeftmostLeaf(pages, root)]
  BY DEF Scan
<1> HIDE DEF from
<1>13. Scans(pages, from)
  BY <1>11 DEF Scans
<1> QED BY <1>12, <1>13

-----------------------------------------------------------------------------
(* A scan from a leaf on: rising keys, and just the rows not smaller than  *)
(* the lower bound of that leaf.                                           *)
Rises(s, a) ==
  /\ s \in Seq(Key)
  /\ \A i, j \in 1 .. Len(s) : i < j => s[i] < s[j]
  /\ \A i \in 1 .. Len(s) : a <= s[i]

(* A scan that yields all rows of K from a on.                             *)
Yields(s, a, K) == Rises(s, a) /\ \A k \in Key : (\E i \in 1 .. Len(s) : s[i] = k) <=> k \in K /\ a <= k

(* A sequence below b, and sequences one after the other.                  *)
Under(s, b) == \A i \in 1 .. Len(s) : s[i] < b
Joins(s, t, u) == u = s \o t
Gathers(s, t, u) ==
  \A k \in Key : (\E i \in 1 .. Len(u) : u[i] = k)
                <=> (\E i \in 1 .. Len(s) : s[i] = k) \/ (\E i \in 1 .. Len(t) : t[i] = k)

(* Rising keys below b and rising keys from b on, one after the other.     *)
LEMMA RisesBehind ==
  ASSUME NEW s, NEW a \in Nat, Rises(s, a), NEW t, NEW b \in Nat, Rises(t, b),
         Under(s, b), a <= b, NEW u, Joins(s, t, u)
  PROVE  Rises(u, a) /\ Gathers(s, t, u)
<1> DEFINE l == Len(s)  m == Len(t)
<1>1. s \in Seq(Key) /\ t \in Seq(Key)
  BY DEF Rises
<1>2. u \in Seq(Key) /\ Len(u) = l + m /\ \A i \in 1 .. l + m : u[i] = IF i <= l THEN s[i] ELSE t[i - l]
  <2>1. u = s \o t
    BY DEF Joins
  <2> QED BY <2>1, <1>1, ConcatProperties
<1>3. l \in Nat /\ m \in Nat /\ a \in Nat /\ b \in Nat
      /\ (\A i \in 1 .. l : s[i] \in Nat) /\ (\A i \in 1 .. m : t[i] \in Nat)
  BY <1>1, Numbers
<1> HIDE DEF l, m
<1>4. ASSUME NEW i \in 1 .. l PROVE i \in 1 .. l + m /\ u[i] = s[i] /\ a <= u[i] /\ u[i] < b
  <2>1. i \in 1 .. l + m /\ i <= l
    BY ONLY <1>3, <1>4
  <2>2. u[i] = s[i]
    BY <2>1, <1>2
  <2> QED BY <2>1, <2>2 DEF Rises, Under, l
<1>5. ASSUME NEW i \in 1 .. m PROVE i + l \in 1 .. l + m /\ u[i + l] = t[i] /\ b <= u[i + l]
  <2>1. i + l \in 1 .. l + m /\ ~(i + l <= l) /\ (i + l) - l = i
    BY ONLY <1>3, <1>5
  <2>2. u[i + l] = t[i]
    BY <2>1, <1>2
  <2> QED BY <2>1, <2>2 DEF Rises, m
<1>6. ASSUME NEW i \in 1 .. l + m, ~(i <= l) PROVE i - l \in 1 .. m /\ (i - l) + l = i
  BY ONLY <1>3, <1>6
<1>7. ASSUME NEW i \in 1 .. l + m, i <= l PROVE i \in 1 .. l
  BY ONLY <1>3, <1>7
<1>8. ASSUME NEW i \in 1 .. l + m PROVE a <= u[i]
  <2>1. CASE i <= l
    BY <2>1, <1>4, <1>7
  <2>2. CASE ~(i <= l)
    <3>1. i - l \in 1 .. m /\ (i - l) + l = i
      BY <2>2, <1>6
    <3>2. u[i] = t[i - l] /\ b <= u[i] /\ t[i - l] \in Nat
      BY <3>1, <1>3, <1>5
    <3> QED BY <3>2, <1>3
  <2> QED BY <2>1, <2>2
<1>9. ASSUME NEW i \in 1 .. l + m, NEW j \in 1 .. l + m, i < j PROVE u[i] < u[j]
  <2>1. CASE i <= l /\ j <= l
    <3>1. i \in 1 .. l /\ j \in 1 .. l
      BY <2>1, <1>7
    <3>2. s[i] < s[j]
      BY <3>1, <1>9 DEF Rises, l
    <3> QED BY <3>1, <3>2, <1>4
  <2>2. CASE i <= l /\ ~(j <= l)
    <3>1. i \in 1 .. l /\ j - l \in 1 .. m /\ (j - l) + l = j
      BY <2>2, <1>6, <1>7
    <3>2. u[i] = s[i] /\ u[i] < b /\ s[i] \in Nat
      BY <3>1, <1>3, <1>4
    <3>3. u[j] = t[j - l] /\ b <= u[j] /\ t[j - l] \in Nat
      BY <3>1, <1>3, <1>5
    <3> QED BY <3>2, <3>3, <1>3
  <2>3. CASE ~(i <= l)
    <3>1. ~(j <= l)
      BY ONLY <2>3, <1>3, <1>9
    <3>2. i - l \in 1 .. m /\ (i - l) + l = i
      BY <2>3, <1>6
    <3>3. j - l \in 1 .. m /\ (j - l) + l = j
      BY <3>1, <1>6
    <3>4. i - l < j - l
      BY ONLY <1>3, <1>9
    <3>5. t[i - l] < t[j - l]
      BY <3>2, <3>3, <3>4 DEF Rises, m
    <3>6. u[i] = t[i - l] /\ u[j] = t[j - l]
      BY <3>2, <3>3, <1>5
    <3> QED BY <3>5, <3>6
  <2> QED BY <2>1, <2>2, <2>3
<1>10. Rises(u, a)
  BY <1>2, <1>8, <1>9 DEF Rises
<1>11. ASSUME NEW k \in Key, NEW i \in 1 .. Len(u), u[i] = k
       PROVE  (\E x \in 1 .. Len(s) : s[x] = k) \/ (\E x \in 1 .. Len(t) : t[x] = k)
  <2>1. i \in 1 .. l + m
    BY <1>2
  <2>2. CASE i <= l
    BY <2>1, <2>2, <1>4, <1>7, <1>11 DEF l
  <2>3. CASE ~(i <= l)
    <3>1. i - l \in 1 .. m /\ (i - l) + l = i
      BY <2>1, <2>3, <1>6
    <3>2. t[i - l] = k
      BY <3>1, <1>5, <1>11
    <3> QED BY <3>1, <3>2 DEF m
  <2> QED BY <2>2, <2>3
<1>12. ASSUME NEW k \in Key, NEW i \in 1 .. Len(s), s[i] = k PROVE \E x \in 1 .. Len(u) : u[x] = k
  BY <1>2, <1>4, <1>12 DEF l
<1>13. ASSUME NEW k \in Key, NEW i \in 1 .. Len(t), t[i] = k PROVE \E x \in 1 .. Len(u) : u[x] = k
  BY <1>2, <1>5, <1>13 DEF m
<1> QED BY <1>10, <1>11, <1>12, <1>13 DEF Gathers

(* Only the last leaf can be empty, and that only where rows are deleted.  *)
LastEmpty(pgs) ==
  \A id \in DOMAIN pgs :
    pgs[id].leaf /\ (pgs[id].next # Null \/ Deletable = {}) => Len(pgs[id].keys) # 0

(* A scan from any leaf yields the rows from the lower bound of that leaf  *)
(* on, in order.                                                           *)
LEMMA ScanYields ==
  ASSUME NEW pgs, NEW rt, NEW h, NEW lo, NEW hi, Whole(pgs, rt, h, lo, hi), LastEmpty(pgs),
         NEW from, Scans(pgs, from), NEW leaf \in DOMAIN pgs, pgs[leaf].leaf
  PROVE  Yields(from[leaf], lo[leaf], RowsIn(pgs))
<1>0. Tree(pgs, rt, h, lo, hi, rt, rt)
  BY DEF Whole
<1> DEFINE K == RowsIn(pgs)  n == MaxKey + 1  d == [id \in DOMAIN pgs |-> n - lo[id]]
           S == {k \in Nat : \A id \in DOMAIN pgs : pgs[id].leaf /\ d[id] <= k => Yields(from[id], lo[id], K)}
<1>1. n \in Nat
  BY Numbers
<1>2. ASSUME NEW id \in DOMAIN pgs, pgs[id].leaf
      PROVE  /\ lo[id] \in Nat /\ hi[id] \in Nat /\ lo[id] < hi[id] /\ hi[id] <= n
             /\ d[id] = n - lo[id] /\ d[id] \in Nat /\ d[id] > 0 /\ h[id] = 0
             /\ PageFits(pgs[id], lo[id], hi[id])
  <2>1. /\ lo[id] \in Nat /\ hi[id] \in Nat /\ lo[id] < hi[id] /\ hi[id] <= n
        /\ h[id] = 0 /\ PageFits(pgs[id], lo[id], hi[id])
    BY <1>0, <1>2, Bounds
  <2>2. d[id] = n - lo[id]
    OBVIOUS
  <2> HIDE DEF n, d
  <2>3. d[id] \in Nat /\ d[id] > 0
    BY ONLY <1>1, <2>1, <2>2
  <2> QED BY <2>1, <2>2, <2>3
<1> HIDE DEF n, d, K
(* the keys of one leaf *)
<1>3. ASSUME NEW id \in DOMAIN pgs, pgs[id].leaf
      PROVE  /\ Rises(pgs[id].keys, lo[id])
             /\ \A i \in 1 .. Len(pgs[id].keys) : pgs[id].keys[i] < hi[id]
             /\ \A k \in Key : (\E i \in 1 .. Len(pgs[id].keys) : pgs[id].keys[i] = k)
                               <=> k \in K /\ lo[id] <= k /\ k < hi[id]
  <2>1. PageFits(pgs[id], lo[id], hi[id])
    BY <1>2, <1>3
  <2>2. pgs[id].keys \in Seq(Key)
    BY <2>1, RecFields DEF PageFits
  <2>3. Rises(pgs[id].keys, lo[id])
    BY <2>1, <2>2 DEF PageFits, KeysRise, Rises
  <2>4. \A i \in 1 .. Len(pgs[id].keys) : lo[id] <= pgs[id].keys[i] /\ pgs[id].keys[i] < hi[id]
    BY <2>1 DEF PageFits
  <2>5. ASSUME NEW k \in Key, NEW i \in 1 .. Len(pgs[id].keys), pgs[id].keys[i] = k
        PROVE  k \in K /\ lo[id] <= k /\ k < hi[id]
    <3>1. k \in KeysIn(pgs[id])
      BY <2>5 DEF KeysIn
    <3> QED BY <3>1, <2>4, <2>5, <1>3 DEF K, RowsIn
  <2>6. ASSUME NEW k \in Key, k \in K, lo[id] <= k, k < hi[id]
        PROVE  \E i \in 1 .. Len(pgs[id].keys) : pgs[id].keys[i] = k
    <3>1. PICK q \in DOMAIN pgs : pgs[q].leaf /\ k \in KeysIn(pgs[q])
      BY <2>6 DEF K, RowsIn
    <3>2. PICK i \in 1 .. Len(pgs[q].keys) : pgs[q].keys[i] = k
      BY <3>1 DEF KeysIn
    <3>3. PageFits(pgs[q], lo[q], hi[q]) /\ lo[q] \in Nat /\ hi[q] \in Nat /\ h[q] = 0
      BY <3>1, <1>2
    <3>4. lo[q] <= k /\ k < hi[q]
      BY <3>2, <3>3 DEF PageFits
    <3>5. lo[id] \in Nat /\ hi[id] \in Nat /\ h[id] = 0 /\ k \in Nat
      BY <1>2, <1>3, Numbers
    <3>6. q # id => hi[q] <= lo[id] \/ hi[id] <= lo[q]
      BY <3>3, <3>5, <1>0 DEF Tree, LevelsApart
    <3>7. q = id
      <4>1. /\ lo[q] \in Nat /\ hi[q] \in Nat /\ lo[id] \in Nat /\ hi[id] \in Nat /\ k \in Nat
            /\ lo[q] <= k /\ k < hi[q] /\ lo[id] <= k /\ k < hi[id]
        BY <3>3, <3>4, <3>5, <2>6
      <4> QED BY ONLY <3>6, <4>1
    <3> QED BY <3>2, <3>7
  <2> QED BY <2>3, <2>4, <2>5, <2>6
<1>4. 0 \in S
  <2> SUFFICES ASSUME NEW id \in DOMAIN pgs, pgs[id].leaf, d[id] <= 0 PROVE FALSE
    OBVIOUS
  <2> QED BY <1>2
<1>5. ASSUME NEW e \in Nat, e \in S PROVE e + 1 \in S
  <2> SUFFICES ASSUME NEW id \in DOMAIN pgs, pgs[id].leaf, d[id] <= e + 1
               PROVE  Yields(from[id], lo[id], K)
    OBVIOUS
  <2> DEFINE s == pgs[id].keys  q == pgs[id].next
  <2>1. /\ lo[id] \in Nat /\ hi[id] \in Nat /\ lo[id] < hi[id] /\ hi[id] <= n
        /\ d[id] = n - lo[id] /\ h[id] = 0 /\ n \in Nat
    BY <1>1, <1>2
  <2>2. CASE q = Null
    <3>1. from[id] = s
      BY <2>2 DEF Scans
    <3>2. hi[id] = n
      <4>1. \A p \in DOMAIN pgs : p # Null
        BY <1>0, Bounds, Numbers
      <4> QED BY <4>1, <2>2, <1>0 DEF Tree, ChainFits, n
    <3>3. \A k \in Key : k < n
      BY Numbers DEF n
    <3> QED BY <3>1, <3>2, <3>3, <1>3 DEF Yields
  <2>3. CASE q # Null
    <3>1. s # << >>
      <4>1. Len(s) # 0
        BY <2>3 DEF LastEmpty
      <4> QED BY <4>1
    <3>2. from[id] = s \o from[q]
      BY <2>3, <3>1 DEF Scans
    <3>3. q \in DOMAIN pgs /\ h[q] = h[id] /\ lo[q] = hi[id]
      BY <2>3, <1>0 DEF Tree, ChainFits
    <3>4. pgs[q].leaf
      BY <3>3, <2>1, <1>0, Bounds
    <3>5. d[q] <= e
      <4>1. d[q] = n - hi[id] /\ d[q] \in Nat
        BY <3>3, <3>4, <1>2
      <4>2. e \in Nat /\ d[id] <= e + 1
        OBVIOUS
      <4> QED BY ONLY <4>1, <4>2, <2>1
    <3>6. Yields(from[q], lo[q], K)
      BY <3>3, <3>4, <3>5, <1>5
    <3> DEFINE u == from[id]  t == from[q]  a == lo[id]  b == lo[q]
    <3>7. /\ a \in Nat /\ b \in Nat /\ Rises(s, a) /\ Rises(t, b) /\ a <= b
          /\ Under(s, b)
      BY <3>3, <3>6, <1>3, <2>1 DEF Yields, Under
    <3>8. /\ \A k \in Key : (\E i \in 1 .. Len(s) : s[i] = k) <=> k \in K /\ a <= k /\ k < b
          /\ \A k \in Key : (\E i \in 1 .. Len(t) : t[i] = k) <=> k \in K /\ b <= k
      BY <3>3, <3>6, <1>3 DEF Yields
    <3>9. Joins(s, t, u)
      BY <3>2 DEF Joins
    <3> HIDE DEF u, t, a, b, s
    <3>10. Rises(u, a) /\ Gathers(s, t, u)
      BY <3>7, <3>9, RisesBehind
    <3>11. ASSUME NEW k \in Key PROVE (\E i \in 1 .. Len(u) : u[i] = k) <=> k \in K /\ a <= k
      <4>1. k \in Nat
        BY Numbers
      <4>2. (a <= k /\ k < b) \/ b <= k <=> a <= k
        BY ONLY <4>1, <3>7
      <4> QED BY <4>2, <3>8, <3>10 DEF Gathers
    <3> QED BY <3>10, <3>11 DEF Yields, u, a
  <2> QED BY <2>2, <2>3
<1>6. Nat \subseteq S
  <2> HIDE DEF S
  <2> QED BY <1>4, <1>5, SetInduction
<1>7. d[leaf] \in Nat /\ d[leaf] <= d[leaf]
  BY <1>2
<1> QED BY <1>6, <1>7 DEF K

-----------------------------------------------------------------------------
(* The bound between two pages shifts.                                     *)

(* A child of a page of a whole tree.                                      *)
LEMMA WholeKid ==
  ASSUME NEW pgs, NEW rt, NEW h, NEW lo, NEW hi, Whole(pgs, rt, h, lo, hi),
         NEW p \in DOMAIN pgs, NEW i \in 1 .. Len(pgs[p].kids), NEW kid, kid = pgs[p].kids[i]
  PROVE  /\ kid \in DOMAIN pgs /\ h[p] = h[kid] + 1
         /\ lo[kid] = Low(pgs[p], lo[p], i) /\ hi[kid] = High(pgs[p], hi[p], i)
<1>1. KidFits(pgs, h, lo, hi, rt, rt, p, i)
  BY KidOf DEF Whole
<1>2. EndOf(hi, rt, rt, kid) = hi[kid]
  BY DEF EndOf
<1> QED BY <1>1, <1>2 DEF KidFits

(* A page of a whole tree.                                                 *)
LEMMA WholePage ==
  ASSUME NEW pgs, NEW rt, NEW h, NEW lo, NEW hi, Whole(pgs, rt, h, lo, hi), NEW p \in DOMAIN pgs
  PROVE  /\ p \in Nat /\ h[p] \in Nat /\ lo[p] \in Nat /\ hi[p] \in Nat
         /\ lo[p] < hi[p] /\ hi[p] <= MaxKey + 1 /\ MaxKey \in Nat
         /\ PageFits(pgs[p], lo[p], hi[p]) /\ (pgs[p].leaf <=> h[p] = 0)
         /\ pgs[p] \in PageRec /\ Len(pgs[p].keys) \in Nat
         /\ Len(pgs[p].kids) = IF pgs[p].leaf THEN 0 ELSE Len(pgs[p].keys) + 1
         /\ \A i \in 1 .. Len(pgs[p].keys) :
              pgs[p].keys[i] \in Nat /\ lo[p] <= pgs[p].keys[i] /\ pgs[p].keys[i] < hi[p]
<1>1. /\ p \in Nat /\ h[p] \in Nat /\ lo[p] \in Nat /\ hi[p] \in Nat
      /\ lo[p] < hi[p] /\ hi[p] <= MaxKey + 1
      /\ PageFits(pgs[p], lo[p], hi[p]) /\ (pgs[p].leaf <=> h[p] = 0)
  BY Bounds DEF Whole
<1>2. /\ pgs[p] \in PageRec
      /\ Len(pgs[p].kids) = IF pgs[p].leaf THEN 0 ELSE Len(pgs[p].keys) + 1
      /\ \A i \in 1 .. Len(pgs[p].keys) : lo[p] <= pgs[p].keys[i] /\ pgs[p].keys[i] < hi[p]
  BY <1>1 DEF PageFits
<1>3. Len(pgs[p].keys) \in Nat /\ \A i \in 1 .. Len(pgs[p].keys) : pgs[p].keys[i] \in Nat
  BY <1>2, RecFields, Numbers
<1> QED BY <1>1, <1>2, <1>3, Numbers

(* On every level below a page there is one that begins where it begins.   *)
LEMMA LeftEdge ==
  ASSUME NEW pgs, NEW rt, NEW h, NEW lo, NEW hi, Whole(pgs, rt, h, lo, hi),
         NEW s \in DOMAIN pgs, NEW n \in 0 .. h[s]
  PROVE  \E p \in DOMAIN pgs : h[p] = n /\ lo[p] = lo[s]
<1> DEFINE S == {k \in 0 .. h[s] : \E p \in DOMAIN pgs : h[p] = h[s] - k /\ lo[p] = lo[s]}
<1>0. h[s] \in Nat
  BY WholePage
<1>1. 0 \in S
  BY <1>0
<1>2. ASSUME NEW k \in 0 .. h[s] - 1, k \in S PROVE k + 1 \in S
  <2>1. PICK p \in DOMAIN pgs : h[p] = h[s] - k /\ lo[p] = lo[s]
    BY <1>2
  <2>2. h[p] # 0 /\ h[p] \in Nat
    BY <2>1, <1>0, WholePage
  <2>3. 1 \in 1 .. Len(pgs[p].kids)
    <3>1. Len(pgs[p].kids) = Len(pgs[p].keys) + 1 /\ Len(pgs[p].keys) \in Nat
      BY <2>2, WholePage
    <3> QED BY <3>1
  <2>4. /\ pgs[p].kids[1] \in DOMAIN pgs /\ h[p] = h[pgs[p].kids[1]] + 1
        /\ lo[pgs[p].kids[1]] = lo[p]
    BY <2>3, WholeKid DEF Low
  <2>5. h[pgs[p].kids[1]] = h[s] - (k + 1)
    <3>1. h[pgs[p].kids[1]] \in Nat
      BY <2>4, WholePage
    <3> QED BY <3>1, <2>4, <2>1, <1>0
  <2> QED BY <2>4, <2>5, <2>1, <1>0
<1> HIDE DEF S
<1>3. \A k \in 0 .. h[s] : k \in S
  BY <1>0, <1>1, <1>2, IntervalInduction
<1>4. h[s] - n \in 0 .. h[s] /\ h[s] - (h[s] - n) = n
  BY <1>0
<1>5. h[s] - n \in S
  BY <1>3, <1>4
<1> QED BY <1>4, <1>5 DEF S

(* What begins where a leaf begins has no key in front of the first one of *)
(* the leaf.                                                               *)
Beyond(n, z, f) ==
  f < z /\ \A i \in 1 .. Len(n.keys) : f <= n.keys[i] /\ (n.leaf \/ f < n.keys[i])

(* No page that begins where a leaf does has a key below the first one of  *)
(* that leaf.                                                              *)
LEMMA EdgeGap ==
  ASSUME NEW pgs, NEW rt, NEW h, NEW lo, NEW hi, Whole(pgs, rt, h, lo, hi),
         NEW leaf \in DOMAIN pgs, pgs[leaf].leaf, Len(pgs[leaf].keys) # 0,
         NEW f, f = pgs[leaf].keys[1], NEW p \in DOMAIN pgs, lo[p] = lo[leaf]
  PROVE  f \in Key /\ lo[leaf] <= f /\ Beyond(pgs[p], hi[p], f)
<1> DEFINE S == {n \in Nat : \A x \in DOMAIN pgs : h[x] = n /\ lo[x] = lo[leaf] => Beyond(pgs[x], hi[x], f)}
<1>0. 1 \in 1 .. Len(pgs[leaf].keys) /\ Len(pgs[leaf].keys) \in Nat
  BY WholePage
<1>1. f \in Key /\ f \in Nat /\ lo[leaf] <= f /\ f < hi[leaf]
  BY <1>0, WholePage, RecFields, Numbers
<1>2. 0 \in S
  <2> SUFFICES ASSUME NEW x \in DOMAIN pgs, h[x] = 0, lo[x] = lo[leaf] PROVE Beyond(pgs[x], hi[x], f)
    OBVIOUS
  <2>1. x = leaf
    BY SameStart, WholePage DEF Whole
  <2>2. \A i \in 1 .. Len(pgs[leaf].keys) : f <= pgs[leaf].keys[i]
    <3> SUFFICES ASSUME NEW i \in 1 .. Len(pgs[leaf].keys) PROVE f <= pgs[leaf].keys[i]
      OBVIOUS
    <3>1. KeysRise(pgs[leaf])
      BY WholePage DEF PageFits
    <3>2. i > 1 => f < pgs[leaf].keys[i]
      BY <3>1, <1>0 DEF KeysRise
    <3>3. pgs[leaf].keys[i] \in Nat
      BY WholePage
    <3> QED BY <3>2, <3>3, <1>1
  <2> QED BY <2>1, <2>2, <1>1 DEF Beyond
<1>3. ASSUME NEW n \in Nat, n \in S PROVE n + 1 \in S
  <2> SUFFICES ASSUME NEW x \in DOMAIN pgs, h[x] = n + 1, lo[x] = lo[leaf] PROVE Beyond(pgs[x], hi[x], f)
    OBVIOUS
  <2>1. ~pgs[x].leaf /\ Len(pgs[x].keys) \in Nat /\ Len(pgs[x].kids) = Len(pgs[x].keys) + 1
    BY WholePage
  <2>2. 1 \in 1 .. Len(pgs[x].kids)
    BY <2>1
  <2> DEFINE kid == pgs[x].kids[1]
  <2>3. /\ kid \in DOMAIN pgs /\ h[x] = h[kid] + 1 /\ lo[kid] = lo[x]
        /\ hi[kid] = High(pgs[x], hi[x], 1)
    BY <2>2, WholeKid DEF Low
  <2>4. h[kid] = n
    <3>1. h[kid] \in Nat
      BY <2>3, WholePage
    <3> QED BY <3>1, <2>3
  <2>5. f < High(pgs[x], hi[x], 1)
    BY <2>3, <2>4, <1>3 DEF Beyond
  <2>6. CASE Len(pgs[x].keys) = 0
    BY <2>6, <2>5, <2>1 DEF High, Beyond
  <2>7. CASE Len(pgs[x].keys) # 0
    <3>1. f < pgs[x].keys[1] /\ 1 \in 1 .. Len(pgs[x].keys)
      BY <2>7, <2>5, <2>1 DEF High
    <3>2. \A i \in 1 .. Len(pgs[x].keys) : f < pgs[x].keys[i]
      <4> SUFFICES ASSUME NEW i \in 1 .. Len(pgs[x].keys) PROVE f < pgs[x].keys[i]
        OBVIOUS
      <4>1. KeysRise(pgs[x])
        BY WholePage DEF PageFits
      <4>2. i > 1 => pgs[x].keys[1] < pgs[x].keys[i]
        BY <4>1, <3>1 DEF KeysRise
      <4>3. pgs[x].keys[i] \in Nat /\ pgs[x].keys[1] \in Nat
        BY WholePage, <3>1
      <4> QED BY <4>2, <4>3, <1>1, <3>1
    <3>3. pgs[x].keys[1] < hi[x] /\ pgs[x].keys[1] \in Nat /\ hi[x] \in Nat
      BY <3>1, WholePage
    <3>4. f < hi[x]
      BY <3>1, <3>3, <1>1
    <3>5. \A i \in 1 .. Len(pgs[x].keys) : f <= pgs[x].keys[i]
      <4> SUFFICES ASSUME NEW i \in 1 .. Len(pgs[x].keys) PROVE f <= pgs[x].keys[i]
        OBVIOUS
      <4>1. pgs[x].keys[i] \in Nat
        BY WholePage
      <4> QED BY <4>1, <3>2, <1>1
    <3> QED BY <3>4, <3>2, <3>5 DEF Beyond
  <2> QED BY <2>6, <2>7
<1> HIDE DEF S
<1>4. Nat \subseteq S
  BY <1>2, <1>3, SetInduction
<1>5. h[p] \in S
  BY <1>4, WholePage
<1>6. Beyond(pgs[p], hi[p], f)
  BY <1>5 DEF S
<1> QED BY <1>1, <1>6

(* Key c of page n becomes f.                                              *)
MovesKey(n, m, c, f) ==
  /\ m \in PageRec /\ m.leaf = n.leaf /\ m.kids = n.kids /\ m.next = n.next
  /\ Len(m.keys) = Len(n.keys)
  /\ \A i \in 1 .. Len(n.keys) : m.keys[i] = IF i = c THEN f ELSE n.keys[i]

(* The key c of page q moves up to f, and with it the bounds that begin or *)
(* end with it below.                                                      *)
Moved(pgs, h, bound, q, c, f, p) == IF h[p] < h[q] /\ bound[p] = pgs[q].keys[c] THEN f ELSE bound[p]

(* Key number c of page q becomes f, and the bounds at the old key move    *)
(* there. Every page below that begins at the old key has its keys beyond  *)
(* f.                                                                      *)
Shift(pgs, new, rt, h, lo, hi, q, c, f, lo2, hi2) ==
  /\ Whole(pgs, rt, h, lo, hi)
  /\ q \in DOMAIN pgs /\ ~pgs[q].leaf /\ c \in 1 .. Len(pgs[q].keys)
  /\ f \in Key /\ pgs[q].keys[c] <= f
  /\ MovesKey(pgs[q], new[q], c, f) /\ Changed(pgs, new, q, new[q])
  /\ \A p \in DOMAIN pgs : h[p] < h[q] /\ lo[p] = pgs[q].keys[c] => Beyond(pgs[p], hi[p], f)
  /\ \A p \in DOMAIN pgs : lo2[p] = Moved(pgs, h, lo, q, c, f, p) /\ hi2[p] = Moved(pgs, h, hi, q, c, f, p)

(* What the types of the keys are in that.                                 *)
LEMMA ShiftFacts ==
  ASSUME NEW pgs, NEW new, NEW rt, NEW h, NEW lo, NEW hi, NEW q, NEW c, NEW f, NEW lo2, NEW hi2,
         Shift(pgs, new, rt, h, lo, hi, q, c, f, lo2, hi2), NEW b, b = pgs[q].keys[c]
  PROVE  /\ b \in Nat /\ f \in Nat /\ f \in Key /\ f <= MaxKey /\ b <= f
         /\ lo[q] < b /\ b < hi[q] /\ lo[q] \in Nat /\ hi[q] \in Nat /\ h[q] \in Nat
         /\ Len(pgs[q].kids) = Len(pgs[q].keys) + 1 /\ Len(pgs[q].keys) \in Nat
         /\ c \in 1 .. Len(pgs[q].keys)
<1>1. /\ Whole(pgs, rt, h, lo, hi) /\ q \in DOMAIN pgs /\ ~pgs[q].leaf /\ c \in 1 .. Len(pgs[q].keys)
      /\ f \in Key /\ b <= f
  BY DEF Shift
<1>2. PageFits(pgs[q], lo[q], hi[q])
  BY <1>1, WholePage
<1>3. lo[q] < b /\ b < hi[q]
  BY <1>1, <1>2 DEF PageFits
<1>4. b \in Nat /\ lo[q] \in Nat /\ hi[q] \in Nat /\ h[q] \in Nat
      /\ Len(pgs[q].kids) = Len(pgs[q].keys) + 1 /\ Len(pgs[q].keys) \in Nat
  BY <1>1, WholePage
<1>5. f \in Nat /\ f <= MaxKey
  BY <1>1, Numbers
<1> QED BY <1>1, <1>3, <1>4, <1>5

(* On the two sides of a key of a page, one level below.                   *)
LEMMA KeySides ==
  ASSUME NEW pgs, NEW rt, NEW h, NEW lo, NEW hi, Whole(pgs, rt, h, lo, hi),
         NEW q \in DOMAIN pgs, ~pgs[q].leaf, NEW c \in 1 .. Len(pgs[q].keys)
  PROVE  LET id == pgs[q].kids[c]  sid == pgs[q].kids[c + 1]  b == pgs[q].keys[c]
         IN  /\ id \in DOMAIN pgs /\ sid \in DOMAIN pgs /\ id # sid
             /\ h[q] = h[id] + 1 /\ h[q] = h[sid] + 1 /\ h[id] = h[sid]
             /\ hi[id] = b /\ lo[sid] = b /\ lo[id] < b /\ b < hi[sid]
             /\ lo[id] = Low(pgs[q], lo[q], c) /\ hi[sid] = High(pgs[q], hi[q], c + 1)
             /\ id # q /\ sid # q /\ id # rt /\ sid # rt
<1> DEFINE id == pgs[q].kids[c]  sid == pgs[q].kids[c + 1]  b == pgs[q].keys[c]
<1>1. Len(pgs[q].keys) \in Nat /\ Len(pgs[q].kids) = Len(pgs[q].keys) + 1
  BY WholePage
<1>2. c \in 1 .. Len(pgs[q].kids) /\ c + 1 \in 1 .. Len(pgs[q].kids) /\ c + 1 # 1 /\ (c + 1) - 1 = c
      /\ c # Len(pgs[q].kids)
  BY <1>1
<1>3. /\ id \in DOMAIN pgs /\ h[q] = h[id] + 1 /\ lo[id] = Low(pgs[q], lo[q], c)
      /\ hi[id] = High(pgs[q], hi[q], c)
  BY <1>2, WholeKid
<1>4. /\ sid \in DOMAIN pgs /\ h[q] = h[sid] + 1 /\ lo[sid] = Low(pgs[q], lo[q], c + 1)
      /\ hi[sid] = High(pgs[q], hi[q], c + 1)
  BY <1>2, WholeKid
<1>5. hi[id] = b
  BY <1>3, <1>2 DEF High
<1>6. lo[sid] = b
  BY <1>4, <1>2 DEF Low
<1>7. h[id] \in Nat /\ h[sid] \in Nat /\ lo[id] \in Nat /\ hi[id] \in Nat /\ lo[sid] \in Nat /\ hi[sid] \in Nat
      /\ lo[id] < hi[id] /\ lo[sid] < hi[sid] /\ h[q] \in Nat /\ hi[id] <= MaxKey + 1
      /\ hi[sid] <= MaxKey + 1 /\ MaxKey \in Nat
  <2>1. Whole(pgs, rt, h, lo, hi) /\ q \in DOMAIN pgs
    OBVIOUS
  <2>2. h[id] \in Nat /\ lo[id] \in Nat /\ hi[id] \in Nat /\ lo[id] < hi[id] /\ hi[id] <= MaxKey + 1 /\ MaxKey \in Nat
    <3> HIDE DEF id
    <3> QED BY ONLY <1>3, <2>1, WholePage
  <2>3. h[sid] \in Nat /\ lo[sid] \in Nat /\ hi[sid] \in Nat /\ lo[sid] < hi[sid] /\ hi[sid] <= MaxKey + 1
    <3> HIDE DEF sid
    <3> QED BY ONLY <1>4, <2>1, WholePage
  <2>4. h[q] \in Nat
    BY ONLY <2>1, WholePage
  <2> QED BY ONLY <2>2, <2>3, <2>4
<1>8. h[q] <= h[rt]
  BY DEF Whole, Tree, RootFits
<1>9. h[rt] \in Nat
  BY WholePage DEF Whole, Tree, RootFits
<1> HIDE DEF id, sid, b
<1>10. id # sid /\ h[id] = h[sid] /\ id # q /\ sid # q /\ id # rt /\ sid # rt /\ lo[id] < b /\ b < hi[sid]
  <2>0. /\ h[q] = h[id] + 1 /\ h[q] = h[sid] + 1 /\ h[q] <= h[rt]
        /\ h[id] \in Nat /\ h[sid] \in Nat /\ h[rt] \in Nat
    BY ONLY <1>3, <1>4, <1>7, <1>8, <1>9
  <2>1. id # rt /\ sid # rt /\ id # q /\ sid # q
    BY ONLY <2>0
  <2>2. lo[id] < b /\ b < hi[sid]
    BY ONLY <1>5, <1>6, <1>7
  <2>3. h[id] = h[sid]
    BY ONLY <2>0
  <2>4. id # sid
    <3>1. hi[id] = b /\ lo[id] < b /\ lo[sid] = b /\ b \in Nat
      BY ONLY <1>5, <1>6, <1>7, <2>2
    <3> QED BY ONLY <3>1
  <2> QED BY <2>1, <2>2, <2>3, <2>4
<1> QED BY <1>3, <1>4, <1>5, <1>6, <1>10 DEF id, sid, b

(* Where a page below is, seen from the key that moves.                    *)
LEMMA ShiftSides ==
  ASSUME NEW pgs, NEW new, NEW rt, NEW h, NEW lo, NEW hi, NEW q, NEW c, NEW f, NEW lo2, NEW hi2,
         Shift(pgs, new, rt, h, lo, hi, q, c, f, lo2, hi2), NEW b, b = pgs[q].keys[c],
         NEW p \in DOMAIN pgs, h[p] < h[q]
  PROVE  \/ hi[p] < b \/ hi[p] = b
         \/ lo[p] = b /\ f < hi[p] /\ Beyond(pgs[p], hi[p], f)
         \/ b < lo[p] /\ f < lo[p]
<1>1. /\ Whole(pgs, rt, h, lo, hi) /\ q \in DOMAIN pgs /\ ~pgs[q].leaf /\ c \in 1 .. Len(pgs[q].keys)
      /\ \A x \in DOMAIN pgs : h[x] < h[q] /\ lo[x] = b => Beyond(pgs[x], hi[x], f)
  BY DEF Shift
<1>2. b \in Nat /\ f \in Nat /\ h[q] \in Nat
  BY ShiftFacts
<1> DEFINE sid == pgs[q].kids[c + 1]
<1>3. sid \in DOMAIN pgs /\ h[q] = h[sid] + 1 /\ lo[sid] = b
  BY <1>1, KeySides
<1>4. h[sid] \in Nat /\ h[p] \in Nat
  BY <1>1, <1>3, WholePage
<1>5. h[p] \in 0 .. h[sid]
  BY <1>2, <1>3, <1>4
<1>6. PICK s \in DOMAIN pgs : h[s] = h[p] /\ lo[s] = b
  BY <1>1, <1>3, <1>5, LeftEdge
<1>7. Beyond(pgs[s], hi[s], f)
  BY <1>1, <1>6
<1>8. f < hi[s]
  BY <1>7 DEF Beyond
<1>9. p # s => hi[p] <= lo[s] \/ hi[s] <= lo[p]
  BY <1>1, <1>6 DEF Whole, Tree, LevelsApart
<1>10. lo[p] \in Nat /\ hi[p] \in Nat /\ hi[s] \in Nat
  BY <1>1, WholePage
<1>11. CASE p = s
  BY <1>11, <1>6, <1>7, <1>8
<1>12. CASE p # s
  <2>1. hi[p] <= b \/ hi[s] <= lo[p]
    BY <1>9, <1>12, <1>6
  <2>2. hi[p] < b \/ hi[p] = b \/ f < lo[p]
    BY ONLY <2>1, <1>2, <1>6, <1>8, <1>10
  <2>3. f < lo[p] => b < lo[p]
    <3>1. b <= f
      BY DEF Shift
    <3> QED BY ONLY <3>1, <1>2, <1>10
  <2> QED BY <2>2, <2>3
<1> QED BY <1>11, <1>12

(* The bounds after the shift.                                             *)
LEMMA ShiftBounds ==
  ASSUME NEW pgs, NEW new, NEW rt, NEW h, NEW lo, NEW hi, NEW q, NEW c, NEW f, NEW lo2, NEW hi2,
         Shift(pgs, new, rt, h, lo, hi, q, c, f, lo2, hi2), NEW b, b = pgs[q].keys[c],
         NEW p \in DOMAIN pgs
  PROVE  /\ lo2[p] = IF h[p] < h[q] /\ lo[p] = b THEN f ELSE lo[p]
         /\ hi2[p] = IF h[p] < h[q] /\ hi[p] = b THEN f ELSE hi[p]
         /\ lo2[p] \in Nat /\ hi2[p] \in Nat /\ lo2[p] < hi2[p] /\ hi2[p] <= MaxKey + 1
         /\ lo[p] <= lo2[p] /\ hi[p] <= hi2[p]
         /\ PageFits(new[p], lo2[p], hi2[p])
<1>1. /\ Whole(pgs, rt, h, lo, hi) /\ q \in DOMAIN pgs /\ ~pgs[q].leaf
      /\ lo2[p] = IF h[p] < h[q] /\ lo[p] = b THEN f ELSE lo[p]
      /\ hi2[p] = IF h[p] < h[q] /\ hi[p] = b THEN f ELSE hi[p]
  BY DEF Shift, Moved
<1>2. b \in Nat /\ f \in Nat /\ f <= MaxKey /\ b <= f /\ h[q] \in Nat
  BY ShiftFacts
<1>3. /\ lo[p] \in Nat /\ hi[p] \in Nat /\ lo[p] < hi[p] /\ hi[p] <= MaxKey + 1 /\ MaxKey \in Nat /\ h[p] \in Nat
  BY <1>1, WholePage
<1>4. h[p] < h[q] => hi[p] < b \/ hi[p] = b \/ (lo[p] = b /\ f < hi[p] /\ Beyond(pgs[p], hi[p], f)) \/ b < lo[p]
  BY ShiftSides
<1>5. lo2[p] \in Nat /\ hi2[p] \in Nat /\ lo2[p] < hi2[p] /\ hi2[p] <= MaxKey + 1
      /\ lo[p] <= lo2[p] /\ hi[p] <= hi2[p]
  <2>1. h[p] < h[q] => hi[p] < b \/ hi[p] = b \/ (lo[p] = b /\ f < hi[p]) \/ b < lo[p]
    BY <1>4
  <2> QED BY ONLY <2>1, <1>1, <1>2, <1>3
<1>6. PageFits(pgs[p], lo[p], hi[p])
  BY <1>1, WholePage
<1>7. ASSUME p = q PROVE PageFits(new[p], lo2[p], hi2[p])
  <2>1. MovesKey(pgs[q], new[q], c, f)
    BY DEF Shift
  <2> DEFINE n == pgs[q]  m == new[q]
  <2>2. lo2[q] = lo[q] /\ hi2[q] = hi[q]
    BY <1>1, <1>7, <1>2
  <2>3. c \in 1 .. Len(n.keys) /\ Len(n.keys) \in Nat /\ Len(n.kids) = Len(n.keys) + 1
    BY ShiftFacts
  <2>4. /\ m \in PageRec /\ m.leaf = FALSE /\ Len(m.keys) = Len(n.keys) /\ Len(m.kids) = Len(n.kids)
        /\ \A i \in 1 .. Len(n.keys) : m.keys[i] = IF i = c THEN f ELSE n.keys[i]
    <3>1. m.leaf = n.leaf /\ n.leaf \in BOOLEAN
      BY <2>1, <1>1, WholePage, RecFields DEF MovesKey
    <3> QED BY <2>1, <3>1, <1>1 DEF MovesKey
  <2>5. KeysRise(n) /\ \A i \in 1 .. Len(n.keys) : n.keys[i] \in Nat /\ lo[q] < n.keys[i] /\ n.keys[i] < hi[q]
    BY <1>1, WholePage DEF PageFits
  <2>6. f < High(n, hi[q], c + 1)
    <3>1. /\ n.kids[c + 1] \in DOMAIN pgs /\ h[q] = h[n.kids[c + 1]] + 1 /\ lo[n.kids[c + 1]] = b
          /\ hi[n.kids[c + 1]] = High(n, hi[q], c + 1)
      BY <1>1, <2>3, KeySides
    <3>2. h[n.kids[c + 1]] \in Nat
      BY <3>1, <1>1, WholePage
    <3>3. Beyond(pgs[n.kids[c + 1]], hi[n.kids[c + 1]], f)
      BY <3>1, <3>2 DEF Shift
    <3> QED BY <3>1, <3>3 DEF Beyond
  <2>7. \A i \in 1 .. Len(n.keys) : (i < c => n.keys[i] < f) /\ (c < i => f < n.keys[i])
    <3> SUFFICES ASSUME NEW i \in 1 .. Len(n.keys) PROVE (i < c => n.keys[i] < f) /\ (c < i => f < n.keys[i])
      OBVIOUS
    <3>1. i < c => n.keys[i] < n.keys[c]
      BY <2>5, <2>3 DEF KeysRise
    <3>2. c < i => n.keys[c + 1] <= n.keys[i] /\ High(n, hi[q], c + 1) = n.keys[c + 1]
      <4> SUFFICES ASSUME c < i PROVE n.keys[c + 1] <= n.keys[i] /\ High(n, hi[q], c + 1) = n.keys[c + 1]
        OBVIOUS
      <4>1. c + 1 \in 1 .. Len(n.keys) /\ c + 1 # Len(n.kids)
        BY <2>3
      <4>2. c + 1 = i \/ n.keys[c + 1] < n.keys[i]
        BY <2>5, <2>3, <4>1 DEF KeysRise
      <4>3. n.keys[i] \in Nat /\ n.keys[c + 1] \in Nat
        BY <2>5, <4>1
      <4> QED BY <4>1, <4>2, <4>3 DEF High
    <3>3. n.keys[i] \in Nat /\ (c < i => n.keys[c + 1] \in Nat)
      <4>1. c < i => c + 1 \in 1 .. Len(n.keys)
        BY <2>3
      <4> QED BY <4>1, <2>5
    <3> DEFINE x == n.keys[i]  y == n.keys[c]  z == n.keys[c + 1]  u == High(n, hi[q], c + 1)
    <3>4. /\ i < c => x < y
          /\ c < i => z <= x /\ u = z /\ z \in Nat
          /\ x \in Nat /\ f < u /\ f \in Nat /\ y = b /\ b \in Nat /\ b <= f
      BY <3>1, <3>2, <3>3, <2>3, <2>6, <1>2
    <3> HIDE DEF x, y, z, u
    <3>5. ASSUME i < c PROVE x < f
      <4>1. x < b
        BY <3>4, <3>5
      <4> QED BY ONLY <3>4, <4>1
    <3>6. ASSUME c < i PROVE f < x
      <4>1. z <= x /\ f < z /\ z \in Nat
        BY ONLY <3>4, <3>6
      <4> QED BY ONLY <3>4, <4>1
    <3> QED BY <3>5, <3>6 DEF x
  <2>8. f < hi[q] /\ lo[q] < f
    <3>1. c = Len(n.keys) => f < hi[q]
      <4>1. c = Len(n.keys) => c + 1 = Len(n.kids)
        BY <2>3
      <4> QED BY <4>1, <2>6 DEF High
    <3>2. c # Len(n.keys) => f < n.keys[c + 1] /\ n.keys[c + 1] < hi[q] /\ n.keys[c + 1] \in Nat
      <4>1. c # Len(n.keys) => c + 1 \in 1 .. Len(n.keys) /\ c < c + 1
        BY <2>3
      <4> QED BY <4>1, <2>7, <2>5
    <3>3. lo[q] < b /\ lo[q] \in Nat /\ hi[q] \in Nat
      BY ShiftFacts
    <3> QED BY <3>1, <3>2, <3>3, <1>2
  <2>9. KeysRise(m)
    <3> SUFFICES ASSUME NEW i \in 1 .. Len(m.keys), NEW j \in 1 .. Len(m.keys), i < j
                 PROVE  m.keys[i] < m.keys[j]
      BY DEF KeysRise
    <3>1. i \in 1 .. Len(n.keys) /\ j \in 1 .. Len(n.keys) /\ n.keys[i] < n.keys[j]
      BY <2>4, <2>5 DEF KeysRise
    <3>2. CASE i = c
      BY <3>1, <3>2, <2>4, <2>7
    <3>3. CASE j = c
      BY <3>1, <3>3, <2>4, <2>7
    <3>4. CASE i # c /\ j # c
      BY <3>1, <3>4, <2>4
    <3> QED BY <3>2, <3>3, <3>4
  <2>10. \A i \in 1 .. Len(m.keys) : lo[q] <= m.keys[i] /\ m.keys[i] < hi[q] /\ lo[q] < m.keys[i]
    <3> SUFFICES ASSUME NEW i \in 1 .. Len(n.keys)
                 PROVE  lo[q] <= m.keys[i] /\ m.keys[i] < hi[q] /\ lo[q] < m.keys[i]
      BY <2>4
    <3>1. n.keys[i] \in Nat /\ lo[q] < n.keys[i] /\ n.keys[i] < hi[q]
      BY <2>5
    <3>2. m.keys[i] = f \/ m.keys[i] = n.keys[i]
      BY <2>4
    <3>3. lo[q] \in Nat
      BY ShiftFacts
    <3> QED BY <3>1, <3>2, <3>3, <2>8, <1>2
  <2>11. PageFits(m, lo[q], hi[q])
    BY <2>3, <2>4, <2>9, <2>10 DEF PageFits
  <2> QED BY <2>11, <2>2, <1>7
<1>8. ASSUME p # q PROVE PageFits(new[p], lo2[p], hi2[p])
  <2>1. new[p] = pgs[p]
    BY <1>8 DEF Shift, Changed
  <2>2. CASE h[p] < h[q] /\ lo[p] = b
    <3>1. Beyond(pgs[p], hi[p], f)
      BY <2>2 DEF Shift
    <3>2. lo2[p] = f /\ hi2[p] = hi[p]
      BY <2>2, <1>1, <1>3
    <3>3. \A i \in 1 .. Len(pgs[p].keys) : f <= pgs[p].keys[i] /\ (pgs[p].leaf \/ f < pgs[p].keys[i])
      BY <3>1 DEF Beyond
    <3> QED BY <3>2, <3>3, <2>1, <1>6 DEF PageFits
  <2>3. CASE ~(h[p] < h[q] /\ lo[p] = b)
    <3>1. lo2[p] = lo[p]
      BY <2>3, <1>1
    <3>2. \A i \in 1 .. Len(pgs[p].keys) : pgs[p].keys[i] < hi2[p]
      <4> SUFFICES ASSUME NEW i \in 1 .. Len(pgs[p].keys) PROVE pgs[p].keys[i] < hi2[p]
        OBVIOUS
      <4>1. pgs[p].keys[i] \in Nat /\ pgs[p].keys[i] < hi[p]
        BY <1>1, WholePage
      <4> QED BY <4>1, <1>5, <1>3
    <3> QED BY <3>1, <3>2, <2>1, <1>6 DEF PageFits
  <2> QED BY <2>2, <2>3
<1> QED BY <1>1, <1>5, <1>7, <1>8

(* No page but q changes.                                                  *)
LEMMA ShiftPages ==
  ASSUME NEW pgs, NEW new, NEW rt, NEW h, NEW lo, NEW hi, NEW q, NEW c, NEW f, NEW lo2, NEW hi2,
         Shift(pgs, new, rt, h, lo, hi, q, c, f, lo2, hi2)
  PROVE  /\ DOMAIN new = DOMAIN pgs
         /\ \A p \in DOMAIN pgs : new[p].kids = pgs[p].kids /\ new[p].next = pgs[p].next /\ new[p].leaf = pgs[p].leaf
         /\ \A p \in DOMAIN pgs : p # q => new[p] = pgs[p]
BY DEF Shift, Changed, MovesKey

(* Children keep their places.                                             *)
LEMMA ShiftKids ==
  ASSUME NEW pgs, NEW new, NEW rt, NEW h, NEW lo, NEW hi, NEW q, NEW c, NEW f, NEW lo2, NEW hi2,
         Shift(pgs, new, rt, h, lo, hi, q, c, f, lo2, hi2), NEW b, b = pgs[q].keys[c],
         NEW p \in DOMAIN pgs, NEW i \in 1 .. Len(pgs[p].kids)
  PROVE  /\ lo2[pgs[p].kids[i]] = Low(new[p], lo2[p], i)
         /\ hi2[pgs[p].kids[i]] = High(new[p], hi2[p], i)
<1> DEFINE kid == pgs[p].kids[i]  n == pgs[p]
<1>1. /\ Whole(pgs, rt, h, lo, hi) /\ q \in DOMAIN pgs /\ ~pgs[q].leaf
  BY DEF Shift
<1>2. b \in Nat /\ f \in Nat /\ b <= f /\ h[q] \in Nat /\ lo[q] < b /\ b < hi[q] /\ lo[q] \in Nat /\ hi[q] \in Nat
      /\ c \in 1 .. Len(pgs[q].keys) /\ Len(pgs[q].keys) \in Nat
  BY ShiftFacts
<1>3. kid \in DOMAIN pgs /\ h[p] = h[kid] + 1 /\ lo[kid] = Low(n, lo[p], i) /\ hi[kid] = High(n, hi[p], i)
  BY <1>1, WholeKid
<1>4. /\ lo2[kid] = IF h[kid] < h[q] /\ lo[kid] = b THEN f ELSE lo[kid]
      /\ hi2[kid] = IF h[kid] < h[q] /\ hi[kid] = b THEN f ELSE hi[kid]
      /\ lo2[p] = IF h[p] < h[q] /\ lo[p] = b THEN f ELSE lo[p]
      /\ hi2[p] = IF h[p] < h[q] /\ hi[p] = b THEN f ELSE hi[p]
  BY <1>3, ShiftBounds
<1>5. h[p] \in Nat /\ h[kid] \in Nat /\ lo[p] \in Nat /\ hi[p] \in Nat /\ lo[p] < hi[p]
      /\ Len(n.keys) \in Nat /\ Len(n.kids) = Len(n.keys) + 1
      /\ lo[kid] \in Nat /\ hi[kid] \in Nat /\ lo[kid] < hi[kid]
  <2>1. h[p] \in Nat /\ lo[p] \in Nat /\ hi[p] \in Nat /\ lo[p] < hi[p] /\ Len(n.keys) \in Nat
    BY <1>1, WholePage
  <2>2. ~n.leaf
    BY <1>1, WholePage
  <2>3. Len(n.kids) = Len(n.keys) + 1
    BY <1>1, <2>2, WholePage
  <2>4. h[kid] \in Nat /\ lo[kid] \in Nat /\ hi[kid] \in Nat /\ lo[kid] < hi[kid]
    <3> HIDE DEF kid
    <3> QED BY ONLY <1>1, <1>3, WholePage
  <2> QED BY <2>1, <2>3, <2>4
<1>6. PageFits(n, lo[p], hi[p]) /\ KeysRise(n)
  BY <1>1, WholePage DEF PageFits
<1>7. lo[p] <= lo[kid] /\ hi[kid] <= hi[p]
  BY <1>3, <1>5, <1>6, PlaceBounds
<1>a. h[p] = h[kid] + 1 /\ h[p] \in Nat /\ h[kid] \in Nat /\ h[q] \in Nat
  BY <1>2, <1>3, <1>5
<1>b. /\ b \in Nat /\ lo[q] < b /\ b < hi[q] /\ lo[q] \in Nat /\ hi[q] \in Nat
      /\ lo[p] \in Nat /\ hi[p] \in Nat /\ lo[p] < hi[p] /\ lo[kid] \in Nat /\ hi[kid] \in Nat
      /\ lo[kid] < hi[kid] /\ lo[p] <= lo[kid] /\ hi[kid] <= hi[p]
  BY <1>2, <1>5, <1>7
<1>8. CASE p = q
  <2>1. /\ Len(new[q].keys) = Len(n.keys) /\ new[q].kids = n.kids
        /\ \A j \in 1 .. Len(n.keys) : new[q].keys[j] = IF j = c THEN f ELSE n.keys[j]
    BY <1>8 DEF Shift, MovesKey
  <2>2. h[kid] < h[q] /\ lo2[p] = lo[p] /\ hi2[p] = hi[p]
    BY <1>3, <1>4, <1>5, <1>8
  <2>3. \A j \in 1 .. Len(n.keys) : n.keys[j] = b <=> j = c
    <3> SUFFICES ASSUME NEW j \in 1 .. Len(n.keys), n.keys[j] = b, j # c PROVE FALSE
      BY <1>2, <1>8
    <3>1. j < c => n.keys[j] < n.keys[c]
      BY <1>6, <1>8, <1>2 DEF KeysRise
    <3>2. c < j => n.keys[c] < n.keys[j]
      BY <1>6, <1>8, <1>2 DEF KeysRise
    <3> QED BY <3>1, <3>2, <1>2, <1>8
  <2>4. lo2[kid] = Low(new[p], lo2[p], i)
    <3>1. CASE i = 1
      BY <3>1, <2>2, <1>3, <1>4, <1>2, <1>8 DEF Low
    <3>2. CASE i # 1
      <4>1. i - 1 \in 1 .. Len(n.keys)
        BY <3>2, <1>5
      <4>2. lo[kid] = n.keys[i - 1]
        BY <3>2, <1>3 DEF Low
      <4>3. new[p].keys[i - 1] = IF i - 1 = c THEN f ELSE n.keys[i - 1]
        BY <4>1, <2>1, <1>8
      <4>4. n.keys[i - 1] = b <=> i - 1 = c
        BY <4>1, <2>3
      <4> QED BY <4>2, <4>3, <4>4, <2>2, <1>4, <3>2 DEF Low
    <3> QED BY <3>1, <3>2
  <2>5. hi2[kid] = High(new[p], hi2[p], i)
    <3>1. CASE i = Len(n.kids)
      <4>1. hi[kid] = hi[q]
        BY <3>1, <1>3, <1>8 DEF High
      <4>2. hi2[kid] = hi[q]
        BY <4>1, <1>4, <1>2
      <4> QED BY <4>2, <2>1, <2>2, <3>1, <1>8 DEF High
    <3>2. CASE i # Len(n.kids)
      <4>1. i \in 1 .. Len(n.keys)
        BY <3>2, <1>5
      <4>2. hi[kid] = n.keys[i]
        BY <3>2, <1>3 DEF High
      <4>3. new[p].keys[i] = IF i = c THEN f ELSE n.keys[i]
        BY <4>1, <2>1, <1>8
      <4>4. n.keys[i] = b <=> i = c
        BY <4>1, <2>3
      <4> QED BY <4>2, <4>3, <4>4, <2>2, <2>1, <1>4, <3>2, <1>8 DEF High
    <3> QED BY <3>1, <3>2
  <2> QED BY <2>4, <2>5
<1>9. CASE p # q
  <2>1. new[p] = n
    BY <1>9, ShiftPages
  <2>2. CASE h[p] > h[q]
    <3>1. ~(h[kid] < h[q]) /\ ~(h[p] < h[q])
      BY ONLY <2>2, <1>a
    <3> QED BY <3>1, <2>1, <1>3, <1>4
  <2>3. CASE h[p] = h[q]
    <3>1. hi[p] <= lo[q] \/ hi[q] <= lo[p]
      BY <1>1, <1>9, <2>3 DEF Whole, Tree, LevelsApart
    <3>2. lo[kid] # b /\ hi[kid] # b
      <4> HIDE DEF kid
      <4> QED BY ONLY <3>1, <1>b
    <3>3. ~(h[p] < h[q])
      BY <2>3, <1>2
    <3> QED BY <3>2, <3>3, <2>1, <1>3, <1>4
  <2>4. CASE h[p] < h[q]
    <3>1. hi[p] < b \/ hi[p] = b \/ (lo[p] = b /\ f < hi[p] /\ Beyond(n, hi[p], f)) \/ b < lo[p]
      BY <2>4, ShiftSides
    <3>2. hi[p] < b \/ hi[p] = b \/ lo[p] = b \/ b < lo[p]
      BY <3>1
    <3>3. h[kid] < h[q]
      BY ONLY <2>4, <1>a
    <3>4. lo[kid] = b => lo[p] = b
      BY ONLY <3>2, <1>b
    <3>5. hi[kid] = b => hi[p] = b
      BY ONLY <3>2, <1>b
    <3>6. i # 1 => lo[kid] # lo[p]
      <4> SUFFICES ASSUME i # 1 PROVE lo[kid] # lo[p]
        OBVIOUS
      <4>0. ~n.leaf
        BY <1>a, <1>1, WholePage
      <4>1. i - 1 \in 1 .. Len(n.keys) /\ ~n.leaf
        BY <1>5, <4>0
      <4>2. lo[p] < n.keys[i - 1]
        BY <4>1, <1>6 DEF PageFits
      <4> QED BY <4>2, <1>3, <1>5 DEF Low
    <3>7. i # Len(n.kids) => hi[kid] # hi[p]
      <4> SUFFICES ASSUME i # Len(n.kids) PROVE hi[kid] # hi[p]
        OBVIOUS
      <4>1. i \in 1 .. Len(n.keys)
        BY <1>5
      <4>2. n.keys[i] < hi[p]
        BY <4>1, <1>6 DEF PageFits
      <4>3. hi[kid] = n.keys[i]
        BY <1>3 DEF High
      <4> QED BY <4>2, <4>3, <1>5
    <3>8. lo2[kid] = Low(n, lo2[p], i)
      BY <3>3, <3>4, <3>6, <2>4, <1>3, <1>4 DEF Low
    <3>9. hi2[kid] = High(n, hi2[p], i)
      BY <3>3, <3>5, <3>7, <2>4, <1>3, <1>4 DEF High
    <3> QED BY <3>8, <3>9, <2>1
  <2>5. h[p] > h[q] \/ h[p] = h[q] \/ h[p] < h[q]
    BY ONLY <1>a
  <2> QED BY <2>2, <2>3, <2>4, <2>5
<1> QED BY <1>8, <1>9

(* Bounds that move stay in their order.                                   *)
LEMMA ShiftApart ==
  ASSUME NEW pgs, NEW new, NEW rt, NEW h, NEW lo, NEW hi, NEW q, NEW c, NEW f, NEW lo2, NEW hi2,
         Shift(pgs, new, rt, h, lo, hi, q, c, f, lo2, hi2),
         NEW p \in DOMAIN pgs, NEW r \in DOMAIN pgs, h[p] = h[r], hi[p] <= lo[r]
  PROVE  hi2[p] <= lo2[r]
<1> DEFINE b == pgs[q].keys[c]
<1>1. /\ lo2[r] = IF h[r] < h[q] /\ lo[r] = b THEN f ELSE lo[r]
      /\ hi2[p] = IF h[p] < h[q] /\ hi[p] = b THEN f ELSE hi[p]
      /\ lo[r] <= lo2[r] /\ lo2[r] \in Nat
  BY ShiftBounds
<1>2. b \in Nat /\ f \in Nat /\ b <= f /\ h[q] \in Nat
  BY ShiftFacts
<1>3. hi[p] \in Nat /\ lo[r] \in Nat /\ h[p] \in Nat /\ hi[r] \in Nat /\ lo[r] < hi[r]
  BY WholePage DEF Shift
<1>4. h[r] < h[q] => hi[r] < b \/ hi[r] = b \/ (lo[r] = b /\ f < hi[r] /\ Beyond(pgs[r], hi[r], f)) \/ (b < lo[r] /\ f < lo[r])
  BY ShiftSides
<1> HIDE DEF b
<1>5. h[r] < h[q] => hi[r] < b \/ hi[r] = b \/ lo[r] = b \/ f < lo[r]
  BY <1>4
<1>6. h[p] = h[r] /\ hi[p] <= lo[r]
  OBVIOUS
<1> QED BY ONLY <1>1, <1>2, <1>3, <1>5, <1>6

(* The pages are a whole tree, with the bounds moved.                      *)
LEMMA ShiftTree ==
  ASSUME NEW pgs, NEW new, NEW rt, NEW h, NEW lo, NEW hi, NEW q, NEW c, NEW f, NEW lo2, NEW hi2,
         Shift(pgs, new, rt, h, lo, hi, q, c, f, lo2, hi2)
  PROVE  Whole(new, rt, h, lo2, hi2)
<1> DEFINE b == pgs[q].keys[c]
<1>0. Whole(pgs, rt, h, lo, hi) /\ Tree(pgs, rt, h, lo, hi, rt, rt)
  BY DEF Shift, Whole
<1>1. /\ DOMAIN new = DOMAIN pgs
      /\ \A p \in DOMAIN pgs : new[p].kids = pgs[p].kids /\ new[p].next = pgs[p].next /\ new[p].leaf = pgs[p].leaf
  BY ShiftPages
<1>2. b \in Nat /\ f \in Nat /\ b <= f /\ h[q] \in Nat /\ f <= MaxKey /\ lo[q] \in Nat /\ lo[q] < b
      /\ hi[q] \in Nat /\ b < hi[q]
  BY ShiftFacts
<1>3. \A p \in DOMAIN pgs :
        /\ lo2[p] = IF h[p] < h[q] /\ lo[p] = b THEN f ELSE lo[p]
        /\ hi2[p] = IF h[p] < h[q] /\ hi[p] = b THEN f ELSE hi[p]
        /\ lo2[p] \in Nat /\ hi2[p] \in Nat /\ lo2[p] < hi2[p] /\ hi2[p] <= MaxKey + 1
        /\ lo[p] <= lo2[p] /\ hi[p] <= hi2[p]
        /\ PageFits(new[p], lo2[p], hi2[p])
  BY ShiftBounds
<1>4. PagesFit(new, h, lo2, hi2)
  <2> SUFFICES ASSUME NEW p \in DOMAIN new
               PROVE  /\ p \in Nat /\ h[p] \in Nat /\ lo2[p] \in Nat /\ hi2[p] \in Nat
                      /\ lo2[p] < hi2[p] /\ hi2[p] <= MaxKey + 1
                      /\ PageFits(new[p], lo2[p], hi2[p])
                      /\ (new[p].leaf <=> h[p] = 0)
    BY DEF PagesFit
  <2>1. p \in Nat /\ h[p] \in Nat /\ (pgs[p].leaf <=> h[p] = 0)
    BY <1>0, <1>1, WholePage
  <2>2. new[p].leaf <=> h[p] = 0
    BY <2>1, <1>1
  <2> QED BY <2>1, <2>2, <1>1, <1>3
<1>5. RootFits(new, rt, h, lo2, hi2, rt, rt)
  <2>1. rt \in DOMAIN pgs /\ lo[rt] = 0 /\ hi[rt] = MaxKey + 1 /\ \A id \in DOMAIN pgs : h[id] <= h[rt]
    BY <1>0 DEF Tree, RootFits, EndOf
  <2>2. q \in DOMAIN pgs
    BY DEF Shift
  <2>3. h[q] <= h[rt] /\ h[rt] \in Nat
    BY <2>1, <2>2, <1>0, WholePage
  <2>4. lo2[rt] = 0 /\ hi2[rt] = MaxKey + 1
    BY <2>1, <2>3, <1>2, <1>3
  <2> QED BY <2>1, <2>4, <1>1 DEF RootFits, EndOf
<1>6. KidsFit(new, h, lo2, hi2, rt, rt)
  <2> SUFFICES ASSUME NEW p \in DOMAIN new, NEW i \in 1 .. Len(new[p].kids)
               PROVE  KidFits(new, h, lo2, hi2, rt, rt, p, i)
    BY DEF KidsFit
  <2>1. p \in DOMAIN pgs /\ i \in 1 .. Len(pgs[p].kids) /\ new[p].kids[i] = pgs[p].kids[i]
    BY <1>1
  <2>2. pgs[p].kids[i] \in DOMAIN pgs /\ h[p] = h[pgs[p].kids[i]] + 1
    BY <2>1, <1>0, WholeKid
  <2>3. /\ lo2[pgs[p].kids[i]] = Low(new[p], lo2[p], i)
        /\ hi2[pgs[p].kids[i]] = High(new[p], hi2[p], i)
    BY <2>1, ShiftKids
  <2>4. EndOf(hi2, rt, rt, new[p].kids[i]) = hi2[new[p].kids[i]]
    BY DEF EndOf
  <2> QED BY <2>1, <2>2, <2>3, <2>4, <1>1 DEF KidFits
<1>7. AllPlaced(new, rt, rt)
  BY <1>0, <1>1 DEF Tree, AllPlaced, HasPlace
<1>8. LevelsApart(new, h, lo2, hi2)
  <2> SUFFICES ASSUME NEW p \in DOMAIN pgs, NEW r \in DOMAIN pgs, h[p] = h[r], p # r
               PROVE  hi2[p] <= lo2[r] \/ hi2[r] <= lo2[p]
    BY <1>1 DEF LevelsApart
  <2>1. hi[p] <= lo[r] \/ hi[r] <= lo[p]
    BY <1>0 DEF Tree, LevelsApart
  <2> QED BY <2>1, ShiftApart
<1>9. ChainFits(new, h, lo2, hi2)
  <2> SUFFICES ASSUME NEW p \in DOMAIN pgs
               PROVE  IF hi2[p] = MaxKey + 1 THEN new[p].next = Null
                      ELSE new[p].next \in DOMAIN new /\ h[new[p].next] = h[p] /\ lo2[new[p].next] = hi2[p]
    BY <1>1 DEF ChainFits
  <2>1. IF hi[p] = MaxKey + 1 THEN pgs[p].next = Null
        ELSE pgs[p].next \in DOMAIN pgs /\ h[pgs[p].next] = h[p] /\ lo[pgs[p].next] = hi[p]
    BY <1>0 DEF Tree, ChainFits
  <2>2. q \in DOMAIN pgs /\ MaxKey \in Nat /\ hi[q] <= MaxKey + 1
    BY <1>0, WholePage DEF Shift
  <2>3. hi2[p] = MaxKey + 1 <=> hi[p] = MaxKey + 1
    <3>1. f # MaxKey + 1 /\ b # MaxKey + 1
      BY <2>2, <1>2
    <3> QED BY <3>1, <1>3
  <2>4. CASE hi[p] = MaxKey + 1
    BY <2>1, <2>3, <2>4, <1>1
  <2>5. CASE hi[p] # MaxKey + 1
    BY <2>1, <2>3, <2>5, <1>1, <1>3
  <2> QED BY <2>4, <2>5
<1>10. PairFits(new, rt, h, lo2, hi2, rt, rt)
  BY DEF PairFits
<1> QED BY <1>4, <1>5, <1>6, <1>7, <1>8, <1>9, <1>10 DEF Whole, Tree

-----------------------------------------------------------------------------
(* Two pages become one.                                                   *)

(* An internal page without its key c and the child behind it.             *)
LosesKid(n, m, c) ==
  /\ m \in PageRec /\ m.leaf = FALSE /\ m.next = n.next
  /\ Len(m.keys) = Len(n.keys) - 1 /\ Len(m.kids) = Len(n.kids) - 1
  /\ \A j \in 1 .. Len(n.keys) - 1 : m.keys[j] = IF j < c THEN n.keys[j] ELSE n.keys[j + 1]
  /\ \A j \in 1 .. Len(n.kids) - 1 : m.kids[j] = IF j <= c THEN n.kids[j] ELSE n.kids[j + 1]

(* A page without one of its keys and the child behind it fits its bounds. *)
LEMMA LosesFits ==
  ASSUME NEW n, NEW m, NEW a \in Nat, NEW z \in Nat, PageFits(n, a, z), ~n.leaf,
         NEW c \in 1 .. Len(n.keys), LosesKid(n, m, c)
  PROVE  PageFits(m, a, z)
<1>1. /\ n \in PageRec /\ Len(n.kids) = Len(n.keys) + 1 /\ KeysRise(n) /\ Len(n.keys) \in Nat
      /\ \A i \in 1 .. Len(n.keys) : a <= n.keys[i] /\ n.keys[i] < z /\ a < n.keys[i] /\ n.keys[i] \in Nat
  BY RecFields, Numbers DEF PageFits
<1>2. /\ m \in PageRec /\ m.leaf = FALSE /\ Len(m.keys) = Len(n.keys) - 1 /\ Len(m.kids) = Len(m.keys) + 1
      /\ \A j \in 1 .. Len(n.keys) - 1 : m.keys[j] = IF j < c THEN n.keys[j] ELSE n.keys[j + 1]
  <2>1. /\ m \in PageRec /\ m.leaf = FALSE /\ Len(m.keys) = Len(n.keys) - 1 /\ Len(m.kids) = Len(n.kids) - 1
        /\ \A j \in 1 .. Len(n.keys) - 1 : m.keys[j] = IF j < c THEN n.keys[j] ELSE n.keys[j + 1]
    BY DEF LosesKid
  <2>2. Len(m.kids) = Len(m.keys) + 1
    BY <2>1, <1>1
  <2> QED BY <2>1, <2>2
<1>3. KeysRise(m)
  <2> SUFFICES ASSUME NEW i \in 1 .. Len(n.keys) - 1, NEW j \in 1 .. Len(n.keys) - 1, i < j
               PROVE  m.keys[i] < m.keys[j]
    BY <1>2 DEF KeysRise
  <2> DEFINE x == IF i < c THEN i ELSE i + 1  y == IF j < c THEN j ELSE j + 1
  <2>1. m.keys[i] = n.keys[x] /\ m.keys[j] = n.keys[y]
    BY <1>2
  <2>2. x \in 1 .. Len(n.keys) /\ y \in 1 .. Len(n.keys) /\ x < y
    BY <1>1
  <2> HIDE DEF x, y
  <2> QED BY <2>1, <2>2, <1>1 DEF KeysRise
<1>4. \A j \in 1 .. Len(m.keys) : a <= m.keys[j] /\ m.keys[j] < z /\ a < m.keys[j]
  <2> SUFFICES ASSUME NEW j \in 1 .. Len(n.keys) - 1
               PROVE  a <= m.keys[j] /\ m.keys[j] < z /\ a < m.keys[j]
    BY <1>2
  <2>1. j \in 1 .. Len(n.keys) /\ j + 1 \in 1 .. Len(n.keys)
    BY <1>1
  <2>2. m.keys[j] = n.keys[j] \/ m.keys[j] = n.keys[j + 1]
    BY <1>2
  <2> QED BY <2>1, <2>2, <1>1
<1> QED BY <1>2, <1>3, <1>4 DEF PageFits

(* Page m has all that two neighbours have, and the key between them; the  *)
(* right one is gone, and its place in parent q.                           *)
Join(pgs, new, rt, h, lo, hi, q, c, m, hi2) ==
  LET id == pgs[q].kids[c]  sid == pgs[q].kids[c + 1]
  IN  /\ Whole(pgs, rt, h, lo, hi)
      /\ q \in DOMAIN pgs /\ ~pgs[q].leaf /\ c \in 1 .. Len(pgs[q].keys)
      /\ Halves(m, pgs[id], pgs[sid], lo[id], pgs[q].keys[c], hi[sid], Len(pgs[id].keys) + 1)
      /\ PageFits(m, lo[id], hi[sid])
      /\ DOMAIN new = DOMAIN pgs \ {sid} /\ new[id] = m /\ LosesKid(pgs[q], new[q], c)
      /\ \A p \in DOMAIN new : p # id /\ p # q => new[p] = pgs[p]
      /\ \A p \in DOMAIN new : hi2[p] = IF p = id THEN hi[sid] ELSE hi[p]

(* What is then known of the pages on the two sides of the key b.          *)
Joined(pgs, new, rt, h, lo, hi, q, c, m, hi2, id, sid, b) ==
  /\ Whole(pgs, rt, h, lo, hi) /\ q \in DOMAIN pgs
  /\ c \in 1 .. Len(pgs[q].keys) /\ Len(pgs[q].keys) \in Nat /\ Len(pgs[q].kids) = Len(pgs[q].keys) + 1
  /\ id = pgs[q].kids[c] /\ sid = pgs[q].kids[c + 1] /\ b = pgs[q].keys[c]
  /\ Halves(m, pgs[id], pgs[sid], lo[id], b, hi[sid], Len(pgs[id].keys) + 1)
  /\ PageFits(m, lo[id], hi[sid])
  /\ DOMAIN new = DOMAIN pgs \ {sid} /\ new[id] = m /\ LosesKid(pgs[q], new[q], c)
  /\ \A p \in DOMAIN new : p # id /\ p # q => new[p] = pgs[p]
  /\ hi2[id] = hi[sid] /\ \A p \in DOMAIN new : p # id => hi2[p] = hi[p]
  /\ id \in DOMAIN pgs /\ sid \in DOMAIN pgs /\ id # sid /\ id \in DOMAIN new /\ q \in DOMAIN new
  /\ h[q] = h[id] + 1 /\ h[q] = h[sid] + 1 /\ h[id] = h[sid] /\ h[id] \in Nat
  /\ hi[id] = b /\ lo[sid] = b /\ lo[id] < b /\ b < hi[sid]
  /\ lo[id] = Low(pgs[q], lo[q], c) /\ hi[sid] = High(pgs[q], hi[q], c + 1)
  /\ id # q /\ sid # q /\ id # rt /\ sid # rt

(* What is known of the page, its sibling and the key between them when    *)
(* they become one.                                                        *)
LEMMA JoinFacts ==
  ASSUME NEW pgs, NEW new, NEW rt, NEW h, NEW lo, NEW hi, NEW q, NEW c, NEW m, NEW hi2,
         Join(pgs, new, rt, h, lo, hi, q, c, m, hi2)
  PROVE  Joined(pgs, new, rt, h, lo, hi, q, c, m, hi2, pgs[q].kids[c], pgs[q].kids[c + 1], pgs[q].keys[c])
<1> DEFINE id == pgs[q].kids[c]  sid == pgs[q].kids[c + 1]  b == pgs[q].keys[c]
<1>1. /\ Whole(pgs, rt, h, lo, hi) /\ q \in DOMAIN pgs /\ ~pgs[q].leaf /\ c \in 1 .. Len(pgs[q].keys)
      /\ Halves(m, pgs[id], pgs[sid], lo[id], b, hi[sid], Len(pgs[id].keys) + 1)
      /\ PageFits(m, lo[id], hi[sid])
      /\ DOMAIN new = DOMAIN pgs \ {sid} /\ new[id] = m /\ LosesKid(pgs[q], new[q], c)
      /\ \A p \in DOMAIN new : p # id /\ p # q => new[p] = pgs[p]
      /\ \A p \in DOMAIN new : hi2[p] = IF p = id THEN hi[sid] ELSE hi[p]
  BY DEF Join
<1>2. Len(pgs[q].keys) \in Nat /\ Len(pgs[q].kids) = Len(pgs[q].keys) + 1
  BY <1>1, WholePage
<1>3. /\ id \in DOMAIN pgs /\ sid \in DOMAIN pgs /\ id # sid
      /\ h[q] = h[id] + 1 /\ h[q] = h[sid] + 1 /\ h[id] = h[sid]
      /\ hi[id] = b /\ lo[sid] = b /\ lo[id] < b /\ b < hi[sid]
      /\ lo[id] = Low(pgs[q], lo[q], c) /\ hi[sid] = High(pgs[q], hi[q], c + 1)
      /\ id # q /\ sid # q /\ id # rt /\ sid # rt
  <2>1. Whole(pgs, rt, h, lo, hi) /\ q \in DOMAIN pgs /\ ~pgs[q].leaf /\ c \in 1 .. Len(pgs[q].keys)
    BY ONLY <1>1
  <2> QED BY ONLY <2>1, KeySides
<1>4. h[id] \in Nat
  BY ONLY <1>1, <1>3, WholePage
<1>5. id \in DOMAIN new /\ q \in DOMAIN new /\ hi2[id] = hi[sid] /\ \A p \in DOMAIN new : p # id => hi2[p] = hi[p]
  BY <1>1, <1>3
<1> QED BY <1>1, <1>2, <1>3, <1>4, <1>5 DEF Joined

(* The children of the parent.                                             *)
LEMMA JoinAbove ==
  ASSUME NEW pgs, NEW new, NEW rt, NEW h, NEW lo, NEW hi, NEW q, NEW c, NEW m, NEW hi2,
         NEW id, NEW sid, NEW b, Joined(pgs, new, rt, h, lo, hi, q, c, m, hi2, id, sid, b),
         NEW j \in 1 .. Len(new[q].kids)
  PROVE  KidFits(new, h, lo, hi2, rt, rt, q, j)
<1> DEFINE n == pgs[q]  k == Len(pgs[q].keys)
<1>0. id = n.kids[c] /\ sid = n.kids[c + 1]
  BY DEF Joined
<1>1. /\ Whole(pgs, rt, h, lo, hi) /\ q \in DOMAIN pgs
      /\ c \in 1 .. k /\ k \in Nat /\ Len(n.kids) = k + 1
      /\ DOMAIN new = DOMAIN pgs \ {sid} /\ LosesKid(n, new[q], c)
      /\ hi2[id] = hi[sid] /\ \A p \in DOMAIN new : p # id => hi2[p] = hi[p]
      /\ id \in DOMAIN new /\ q \in DOMAIN new /\ q # id
      /\ h[q] = h[id] + 1 /\ lo[id] = Low(n, lo[q], c) /\ hi[sid] = High(n, hi[q], c + 1)
  BY DEF Joined
<1>2. /\ Len(new[q].keys) = k - 1 /\ Len(new[q].kids) = k
      /\ \A i \in 1 .. k - 1 : new[q].keys[i] = IF i < c THEN n.keys[i] ELSE n.keys[i + 1]
      /\ \A i \in 1 .. k : new[q].kids[i] = IF i <= c THEN n.kids[i] ELSE n.kids[i + 1]
  BY <1>1 DEF LosesKid
<1>3. j \in 1 .. k /\ hi2[q] = hi[q]
  BY <1>1, <1>2
<1>a. c \in 1 .. k /\ k \in Nat /\ j \in 1 .. k
  BY <1>1, <1>3
<1>4. SUFFICES /\ new[q].kids[j] \in DOMAIN new /\ h[q] = h[new[q].kids[j]] + 1
               /\ lo[new[q].kids[j]] = Low(new[q], lo[q], j)
               /\ hi2[new[q].kids[j]] = High(new[q], hi[q], j)
  BY <1>3 DEF KidFits, EndOf
<1>5. ASSUME NEW i \in 1 .. k + 1, i # c, i # c + 1
      PROVE  /\ n.kids[i] \in DOMAIN new /\ h[q] = h[n.kids[i]] + 1
             /\ lo[n.kids[i]] = Low(n, lo[q], i) /\ hi2[n.kids[i]] = High(n, hi[q], i)
  <2>1. /\ n.kids[i] \in DOMAIN pgs /\ h[q] = h[n.kids[i]] + 1
        /\ lo[n.kids[i]] = Low(n, lo[q], i) /\ hi[n.kids[i]] = High(n, hi[q], i)
    BY <1>1, WholeKid
  <2>2. i \in 1 .. Len(n.kids) /\ c \in 1 .. Len(n.kids) /\ c + 1 \in 1 .. Len(n.kids)
    BY <1>1
  <2>3. n.kids[i] # id /\ n.kids[i] # sid
    BY <1>0, <1>1, <1>5, <2>2, OnePlace DEF Whole
  <2> QED BY <2>1, <2>3, <1>1
<1>6. CASE j < c
  <2>1. new[q].kids[j] = n.kids[j] /\ j \in 1 .. k + 1 /\ j # c /\ j # c + 1
    BY <1>2, <1>3, <1>6, <1>1
  <2>2. Low(new[q], lo[q], j) = Low(n, lo[q], j)
    <3>1. j # 1 => j - 1 \in 1 .. k - 1 /\ j - 1 < c
      BY ONLY <1>6, <1>a
    <3> QED BY <3>1, <1>2 DEF Low
  <2>3. High(new[q], hi[q], j) = High(n, hi[q], j)
    <3>1. j # k /\ j # k + 1 /\ j \in 1 .. k - 1
      BY ONLY <1>6, <1>a
    <3> QED BY <3>1, <1>2, <1>1, <1>6 DEF High
  <2> QED BY <2>1, <2>2, <2>3, <1>5
<1>7. CASE j = c
  <2>1. new[q].kids[j] = id
    BY <1>0, <1>2, <1>a, <1>7
  <2>2. Low(new[q], lo[q], j) = Low(n, lo[q], c)
    <3>1. c # 1 => c - 1 \in 1 .. k - 1 /\ c - 1 < c
      BY <1>1
    <3> QED BY <3>1, <1>2, <1>7 DEF Low
  <2>3. High(new[q], hi[q], j) = High(n, hi[q], c + 1)
    <3>1. c = k \/ (c \in 1 .. k - 1 /\ c # k /\ c + 1 # k + 1 /\ ~(c < c))
      BY <1>1
    <3> QED BY <3>1, <1>2, <1>1, <1>7 DEF High
  <2> QED BY <2>1, <2>2, <2>3, <1>1
<1>8. CASE j > c
  <2>1. new[q].kids[j] = n.kids[j + 1] /\ j + 1 \in 1 .. k + 1 /\ j + 1 # c /\ j + 1 # c + 1
    <3>1. ~(j <= c) /\ j + 1 \in 1 .. k + 1 /\ j + 1 # c /\ j + 1 # c + 1
      BY ONLY <1>8, <1>a
    <3> QED BY <3>1, <1>2, <1>3
  <2>2. Low(new[q], lo[q], j) = Low(n, lo[q], j + 1)
    <3>1. j # 1 /\ j + 1 # 1 /\ j - 1 \in 1 .. k - 1 /\ ~(j - 1 < c) /\ (j - 1) + 1 = j /\ (j + 1) - 1 = j
      BY ONLY <1>8, <1>a
    <3>2. new[q].keys[j - 1] = n.keys[j]
      BY <3>1, <1>2
    <3> QED BY <3>1, <3>2 DEF Low
  <2>3. High(new[q], hi[q], j) = High(n, hi[q], j + 1)
    <3>1. (j = k /\ j + 1 = k + 1) \/ (j \in 1 .. k - 1 /\ j # k /\ j + 1 # k + 1 /\ ~(j < c))
      BY ONLY <1>8, <1>a
    <3> QED BY <3>1, <1>2, <1>1 DEF High
  <2> QED BY <2>1, <2>2, <2>3, <1>5
<1>9. j < c \/ j = c \/ j > c
  BY <1>1, <1>3
<1> QED BY <1>6, <1>7, <1>8, <1>9

(* The children of the page that takes its sibling's cells.                *)
LEMMA JoinBelow ==
  ASSUME NEW pgs, NEW new, NEW rt, NEW h, NEW lo, NEW hi, NEW q, NEW c, NEW m, NEW hi2,
         NEW id, NEW sid, NEW b, Joined(pgs, new, rt, h, lo, hi, q, c, m, hi2, id, sid, b),
         NEW j \in 1 .. Len(m.kids)
  PROVE  KidFits(new, h, lo, hi2, rt, rt, id, j)
<1> DEFINE l == pgs[id]  r == pgs[sid]  s == Len(pgs[id].keys) + 1  M == Len(m.keys)
<1>1. /\ Whole(pgs, rt, h, lo, hi) /\ id \in DOMAIN pgs /\ sid \in DOMAIN pgs
      /\ Halves(m, l, r, lo[id], b, hi[sid], s) /\ PageFits(m, lo[id], hi[sid])
      /\ DOMAIN new = DOMAIN pgs \ {sid} /\ new[id] = m
      /\ hi2[id] = hi[sid] /\ (\A p \in DOMAIN new : p # id => hi2[p] = hi[p])
      /\ h[q] = h[id] + 1 /\ h[id] = h[sid] /\ h[id] \in Nat
      /\ hi[id] = b /\ lo[sid] = b /\ id = pgs[q].kids[c] /\ sid = pgs[q].kids[c + 1]
      /\ q \in DOMAIN pgs /\ c \in 1 .. Len(pgs[q].kids) /\ c + 1 \in 1 .. Len(pgs[q].kids)
  <2>1. c \in 1 .. Len(pgs[q].keys) /\ Len(pgs[q].keys) \in Nat /\ Len(pgs[q].kids) = Len(pgs[q].keys) + 1
    BY DEF Joined
  <2>2. c \in 1 .. Len(pgs[q].kids) /\ c + 1 \in 1 .. Len(pgs[q].kids)
    BY ONLY <2>1
  <2> QED BY <2>2 DEF Joined
<1>2. /\ m \in PageRec /\ Len(m.kids) = IF m.leaf THEN 0 ELSE M + 1
      /\ M \in Nat /\ ~m.leaf /\ Len(m.kids) = M + 1
  <2>1. m \in PageRec /\ Len(m.kids) = IF m.leaf THEN 0 ELSE M + 1
    BY <1>1 DEF PageFits
  <2>2. M \in Nat
    BY <2>1, RecFields
  <2>3. ~m.leaf
    BY <2>1
  <2> QED BY <2>1, <2>2, <2>3
<1>3. /\ s \in 1 .. M /\ b = m.keys[s] /\ Len(l.keys) = s - 1 /\ Len(r.keys) = M - s
      /\ \A i \in 1 .. s - 1 : l.keys[i] = m.keys[i]
      /\ \A i \in 1 .. M - s : r.keys[i] = m.keys[i + s]
      /\ \A i \in 1 .. s : l.kids[i] = m.kids[i]
      /\ \A i \in 1 .. M + 1 - s : r.kids[i] = m.kids[i + s]
      /\ ~l.leaf /\ ~r.leaf
  BY <1>1, <1>2 DEF Halves
<1>4. Len(l.kids) = s /\ Len(r.kids) = M + 1 - s
  <2>1. Len(l.kids) = Len(l.keys) + 1 /\ Len(r.kids) = Len(r.keys) + 1 /\ Len(l.keys) \in Nat /\ Len(r.keys) \in Nat
    <3>1. Whole(pgs, rt, h, lo, hi) /\ id \in DOMAIN pgs /\ sid \in DOMAIN pgs
      BY <1>1
    <3> QED BY <3>1, <1>3, WholePage
  <2>2. Len(l.keys) = s - 1 /\ Len(r.keys) = M - s /\ s \in 1 .. M /\ M \in Nat
    BY <1>2, <1>3
  <2> HIDE DEF l, r, s, M
  <2> QED BY ONLY <2>1, <2>2
<1>5. SUFFICES /\ m.kids[j] \in DOMAIN new /\ h[id] = h[m.kids[j]] + 1
               /\ lo[m.kids[j]] = Low(m, lo[id], j)
               /\ hi2[m.kids[j]] = High(m, hi[sid], j)
  BY <1>1 DEF KidFits, EndOf
<1>6. ASSUME NEW kid \in DOMAIN pgs, h[id] = h[kid] + 1 PROVE kid # sid /\ kid # id
  <2>1. h[kid] \in Nat
    BY <1>1, WholePage
  <2> QED BY <2>1, <1>6, <1>1
<1>7. CASE j <= s
  <2>1. j \in 1 .. Len(l.kids) /\ m.kids[j] = l.kids[j]
    BY <1>7, <1>4, <1>3, <1>2
  <2>2. /\ m.kids[j] \in DOMAIN pgs /\ h[id] = h[m.kids[j]] + 1
        /\ lo[m.kids[j]] = Low(l, lo[id], j) /\ hi[m.kids[j]] = High(l, b, j)
    <3>1. Whole(pgs, rt, h, lo, hi) /\ id \in DOMAIN pgs /\ hi[id] = b
      BY <1>1
    <3>2. j \in 1 .. Len(pgs[id].kids) /\ m.kids[j] = pgs[id].kids[j]
      BY <2>1
    <3> QED BY <3>1, <3>2, WholeKid
  <2>3. Low(l, lo[id], j) = Low(m, lo[id], j)
    <3>1. j # 1 => j - 1 \in 1 .. s - 1
      BY <1>7, <1>2, <1>3
    <3> QED BY <3>1, <1>3 DEF Low
  <2>4. High(l, b, j) = High(m, hi[sid], j)
    <3>1. j # M + 1 /\ (j = s \/ (j # s /\ j \in 1 .. s - 1))
      BY <1>7, <1>2, <1>3
    <3>2. CASE j = s
      BY <3>1, <3>2, <1>2, <1>3, <1>4 DEF High
    <3>3. CASE j # s /\ j \in 1 .. s - 1
      BY <3>1, <3>3, <1>2, <1>3, <1>4 DEF High
    <3> QED BY <3>1, <3>2, <3>3
  <2>5. m.kids[j] # sid /\ m.kids[j] # id
    BY <2>2, <1>6
  <2> QED BY <2>2, <2>3, <2>4, <2>5, <1>1
<1>8. CASE ~(j <= s)
  <2> DEFINE i == j - s
  <2>0. j \in 1 .. M + 1 /\ s \in 1 .. M /\ M \in Nat /\ ~(j <= s)
    BY <1>2, <1>3, <1>8
  <2> HIDE DEF s
  <2>1. i \in 1 .. M + 1 - s /\ i + s = j /\ j # 1 /\ (i = 1 => j - 1 = s)
        /\ (i # 1 => i - 1 \in 1 .. M - s /\ (i - 1) + s = j - 1)
        /\ (i = M + 1 - s <=> j = M + 1) /\ (j # M + 1 => i \in 1 .. M - s)
    BY ONLY <2>0
  <2> HIDE DEF i
  <2>2. i \in 1 .. Len(r.kids) /\ m.kids[j] = r.kids[i]
    BY <2>1, <1>3, <1>4
  <2>3. /\ m.kids[j] \in DOMAIN pgs /\ h[id] = h[m.kids[j]] + 1
        /\ lo[m.kids[j]] = Low(r, b, i) /\ hi[m.kids[j]] = High(r, hi[sid], i)
    <3>1. Whole(pgs, rt, h, lo, hi) /\ sid \in DOMAIN pgs /\ lo[sid] = b /\ h[id] = h[sid]
      BY <1>1
    <3>2. i \in 1 .. Len(pgs[sid].kids) /\ m.kids[j] = pgs[sid].kids[i]
      BY <2>2
    <3> QED BY <3>1, <3>2, WholeKid
  <2>4. Low(r, b, i) = Low(m, lo[id], j)
    <3>1. CASE i = 1
      BY <3>1, <2>1, <1>3 DEF Low
    <3>2. CASE i # 1
      BY <3>2, <2>1, <1>3 DEF Low
    <3> QED BY <3>1, <3>2
  <2>5. High(r, hi[sid], i) = High(m, hi[sid], j)
    <3>1. CASE j = M + 1
      BY <3>1, <2>1, <1>2, <1>4 DEF High
    <3>2. CASE j # M + 1
      BY <3>2, <2>1, <1>2, <1>3, <1>4 DEF High
    <3> QED BY <3>1, <3>2
  <2>6. m.kids[j] # sid /\ m.kids[j] # id
    BY <2>3, <1>6
  <2> QED BY <2>3, <2>4, <2>5, <2>6, <1>1
<1> QED BY <1>7, <1>8

(* The children of the other pages.                                        *)
LEMMA JoinBeside ==
  ASSUME NEW pgs, NEW new, NEW rt, NEW h, NEW lo, NEW hi, NEW q, NEW c, NEW m, NEW hi2,
         NEW id, NEW sid, NEW b, Joined(pgs, new, rt, h, lo, hi, q, c, m, hi2, id, sid, b),
         NEW p \in DOMAIN new, p # id, p # q, NEW j \in 1 .. Len(new[p].kids)
  PROVE  KidFits(new, h, lo, hi2, rt, rt, p, j)
<1>1. /\ Whole(pgs, rt, h, lo, hi) /\ id \in DOMAIN pgs /\ sid \in DOMAIN pgs
      /\ DOMAIN new = DOMAIN pgs \ {sid} /\ new[p] = pgs[p] /\ p \in DOMAIN pgs
      /\ (\A x \in DOMAIN new : x # id => hi2[x] = hi[x])
      /\ id = pgs[q].kids[c] /\ sid = pgs[q].kids[c + 1]
      /\ q \in DOMAIN pgs /\ c \in 1 .. Len(pgs[q].kids) /\ c + 1 \in 1 .. Len(pgs[q].kids)
      /\ id # rt /\ sid # rt
  BY DEF Joined
<1> DEFINE kid == pgs[p].kids[j]
<1>2. /\ kid \in DOMAIN pgs /\ h[p] = h[kid] + 1
      /\ lo[kid] = Low(pgs[p], lo[p], j) /\ hi[kid] = High(pgs[p], hi[p], j)
  <2>1. Whole(pgs, rt, h, lo, hi) /\ p \in DOMAIN pgs /\ j \in 1 .. Len(pgs[p].kids) /\ kid = pgs[p].kids[j]
    BY <1>1
  <2> QED BY <2>1, WholeKid
<1>3. kid # id /\ kid # sid
  <2>1. j \in 1 .. Len(pgs[p].kids)
    BY <1>1
  <2> QED BY <1>1, <2>1, OnePlace DEF Whole
<1> QED BY <1>1, <1>2, <1>3 DEF KidFits, EndOf

(* What was a child of the two pages is a child of the one.                *)
LEMMA JoinPlaced ==
  ASSUME NEW pgs, NEW new, NEW rt, NEW h, NEW lo, NEW hi, NEW q, NEW c, NEW m, NEW hi2,
         NEW id, NEW sid, NEW b, Joined(pgs, new, rt, h, lo, hi, q, c, m, hi2, id, sid, b),
         NEW y \in DOMAIN new, y # rt
  PROVE  HasPlace(new, y)
<1>1. /\ Whole(pgs, rt, h, lo, hi) /\ id \in DOMAIN pgs /\ sid \in DOMAIN pgs
      /\ Halves(m, pgs[id], pgs[sid], lo[id], b, hi[sid], Len(pgs[id].keys) + 1)
      /\ DOMAIN new = DOMAIN pgs \ {sid} /\ new[id] = m /\ id \in DOMAIN new
      /\ LosesKid(pgs[q], new[q], c) /\ q \in DOMAIN new
      /\ sid = pgs[q].kids[c + 1] /\ c \in 1 .. Len(pgs[q].keys)
      /\ Len(pgs[q].keys) \in Nat /\ Len(pgs[q].kids) = Len(pgs[q].keys) + 1
      /\ PageFits(m, lo[id], hi[sid])
  BY DEF Joined
<1>2. \A p \in DOMAIN new : p # id /\ p # q => new[p] = pgs[p]
  BY DEF Joined
<1>3. PICK x \in DOMAIN pgs : \E i \in 1 .. Len(pgs[x].kids) : pgs[x].kids[i] = y
  BY <1>1 DEF Whole, Tree, AllPlaced, HasPlace
<1>4. PICK i \in 1 .. Len(pgs[x].kids) : pgs[x].kids[i] = y
  BY <1>3
<1>5. /\ Len(pgs[x].keys) \in Nat /\ Len(pgs[x].kids) = IF pgs[x].leaf THEN 0 ELSE Len(pgs[x].keys) + 1
      /\ ~pgs[x].leaf
  <2>1. /\ Len(pgs[x].keys) \in Nat /\ Len(pgs[x].kids) = IF pgs[x].leaf THEN 0 ELSE Len(pgs[x].keys) + 1
    BY <1>1, WholePage
  <2>2. ~pgs[x].leaf
    BY <2>1
  <2> QED BY <2>1, <2>2
<1>6. SUFFICES \E p \in DOMAIN new : \E j \in 1 .. Len(new[p].kids) : new[p].kids[j] = y
  BY DEF HasPlace
<1>7. CASE x = q
  <2>1. i # c + 1
    BY <1>1, <1>4, <1>7
  <2>2. Len(new[q].kids) = Len(pgs[q].keys)
        /\ \A j \in 1 .. Len(pgs[q].keys) : new[q].kids[j] = IF j <= c THEN pgs[q].kids[j] ELSE pgs[q].kids[j + 1]
    BY <1>1 DEF LosesKid
  <2>3. i \in 1 .. Len(pgs[q].keys) + 1 /\ c \in 1 .. Len(pgs[q].keys) /\ Len(pgs[q].keys) \in Nat /\ i # c + 1
    BY <1>1, <1>7, <2>1
  <2> DEFINE j == IF i <= c THEN i ELSE i - 1
  <2>4. /\ j \in 1 .. Len(pgs[q].keys)
        /\ (j <= c /\ j = i) \/ (~(j <= c) /\ j + 1 = i)
    BY ONLY <2>3
  <2> HIDE DEF j
  <2>5. new[q].kids[j] = y
    BY <2>2, <2>4, <1>4, <1>7
  <2> QED BY <1>1, <2>2, <2>4, <2>5
<1>8. CASE x = id \/ x = sid
  <2> DEFINE s == Len(pgs[id].keys) + 1  M == Len(m.keys)
  <2>1. ~m.leaf
    BY <1>1, <1>5, <1>8 DEF Halves
  <2>2. M \in Nat /\ Len(m.kids) = M + 1
    <3>1. m \in PageRec /\ Len(m.kids) = IF m.leaf THEN 0 ELSE M + 1
      BY <1>1 DEF PageFits
    <3> QED BY <3>1, <2>1, RecFields
  <2>3. /\ s \in 1 .. M /\ Len(pgs[id].keys) = s - 1 /\ Len(pgs[sid].keys) = M - s
        /\ \A k \in 1 .. s : pgs[id].kids[k] = m.kids[k]
        /\ \A k \in 1 .. M + 1 - s : pgs[sid].kids[k] = m.kids[k + s]
    BY <1>1, <2>1 DEF Halves
  <2>4. CASE x = id
    <3>1. i \in 1 .. s /\ i \in 1 .. Len(m.kids)
      BY <1>5, <2>2, <2>3, <2>4
    <3>2. m.kids[i] = y
      BY <2>3, <3>1, <1>4, <2>4
    <3> QED BY <1>1, <3>1, <3>2
  <2>5. CASE x = sid
    <3>0. Len(pgs[sid].kids) = M - s + 1 /\ i \in 1 .. Len(pgs[sid].kids)
      BY <1>5, <2>3, <2>5
    <3>a. Len(m.kids) = M + 1 /\ M \in Nat /\ s \in 1 .. M
      BY <2>2, <2>3
    <3>1. i \in 1 .. M + 1 - s /\ i + s \in 1 .. Len(m.kids)
      <4> HIDE DEF s, M
      <4> QED BY ONLY <3>0, <3>a
    <3>2. m.kids[i + s] = y
      BY <2>3, <3>1, <1>4, <2>5
    <3> QED BY <1>1, <3>1, <3>2
  <2> QED BY <1>8, <2>4, <2>5
<1>9. CASE x # q /\ x # id /\ x # sid
  BY <1>1, <1>2, <1>4, <1>9
<1> QED BY <1>7, <1>8, <1>9

(* The joined page has the bounds of both, and no other page of its level  *)
(* a key of it.                                                            *)
LEMMA JoinApart ==
  ASSUME NEW pgs, NEW new, NEW rt, NEW h, NEW lo, NEW hi, NEW q, NEW c, NEW m, NEW hi2,
         NEW id, NEW sid, NEW b, Joined(pgs, new, rt, h, lo, hi, q, c, m, hi2, id, sid, b)
  PROVE  LevelsApart(new, h, lo, hi2) /\ ChainFits(new, h, lo, hi2)
<1>1. /\ Whole(pgs, rt, h, lo, hi) /\ id \in DOMAIN pgs /\ sid \in DOMAIN pgs
      /\ DOMAIN new = DOMAIN pgs \ {sid} /\ id \in DOMAIN new /\ id # sid
      /\ h[id] = h[sid] /\ lo[sid] = b /\ hi[id] = b
      /\ hi2[id] = hi[sid] /\ (\A p \in DOMAIN new : p # id => hi2[p] = hi[p])
  BY DEF Joined
<1>2. \A p \in DOMAIN pgs : lo[p] \in Nat /\ hi[p] \in Nat /\ lo[p] < hi[p]
  BY <1>1, WholePage
<1>3. \A p, r \in DOMAIN pgs : h[p] = h[r] /\ p # r => hi[p] <= lo[r] \/ hi[r] <= lo[p]
  BY <1>1 DEF Whole, Tree, LevelsApart
<1>4. /\ new[id].next = pgs[sid].next
      /\ \A p \in DOMAIN new : p # id => new[p].next = pgs[p].next
  BY DEF Joined, Halves, LosesKid
<1>5. \A p \in DOMAIN pgs :
        IF hi[p] = MaxKey + 1 THEN pgs[p].next = Null
        ELSE pgs[p].next \in DOMAIN pgs /\ h[pgs[p].next] = h[p] /\ lo[pgs[p].next] = hi[p]
  BY <1>1 DEF Whole, Tree, ChainFits
<1>6. ASSUME NEW p \in DOMAIN new, p # id, h[p] = h[id]
      PROVE  hi[p] <= lo[id] \/ hi[sid] <= lo[p]
  <2>1. p # sid /\ p \in DOMAIN pgs
    BY <1>1
  <2>2. (hi[p] <= lo[id] \/ b <= lo[p]) /\ (hi[p] <= b \/ hi[sid] <= lo[p])
    BY <1>1, <1>3, <1>6, <2>1
  <2>3. lo[p] \in Nat /\ hi[p] \in Nat /\ lo[p] < hi[p] /\ lo[id] \in Nat /\ b \in Nat /\ hi[sid] \in Nat
    BY <1>1, <1>2, <2>1
  <2> QED BY ONLY <2>2, <2>3
<1>7. LevelsApart(new, h, lo, hi2)
  <2> SUFFICES ASSUME NEW p \in DOMAIN new, NEW r \in DOMAIN new, h[p] = h[r], p # r
               PROVE  hi2[p] <= lo[r] \/ hi2[r] <= lo[p]
    BY DEF LevelsApart
  <2>1. CASE p = id
    BY <1>1, <1>6, <2>1
  <2>2. CASE r = id
    BY <1>1, <1>6, <2>2
  <2>3. CASE p # id /\ r # id
    BY <1>1, <1>3, <2>3
  <2> QED BY <2>1, <2>2, <2>3
<1>8. ChainFits(new, h, lo, hi2)
  <2> SUFFICES ASSUME NEW p \in DOMAIN new
               PROVE  IF hi2[p] = MaxKey + 1 THEN new[p].next = Null
                      ELSE new[p].next \in DOMAIN new /\ h[new[p].next] = h[p] /\ lo[new[p].next] = hi2[p]
    BY DEF ChainFits
  <2>1. CASE p = id
    <3>1. hi2[p] = hi[sid] /\ new[p].next = pgs[sid].next /\ h[p] = h[sid]
      BY <1>1, <1>4, <2>1
    <3>2. lo[sid] # hi[sid]
      BY <1>1, <1>2
    <3> QED BY <1>1, <1>5, <3>1, <3>2
  <2>2. CASE p # id
    <3>1. hi2[p] = hi[p] /\ new[p].next = pgs[p].next /\ p \in DOMAIN pgs
      BY <1>1, <1>4, <2>2
    <3>2. h[p] = h[id] => hi[p] # b
      <4>1. h[p] = h[id] => hi[p] <= lo[id] \/ hi[sid] <= lo[p]
        BY <1>6, <2>2
      <4>2. lo[p] \in Nat /\ hi[p] \in Nat /\ lo[p] < hi[p] /\ lo[id] \in Nat /\ b \in Nat /\ hi[sid] \in Nat
            /\ lo[id] < b /\ b < hi[sid]
        BY <1>1, <1>2, <3>1
      <4> QED BY <4>1, <4>2
    <3>3. lo[sid] = b /\ h[sid] = h[id]
      BY <1>1
    <3> QED BY <1>1, <1>5, <3>1, <3>2, <3>3
  <2> QED BY <2>1, <2>2
<1> QED BY <1>7, <1>8

(* The tree in which a page has taken all that its right sibling had.      *)
LEMMA JoinTree ==
  ASSUME NEW pgs, NEW new, NEW rt, NEW h, NEW lo, NEW hi, NEW q, NEW c, NEW m, NEW hi2,
         Join(pgs, new, rt, h, lo, hi, q, c, m, hi2)
  PROVE  Whole(new, rt, h, lo, hi2)
<1>1. PICK id, sid, b : Joined(pgs, new, rt, h, lo, hi, q, c, m, hi2, id, sid, b)
  BY JoinFacts
<1>2. /\ Whole(pgs, rt, h, lo, hi) /\ id \in DOMAIN pgs /\ sid \in DOMAIN pgs /\ q \in DOMAIN pgs
      /\ DOMAIN new = DOMAIN pgs \ {sid} /\ new[id] = m /\ id \in DOMAIN new /\ q \in DOMAIN new
      /\ hi2[id] = hi[sid] /\ (\A p \in DOMAIN new : p # id => hi2[p] = hi[p])
      /\ (\A p \in DOMAIN new : p # id /\ p # q => new[p] = pgs[p])
      /\ LosesKid(pgs[q], new[q], c) /\ c \in 1 .. Len(pgs[q].keys)
      /\ PageFits(m, lo[id], hi[sid]) /\ Halves(m, pgs[id], pgs[sid], lo[id], b, hi[sid], Len(pgs[id].keys) + 1)
      /\ id # q /\ id # rt /\ sid # rt /\ lo[id] < b /\ b < hi[sid] /\ lo[sid] = b
      /\ h[q] = h[id] + 1 /\ h[id] \in Nat
  BY <1>1 DEF Joined
<1>3. PagesFit(new, h, lo, hi2)
  <2> SUFFICES ASSUME NEW p \in DOMAIN new
               PROVE  /\ p \in Nat /\ h[p] \in Nat /\ lo[p] \in Nat /\ hi2[p] \in Nat
                      /\ lo[p] < hi2[p] /\ hi2[p] <= MaxKey + 1
                      /\ PageFits(new[p], lo[p], hi2[p])
                      /\ new[p].leaf <=> h[p] = 0
    BY DEF PagesFit
  <2>1. /\ p \in Nat /\ h[p] \in Nat /\ lo[p] \in Nat /\ hi[p] \in Nat
        /\ lo[p] < hi[p] /\ hi[p] <= MaxKey + 1
        /\ PageFits(pgs[p], lo[p], hi[p]) /\ (pgs[p].leaf <=> h[p] = 0)
    BY <1>2, WholePage
  <2>2. CASE p = id
    <3>1. hi[sid] \in Nat /\ hi[sid] <= MaxKey + 1 /\ lo[sid] \in Nat
      BY <1>2, WholePage
    <3>2. lo[id] < hi[sid]
      BY <1>2, <2>1, <2>2, <3>1
    <3>3. new[p].leaf <=> pgs[p].leaf
      BY <1>2, <2>2 DEF Halves
    <3> QED BY <1>2, <2>1, <2>2, <3>1, <3>2, <3>3
  <2>3. CASE p = q
    <3>1. p # id /\ hi2[p] = hi[p]
      BY <1>2, <2>3
    <3>2. ~pgs[q].leaf
      <4>1. /\ Whole(pgs, rt, h, lo, hi) /\ q \in DOMAIN pgs
            /\ h[q] = h[id] + 1 /\ h[id] \in Nat
        BY ONLY <1>2
      <4>2. pgs[q].leaf <=> h[q] = 0
        BY ONLY <4>1, WholePage
      <4> QED BY ONLY <4>1, <4>2
    <3>3. PageFits(new[q], lo[q], hi[q])
      BY <2>1, <2>3, <1>2, <3>2, LosesFits
    <3>4. ~new[q].leaf
      BY <1>2 DEF LosesKid
    <3> QED BY <2>1, <2>3, <3>1, <3>2, <3>3, <3>4
  <2>4. CASE p # id /\ p # q
    BY <1>2, <2>1, <2>4
  <2> QED BY <2>2, <2>3, <2>4
<1>4. RootFits(new, rt, h, lo, hi2, rt, rt)
  <2>1. rt \in DOMAIN pgs /\ lo[rt] = 0 /\ hi[rt] = MaxKey + 1 /\ \A x \in DOMAIN pgs : h[x] <= h[rt]
    BY <1>2 DEF Whole, Tree, RootFits, EndOf
  <2> QED BY <1>2, <2>1 DEF RootFits, EndOf
<1>5. KidsFit(new, h, lo, hi2, rt, rt)
  <2> SUFFICES ASSUME NEW p \in DOMAIN new, NEW j \in 1 .. Len(new[p].kids)
               PROVE  KidFits(new, h, lo, hi2, rt, rt, p, j)
    BY DEF KidsFit
  <2>1. CASE p = q
    BY <1>1, <2>1, JoinAbove, JoinFacts
  <2>2. CASE p = id
    <3>1. j \in 1 .. Len(m.kids)
      BY <1>2, <2>2
    <3> QED BY <1>1, <2>2, <3>1, JoinBelow
  <2>3. CASE p # id /\ p # q
    BY <1>1, <2>3, JoinBeside
  <2> QED BY <2>1, <2>2, <2>3
<1>6. AllPlaced(new, rt, rt)
  BY <1>1, JoinPlaced DEF AllPlaced
<1>7. LevelsApart(new, h, lo, hi2) /\ ChainFits(new, h, lo, hi2)
  BY <1>1, JoinApart
<1>8. PairFits(new, rt, h, lo, hi2, rt, rt)
  BY DEF PairFits
<1> QED BY <1>3, <1>4, <1>5, <1>6, <1>7, <1>8 DEF Whole, Tree

-----------------------------------------------------------------------------
(* Trees of which some pages are missing.                                  *)

(* Some of the pages of a tree.                                            *)
PartOfTree(part, full) ==
  DOMAIN part \subseteq DOMAIN full /\ \A p \in DOMAIN part : part[p] = full[p]

(* The last entry of a way with one more in front.                         *)
LEMMA LastBehind ==
  ASSUME NEW e \in Step, NEW w \in Seq(Step), Len(w) # 0
  PROVE  Last(<<e>> \o w) = Last(w)
<1>1. Len(<<e>> \o w) = 1 + Len(w) /\ Len(w) \in Nat /\ Len(w) \in 1 .. Len(w)
  OBVIOUS
<1>2. (<<e>> \o w)[1 + Len(w)] = w[Len(w)]
  OBVIOUS
<1> QED BY <1>1, <1>2 DEF Last

(* The way to the leftmost key may miss pages; it then ends at a page that *)
(* is not there, or at a leaf that begins where it began.                  *)
LEMMA LeftmostPart ==
  ASSUME NEW full, NEW rt, NEW h, NEW lo, NEW hi, Whole(full, rt, h, lo, hi),
         NEW part, PartOfTree(part, full), NEW from,
         NEW leaf, leaf = LeftmostLeaf(part, from), leaf \in DOMAIN part
  PROVE  from \in DOMAIN part /\ full[leaf].leaf /\ lo[leaf] = lo[from]
<1> DEFINE idx == [q \in DOMAIN part |-> 0]
<1>1. leaf = Last(Descent(part, from, idx)).page
  BY DEF LeftmostLeaf, Leftmost
<1>2. from \in DOMAIN part
  <2> SUFFICES ASSUME from \notin DOMAIN part PROVE FALSE
    OBVIOUS
  <2>1. Descent(part, from, idx) = <<Entry(from, 0)>>
    BY DEF Descent
  <2>2. Last(<<Entry(from, 0)>>) = Entry(from, 0)
    BY DEF Last
  <2>3. leaf = from
    BY <1>1, <2>1, <2>2 DEF Entry
  <2> QED BY <2>3
<1>3. \A p \in DOMAIN part : p \in DOMAIN full /\ part[p] = full[p]
  BY DEF PartOfTree
<1>4. ASSUME NEW p \in DOMAIN part, ~part[p].leaf
      PROVE  LET kid == part[p].kids[0 + 1]
             IN  kid \in DOMAIN full /\ kid \in Nat /\ h[kid] = h[p] - 1 /\ h[kid] \in Nat /\ lo[kid] = lo[p]
  <2>1. p \in DOMAIN full /\ part[p] = full[p]
    BY <1>3
  <2>2. Len(full[p].kids) = Len(full[p].keys) + 1 /\ Len(full[p].keys) \in Nat /\ h[p] \in Nat
    BY <1>4, <2>1, WholePage
  <2>3. 1 \in 1 .. Len(full[p].kids)
    BY <2>2
  <2> DEFINE kid == full[p].kids[1]
  <2>4. kid \in DOMAIN full /\ h[p] = h[kid] + 1 /\ lo[kid] = Low(full[p], lo[p], 1)
    BY <2>1, <2>3, WholeKid
  <2>5. kid \in Nat /\ h[kid] \in Nat
    BY <2>4, WholePage
  <2>6. lo[kid] = lo[p]
    BY <2>4 DEF Low
  <2>8. part[p].kids[0 + 1] = kid
    BY <2>1
  <2> HIDE DEF kid
  <2>7. h[kid] = h[p] - 1
    BY <2>4, <2>5, <2>2
  <2> QED BY <2>4, <2>5, <2>6, <2>7, <2>8
<1>5. h[rt] \in Nat /\ \A p \in DOMAIN part : h[p] \in 0 .. h[rt] /\ p \in Nat /\ (part[p].leaf <=> h[p] = 0)
  <2>1. rt \in DOMAIN full /\ \A p \in DOMAIN full : h[p] <= h[rt]
    BY DEF Whole, Tree, RootFits
  <2>2. \A p \in DOMAIN full : h[p] \in Nat /\ p \in Nat /\ (full[p].leaf <=> h[p] = 0)
    BY WholePage
  <2> QED BY <2>1, <2>2, <1>3
<1>6. Sloping(part, h[rt], h, idx)
  BY <1>4, <1>5 DEF Sloping
<1>7. PICK walk : PartWalks(part, idx, walk) /\ Descent(part, from, idx) = walk[from]
  <2> HIDE DEF idx
  <2> QED BY <1>2, <1>5, <1>6, PartDescent
<1> DEFINE Good(id) == Len(walk[id]) # 0 /\ (Last(walk[id]).page \in DOMAIN part
                         => full[Last(walk[id]).page].leaf /\ lo[Last(walk[id]).page] = lo[id])
           S == {k \in Nat : \A id \in DOMAIN part : h[id] = k => Good(id)}
<1>8. \A id \in DOMAIN part : /\ Len(<<Entry(id, 0)>>) # 0 /\ Last(<<Entry(id, 0)>>).page = id
  BY DEF Last, Entry
<1>9. 0 \in S
  <2> SUFFICES ASSUME NEW id \in DOMAIN part, h[id] = 0 PROVE Good(id)
    OBVIOUS
  <2>1. walk[id] = <<Entry(id, 0)>> /\ part[id].leaf
    BY <1>5, <1>7 DEF PartWalks
  <2> QED BY <2>1, <1>3, <1>8
<1>10. ASSUME NEW k \in Nat, k \in S PROVE k + 1 \in S
  <2> SUFFICES ASSUME NEW id \in DOMAIN part, h[id] = k + 1 PROVE Good(id)
    OBVIOUS
  <2> DEFINE kid == part[id].kids[0 + 1]
  <2>1. ~part[id].leaf /\ id \in Nat
    BY <1>5
  <2>2. kid \in DOMAIN full /\ kid \in Nat /\ h[kid] = h[id] - 1 /\ h[kid] \in Nat /\ lo[kid] = lo[id]
    BY <1>4, <2>1
  <2>3. walk[id] = <<Entry(id, 0)>> \o (IF kid \in DOMAIN part THEN walk[kid] ELSE <<Entry(kid, 0)>>)
    BY <1>7, <2>1 DEF PartWalks
  <2>4. Entry(id, 0) \in Step /\ Entry(kid, 0) \in Step
    BY <2>1, <2>2 DEF Entry, Step
  <2> HIDE DEF kid
  <2>5. CASE kid \in DOMAIN part
    <3>1. h[kid] = k
      BY <2>2, <1>5
    <3>2. Good(kid)
      BY <1>10, <2>5, <3>1
    <3>3. walk[kid] \in Seq(Step)
      BY <1>7, <2>5 DEF PartWalks
    <3>4. Last(<<Entry(id, 0)>> \o walk[kid]) = Last(walk[kid])
      BY <2>4, <3>2, <3>3, LastBehind
    <3>5. Len(<<Entry(id, 0)>> \o walk[kid]) # 0
      BY <2>4, <3>3
    <3>6. walk[id] = <<Entry(id, 0)>> \o walk[kid]
      BY <2>3, <2>5
    <3> QED BY <3>2, <3>4, <3>5, <3>6, <2>2
  <2>6. CASE kid \notin DOMAIN part
    <3>1. walk[id] = <<Entry(id, 0)>> \o <<Entry(kid, 0)>>
      BY <2>3, <2>6
    <3>2. Last(<<Entry(id, 0)>> \o <<Entry(kid, 0)>>) = Entry(kid, 0) /\ Len(<<Entry(id, 0)>> \o <<Entry(kid, 0)>>) # 0
      BY DEF Last
    <3> QED BY <2>6, <3>1, <3>2 DEF Entry
  <2> QED BY <2>5, <2>6
<1>11. h[from] \in Nat
  BY <1>2, <1>5
<1>12. h[from] \in S
  <2> HIDE DEF S
  <2> QED BY <1>9, <1>10, <1>11, SetInduction
<1>13. Good(from)
  BY <1>2, <1>12
<1> QED BY <1>1, <1>2, <1>7, <1>13

-----------------------------------------------------------------------------
(* Cells are appended to a page.                                           *)

(* A page of the right types, with its free space counted rightly.         *)
PageOK(n) == n \in PageRec /\ RoomFits(n) /\ Len(n.kids) = IF n.leaf THEN 0 ELSE Len(n.keys) + 1
PagesOK(pgs) == \A id \in DOMAIN pgs : PageOK(pgs[id])

(* Number of keys below another.                                           *)
LEMMA BelowRange ==
  ASSUME NEW n \in PageRec, NEW k
  PROVE  Below(n, k) \in 0 .. Len(n.keys)
<1> DEFINE S == {i \in DOMAIN n.keys : n.keys[i] < k}
<1>1. DOMAIN n.keys = 1 .. Len(n.keys) /\ Len(n.keys) \in Nat
  BY RecFields
<1>2. IsFiniteSet(1 .. Len(n.keys)) /\ Cardinality(1 .. Len(n.keys)) = Len(n.keys)
  BY <1>1, FS_Interval
<1>3. S \subseteq 1 .. Len(n.keys)
  BY <1>1
<1> HIDE DEF S
<1>4. Cardinality(S) <= Cardinality(1 .. Len(n.keys)) /\ IsFiniteSet(S)
  BY <1>2, <1>3, FS_Subset
<1>5. Cardinality(S) \in Nat
  BY <1>4, FS_CardinalityType
<1> QED BY <1>1, <1>2, <1>4, <1>5 DEF Below, S

(* Whatever insert_cell() answers, the page is one with right room.        *)
LEMMA InsertStays ==
  ASSUME NEW n, PageOK(n), NEW k \in Key, NEW c \in Links, n.leaf \/ c \in Nat
  PROVE  /\ InsertCell(n, k, c).res \in {"full", "exists", "overflow", "ok"}
         /\ PageOK(InsertCell(n, k, c).node) /\ InsertCell(n, k, c).node.leaf = n.leaf
         /\ InsertCell(n, k, c) = [res |-> InsertCell(n, k, c).res, node |-> InsertCell(n, k, c).node]
<1> DEFINE s == Space(n, k)  r == InsertCell(n, k, c)  p == Below(n, k) + 1
           exact == PageSpace - SpaceOf(n)
           fits == IF n.leaf THEN n.room >= s ELSE n.gap >= s
           m == IF fits \/ n.leaf THEN n ELSE [n EXCEPT !.gap = exact]
           new == [m EXCEPT !.keys = InsertAt(@, p, k),
                            !.kids = IF n.leaf THEN @ ELSE InsertAt(@, p + 1, c),
                            !.room = @ - s,
                            !.gap  = IF n.leaf THEN @ ELSE @ - s]
<1>1. n \in PageRec /\ RoomFits(n) /\ Len(n.kids) = IF n.leaf THEN 0 ELSE Len(n.keys) + 1
  BY DEF PageOK
<1>2. r.res \in {"full", "exists", "overflow", "ok"}
  BY <1>1, InsertRefused
<1>3. r = IF ~fits /\ n.room < s THEN [res |-> "full", node |-> n]
          ELSE IF k \in KeySet(n) THEN [res |-> "exists", node |-> m]
          ELSE IF n.room < s THEN [res |-> "overflow", node |-> m]
          ELSE [res  |-> "ok", node |-> new]
  BY DEF InsertCell
<1>4. r = [res |-> r.res, node |-> r.node] /\ (r.res # "ok" => r.node = n \/ r.node = m)
  <2> HIDE DEF fits, new, m, s, r
  <2> QED BY <1>3
<1>5. PageOK(m) /\ m.leaf = n.leaf
  <2>1. CASE fits \/ n.leaf
    BY <2>1
  <2>2. CASE ~(fits \/ n.leaf)
    <3>1. m = [leaf |-> n.leaf, keys |-> n.keys, kids |-> n.kids, next |-> n.next, room |-> n.room, gap |-> exact]
      BY <1>1, <2>2 DEF PageRec
    <3>2. n.room + SpaceOf(n) <= PageSpace /\ SpaceOf(n) \in Nat /\ n.room \in Nat /\ PageSpace \in Nat
      BY <1>1, <2>2, RecFields, SpaceNat, Numbers DEF RoomFits
    <3>3. exact \in Nat /\ exact + SpaceOf(n) <= PageSpace
      BY ONLY <3>2 DEF exact
    <3> HIDE DEF exact
    <3>4. m \in PageRec /\ m.leaf = n.leaf /\ m.keys = n.keys /\ m.kids = n.kids /\ m.room = n.room /\ m.gap = exact
      BY <1>1, <3>1, <3>3 DEF PageRec
    <3>5. SpaceOf(m) = SpaceOf(n)
      BY <1>1, <3>4, SpaceOfIs
    <3> HIDE DEF m
    <3>6. RoomFits(m)
      BY <2>2, <3>2, <3>3, <3>4, <3>5 DEF RoomFits
    <3> QED BY <1>1, <3>4, <3>6 DEF PageOK
  <2> QED BY <2>1, <2>2
<1>6. ASSUME r.res = "ok" PROVE PageOK(r.node) /\ r.node.leaf = n.leaf
  <2>1. Below(n, k) \in 0 .. Len(n.keys)
    BY <1>1, BelowRange
  <2>2. n.leaf \/ (c \in Nat /\ Len(n.kids) = Len(n.keys) + 1)
    BY <1>1
  <2>3. Gains(n, r.node, p, k, c) /\ RoomFits(r.node)
    BY <1>1, <1>6, <2>1, <2>2, InsertGains DEF Links
  <2> HIDE DEF r
  <2>4. /\ r.node \in PageRec /\ r.node.leaf = n.leaf /\ r.node.keys = InsertAt(n.keys, p, k)
        /\ r.node.kids = IF n.leaf THEN n.kids ELSE InsertAt(n.kids, p + 1, c)
    BY <2>3 DEF Gains
  <2>5. /\ n.keys \in Seq(Key) /\ n.kids \in Seq(Nat) /\ Len(n.keys) \in Nat /\ p \in 1 .. Len(n.keys) + 1
    BY <1>1, <2>1, RecFields
  <2> HIDE DEF p
  <2>6. Len(r.node.keys) = Len(n.keys) + 1
    <3>1. k \in Key
      BY <1>1
    <3>2. Len(InsertAt(n.keys, p, k)) = Len(n.keys) + 1
      BY ONLY <2>5, <3>1, InsertAtSeq
    <3> QED BY ONLY <2>4, <3>2
  <2>7. CASE n.leaf
    BY <1>1, <2>3, <2>4, <2>7 DEF PageOK
  <2>8. CASE ~n.leaf
    <3>1. p + 1 \in 1 .. Len(n.kids) + 1 /\ c \in Nat
      BY <1>1, <2>5, <2>8
    <3>2. Len(InsertAt(n.kids, p + 1, c)) = Len(n.kids) + 1
      <4> DEFINE v == n.kids  d == p + 1
      <4>1. v \in Seq(Nat) /\ d \in 1 .. Len(v) + 1 /\ c \in Nat
        BY <2>5, <3>1
      <4> HIDE DEF v, d
      <4>2. Len(InsertAt(v, d, c)) = Len(v) + 1
        BY ONLY <4>1, InsertAtSeq
      <4> QED BY <4>2 DEF v, d
    <3> QED BY <1>1, <2>3, <2>4, <2>6, <2>8, <3>2 DEF PageOK
  <2> QED BY <2>7, <2>8
<1> HIDE DEF r, m
<1> QED BY <1>2, <1>4, <1>5, <1>6 DEF r

(* The cells that are put into a page one by one.                          *)
CellsFor(leaf, cells) ==
  /\ cells \in Seq(Key \X Links)
  /\ \A i \in 1 .. Len(cells) : cells[i][1] \in Key /\ cells[i][2] \in Links /\ (leaf \/ cells[i][2] \in Nat)

(* What putting in one by one makes of the page, cell by cell.             *)
Results == {"full", "exists", "overflow", "ok"}
(* The recursive function inside InsertAll.                                *)
Steps(n, cells, done) ==
  /\ done[0] = [res |-> "ok", node |-> n]
  /\ \A i \in 1 .. Len(cells) :
       done[i] = IF done[i - 1].res = "ok"
                   THEN InsertCell(done[i - 1].node, cells[i][1], cells[i][2]) ELSE done[i - 1]

(* InsertAll is what its recursive definition describes.                   *)
LEMMA InsertAllDef ==
  ASSUME NEW n, PageOK(n), NEW cells, CellsFor(n.leaf, cells)
  PROVE  \E done : Steps(n, cells, done) /\ InsertAll(n, cells) = done[Len(cells)]
<1> DEFINE N == Len(cells)
           V == [res : Results, node : {m \in PageRec : PageOK(m) /\ m.leaf = n.leaf}]
           b == [res |-> "ok", node |-> n]
           step(i, v) == IF v.res = "ok" THEN InsertCell(v.node, cells[i][1], cells[i][2]) ELSE v
           g == [w \in (0 .. N) \X V |-> IF w[1] = 0 THEN w[2] ELSE step(w[1], w[2])]
           Rec(f) == [i \in 0 .. N |-> IF i = 0 THEN b ELSE step(i, f[i - 1])]
<1>1. N \in Nat /\ n \in PageRec
  BY DEF CellsFor, PageOK
<1>2. b \in V
  BY <1>1 DEF Results
<1>3. ASSUME NEW i \in 0 .. N, NEW v \in V PROVE g[<<i, v>>] \in V
  <2>1. g[<<i, v>>] = IF i = 0 THEN v ELSE step(i, v)
    BY <1>3
  <2>2. CASE i # 0 /\ v.res = "ok"
    <3> DEFINE r == InsertCell(v.node, cells[i][1], cells[i][2])
    <3>1. i \in 1 .. N
      BY <1>1, <2>2
    <3>2. PageOK(v.node) /\ v.node.leaf = n.leaf
      OBVIOUS
    <3>3. cells[i][1] \in Key /\ cells[i][2] \in Links /\ (v.node.leaf \/ cells[i][2] \in Nat)
      BY <3>1, <3>2 DEF CellsFor
    <3>4. r.res \in Results /\ PageOK(r.node) /\ r.node.leaf = v.node.leaf /\ r = [res |-> r.res, node |-> r.node]
      BY <3>2, <3>3, InsertStays DEF Results
    <3> HIDE DEF r
    <3>5. r \in V
      BY <3>2, <3>4 DEF PageOK
    <3> QED BY <2>1, <2>2, <3>5 DEF r
  <2>3. CASE ~(i # 0 /\ v.res = "ok")
    <3> HIDE DEF V, g
    <3> QED BY <2>1, <2>3
  <2> QED BY <2>2, <2>3
<1> HIDE DEF V, b
<1>4. PICK f : Recurs(f, 0, N, V, b, g)
  <2> HIDE DEF g, N
  <2> QED BY <1>1, <1>2, <1>3, Recursion
<1>5. f \in [0 .. N -> V] /\ f[0] = b /\ \A i \in 0 .. N : i > 0 => f[i] = g[<<i, f[i - 1]>>]
  BY <1>4 DEF Recurs
<1>6. f = Rec(f)
  <2>1. \A i \in 0 .. N : f[i] = IF i = 0 THEN b ELSE step(i, f[i - 1])
    <3> SUFFICES ASSUME NEW i \in 0 .. N, i # 0 PROVE f[i] = step(i, f[i - 1])
      BY <1>5
    <3>0. i > 0 /\ i - 1 \in 0 .. N
      BY <1>1
    <3>1. f[i] = g[<<i, f[i - 1]>>] /\ f[i - 1] \in V
      <4> HIDE DEF g, step, N
      <4> QED BY <1>5, <3>0
    <3>2. g[<<i, f[i - 1]>>] = step(i, f[i - 1])
      <4> HIDE DEF step
      <4> QED BY <3>1
    <3> QED BY <3>1, <3>2
  <2>2. f = [i \in 0 .. N |-> f[i]]
    BY <1>5
  <2> HIDE DEF step
  <2> QED BY <2>1, <2>2
<1> DEFINE done == CHOOSE u : u = Rec(u)
<1>7. done = Rec(done)
  <2> HIDE DEF Rec
  <2> QED BY <1>6
<1>8. InsertAll(n, cells) = done[N]
  BY DEF InsertAll, b
<1> HIDE DEF done
<1>9. Steps(n, cells, done)
  <2>1. \A i \in 0 .. N : done[i] = IF i = 0 THEN b ELSE step(i, done[i - 1])
    BY <1>7
  <2>2. 0 \in 0 .. N /\ \A i \in 1 .. N : i \in 0 .. N /\ i # 0
    BY <1>1
  <2> QED BY <2>1, <2>2 DEF Steps, b
<1> QED BY <1>8, <1>9

(* A key above all keys of a page goes behind them.                        *)
LEMMA BelowAll ==
  ASSUME NEW n \in PageRec, NEW k, \A i \in 1 .. Len(n.keys) : n.keys[i] < k
  PROVE  Below(n, k) = Len(n.keys)
<1>1. DOMAIN n.keys = 1 .. Len(n.keys) /\ Len(n.keys) \in Nat
  BY RecFields
<1>2. {i \in DOMAIN n.keys : n.keys[i] < k} = 1 .. Len(n.keys)
  BY <1>1
<1>3. Cardinality(1 .. Len(n.keys)) = Len(n.keys)
  BY <1>1, FS_Interval
<1> QED BY <1>2, <1>3 DEF Below

(* Cells with rising keys, all above those of a page.                      *)
Behind(n, cells) ==
  /\ \A i, j \in 1 .. Len(cells) : i < j => cells[i][1] < cells[j][1]
  /\ \A i \in 1 .. Len(n.keys) : \A j \in 1 .. Len(cells) : n.keys[i] < cells[j][1]

(* Page m has the cells of page n and behind them the first k of others.   *)
Appended(n, cells, k, m) ==
  /\ PageOK(m) /\ m.leaf = n.leaf /\ m.next = n.next
  /\ Len(m.keys) = Len(n.keys) + k
  /\ \A i \in 1 .. Len(n.keys) : m.keys[i] = n.keys[i]
  /\ \A i \in 1 .. k : m.keys[Len(n.keys) + i] = cells[i][1]
  /\ n.leaf => m.kids = n.kids
  /\ ~n.leaf => /\ \A i \in 1 .. Len(n.keys) + 1 : m.kids[i] = n.kids[i]
                /\ \A i \in 1 .. k : m.kids[Len(n.keys) + 1 + i] = cells[i][2]

(* A cell still to be appended is behind all keys of the page.             *)
LEMMA AppendedKeys ==
  ASSUME NEW n, PageOK(n), NEW cells, CellsFor(n.leaf, cells), Behind(n, cells),
         NEW k \in Nat, k + 1 \in 1 .. Len(cells), NEW m, Appended(n, cells, k, m)
  PROVE  \A i \in 1 .. Len(m.keys) : m.keys[i] < cells[k + 1][1]
<1>1. Len(n.keys) \in Nat /\ Len(m.keys) = Len(n.keys) + k
  BY RecFields DEF PageOK, Appended
<1> SUFFICES ASSUME NEW i \in 1 .. Len(m.keys) PROVE m.keys[i] < cells[k + 1][1]
  OBVIOUS
<1>2. CASE i <= Len(n.keys)
  <2>1. i \in 1 .. Len(n.keys)
    BY <1>1, <1>2
  <2> QED BY <2>1 DEF Appended, Behind
<1>3. CASE ~(i <= Len(n.keys))
  <2> DEFINE j == i - Len(n.keys)
  <2>1. j \in 1 .. k /\ i = Len(n.keys) + j /\ j \in 1 .. k + 1 /\ j < k + 1
    BY <1>1, <1>3
  <2> HIDE DEF j
  <2>2. j \in 1 .. Len(cells)
    <3>1. k + 1 <= Len(cells) /\ Len(cells) \in Nat
      BY DEF CellsFor
    <3> QED BY <2>1, <3>1
  <2>3. m.keys[i] = cells[j][1]
    BY <2>1 DEF Appended
  <2>4. cells[j][1] < cells[k + 1][1]
    BY <2>1, <2>2 DEF Behind
  <2> QED BY <2>3, <2>4
<1> QED BY <1>2, <1>3

(* The cell goes to the end of the page.                                   *)
LEMMA AppendsOne ==
  ASSUME NEW n, PageOK(n), NEW cells, CellsFor(n.leaf, cells), Behind(n, cells),
         NEW k \in Nat, k + 1 \in 1 .. Len(cells), NEW m, Appended(n, cells, k, m),
         NEW r, r = InsertCell(m, cells[k + 1][1], cells[k + 1][2]), r.res = "ok"
  PROVE  Appended(n, cells, k + 1, r.node)
<1> DEFINE key == cells[k + 1][1]  c == cells[k + 1][2]  p == Len(m.keys) + 1  t == r.node
<1>1. /\ PageOK(m) /\ m \in PageRec /\ RoomFits(m) /\ m.leaf = n.leaf /\ n.leaf \in BOOLEAN
      /\ Len(m.kids) = (IF m.leaf THEN 0 ELSE Len(m.keys) + 1)
      /\ Len(n.kids) = (IF n.leaf THEN 0 ELSE Len(n.keys) + 1)
      /\ m.keys \in Seq(Key) /\ m.kids \in Seq(Nat) /\ Len(m.keys) \in Nat /\ Len(n.keys) \in Nat
      /\ Len(m.keys) = Len(n.keys) + k
  BY RecFields DEF Appended, PageOK
<1>1a. m.keys \in Seq(Key)
  BY <1>1
<1>1b. m.kids \in Seq(Nat)
  BY <1>1
<1>1c. Len(m.keys) \in Nat /\ Len(n.keys) \in Nat /\ Len(m.keys) = Len(n.keys) + k /\ k \in Nat
  BY <1>1
<1>2. key \in Key /\ c \in Links /\ (n.leaf \/ c \in Nat)
  BY DEF CellsFor
<1>3. Below(m, key) = Len(m.keys)
  BY <1>1, AppendedKeys, BelowAll
<1>4. r = InsertCell(m, key, c)
  OBVIOUS
<1> HIDE DEF key, c
<1>5. Gains(m, t, p, key, c) /\ RoomFits(t) /\ PageOK(t) /\ t.leaf = m.leaf
  <2>1. Below(m, key) \in 0 .. Len(m.keys)
    BY <1>1, <1>3
  <2>2. PageOK(t) /\ t.leaf = m.leaf
    BY <1>1, <1>2, <1>4, InsertStays
  <2>3. m.leaf \/ (c \in Nat /\ Len(m.kids) = Len(m.keys) + 1)
    BY <1>1, <1>2
  <2>4. c \in Nat \cup {Null}
    BY <1>2 DEF Links
  <2>5. Gains(m, t, Below(m, key) + 1, key, c) /\ RoomFits(t)
    BY <1>1, <1>2, <1>4, <2>1, <2>3, <2>4, InsertGains
  <2> QED BY <1>3, <2>2, <2>5
<1> HIDE DEF t
<1>6. /\ t.keys = InsertAt(m.keys, p, key) /\ t.next = m.next
      /\ t.kids = IF m.leaf THEN m.kids ELSE InsertAt(m.kids, p + 1, c)
  BY <1>5 DEF Gains
<1>7. p \in 1 .. Len(m.keys) + 1
  BY <1>1
<1>7a. t.keys = InsertAt(m.keys, p, key) /\ key \in Key
  BY <1>2, <1>6
<1>8. Len(t.keys) = Len(m.keys) + 1
  <2> HIDE DEF p
  <2>1. Len(InsertAt(m.keys, p, key)) = Len(m.keys) + 1
    BY ONLY <1>1a, <1>7, <1>7a, InsertAtSeq
  <2> QED BY ONLY <1>7a, <2>1
<1>9. \A i \in 1 .. Len(m.keys) : t.keys[i] = m.keys[i]
  <2> SUFFICES ASSUME NEW i \in 1 .. Len(m.keys) PROVE t.keys[i] = m.keys[i]
    OBVIOUS
  <2>1. i \in 1 .. p - 1
    BY <1>1
  <2> HIDE DEF p
  <2> QED BY ONLY <1>1a, <1>7, <1>7a, <2>1, InsertAtBefore
<1>10. t.keys[Len(m.keys) + 1] = key
  <2>1. t.keys[p] = key
    <3> HIDE DEF p
    <3> QED BY ONLY <1>1a, <1>7, <1>7a, InsertAtHere
  <2> QED BY <2>1
<1>11. ASSUME ~n.leaf
       PROVE  /\ \A i \in 1 .. Len(m.keys) + 1 : t.kids[i] = m.kids[i]
              /\ t.kids[Len(m.keys) + 2] = c
  <2>1. t.kids = InsertAt(m.kids, p + 1, c) /\ Len(m.kids) = Len(m.keys) + 1 /\ c \in Nat
    BY <1>1, <1>2, <1>6, <1>11
  <2>2. p + 1 \in 1 .. Len(m.kids) + 1 /\ p + 1 = Len(m.keys) + 2
    BY <1>1, <2>1
  <2> DEFINE q == p + 1
  <2>3. ASSUME NEW i \in 1 .. Len(m.keys) + 1 PROVE t.kids[i] = m.kids[i]
    <3>1. i \in 1 .. q - 1
      BY <1>1
    <3> HIDE DEF q
    <3>2. t.kids = InsertAt(m.kids, q, c) /\ q \in 1 .. Len(m.kids) + 1
      BY <2>1, <2>2 DEF q
    <3>3. c \in Nat
      BY <2>1
    <3> HIDE DEF p
    <3>4. InsertAt(m.kids, q, c)[i] = m.kids[i]
      BY <1>1b, <3>1, <3>2, <3>3, InsertAtBefore
    <3> QED BY <3>2, <3>4
  <2>4. t.kids[q] = c
    <3>2. t.kids = InsertAt(m.kids, q, c) /\ q \in 1 .. Len(m.kids) + 1
      BY <2>1, <2>2
    <3>3. c \in Nat
      BY <2>1
    <3> HIDE DEF q, p
    <3>4. InsertAt(m.kids, q, c)[q] = c
      BY ONLY <1>1b, <3>2, <3>3, InsertAtHere
    <3> QED BY ONLY <3>2, <3>4
  <2> QED BY <2>2, <2>3, <2>4
<1> HIDE DEF p
<1>12. /\ m.leaf = n.leaf /\ m.next = n.next
       /\ \A i \in 1 .. Len(n.keys) : m.keys[i] = n.keys[i]
       /\ \A i \in 1 .. k : m.keys[Len(n.keys) + i] = cells[i][1]
       /\ n.leaf => m.kids = n.kids
       /\ ~n.leaf => /\ \A i \in 1 .. Len(n.keys) + 1 : m.kids[i] = n.kids[i]
                     /\ \A i \in 1 .. k : m.kids[Len(n.keys) + 1 + i] = cells[i][2]
  BY DEF Appended
<1>13. \A i \in 1 .. Len(n.keys) : i \in 1 .. Len(m.keys)
  BY <1>1
<1>14. \A i \in 1 .. k : Len(n.keys) + i \in 1 .. Len(m.keys)
  BY <1>1
<1>15. \A i \in 1 .. k + 1 : i \in 1 .. k \/ (i = k + 1 /\ Len(n.keys) + i = Len(m.keys) + 1
                                             /\ Len(n.keys) + 1 + i = Len(m.keys) + 2)
  BY ONLY <1>1c
<1>16. \A i \in 1 .. Len(n.keys) : t.keys[i] = n.keys[i]
  BY <1>9, <1>12, <1>13
<1>17. \A i \in 1 .. k + 1 : t.keys[Len(n.keys) + i] = cells[i][1]
  <2> SUFFICES ASSUME NEW i \in 1 .. k + 1 PROVE t.keys[Len(n.keys) + i] = cells[i][1]
    OBVIOUS
  <2>1. CASE i \in 1 .. k
    BY <1>9, <1>12, <1>14, <2>1
  <2>2. CASE i = k + 1 /\ Len(n.keys) + i = Len(m.keys) + 1
    BY <1>10, <2>2 DEF key
  <2> QED BY <1>15, <2>1, <2>2
<1>18. ASSUME ~n.leaf
       PROVE  /\ \A i \in 1 .. Len(n.keys) + 1 : t.kids[i] = n.kids[i]
              /\ \A i \in 1 .. k + 1 : t.kids[Len(n.keys) + 1 + i] = cells[i][2]
  <2>1. \A i \in 1 .. Len(n.keys) + 1 : i \in 1 .. Len(m.keys) + 1
    BY <1>1
  <2>2. \A i \in 1 .. k : Len(n.keys) + 1 + i \in 1 .. Len(m.keys) + 1
    BY <1>1
  <2>3. ASSUME NEW i \in 1 .. k + 1 PROVE t.kids[Len(n.keys) + 1 + i] = cells[i][2]
    <3>1. CASE i \in 1 .. k
      BY <1>11, <1>12, <1>18, <2>2, <3>1
    <3>2. CASE i = k + 1 /\ Len(n.keys) + 1 + i = Len(m.keys) + 2
      BY <1>11, <1>18, <3>2 DEF c
    <3> QED BY <1>15, <3>1, <3>2
  <2> QED BY <1>11, <1>12, <1>18, <2>1, <2>3
<1>19. Len(t.keys) = Len(n.keys) + (k + 1)
  <2>1. ASSUME NEW x, NEW y \in Nat, NEW z \in Nat, x = y + 1, y = z + k PROVE x = z + (k + 1)
    BY <2>1
  <2> HIDE DEF t
  <2> QED BY ONLY <1>1c, <1>8, <2>1
<1>20. t.leaf = n.leaf /\ t.next = n.next /\ (n.leaf => t.kids = n.kids)
  BY <1>1, <1>5, <1>6, <1>12
<1> QED BY <1>5, <1>16, <1>17, <1>18, <1>19, <1>20 DEF Appended, t

(* One by one they all get there, or the last answer is a refusal.         *)
LEMMA StepsAppend ==
  ASSUME NEW n, PageOK(n), NEW cells, CellsFor(n.leaf, cells), Behind(n, cells),
         NEW done, Steps(n, cells, done), NEW k \in 0 .. Len(cells)
  PROVE  done[k].res = "ok" => Appended(n, cells, k, done[k].node)
<1> DEFINE N == Len(cells)
           S == {j \in 0 .. N : done[j].res = "ok" => Appended(n, cells, j, done[j].node)}
<1>1. N \in Nat /\ 0 \in 0 .. N
  BY DEF CellsFor
<1>2. 0 \in S
  <2>1. done[0].node = n
    BY DEF Steps
  <2>2. Len(n.keys) \in Nat
    BY RecFields DEF PageOK
  <2>3. Len(n.keys) = Len(n.keys) + 0 /\ \A i \in 1 .. 0 : FALSE
    BY <2>2
  <2>4. Appended(n, cells, 0, n)
    BY <2>3 DEF Appended
  <2> QED BY <1>1, <2>1, <2>4
<1>3. ASSUME NEW j \in 0 .. N, j > 0, j - 1 \in S PROVE j \in S
  <2>1. /\ j \in 1 .. N /\ j - 1 \in Nat /\ (j - 1) + 1 = j /\ (j - 1) + 1 \in 1 .. N
    BY <1>1, <1>3
  <2>2. done[j] = IF done[j - 1].res = "ok"
                    THEN InsertCell(done[j - 1].node, cells[j][1], cells[j][2]) ELSE done[j - 1]
    BY <2>1 DEF Steps
  <2> SUFFICES ASSUME done[j].res = "ok" PROVE Appended(n, cells, j, done[j].node)
    OBVIOUS
  <2>3. done[j - 1].res = "ok"
    BY <2>2
  <2>4. Appended(n, cells, j - 1, done[j - 1].node)
    BY <1>3, <2>3
  <2> DEFINE i == j - 1  m == done[i].node  r == done[j]
  <2>5. r = InsertCell(m, cells[i + 1][1], cells[i + 1][2]) /\ r.res = "ok"
    BY <2>1, <2>2, <2>3
  <2>6. i \in Nat /\ i + 1 \in 1 .. Len(cells) /\ Appended(n, cells, i, m) /\ i + 1 = j
    BY <2>1, <2>4
  <2> HIDE DEF i, m, r, N, S
  <2>7. Appended(n, cells, i + 1, r.node)
    BY <2>5, <2>6, AppendsOne
  <2> QED BY <2>6, <2>7 DEF r
<1>4. \A j \in 0 .. N : j \in S
  <2> HIDE DEF S, N
  <2>1. 0 \in Nat
    OBVIOUS
  <2> QED BY <1>1, <1>2, <1>3, <2>1, StepInduction
<1> QED BY <1>4

(* Cells behind the keys of a page are appended to it in their order, when *)
(* there is room for all.                                                  *)
LEMMA AppendsAll ==
  ASSUME NEW n, PageOK(n), NEW cells, CellsFor(n.leaf, cells), Behind(n, cells),
         NEW r, r = InsertAll(n, cells), r.res = "ok"
  PROVE  Appended(n, cells, Len(cells), r.node)
<1>1. PICK done : Steps(n, cells, done) /\ InsertAll(n, cells) = done[Len(cells)]
  BY InsertAllDef
<1>2. Len(cells) \in 0 .. Len(cells)
  <2>1. Len(cells) \in Nat
    BY DEF CellsFor
  <2> QED BY <2>1
<1> QED BY <1>1, <1>2, StepsAppend

(* Leaves with room for all the cells take them all.                       *)
LEMMA LeafTakesAll ==
  ASSUME NEW n, PageOK(n), n.leaf, NEW cells, CellsFor(n.leaf, cells), Behind(n, cells),
         NEW keys, keys \in Seq(Key), Len(keys) = Len(cells), \A i \in 1 .. Len(keys) : keys[i] = cells[i][1],
         SpaceOf(n) + SpaceIn(TRUE, keys) <= PageSpace
  PROVE  InsertAll(n, cells).res = "ok"
<1>1. PICK done : Steps(n, cells, done) /\ InsertAll(n, cells) = done[Len(cells)]
  BY InsertAllDef
<1> DEFINE N == Len(cells)  S == {j \in 0 .. N : done[j].res = "ok"}
<1>2. N \in Nat /\ 0 \in 0 .. N /\ N \in 0 .. N /\ n \in PageRec /\ n.keys \in Seq(Key) /\ Len(n.keys) \in Nat
      /\ SpaceOf(n) \in Nat /\ n.leaf = TRUE /\ PageSpace \in Nat
  <2>1. N \in Nat
    BY DEF CellsFor
  <2>2. n \in PageRec /\ n.keys \in Seq(Key) /\ Len(n.keys) \in Nat /\ SpaceOf(n) \in Nat /\ n.leaf \in BOOLEAN
    BY RecFields, SpaceNat DEF PageOK
  <2> QED BY <2>1, <2>2, Numbers
<1>3. 0 \in S
  BY <1>1, <1>2 DEF Steps
<1>4. ASSUME NEW j \in 0 .. N, j > 0, j - 1 \in S PROVE j \in S
  <2>1. /\ j \in 1 .. N /\ j - 1 \in Nat /\ (j - 1) + 1 = j /\ (j - 1) + 1 \in 1 .. N /\ j - 1 \in 0 .. N
    BY <1>2, <1>4
  <2> DEFINE i == j - 1  m == done[i].node  k == cells[j][1]
             front == SubSeq(keys, 1, i)  back == SubSeq(keys, j, N)
  <2>2. done[j] = InsertCell(m, k, cells[j][2])
    <3>1. done[j - 1].res = "ok"
      BY <1>4
    <3> QED BY <1>1, <2>1, <3>1 DEF Steps
  <2>3. Appended(n, cells, i, m)
    BY <1>1, <1>4, <2>1, StepsAppend
  <2>4. k \in Key
    BY <2>1 DEF CellsFor
  <2>5. front \in Seq(Key) /\ Len(front) = i /\ \A x \in 1 .. i : front[x] = keys[x]
    <3>1. 1 \in 1 .. Len(keys) + 1 /\ i \in 0 .. Len(keys) /\ 1 <= i + 1 /\ (i - 1) + 1 = i
      BY <1>2, <2>1
    <3>3. \A x \in 1 .. i : (x + 1) - 1 = x
      OBVIOUS
    <3> HIDE DEF i
    <3>2. /\ SubSeq(keys, 1, i) \in Seq(Key) /\ Len(SubSeq(keys, 1, i)) = (i - 1) + 1
          /\ \A x \in 1 .. (i - 1) + 1 : SubSeq(keys, 1, i)[x] = keys[(x + 1) - 1]
      BY <3>1, PartOf
    <3> QED BY <3>1, <3>2, <3>3
  <2>6. back \in Seq(Key) /\ Len(back) = N - i /\ back # << >> /\ back[1] = k /\ \A x \in 1 .. N - i : back[x] = keys[i + x]
    <3>1. j \in 1 .. Len(keys) + 1 /\ N \in 0 .. Len(keys) /\ j <= N + 1 /\ (N - j) + 1 = N - i /\ 1 \in 1 .. N - i
      BY <1>2, <2>1
    <3>3. \A x \in 1 .. N - i : (x + j) - 1 = i + x
      BY <2>1
    <3>4. i + 1 = j /\ keys[j] = k
      BY <1>2, <2>1
    <3> HIDE DEF i, N
    <3>2. /\ SubSeq(keys, j, N) \in Seq(Key) /\ Len(SubSeq(keys, j, N)) = (N - j) + 1
          /\ \A x \in 1 .. (N - j) + 1 : SubSeq(keys, j, N)[x] = keys[(x + j) - 1]
      BY <3>1, PartOf
    <3>5. back \in Seq(Key) /\ Len(back) = N - i /\ \A x \in 1 .. N - i : back[x] = keys[i + x]
      BY <3>1, <3>2, <3>3
    <3>6. back[1] = k
      BY <3>1, <3>4, <3>5
    <3>7. back # << >>
      <4>1. Len(back) >= 1 
        BY <3>1, <3>5
      <4> HIDE DEF back
      <4> QED BY <4>1
    <3> QED BY <3>5, <3>6, <3>7
  <2> HIDE DEF front, back
  <2>7. SpaceIn(TRUE, keys) = SpaceIn(TRUE, front) + SpaceIn(TRUE, back)
    <3>1. Cut(keys, front, back)
      <4>1. Len(front) + Len(back) = Len(keys)
        BY <1>2, <2>1, <2>5, <2>6
      <4> QED BY <2>5, <2>6, <4>1 DEF Cut
    <3> QED BY <2>5, <2>6, <3>1, SpaceCut
  <2>8. RowSpace[k] <= SpaceIn(TRUE, back)
    <3> DEFINE t == Tail(back)
    <3>1. t \in Seq(Key) /\ back = InsertAt(t, 1, k)
      <4> DEFINE u == RemoveAt(back, 1)
      <4>1. 1 \in 1 .. Len(back)
        BY <2>6
      <4>2. u \in Seq(Key) /\ InsertAt(u, 1, k) = back
        BY <2>6, <4>1, RemoveAtSeq, PutBack
      <4>3. u = Tail(back)
        <5>1. \A x \in 1 .. Len(back) - 1 : u[x] = back[x + 1]
          <6> SUFFICES ASSUME NEW x \in 1 .. Len(back) - 1 PROVE u[x] = back[x + 1]
            OBVIOUS
          <6>1. ~(x < 1)
            OBVIOUS
          <6> QED BY <2>6, <4>1, <6>1, RemoveAtFacts
        <5>2. Len(u) = Len(back) - 1
          BY <2>6, <4>1, RemoveAtSeq
        <5>3. Tail(back) \in Seq(Key) /\ Len(Tail(back)) = Len(back) - 1 /\ \A x \in 1 .. Len(back) - 1 : Tail(back)[x] = back[x + 1]
          BY <2>6
        <5> HIDE DEF u
        <5> QED BY <4>2, <5>1, <5>2, <5>3
      <4> QED BY <4>2, <4>3
    <3> HIDE DEF t
    <3>2. 1 \in 1 .. Len(t) + 1
      BY <3>1
    <3>3. SpaceIn(TRUE, InsertAt(t, 1, k)) = SpaceIn(TRUE, t) + OneSpace(TRUE, k)
      BY <2>4, <3>1, <3>2, SpaceInsert
    <3>4. SpaceIn(TRUE, t) \in Nat
      BY <3>1, SpacesNat
    <3>5. OneSpace(TRUE, k) = RowSpace[k] /\ RowSpace[k] \in Nat
      BY <2>4, Numbers DEF OneSpace
    <3>6. SpaceIn(TRUE, back) = SpaceIn(TRUE, t) + RowSpace[k]
      BY <3>1, <3>3, <3>5
    <3>7. ASSUME NEW x, NEW y \in Nat, NEW z \in Nat, x = y + z PROVE z <= x
      BY <3>7
    <3> HIDE DEF k
    <3> QED BY ONLY <3>4, <3>5, <3>6, <3>7
  <2>9. SpaceOf(m) = SpaceOf(n) + SpaceIn(TRUE, front)
    <3>1. m \in PageRec /\ m.leaf = TRUE /\ m.keys \in Seq(Key)
      BY <1>2, <2>3, RecFields DEF Appended, PageOK
    <3>2. Cut(m.keys, n.keys, front)
      <4>1. Len(m.keys) = Len(n.keys) + i /\ \A x \in 1 .. Len(n.keys) : m.keys[x] = n.keys[x]
        BY <2>3 DEF Appended
      <4>2. \A x \in 1 .. i : m.keys[Len(n.keys) + x] = cells[x][1]
        BY <2>3 DEF Appended
      <4>3. \A x \in 1 .. i : x \in 1 .. Len(keys)
        BY <1>2, <2>1
      <4> QED BY <2>5, <4>1, <4>2, <4>3 DEF Cut
    <3>3. SpaceIn(TRUE, m.keys) = SpaceIn(TRUE, n.keys) + SpaceIn(TRUE, front)
      BY <1>2, <2>5, <3>1, <3>2, SpaceCut
    <3>4. SpaceOf(m) = SpaceIn(m.leaf, m.keys) /\ SpaceOf(n) = SpaceIn(n.leaf, n.keys)
      BY <1>2, <3>1, SpaceOfIs
    <3> QED BY <1>2, <3>1, <3>3, <3>4
  <2>10. ~(m.room < RowSpace[k])
    <3>1. m.room + SpaceOf(m) = PageSpace /\ m.room \in Nat
      BY <1>2, <2>3, RecFields DEF Appended, PageOK, RoomFits
    <3>2. SpaceIn(TRUE, front) \in Nat /\ SpaceIn(TRUE, back) \in Nat /\ RowSpace[k] \in Nat
      BY <2>4, <2>5, <2>6, SpacesNat, Numbers
    <3>3. SpaceOf(n) + SpaceIn(TRUE, keys) <= PageSpace
      OBVIOUS
    <3>4. SpaceOf(n) \in Nat /\ PageSpace \in Nat
      BY <1>2
    <3>5. ASSUME NEW a \in Nat, NEW b \in Nat, NEW c \in Nat, NEW d \in Nat, NEW f \in Nat, NEW g \in Nat,
                 NEW e, NEW u, e + u = g, e \in Nat, u = a + b, d <= c, NEW w, w = b + c, a + w <= g
          PROVE  ~(e < d)
      BY <3>5
    <3> HIDE DEF m, k, i
    <3> QED BY ONLY <2>7, <2>8, <2>9, <3>1, <3>2, <3>3, <3>4, <3>5
  <2>11. k \notin KeysIn(m)
    <3>1. \A x \in 1 .. Len(m.keys) : m.keys[x] < k
      <4>1. \A x \in 1 .. Len(m.keys) : m.keys[x] < cells[i + 1][1]
        <5> HIDE DEF i, m, N
        <5>1. i \in Nat /\ i + 1 \in 1 .. Len(cells)
          BY <2>1 DEF i, N
        <5> QED BY <2>3, <5>1, AppendedKeys
      <4>2. i + 1 = j
        BY <2>1
      <4> QED BY <4>1, <4>2
    <3>2. \A x \in 1 .. Len(m.keys) : m.keys[x] \in Key
      BY <2>3, RecFields DEF Appended, PageOK
    <3> HIDE DEF m, k
    <3>3. \A x \in 1 .. Len(m.keys) : m.keys[x] # k
      <4>1. \A y, z \in Nat : y < z => y # z
        OBVIOUS
      <4> QED BY <2>4, <3>1, <3>2, <4>1, Numbers
    <3> QED BY <3>3 DEF KeysIn
  <2>12. done[j].res = "ok"
    <3>1. m \in PageRec /\ m.leaf
      BY <2>3 DEF Appended, PageOK
    <3>2. done[j].res \in {"full", "exists", "overflow", "ok"} /\ done[j].res # "overflow"
          /\ done[j].res # "full" /\ done[j].res # "exists"
      <4> HIDE DEF m, k
      <4> QED BY <2>2, <2>4, <2>10, <2>11, <3>1, InsertRefused
    <3> QED BY <3>2
  <2> QED BY <2>12
<1>5. \A j \in 0 .. N : j \in S
  <2> HIDE DEF S, N
  <2>1. 0 \in Nat
    OBVIOUS
  <2> QED BY <1>2, <1>3, <1>4, <2>1, StepInduction
<1> QED BY <1>1, <1>2, <1>5
=============================================================================
