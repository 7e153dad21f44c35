----------------------------- MODULE PagerProofs -----------------------------
(***************************************************************************)
(* The pager keeps its pages: the safety invariants of module Pager and    *)
(* its refinement of PageStore hold for any number of pages, calls and     *)
(* contents.                                                               *)
(***************************************************************************)
EXTENDS Pager, TLAPS

(* The inductive invariant.  The parts need one another: a reopened table  *)
(* has a linked free list because the file holds the last flush, which     *)
(* holds because what is not dirty is in the file, and so on.              *)
IInv ==
  /\ TypeOK
  /\ OwnedOnce
  /\ FreeListLinked
  /\ ReadsWithinFile
  /\ CleanIsWritten
  /\ FileHoldsLastFlush
  /\ FlushProgress

-----------------------------------------------------------------------------
(* Functions and sequences.                                                *)

(* Put() changes a function at one point.                                  *)
LEMMA PutFacts ==
  ASSUME NEW f, NEW x, NEW v
  PROVE  /\ DOMAIN Put(f, x, v) = DOMAIN f \cup {x}
         /\ Put(f, x, v)[x] = v
         /\ \A y \in DOMAIN f : y # x => Put(f, x, v)[y] = f[y]
BY DEF Put

LEMMA PutType ==
  ASSUME NEW f, NEW x, NEW Elem, NEW v \in Elem, f \in [DOMAIN f -> Elem]
  PROVE  Put(f, x, v) \in [DOMAIN Put(f, x, v) -> Elem]
BY DEF Put

LEMMA RestrictFacts ==
  ASSUME NEW f, NEW x, NEW Elem, f \in [DOMAIN f -> Elem]
  PROVE  /\ DOMAIN Restrict(f, DOMAIN f \ {x}) = DOMAIN f \ {x}
         /\ \A y \in DOMAIN f \ {x} : Restrict(f, DOMAIN f \ {x})[y] = f[y]
         /\ Restrict(f, DOMAIN f \ {x}) \in [DOMAIN f \ {x} -> Elem]
BY DEF Restrict

LEMMA PageTypes ==
  /\ \A d \in Data : LivePage(d) \in Body
  /\ LivePage(Torn) \in Body
  /\ \A n \in PageId \cup {Null} : FreePage(n) \in Body /\ FreePage(n).next = n
BY DEF LivePage, FreePage, Body

LEMMA PageFields ==
  /\ \A d : LivePage(d).free = FALSE /\ LivePage(d).data = d
  /\ \A n : FreePage(n).free = TRUE
BY DEF LivePage, FreePage

(* What is left of a free list without its first page, and with one more.  *)
LEMMA TailFacts ==
  ASSUME NEW Elem, NEW l \in Seq(Elem), l # << >>
  PROVE  /\ Len(l) \in Nat \ {0} /\ DOMAIN l = 1 .. Len(l)
         /\ Head(l) = l[1] /\ l[1] \in Elem
         /\ Tail(l) \in Seq(Elem) /\ Len(Tail(l)) = Len(l) - 1
         /\ DOMAIN Tail(l) = 1 .. Len(l) - 1
         /\ \A i \in 1 .. Len(l) - 1 : Tail(l)[i] = l[i + 1]
         /\ Tail(l) # << >> => Head(Tail(l)) = l[2] /\ Len(l) # 1
         /\ Tail(l) = << >> => Len(l) = 1
<1>1. Len(l) \in Nat \ {0} /\ DOMAIN l = 1 .. Len(l) /\ Head(l) = l[1] /\ l[1] \in Elem
  OBVIOUS
<1>2. Tail(l) \in Seq(Elem) /\ Len(Tail(l)) = Len(l) - 1
  OBVIOUS
<1>3. DOMAIN Tail(l) = 1 .. Len(l) - 1
  BY <1>1, <1>2
<1>4. \A i \in 1 .. Len(l) - 1 : Tail(l)[i] = l[i + 1]
  BY <1>1
<1>5. Tail(l) # << >> => Head(Tail(l)) = l[2] /\ Len(l) # 1
  <2> SUFFICES ASSUME Tail(l) # << >> PROVE Head(Tail(l)) = l[2] /\ Len(l) # 1
    OBVIOUS
  <2>1. Len(Tail(l)) # 0 /\ Head(Tail(l)) = Tail(l)[1]
    BY <1>2
  <2> QED BY <2>1, <1>1, <1>2, <1>4
<1>6. ASSUME Tail(l) = << >> PROVE Len(l) = 1
  <2>1. Len(<< >>) = 0
    OBVIOUS
  <2>2. Len(Tail(l)) = 0
    BY <1>6, <2>1, Zenon
  <2> QED BY <2>2, <1>1, <1>2
<1> QED BY <1>1, <1>2, <1>3, <1>4, <1>5, <1>6

LEMMA ConsFacts ==
  ASSUME NEW Elem, NEW l \in Seq(Elem), NEW x \in Elem
  PROVE  LET m == <<x>> \o l IN
         /\ m \in Seq(Elem) /\ m # << >> /\ Head(m) = x
         /\ Len(l) \in Nat /\ Len(m) = Len(l) + 1
         /\ DOMAIN l = 1 .. Len(l) /\ DOMAIN m = 1 .. Len(l) + 1
         /\ m[1] = x /\ \A i \in 1 .. Len(l) : m[i + 1] = l[i]
         /\ l # << >> => Len(l) # 0 /\ Head(l) = l[1]
         /\ l = << >> => Len(l) = 0
OBVIOUS

LEMMA TailRange ==
  ASSUME NEW Elem, NEW l \in Seq(Elem), l # << >>, IsInjective(l)
  PROVE  /\ IsInjective(Tail(l))
         /\ Range(Tail(l)) = Range(l) \ {l[1]}
         /\ l[1] \in Range(l)
<1>1. IsInjective(Tail(l))
  BY TailFacts DEF IsInjective
<1>2. Range(Tail(l)) \subseteq Range(l) \ {l[1]}
  BY TailFacts DEF IsInjective, Range
<1>3. ASSUME NEW x \in Range(l) \ {l[1]} PROVE x \in Range(Tail(l))
  <2>1. PICK i \in 1 .. Len(l) : x = l[i]
    BY TailFacts DEF Range
  <2>2. i - 1 \in 1 .. Len(l) - 1 /\ Tail(l)[i - 1] = x
    BY <1>3, <2>1, TailFacts
  <2> QED BY <2>2, TailFacts DEF Range
<1>4. l[1] \in Range(l)
  BY TailFacts DEF Range
<1>5. Range(Tail(l)) = Range(l) \ {l[1]}
  BY <1>2, <1>3
<1> QED BY <1>1, <1>4, <1>5

LEMMA ConsRange ==
  ASSUME NEW Elem, NEW l \in Seq(Elem), NEW x \in Elem
  PROVE  /\ Range(<<x>> \o l) = Range(l) \cup {x}
         /\ IsInjective(l) /\ x \notin Range(l) => IsInjective(<<x>> \o l)
<1> DEFINE m == <<x>> \o l
<1>1. /\ DOMAIN l = 1 .. Len(l) /\ DOMAIN m = 1 .. Len(l) + 1 /\ Len(l) \in Nat
      /\ m[1] = x /\ \A i \in 1 .. Len(l) : m[i + 1] = l[i]
  BY ConsFacts
<1>2. \A i \in DOMAIN m : i = 1 \/ (i - 1 \in DOMAIN l /\ m[i] = l[i - 1])
  BY <1>1
<1>3. Range(m) \subseteq Range(l) \cup {x}
  BY <1>1, <1>2 DEF Range
<1>4. \A i \in DOMAIN l : i + 1 \in DOMAIN m /\ m[i + 1] = l[i]
  BY <1>1
<1>5. Range(l) \cup {x} \subseteq Range(m)
  <2>1. x \in Range(m)
    <3>1. 1 \in DOMAIN m /\ m[1] = x
      BY <1>1
    <3> QED BY <3>1 DEF Range
  <2>2. ASSUME NEW y \in Range(l) PROVE y \in Range(m)
    <3>1. PICK i \in DOMAIN l : l[i] = y
      BY DEF Range
    <3>2. i + 1 \in DOMAIN m /\ m[i + 1] = y
      BY <3>1, <1>4
    <3> QED BY <3>2 DEF Range
  <2> QED BY <2>1, <2>2
<1>6. ASSUME IsInjective(l), x \notin Range(l) PROVE IsInjective(m)
  BY <1>6, <1>1, <1>2 DEF IsInjective, Range
<1> HIDE DEF m
<1> QED BY <1>3, <1>5, <1>6 DEF m

-----------------------------------------------------------------------------
(* Every action preserves the invariant.                                   *)

(* What is said of the file speaks of nothing but the file.                *)
LEMMA FileKept ==
  ASSUME FileHoldsLastFlush, UNCHANGED <<file, header, durable, partial>>,
         phase' \in {"open", "freeing"} => phase \in {"open", "freeing"}
  PROVE  FileHoldsLastFlush'
BY DEF FileHoldsLastFlush, FileHolds

(* The list keeps its links when its pages keep their content.             *)
LEMMA LinksKept ==
  ASSUME FreeListLinked, UNCHANGED <<free, freeList>>,
         \A x \in FreeIds : PageAt(x)' = PageAt(x),
         \A x \in Live' : PageAt(x)' \in {LivePage(d) : d \in Data}
  PROVE  FreeListLinked'
BY DEF FreeListLinked, FreeIds, Range

LEMMA LoadKeeps ==
  ASSUME IInv, NEW id \in PageId, Load(id)
  PROVE  IInv'
<1> USE DEF IInv, Load, Call, disk, aux
<1>1. id \in DOMAIN file /\ file[id] \in Body
  BY DEF TypeOK, ReadsWithinFile
<1>2. /\ DOMAIN cache' = DOMAIN cache \cup {id} /\ cache'[id] = file[id]
      /\ \A x \in DOMAIN cache : cache'[x] = cache[x]
  BY DEF Put
<1>3. FreeIds' = FreeIds /\ Live' = Live
  BY DEF FreeIds, Live
<1>4. \A x : PageAt(x)' = PageAt(x)
  BY <1>2 DEF PageAt
<1>5. TypeOK'
  <2>1. cache' \in [DOMAIN cache' -> Body]
    BY <1>1, PutType DEF TypeOK
  <2> QED BY <2>1, <1>2 DEF TypeOK
<1>6. OwnedOnce'
  BY <1>2, <1>3 DEF OwnedOnce, Live
<1>7. FreeListLinked'
  BY <1>3, <1>4, LinksKept DEF FreeListLinked
<1>8. ReadsWithinFile'
  BY <1>2, <1>3 DEF ReadsWithinFile
<1>9. CleanIsWritten'
  BY <1>1, <1>2 DEF CleanIsWritten
<1>10. FileHoldsLastFlush'
  BY FileKept
<1>11. FlushProgress'
  BY <1>3 DEF FlushProgress
<1> QED BY <1>5, <1>6, <1>7, <1>8, <1>9, <1>10, <1>11

LEMMA ModifyKeeps ==
  ASSUME IInv, NEW id \in PageId, NEW d \in Data, Modify(id, d)
  PROVE  IInv'
<1> USE DEF IInv, Modify, Call, disk, aux
<1>1. /\ DOMAIN cache' = DOMAIN cache \cup {id} /\ cache'[id] = LivePage(d)
      /\ \A x \in DOMAIN cache : x # id => cache'[x] = cache[x]
  BY DEF Put
<1>2. FreeIds' = FreeIds /\ Live' = Live
  BY DEF FreeIds, Live
<1>3. PageAt(id)' = LivePage(d) /\ \A x : x # id => PageAt(x)' = PageAt(x)
  BY <1>1 DEF PageAt
<1>4. TypeOK'
  <2>1. cache' \in [DOMAIN cache' -> Body]
    BY PageTypes, PutType DEF TypeOK
  <2> QED BY <2>1, <1>1 DEF TypeOK
<1>5. OwnedOnce'
  BY <1>1, <1>2 DEF OwnedOnce, Live
<1>6. FreeListLinked'
  <2>1. id \notin FreeIds
    BY DEF Live
  <2> QED BY <2>1, <1>2, <1>3, LinksKept DEF FreeListLinked
<1>7. ReadsWithinFile'
  BY <1>1, <1>2 DEF ReadsWithinFile
<1>8. CleanIsWritten'
  BY <1>1 DEF CleanIsWritten
<1>9. FileHoldsLastFlush'
  BY FileKept
<1>10. FlushProgress'
  BY <1>2 DEF FlushProgress
<1> QED BY <1>4, <1>5, <1>6, <1>7, <1>8, <1>9, <1>10

LEMMA RegisterKeeps ==
  ASSUME IInv, NEW d \in Data, Register(d)
  PROVE  IInv'
<1> USE PagerAssumption DEF IInv, Register, Call, disk, aux
<1>1. num \in PageId /\ num' \in 0 .. MaxPages
  BY DEF TypeOK, PageId
<1>2. /\ DOMAIN cache' = DOMAIN cache \cup {num} /\ cache'[num] = LivePage(d)
      /\ \A x \in DOMAIN cache : x # num => cache'[x] = cache[x]
  BY DEF Put
<1>3. num \notin FreeIds \cup taken /\ FreeIds \cup taken \subseteq 0 .. num' - 1
  BY DEF OwnedOnce, TypeOK
<1>4. FreeIds' = FreeIds /\ Live' = Live \cup {num}
  BY <1>3 DEF FreeIds, Live, TypeOK
<1>5. \A x : PageAt(x)' = IF x = num THEN LivePage(d) ELSE PageAt(x)
  BY <1>2 DEF PageAt
<1>6. TypeOK'
  <2>1. cache' \in [DOMAIN cache' -> Body]
    BY PageTypes, PutType DEF TypeOK
  <2> QED BY <2>1, <1>1, <1>2 DEF TypeOK
<1>7. OwnedOnce'
  BY <1>2, <1>3, <1>4 DEF OwnedOnce
<1>8. FreeListLinked'
  BY <1>3, <1>4, <1>5, LinksKept DEF FreeListLinked
<1>9. ReadsWithinFile'
  BY <1>2, <1>4 DEF ReadsWithinFile
<1>10. CleanIsWritten'
  BY <1>2 DEF CleanIsWritten
<1>11. FileHoldsLastFlush'
  BY FileKept
<1>12. FlushProgress'
  BY <1>4 DEF FlushProgress
<1> QED BY <1>6, <1>7, <1>8, <1>9, <1>10, <1>11, <1>12

(* The page of a new root: the first free page, with the rest of the list  *)
(* left free, or one behind the last page.                                 *)
LEMMA NewRootFacts ==
  ASSUME IInv, NEW d \in Data, NewRoot(d)
  PROVE  /\ freeList' \in Seq(PageId) /\ IsInjective(freeList')
         /\ root' \in PageId /\ num' \in 0 .. MaxPages
         /\ root' \notin Live \cup FreeIds' \cup taken
         /\ FreeIds' \subseteq FreeIds /\ FreeIds' \cup taken \subseteq 0 .. num' - 1
         /\ Live' = Live \cup {root'}
         /\ free' = IF freeList' = << >> THEN Null ELSE Head(freeList')
         /\ \A i \in DOMAIN freeList' :
              PageAt(freeList'[i]) =
                FreePage(IF i = Len(freeList') THEN Null ELSE freeList'[i + 1])
<1> USE PagerAssumption DEF IInv, NewRoot, Call, disk
<1>1. CASE free = Null
  <2>1. root' = num /\ num \in PageId /\ num' = num + 1 /\ UNCHANGED <<free, freeList>>
    BY <1>1 DEF TypeOK, PageId
  <2>2. FreeIds' = FreeIds /\ Live' = Live \cup {num} /\ num \notin Live \cup FreeIds \cup taken
    BY <2>1 DEF FreeIds, Live, OwnedOnce, TypeOK
  <2> QED BY <2>1, <2>2 DEF OwnedOnce, TypeOK, FreeListLinked, PageId
<1>2. CASE free # Null
  <2>1. /\ freeList # << >> /\ free = Head(freeList) /\ free \in PageId
        /\ root' = free /\ freeList' = Tail(freeList) /\ num' = num
    BY <1>2 DEF FreeListLinked, TypeOK
  <2>2. IsInjective(freeList) /\ freeList \in Seq(PageId)
    BY DEF OwnedOnce, TypeOK
  <2>3. free = freeList[1] /\ freeList' \in Seq(PageId)
    BY <2>1, <2>2, TailFacts
  <2>4. FreeIds' = FreeIds \ {free} /\ free \in FreeIds /\ IsInjective(freeList')
    BY <2>1, <2>2, <2>3, TailRange DEF FreeIds
  <2>5. Live' = Live \cup {free} /\ free \notin Live \cup taken
    BY <2>1, <2>4 DEF Live, OwnedOnce
  <2>6. \A i \in DOMAIN freeList' :
         PageAt(freeList'[i]) =
           FreePage(IF i = Len(freeList') THEN Null ELSE freeList'[i + 1])
    BY <2>1, <2>2, TailFacts DEF FreeListLinked
  <2>7. PageAt(free) = FreePage(IF Len(freeList) = 1 THEN Null ELSE freeList[2])
    BY <2>1, <2>2, <2>3, TailFacts DEF FreeListLinked
  <2>8. free' = IF freeList' = << >> THEN Null ELSE Head(freeList')
    BY <2>1, <2>2, <2>7, TailFacts, <1>2 DEF AfterPop, FreePage
  <2> QED BY <2>1, <2>3, <2>4, <2>5, <2>6, <2>8 DEF OwnedOnce, TypeOK
<1> QED BY <1>1, <1>2

LEMMA NewRootKeeps ==
  ASSUME IInv, NEW d \in Data, NewRoot(d)
  PROVE  IInv'
<1> USE PagerAssumption DEF IInv, NewRoot, Call, disk
<1>1. /\ DOMAIN cache' = DOMAIN cache \cup {root'} /\ cache'[root'] = LivePage(d)
      /\ \A x \in DOMAIN cache : x # root' => cache'[x] = cache[x]
  BY DEF Put
<1>2. \A x : PageAt(x)' = IF x = root' THEN LivePage(d) ELSE PageAt(x)
  BY <1>1 DEF PageAt
<1>3. /\ freeList' \in Seq(PageId) /\ IsInjective(freeList')
      /\ root' \in PageId /\ num' \in 0 .. MaxPages
      /\ root' \notin Live \cup FreeIds' \cup taken
      /\ FreeIds' \subseteq FreeIds /\ FreeIds' \cup taken \subseteq 0 .. num' - 1
      /\ Live' = Live \cup {root'}
      /\ free' = IF freeList' = << >> THEN Null ELSE Head(freeList')
      /\ \A i \in DOMAIN freeList' :
           PageAt(freeList'[i]) =
             FreePage(IF i = Len(freeList') THEN Null ELSE freeList'[i + 1])
  BY NewRootFacts
<1>4. TypeOK'
  <2>1. cache' \in [DOMAIN cache' -> Body]
    BY PageTypes, PutType DEF TypeOK
  <2>2. free' \in PageId \cup {Null}
    BY <1>3, TailFacts
  <2> QED BY <2>1, <2>2, <1>1, <1>3 DEF TypeOK
<1>5. OwnedOnce'
  BY <1>1, <1>3 DEF OwnedOnce
<1>6. FreeListLinked'
  <2>1. \A i \in DOMAIN freeList' : freeList'[i] # root'
    BY <1>3 DEF FreeIds, Range
  <2> QED BY <2>1, <1>2, <1>3 DEF FreeListLinked
<1>7. ReadsWithinFile'
  BY <1>1, <1>3 DEF ReadsWithinFile
<1>8. CleanIsWritten'
  BY <1>1 DEF CleanIsWritten
<1>9. FileHoldsLastFlush'
  BY FileKept
<1>10. FlushProgress'
  BY DEF FlushProgress
<1> QED BY <1>4, <1>5, <1>6, <1>7, <1>8, <1>9, <1>10

LEMMA TakePageKeeps ==
  ASSUME IInv, NEW id \in PageId, TakePage(id)
  PROVE  IInv'
<1> USE DEF IInv, TakePage, Call, disk, aux
<1>1. /\ DOMAIN cache' = DOMAIN cache \ {id} /\ cache' \in [DOMAIN cache' -> Body]
      /\ \A x \in DOMAIN cache' : cache'[x] = cache[x]
  BY DEF TypeOK, Restrict
<1>2. FreeIds' = FreeIds /\ Live' = Live \ {id} /\ id \notin FreeIds \cup taken
  BY DEF FreeIds, Live
<1>3. \A x : x # id => PageAt(x)' = PageAt(x)
  BY <1>1 DEF PageAt
<1>4. TypeOK'
  <2>1. cache[id].data \in Data
    BY DEF FreeListLinked, PageAt, LivePage
  <2>2. held' \in [DOMAIN held' -> Data]
    BY <2>1, PutType DEF TypeOK
  <2>3. DOMAIN held' = DOMAIN held \cup {id}
    BY PutFacts
  <2> QED BY <2>2, <2>3, <1>1 DEF TypeOK
<1>5. OwnedOnce'
  BY <1>1, <1>2 DEF OwnedOnce, Live
<1>6. FreeListLinked'
  BY <1>2, <1>3, LinksKept DEF FreeListLinked
<1>7. ReadsWithinFile'
  BY <1>1, <1>2 DEF ReadsWithinFile
<1>8. CleanIsWritten'
  BY <1>1 DEF CleanIsWritten
<1>9. FileHoldsLastFlush'
  BY FileKept
<1>10. FlushProgress'
  BY DEF FlushProgress
<1> QED BY <1>4, <1>5, <1>6, <1>7, <1>8, <1>9, <1>10

LEMMA GiveBackKeeps ==
  ASSUME IInv, NEW id \in PageId, NEW d \in Data, GiveBack(id, d)
  PROVE  IInv'
<1> USE DEF IInv, GiveBack, Call, disk, aux
<1>1. /\ DOMAIN cache' = DOMAIN cache \cup {id} /\ cache'[id] = LivePage(d)
      /\ \A x \in DOMAIN cache : x # id => cache'[x] = cache[x]
  BY DEF Put
<1>2. id \in taken /\ id \notin FreeIds /\ FreeIds' = FreeIds /\ Live' = Live \cup {id}
  BY DEF FreeIds, Live, OwnedOnce, TypeOK
<1>3. \A x : PageAt(x)' = IF x = id THEN LivePage(d) ELSE PageAt(x)
  BY <1>1 DEF PageAt
<1>4. TypeOK'
  <2>1. cache' \in [DOMAIN cache' -> Body]
    BY PageTypes, PutType DEF TypeOK
  <2>2. DOMAIN held' = DOMAIN held \ {id} /\ held' \in [DOMAIN held' -> Data]
    BY RestrictFacts DEF TypeOK
  <2> QED BY <2>1, <2>2, <1>1 DEF TypeOK
<1>5. OwnedOnce'
  BY <1>1, <1>2 DEF OwnedOnce
<1>6. FreeListLinked'
  BY <1>2, <1>3, LinksKept DEF FreeListLinked
<1>7. ReadsWithinFile'
  BY <1>1, <1>2 DEF ReadsWithinFile
<1>8. CleanIsWritten'
  BY <1>1 DEF CleanIsWritten
<1>9. FileHoldsLastFlush'
  BY FileKept
<1>10. FlushProgress'
  BY DEF FlushProgress
<1> QED BY <1>4, <1>5, <1>6, <1>7, <1>8, <1>9, <1>10

LEMMA DropKeeps ==
  ASSUME IInv, NEW id \in PageId, Drop(id)
  PROVE  IInv'
<1> USE DEF IInv, Drop, Call, disk, aux
<1>1. FreeIds' = FreeIds /\ Live' = Live /\ \A x : PageAt(x)' = PageAt(x)
  BY DEF FreeIds, Live, PageAt
<1>2. TypeOK'
  <2>1. DOMAIN held' = DOMAIN held \ {id} /\ held' \in [DOMAIN held' -> Data]
    BY RestrictFacts DEF TypeOK
  <2> QED BY <2>1 DEF TypeOK
<1>3. OwnedOnce'
  BY <1>1 DEF OwnedOnce
<1>4. FreeListLinked'
  BY <1>1, LinksKept DEF FreeListLinked
<1>5. ReadsWithinFile'
  BY <1>1 DEF ReadsWithinFile
<1>6. CleanIsWritten'
  BY DEF CleanIsWritten
<1>7. FileHoldsLastFlush'
  BY FileKept
<1>8. FlushProgress'
  BY DEF FlushProgress
<1> QED BY <1>2, <1>3, <1>4, <1>5, <1>6, <1>7, <1>8

LEMMA FlushBeginKeeps == IInv /\ FlushBegin => IInv'
<1> SUFFICES ASSUME IInv, FlushBegin PROVE IInv'
  OBVIOUS
<1> USE DEF IInv, FlushBegin, memory, disk, aux
<1>1. FreeIds' = FreeIds /\ Live' = Live /\ \A x : PageAt(x)' = PageAt(x)
  BY DEF FreeIds, Live, PageAt
<1>2. TypeOK'
  BY DEF TypeOK
<1>3. OwnedOnce'
  BY <1>1 DEF OwnedOnce
<1>4. FreeListLinked'
  BY <1>1, LinksKept DEF FreeListLinked
<1>5. ReadsWithinFile'
  BY <1>1 DEF ReadsWithinFile
<1>6. CleanIsWritten'
  BY DEF CleanIsWritten
<1>7. FileHoldsLastFlush'
  BY FileKept
<1>8. FlushProgress'
  BY <1>1 DEF FlushProgress
<1> QED BY <1>2, <1>3, <1>4, <1>5, <1>6, <1>7, <1>8

LEMMA FlushFreeKeeps ==
  ASSUME IInv, NEW id \in PageId, FlushFree(id)
  PROVE  IInv'
<1> USE DEF IInv, FlushFree, disk
<1>1. /\ DOMAIN cache' = DOMAIN cache \cup {id} /\ cache'[id] = FreePage(free)
      /\ \A x \in DOMAIN cache : x # id => cache'[x] = cache[x]
  BY DEF Put
<1>2. id \in taken /\ id \in 0 .. num - 1 /\ id \notin FreeIds
  BY DEF FlushProgress, OwnedOnce
<1>3. \A x : PageAt(x)' = IF x = id THEN FreePage(free) ELSE PageAt(x)
  BY <1>1 DEF PageAt
<1>4. freeList \in Seq(PageId) /\ IsInjective(freeList)
  BY DEF TypeOK, OwnedOnce
<1>5. freeList' \in Seq(PageId) /\ FreeIds' = FreeIds \cup {id} /\ IsInjective(freeList')
  BY <1>2, <1>4, ConsFacts, ConsRange DEF FreeIds
<1>6. Live' = Live
  BY <1>2, <1>5 DEF Live
<1>7. TypeOK'
  <2>1. cache' \in [DOMAIN cache' -> Body]
    BY PageTypes, PutType DEF TypeOK
  <2> QED BY <2>1, <1>1, <1>5 DEF TypeOK
<1>8. OwnedOnce'
  BY <1>1, <1>2, <1>5 DEF OwnedOnce
<1>9. FreeListLinked'
  <2>1. free' = IF freeList' = << >> THEN Null ELSE Head(freeList')
    BY <1>4, ConsFacts
  <2>2. ASSUME NEW i \in DOMAIN freeList'
        PROVE  (PageAt(freeList[i]) =
                  FreePage(IF i = Len(freeList) THEN Null ELSE freeList[i + 1]))'
    <3>1. CASE i = 1
      <4>1. free = IF Len(freeList) = 0 THEN Null ELSE freeList[1]
        BY <1>4, ConsFacts DEF FreeListLinked
      <4> QED BY <3>1, <4>1, <1>3, <1>4, ConsFacts
    <3>2. CASE i # 1
      <4>1. i - 1 \in DOMAIN freeList /\ freeList'[i] = freeList[i - 1]
        BY <3>2, <2>2, <1>4, ConsFacts
      <4>2. freeList[i - 1] # id
        BY <4>1, <1>2 DEF FreeIds, Range
      <4>3. PageAt(freeList[i - 1]) =
              FreePage(IF i - 1 = Len(freeList) THEN Null ELSE freeList[i])
        BY <4>1, <1>4, ConsFacts DEF FreeListLinked
      <4>4. i - 1 = Len(freeList) <=> i = Len(freeList')
        BY <4>1, <1>4, ConsFacts
      <4>5. i # Len(freeList') => freeList'[i + 1] = freeList[i]
        BY <4>1, <4>4, <1>4, ConsFacts
      <4> QED BY <4>1, <4>2, <4>3, <4>4, <4>5, <1>3
    <3> QED BY <3>1, <3>2
  <2>3. \A x \in Live' : PageAt(x)' \in {LivePage(e) : e \in Data}
    BY <1>2, <1>3, <1>6 DEF FreeListLinked, Live
  <2> QED BY <2>1, <2>2, <2>3 DEF FreeListLinked
<1>10. ReadsWithinFile'
  BY <1>1, <1>5, <1>6 DEF ReadsWithinFile
<1>11. CleanIsWritten'
  BY <1>1 DEF CleanIsWritten
<1>12. FileHoldsLastFlush'
  BY FileKept
<1>13. FlushProgress'
  BY <1>5 DEF FlushProgress
<1> QED BY <1>7, <1>8, <1>9, <1>10, <1>11, <1>12, <1>13

LEMMA FlushFreedKeeps == IInv /\ FlushFreed => IInv'
<1> SUFFICES ASSUME IInv, FlushFreed PROVE IInv'
  OBVIOUS
<1> USE DEF IInv, FlushFreed, disk, aux
<1>1. /\ FreeIds' = FreeIds /\ taken \subseteq FreeIds
      /\ \A x : PageAt(x)' = PageAt(x)
  BY DEF FreeIds, PageAt, FlushProgress
<1>2. Live' = Live
  BY <1>1 DEF Live
<1>3. TypeOK'
  BY DEF TypeOK, FlushProgress, Empty
<1>4. OwnedOnce'
  BY <1>1 DEF OwnedOnce
<1>5. FreeListLinked'
  BY <1>1, <1>2, LinksKept DEF FreeListLinked
<1>6. ReadsWithinFile'
  BY <1>1, <1>2 DEF ReadsWithinFile
<1>7. CleanIsWritten'
  BY DEF CleanIsWritten
<1>8. FileHoldsLastFlush'
  BY FileKept
<1>9. FlushProgress'
  BY <1>1 DEF FlushProgress
<1> QED BY <1>3, <1>4, <1>5, <1>6, <1>7, <1>8, <1>9

LEMMA FlushWriteKeeps ==
  ASSUME IInv, NEW id \in PageId, FlushWrite(id)
  PROVE  IInv'
<1> USE DEF IInv, FlushWrite, memory, aux
<1>1. id \in DOMAIN cache
  BY DEF FlushProgress, TypeOK
<1>2. /\ DOMAIN file' = DOMAIN file \cup {id} /\ file'[id] = cache[id]
      /\ \A x \in DOMAIN file : x # id => file'[x] = file[x]
  BY DEF Put
<1>3. FreeIds' = FreeIds /\ Live' = Live
  BY DEF FreeIds, Live
<1>4. \A x \in Live \cup FreeIds : PageAt(x)' = PageAt(x)
  BY <1>1, <1>2 DEF PageAt, ReadsWithinFile
<1>5. TypeOK'
  <2>1. file' \in [DOMAIN file' -> Body]
    BY <1>1, PutType DEF TypeOK
  <2> QED BY <2>1, <1>2 DEF TypeOK
<1>6. OwnedOnce'
  BY <1>3 DEF OwnedOnce
<1>7. FreeListLinked'
  BY <1>3, <1>4, LinksKept DEF FreeListLinked
<1>8. ReadsWithinFile'
  BY <1>2, <1>3 DEF ReadsWithinFile
<1>9. CleanIsWritten'
  BY <1>2 DEF CleanIsWritten
<1>10. FileHoldsLastFlush'
  BY DEF FileHoldsLastFlush
<1>11. FlushProgress'
  BY <1>2 DEF FlushProgress
<1> QED BY <1>5, <1>6, <1>7, <1>8, <1>9, <1>10, <1>11

(* The writes of the header leave the pages alone.                         *)
LEMMA HeaderKeeps ==
  ASSUME IInv, UNCHANGED <<memory, pending, file, aux>>,
         header' \in Header, partial' \in BOOLEAN,
         phase \in {"writing", "root", "free"}, pending = {},
         phase' \in {"root", "free"},
         phase' \in {"root", "free"} => header'.num = num,
         phase' = "free" => header'.root = root
  PROVE  IInv'
<1> USE DEF IInv, memory, aux
<1>1. FreeIds' = FreeIds /\ Live' = Live /\ \A x : PageAt(x)' = PageAt(x)
  BY DEF FreeIds, Live, PageAt
<1>2. TypeOK'
  BY DEF TypeOK
<1>3. OwnedOnce'
  BY <1>1 DEF OwnedOnce
<1>4. FreeListLinked'
  BY <1>1, LinksKept DEF FreeListLinked
<1>5. ReadsWithinFile'
  BY <1>1 DEF ReadsWithinFile
<1>6. CleanIsWritten'
  BY DEF CleanIsWritten
<1>7. FileHoldsLastFlush'
  BY DEF FileHoldsLastFlush
<1>8. FlushProgress'
  BY <1>1 DEF FlushProgress
<1> QED BY <1>2, <1>3, <1>4, <1>5, <1>6, <1>7, <1>8

LEMMA FlushNumPagesKeeps == IInv /\ FlushNumPages => IInv'
BY HeaderKeeps DEF IInv, FlushNumPages, TypeOK, Header

LEMMA FlushRootIdKeeps == IInv /\ FlushRootId => IInv'
<1> SUFFICES ASSUME IInv, FlushRootId PROVE IInv'
  OBVIOUS
<1>1. pending = {} /\ header.num = num
  BY DEF IInv, FlushRootId, FlushProgress
<1> QED BY <1>1, HeaderKeeps DEF IInv, FlushRootId, TypeOK, Header

(* When the header is complete every page of the file is written: what is  *)
(* dirty by the loop of the flush, the rest by CleanIsWritten.             *)
LEMMA AllWritten ==
  ASSUME IInv, phase = "free"
  PROVE  \A id \in Live \cup FreeIds : id \in DOMAIN file /\ file[id] = PageAt(id)
BY DEF IInv, FlushProgress, CleanIsWritten, ReadsWithinFile, PageAt

LEMMA FlushFreePageKeeps == IInv /\ FlushFreePage => IInv'
<1> SUFFICES ASSUME IInv, FlushFreePage PROVE IInv'
  OBVIOUS
<1> USE DEF IInv, FlushFreePage, memory
<1>1. FreeIds' = FreeIds /\ Live' = Live /\ \A x : PageAt(x)' = PageAt(x)
  BY DEF FreeIds, Live, PageAt
<1>2. /\ held = Empty /\ taken = {} /\ pending = {} /\ DOMAIN held = {}
      /\ header'.num = num /\ header'.root = root /\ header'.free = free
      /\ header' \in Header
  BY DEF FlushProgress, TypeOK, Header, Empty
<1>3. durable'.store = Store /\ durable'.root = root /\ durable'.free = freeList
  OBVIOUS
<1>4. DOMAIN Store = Live /\ \A id \in Live : Store[id] = PageAt(id).data /\ Store[id] \in Data
  BY <1>2 DEF Store, FreeListLinked, LivePage
<1>5. Store \in [DOMAIN Store -> Data]
  BY <1>2, <1>4 DEF Store
<1>6. TypeOK'
  BY <1>2, <1>3, <1>5 DEF TypeOK
<1>7. OwnedOnce'
  BY <1>1 DEF OwnedOnce
<1>8. FreeListLinked'
  BY <1>1, LinksKept DEF FreeListLinked
<1>9. ReadsWithinFile'
  BY <1>1 DEF ReadsWithinFile
<1>10. CleanIsWritten'
  BY DEF CleanIsWritten
<1>11. FileHolds(freeList, num, Store)
  <2>1. Live \cup FreeIds = 0 .. num - 1
    BY <1>2 DEF Live, OwnedOnce
  <2>2. ASSUME NEW id \in Live PROVE file[id] = LivePage(Store[id])
    <3>1. PICK d \in Data : PageAt(id) = LivePage(d)
      BY DEF FreeListLinked
    <3>2. Store[id] = d
      BY <1>4, <3>1 DEF LivePage
    <3> QED BY <3>1, <3>2, AllWritten
  <2>3. \A i \in DOMAIN freeList :
          file[freeList[i]] = FreePage(IF i = Len(freeList) THEN Null ELSE freeList[i + 1])
    BY AllWritten DEF FreeListLinked, FreeIds, Range
  <2>4. IsInjective(freeList) /\ 0 .. num - 1 \subseteq DOMAIN file
    BY <2>1, AllWritten DEF OwnedOnce
  <2> QED BY <1>4, <2>1, <2>2, <2>3, <2>4 DEF FileHolds, FreeIds
<1>12. FileHoldsLastFlush'
  <2>1. FileHolds(durable.free, header.num, durable.store)'
    BY <1>2, <1>3, <1>11 DEF FileHolds
  <2> QED BY <2>1, <1>2, <1>3 DEF FileHoldsLastFlush, FreeListLinked
<1>13. FlushProgress'
  BY <1>2 DEF FlushProgress
<1> QED BY <1>6, <1>7, <1>8, <1>9, <1>10, <1>12, <1>13

LEMMA FlushFailKeeps == IInv /\ FlushFail => IInv'
<1> SUFFICES ASSUME IInv, FlushFail PROVE IInv'
  OBVIOUS
<1> USE DEF IInv, FlushFail, memory, aux
<1>1. /\ file' \in [DOMAIN file' -> Body] /\ DOMAIN file \subseteq DOMAIN file'
      /\ DOMAIN file' \subseteq PageId
      /\ \A x \in DOMAIN file : x \notin dirty => file'[x] = file[x]
  <2>1. CASE file' = file
    BY <2>1 DEF TypeOK
  <2>2. CASE \E id \in pending : file' = Put(file, id, LivePage(Torn))
    <3>1. PICK id \in pending : file' = Put(file, id, LivePage(Torn))
      BY <2>2
    <3>2. id \in dirty /\ id \in PageId
      BY DEF FlushProgress, TypeOK
    <3>3. file' \in [DOMAIN file' -> Body]
      BY <3>1, PageTypes, PutType DEF TypeOK
    <3>4. /\ DOMAIN file' = DOMAIN file \cup {id}
          /\ \A x \in DOMAIN file : x # id => file'[x] = file[x]
      BY <3>1 DEF Put
    <3> QED BY <3>2, <3>3, <3>4 DEF TypeOK
  <2> QED BY <2>1, <2>2
<1>2. FreeIds' = FreeIds /\ Live' = Live
  BY DEF FreeIds, Live
<1>3. \A x \in Live \cup FreeIds : PageAt(x)' = PageAt(x)
  BY <1>1 DEF PageAt, ReadsWithinFile, TypeOK
<1>4. TypeOK'
  BY <1>1 DEF TypeOK
<1>5. OwnedOnce'
  BY <1>2 DEF OwnedOnce
<1>6. FreeListLinked'
  BY <1>2, <1>3, LinksKept DEF FreeListLinked
<1>7. ReadsWithinFile'
  BY <1>1, <1>2 DEF ReadsWithinFile
<1>8. CleanIsWritten'
  BY <1>1 DEF CleanIsWritten
<1>9. FileHoldsLastFlush'
  BY DEF FileHoldsLastFlush
<1>10. FlushProgress'
  BY DEF FlushProgress
<1> QED BY <1>4, <1>5, <1>6, <1>7, <1>8, <1>9, <1>10

LEMMA ReopenKeeps == IInv /\ Reopen => IInv'
<1> SUFFICES ASSUME IInv, Reopen PROVE IInv'
  OBVIOUS
<1> USE DEF IInv, Reopen, disk
<1>1. /\ header.free = IF durable.free = << >> THEN Null ELSE Head(durable.free)
      /\ FileHolds(durable.free, header.num, durable.store)
  BY DEF FileHoldsLastFlush
<1>2. DOMAIN cache' = {} /\ DOMAIN held' = {} /\ cache' \in [{} -> Body] /\ held' \in [{} -> Data]
  BY DEF Empty
<1>3. /\ FreeIds' = Range(durable.free)
      /\ Live' = (0 .. header.num - 1) \ Range(durable.free)
      /\ Live' \subseteq DOMAIN durable.store
      /\ Live' \cup FreeIds' \subseteq DOMAIN file
      /\ FreeIds' \subseteq 0 .. header.num - 1
  BY <1>1 DEF FreeIds, Live, FileHolds
<1>4. \A x : PageAt(x)' = file[x]
  BY <1>2 DEF PageAt
<1>5. TypeOK'
  BY <1>2 DEF TypeOK, Header
<1>6. OwnedOnce'
  BY <1>1, <1>2, <1>3 DEF OwnedOnce, FileHolds
<1>7. FreeListLinked'
  <2>1. \A x \in Live' : PageAt(x)' \in {LivePage(e) : e \in Data}
    BY <1>1, <1>3, <1>4 DEF FileHolds, TypeOK
  <2>2. \A i \in DOMAIN durable.free :
          file[durable.free[i]] =
            FreePage(IF i = Len(durable.free) THEN Null ELSE durable.free[i + 1])
    BY <1>1 DEF FileHolds
  <2> QED BY <1>1, <1>4, <2>1, <2>2 DEF FreeListLinked
<1>8. ReadsWithinFile'
  BY <1>3 DEF ReadsWithinFile
<1>9. CleanIsWritten'
  BY <1>2 DEF CleanIsWritten
<1>10. FileHoldsLastFlush'
  BY FileKept
<1>11. FlushProgress'
  BY DEF FlushProgress
<1> QED BY <1>5, <1>6, <1>7, <1>8, <1>9, <1>10, <1>11

LEMMA EndTornKeeps == IInv /\ EndTorn => IInv'
<1> SUFFICES ASSUME IInv, EndTorn PROVE IInv'
  OBVIOUS
<1> USE DEF IInv, EndTorn, memory, disk, aux
<1>1. FreeIds' = FreeIds /\ Live' = Live /\ \A x : PageAt(x)' = PageAt(x)
  BY DEF FreeIds, Live, PageAt
<1>2. FreeListLinked'
  BY <1>1, LinksKept DEF FreeListLinked
<1> QED BY <1>2 DEF TypeOK, OwnedOnce, ReadsWithinFile, CleanIsWritten,
              FileHoldsLastFlush, FlushProgress

LEMMA StutterKeeps == IInv /\ UNCHANGED vars => IInv'
<1> SUFFICES ASSUME IInv, UNCHANGED vars PROVE IInv'
  OBVIOUS
<1> USE DEF IInv, vars, memory, disk, aux
<1>1. FreeIds' = FreeIds /\ Live' = Live /\ \A x : PageAt(x)' = PageAt(x)
  BY DEF FreeIds, Live, PageAt
<1>2. FreeListLinked'
  BY <1>1, LinksKept DEF FreeListLinked
<1>3. OwnedOnce' /\ ReadsWithinFile'
  BY <1>1 DEF OwnedOnce, ReadsWithinFile
<1>4. FileHoldsLastFlush' /\ FlushProgress'
  BY <1>1, FileKept DEF FlushProgress
<1> QED BY <1>2, <1>3, <1>4 DEF TypeOK, CleanIsWritten

LEMMA InitHolds == Init => IInv
<1> SUFFICES ASSUME Init PROVE IInv
  OBVIOUS
<1> USE PagerAssumption DEF Init
<1>1. /\ DOMAIN Empty = {} /\ Empty \in [{} -> Body] /\ Empty \in [{} -> Data]
      /\ FreeIds = {} /\ Live = {}
  BY DEF Empty, FreeIds, Range, Live
<1>2. TypeOK
  <2>1. 0 \in PageId /\ 0 \in 0 .. MaxPages /\ header \in Header
    BY DEF Header, PageId
  <2>2. /\ durable.store = Empty /\ durable.root = 0 /\ durable.free = << >>
        /\ << >> \in Seq(PageId)
    OBVIOUS
  <2> QED BY <1>1, <2>1, <2>2 DEF TypeOK
<1>3. IsInjective(<< >>) /\ Range(<< >>) = {}
  BY DEF IsInjective, Range
<1>4. OwnedOnce /\ FreeListLinked /\ ReadsWithinFile
  BY <1>1, <1>3 DEF OwnedOnce, FreeListLinked, ReadsWithinFile
<1>5. CleanIsWritten /\ FlushProgress
  BY <1>1 DEF CleanIsWritten, FlushProgress
<1>6. FileHoldsLastFlush
  BY <1>1, <1>3 DEF FileHoldsLastFlush, FileHolds
<1> QED BY <1>2, <1>4, <1>5, <1>6 DEF IInv

LEMMA NextKeeps == IInv /\ [Next]_vars => IInv'
<1> SUFFICES ASSUME IInv, [Next]_vars PROVE IInv'
  OBVIOUS
<1>1. ASSUME NEW id \in PageId, Load(id) \/ TakePage(id) \/ Drop(id) PROVE IInv'
  BY <1>1, LoadKeeps, TakePageKeeps, DropKeeps
<1>2. ASSUME NEW id \in PageId, NEW d \in Data, Modify(id, d) \/ GiveBack(id, d)
      PROVE  IInv'
  BY <1>2, ModifyKeeps, GiveBackKeeps
<1>3. ASSUME NEW d \in Data, NewRoot(d) \/ Register(d) PROVE IInv'
  BY <1>3, NewRootKeeps, RegisterKeeps
<1>4. ASSUME NEW id \in PageId, FlushFree(id) \/ FlushWrite(id) PROVE IInv'
  BY <1>4, FlushFreeKeeps, FlushWriteKeeps
<1>5. CASE FlushBegin
  BY <1>5, FlushBeginKeeps
<1>6. CASE FlushFreed \/ FlushNumPages
  BY <1>6, FlushFreedKeeps, FlushNumPagesKeeps
<1>7. CASE FlushRootId \/ FlushFreePage
  BY <1>7, FlushRootIdKeeps, FlushFreePageKeeps
<1>8. CASE FlushFail
  BY <1>8, FlushFailKeeps
<1>9. CASE Reopen
  BY <1>9, ReopenKeeps
<1>10. CASE EndTorn
  BY <1>10, EndTornKeeps
<1>11. CASE StayTorn \/ UNCHANGED vars
  BY <1>11, StutterKeeps DEF StayTorn
<1> QED BY <1>1, <1>2, <1>3, <1>4, <1>5, <1>6, <1>7, <1>8, <1>9, <1>10, <1>11
        DEF Next, Calls, FlushStep

(* The inductive invariant holds in every state.                           *)
THEOREM Invariance == Spec => []IInv
BY InitHolds, NextKeeps, PTL DEF Spec

-----------------------------------------------------------------------------
(* The safety properties, for every number of pages and calls.             *)

(* Type correctness.                                                       *)
THEOREM TypesAreRight == Spec => []TypeOK
BY Invariance, PTL DEF IInv

(* A page of the table is in one place: on the free list once, or taken,   *)
(* or in the cache for the tree; the assertions of free_page_list_insert() *)
(* and page() never fail.                                                  *)
THEOREM PagesAreOwnedOnce == Spec => []OwnedOnce
BY Invariance, PTL DEF IInv

(* free_page_list_pop() always finds a free page that names the next one,  *)
(* and a page of the tree is never handed out as free.                     *)
THEOREM FreeListIsLinked == Spec => []FreeListLinked
BY Invariance, PTL DEF IInv

(* page() finds what it reads in the file.                                 *)
THEOREM ReadsFindPages == Spec => []ReadsWithinFile
BY Invariance, PTL DEF IInv

(* Skipping clean pages loses no change.                                   *)
THEOREM NoChangeIsSkipped == Spec => []CleanIsWritten
BY Invariance, PTL DEF IInv

(* A program that ends between flushes finds, when it opens the table      *)
(* again, what the last completed flush saved, also after failed flushes   *)
(* in between that a later one completed.                                  *)
THEOREM LastFlushIsInFile == Spec => []FileHoldsLastFlush
BY Invariance, PTL DEF IInv

(* A flush passes by no page it has to free or to write.                   *)
THEOREM FlushPassesByNothing == Spec => []FlushProgress
BY Invariance, PTL DEF IInv

-----------------------------------------------------------------------------
(* The pager implements the page store: every step is one of its steps, or *)
(* changes nothing that can be seen of the pages.                          *)

(* A step that touches no page of the table, no root and no save is a      *)
(* stutter of the page store.                                              *)
LEMMA Stutter ==
  ASSUME Live' = Live, UNCHANGED <<held, root, durable>>,
         \A x \in Live : PageAt(x)' = PageAt(x),
         phase # "torn", phase' # "torn"
  PROVE  UNCHANGED S!vars
<1>1. Store' = Store
  BY DEF Store
<1>2. (phase' = "torn") = (phase = "torn")
  OBVIOUS
<1> QED BY <1>1, <1>2 DEF S!vars

LEMMA CallRefines == IInv /\ Calls => [S!Next]_S!vars
<1> SUFFICES ASSUME IInv, Calls PROVE [S!Next]_S!vars
  OBVIOUS
<1> USE DEF Call, disk, aux
<1>1. ASSUME NEW id \in PageId, Load(id) PROVE UNCHANGED S!vars
  <2>1. id \in Live /\ cache' = Put(cache, id, file[id]) /\ id \notin DOMAIN cache
    BY <1>1 DEF Load
  <2>2. Live' = Live /\ \A x : PageAt(x)' = PageAt(x)
    BY <1>1, <2>1 DEF Load, Live, FreeIds, PageAt, Put
  <2> QED BY <1>1, <2>2, Stutter DEF Load
<1>2. ASSUME NEW id \in PageId, TakePage(id) PROVE UNCHANGED S!vars
  <2> USE <1>2 DEF TakePage
  <2>1. /\ Live' = Live \ {id} /\ id \in Live /\ id \notin DOMAIN held
        /\ DOMAIN held' = DOMAIN held \cup {id} /\ held'[id] = PageAt(id).data
        /\ \A x \in DOMAIN held : held'[x] = held[x]
        /\ \A x \in Live' : PageAt(x)' = PageAt(x)
    BY DEF Live, FreeIds, PageAt, Put, Restrict, IInv, TypeOK
  <2>2. Store' = Store
    BY <2>1 DEF Store
  <2> QED BY <2>2 DEF S!vars
<1>3. ASSUME NEW id \in PageId, Drop(id) PROVE S!Remove(id)
  <2> USE <1>3 DEF Drop
  <2>1. /\ Live' = Live /\ id \notin Live /\ id \in DOMAIN held
        /\ \A x : PageAt(x)' = PageAt(x)
        /\ DOMAIN held' = DOMAIN held \ {id}
        /\ \A x \in DOMAIN held' : held'[x] = held[x]
    BY DEF Live, FreeIds, PageAt, Restrict, IInv, TypeOK
  <2>2. Store' = [x \in DOMAIN Store \ {id} |-> Store[x]] /\ id \in DOMAIN Store
    BY <2>1 DEF Store
  <2> QED BY <2>2 DEF S!Remove
<1>4. ASSUME NEW id \in PageId, NEW d \in Data, Modify(id, d) PROVE S!Update(id, d)
  <2> USE <1>4 DEF Modify
  <2>1. /\ Live' = Live /\ id \in Live /\ id \notin DOMAIN held
        /\ \A x : PageAt(x)' = IF x = id THEN LivePage(d) ELSE PageAt(x)
    BY DEF Live, FreeIds, PageAt, Put, IInv, TypeOK
  <2>2. Store' = [Store EXCEPT ![id] = d] /\ id \in DOMAIN Store
    BY <2>1 DEF Store, LivePage
  <2> QED BY <2>2 DEF S!Update
<1>5. ASSUME NEW id \in PageId, NEW d \in Data, GiveBack(id, d) PROVE S!Update(id, d)
  <2> USE <1>5 DEF GiveBack
  <2>1. /\ Live' = Live \cup {id} /\ id \notin Live /\ id \in DOMAIN held
        /\ \A x : PageAt(x)' = IF x = id THEN LivePage(d) ELSE PageAt(x)
        /\ DOMAIN held' = DOMAIN held \ {id}
        /\ \A x \in DOMAIN held' : held'[x] = held[x]
    BY DEF Live, FreeIds, PageAt, Put, Restrict, IInv, TypeOK, OwnedOnce
  <2>2. Store' = [Store EXCEPT ![id] = d] /\ id \in DOMAIN Store
    BY <2>1 DEF Store, LivePage
  <2> QED BY <2>2 DEF S!Update
<1>6. ASSUME NEW id \in PageId, NEW d \in Data, cache' = Put(cache, id, LivePage(d)),
             id \notin Live \cup DOMAIN held, Live' = Live \cup {id},
             root' \in {root, id}, UNCHANGED <<held, durable, phase, file>>
      PROVE  S!Add(id, d)
  <2>1. \A x : PageAt(x)' = IF x = id THEN LivePage(d) ELSE PageAt(x)
    <3>1. DOMAIN cache' = DOMAIN cache \cup {id} /\ cache'[id] = LivePage(d)
      BY <1>6 DEF Put
    <3>2. \A x \in DOMAIN cache : x # id => cache'[x] = cache[x]
      BY <1>6 DEF Put
    <3> QED BY <1>6, <3>1, <3>2 DEF PageAt
  <2>2. Store' = [x \in DOMAIN Store \cup {id} |-> IF x = id THEN d ELSE Store[x]]
    BY <1>6, <2>1 DEF Store, LivePage
  <2>3. id \notin DOMAIN Store
    BY <1>6 DEF Store
  <2> QED BY <2>2, <2>3, <1>6 DEF S!Add, S!Put
<1>7. ASSUME NEW d \in Data, Register(d) PROVE S!Next
  <2>1. num \in PageId /\ num \notin FreeIds \cup taken
    BY <1>7, PagerAssumption DEF Register, PageId, IInv, TypeOK, OwnedOnce
  <2>2. Live' = Live \cup {num} /\ num \notin Live \cup DOMAIN held
    BY <1>7, <2>1 DEF Register, Live, FreeIds, IInv, TypeOK
  <2>3. PICK id \in PageId : id = num
    BY <2>1
  <2>4. S!Add(id, d)
    BY <1>6, <1>7, <2>2, <2>3 DEF Register
  <2> QED BY <2>4 DEF S!Next
<1>8. ASSUME NEW d \in Data, NewRoot(d) PROVE S!Next
  <2>1. root' \in PageId /\ Live' = Live \cup {root'} /\ root' \notin Live \cup DOMAIN held
    BY <1>8, NewRootFacts DEF NewRoot, IInv, TypeOK
  <2>2. PICK id \in PageId : id = root'
    BY <2>1
  <2>3. S!Add(id, d)
    BY <1>6, <1>8, <2>1, <2>2 DEF NewRoot
  <2> QED BY <2>3 DEF S!Next
<1>9. ASSUME NEW id \in PageId, Drop(id) PROVE S!Next
  BY <1>3, <1>9 DEF S!Next, Drop, Store
<1> QED BY <1>1, <1>2, <1>4, <1>5, <1>7, <1>8, <1>9 DEF Calls, S!Next

LEMMA FlushRefines == IInv /\ (FlushBegin \/ FlushStep \/ FlushFail) => [S!Next]_S!vars
<1> SUFFICES ASSUME IInv, FlushBegin \/ FlushStep \/ FlushFail PROVE [S!Next]_S!vars
  OBVIOUS
<1> USE DEF memory, disk, aux
<1>1. CASE FlushBegin \/ FlushNumPages \/ FlushRootId
  <2>1. Live' = Live /\ \A x : PageAt(x)' = PageAt(x)
    BY <1>1 DEF FlushBegin, FlushNumPages, FlushRootId, Live, FreeIds, PageAt
  <2> QED BY <1>1, <2>1, Stutter DEF FlushBegin, FlushNumPages, FlushRootId
<1>2. ASSUME NEW id \in PageId, FlushFree(id) PROVE UNCHANGED S!vars
  <2>1. freeList \in Seq(PageId) /\ FreeIds' = FreeIds \cup {id} /\ id \in taken
    BY <1>2, ConsRange DEF FlushFree, FreeIds, IInv, TypeOK, FlushProgress
  <2>2. Live' = Live /\ id \notin Live
    BY <1>2, <2>1 DEF FlushFree, Live
  <2>3. \A x \in Live : PageAt(x)' = PageAt(x)
    BY <1>2, <2>2 DEF FlushFree, PageAt, Put
  <2> QED BY <1>2, <2>2, <2>3, Stutter DEF FlushFree
<1>3. CASE FlushFreed
  <2>1. taken \subseteq FreeIds
    BY <1>3 DEF FlushFreed, IInv, FlushProgress
  <2>2. Live' = Live /\ \A x : PageAt(x)' = PageAt(x)
    BY <1>3, <2>1 DEF FlushFreed, Live, FreeIds, PageAt
  <2> QED BY <1>3, <2>2, Stutter DEF FlushFreed
<1>4. ASSUME NEW id \in PageId, FlushWrite(id) PROVE UNCHANGED S!vars
  <2>1. Live' = Live /\ id \in DOMAIN cache
    BY <1>4 DEF FlushWrite, Live, FreeIds, IInv, FlushProgress, TypeOK
  <2>2. \A x \in Live : PageAt(x)' = PageAt(x)
    BY <1>4, <2>1 DEF FlushWrite, PageAt, Put, IInv, ReadsWithinFile
  <2> QED BY <1>4, <2>1, <2>2, Stutter DEF FlushWrite
<1>5. CASE FlushFreePage
  <2>1. Live' = Live /\ \A x : PageAt(x)' = PageAt(x)
    BY <1>5 DEF FlushFreePage, Live, FreeIds, PageAt
  <2>2. Store' = Store
    BY <1>5, <2>1 DEF Store, FlushFreePage
  <2>3. S!Save
    BY <1>5, <2>2 DEF S!Save, FlushFreePage
  <2> QED BY <2>3 DEF S!Next
<1>6. CASE FlushFail
  <2>1. Live' = Live
    BY <1>6 DEF FlushFail, Live, FreeIds
  <2>2. \A x \in DOMAIN file : x \notin DOMAIN cache => file'[x] = file[x]
    BY <1>6 DEF FlushFail, Put, IInv, FlushProgress, TypeOK
  <2>3. \A x \in Live : PageAt(x)' = PageAt(x)
    BY <1>6, <2>2 DEF FlushFail, PageAt, IInv, ReadsWithinFile
  <2> QED BY <1>6, <2>1, <2>3, Stutter DEF FlushFail
<1> QED BY <1>1, <1>2, <1>3, <1>4, <1>5, <1>6 DEF FlushStep

LEMMA ReopenRefines == IInv /\ Reopen => [S!Next]_S!vars
<1> SUFFICES ASSUME IInv, Reopen PROVE S!Recover
  BY DEF S!Next
<1>1. FileHolds(durable.free, header.num, durable.store) /\ header.root = durable.root
  BY DEF IInv, Reopen, FileHoldsLastFlush
<1>2. DOMAIN cache' = {} /\ DOMAIN held' = {}
  BY DEF Reopen, Empty
<1>3. \A id \in DOMAIN durable.store : file[id] = LivePage(durable.store[id])
  BY <1>1 DEF FileHolds
<1>4. ASSUME NEW id \in DOMAIN durable.store PROVE id \notin Range(durable.free)
  <2> SUFFICES ASSUME NEW i \in DOMAIN durable.free, durable.free[i] = id PROVE FALSE
    BY DEF Range
  <2>1. file[id] = FreePage(IF i = Len(durable.free) THEN Null ELSE durable.free[i + 1])
    BY <1>1 DEF FileHolds
  <2> QED BY <2>1, <1>3, PageFields
<1>5. Live' = DOMAIN durable.store
  <2>1. Live' = (0 .. header.num - 1) \ Range(durable.free)
    BY DEF Reopen, Live, FreeIds
  <2> QED BY <2>1, <1>1, <1>4 DEF FileHolds
<1>6. \A id \in Live' : PageAt(id)'.data = durable.store[id]
  <2>1. \A id : PageAt(id)' = file[id]
    BY <1>2 DEF PageAt, Reopen, disk
  <2> QED BY <2>1, <1>3, <1>5, PageFields
<1>7. Store' = [id \in DOMAIN durable.store |-> durable.store[id]]
  BY <1>2, <1>5, <1>6 DEF Store
<1>8. Store' = durable.store
  BY <1>7 DEF IInv, TypeOK
<1> QED BY <1>1, <1>8 DEF S!Recover, Reopen, disk, IInv

LEMMA EndTornRefines == EndTorn => [S!Next]_S!vars
<1> SUFFICES ASSUME EndTorn PROVE S!Lose
  BY DEF S!Next
<1> USE DEF EndTorn, memory, disk, aux
<1>1. Live' = Live /\ \A x : PageAt(x)' = PageAt(x)
  BY DEF Live, FreeIds, PageAt
<1>2. Store' = Store
  BY <1>1 DEF Store
<1> QED BY <1>2 DEF S!Lose

LEMMA InitRefines == Init => S!Init
<1> SUFFICES ASSUME Init PROVE S!Init
  OBVIOUS
<1>1. DOMAIN Empty = {} /\ Live = {}
  BY DEF Init, Empty, Live
<1>2. Store = [x \in {} |-> 0] /\ Empty = [x \in {} |-> 0]
  BY <1>1 DEF Init, Store, Empty
<1> QED BY <1>2 DEF Init, S!Init, S!NoPages

LEMMA StepRefines == IInv /\ [Next]_vars => [S!Next]_S!vars
<1> SUFFICES ASSUME IInv, [Next]_vars PROVE [S!Next]_S!vars
  OBVIOUS
<1>1. CASE Calls
  BY <1>1, CallRefines
<1>2. CASE FlushBegin \/ FlushStep \/ FlushFail
  BY <1>2, FlushRefines
<1>3. CASE Reopen
  BY <1>3, ReopenRefines
<1>4. CASE EndTorn
  BY <1>4, EndTornRefines
<1>5. CASE StayTorn \/ UNCHANGED vars
  <2> USE <1>5 DEF StayTorn, vars, memory, disk, aux
  <2>1. Live' = Live /\ \A x : PageAt(x)' = PageAt(x)
    BY DEF Live, FreeIds, PageAt
  <2>2. Store' = Store /\ UNCHANGED <<root, durable, phase>>
    BY <2>1 DEF Store
  <2> QED BY <2>2 DEF S!vars
<1> QED BY <1>1, <1>2, <1>3, <1>4, <1>5 DEF Next

(* The tree can rely on the pager as on a page store: caching, taking,     *)
(* freeing and flushing change no content, a page id handed out names no   *)
(* other page, and a restart between flushes brings back the last save.    *)
THEOREM PagerIsPageStore == Spec => ImplementsPageStore
<1>1. Init => S!Init
  BY InitRefines
<1>2. IInv /\ [Next]_vars => [S!Next]_S!vars
  BY StepRefines
<1> QED BY <1>1, <1>2, Invariance, PTL DEF Spec, ImplementsPageStore, S!Spec
=============================================================================
