-------------------------------- MODULE Pager --------------------------------
(***************************************************************************)
(* The pager of one table (src/storage/pager.rs) with the file under it    *)
(* and the flush of the table (src/storage/table.rs), one step per write   *)
(* to the file.  The cache maps ids to pages and never evicts; a page is   *)
(* "taken" while the B+tree owns it; a taken page that is not registered   *)
(* back was merged away, and the next flush puts it on a linked list of    *)
(* free pages kept in the pages themselves.                                *)
(*                                                                         *)
(* The client of the pager is the B+tree of the table: it names only pages *)
(* that are in the tree and loads a page before it takes it.               *)
(***************************************************************************)
EXTENDS Naturals, Sequences, FiniteSets, Functions

CONSTANTS
  Data,        \* contents of a live page
  Blank,       \* content of a page fresh from Page::new, and of a free page
  Torn,        \* content of a page whose write failed half way
  Null,        \* NULL_NODE_ID
  MaxPages,    \* bound: pages in the file
  MaxCalls     \* bound: calls of the client from one flush, or open, to the next

ASSUME PagerAssumption ==
  /\ MaxPages \in Nat \ {0} /\ MaxCalls \in Nat
  /\ Null \notin Nat
  /\ Torn \notin Data /\ Blank # Torn

PageId == 0 .. MaxPages - 1

(* What is in a page: whether its magic number says it is free, the id in  *)
(* its next-node field when it is, and its content.                        *)
Body == [free : BOOLEAN, next : PageId \cup {Null}, data : Data \cup {Blank, Torn}]

LivePage(d) == [free |-> FALSE, next |-> Null, data |-> d]
FreePage(n) == [free |-> TRUE, next |-> n, data |-> Blank]

Header == [num : 0 .. MaxPages, root : PageId, free : PageId \cup {Null}]

VARIABLES
  cache,       \* Pager.cache: pages in memory, by id
  dirty,       \* ids of the cached pages that have is_dirty set
  taken,       \* Pager.taken
  num,         \* Pager.num_pages
  free,        \* Pager.free_page
  root,        \* Table.root_id
  held,        \* content of the taken pages the client still owns
  phase,       \* where the flush of the table stands
  pending,     \* ids the loop of the flush still has to visit
  file,        \* pages of the file, by id
  header,      \* header of the file
  partial,     \* a flush has failed and none has completed since
  freeList,    \* auxiliary: ids on the free list, first to last
  durable,     \* auxiliary: what the last completed flush saved
  calls        \* calls of the client since the last flush or open

memory == <<cache, dirty, taken, num, free, root, held>>
disk   == <<file, header>>
aux    == <<freeList, durable>>
vars   == <<memory, phase, pending, disk, partial, aux, calls>>

Put(f, x, v) == [y \in DOMAIN f \cup {x} |-> IF y = x THEN v ELSE f[y]]
Empty == [x \in {} |-> x]

FreeIds == Range(freeList)
Dropped == taken \ DOMAIN held       \* merged away since the last flush
Live    == (0 .. num - 1) \ (FreeIds \cup taken)    \* in the tree, not taken

(* The page that page(id) returns: the cached one, read from the file if   *)
(* it is not cached yet.                                                   *)
PageAt(id) == IF id \in DOMAIN cache THEN cache[id] ELSE file[id]

(* The logical content of every page of the table.                         *)
Store == [id \in Live \cup DOMAIN held |->
            IF id \in DOMAIN held THEN held[id] ELSE PageAt(id).data]

Init ==
  /\ cache = Empty /\ dirty = {} /\ taken = {} /\ num = 0 /\ free = Null
  /\ root = 0 /\ held = Empty
  /\ phase = "open" /\ pending = {}
  /\ file = Empty /\ header = [num |-> 0, root |-> 0, free |-> Null]
  /\ partial = FALSE
  /\ freeList = << >>
  /\ durable = [store |-> Empty, root |-> 0, free |-> << >>]
  /\ calls = 0

-----------------------------------------------------------------------------
(* Calls of the client.                                                    *)

Call == phase = "open" /\ calls < MaxCalls /\ calls' = calls + 1

(* page(): a cache miss reads the page from the file.                      *)
Load(id) ==
  /\ Call
  /\ id \in Live \ DOMAIN cache
  /\ cache' = Put(cache, id, file[id])
  /\ UNCHANGED <<dirty, taken, num, free, root, held, phase, pending, disk,
                 partial, aux>>

(* Mutant: a change that does not mark the page dirty.                     *)
ModifyClean(id, d) ==
  /\ Call
  /\ id \in Live
  /\ cache' = Put(cache, id, LivePage(d))
  /\ UNCHANGED <<dirty, taken, num, free, root, held, phase, pending, disk,
                 partial, aux>>

(* page_mut() and a change through it.                                     *)
Modify(id, d) ==
  /\ Call
  /\ id \in Live
  /\ cache' = Put(cache, id, LivePage(d))
  /\ dirty' = dirty \cup {id}
  /\ UNCHANGED <<taken, num, free, root, held, phase, pending, disk, partial,
                 aux>>

(* Mutant: the head of the list is not advanced past the popped page.      *)
SamePop == free

(* free_page_list_pop(): the first free page, read through page(), names   *)
(* the next one.                                                           *)
AfterPop == PageAt(free).next

(* new_page(): only the root is allocated this way, so that the table sets *)
(* root_id to the new page; allocate_page() prefers a free page.           *)
NewRoot(d) ==
  /\ Call
  /\ \/ /\ free # Null
        /\ root' = free
        /\ free' = AfterPop
        /\ freeList' = Tail(freeList)
        /\ num' = num
     \/ /\ free = Null
        /\ num < MaxPages
        /\ root' = num
        /\ num' = num + 1
        /\ UNCHANGED <<free, freeList>>
  /\ cache' = Put(cache, root', LivePage(d))
  /\ dirty' = dirty \cup {root'}
  /\ UNCHANGED <<taken, held, phase, pending, disk, partial, durable>>

(* reg_page(): a page made by a split is put behind the last page.         *)
Register(d) ==
  /\ Call
  /\ num < MaxPages
  /\ cache' = Put(cache, num, LivePage(d))
  /\ dirty' = dirty \cup {num}
  /\ num' = num + 1
  /\ UNCHANGED <<taken, free, root, held, phase, pending, disk, partial, aux>>

(* Mutant: the page is not recorded as taken.                              *)
TakeUnrecorded(id) ==
  /\ Call
  /\ id \in Live \cap DOMAIN cache
  /\ held' = Put(held, id, cache[id].data)
  /\ cache' = Restrict(cache, DOMAIN cache \ {id})
  /\ dirty' = dirty \ {id}
  /\ UNCHANGED <<taken, num, free, root, phase, pending, disk, partial, aux>>

(* take_page(): the page leaves the cache for the client.                  *)
TakePage(id) ==
  /\ Call
  /\ id \in Live \cap DOMAIN cache
  /\ held' = Put(held, id, cache[id].data)
  /\ cache' = Restrict(cache, DOMAIN cache \ {id})
  /\ dirty' = dirty \ {id}
  /\ taken' = taken \cup {id}
  /\ UNCHANGED <<num, free, root, phase, pending, disk, partial, aux>>

(* Mutant: the page stays recorded as taken.                               *)
GiveBackTaken(id, d) ==
  /\ Call
  /\ id \in DOMAIN held
  /\ cache' = Put(cache, id, LivePage(d))
  /\ dirty' = dirty \cup {id}
  /\ held' = Restrict(held, DOMAIN held \ {id})
  /\ UNCHANGED <<taken, num, free, root, phase, pending, disk, partial, aux>>

(* reg_page_with_id(): a taken page is given back, changed or not.         *)
GiveBack(id, d) ==
  /\ Call
  /\ id \in DOMAIN held
  /\ cache' = Put(cache, id, LivePage(d))
  /\ dirty' = dirty \cup {id}
  /\ taken' = taken \ {id}
  /\ held' = Restrict(held, DOMAIN held \ {id})
  /\ UNCHANGED <<num, free, root, phase, pending, disk, partial, aux>>

(* The client lets go of a taken page whose cells it merged into another;  *)
(* a page with a sibling to its left is never the root.                    *)
Drop(id) ==
  /\ Call
  /\ id \in DOMAIN held \ {root}
  /\ held' = Restrict(held, DOMAIN held \ {id})
  /\ UNCHANGED <<cache, dirty, taken, num, free, root, phase, pending, disk,
                 partial, aux>>

-----------------------------------------------------------------------------
(* flush(), of the table and of its pager: first every taken page goes on  *)
(* the free list, then every dirty page is written, then the three fields  *)
(* of the header, in the order they have in the file.  Both loops run over *)
(* a hash table, in any order.                                             *)

FlushBegin ==
  /\ phase = "open" /\ held = Empty
  /\ phase' = "freeing"
  /\ pending' = taken
  /\ UNCHANGED <<memory, disk, partial, aux, calls>>

(* Mutant: the free page is not marked dirty, so that no flush writes it.  *)
FlushFreeClean(id) ==
  /\ phase = "freeing" /\ id \in pending
  /\ pending' = pending \ {id}
  /\ cache' = Put(cache, id, FreePage(free))
  /\ free' = id
  /\ freeList' = <<id>> \o freeList
  /\ UNCHANGED <<dirty, taken, num, root, held, phase, disk, partial, durable,
                 calls>>

(* free_page_list_insert(): the page becomes the first of the list.        *)
FlushFree(id) ==
  /\ phase = "freeing" /\ id \in pending
  /\ pending' = pending \ {id}
  /\ cache' = Put(cache, id, FreePage(free))
  /\ dirty' = dirty \cup {id}
  /\ free' = id
  /\ freeList' = <<id>> \o freeList
  /\ UNCHANGED <<taken, num, root, held, phase, disk, partial, durable, calls>>

(* Mutant: the pages that are dirty because they were freed are passed by. *)
FlushFreedSkips ==
  /\ phase = "freeing" /\ pending = {}
  /\ taken' = {}
  /\ phase' = "writing"
  /\ pending' = dirty \ taken
  /\ UNCHANGED <<cache, dirty, num, free, root, held, disk, partial, aux, calls>>

(* The free pages are on the list; every dirty page has to be written.     *)
FlushFreed ==
  /\ phase = "freeing" /\ pending = {}
  /\ taken' = {}
  /\ phase' = "writing"
  /\ pending' = dirty
  /\ UNCHANGED <<cache, dirty, num, free, root, held, disk, partial, aux, calls>>

(* One dirty page is written; it stays dirty in the cache.                 *)
FlushWrite(id) ==
  /\ phase = "writing" /\ id \in pending
  /\ file' = Put(file, id, cache[id])
  /\ pending' = pending \ {id}
  /\ UNCHANGED <<memory, phase, header, partial, aux, calls>>

(* Mutant: the header is written while pages are still to be written.      *)
FlushNumPagesEarly ==
  /\ phase = "writing"
  /\ header' = [header EXCEPT !.num = num]
  /\ phase' = "root"
  /\ UNCHANGED <<memory, pending, file, partial, aux, calls>>

FlushNumPages ==
  /\ phase = "writing" /\ pending = {}
  /\ header' = [header EXCEPT !.num = num]
  /\ phase' = "root"
  /\ UNCHANGED <<memory, pending, file, partial, aux, calls>>

(* Mutant: the root id in the file is left as it was.                      *)
FlushNoRootId ==
  /\ phase = "root"
  /\ phase' = "free"
  /\ UNCHANGED <<memory, pending, disk, partial, aux, calls>>

FlushRootId ==
  /\ phase = "root"
  /\ header' = [header EXCEPT !.root = root]
  /\ phase' = "free"
  /\ UNCHANGED <<memory, pending, file, partial, aux, calls>>

FlushFreePage ==
  /\ phase = "free"
  /\ header' = [header EXCEPT !.free = free]
  /\ phase' = "open"
  /\ partial' = FALSE
  /\ durable' = [store |-> Store, root |-> root, free |-> freeList]
  /\ calls' = 0
  /\ UNCHANGED <<memory, pending, file, freeList>>

(* A seek or a write fails: the flush ends with FsErr, the page being      *)
(* written may be torn, and the program goes on with the table it has.     *)
FlushFail ==
  /\ phase \in {"writing", "root", "free"}
  /\ phase' = "open"
  /\ pending' = {}
  /\ partial' = TRUE
  /\ \/ file' = file
     \/ \E id \in pending : file' = Put(file, id, LivePage(Torn))
  /\ UNCHANGED <<memory, header, aux, calls>>

-----------------------------------------------------------------------------
(* The process ends without a flush and the table is opened again:         *)
(* try_from_src() and Pager::new() over what the file holds.               *)
Reopen ==
  /\ phase \in {"open", "freeing"} /\ ~partial
  /\ cache' = Empty /\ dirty' = {} /\ taken' = {} /\ held' = Empty
  /\ num' = header.num /\ root' = header.root /\ free' = header.free
  /\ phase' = "open" /\ pending' = {}
  /\ freeList' = durable.free
  /\ calls' = 0
  /\ UNCHANGED <<disk, partial, durable>>

(* The process ends with a flush cut short: the file mixes two states.     *)
EndTorn ==
  /\ phase \in {"writing", "root", "free"} \/ (partial /\ phase # "torn")
  /\ phase' = "torn"
  /\ UNCHANGED <<memory, pending, disk, partial, aux, calls>>

StayTorn == phase = "torn" /\ UNCHANGED vars

-----------------------------------------------------------------------------
Calls ==
  \/ \E id \in PageId : Load(id) \/ TakePage(id) \/ Drop(id)
  \/ \E id \in PageId, d \in Data : Modify(id, d) \/ GiveBack(id, d)
  \/ \E d \in Data : NewRoot(d) \/ Register(d)

FlushStep ==
  \/ \E id \in PageId : FlushFree(id) \/ FlushWrite(id)
  \/ FlushFreed \/ FlushNumPages \/ FlushRootId \/ FlushFreePage

Next ==
  \/ Calls
  \/ FlushBegin \/ FlushStep \/ FlushFail
  \/ Reopen \/ EndTorn \/ StayTorn

Spec == Init /\ [][Next]_vars

-----------------------------------------------------------------------------
(* Every variable has its type: what is dirty is cached, and what the      *)
(* client holds is recorded as taken.                                      *)
TypeOK ==
  /\ DOMAIN cache \subseteq PageId /\ cache \in [DOMAIN cache -> Body]
  /\ dirty \subseteq DOMAIN cache
  /\ taken \subseteq PageId
  /\ num \in 0 .. MaxPages
  /\ free \in PageId \cup {Null}
  /\ root \in PageId
  /\ DOMAIN held \subseteq taken /\ held \in [DOMAIN held -> Data]
  /\ phase \in {"open", "freeing", "writing", "root", "free", "torn"}
  /\ pending \subseteq PageId
  /\ DOMAIN file \subseteq PageId /\ file \in [DOMAIN file -> Body]
  /\ header \in Header
  /\ partial \in BOOLEAN
  /\ freeList \in Seq(PageId)
  /\ durable.store \in [DOMAIN durable.store -> Data]
  /\ durable.root \in PageId /\ durable.free \in Seq(PageId)

(* A page is never owned twice.  The free list has no page twice, none of  *)
(* its pages is taken, and what is taken is not in the cache as well, which *)
(* free_page_list_insert() and page() assert.                              *)
OwnedOnce ==
  phase # "torn" =>
  LET owned == IF phase = "freeing" THEN pending ELSE taken IN
  /\ IsInjective(freeList)
  /\ FreeIds \cap owned = {}
  /\ owned \cap DOMAIN cache = {}
  /\ FreeIds \cup taken \subseteq 0 .. num - 1

(* The free list in the pages is the one meant: free_page is its first id, *)
(* each page on it says it is free and names the next, through the cache or *)
(* through the file, and a page of the tree has content and is not on it.  *)
FreeListLinked ==
  /\ free = IF freeList = << >> THEN Null ELSE Head(freeList)
  /\ \A i \in DOMAIN freeList :
       PageAt(freeList[i]) =
         FreePage(IF i = Len(freeList) THEN Null ELSE freeList[i + 1])
  /\ \A id \in Live : PageAt(id) \in {LivePage(d) : d \in Data}

(* page() never reads behind the end of the file, where its read_exact()   *)
(* panics: a page that is not cached has been written.                     *)
ReadsWithinFile ==
  phase # "torn" =>
    \A id \in Live \cup FreeIds : id \in DOMAIN cache \cup DOMAIN file

(* A page that is not marked dirty is the one in the file, so that a flush *)
(* that skips it loses no change.                                          *)
CleanIsWritten ==
  \A id \in DOMAIN cache \ dirty : id \in DOMAIN file /\ cache[id] = file[id]

(* What a file with free list l and n pages holds.                         *)
FileHolds(l, n, store) ==
  /\ IsInjective(l)
  /\ DOMAIN store \cup Range(l) = 0 .. n - 1
  /\ 0 .. n - 1 \subseteq DOMAIN file
  /\ \A id \in DOMAIN store : file[id] = LivePage(store[id])
  /\ \A i \in DOMAIN l :
       file[l[i]] = FreePage(IF i = Len(l) THEN Null ELSE l[i + 1])

(* Between flushes the file holds exactly what the last completed flush    *)
(* saved, whatever failed flushes came before it: the header names its     *)
(* root and its free list, every live page has its content, and no page of *)
(* the file is neither live nor free.                                      *)
FileHoldsLastFlush ==
  phase \in {"open", "freeing"} /\ ~partial =>
    /\ header.root = durable.root
    /\ header.free = IF durable.free = << >> THEN Null ELSE Head(durable.free)
    /\ FileHolds(durable.free, header.num, durable.store)

(* While a flush runs it leaves nothing behind: what it has visited of the *)
(* taken pages is on the free list and of the dirty pages in the file, and *)
(* the header has the fields written so far.                               *)
FlushProgress ==
  /\ phase \notin {"open", "torn"} => held = Empty
  /\ phase \in {"open", "root", "free"} => pending = {}
  /\ phase = "freeing" => pending \subseteq taken /\ taken \ pending \subseteq FreeIds
  /\ phase \in {"writing", "root", "free"} =>
       /\ taken = {}
       /\ pending \subseteq dirty
       /\ \A id \in dirty \ pending : id \in DOMAIN file /\ file[id] = cache[id]
  /\ phase \in {"root", "free"} => header.num = num
  /\ phase = "free" => header.root = root

(* The pager is the page store the tree relies on: calls act on the pages  *)
(* by id, taking and flushing change no content, a completed flush saves   *)
(* all of it and a restart brings back what was saved last.                *)
S == INSTANCE PageStore WITH
       store <- Store,
       saved <- [store |-> durable.store, root |-> durable.root],
       lost  <- phase = "torn"
ImplementsPageStore == S!Spec

(* The file grows only when no page is free: "Reuse that free node when    *)
(* allocate new node whenever possible." (docs/adr/12-free-pages-          *)
(* management.md)                                                          *)
ReusesFreePages == [][num' > num => free = Null]_vars
=============================================================================
