------------------------------ MODULE PageStore ------------------------------
(***************************************************************************)
(* What the B+tree of a table relies on from its pager, without caching,   *)
(* free lists or files: a set of pages with a content each, the id of the  *)
(* root page, and the last state that was saved.  A page id names at most  *)
(* one page; a save is all of the store or, when the program is cut short  *)
(* in the middle of it, nothing is promised any more.                      *)
(***************************************************************************)
EXTENDS Naturals

CONSTANTS
  PageId,              \* ids a page can have
  Data                 \* contents a page can have

VARIABLES
  store,               \* content of every page the table owns
  root,                \* id of the root page
  saved,               \* store and root as of the last completed save
  lost                 \* the program was cut short during a save

vars == <<store, root, saved, lost>>

Put(f, x, v) == [y \in DOMAIN f \cup {x} |-> IF y = x THEN v ELSE f[y]]

NoPages == [id \in {} |-> 0]

Init ==
  /\ store = NoPages
  /\ root = 0
  /\ saved = [store |-> NoPages, root |-> 0]
  /\ lost = FALSE

(* A page that is added gets an id no page of the table has. *)
Add(id, d) ==
  /\ id \notin DOMAIN store
  /\ store' = Put(store, id, d)
  /\ root' \in {root, id}
  /\ UNCHANGED <<saved, lost>>

Update(id, d) ==
  /\ id \in DOMAIN store
  /\ store' = [store EXCEPT ![id] = d]
  /\ UNCHANGED <<root, saved, lost>>

Remove(id) ==
  /\ id \in DOMAIN store
  /\ store' = [x \in DOMAIN store \ {id} |-> store[x]]
  /\ UNCHANGED <<root, saved, lost>>

Save ==
  /\ saved' = [store |-> store, root |-> root]
  /\ UNCHANGED <<store, root, lost>>

Recover ==
  /\ store' = saved.store
  /\ root' = saved.root
  /\ UNCHANGED <<saved, lost>>

Lose ==
  /\ lost' = TRUE
  /\ UNCHANGED <<store, root, saved>>

Next ==
  \/ \E id \in PageId, d \in Data : Add(id, d) \/ Update(id, d)
  \/ \E id \in DOMAIN store : Remove(id)
  \/ Save \/ Recover \/ Lose

Spec == Init /\ [][Next]_vars
=============================================================================
