---------------------------- MODULE SelectProofs ----------------------------
(***************************************************************************)
(* Theorems about a select, for any tables and statements: its types, that *)
(* every leaf a cursor took is back in the pager when the statement ends,  *)
(* that no page is read or taken while it is taken, and that it gives out  *)
(* the rows its text means, every one once and in order.                   *)
(***************************************************************************)
EXTENDS Select, FiniteSetTheorems, Induction, TLAPS

Cursors == [page : Nat, cell : Nat \ {0}, held : BOOLEAN, init : BOOLEAN]

Trees == [cur    : [DOMAIN db -> Cursors],
          taken  : [DOMAIN db -> SUBSET Nat],
          cached : [DOMAIN db -> SUBSET Nat],
          failed : BOOLEAN]

(* The cursor of a table and its pager: what is taken is what the cursor   *)
(* holds, and a cursor that has not begun holds nothing.                   *)
Settled(s, t) ==
  /\ s.cur[t].page \in Pages(t) \cup {Null}
  /\ s.cur[t].held => /\ s.cur[t].init
                      /\ s.cur[t].page \in Pages(t)
                      /\ s.cur[t].cell \in DOMAIN Leaves(t)[s.cur[t].page]
  /\ ~s.cur[t].held => s.cur[t].cell = 1
  /\ s.taken[t] = IF s.cur[t].held THEN {s.cur[t].page} ELSE {}
  /\ s.cached[t] \subseteq Pages(t) \ s.taken[t]

TreeOK(s) == s \in Trees /\ s.failed = FALSE /\ \A t \in DOMAIN db : Settled(s, t)

RowOf(row, t) == \E p \in Pages(t) : row \in Range(Leaves(t)[p])

(* While a statement runs, its tables are there, and a product that is     *)
(* told of no row is not the scan of the last table.  Between statements   *)
(* every cursor has let go.                                                *)
Walking ==
  /\ Range(query.from) \subseteq DOMAIN db
  /\ DOMAIN first = Places
  /\ \A i \in Places : first[i] = NoRow \/ RowOf(first[i], query.from[i])
  /\ IF none THEN at < Len(query.from) ELSE at > 0

Resting ==
  /\ first = << >> /\ at = 0 /\ retried = {}
  /\ \A t \in DOMAIN db : ~tree.cur[t].held

WalkOK ==
  /\ at \in 0 .. Len(query.from) /\ retried \subseteq Places
  /\ IF phase = "running" THEN Walking ELSE Resting

IInv ==
  /\ db \in Databases /\ query \in Queries
  /\ phase \in {"idle", "running", "panicked"}
  /\ reply \in {"none", "rows", "error", "panicked"}
  /\ TreeOK(tree) /\ WalkOK

-----------------------------------------------------------------------------
(* Pages are numbered from 1, and so are cells.                            *)
LEMMA TableFacts ==
  ASSUME db \in Databases, NEW t \in DOMAIN db
  PROVE  /\ Leaves(t) \in Seq(Seq(Nat \X Nat))
         /\ Pages(t) = 1 .. Len(Leaves(t)) /\ Null \notin Pages(t)
         /\ \A p \in Pages(t) : /\ Leaves(t)[p] \in Seq(Nat \X Nat)
                                /\ DOMAIN Leaves(t)[p] = 1 .. Len(Leaves(t)[p])
         /\ \A p \in Pages(t) : NextNode(t, p) \in Pages(t) \cup {Null}
<1>1. Leaves(t) \in Seq(Seq(Nat \X Nat))
  BY SelectAssumption DEF Leaves
<1>2. Pages(t) = 1 .. Len(Leaves(t))
  BY <1>1 DEF Pages
<1>3. \A p \in Pages(t) : Leaves(t)[p] \in Seq(Nat \X Nat)
  BY <1>1, <1>2
<1> QED BY <1>1, <1>2, <1>3 DEF Null, NextNode

LEMMA QueryFacts ==
  ASSUME query \in Queries
  PROVE  /\ query.from \in Seq(Nat) /\ Len(query.from) \in Nat \ {0}
         /\ Places = 1 .. Len(query.from) /\ DOMAIN query.from = Places
BY SelectAssumption DEF Places

(* What changes in a tree when a page comes back, when one is read, and    *)
(* when a cursor moves.                                                    *)
LEMMA ReturnFacts ==
  ASSUME NEW s \in Trees, NEW t \in DOMAIN db, NEW p \in Nat
  PROVE  LET r == ReturnPage(s, t, p)
         IN /\ r \in Trees /\ r.cur = s.cur /\ r.failed = s.failed
            /\ r.taken = [s.taken EXCEPT ![t] = @ \ {p}]
            /\ r.cached = [s.cached EXCEPT ![t] = @ \cup {p}]
BY DEF ReturnPage, Trees

LEMMA ReadFacts ==
  ASSUME NEW s \in Trees, NEW t \in DOMAIN db, NEW p, p \in Pages(t) => p \in Nat
  PROVE  LET r == ReadPage(s, t, p)
         IN /\ r \in Trees /\ r.cur = s.cur /\ r.taken = s.taken
            /\ r.failed = (s.failed \/ p \in s.taken[t])
            /\ r.cached = [s.cached EXCEPT ![t] = IF p \in Pages(t) THEN @ \cup {p} ELSE @]
<1>1. ReadPage(s, t, p).failed \in BOOLEAN
  BY DEF ReadPage, Trees
<1> QED BY <1>1 DEF ReadPage, Trees

LEMMA CursorFacts ==
  ASSUME NEW s \in Trees, NEW t \in DOMAIN db, NEW c \in Cursors
  PROVE  LET r == SetCursor(s, t, c)
         IN /\ r \in Trees /\ r.taken = s.taken /\ r.cached = s.cached
            /\ r.failed = s.failed /\ r.cur = [s.cur EXCEPT ![t] = c]
BY DEF SetCursor, Trees

(* A cursor that is behind the cells of its page, at most by one, moves    *)
(* on and gives the page back.                                             *)
LEMMA SettleFacts ==
  ASSUME db \in Databases, NEW t \in DOMAIN db, NEW s \in Trees, s.failed = FALSE,
         \A u \in DOMAIN db : u # t => Settled(s, u),
         s.cur[t].held, s.cur[t].init, s.cur[t].page \in Pages(t),
         s.taken[t] = {s.cur[t].page},
         s.cached[t] \subseteq Pages(t) \ s.taken[t]
  PROVE  TreeOK(Settle(s, t))
<1> DEFINE c == s.cur[t]
           q == ReturnPage(s, t, c.page)
           k == [c EXCEPT !.page = NextNode(t, c.page), !.cell = 1, !.held = FALSE]
           r == SetCursor(q, t, k)
<1>1. /\ Pages(t) = 1 .. Len(Leaves(t)) /\ Len(Leaves(t)) \in Nat
      /\ DOMAIN Leaves(t)[c.page] = 1 .. Len(Leaves(t)[c.page])
      /\ Len(Leaves(t)[c.page]) \in Nat
      /\ NextNode(t, c.page) \in Pages(t) \cup {Null}
  <2>1. c.page \in Pages(t)
    OBVIOUS
  <2>2. /\ Leaves(t) \in Seq(Seq(Nat \X Nat)) /\ Pages(t) = 1 .. Len(Leaves(t))
        /\ \A p \in Pages(t) : /\ Leaves(t)[p] \in Seq(Nat \X Nat)
                                /\ DOMAIN Leaves(t)[p] = 1 .. Len(Leaves(t)[p])
                                /\ NextNode(t, p) \in Pages(t) \cup {Null}
    BY TableFacts
  <2> HIDE DEF c
  <2> QED BY ONLY <2>1, <2>2
<1>2. c \in Cursors /\ c.page \in Nat /\ c.cell \in Nat \ {0}
  BY DEF Trees, Cursors
<1>3. CASE c.cell <= Len(Leaves(t)[c.page])
  <2>1. Settle(s, t) = s
    BY <1>3 DEF Settle
  <2>2. Settled(s, t)
    BY <1>1, <1>2, <1>3 DEF Settled
  <2> QED BY <2>1, <2>2 DEF TreeOK
<1>4. CASE ~ (c.cell <= Len(Leaves(t)[c.page]))
  <2>1. Settle(s, t) = r
    BY <1>4 DEF Settle
  <2>2. /\ q \in Trees /\ q.cur = s.cur /\ q.failed = FALSE
        /\ q.taken = [s.taken EXCEPT ![t] = @ \ {c.page}]
        /\ q.cached = [s.cached EXCEPT ![t] = @ \cup {c.page}]
    BY <1>2, ReturnFacts
  <2> HIDE DEF q
  <2>3. k \in Cursors /\ k.held = FALSE /\ k.cell = 1 /\ k.page = NextNode(t, c.page)
    <3> DEFINE k1 == [c EXCEPT !.page = NextNode(t, c.page)]
               k2 == [k1 EXCEPT !.cell = 1]
    <3>1. NextNode(t, c.page) \in Nat
      BY <1>1 DEF Null
    <3>2. k1 \in Cursors /\ k1.page = NextNode(t, c.page)
      BY <1>2, <3>1 DEF Cursors
    <3>3. k = [k2 EXCEPT !.held = FALSE]
      BY <2>2
    <3> HIDE DEF k1
    <3>4. k2 \in Cursors /\ k2.cell = 1 /\ k2.page = NextNode(t, c.page)
      BY <3>2 DEF Cursors
    <3> HIDE DEF k2, k
    <3> QED BY <3>3, <3>4 DEF Cursors
  <2> HIDE DEF k
  <2>4. /\ r \in Trees /\ r.taken = q.taken /\ r.cached = q.cached /\ r.failed = FALSE
        /\ r.cur = [s.cur EXCEPT ![t] = k]
    BY <2>2, <2>3, CursorFacts
  <2> HIDE DEF r
  <2>5. Settled(r, t)
    <3>1. r.cur[t] = k /\ r.taken[t] = {} /\ r.cached[t] = s.cached[t] \cup {c.page}
      BY <2>2, <2>4 DEF Trees
    <3> QED BY <1>1, <2>3, <3>1 DEF Settled
  <2>6. \A u \in DOMAIN db : u # t => Settled(r, u)
    <3>1. ASSUME NEW u \in DOMAIN db, u # t PROVE Settled(r, u)
      <4>1. /\ r.cur[u] = s.cur[u] /\ r.taken[u] = s.taken[u] /\ r.cached[u] = s.cached[u]
        BY <2>2, <2>4, <3>1 DEF Trees
      <4>2. Settled(s, u)
        BY <3>1
      <4> QED BY <4>1, <4>2 DEF Settled
    <3> QED BY <3>1
  <2> QED BY <2>1, <2>4, <2>5, <2>6 DEF TreeOK
<1> QED BY <1>3, <1>4

(* A page of a table whose cursor holds none can be read and taken, and    *)
(* the cursor set to any cell of it, or behind the last.                   *)
LEMMA HoldFacts ==
  ASSUME db \in Databases, NEW t \in DOMAIN db, NEW s \in Trees, s.failed = FALSE,
         \A u \in DOMAIN db : u # t => Settled(s, u),
         s.taken[t] = {}, s.cached[t] \subseteq Pages(t),
         NEW p \in Pages(t), NEW c \in Cursors, c.page = p, c.held, c.init
  PROVE  TreeOK(Settle(SetCursor(TakePage(ReadPage(s, t, p), t, p), t, c), t))
<1> DEFINE a == ReadPage(s, t, p)
           b == TakePage(a, t, p)
           d == SetCursor(b, t, c)
<1>1. p \in Nat
  BY TableFacts
<1>2. /\ a \in Trees /\ a.cur = s.cur /\ a.taken = s.taken /\ a.failed = FALSE
      /\ a.cached = [s.cached EXCEPT ![t] = @ \cup {p}]
  <2>1. p \notin s.taken[t]
    OBVIOUS
  <2>2. a.failed = FALSE
    BY <1>1, <2>1, ReadFacts
  <2> QED BY <1>1, <2>2, ReadFacts
<1> HIDE DEF a
<1>3. /\ b \in Trees /\ b.cur = s.cur /\ b.failed = FALSE
      /\ b.taken = [a.taken EXCEPT ![t] = @ \cup {p}]
      /\ b.cached = [a.cached EXCEPT ![t] = @ \ {p}]
  <2>1. p \in a.cached[t] /\ p \notin a.taken[t]
    BY <1>2 DEF Trees
  <2>2. a \in Trees /\ a.failed = FALSE
    BY <1>2
  <2>3. b \in Trees /\ b.cur = a.cur /\ b.failed = FALSE
    BY <1>1, <2>1, <2>2 DEF TakePage, Trees
  <2>4. /\ b.taken = [a.taken EXCEPT ![t] = @ \cup {p}]
        /\ b.cached = [a.cached EXCEPT ![t] = @ \ {p}]
    BY <1>1, <2>1, <2>2 DEF TakePage, Trees
  <2> QED BY <1>2, <2>3, <2>4
<1> HIDE DEF b
<1>4. /\ d \in Trees /\ d.taken = b.taken /\ d.cached = b.cached /\ d.failed = FALSE
      /\ d.cur = [s.cur EXCEPT ![t] = c]
  BY <1>3, CursorFacts
<1> HIDE DEF d
<1>5. /\ d.cur[t] = c /\ d.taken[t] = {p} /\ d.cached[t] \subseteq Pages(t) \ {p}
  BY <1>2, <1>3, <1>4 DEF Trees
<1>6. ASSUME NEW u \in DOMAIN db, u # t PROVE Settled(d, u)
  <2>1. /\ d.cur[u] = s.cur[u] /\ d.taken[u] = s.taken[u] /\ d.cached[u] = s.cached[u]
    BY <1>2, <1>3, <1>4, <1>6 DEF Trees
  <2>2. Settled(s, u)
    BY <1>6
  <2> QED BY <2>1, <2>2 DEF Settled
<1>7. TreeOK(Settle(d, t))
  BY <1>4, <1>5, <1>6, SettleFacts
<1> QED BY <1>7 DEF a, b, d

(* A cursor that has not begun is set to the first leaf.                   *)
LEMMA BeginFacts ==
  ASSUME db \in Databases, NEW t \in DOMAIN db, NEW s, TreeOK(s),
         s.cur[t].init \/ Pages(t) # {}
  PROVE  TreeOK(Begun(s, t)) /\ Begun(s, t).cur[t].init
<1>0. CASE s.cur[t].init
  BY <1>0 DEF Begun
<1> SUFFICES ASSUME ~s.cur[t].init, Pages(t) # {}
             PROVE  TreeOK(Begun(s, t)) /\ Begun(s, t).cur[t].init
  BY <1>0
<1> DEFINE a == ReadPage(s, t, 1)
           c == [s.cur[t] EXCEPT !.page = 1, !.init = TRUE]
           r == SetCursor(a, t, c)
           c1 == [s.cur[t] EXCEPT !.page = 1]
<1>1. /\ s \in Trees /\ s.failed = FALSE /\ s.taken[t] = {} /\ s.cached[t] \subseteq Pages(t)
      /\ s.cur[t] \in Cursors /\ s.cur[t].held = FALSE /\ s.cur[t].cell = 1
  BY DEF TreeOK, Settled, Trees, Cursors
<1>2. 1 \in Pages(t)
  BY TableFacts
<1>3. a.failed = FALSE
  BY <1>1, ReadFacts
<1>4. /\ a \in Trees /\ a.cur = s.cur /\ a.taken = s.taken
      /\ a.cached = [s.cached EXCEPT ![t] = @ \cup {1}]
  BY <1>1, <1>2, ReadFacts
<1> HIDE DEF a
<1>5. c1 \in Cursors /\ c1.page = 1 /\ c1.held = FALSE /\ c1.cell = 1
  BY <1>1 DEF Cursors
<1>6. c = [c1 EXCEPT !.init = TRUE]
  OBVIOUS
<1> HIDE DEF c, c1
<1>7. c \in Cursors /\ c.init = TRUE /\ c.page = 1 /\ c.held = FALSE /\ c.cell = 1
  BY <1>5, <1>6 DEF Cursors
<1>8. /\ r \in Trees /\ r.taken = a.taken /\ r.cached = a.cached /\ r.failed = FALSE
      /\ r.cur = [a.cur EXCEPT ![t] = c]
  BY <1>3, <1>4, <1>7, CursorFacts
<1> HIDE DEF r
<1>9. r.cur[t] = c /\ r.taken[t] = {} /\ r.cached[t] = s.cached[t] \cup {1}
  BY <1>1, <1>4, <1>8 DEF Trees
<1>10. ASSUME NEW u \in DOMAIN db PROVE Settled(r, u)
  <2>1. CASE u = t
    BY <1>1, <1>2, <1>7, <1>9, <2>1 DEF Settled
  <2>2. CASE u # t
    <3>1. /\ r.cur[u] = s.cur[u] /\ r.taken[u] = s.taken[u] /\ r.cached[u] = s.cached[u]
      BY <1>1, <1>4, <1>8, <2>2 DEF Trees
    <3>2. Settled(s, u)
      BY DEF TreeOK
    <3> QED BY <3>1, <3>2 DEF Settled
  <2> QED BY <2>1, <2>2
<1>11. TreeOK(r)
  BY <1>8, <1>10 DEF TreeOK
<1> QED BY <1>7, <1>9, <1>11 DEF r, a, c, Begun

(* The next row, from whatever state between two calls a cursor is in.     *)
LEMMA CursorNextFacts ==
  ASSUME db \in Databases, NEW t \in DOMAIN db, NEW s, TreeOK(s)
  PROVE  /\ TreeOK(CursorNext(s, t).st)
         /\ CursorNext(s, t).row = NoRow \/ RowOf(CursorNext(s, t).row, t)
<1> DEFINE a == Begun(s, t)
           c == a.cur[t]
           b == ReadPage(a, t, c.page)
           d == IF c.held THEN a ELSE TakePage(b, t, c.page)
           n == [c EXCEPT !.cell = @ + 1, !.held = TRUE]
<1>1. CursorNext(s, t) =
        IF ~s.cur[t].init /\ Pages(t) = {} THEN [st |-> s, row |-> NoRow]
        ELSE IF ~c.held /\ (c.page \notin Pages(t) \/ Leaves(t)[c.page] = << >>)
        THEN [st |-> b, row |-> NoRow]
        ELSE [st  |-> Settle(SetCursor(d, t, n), t), row |-> Leaves(t)[c.page][c.cell]]
  BY DEF CursorNext
<1>2. CASE ~s.cur[t].init /\ Pages(t) = {}
  BY <1>1, <1>2
<1>3. CASE s.cur[t].init \/ Pages(t) # {}
  <2>1. TreeOK(a) /\ c.init
    BY <1>3, BeginFacts
  <2> HIDE DEF a
  <2>2. /\ a \in Trees /\ a.failed = FALSE /\ c \in Cursors
        /\ \A u \in DOMAIN db : Settled(a, u)
        /\ c.page \in Pages(t) \cup {Null}
        /\ a.taken[t] = IF c.held THEN {c.page} ELSE {}
        /\ a.cached[t] \subseteq Pages(t) \ a.taken[t]
        /\ c.held => c.page \in Pages(t) /\ c.cell \in DOMAIN Leaves(t)[c.page]
        /\ ~c.held => c.cell = 1
    BY <2>1 DEF TreeOK, Settled, Trees
  <2>3. CASE ~c.held /\ (c.page \notin Pages(t) \/ Leaves(t)[c.page] = << >>)
    <3>1. CursorNext(s, t) = [st |-> b, row |-> NoRow]
      BY <1>1, <1>3, <2>3
    <3>2. c.page \in Nat /\ c.page \notin a.taken[t]
      BY <2>2, <2>3 DEF Cursors
    <3>3. b.failed = FALSE
      BY <2>2, <3>2, ReadFacts
    <3>4. /\ b \in Trees /\ b.cur = a.cur /\ b.taken = a.taken
          /\ b.cached = [a.cached EXCEPT ![t] = IF c.page \in Pages(t) THEN @ \cup {c.page}
                                                ELSE @]
      BY <2>2, <3>2, ReadFacts
    <3> HIDE DEF b
    <3>5. ASSUME NEW u \in DOMAIN db PROVE Settled(b, u)
      <4>1. CASE u = t
        <5>1. b.cached[t] \subseteq Pages(t)
          BY <2>2, <3>4 DEF Trees
        <5>2. b.taken[t] = {} /\ b.cur[t] = c
          BY <2>2, <2>3, <3>4
        <5> QED BY <2>2, <2>3, <4>1, <5>1, <5>2 DEF Settled
      <4>2. CASE u # t
        <5>1. b.cached[u] = a.cached[u]
          BY <2>2, <3>4, <4>2 DEF Trees
        <5>2. Settled(a, u)
          BY <2>2
        <5> QED BY <3>4, <5>1, <5>2 DEF Settled
      <4> QED BY <4>1, <4>2
    <3>6. TreeOK(b)
      BY <3>3, <3>4, <3>5 DEF TreeOK
    <3> QED BY <3>1, <3>6
  <2>4. CASE ~(~c.held /\ (c.page \notin Pages(t) \/ Leaves(t)[c.page] = << >>))
    <3>1. CursorNext(s, t) = [st  |-> Settle(SetCursor(d, t, n), t),
                              row |-> Leaves(t)[c.page][c.cell]]
      BY <1>1, <1>3, <2>4
    <3>2. n \in Cursors /\ n.page = c.page /\ n.held = TRUE /\ n.init
      <4> DEFINE n1 == [c EXCEPT !.cell = @ + 1]
      <4>1. c.cell + 1 \in Nat \ {0}
        BY <2>2 DEF Cursors
      <4>2. n1 \in Cursors /\ n1.page = c.page /\ n1.init
        BY <2>1, <2>2, <4>1 DEF Cursors
      <4>3. n = [n1 EXCEPT !.held = TRUE]
        OBVIOUS
      <4> HIDE DEF n1, n
      <4> QED BY <4>2, <4>3 DEF Cursors
    <3>3. TreeOK(Settle(SetCursor(d, t, n), t))
      <4> DEFINE r == SetCursor(d, t, n)
      <4> HIDE DEF n
      <4>1. CASE c.held
        <5>1. r = SetCursor(a, t, n)
          BY <4>1
        <5>2. /\ r \in Trees /\ r.taken = a.taken /\ r.cached = a.cached
              /\ r.failed = FALSE /\ r.cur = [a.cur EXCEPT ![t] = n]
          BY <2>2, <3>2, <5>1, CursorFacts
        <5> HIDE DEF r
        <5>3. r.cur[t] = n
          BY <5>2 DEF Trees
        <5>4. ASSUME NEW u \in DOMAIN db, u # t PROVE Settled(r, u)
          <6>1. r.cur[u] = a.cur[u]
            BY <2>2, <5>2, <5>4 DEF Trees
          <6>2. Settled(a, u)
            BY <2>2
          <6> QED BY <5>2, <6>1, <6>2 DEF Settled
        <5>5. /\ r.cur[t].held /\ r.cur[t].init /\ r.cur[t].page \in Pages(t)
              /\ r.taken[t] = {r.cur[t].page}
              /\ r.cached[t] \subseteq Pages(t) \ r.taken[t]
          BY <2>2, <3>2, <4>1, <5>2, <5>3
        <5>6. TreeOK(Settle(r, t))
          BY <5>2, <5>4, <5>5, SettleFacts
        <5> QED BY <5>6 DEF r
      <4>2. CASE ~c.held
        <5>1. r = SetCursor(TakePage(ReadPage(a, t, c.page), t, c.page), t, n)
          BY <4>2
        <5>2. c.page \in Pages(t) /\ a.taken[t] = {}
          BY <2>2, <2>4, <4>2
        <5>3. a.cached[t] \subseteq Pages(t)
          BY <2>2
        <5>4. \A u \in DOMAIN db : u # t => Settled(a, u)
          BY <2>2
        <5>5. a \in Trees /\ a.failed = FALSE
          BY <2>2
        <5>6. TreeOK(Settle(SetCursor(TakePage(ReadPage(a, t, c.page), t, c.page), t, n), t))
          BY <3>2, <5>2, <5>3, <5>4, <5>5, HoldFacts
        <5> QED BY <5>1, <5>6
      <4> QED BY <4>1, <4>2
    <3>4. RowOf(Leaves(t)[c.page][c.cell], t)
      <4>1. CASE c.held
        BY <2>2, <4>1 DEF RowOf, Range
      <4>2. CASE ~c.held
        <5>1. c.page \in Pages(t) /\ c.cell = 1 /\ Leaves(t)[c.page] # << >>
          BY <2>2, <2>4, <4>2
        <5>2. c.cell \in DOMAIN Leaves(t)[c.page]
          BY <5>1, TableFacts
        <5> QED BY <5>1, <5>2 DEF RowOf, Range
      <4> QED BY <4>1, <4>2
    <3> DEFINE w == CursorNext(s, t)
               v == Settle(SetCursor(d, t, n), t)
               z == Leaves(t)[c.page][c.cell]
    <3>5. w = [st |-> v, row |-> z]
      BY ONLY <3>1
    <3>6. TreeOK(v) /\ RowOf(z, t)
      BY ONLY <3>3, <3>4
    <3> HIDE DEF w, v, z
    <3>7. TreeOK(w.st) /\ RowOf(w.row, t)
      BY ONLY <3>5, <3>6
    <3> QED BY ONLY <3>7 DEF w
  <2> QED BY <2>3, <2>4
<1> QED BY <1>2, <1>3

(* A scan that begins at a key.                                            *)
LEMMA SeekFacts ==
  ASSUME db \in Databases, NEW t \in DOMAIN db, NEW s, TreeOK(s), ~s.cur[t].held, NEW k
  PROVE  TreeOK(Seek(s, t, k))
<1> DEFINE I == {i \in DOMAIN db[t].seps : db[t].seps[i] <= k}
           p == 1 + Cardinality(I)
           J == {i \in DOMAIN Leaves(t)[p] : Leaves(t)[p][i][1] < k}
           c == [page |-> p, cell |-> 1 + Cardinality(J), held |-> TRUE, init |-> TRUE]
<1>1. CASE Pages(t) = {}
  BY <1>1 DEF Seek
<1>2. CASE Pages(t) # {}
  <2>1. /\ Seek(s, t, k) = Settle(SetCursor(TakePage(ReadPage(s, t, p), t, p), t, c), t)
    BY <1>2 DEF Seek
  <2>2. p \in Pages(t)
    <3>1. /\ db[t].seps \in Seq(Nat) /\ Len(db[t].seps) = Len(Leaves(t)) - 1
          /\ Pages(t) = 1 .. Len(Leaves(t)) /\ Len(Leaves(t)) \in Nat
      BY <1>2, TableFacts, SelectAssumption DEF Leaves, Pages
    <3>2. DOMAIN db[t].seps = 1 .. Len(db[t].seps) /\ Len(db[t].seps) \in Nat
      BY <3>1
    <3>3. /\ IsFiniteSet(DOMAIN db[t].seps)
          /\ Cardinality(DOMAIN db[t].seps) = Len(db[t].seps)
      BY <3>2, FS_Interval
    <3>4. IsFiniteSet(I) /\ Cardinality(I) <= Len(db[t].seps)
      BY <3>3, FS_Subset
    <3>5. Cardinality(I) \in Nat
      BY <3>4, FS_CardinalityType
    <3> HIDE DEF I
    <3> QED BY <3>1, <3>2, <3>4, <3>5
  <2> HIDE DEF p
  <2>3. c \in Cursors /\ c.page = p /\ c.held /\ c.init
    <3>1. p \in Nat /\ Leaves(t)[p] \in Seq(Nat \X Nat)
      BY <2>2, TableFacts
    <3>2. IsFiniteSet(DOMAIN Leaves(t)[p])
      BY <3>1, FS_Interval
    <3>3. IsFiniteSet(J)
      BY <3>2, FS_Subset
    <3>4. Cardinality(J) \in Nat
      BY <3>3, FS_CardinalityType
    <3> HIDE DEF J
    <3> QED BY <3>1, <3>4 DEF Cursors
  <2> HIDE DEF c
  <2>4. /\ s \in Trees /\ s.failed = FALSE /\ s.taken[t] = {} /\ s.cached[t] \subseteq Pages(t)
    BY DEF TreeOK, Settled
  <2>5. \A u \in DOMAIN db : u # t => Settled(s, u)
    BY DEF TreeOK
  <2> QED BY <2>1, <2>2, <2>3, <2>4, <2>5, HoldFacts
<1> QED BY <1>1, <1>2

(* Cursors that are let go: rewound or dropped.                            *)
LEMMA LetGoFacts ==
  ASSUME db \in Databases, NEW T, NEW s, TreeOK(s)
  PROVE  /\ TreeOK(LetGo(s, T))
         /\ \A t \in DOMAIN db : t \in T => ~LetGo(s, T).cur[t].held
<1> DEFINE back(t) == IF t \in T /\ s.cur[t].held THEN {s.cur[t].page} ELSE {}
           r == LetGo(s, T)
<1>1. s \in Trees /\ NewCursor \in Cursors
  BY DEF TreeOK, NewCursor, Cursors, Null
<1>2. \A t \in DOMAIN db : back(t) \subseteq Pages(t)
  BY DEF TreeOK, Settled
<1>3. \A t \in DOMAIN db : back(t) \subseteq Nat
  BY <1>2, TableFacts
<1>4. /\ r.cached = [t \in DOMAIN db |-> s.cached[t] \cup back(t)]
      /\ r.taken = [t \in DOMAIN db |-> s.taken[t] \ back(t)]
      /\ r.cur = [t \in DOMAIN db |-> IF t \in T THEN NewCursor ELSE s.cur[t]]
      /\ r.failed = FALSE
  BY <1>1 DEF LetGo, Trees, TreeOK
<1>5. r \in Trees /\ r.failed = FALSE
  <2>1. /\ r.cached \in [DOMAIN db -> SUBSET Nat] /\ r.taken \in [DOMAIN db -> SUBSET Nat]
        /\ r.cur \in [DOMAIN db -> Cursors]
    BY <1>1, <1>3, <1>4 DEF Trees
  <2>2. r = [s EXCEPT !.cached = r.cached, !.taken = r.taken, !.cur = r.cur]
    BY <1>1, <1>4 DEF LetGo, Trees
  <2> HIDE DEF r
  <2>3. [s EXCEPT !.cached = r.cached] \in Trees
    BY <1>1, <2>1 DEF Trees
  <2>4. [s EXCEPT !.cached = r.cached, !.taken = r.taken] \in Trees
    BY <2>1, <2>3 DEF Trees
  <2>5. [s EXCEPT !.cached = r.cached, !.taken = r.taken, !.cur = r.cur] \in Trees
    BY <2>1, <2>4 DEF Trees
  <2> QED BY <1>4, <2>2, <2>5
<1> HIDE DEF r
<1>6. ASSUME NEW t \in DOMAIN db
      PROVE  Settled(r, t) /\ (t \in T => ~r.cur[t].held)
  <2>1. Settled(s, t)
    BY DEF TreeOK
  <2>2. /\ r.cached[t] = s.cached[t] \cup back(t) /\ r.taken[t] = s.taken[t] \ back(t)
        /\ r.cur[t] = IF t \in T THEN NewCursor ELSE s.cur[t]
    BY <1>4
  <2>3. CASE t \in T
    BY <1>2, <2>1, <2>2, <2>3 DEF Settled, NewCursor
  <2>4. CASE t \notin T
    BY <2>1, <2>2, <2>4 DEF Settled
  <2> QED BY <2>3, <2>4
<1>7. TreeOK(r)
  BY <1>5, <1>6 DEF TreeOK
<1> QED BY <1>6, <1>7 DEF r

-----------------------------------------------------------------------------
LEMMA InitInv == Init => IInv
<1> SUFFICES ASSUME Init PROVE IInv
  OBVIOUS
<1>1. /\ db \in Databases /\ query \in Queries
      /\ phase = "idle" /\ reply = "none"
      /\ first = << >> /\ at = 0 /\ none = FALSE /\ retried = {}
  BY DEF Init
<1>2. tree \in Trees /\ tree.failed = FALSE
  BY DEF Init, Trees, Cursors, NewCursor, Null
<1>3. ASSUME NEW t \in DOMAIN db
      PROVE  tree.cur[t] = NewCursor /\ tree.taken[t] = {} /\ tree.cached[t] = {}
  BY DEF Init
<1>4. TreeOK(tree)
  <2>1. ASSUME NEW t \in DOMAIN db PROVE Settled(tree, t)
    <3>1. /\ tree.cur[t].page = Null /\ tree.cur[t].cell = 1
          /\ tree.cur[t].held = FALSE /\ tree.cur[t].init = FALSE
      BY <1>3 DEF NewCursor
    <3> QED BY <1>3, <3>1 DEF Settled
  <2> QED BY <1>2, <2>1 DEF TreeOK
<1>5. Resting
  <2>1. ASSUME NEW t \in DOMAIN db PROVE ~tree.cur[t].held
    BY <1>3 DEF NewCursor
  <2> QED BY <1>1, <2>1 DEF Resting
<1>6. WalkOK
  BY <1>1, <1>5, QueryFacts DEF WalkOK
<1> QED BY <1>1, <1>4, <1>6 DEF IInv

(* The trees do not change, so neither does what is said of one.           *)
LEMMA TreeNext ==
  ASSUME UNCHANGED db, TreeOK(tree') PROVE TreeOK(tree)'
BY DEF TreeOK, Trees, Settled, Pages, Leaves

LEMMA EndFacts ==
  ASSUME IInv, UNCHANGED db, query' \in Queries, NEW s, TreeOK(s),
         NEW r \in {"rows", "error"}, End(s, r)
  PROVE  IInv'
<1>1. /\ tree' = LetGo(s, DOMAIN db) /\ phase' = "idle" /\ reply' = r
      /\ first' = << >> /\ at' = 0 /\ none' = FALSE /\ retried' = {}
  BY DEF End, Idle
<1>2. TreeOK(LetGo(s, DOMAIN db)) /\ \A t \in DOMAIN db : ~LetGo(s, DOMAIN db).cur[t].held
  BY LetGoFacts DEF IInv
<1>3. TreeOK(tree)'
  BY <1>1, <1>2, TreeNext
<1>4. WalkOK'
  <2>1. Len(query.from)' \in Nat
    BY SelectAssumption
  <2>2. Resting'
    BY <1>1, <1>2 DEF Resting
  <2>3. at' \in 0 .. Len(query.from)' /\ retried' \subseteq Places'
    BY <1>1, <2>1
  <2> QED BY <1>1, <2>2, <2>3 DEF WalkOK
<1> QED BY <1>1, <1>3, <1>4 DEF IInv

(* Where the scans of a statement begin.                                   *)
LEMMA ScansFacts ==
  ASSUME IInv, phase = "idle", NEW q \in Queries, Known(q.from)
  PROVE  TreeOK(Scans(q))
<1>1. TreeOK(tree) /\ \A t \in DOMAIN db : ~tree.cur[t].held
  BY DEF IInv, WalkOK, Resting
<1>2. CASE Len(q.from) = 1
  <2>1. q.from[1] \in DOMAIN db
    <3>1. 1 \in DOMAIN q.from
      BY <1>2, SelectAssumption
    <3> QED BY <3>1 DEF Known, Range
  <2>2. \A k : TreeOK(Seek(tree, q.from[1], k))
    BY <1>1, <2>1, SeekFacts DEF IInv
  <2> QED BY <1>1, <2>2 DEF Scans
<1>3. CASE Len(q.from) # 1
  BY <1>1, <1>3 DEF Scans
<1> QED BY <1>2, <1>3

LEMMA BeginInv == ASSUME IInv, NEW q \in Queries, Begin(q) PROVE IInv'
<1>1. phase = "idle" /\ UNCHANGED db /\ query' = q /\ query' \in Queries
  BY DEF Begin
<1>2. CASE ~Known(q.from) /\ End(tree, "error")
  BY <1>1, <1>2, EndFacts DEF IInv
<1>6. CASE Known(q.from) /\ ~Readable(q) /\ ~Surprises(q) /\ End(tree, "error")
  BY <1>1, <1>6, EndFacts DEF IInv
<1>3. CASE /\ Known(q.from) /\ ~Readable(q) /\ Surprises(q)
           /\ phase' = "panicked" /\ reply' = "panicked"
           /\ UNCHANGED <<tree, walk>>
  <2>1. TreeOK(tree)'
    BY <1>1, <1>3, TreeNext DEF IInv
  <2>2. WalkOK'
    <3>1. Len(query.from)' \in Nat
      BY <1>1, SelectAssumption
    <3>2. Resting
      BY <1>1 DEF IInv, WalkOK
    <3>3. Resting'
      BY <1>1, <1>3, <3>2 DEF Resting, walk
    <3>4. at' \in 0 .. Len(query.from)' /\ retried' \subseteq Places'
      BY <1>3, <3>1, <3>2 DEF Resting, walk
    <3> QED BY <1>3, <3>3, <3>4 DEF WalkOK
  <2> QED BY <1>1, <1>3, <2>1, <2>2 DEF IInv
<1>4. CASE Known(q.from) /\ Readable(q) /\ ~Builds(q) /\ End(Scans(q), "error")
  BY <1>1, <1>4, ScansFacts, EndFacts
<1>5. CASE /\ Known(q.from)
           /\ phase' = "running" /\ reply' = "none" /\ tree' = Scans(q)
           /\ first' = [i \in DOMAIN q.from |-> NoRow]
           /\ at' = 1 /\ none' = FALSE /\ retried' = {}
  <2>1. TreeOK(tree)'
    BY <1>1, <1>5, ScansFacts, TreeNext
  <2>2. Len(q.from) \in Nat \ {0} /\ DOMAIN q.from = 1 .. Len(q.from)
    BY SelectAssumption
  <2>3. Walking'
    <3>1. Places' = DOMAIN q.from /\ DOMAIN first' = Places'
      BY <1>1, <1>5, <2>2 DEF Places
    <3>2. \A i \in Places' : first'[i] = NoRow
      BY <1>5, <3>1
    <3>3. Range(query.from)' \subseteq DOMAIN db'
      BY <1>1, <1>5 DEF Known, Range
    <3> QED BY <1>5, <3>1, <3>2, <3>3 DEF Walking
  <2>4. at' \in 0 .. Len(query.from)' /\ retried' \subseteq Places'
    BY <1>1, <1>5, <2>2
  <2>5. WalkOK'
    BY <1>5, <2>3, <2>4 DEF WalkOK
  <2> QED BY <1>1, <1>5, <2>1, <2>5 DEF IInv
<1> QED BY <1>2, <1>3, <1>4, <1>5, <1>6 DEF Begin

(* The walk goes on over the same tables.                                  *)
LEMMA PullFacts ==
  ASSUME IInv, Running
  PROVE  /\ UNCHANGED <<db, query>> /\ db \in Databases /\ query \in Queries
         /\ \A i \in Places : query.from[i] \in DOMAIN db
         /\ Len(query.from) \in Nat \ {0} /\ Places = 1 .. Len(query.from)
         /\ at \in 0 .. Len(query.from) /\ retried \subseteq Places
         /\ DOMAIN first = Places
         /\ \A i \in Places : first[i] = NoRow \/ RowOf(first[i], query.from[i])
         /\ IF none THEN at < Len(query.from) ELSE at > 0
         /\ TreeOK(tree)
<1>1. DOMAIN query.from = Places
  BY QueryFacts DEF IInv
<1>2. \A i \in Places : query.from[i] \in DOMAIN db
  BY <1>1 DEF IInv, WalkOK, Walking, Running, Range
<1> QED BY <1>2, QueryFacts DEF IInv, WalkOK, Walking, Running

(* A step of the walk that leaves the invariant be.                        *)
LEMMA WalkNext ==
  ASSUME IInv, Running, UNCHANGED <<phase, reply>>, TreeOK(tree'),
         at' \in 0 .. Len(query.from), retried' \subseteq Places,
         DOMAIN first' = Places,
         \A i \in Places : first'[i] = NoRow \/ RowOf(first'[i], query.from[i]),
         IF none' THEN at' < Len(query.from) ELSE at' > 0
  PROVE  IInv'
<1>1. UNCHANGED <<db, query>> /\ phase' = "running"
  BY DEF Running
<1>2. TreeOK(tree)'
  BY <1>1, TreeNext
<1>3. Places' = Places /\ \A row, t : RowOf(row, t)' <=> RowOf(row, t)
  BY <1>1 DEF Places, RowOf, Pages, Leaves
<1>4. Walking'
  <2>1. Range(query.from)' \subseteq DOMAIN db'
    BY <1>1 DEF IInv, WalkOK, Walking, Running
  <2> QED BY <1>1, <1>3, <2>1 DEF Walking
<1>5. WalkOK'
  BY <1>1, <1>3, <1>4 DEF WalkOK
<1> QED BY <1>1, <1>2, <1>5 DEF IInv

LEMMA FirstRowInv == ASSUME IInv, FirstRow PROVE IInv'
<1> DEFINE t == query.from[at]
           r == CursorNext(tree, t)
<1>1. /\ Running /\ ~none /\ at < Len(query.from) /\ UNCHANGED <<phase, reply>>
  BY DEF FirstRow
<1>2. at \in Places /\ t \in DOMAIN db /\ at + 1 \in 0 .. Len(query.from) /\ at + 1 > 0
  BY <1>1, PullFacts
<1>3. TreeOK(r.st) /\ (r.row = NoRow \/ RowOf(r.row, t))
  BY <1>1, <1>2, PullFacts, CursorNextFacts
<1>4. CASE /\ first[at] # NoRow /\ at' = at + 1
           /\ UNCHANGED <<tree, first, none, retried>>
  BY <1>1, <1>2, <1>4, PullFacts, WalkNext
<1>5. CASE /\ first[at] = NoRow /\ r.row # NoRow
           /\ tree' = r.st /\ first' = [first EXCEPT ![at] = r.row]
           /\ at' = at + 1 /\ UNCHANGED <<none, retried>>
  <2> HIDE DEF r
  <2>1. DOMAIN first' = Places
    BY <1>1, <1>5, PullFacts
  <2>2. \A i \in Places : first'[i] = NoRow \/ RowOf(first'[i], query.from[i])
    BY <1>1, <1>3, <1>5, PullFacts
  <2>3. retried' \subseteq Places
    BY <1>1, <1>5, PullFacts
  <2> QED BY <1>1, <1>2, <1>3, <1>5, <2>1, <2>2, <2>3, WalkNext
<1>6. CASE tree' = r.st /\ NoneHere /\ UNCHANGED first
  <2> HIDE DEF r
  <2>1. /\ at' = at - 1 /\ none' = TRUE /\ retried' = retried \ {at}
    BY <1>6 DEF NoneHere
  <2>2. at' \in 0 .. Len(query.from) /\ at' < Len(query.from) /\ retried' \subseteq Places
    BY <1>1, <1>2, <2>1, PullFacts
  <2> QED BY <1>1, <1>3, <1>6, <2>1, <2>2, PullFacts, WalkNext
<1> QED BY <1>4, <1>5, <1>6 DEF FirstRow

LEMMA LastRowInv == ASSUME IInv, LastRow PROVE IInv'
<1> DEFINE t == query.from[at]
           r == CursorNext(tree, t)
<1>1. /\ Running /\ ~none /\ at = Len(query.from) /\ tree' = r.st
      /\ UNCHANGED <<phase, reply, first>>
      /\ \/ at' = 1 /\ retried' = {} /\ UNCHANGED none
         \/ NoneHere
  BY DEF LastRow
<1>2. at \in Places /\ t \in DOMAIN db
  BY <1>1, PullFacts
<1>3. TreeOK(tree')
  BY <1>1, <1>2, PullFacts, CursorNextFacts
<1> HIDE DEF r
<1>4. CASE at' = 1 /\ retried' = {} /\ UNCHANGED none
  <2>1. at' \in 0 .. Len(query.from) /\ at' > 0 /\ retried' \subseteq Places
    BY <1>1, <1>4, PullFacts
  <2> QED BY <1>1, <1>3, <1>4, <2>1, PullFacts, WalkNext
<1>5. CASE NoneHere
  <2>1. at' = at - 1 /\ none' = TRUE /\ retried' = retried \ {at}
    BY <1>5 DEF NoneHere
  <2>2. at' \in 0 .. Len(query.from) /\ at' < Len(query.from) /\ retried' \subseteq Places
    BY <1>1, <1>2, <2>1, PullFacts
  <2> QED BY <1>1, <1>3, <2>1, <2>2, PullFacts, WalkNext
<1> QED BY <1>1, <1>4, <1>5

LEMMA AdvanceInv == ASSUME IInv, Advance PROVE IInv'
<1> DEFINE t == query.from[at]
           r == CursorNext(tree, t)
           T == {query.from[i] : i \in {j \in Places : j > at}}
<1>1. Running /\ none /\ at \in Places \ retried /\ UNCHANGED <<phase, reply>>
  BY DEF Advance
<1>2. at \in Places /\ t \in DOMAIN db
  BY <1>1, PullFacts
<1>3. TreeOK(r.st) /\ (r.row = NoRow \/ RowOf(r.row, t))
  BY <1>1, <1>2, PullFacts, CursorNextFacts
<1>4. CASE /\ r.row # NoRow /\ tree' = LetGo(r.st, T) /\ first' = Rewound(r.row)
           /\ at' = at + 1 /\ none' = FALSE /\ retried' = retried \cup {at}
  <2> HIDE DEF r, T
  <2>1. TreeOK(tree')
    BY <1>1, <1>3, <1>4, PullFacts, LetGoFacts
  <2>2. DOMAIN first' = Places
    BY <1>1, <1>4, PullFacts DEF Rewound
  <2>3. \A i \in Places : first'[i] = NoRow \/ RowOf(first'[i], query.from[i])
    BY <1>1, <1>2, <1>3, <1>4, PullFacts DEF Rewound
  <2>4. at' \in 0 .. Len(query.from) /\ at' > 0 /\ retried' \subseteq Places
    BY <1>1, <1>2, <1>4, PullFacts
  <2> QED BY <1>1, <1>4, <2>1, <2>2, <2>3, <2>4, WalkNext
<1>5. CASE tree' = r.st /\ NoneHere /\ UNCHANGED first
  <2> HIDE DEF r
  <2>1. at' = at - 1 /\ none' = TRUE /\ retried' = retried \ {at}
    BY <1>5 DEF NoneHere
  <2>2. at' \in 0 .. Len(query.from) /\ at' < Len(query.from) /\ retried' \subseteq Places
    BY <1>1, <1>2, <2>1, PullFacts
  <2> QED BY <1>1, <1>3, <1>5, <2>1, <2>2, PullFacts, WalkNext
<1> QED BY <1>4, <1>5 DEF Advance

LEMMA GiveUpInv == ASSUME IInv, GiveUp PROVE IInv'
<1>1. /\ Running /\ at \in retried /\ UNCHANGED <<phase, reply, tree, first>>
      /\ at' = at - 1 /\ none' = TRUE /\ retried' = retried \ {at}
  BY DEF GiveUp, NoneHere
<1>2. at' \in 0 .. Len(query.from) /\ at' < Len(query.from) /\ retried' \subseteq Places
  BY <1>1, PullFacts
<1> QED BY <1>1, <1>2, PullFacts, WalkNext

LEMMA FinishInv == ASSUME IInv, Finish PROVE IInv'
<1>1. Running /\ End(tree, "rows")
  BY DEF Finish
<1> QED BY <1>1, PullFacts, EndFacts

LEMMA StutterInv == ASSUME IInv, UNCHANGED vars PROVE IInv'
<1>1. /\ UNCHANGED <<db, query, phase, reply, tree, first, at, none, retried>>
  BY DEF vars, walk
<1>2. TreeOK(tree)'
  BY <1>1, TreeNext DEF IInv
<1>3. WalkOK'
  BY <1>1 DEF IInv, WalkOK, Walking, Resting, Places, RowOf, Pages, Leaves, Range
<1> QED BY <1>1, <1>2, <1>3 DEF IInv

LEMMA NextInv == IInv /\ [Next]_vars => IInv'
<1> SUFFICES ASSUME IInv, [Next]_vars PROVE IInv'
  OBVIOUS
<1>1. ASSUME NEW q \in Queries, Begin(q) PROVE IInv'
  BY <1>1, BeginInv
<1>2. CASE FirstRow
  BY <1>2, FirstRowInv
<1>3. CASE LastRow
  BY <1>3, LastRowInv
<1>4. CASE Advance
  BY <1>4, AdvanceInv
<1>5. CASE GiveUp
  BY <1>5, GiveUpInv
<1>6. CASE Finish
  BY <1>6, FinishInv
<1>7. CASE StayPanicked
  BY <1>7, StutterInv DEF StayPanicked
<1>8. CASE UNCHANGED vars
  BY <1>8, StutterInv
<1> QED BY <1>1, <1>2, <1>3, <1>4, <1>5, <1>6, <1>7, <1>8 DEF Next, Pull

(* The inductive invariant holds in every state.                           *)
THEOREM SelectInvariant == Spec => []IInv
<1> QED BY InitInv, NextInv, PTL DEF Spec

-----------------------------------------------------------------------------
(* The variables of a select keep their types, the rows its products are   *)
(* at are rows of their tables, and a cursor that holds a page is at a     *)
(* cell of it (Cursor::next(), Cartesian::next()).                         *)
THEOREM SelectTypes == Spec => []TypeOK
<1>1. IInv => TypeOK
  <2> SUFFICES ASSUME IInv PROVE TypeOK
    OBVIOUS
  <2>1. \A i \in DOMAIN first : first[i] = NoRow \/ RowOf(first[i], query.from[i])
    BY DEF IInv, WalkOK, Walking, Resting
  <2>2. ASSUME NEW t \in DOMAIN db
        PROVE  /\ tree.cached[t] \subseteq Pages(t) /\ tree.taken[t] \subseteq Pages(t)
               /\ tree.cur[t].page \in Pages(t) \cup {Null}
               /\ tree.cur[t].held =>
                    tree.cur[t].cell \in DOMAIN Leaves(t)[tree.cur[t].page]
    BY DEF IInv, TreeOK, Settled
  <2> QED BY <2>1, <2>2 DEF TypeOK, IInv, WalkOK, RowOf
<1> QED BY <1>1, SelectInvariant, PTL

(* Whatever the tables and the statements, a pager misses exactly the page *)
(* its cursor holds, and none between statements: a page that a scan took  *)
(* is not lost when the scan ends, is rewound or fails (Drop for Cursor).  *)
THEOREM PagesComeBack == Spec => []TakenPagesComeBack
<1>1. IInv => TakenPagesComeBack
  <2> SUFFICES ASSUME IInv, NEW t \in DOMAIN db
               PROVE  /\ tree.taken[t] = IF tree.cur[t].held THEN {tree.cur[t].page} ELSE {}
                      /\ phase = "idle" => tree.taken[t] = {}
                      /\ tree.taken[t] \cap tree.cached[t] = {}
    BY DEF TakenPagesComeBack
  <2>1. Settled(tree, t)
    BY DEF IInv, TreeOK
  <2>2. phase = "idle" => ~tree.cur[t].held
    BY DEF IInv, WalkOK, Resting
  <2> QED BY <2>1, <2>2 DEF Settled
<1> QED BY <1>1, SelectInvariant, PTL

(* The assertions of Pager::page() and Pager::take_page() never fail in a  *)
(* select: no cursor reads or takes a page another call has taken.         *)
THEOREM PagesTakenOnce == Spec => []NoPageIsTakenTwice
<1>1. IInv => NoPageIsTakenTwice
  BY DEF IInv, TreeOK, NoPageIsTakenTwice
<1> QED BY <1>1, SelectInvariant, PTL

-----------------------------------------------------------------------------
(* What is given out.  The argument counts: at every place of the from     *)
(* list a number says how many rows of the product from there on have been *)
(* passed, and what was given out is what the first so many rows of the    *)
(* whole product give.                                                     *)

(* Sequences one after the other, the first i of them.                     *)
Flat(seqs) ==
  LET flatten[i \in 1 .. Len(seqs)] == IF i = 1 THEN seqs[i] ELSE flatten[i - 1] \o seqs[i]
  IN flatten

(* A row joined to each of some rows.                                      *)
LEMMA JoinedFacts ==
  ASSUME NEW S, NEW row \in Seq(S), NEW rows \in Seq(Seq(S))
  PROVE  /\ Joined(row, rows) \in Seq(Seq(S)) /\ Len(Joined(row, rows)) = Len(rows)
         /\ \A j \in 1 .. Len(rows) : Joined(row, rows)[j] = row \o rows[j]
<1>1. \A j \in 1 .. Len(rows) : row \o rows[j] \in Seq(S)
  <2>1. ASSUME NEW j \in 1 .. Len(rows) PROVE row \o rows[j] \in Seq(S)
    <3>1. rows[j] \in Seq(S)
      BY ElementOfSeq
    <3> QED BY <3>1, ConcatProperties
  <2> QED BY <2>1
<1>2. Len(rows) \in Nat /\ DOMAIN rows = 1 .. Len(rows)
  OBVIOUS
<1>3. Joined(row, rows) = [j \in 1 .. Len(rows) |-> row \o rows[j]]
  BY <1>2 DEF Joined
<1> QED BY <1>1, <1>2, <1>3

(* The rows of a product, one row of the first factor at a time.           *)
LEMMA TimesDef ==
  ASSUME NEW S, NEW s1 \in Seq(Seq(S)), NEW s2 \in Seq(Seq(S))
  PROVE  /\ Times(s1, s2)[0] = << >>
         /\ \A k \in 1 .. Len(s1) : Times(s1, s2)[k] = Times(s1, s2)[k - 1] \o Joined(s1[k], s2)
         /\ \A k \in 0 .. Len(s1) : Times(s1, s2)[k] \in Seq(Seq(S))
<1> DEFINE n == Len(s1)
           V == Seq(Seq(S))
           e == << >>
           g == [x \in (0 .. n) \X V |-> IF x[1] = 0 THEN e ELSE x[2] \o Joined(s1[x[1]], s2)]
           Is(f) == f = [k \in 0 .. n |-> IF k = 0 THEN e ELSE f[k - 1] \o Joined(s1[k], s2)]
<1>1. n \in Nat /\ 0 <= n /\ 0 \in Nat /\ e \in V
  OBVIOUS
<1>2. ASSUME NEW k \in 0 .. n, NEW v \in V
      PROVE  g[<<k, v>>] = (IF k = 0 THEN e ELSE v \o Joined(s1[k], s2)) /\ g[<<k, v>>] \in V
  <2>1. g[<<k, v>>] = IF k = 0 THEN e ELSE v \o Joined(s1[k], s2)
    OBVIOUS
  <2>2. CASE k # 0
    <3>1. s1[k] \in Seq(S)
      BY <1>1, <2>2, ElementOfSeq
    <3>2. Joined(s1[k], s2) \in V
      BY <3>1, JoinedFacts
    <3>3. v \o Joined(s1[k], s2) \in V
      BY <3>2, ConcatProperties
    <3> QED BY <2>1, <2>2, <3>3
  <2> HIDE DEF g
  <2> QED BY <1>1, <2>1, <2>2
<1>3. PICK f : Recurs(f, 0, n, V, e, g)
  <2>1. \A k \in 0 .. n, v \in V : g[<<k, v>>] \in V
    BY <1>2
  <2> HIDE DEF g, V, n, e
  <2> QED BY <1>1, <2>1, Recursion
<1>4. f \in [0 .. n -> V] /\ f[0] = e /\ \A k \in 0 .. n : k > 0 => f[k] = g[<<k, f[k - 1]>>]
  <2> HIDE DEF g, V, n, e
  <2> QED BY <1>3 DEF Recurs
<1>5. \A k \in 0 .. n : (k > 0 => k - 1 \in 0 .. n /\ k # 0) /\ (k # 0 => k > 0)
  BY <1>1
<1>6. \A k \in 0 .. n : f[k] = IF k = 0 THEN e ELSE f[k - 1] \o Joined(s1[k], s2)
  <2> HIDE DEF g, V, n, e
  <2>1. ASSUME NEW k \in 0 .. n, k > 0 PROVE f[k] = f[k - 1] \o Joined(s1[k], s2)
    <3>1. f[k - 1] \in V /\ k # 0 /\ f[k] = g[<<k, f[k - 1]>>]
      BY <2>1, <1>4, <1>5
    <3> QED BY <1>2, <3>1
  <2> QED BY <1>4, <1>5, <2>1
<1>7. Is(f)
  <2> HIDE DEF g, V, n, e
  <2> QED BY <1>4, <1>6
<1>8. Is(CHOOSE h : Is(h))
  <2> HIDE DEF Is
  <2> QED BY <1>7
<1>9. Is(Times(s1, s2))
  <2>1. Times(s1, s2) = CHOOSE h : Is(h)
    BY DEF Times
  <2> HIDE DEF Is
  <2> QED BY <1>8, <2>1
<1> DEFINE t == Times(s1, s2)
<1> HIDE DEF t, g
<1>10. \A k \in 0 .. n : t[k] = IF k = 0 THEN e ELSE t[k - 1] \o Joined(s1[k], s2)
  BY <1>9 DEF t
<1>11. t[0] = e /\ \A k \in 1 .. n : t[k] = t[k - 1] \o Joined(s1[k], s2)
  <2>1. 0 \in 0 .. n /\ \A k \in 1 .. n : k \in 0 .. n /\ k # 0
    BY <1>1
  <2> HIDE DEF n, e
  <2> QED BY <1>10, <2>1
<1>12. \A k \in 0 .. n : t[k] \in V
  <2> DEFINE W == {k \in 0 .. n : t[k] \in V}
  <2> HIDE DEF V, e, n
  <2>1. 0 \in W
    BY <1>1, <1>11
  <2>2. ASSUME NEW k \in 0 .. n, k > 0, k - 1 \in W PROVE k \in W
    <3>1. t[k - 1] \in V /\ k # 0
      BY <1>5, <2>2
    <3>2. t[k] = g[<<k, t[k - 1]>>] /\ g[<<k, t[k - 1]>>] \in V
      BY <1>2, <1>10, <3>1
    <3> QED BY <3>2
  <2>3. \A k \in 0 .. n : k \in W
    <3> HIDE DEF W
    <3> QED BY <1>1, <2>1, <2>2, StepInduction
  <2> QED BY <2>3
<1> QED BY <1>11, <1>12 DEF t

(* Sequences one after the other: the values FlattenSeq() goes through.     *)
LEMMA FlatDef ==
  ASSUME NEW S, NEW s \in Seq(Seq(S)), s # << >>
  PROVE  /\ Flat(s)[1] = s[1]
         /\ \A k \in 2 .. Len(s) : Flat(s)[k] = Flat(s)[k - 1] \o s[k]
         /\ \A k \in 1 .. Len(s) : Flat(s)[k] \in Seq(S)
<1> DEFINE n == Len(s)
           V == Seq(S)
           e == s[1]
           g == [x \in (1 .. n) \X V |-> IF x[1] = 1 THEN e ELSE x[2] \o s[x[1]]]
           Is(f) == f = [k \in 1 .. n |-> IF k = 1 THEN e ELSE f[k - 1] \o s[k]]
<1>1. n \in Nat /\ 1 <= n /\ 1 \in Nat /\ e \in V
  BY ElementOfSeq
<1>2. ASSUME NEW k \in 1 .. n, NEW v \in V
      PROVE  g[<<k, v>>] = (IF k = 1 THEN e ELSE v \o s[k]) /\ g[<<k, v>>] \in V
  <2>1. g[<<k, v>>] = IF k = 1 THEN e ELSE v \o s[k]
    OBVIOUS
  <2>2. CASE k # 1
    <3>1. s[k] \in Seq(S)
      BY <1>1, <2>2, ElementOfSeq
    <3>2. v \o s[k] \in V
      BY <3>1, ConcatProperties
    <3> QED BY <2>1, <2>2, <3>2
  <2> HIDE DEF g
  <2> QED BY <1>1, <2>1, <2>2
<1>3. PICK f : Recurs(f, 1, n, V, e, g)
  <2>1. \A k \in 1 .. n, v \in V : g[<<k, v>>] \in V
    BY <1>2
  <2> HIDE DEF g, V, n, e
  <2> QED BY <1>1, <2>1, Recursion
<1>4. f \in [1 .. n -> V] /\ f[1] = e /\ \A k \in 1 .. n : k > 1 => f[k] = g[<<k, f[k - 1]>>]
  <2> HIDE DEF g, V, n, e
  <2> QED BY <1>3 DEF Recurs
<1>5. \A k \in 1 .. n : (k > 1 => k - 1 \in 1 .. n /\ k # 1) /\ (k # 1 => k > 1)
  BY <1>1
<1>6. \A k \in 1 .. n : f[k] = IF k = 1 THEN e ELSE f[k - 1] \o s[k]
  <2> HIDE DEF g, V, n, e
  <2>1. ASSUME NEW k \in 1 .. n, k > 1 PROVE f[k] = f[k - 1] \o s[k]
    <3>1. f[k - 1] \in V /\ k # 1 /\ f[k] = g[<<k, f[k - 1]>>]
      BY <2>1, <1>4, <1>5
    <3> QED BY <1>2, <3>1
  <2> QED BY <1>4, <1>5, <2>1
<1>7. Is(f)
  <2> HIDE DEF g, V, n, e
  <2> QED BY <1>4, <1>6
<1>8. Is(CHOOSE h : Is(h))
  <2> HIDE DEF Is
  <2> QED BY <1>7
<1>9. Is(Flat(s))
  <2>1. Flat(s) = CHOOSE h : Is(h)
    BY DEF Flat
  <2> HIDE DEF Is
  <2> QED BY <1>8, <2>1
<1> DEFINE t == Flat(s)
<1> HIDE DEF t, g
<1>10. \A k \in 1 .. n : t[k] = IF k = 1 THEN e ELSE t[k - 1] \o s[k]
  BY <1>9 DEF t
<1>11. t[1] = e /\ \A k \in 2 .. n : t[k] = t[k - 1] \o s[k]
  <2>1. 1 \in 1 .. n /\ \A k \in 2 .. n : k \in 1 .. n /\ k # 1
    BY <1>1
  <2> HIDE DEF n, e
  <2> QED BY <1>10, <2>1
<1>12. \A k \in 1 .. n : t[k] \in V
  <2> DEFINE W == {k \in 1 .. n : t[k] \in V}
  <2> HIDE DEF V, e, n
  <2>1. 1 \in W
    BY <1>1, <1>11
  <2>2. ASSUME NEW k \in 1 .. n, k > 1, k - 1 \in W PROVE k \in W
    <3>1. t[k - 1] \in V /\ k # 1
      BY <1>5, <2>2
    <3>2. t[k] = g[<<k, t[k - 1]>>] /\ g[<<k, t[k - 1]>>] \in V
      BY <1>2, <1>10, <3>1
    <3> QED BY <3>2
  <2>3. \A k \in 1 .. n : k \in W
    <3> HIDE DEF W
    <3> QED BY <1>1, <2>1, <2>2, StepInduction
  <2> QED BY <2>3
<1> QED BY <1>11, <1>12 DEF t

(* What the first of some rows give.                                       *)
LEMMA GivenDef ==
  ASSUME NEW q, NEW rows, Len(rows) \in Nat
  PROVE  /\ Given(rows, q)[0] = << >>
         /\ \A k \in 1 .. Len(rows) : Given(rows, q)[k] = Adding(Given(rows, q)[k - 1], rows[k], q)
         /\ \A k \in 0 .. Len(rows) :
              Given(rows, q)[k] \in Seq({Projected(rows[i], q) : i \in 1 .. Len(rows)})
<1> DEFINE n == Len(rows)
           V == Seq({Projected(rows[i], q) : i \in 1 .. Len(rows)})
           e == << >>
           g == [x \in (0 .. n) \X V |-> IF x[1] = 0 THEN e ELSE Adding(x[2], rows[x[1]], q)]
           Is(f) == f = [k \in 0 .. n |-> IF k = 0 THEN e ELSE Adding(f[k - 1], rows[k], q)]
<1>1. n \in Nat /\ 0 <= n /\ 0 \in Nat /\ e \in V
  OBVIOUS
<1>2. ASSUME NEW k \in 0 .. n, NEW v \in V
      PROVE  g[<<k, v>>] = (IF k = 0 THEN e ELSE Adding(v, rows[k], q)) /\ g[<<k, v>>] \in V
  <2>1. g[<<k, v>>] = IF k = 0 THEN e ELSE Adding(v, rows[k], q)
    OBVIOUS
  <2>2. CASE k # 0
    <3>1. k \in 1 .. n
      BY <1>1, <2>2
    <3>2. Append(v, Projected(rows[k], q)) \in V
      BY <3>1
    <3> QED BY <2>1, <2>2, <3>2 DEF Adding
  <2> HIDE DEF g
  <2> QED BY <1>1, <2>1, <2>2
<1>3. PICK f : Recurs(f, 0, n, V, e, g)
  <2>1. \A k \in 0 .. n, v \in V : g[<<k, v>>] \in V
    BY <1>2
  <2> HIDE DEF g, V, n, e
  <2> QED BY <1>1, <2>1, Recursion
<1>4. f \in [0 .. n -> V] /\ f[0] = e /\ \A k \in 0 .. n : k > 0 => f[k] = g[<<k, f[k - 1]>>]
  <2> HIDE DEF g, V, n, e
  <2> QED BY <1>3 DEF Recurs
<1>5. \A k \in 0 .. n : (k > 0 => k - 1 \in 0 .. n /\ k # 0) /\ (k # 0 => k > 0)
  BY <1>1
<1>6. \A k \in 0 .. n : f[k] = IF k = 0 THEN e ELSE Adding(f[k - 1], rows[k], q)
  <2> HIDE DEF g, V, n, e
  <2>1. ASSUME NEW k \in 0 .. n, k > 0 PROVE f[k] = Adding(f[k - 1], rows[k], q)
    <3>1. f[k - 1] \in V /\ k # 0 /\ f[k] = g[<<k, f[k - 1]>>]
      BY <2>1, <1>4, <1>5
    <3> QED BY <1>2, <3>1
  <2> QED BY <1>4, <1>5, <2>1
<1>7. Is(f)
  <2> HIDE DEF g, V, n, e
  <2> QED BY <1>4, <1>6
<1>8. Is(CHOOSE h : Is(h))
  <2> HIDE DEF Is
  <2> QED BY <1>7
<1>9. Is(Given(rows, q))
  <2>1. Given(rows, q) = CHOOSE h : Is(h)
    BY DEF Given
  <2> HIDE DEF Is
  <2> QED BY <1>8, <2>1
<1> DEFINE t == Given(rows, q)
<1> HIDE DEF t, g
<1>10. \A k \in 0 .. n : t[k] = IF k = 0 THEN e ELSE Adding(t[k - 1], rows[k], q)
  BY <1>9 DEF t
<1>11. t[0] = e /\ \A k \in 1 .. n : t[k] = Adding(t[k - 1], rows[k], q)
  <2>1. 0 \in 0 .. n /\ \A k \in 1 .. n : k \in 0 .. n /\ k # 0
    BY <1>1
  <2> HIDE DEF n, e
  <2> QED BY <1>10, <2>1
<1>12. \A k \in 0 .. n : t[k] \in V
  <2> DEFINE W == {k \in 0 .. n : t[k] \in V}
  <2> HIDE DEF V, e, n
  <2>1. 0 \in W
    BY <1>1, <1>11
  <2>2. ASSUME NEW k \in 0 .. n, k > 0, k - 1 \in W PROVE k \in W
    <3>1. t[k - 1] \in V /\ k # 0
      BY <1>5, <2>2
    <3>2. t[k] = g[<<k, t[k - 1]>>] /\ g[<<k, t[k - 1]>>] \in V
      BY <1>2, <1>10, <3>1
    <3> QED BY <3>2
  <2>3. \A k \in 0 .. n : k \in W
    <3> HIDE DEF W
    <3> QED BY <1>1, <2>1, <2>2, StepInduction
  <2> QED BY <2>3
<1> QED BY <1>11, <1>12 DEF t

(* A row of a table is a sequence of two numbers.                          *)
LEMMA PairFacts == ASSUME NEW r \in Nat \X Nat PROVE r \in Seq(Nat) /\ r # NoRow /\ Len(r) = 2
<1>1. r = <<r[1], r[2]>> /\ r[1] \in Nat /\ r[2] \in Nat
  OBVIOUS
<1>2. <<r[1], r[2]>> \in Seq(Nat) /\ <<r[1], r[2]>> # << >> /\ Len(<<r[1], r[2]>>) = 2
  BY <1>1
<1> QED BY <1>1, <1>2 DEF NoRow

(* FlattenSeq() puts sequences one after the other.                        *)
LEMMA FlattenIsFlat ==
  ASSUME NEW S, NEW s \in Seq(Seq(S)), s # << >>
  PROVE  FlattenSeq(s) = Flat(s)[Len(s)]
<1>1. Len(s) # 0
  OBVIOUS
<1> QED BY <1>1 DEF FlattenSeq, Flat

(* The rows of a table are sequences of numbers.                           *)
LEMMA RowsFacts ==
  ASSUME db \in Databases, NEW t \in DOMAIN db
  PROVE  /\ RowsOf(t) \in Seq(Nat \X Nat) /\ RowsOf(t) \in Seq(Seq(Nat))
         /\ Len(RowsOf(t)) \in Nat
         /\ \A j \in 1 .. Len(RowsOf(t)) : RowsOf(t)[j] \in Seq(Nat) /\ RowsOf(t)[j] # NoRow
<1>1. Leaves(t) \in Seq(Seq(Nat \X Nat))
  BY TableFacts
<1>2. RowsOf(t) \in Seq(Nat \X Nat)
  <2>1. CASE Leaves(t) = << >>
    <3>1. RowsOf(t) = << >>
      BY <2>1 DEF RowsOf, FlattenSeq
    <3> QED BY <3>1
  <2>2. CASE Leaves(t) # << >>
    <3>1. \A k \in 1 .. Len(Leaves(t)) : Flat(Leaves(t))[k] \in Seq(Nat \X Nat)
      BY <1>1, <2>2, FlatDef
    <3>2. Len(Leaves(t)) \in 1 .. Len(Leaves(t))
      BY <1>1, <2>2
    <3>3. RowsOf(t) = Flat(Leaves(t))[Len(Leaves(t))]
      BY <1>1, <2>2, FlattenIsFlat DEF RowsOf
    <3> QED BY <3>1, <3>2, <3>3
  <2> QED BY <2>1, <2>2
<1>3. \A j \in 1 .. Len(RowsOf(t)) : RowsOf(t)[j] \in Nat \X Nat
  BY <1>2, ElementOfSeq
<1>4. \A j \in 1 .. Len(RowsOf(t)) : RowsOf(t)[j] \in Seq(Nat) /\ RowsOf(t)[j] # NoRow
  BY <1>3, PairFacts
<1> DEFINE R == RowsOf(t)
<1> HIDE DEF R
<1>5. R \in Seq(Seq(Nat))
  <2>1. R \in Seq(Nat \X Nat) /\ \A j \in 1 .. Len(R) : R[j] \in Seq(Nat)
    BY <1>2, <1>4 DEF R
  <2>2. Len(R) \in Nat /\ R = [j \in 1 .. Len(R) |-> R[j]]
    BY <2>1
  <2>3. R \in [1 .. Len(R) -> Seq(Nat)]
    <3> DEFINE V == Seq(Nat)
    <3> HIDE DEF V
    <3> QED BY <2>1, <2>2 DEF V
  <2> DEFINE V == Seq(Nat)
  <2> HIDE DEF V
  <2>4. R \in Seq(V)
    BY <2>2, <2>3 DEF V
  <2> QED BY <2>4 DEF V
<1> QED BY <1>2, <1>4, <1>5 DEF R

(* The product of the tables of a statement from one on: its rows are      *)
(* sequences of numbers.                                                   *)
LEMMA ProductDef ==
  ASSUME db \in Databases, NEW from \in Seq(Nat), from # << >>,
         \A i \in 1 .. Len(from) : from[i] \in DOMAIN db
  PROVE  /\ Product(from)[Len(from)] = RowsOf(from[Len(from)])
         /\ \A i \in 1 .. Len(from) - 1 :
              Product(from)[i] =
                Times(RowsOf(from[i]), Product(from)[i + 1])[Len(RowsOf(from[i]))]
         /\ \A i \in 1 .. Len(from) : Product(from)[i] \in Seq(Seq(Nat))
<1> DEFINE n == Len(from)
           V == Seq(Seq(Nat))
           here(i) == RowsOf(from[i])
           e == here(n)
           g == [x \in (1 .. n) \X V |-> Times(here(x[1]), x[2])[Len(here(x[1]))]]
           Is(f) == f = [i \in 1 .. n |-> IF i = n THEN here(i)
                                         ELSE Times(here(i), f[i + 1])[Len(here(i))]]
<1>1. n \in Nat \ {0} /\ n \in 1 .. n /\ \A i \in 1 .. n : here(i) \in V /\ Len(here(i)) \in Nat
  <2>1. n \in Nat \ {0} /\ n \in 1 .. n
    OBVIOUS
  <2>2. ASSUME NEW i \in 1 .. n PROVE here(i) \in V /\ Len(here(i)) \in Nat
    <3>1. from[i] \in DOMAIN db
      OBVIOUS
    <3> QED BY <3>1, RowsFacts
  <2> QED BY <2>1, <2>2
<1>2. ASSUME NEW i \in 1 .. n, NEW v \in V
      PROVE  g[<<i, v>>] = Times(here(i), v)[Len(here(i))] /\ g[<<i, v>>] \in V
  <2>1. g[<<i, v>>] = Times(here(i), v)[Len(here(i))]
    OBVIOUS
  <2> DEFINE r == here(i)
  <2>2. r \in Seq(Seq(Nat)) /\ v \in Seq(Seq(Nat)) /\ Len(r) \in 0 .. Len(r)
    BY <1>1
  <2> HIDE DEF r, g
  <2>3. Times(r, v)[Len(r)] \in Seq(Seq(Nat))
    BY <2>2, TimesDef
  <2> QED BY <2>1, <2>3 DEF r
<1> HIDE DEF g
<1>3. PICK f : RecursDown(f, n, V, e, g)
  <2>1. \A i \in 1 .. n, v \in V : g[<<i, v>>] \in V
    BY <1>2
  <2>2. e \in V
    BY <1>1
  <2> HIDE DEF V, n, e
  <2> QED BY <1>1, <2>1, <2>2, RecursionDown
<1>4. f \in [1 .. n -> V] /\ f[n] = e /\ \A i \in 1 .. n - 1 : f[i] = g[<<i, f[i + 1]>>]
  <2> HIDE DEF V, n, e
  <2> QED BY <1>3 DEF RecursDown
<1>5. /\ \A i \in 1 .. n : i # n => i \in 1 .. n - 1 /\ i + 1 \in 1 .. n
      /\ \A i \in 1 .. n - 1 : i \in 1 .. n /\ i # n
  BY <1>1
<1>6. Is(f)
  <2>1. ASSUME NEW i \in 1 .. n, i # n PROVE f[i] = Times(here(i), f[i + 1])[Len(here(i))]
    <3>1. f[i + 1] \in V /\ f[i] = g[<<i, f[i + 1]>>]
      <4> HIDE DEF V, n, here
      <4> QED BY <1>4, <1>5, <2>1
    <3> HIDE DEF V, n, here
    <3> QED BY <1>2, <3>1
  <2>2. \A i \in 1 .. n : f[i] = IF i = n THEN here(i) ELSE Times(here(i), f[i + 1])[Len(here(i))]
    <3> HIDE DEF V, n, here
    <3> QED BY <1>4, <2>1 DEF e
  <2> HIDE DEF V, n, here, e
  <2> QED BY <1>4, <2>2
<1>7. Is(CHOOSE h : Is(h))
  <2> HIDE DEF Is
  <2> QED BY <1>6
<1>8. Is(Product(from))
  <2>1. Product(from) = CHOOSE h : Is(h)
    BY DEF Product
  <2> HIDE DEF Is
  <2> QED BY <1>7, <2>1
<1> DEFINE p == Product(from)
<1> HIDE DEF p
<1>9. \A i \in 1 .. n : p[i] = IF i = n THEN here(i) ELSE Times(here(i), p[i + 1])[Len(here(i))]
  BY <1>8 DEF p
<1>10. p[n] = e /\ \A i \in 1 .. n - 1 : p[i] = Times(here(i), p[i + 1])[Len(here(i))]
  <2> HIDE DEF n, here
  <2> QED BY <1>1, <1>5, <1>9 DEF e
<1>11. \A i \in 1 .. n : p[i] \in V
  <2> DEFINE W == {i \in 1 .. n : p[i] \in V}
  <2> HIDE DEF V, n, here
  <2>1. n \in W
    BY <1>1, <1>10 DEF e
  <2>2. ASSUME NEW i \in 1 .. n - 1, i + 1 \in W PROVE i \in W
    <3>1. p[i + 1] \in V /\ i \in 1 .. n
      BY <1>5, <2>2
    <3>2. p[i] = g[<<i, p[i + 1]>>] /\ g[<<i, p[i + 1]>>] \in V
      BY <1>2, <1>10, <3>1
    <3> QED BY <3>1, <3>2
  <2>3. \A i \in 1 .. n : i \in W
    <3> HIDE DEF W
    <3> QED BY <1>1, <2>1, <2>2, DownInduction
  <2> QED BY <2>3
<1> QED BY <1>10, <1>11 DEF p

-----------------------------------------------------------------------------
(* Two sequences one after the other.                                      *)
LEMMA CatLen ==
  ASSUME NEW S, NEW s \in Seq(S), NEW u \in Seq(S)
  PROVE  Len(s \o u) = Len(s) + Len(u)
OBVIOUS

(* What the first of two sequences has stays in its place.                 *)
LEMMA CatFront ==
  ASSUME NEW S, NEW s \in Seq(S), NEW u \in Seq(S), NEW j \in 1 .. Len(s)
  PROVE  (s \o u)[j] = s[j]
OBVIOUS

(* What the second has stands behind the first.                            *)
LEMMA CatBehind ==
  ASSUME NEW S, NEW s \in Seq(S), NEW u \in Seq(S), NEW j \in 1 .. Len(u)
  PROVE  (s \o u)[Len(s) + j] = u[j]
BY ConcatProperties

(* Products grow, and where their rows are.                                *)
LEMMA TimesGrow ==
  ASSUME NEW S, NEW s1 \in Seq(Seq(S)), NEW s2 \in Seq(Seq(S))
  PROVE  Growing(Times(s1, s2), 0, Len(s1), Seq(S))
<1>1. /\ \A k \in 0 .. Len(s1) : Times(s1, s2)[k] \in Seq(Seq(S))
      /\ \A k \in 1 .. Len(s1) : Times(s1, s2)[k] = Times(s1, s2)[k - 1] \o Joined(s1[k], s2)
  BY TimesDef
<1>2. ASSUME NEW k \in 0 .. Len(s1), k > 0
      PROVE  \E u \in Seq(Seq(S)) : Times(s1, s2)[k] = Times(s1, s2)[k - 1] \o u
  <2>1. k \in 1 .. Len(s1)
    BY <1>2
  <2>2. s1[k] \in Seq(S)
    BY <2>1, ElementOfSeq
  <2>3. Joined(s1[k], s2) \in Seq(Seq(S))
    BY <2>2, JoinedFacts
  <2> QED BY <1>1, <2>1, <2>3
<1> QED BY <1>1, <1>2 DEF Growing

(* The next row of the first factor gives as many rows as the second has.  *)
LEMMA TimesLen ==
  ASSUME NEW S, NEW s1 \in Seq(Seq(S)), NEW s2 \in Seq(Seq(S)), NEW i \in 1 .. Len(s1)
  PROVE  /\ Len(Times(s1, s2)[i]) = Len(Times(s1, s2)[i - 1]) + Len(s2)
         /\ Len(Times(s1, s2)[i - 1]) \in Nat /\ Len(Times(s1, s2)[i]) \in Nat
         /\ Len(Times(s1, s2)[i]) <= Len(Times(s1, s2)[Len(s1)])
         /\ Len(Times(s1, s2)[Len(s1)]) \in Nat
<1> DEFINE t == Times(s1, s2)
           u == Joined(s1[i], s2)
<1>1. /\ s1[i] \in Seq(S) /\ i - 1 \in 0 .. Len(s1) /\ i \in 0 .. Len(s1)
      /\ Len(s1) \in 0 .. Len(s1) /\ i <= Len(s1)
      /\ Len(s1) \in Nat /\ 0 \in Nat
  BY ElementOfSeq
<1>2. u \in Seq(Seq(S)) /\ Len(u) = Len(s2)
  BY <1>1, JoinedFacts
<1>3. /\ t[i] = t[i - 1] \o u /\ t[i - 1] \in Seq(Seq(S))
      /\ t[i] \in Seq(Seq(S)) /\ t[Len(s1)] \in Seq(Seq(S))
  BY <1>1, TimesDef
<1>4. Growing(t, 0, Len(s1), Seq(S))
  BY TimesGrow
<1> HIDE DEF t, u
<1>5. Len(t[i]) = Len(t[i - 1]) + Len(s2)
  BY <1>2, <1>3, CatLen
<1>6. Len(t[i]) <= Len(t[Len(s1)])
  BY <1>1, <1>4, GrowingLen
<1>7. Len(t[i - 1]) \in Nat /\ Len(t[i]) \in Nat /\ Len(t[Len(s1)]) \in Nat
  BY <1>3, LenProperties
<1> QED BY <1>5, <1>6, <1>7 DEF t

(* The row of a product at a row of each factor (kept as a predicate, for  *)
(* the provers).                                                           *)
JoinsAt(s1, s2, i, j) ==
  Times(s1, s2)[Len(s1)][Len(Times(s1, s2)[i - 1]) + j] = s1[i] \o s2[j]

(* The rows that begin with the i-th of the first factor, in the order of  *)
(* the second.                                                             *)
LEMMA TimesAt ==
  ASSUME NEW S, NEW s1 \in Seq(Seq(S)), NEW s2 \in Seq(Seq(S)),
         NEW i \in 1 .. Len(s1), NEW j \in 1 .. Len(s2)
  PROVE  JoinsAt(s1, s2, i, j)
<1> DEFINE t == Times(s1, s2)
           u == Joined(s1[i], s2)
<1>1. /\ s1[i] \in Seq(S) /\ i - 1 \in 0 .. Len(s1) /\ i \in 0 .. Len(s1)
      /\ Len(s1) \in 0 .. Len(s1) /\ i <= Len(s1)
      /\ Len(s1) \in Nat /\ 0 \in Nat /\ Len(s2) \in Nat
  BY ElementOfSeq
<1>2. u \in Seq(Seq(S)) /\ Len(u) = Len(s2) /\ u[j] = s1[i] \o s2[j]
  BY <1>1, JoinedFacts
<1>3. t[i] = t[i - 1] \o u /\ t[i - 1] \in Seq(Seq(S)) /\ t[i] \in Seq(Seq(S))
  BY <1>1, TimesDef
<1>4. Growing(t, 0, Len(s1), Seq(S))
  BY TimesGrow
<1>5. Len(t[i - 1]) \in Nat /\ Len(t[i]) = Len(t[i - 1]) + Len(s2)
  BY TimesLen
<1> HIDE DEF t, u
<1> DEFINE x == Len(t[i - 1]) + j
<1>6. x \in 1 .. Len(t[i])
  BY <1>1, <1>5
<1>7. t[i][x] = u[j]
  <2>1. j \in 1 .. Len(u)
    BY <1>2
  <2>2. (t[i - 1] \o u)[Len(t[i - 1]) + j] = u[j]
    <3> DEFINE A == t[i - 1]
               P == Seq(S)
    <3>1. A \in Seq(P) /\ u \in Seq(P) /\ j \in 1 .. Len(u)
      BY <1>2, <1>3, <2>1
    <3> HIDE DEF A, P
    <3>2. (A \o u)[Len(A) + j] = u[j]
      BY ONLY <3>1, CatBehind
    <3> QED BY ONLY <3>2 DEF A
  <2> QED BY <1>3, <2>2
<1> HIDE DEF x
<1>8. t[Len(s1)][x] = t[i][x]
  <2> DEFINE P == Seq(S)
             m == Len(s1)
  <2>1. /\ Growing(t, 0, m, P) /\ i \in 0 .. m /\ m \in 0 .. m /\ i <= m
        /\ 0 \in Nat /\ m \in Nat
    BY <1>1, <1>4
  <2>2. x \in 1 .. Len(t[i])
    BY <1>6
  <2> HIDE DEF P, m
  <2>3. t[m][x] = t[i][x]
    BY ONLY <2>1, <2>2, GrowingKeeps
  <2> QED BY ONLY <2>3 DEF m
<1> QED BY <1>2, <1>7, <1>8 DEF t, x, JoinsAt

(* Without rows of the second factor there are none.                       *)
LEMMA TimesEmpty ==
  ASSUME NEW S, NEW s1 \in Seq(Seq(S)), NEW s2 \in Seq(Seq(S)), Len(s2) = 0, NEW i \in 0 .. Len(s1)
  PROVE  Len(Times(s1, s2)[i]) = 0
<1> DEFINE t == Times(s1, s2)
           E == {k \in 0 .. Len(s1) : Len(t[k]) = 0}
<1>1. 0 \in E
  <2>1. t[0] = << >>
    BY TimesDef
  <2> QED BY <2>1
<1>2. ASSUME NEW k \in 0 .. Len(s1), k > 0, k - 1 \in E PROVE k \in E
  <2>1. k \in 1 .. Len(s1)
    BY <1>2
  <2>2. Len(t[k]) = Len(t[k - 1]) + Len(s2)
    BY <2>1, TimesLen
  <2> HIDE DEF t
  <2> QED BY <1>2, <2>2
<1>3. \A k \in 0 .. Len(s1) : k \in E
  <2> HIDE DEF E
  <2>1. 0 \in Nat /\ Len(s1) \in Nat
    OBVIOUS
  <2> QED BY <1>1, <1>2, <2>1, StepInduction
<1> QED BY <1>3

-----------------------------------------------------------------------------
(* What the first rows give is the beginning of what more of them give.    *)
LEMMA GivenPrefix ==
  ASSUME NEW q, NEW rows, Len(rows) \in Nat,
         NEW i \in 0 .. Len(rows), NEW j \in 0 .. Len(rows), i <= j
  PROVE  IsPrefix(Given(rows, q)[i], Given(rows, q)[j])
<1> DEFINE g == Given(rows, q)
           S == {Projected(rows[k], q) : k \in 1 .. Len(rows)}
<1>1. /\ g[0] = << >>
      /\ \A k \in 0 .. Len(rows) : g[k] \in Seq(S)
      /\ \A k \in 1 .. Len(rows) : g[k] = Adding(g[k - 1], rows[k], q)
  BY GivenDef
<1>2. ASSUME NEW k \in 0 .. Len(rows), k > 0 PROVE \E u \in Seq(S) : g[k] = g[k - 1] \o u
  <2> DEFINE x == Projected(rows[k], q)
  <2>1. k \in 1 .. Len(rows) /\ k - 1 \in 0 .. Len(rows) /\ x \in S
    BY <1>2
  <2>2. g[k] = IF Fulfils(rows[k], q) THEN Append(g[k - 1], x) ELSE g[k - 1]
    BY <1>1, <2>1 DEF Adding
  <2>3. g[k - 1] \in Seq(S)
    BY <1>1, <2>1
  <2> HIDE DEF g, S, x
  <2>4. Append(g[k - 1], x) = g[k - 1] \o <<x>> /\ <<x>> \in Seq(S)
    <3> DEFINE A == g[k - 1]
    <3>1. A \in Seq(S) /\ x \in S
      BY ONLY <2>1, <2>3
    <3> HIDE DEF A
    <3>2. Append(A, x) = A \o <<x>>
      BY ONLY <3>1
    <3>3. <<x>> \in Seq(S)
      BY ONLY <3>1
    <3> QED BY ONLY <3>2, <3>3 DEF A
  <2>5. g[k - 1] = g[k - 1] \o << >> /\ << >> \in Seq(S)
    BY <2>3
  <2>6. CASE Fulfils(rows[k], q)
    BY <2>2, <2>4, <2>6
  <2>7. CASE ~Fulfils(rows[k], q)
    BY <2>2, <2>5, <2>7
  <2> QED BY <2>6, <2>7
<1>3. Growing(g, 0, Len(rows), S)
  <2> HIDE DEF g, S
  <2> QED BY <1>1, <1>2 DEF Growing
<1>4. g[i] \in Seq(S) /\ g[j] \in Seq(S)
  BY <1>1
<1> HIDE DEF g, S
<1>5. Len(g[i]) <= Len(g[j]) /\ \A x \in 1 .. Len(g[i]) : g[j][x] = g[i][x]
  <2>1. 0 \in Nat
    OBVIOUS
  <2> QED BY <1>3, <2>1, GrowingStep
<1>6. SubSeq(g[i], 1, Len(g[i])) = SubSeq(g[j], 1, Len(g[i]))
  <2>1. Len(g[i]) \in Nat /\ Len(g[j]) \in Nat
    BY <1>4
  <2>2. /\ SubSeq(g[i], 1, Len(g[i])) = [x \in 1 .. Len(g[i]) |-> g[i][x]]
        /\ SubSeq(g[j], 1, Len(g[i])) = [x \in 1 .. Len(g[i]) |-> g[j][x]]
    BY <1>4, <1>5, <2>1
  <2> QED BY <1>5, <2>2
<1> QED BY <1>5, <1>6 DEF IsPrefix, g

-----------------------------------------------------------------------------
(* Rows of a table in front of a leaf.                                     *)
Start(t, p) == IF p = 1 THEN 0 ELSE Len(Flat(Leaves(t))[p - 1])

(* The rows of a table are those of its leaves, in their order.            *)
LEMMA LeafLen ==
  ASSUME db \in Databases, NEW t \in DOMAIN db, NEW p \in Pages(t)
  PROVE  /\ Start(t, p) \in Nat /\ Len(Leaves(t)[p]) \in Nat
         /\ Start(t, p) + Len(Leaves(t)[p]) =
              IF NextNode(t, p) = Null THEN Len(RowsOf(t)) ELSE Start(t, p + 1)
         /\ Start(t, p) + Len(Leaves(t)[p]) <= Len(RowsOf(t))
<1> DEFINE L == Leaves(t)
           n == Len(L)
           f == Flat(L)
           S == Nat \X Nat
<1>1. L \in Seq(Seq(S)) /\ n \in Nat /\ p \in 1 .. n /\ L # << >> /\ Pages(t) = 1 .. n
      /\ n \in 1 .. n /\ Null \notin Pages(t)
  BY TableFacts
<1>2. /\ f[1] = L[1]
      /\ \A k \in 2 .. n : f[k] = f[k - 1] \o L[k]
      /\ \A k \in 1 .. n : f[k] \in Seq(S)
  BY <1>1, FlatDef
<1>3. L[p] \in Seq(S)
  BY <1>1, ElementOfSeq
<1>4. RowsOf(t) = f[n]
  BY <1>1, FlattenIsFlat DEF RowsOf
<1>5. Len(f[p]) = Start(t, p) + Len(L[p]) /\ Start(t, p) \in Nat /\ Len(L[p]) \in Nat
  <2>1. Len(L[p]) \in Nat
    BY <1>3
  <2>2. CASE p = 1
    BY <1>2, <2>1, <2>2 DEF Start
  <2>3. CASE p # 1
    <3>1. p \in 2 .. n /\ p - 1 \in 1 .. n
      BY <1>1, <2>3
    <3>2. f[p] = f[p - 1] \o L[p] /\ f[p - 1] \in Seq(S)
      BY <1>2, <3>1
    <3>3. Start(t, p) = Len(f[p - 1])
      BY <2>3 DEF Start
    <3> HIDE DEF f, L, S
    <3>4. Len(f[p - 1]) \in Nat
      BY <3>2
    <3>5. Len(f[p]) = Len(f[p - 1]) + Len(L[p])
      BY <1>3, <3>2, CatLen
    <3> QED BY <2>1, <3>3, <3>4, <3>5
  <2> QED BY <2>2, <2>3
<1>6. Growing(f, 1, n, S)
  <2>1. ASSUME NEW k \in 1 .. n, k > 1 PROVE \E u \in Seq(S) : f[k] = f[k - 1] \o u
    <3>1. k \in 2 .. n /\ L[k] \in Seq(S)
      BY <1>1, <2>1, ElementOfSeq
    <3> QED BY <1>2, <3>1
  <2> QED BY <1>2, <2>1 DEF Growing
<1> HIDE DEF f
<1>7. Len(f[p]) <= Len(f[n])
  <2>1. 1 \in Nat /\ p <= n
    BY <1>1
  <2> HIDE DEF n, S
  <2> QED BY <1>1, <1>6, <2>1, GrowingLen
<1>8. IF NextNode(t, p) = Null THEN p = n ELSE p + 1 \in 1 .. n
  BY <1>1 DEF NextNode
<1>9. p + 1 # 1 /\ (p + 1) - 1 = p
  BY <1>1
<1>10. Start(t, p + 1) = Len(f[p])
  BY <1>9 DEF Start, f
<1> QED BY <1>4, <1>5, <1>7, <1>8, <1>10

(* The row in a cell of a leaf, among the rows of its table.               *)
LEMMA LeafRow ==
  ASSUME db \in Databases, NEW t \in DOMAIN db, NEW p \in Pages(t), NEW c \in 1 .. Len(Leaves(t)[p])
  PROVE  RowsOf(t)[Start(t, p) + c] = Leaves(t)[p][c]
<1> DEFINE L == Leaves(t)
           n == Len(L)
           f == Flat(L)
           S == Nat \X Nat
<1>1. L \in Seq(Seq(S)) /\ n \in Nat /\ p \in 1 .. n /\ L # << >> /\ n \in 1 .. n
  BY TableFacts
<1>2. /\ f[1] = L[1]
      /\ \A k \in 2 .. n : f[k] = f[k - 1] \o L[k]
      /\ \A k \in 1 .. n : f[k] \in Seq(S)
  BY <1>1, FlatDef
<1>3. L[p] \in Seq(S) /\ Len(L[p]) \in Nat
  BY <1>1, ElementOfSeq
<1>4. RowsOf(t) = f[n]
  BY <1>1, FlattenIsFlat DEF RowsOf
<1> DEFINE x == Start(t, p) + c
<1>5. x \in 1 .. Len(f[p]) /\ f[p][x] = L[p][c]
  <2>2. CASE p = 1
    <3>1. x = c /\ f[p] = L[p] /\ c \in 1 .. Len(L[p])
      BY <1>2, <2>2 DEF Start
    <3> HIDE DEF x, f, L
    <3> QED BY <3>1
  <2>3. CASE p # 1
    <3>1. p \in 2 .. n /\ p - 1 \in 1 .. n
      BY <1>1, <2>3
    <3>2. f[p] = f[p - 1] \o L[p] /\ f[p - 1] \in Seq(S)
      BY <1>2, <3>1
    <3>3. Start(t, p) = Len(f[p - 1])
      BY <2>3 DEF Start
    <3> HIDE DEF f, L, S
    <3>4. Len(f[p - 1]) \in Nat
      BY <3>2
    <3>5. Len(f[p - 1] \o L[p]) = Len(f[p - 1]) + Len(L[p])
      BY <1>3, <3>2, CatLen
    <3>6. (f[p - 1] \o L[p])[Len(f[p - 1]) + c] = L[p][c]
      <4>1. c \in 1 .. Len(L[p])
        BY DEF L
      <4>2. f[p - 1] \in Seq(S) /\ L[p] \in Seq(S)
        BY <1>3, <3>2
      <4> DEFINE A == f[p - 1]
                 B == L[p]
      <4>3. A \in Seq(S) /\ B \in Seq(S) /\ c \in 1 .. Len(B)
        BY ONLY <4>1, <4>2
      <4> HIDE DEF A, B
      <4>4. (A \o B)[Len(A) + c] = B[c]
        BY ONLY <4>3, CatBehind
      <4> QED BY ONLY <4>4 DEF A, B
    <3>7. c \in 1 .. Len(L[p])
      BY DEF L
    <3>8. x \in 1 .. Len(f[p])
      <4>1. Len(f[p]) = Start(t, p) + Len(L[p])
        BY <3>2, <3>3, <3>5
      <4>2. Start(t, p) \in Nat
        BY <3>3, <3>4
      <4> QED BY <1>3, <3>7, <4>1, <4>2
    <3>9. f[p][x] = L[p][c]
      BY <3>2, <3>3, <3>6
    <3> QED BY <3>8, <3>9
  <2> QED BY <2>2, <2>3
<1>6. Growing(f, 1, n, S)
  <2>1. ASSUME NEW k \in 1 .. n, k > 1 PROVE \E u \in Seq(S) : f[k] = f[k - 1] \o u
    <3>1. k \in 2 .. n /\ L[k] \in Seq(S)
      BY <1>1, <2>1, ElementOfSeq
    <3> QED BY <1>2, <3>1
  <2> QED BY <1>2, <2>1 DEF Growing
<1> HIDE DEF f, x
<1>7. f[n][x] = f[p][x]
  <2>1. 1 \in Nat /\ p <= n
    BY <1>1
  <2> HIDE DEF n, S
  <2> QED BY <1>1, <1>5, <1>6, <2>1, GrowingKeeps
<1> QED BY <1>4, <1>5, <1>7 DEF x

(* Rows of a table that its cursor has passed.                             *)
Pos(s, t) ==
  LET c == s.cur[t]
  IN IF ~c.init THEN 0
     ELSE IF c.page = Null THEN Len(RowsOf(t))
     ELSE Start(t, c.page) + c.cell - 1

(* No leaf but the last is empty.                                          *)
LEMMA EmptyLeafIsLast ==
  ASSUME db \in Databases, NEW t \in DOMAIN db, NEW p \in Pages(t), Leaves(t)[p] = << >>
  PROVE  NextNode(t, p) = Null
<1>1. Pages(t) = 1 .. Len(Leaves(t)) /\ Len(Leaves(t)) \in Nat
  BY TableFacts
<1>2. \A i \in 1 .. Len(Leaves(t)) - 1 : Leaves(t)[i] # << >>
  BY SelectAssumption DEF Leaves
<1>3. p = Len(Leaves(t))
  BY <1>1, <1>2
<1> QED BY <1>1, <1>3 DEF NextNode

(* A cursor that moves to a page, field by field.                          *)
LEMMA MovedOn ==
  ASSUME NEW c \in Cursors, NEW p \in Nat
  PROVE  [c EXCEPT !.page = p, !.cell = 1, !.held = FALSE] =
           [page |-> p, cell |-> 1, held |-> FALSE, init |-> c.init]
<1>1. c = [page |-> c.page, cell |-> c.cell, held |-> c.held, init |-> c.init]
  BY DEF Cursors
<1> DEFINE c1 == [page |-> p, cell |-> c.cell, held |-> c.held, init |-> c.init]
           c2 == [page |-> p, cell |-> 1, held |-> c.held, init |-> c.init]
<1>2. [c EXCEPT !.page = p] = c1
  BY <1>1 DEF Cursors
<1>3. [c1 EXCEPT !.cell = 1] = c2
  OBVIOUS
<1>4. [c2 EXCEPT !.held = FALSE] = [page |-> p, cell |-> 1, held |-> FALSE, init |-> c.init]
  <2> DEFINE h == c.held
             i == c.init
             no == FALSE
  <2>1. c2 = [page |-> p, cell |-> 1, held |-> h, init |-> i]
    OBVIOUS
  <2> HIDE DEF h, i, no
  <2>2. [[page |-> p, cell |-> 1, held |-> h, init |-> i] EXCEPT !.held = no] =
          [page |-> p, cell |-> 1, held |-> no, init |-> i]
    OBVIOUS
  <2> QED BY <2>1, <2>2 DEF no, i
<1>5. [c EXCEPT !.page = p, !.cell = 1, !.held = FALSE] =
        [[[c EXCEPT !.page = p] EXCEPT !.cell = 1] EXCEPT !.held = FALSE]
  OBVIOUS
<1> HIDE DEF c1, c2
<1> QED BY <1>2, <1>3, <1>4, <1>5

(* A cursor at a row, or behind the last row of a leaf, keeps its position *)
(* when it settles.                                                        *)
LEMMA SettlePos ==
  ASSUME db \in Databases, NEW t \in DOMAIN db, NEW s \in Trees,
         s.cur[t].init, s.cur[t].page \in Pages(t),
         s.cur[t].cell \in 1 .. Len(Leaves(t)[s.cur[t].page]) + 1
  PROVE  /\ Pos(Settle(s, t), t) = Start(t, s.cur[t].page) + s.cur[t].cell - 1
         /\ \A u \in DOMAIN db : u # t => Settle(s, t).cur[u] = s.cur[u]
<1> DEFINE c == s.cur[t]
           q == ReturnPage(s, t, c.page)
           k == [c EXCEPT !.page = NextNode(t, c.page), !.cell = 1, !.held = FALSE]
           r == SetCursor(q, t, k)
<1>1. /\ c \in Cursors /\ c.page \in Pages(t) /\ c.cell \in Nat \ {0} /\ c.page \in Nat
      /\ c.page # Null /\ Null \notin Pages(t)
  BY TableFacts DEF Trees, Cursors
<1>2. /\ Start(t, c.page) \in Nat /\ Len(Leaves(t)[c.page]) \in Nat
      /\ Start(t, c.page) + Len(Leaves(t)[c.page]) =
           IF NextNode(t, c.page) = Null THEN Len(RowsOf(t)) ELSE Start(t, c.page + 1)
  BY LeafLen
<1>3. CASE c.cell <= Len(Leaves(t)[c.page])
  <2>1. Settle(s, t) = s
    BY <1>3 DEF Settle
  <2> QED BY <1>1, <2>1 DEF Pos
<1>4. CASE ~ (c.cell <= Len(Leaves(t)[c.page]))
  <2>1. Settle(s, t) = r
    BY <1>4 DEF Settle
  <2>2. q \in Trees /\ q.cur = s.cur
    <3>1. c.page \in Nat
      BY <1>1
    <3> QED BY <3>1, ReturnFacts
  <2> HIDE DEF q
  <2>3. k \in Cursors /\ k.init = c.init /\ k.page = NextNode(t, c.page) /\ k.cell = 1
    <3>1. NextNode(t, c.page) \in Nat
      <4>1. NextNode(t, c.page) \in Pages(t) \cup {Null} /\ \A p \in Pages(t) : p \in Nat
        BY <1>1, TableFacts
      <4> QED BY <4>1 DEF Null
    <3>2. /\ k = [page |-> NextNode(t, c.page), cell |-> 1, held |-> FALSE, init |-> c.init]
      BY <1>1, <3>1, MovedOn
    <3>3. c.init \in BOOLEAN
      BY <1>1 DEF Cursors
    <3> HIDE DEF k, c
    <3> QED BY <3>1, <3>2, <3>3 DEF Cursors
  <2> HIDE DEF k
  <2>4. r \in Trees /\ r.cur = [s.cur EXCEPT ![t] = k]
    BY <2>2, <2>3, CursorFacts
  <2> HIDE DEF r
  <2>5. r.cur[t] = k /\ \A u \in DOMAIN db : u # t => r.cur[u] = s.cur[u]
    BY <2>4 DEF Trees
  <2>6. c.cell - 1 = Len(Leaves(t)[c.page])
    <3>1. /\ c.cell \in Nat /\ Len(Leaves(t)[c.page]) \in Nat
          /\ c.cell <= Len(Leaves(t)[c.page]) + 1
          /\ ~ (c.cell <= Len(Leaves(t)[c.page]))
      BY <1>1, <1>2, <1>4
    <3> HIDE DEF c
    <3> QED BY <3>1
  <2>7. Start(t, c.page) + c.cell - 1 = Start(t, c.page) + Len(Leaves(t)[c.page])
    BY <1>1, <1>2, <2>6
  <2>8. Pos(r, t) = Start(t, c.page) + Len(Leaves(t)[c.page])
    <3>1. CASE NextNode(t, c.page) = Null
      BY <1>2, <2>3, <2>5, <3>1 DEF Pos
    <3>2. CASE NextNode(t, c.page) # Null
      <4>1. NextNode(t, c.page) = c.page + 1
        BY <3>2 DEF NextNode
      <4>2. k.cell = 1 /\ k.page = c.page + 1 /\ k.page # Null /\ k.init
        BY <2>3, <3>2, <4>1
      <4>3. Pos(r, t) = Start(t, c.page + 1) + 1 - 1
        BY <2>5, <4>2 DEF Pos
      <4>4. Start(t, c.page + 1) \in Nat
        <5>1. /\ Start(t, c.page) \in Nat /\ Len(Leaves(t)[c.page]) \in Nat
              /\ Start(t, c.page) + Len(Leaves(t)[c.page]) = Start(t, c.page + 1)
          BY <1>2, <3>2
        <5> QED BY ONLY <5>1
      <4>5. Start(t, c.page + 1) + 1 - 1 = Start(t, c.page + 1)
        BY <4>4
      <4> QED BY <1>2, <3>2, <4>3, <4>5
    <3> QED BY <3>1, <3>2
  <2> QED BY <2>1, <2>5, <2>7, <2>8
<1> QED BY <1>3, <1>4

(* Taking a page moves no cursor.                                          *)
LEMMA TakeCur ==
  ASSUME NEW s \in Trees, NEW t \in DOMAIN db, NEW p \in Nat
  PROVE  TakePage(s, t, p) \in Trees /\ TakePage(s, t, p).cur = s.cur
<1>1. TakePage(s, t, p).failed \in BOOLEAN
  BY DEF TakePage, Trees
<1>2. TakePage(s, t, p).cur = s.cur
  BY DEF TakePage, Trees
<1>3. CASE p \in s.cached[t]
  <2>1. TakePage(s, t, p).cached = [s.cached EXCEPT ![t] = @ \ {p}]
    BY <1>3 DEF TakePage, Trees
  <2>2. TakePage(s, t, p).taken = [s.taken EXCEPT ![t] = @ \cup {p}]
    BY <1>3 DEF TakePage, Trees
  <2>3. TakePage(s, t, p) = [cur |-> TakePage(s, t, p).cur, taken |-> TakePage(s, t, p).taken,
                             cached |-> TakePage(s, t, p).cached,
                             failed |-> TakePage(s, t, p).failed]
    BY <1>3 DEF TakePage, Trees
  <2> QED BY <1>1, <1>2, <2>1, <2>2, <2>3 DEF Trees
<1>4. CASE p \notin s.cached[t]
  <2>1. TakePage(s, t, p).cached = s.cached /\ TakePage(s, t, p).taken = s.taken
    BY <1>4 DEF TakePage, Trees
  <2>3. TakePage(s, t, p) = [cur |-> TakePage(s, t, p).cur, taken |-> TakePage(s, t, p).taken,
                             cached |-> TakePage(s, t, p).cached,
                             failed |-> TakePage(s, t, p).failed]
    BY <1>4 DEF TakePage, Trees
  <2> QED BY <1>1, <1>2, <2>1, <2>3 DEF Trees
<1> QED BY <1>2, <1>3, <1>4

(* Going to the first leaf passes no row.                                  *)
LEMMA BegunPos ==
  ASSUME db \in Databases, NEW t \in DOMAIN db, NEW s, TreeOK(s),
         s.cur[t].init \/ Pages(t) # {}
  PROVE  /\ Pos(Begun(s, t), t) = Pos(s, t)
         /\ \A u \in DOMAIN db : u # t => Begun(s, t).cur[u] = s.cur[u]
<1>0. CASE s.cur[t].init
  BY <1>0 DEF Begun
<1> SUFFICES ASSUME ~s.cur[t].init, Pages(t) # {}
             PROVE  /\ Pos(Begun(s, t), t) = Pos(s, t)
                    /\ \A u \in DOMAIN db : u # t => Begun(s, t).cur[u] = s.cur[u]
  BY <1>0
<1> DEFINE a == ReadPage(s, t, 1)
           c == [s.cur[t] EXCEPT !.page = 1, !.init = TRUE]
           r == SetCursor(a, t, c)
           c1 == [s.cur[t] EXCEPT !.page = 1]
<1>1. s \in Trees /\ s.cur[t] \in Cursors /\ s.cur[t].cell = 1
  BY DEF TreeOK, Settled, Trees, Cursors
<1>2. a \in Trees /\ a.cur = s.cur
  BY <1>1, ReadFacts
<1> HIDE DEF a
<1>3. c1 \in Cursors /\ c1.page = 1 /\ c1.cell = 1
  BY <1>1 DEF Cursors
<1>4. c = [c1 EXCEPT !.init = TRUE]
  OBVIOUS
<1> HIDE DEF c, c1
<1>5. c \in Cursors /\ c.init = TRUE /\ c.page = 1 /\ c.cell = 1
  BY <1>3, <1>4 DEF Cursors
<1>6. r \in Trees /\ r.cur = [a.cur EXCEPT ![t] = c]
  BY <1>2, <1>5, CursorFacts
<1> HIDE DEF r
<1>7. r.cur[t] = c /\ \A u \in DOMAIN db : u # t => r.cur[u] = s.cur[u]
  BY <1>2, <1>6 DEF Trees
<1>8. Pos(r, t) = 0
  <2>1. Pos(r, t) = Start(t, 1) + 1 - 1
    BY <1>5, <1>7 DEF Pos, Null
  <2> QED BY <2>1 DEF Start
<1>9. Pos(s, t) = 0
  BY DEF Pos
<1>10. Begun(s, t) = r
  BY DEF Begun, r, a, c
<1> QED BY <1>7, <1>8, <1>9, <1>10

(* The next row is the one behind those the cursor has passed, which it    *)
(* passes too; there is none when it has passed them all.  Other cursors   *)
(* stay.                                                                   *)
LEMMA NextPos ==
  ASSUME db \in Databases, NEW t \in DOMAIN db, NEW s, TreeOK(s)
  PROVE  /\ \A u \in DOMAIN db : u # t => CursorNext(s, t).st.cur[u] = s.cur[u]
         /\ CursorNext(s, t).row = NoRow =>
              Pos(s, t) = Len(RowsOf(t)) /\ Pos(CursorNext(s, t).st, t) = Pos(s, t)
         /\ CursorNext(s, t).row # NoRow =>
              /\ Pos(s, t) \in 0 .. Len(RowsOf(t)) - 1
              /\ CursorNext(s, t).row = RowsOf(t)[Pos(s, t) + 1]
              /\ Pos(CursorNext(s, t).st, t) = Pos(s, t) + 1
<1> DEFINE a == Begun(s, t)
           c == a.cur[t]
           b == ReadPage(a, t, c.page)
           d == IF c.held THEN a ELSE TakePage(b, t, c.page)
           n == [c EXCEPT !.cell = @ + 1, !.held = TRUE]
           r == CursorNext(s, t)
<1>1. r = IF ~s.cur[t].init /\ Pages(t) = {} THEN [st |-> s, row |-> NoRow]
          ELSE IF ~c.held /\ (c.page \notin Pages(t) \/ Leaves(t)[c.page] = << >>)
          THEN [st |-> b, row |-> NoRow]
          ELSE [st  |-> Settle(SetCursor(d, t, n), t), row |-> Leaves(t)[c.page][c.cell]]
  BY DEF CursorNext
<1>2. CASE ~s.cur[t].init /\ Pages(t) = {}
  <2>1. r = [st |-> s, row |-> NoRow]
    BY <1>1, <1>2
  <2>2. Pos(s, t) = 0
    BY <1>2 DEF Pos
  <2>3. Len(RowsOf(t)) = 0
    <3>1. Leaves(t) = << >>
      <4>1. Leaves(t) \in Seq(Seq(Nat \X Nat)) /\ Pages(t) = 1 .. Len(Leaves(t))
        BY TableFacts
      <4>2. Len(Leaves(t)) = 0
        <5>1. Len(Leaves(t)) \in Nat /\ 1 .. Len(Leaves(t)) = {}
          BY <1>2, <4>1
        <5> DEFINE m == Len(Leaves(t))
        <5> HIDE DEF m
        <5>2. m \in Nat /\ 1 .. m = {}
          BY <5>1 DEF m
        <5>3. m # 0 => 1 \in 1 .. m
          BY <5>2
        <5>4. m = 0
          BY <5>2, <5>3
        <5> QED BY <5>4 DEF m
      <4> QED BY <4>1, <4>2
    <3> QED BY <3>1 DEF RowsOf, FlattenSeq
  <2> HIDE DEF r
  <2> QED BY <2>1, <2>2, <2>3 DEF r
<1>3. CASE s.cur[t].init \/ Pages(t) # {}
  <2>1. TreeOK(a) /\ c.init
    BY <1>3, BeginFacts
  <2>2. Pos(a, t) = Pos(s, t) /\ \A u \in DOMAIN db : u # t => a.cur[u] = s.cur[u]
    BY <1>3, BegunPos
  <2> HIDE DEF a
  <2>3. /\ a \in Trees /\ c \in Cursors /\ c.page \in Nat /\ c.cell \in Nat \ {0}
        /\ c.page \in Pages(t) \cup {Null}
        /\ c.held => c.page \in Pages(t) /\ c.cell \in DOMAIN Leaves(t)[c.page]
        /\ ~c.held => c.cell = 1
    BY <2>1 DEF TreeOK, Settled, Trees, Cursors
  <2>4. b \in Trees /\ b.cur = a.cur
    BY <2>3, ReadFacts
  <2>5. Null \notin Pages(t)
    BY TableFacts
  <2>6. CASE ~c.held /\ (c.page \notin Pages(t) \/ Leaves(t)[c.page] = << >>)
    <3>1. r = [st |-> b, row |-> NoRow]
      BY <1>1, <1>3, <2>6
    <3> HIDE DEF b, r
    <3>2. r.row = NoRow /\ r.st.cur = a.cur
      BY <2>4, <3>1
    <3>3. Pos(r.st, t) = Pos(a, t)
      BY <3>2 DEF Pos
    <3>4. Pos(a, t) = Len(RowsOf(t))
      <4>1. CASE c.page \notin Pages(t)
        BY <2>1, <2>3, <4>1 DEF Pos
      <4>2. CASE c.page \in Pages(t)
        <5>1. Leaves(t)[c.page] = << >> /\ c.cell = 1
          BY <2>3, <2>6, <4>2
        <5>2. NextNode(t, c.page) = Null
          BY <4>2, <5>1, EmptyLeafIsLast
        <5>3. Start(t, c.page) \in Nat /\ Start(t, c.page) + 0 = Len(RowsOf(t))
          BY <4>2, <5>1, <5>2, LeafLen
        <5>4. Pos(a, t) = Start(t, c.page) + 1 - 1
          BY <2>1, <2>5, <4>2, <5>1 DEF Pos
        <5> QED BY <5>3, <5>4
      <4> QED BY <4>1, <4>2
    <3> QED BY <2>2, <3>2, <3>3, <3>4 DEF r
  <2>7. CASE ~(~c.held /\ (c.page \notin Pages(t) \/ Leaves(t)[c.page] = << >>))
    <3> DEFINE p == c.page
               e == SetCursor(d, t, n)
    <3>1. r = [st |-> Settle(e, t), row |-> Leaves(t)[p][c.cell]]
      BY <1>1, <1>3, <2>7
    <3>2. p \in Pages(t) /\ c.cell \in 1 .. Len(Leaves(t)[p]) /\ Len(Leaves(t)[p]) \in Nat
      <4>1. p \in Pages(t)
        BY <2>3, <2>7
      <4>2. DOMAIN Leaves(t)[p] = 1 .. Len(Leaves(t)[p]) /\ Leaves(t)[p] \in Seq(Nat \X Nat)
        BY <4>1, TableFacts
      <4>3. CASE c.held
        BY <2>3, <4>1, <4>2, <4>3
      <4>4. CASE ~c.held
        <5>1. Leaves(t)[p] # << >> /\ c.cell = 1
          BY <2>3, <2>7, <4>1, <4>4
        <5> QED BY <4>1, <4>2, <5>1
      <4> QED BY <4>3, <4>4
    <3>3. n \in Cursors /\ n.page = p /\ n.init /\ n.cell = c.cell + 1
      <4> DEFINE n1 == [c EXCEPT !.cell = @ + 1]
      <4>1. c.cell + 1 \in Nat \ {0}
        BY <2>3
      <4>2. n1 \in Cursors /\ n1.page = c.page /\ n1.init /\ n1.cell = c.cell + 1
        BY <2>1, <2>3, <4>1 DEF Cursors
      <4>3. n = [n1 EXCEPT !.held = TRUE]
        OBVIOUS
      <4> HIDE DEF n1, n
      <4> QED BY <4>2, <4>3 DEF Cursors
    <3> HIDE DEF n
    <3>4. d \in Trees /\ d.cur = a.cur
      <4>1. CASE c.held
        BY <2>3, <4>1
      <4>2. CASE ~c.held
        <5> HIDE DEF b
        <5>1. TakePage(b, t, c.page) \in Trees /\ TakePage(b, t, c.page).cur = b.cur
          BY <2>3, <2>4, TakeCur
        <5> QED BY <2>4, <4>2, <5>1
      <4> QED BY <4>1, <4>2
    <3> HIDE DEF d
    <3>5. e \in Trees /\ e.cur = [d.cur EXCEPT ![t] = n]
      BY <3>3, <3>4, CursorFacts
    <3> HIDE DEF e
    <3>6. e.cur[t] = n /\ \A u \in DOMAIN db : u # t => e.cur[u] = a.cur[u]
      BY <2>3, <3>4, <3>5 DEF Trees
    <3>7. c.cell + 1 \in 1 .. Len(Leaves(t)[p]) + 1
      BY <3>2
    <3>8. /\ Pos(Settle(e, t), t) = Start(t, p) + (c.cell + 1) - 1
          /\ \A u \in DOMAIN db : u # t => Settle(e, t).cur[u] = e.cur[u]
      <4>1. e.cur[t].init /\ e.cur[t].page = p /\ e.cur[t].cell = c.cell + 1
        BY <3>3, <3>6
      <4>2. /\ e.cur[t].page \in Pages(t)
            /\ e.cur[t].cell \in 1 .. Len(Leaves(t)[e.cur[t].page]) + 1
        BY <3>2, <3>7, <4>1
      <4>3. /\ Pos(Settle(e, t), t) = Start(t, e.cur[t].page) + e.cur[t].cell - 1
            /\ \A u \in DOMAIN db : u # t => Settle(e, t).cur[u] = e.cur[u]
        BY <3>5, <4>1, <4>2, SettlePos
      <4> HIDE DEF p, c
      <4> QED BY <4>1, <4>3
    <3>9. /\ Start(t, p) \in Nat /\ Len(RowsOf(t)) \in Nat
          /\ Start(t, p) + Len(Leaves(t)[p]) <= Len(RowsOf(t))
      BY <3>2, LeafLen, RowsFacts
    <3>10. RowsOf(t)[Start(t, p) + c.cell] = Leaves(t)[p][c.cell]
      BY <3>2, LeafRow
    <3>11. Pos(a, t) = Start(t, p) + c.cell - 1
      <4>1. p # Null
        BY <2>5, <3>2
      <4> QED BY <2>1, <4>1 DEF Pos
    <3> HIDE DEF r, p, c
    <3>12. /\ Start(t, p) + c.cell - 1 \in 0 .. Len(RowsOf(t)) - 1
           /\ (Start(t, p) + c.cell - 1) + 1 = Start(t, p) + c.cell
           /\ Start(t, p) + (c.cell + 1) - 1 = (Start(t, p) + c.cell - 1) + 1
           /\ Start(t, p) + c.cell \in 1 .. Len(RowsOf(t))
      <4> DEFINE x == Start(t, p)
                 y == Len(RowsOf(t))
                 z == Len(Leaves(t)[p])
                 l == c.cell
      <4>1. /\ x \in Nat /\ y \in Nat /\ z \in Nat /\ l \in 1 .. z
            /\ x + z <= y
        BY <3>2, <3>9
      <4> HIDE DEF x, y, z, l
      <4>2. /\ x + l - 1 \in 0 .. y - 1 /\ (x + l - 1) + 1 = x + l
            /\ x + (l + 1) - 1 = (x + l - 1) + 1 /\ x + l \in 1 .. y
        BY ONLY <4>1
      <4> QED BY ONLY <4>2 DEF x, y, z, l
    <3>13. RowsOf(t)[Start(t, p) + c.cell] # NoRow
      BY <3>12, RowsFacts
    <3>14. r.st = Settle(e, t) /\ r.row = Leaves(t)[p][c.cell]
      BY <3>1
    <3>15. Pos(s, t) = Start(t, p) + c.cell - 1
      BY <2>2, <3>11
    <3> QED BY <2>2, <3>6, <3>8, <3>10, <3>12, <3>13, <3>14, <3>15 DEF r
  <2> QED BY <2>6, <2>7
<1> QED BY <1>2, <1>3

(* What the separators and the keys of a table are.                        *)
LEMMA SepFacts ==
  ASSUME db \in Databases, NEW t \in DOMAIN db, Leaves(t) # << >>
  PROVE  /\ Len(db[t].seps) \in Nat /\ Len(db[t].seps) = Len(Leaves(t)) - 1
         /\ DOMAIN db[t].seps = 1 .. Len(db[t].seps)
         /\ \A i \in 1 .. Len(db[t].seps) : db[t].seps[i] \in Nat
         /\ \A p \in Pages(t) : \A c \in 1 .. Len(Leaves(t)[p]) : Leaves(t)[p][c][1] \in Nat
<1>1. /\ Leaves(t) \in Seq(Seq(Nat \X Nat)) /\ db[t].seps \in Seq(Nat)
      /\ Len(db[t].seps) = Len(Leaves(t)) - 1
  BY SelectAssumption DEF Leaves
<1>2. \A p \in Pages(t) : \A c \in 1 .. Len(Leaves(t)[p]) : Leaves(t)[p][c] \in Nat \X Nat
  <2>1. ASSUME NEW p \in Pages(t), NEW c \in 1 .. Len(Leaves(t)[p])
        PROVE  Leaves(t)[p][c] \in Nat \X Nat
    <3>1. Leaves(t)[p] \in Seq(Nat \X Nat)
      BY TableFacts
    <3> QED BY <3>1, ElementOfSeq
  <2> QED BY <2>1
<1>3. Len(db[t].seps) \in Nat /\ DOMAIN db[t].seps = 1 .. Len(db[t].seps)
  BY <1>1
<1>4. \A i \in 1 .. Len(db[t].seps) : db[t].seps[i] \in Nat
  BY <1>1, ElementOfSeq
<1>5. \A p \in Pages(t) : \A c \in 1 .. Len(Leaves(t)[p]) : Leaves(t)[p][c][1] \in Nat
  BY <1>2
<1> QED BY <1>1, <1>3, <1>4, <1>5

(* A separator stands between the keys of the leaves on its sides.         *)
LEMMA SepBetween ==
  ASSUME db \in Databases, NEW t \in DOMAIN db, Leaves(t) # << >>,
         NEW i \in 1 .. Len(db[t].seps), NEW p \in Pages(t), NEW c \in 1 .. Len(Leaves(t)[p])
  PROVE  IF p <= i THEN Leaves(t)[p][c][1] < db[t].seps[i] ELSE db[t].seps[i] <= Leaves(t)[p][c][1]
<1>1. Leaves(t)[p][c] \in Range(Leaves(t)[p])
  BY TableFacts DEF Range
<1>2. i \in DOMAIN db[t].seps
  BY SepFacts
<1>3. \A x \in DOMAIN db[t].seps, j \in DOMAIN db[t].leaves : \A r \in Range(db[t].leaves[j]) :
        IF j <= x THEN r[1] < db[t].seps[x] ELSE db[t].seps[x] <= r[1]
  BY SelectAssumption
<1>4. p \in DOMAIN db[t].leaves /\ Leaves(t) = db[t].leaves
  BY DEF Pages, Leaves
<1>5. IF p <= i THEN db[t].leaves[p][c][1] < db[t].seps[i]
                ELSE db[t].seps[i] <= db[t].leaves[p][c][1]
  BY ONLY <1>1, <1>2, <1>3, <1>4
<1> QED BY <1>4, <1>5

(* The keys of a leaf rise.                                                *)
LEMMA KeysRise ==
  ASSUME db \in Databases, NEW t \in DOMAIN db, NEW p \in Pages(t),
         NEW a \in 1 .. Len(Leaves(t)[p]), NEW b \in 1 .. Len(Leaves(t)[p]), a < b
  PROVE  Leaves(t)[p][a][1] < Leaves(t)[p][b][1]
<1>1. DOMAIN Leaves(t)[p] = 1 .. Len(Leaves(t)[p])
  BY TableFacts
<1>2. \A i \in DOMAIN db[t].leaves : \A x, y \in DOMAIN db[t].leaves[i] :
        x < y => db[t].leaves[i][x][1] < db[t].leaves[i][y][1]
  BY SelectAssumption
<1>4. p \in DOMAIN db[t].leaves /\ Leaves(t) = db[t].leaves
  BY DEF Pages, Leaves
<1>5. a \in DOMAIN db[t].leaves[p] /\ b \in DOMAIN db[t].leaves[p]
  BY <1>1, <1>4
<1>6. db[t].leaves[p][a][1] < db[t].leaves[p][b][1]
  BY <1>2, <1>4, <1>5
<1> QED BY <1>4, <1>6

(* Separators rise, because a leaf that is not empty lies between two.     *)
LEMMA SepsRise ==
  ASSUME db \in Databases, NEW t \in DOMAIN db, Leaves(t) # << >>,
         NEW i \in 1 .. Len(db[t].seps), NEW j \in 1 .. Len(db[t].seps), i < j
  PROVE  db[t].seps[i] < db[t].seps[j]
<1>1. /\ Len(db[t].seps) = Len(Leaves(t)) - 1 /\ Len(Leaves(t)) \in Nat
      /\ db[t].seps[i] \in Nat /\ db[t].seps[j] \in Nat
  BY SepFacts, TableFacts
<1>2. j \in Pages(t) /\ NextNode(t, j) # Null
  <2>1. j \in 1 .. Len(Leaves(t)) /\ j + 1 \in 1 .. Len(Leaves(t)) /\ j + 1 # 0
    BY <1>1
  <2> QED BY <2>1, TableFacts DEF NextNode, Null
<1>3. Leaves(t)[j] # << >> /\ Leaves(t)[j] \in Seq(Nat \X Nat)
  BY <1>2, EmptyLeafIsLast, TableFacts
<1>4. 1 \in 1 .. Len(Leaves(t)[j])
  BY <1>3
<1>5. /\ Leaves(t)[j][1][1] < db[t].seps[j] /\ db[t].seps[i] <= Leaves(t)[j][1][1]
  <2>1. j <= j /\ ~(j <= i)
    OBVIOUS
  <2> QED BY <1>2, <1>4, <2>1, SepBetween
<1>6. Leaves(t)[j][1][1] \in Nat
  BY <1>2, <1>4, SepFacts
<1> DEFINE a == db[t].seps[i]
           b == db[t].seps[j]
           x == Leaves(t)[j][1][1]
<1>7. a \in Nat /\ b \in Nat /\ x \in Nat /\ a <= x /\ x < b
  BY ONLY <1>1, <1>5, <1>6
<1> HIDE DEF a, b, x
<1>8. a < b
  BY ONLY <1>7
<1> QED BY ONLY <1>8 DEF a, b

(* Cursors that are let go are at the root, before the first row; the      *)
(* others stay.                                                            *)
LEMMA LetGoCur ==
  ASSUME NEW s, TreeOK(s), NEW T, NEW u \in DOMAIN db
  PROVE  LetGo(s, T).cur[u] = IF u \in T THEN NewCursor ELSE s.cur[u]
BY DEF LetGo, TreeOK, Trees

(* A cursor at the root has passed no row.                                 *)
LEMMA NewPos ==
  ASSUME NEW s, NEW t, s.cur[t] = NewCursor
  PROVE  Pos(s, t) = 0
BY DEF Pos, NewCursor

(* The position of a cursor is a matter of the cursor alone.               *)
LEMMA SamePos ==
  ASSUME NEW s, NEW r, NEW t, r.cur[t] = s.cur[t]
  PROVE  Pos(r, t) = Pos(s, t)
BY DEF Pos

(* The leaf and the cell a key is looked for at: every row in front of     *)
(* them has a smaller key.                                                 *)
LeafFor(t, k)    == 1 + Cardinality({i \in DOMAIN db[t].seps : db[t].seps[i] <= k})
CellFor(t, p, k) == 1 + Cardinality({i \in DOMAIN Leaves(t)[p] : Leaves(t)[p][i][1] < k})

(* In the leaves in front of the one found all keys are smaller.           *)
LEMMA LeafForFacts ==
  ASSUME db \in Databases, NEW t \in DOMAIN db, Leaves(t) # << >>, NEW k \in Int
  PROVE  /\ LeafFor(t, k) \in Pages(t)
         /\ \A p \in Pages(t) : p < LeafFor(t, k) =>
              \A c \in 1 .. Len(Leaves(t)[p]) : Leaves(t)[p][c][1] < k
<1> DEFINE n == Len(db[t].seps)
           T == {i \in 1 .. n : db[t].seps[i] > k}
           B == {i \in 1 .. n : i \notin T}
           m == Cardinality(B)
<1>1. /\ n \in Nat /\ n = Len(Leaves(t)) - 1 /\ DOMAIN db[t].seps = 1 .. n
      /\ \A i \in 1 .. n : db[t].seps[i] \in Nat
  BY SepFacts
<1>2. \A i, j \in 1 .. n : i < j /\ i \in T => j \in T
  <2>1. ASSUME NEW i \in 1 .. n, NEW j \in 1 .. n, i < j, i \in T PROVE j \in T
    <3>1. db[t].seps[i] < db[t].seps[j]
      BY <2>1, SepsRise
    <3> QED BY <1>1, <2>1, <3>1
  <2> QED BY <2>1
<1>3. m \in 0 .. n /\ \A i \in 1 .. n : i \in T <=> i > m
  <2> HIDE DEF T, n
  <2> QED BY <1>1, <1>2, CountBelow
<1>4. LeafFor(t, k) = 1 + m
  <2>1. {i \in DOMAIN db[t].seps : db[t].seps[i] <= k} = B
    BY <1>1
  <2> HIDE DEF B
  <2> QED BY <2>1 DEF LeafFor
<1>5. Pages(t) = 1 .. n + 1
  <2>1. Len(Leaves(t)) \in Nat /\ Pages(t) = 1 .. Len(Leaves(t))
    BY TableFacts
  <2>2. Len(Leaves(t)) = n + 1
    BY <1>1, <2>1
  <2> QED BY <2>1, <2>2
<1>6. ASSUME NEW p \in Pages(t), p < 1 + m, NEW c \in 1 .. Len(Leaves(t)[p])
      PROVE  Leaves(t)[p][c][1] < k
  <2> HIDE DEF m
  <2>1. m \in 1 .. n /\ p <= m
    BY <1>1, <1>3, <1>5, <1>6
  <2>2. ~(m > m)
    BY <1>3
  <2>3. m \notin T
    BY <1>3, <2>1, <2>2
  <2>4. ~(db[t].seps[m] > k)
    BY <2>1, <2>3
  <2>5. Leaves(t)[p][c][1] < db[t].seps[m]
    BY <2>1, SepBetween
  <2>6. Leaves(t)[p][c][1] \in Nat /\ db[t].seps[m] \in Nat
    BY <1>1, <2>1, SepFacts
  <2> QED BY <2>4, <2>5, <2>6
<1> HIDE DEF m, n
<1>7. 1 + m \in Pages(t)
  BY <1>1, <1>3, <1>5
<1> QED BY <1>4, <1>6, <1>7

(* In the leaf, the cells in front of the one found have smaller keys.     *)
LEMMA CellForFacts ==
  ASSUME db \in Databases, NEW t \in DOMAIN db, NEW p \in Pages(t), NEW k \in Int
  PROVE  /\ CellFor(t, p, k) \in 1 .. Len(Leaves(t)[p]) + 1
         /\ \A c \in 1 .. Len(Leaves(t)[p]) : c < CellFor(t, p, k) => Leaves(t)[p][c][1] < k
<1> DEFINE n == Len(Leaves(t)[p])
           T == {i \in 1 .. n : ~(Leaves(t)[p][i][1] < k)}
           B == {i \in 1 .. n : i \notin T}
           m == Cardinality(B)
<1>1. n \in Nat /\ DOMAIN Leaves(t)[p] = 1 .. n
  BY TableFacts
<1>0. Leaves(t) # << >>
  <2>1. Pages(t) = 1 .. Len(Leaves(t))
    BY TableFacts
  <2> QED BY <2>1
<1>2. \A i \in 1 .. n : Leaves(t)[p][i][1] \in Nat
  BY <1>0, SepFacts
<1>3. \A i, j \in 1 .. n : i < j /\ i \in T => j \in T
  <2>1. ASSUME NEW i \in 1 .. n, NEW j \in 1 .. n, i < j, i \in T PROVE j \in T
    <3>1. Leaves(t)[p][i][1] < Leaves(t)[p][j][1]
      BY <2>1, KeysRise
    <3> QED BY <1>2, <2>1, <3>1
  <2> QED BY <2>1
<1>4. m \in 0 .. n /\ \A i \in 1 .. n : i \in T <=> i > m
  <2> HIDE DEF T, n
  <2> QED BY <1>1, <1>3, CountBelow
<1>5. CellFor(t, p, k) = 1 + m
  <2>1. {i \in DOMAIN Leaves(t)[p] : Leaves(t)[p][i][1] < k} = B
    BY <1>1
  <2> HIDE DEF B
  <2> QED BY <2>1 DEF CellFor
<1>6. ASSUME NEW c \in 1 .. n, c < 1 + m PROVE Leaves(t)[p][c][1] < k
  <2> HIDE DEF m
  <2>1. ~(c > m)
    BY <1>4, <1>6
  <2> QED BY <1>4, <2>1
<1>7. 1 + m \in 1 .. n + 1
  <2> HIDE DEF m, n
  <2> QED BY <1>1, <1>4
<1> HIDE DEF m
<1> QED BY <1>5, <1>6, <1>7

(* The rows in front of a leaf are those of the leaves in front of it.     *)
LEMMA RowsBefore ==
  ASSUME db \in Databases, NEW t \in DOMAIN db, NEW p \in Pages(t), NEW k \in Int,
         \A q \in Pages(t) : q < p =>
              \A c \in 1 .. Len(Leaves(t)[q]) : Leaves(t)[q][c][1] < k
  PROVE  \A j \in 1 .. Start(t, p) : RowsOf(t)[j][1] < k
<1> DEFINE S == {q \in 1 .. p : \A j \in 1 .. Start(t, q) : RowsOf(t)[j][1] < k}
<1>1. p \in Nat /\ 1 <= p /\ \A q \in 1 .. p : q \in Pages(t) /\ (q > 1 => q - 1 \in 1 .. p)
  <2>1. Len(Leaves(t)) \in Nat /\ Pages(t) = 1 .. Len(Leaves(t))
    BY TableFacts
  <2> QED BY <2>1
<1>2. 1 \in S
  BY <1>1 DEF Start
<1>3. ASSUME NEW q \in 1 .. p, q > 1, q - 1 \in S PROVE q \in S
  <2> DEFINE r == q - 1
             a == Start(t, r)
             b == Len(Leaves(t)[r])
  <2>1. r \in Pages(t) /\ r < p /\ r + 1 = q /\ q \in Pages(t)
    BY <1>1, <1>3
  <2>2. NextNode(t, r) = q /\ q # Null
    BY <2>1, TableFacts DEF NextNode
  <2>3. a \in Nat /\ b \in Nat /\ a + b = Start(t, q)
    <3> HIDE DEF r
    <3> QED BY <2>1, <2>2, LeafLen
  <2>4. ASSUME NEW j \in 1 .. Start(t, q) PROVE RowsOf(t)[j][1] < k
    <3> HIDE DEF b
    <3>1. CASE j <= a
      <4>1. j \in 1 .. a
        BY <2>3, <3>1
      <4> QED BY <1>3, <4>1
    <3> HIDE DEF r, a
    <3>2. CASE j > a
      <4>1. j - a \in 1 .. b /\ a + (j - a) = j
        BY <2>3, <3>2
      <4>2. RowsOf(t)[a + (j - a)] = Leaves(t)[r][j - a]
        BY <2>1, <4>1, LeafRow DEF a, b
      <4>3. Leaves(t)[r][j - a][1] < k
        BY <2>1, <4>1 DEF b
      <4> QED BY <4>1, <4>2, <4>3
    <3> QED BY <2>3, <3>1, <3>2
  <2> HIDE DEF r
  <2> QED BY <2>4
<1>4. \A q \in 1 .. p : q \in S
  <2> HIDE DEF S
  <2> QED BY <1>1, <1>2, <1>3, StepInduction
<1> QED BY <1>1, <1>4

(* A scan that begins at a key has passed rows with smaller keys only.     *)
LEMMA SeekPos ==
  ASSUME db \in Databases, NEW t \in DOMAIN db, NEW s, TreeOK(s), s.cur[t] = NewCursor,
         NEW k \in Int
  PROVE  /\ \A u \in DOMAIN db : u # t => Seek(s, t, k).cur[u] = s.cur[u]
         /\ Pos(Seek(s, t, k), t) \in 0 .. Len(RowsOf(t))
         /\ \A j \in 1 .. Pos(Seek(s, t, k), t) : RowsOf(t)[j][1] < k
<1>1. CASE Pages(t) = {}
  <2>1. Seek(s, t, k) = s
    BY <1>1 DEF Seek
  <2>2. Pos(s, t) = 0
    BY NewPos
  <2>3. Len(RowsOf(t)) \in Nat
    BY RowsFacts
  <2> QED BY <2>1, <2>2, <2>3
<1>2. CASE Pages(t) # {}
  <2> DEFINE p == LeafFor(t, k)
             cell == CellFor(t, p, k)
             b == ReadPage(s, t, p)
             d == TakePage(b, t, p)
             n == [page |-> p, cell |-> cell, held |-> TRUE, init |-> TRUE]
             e == SetCursor(d, t, n)
  <2>1. Seek(s, t, k) = Settle(e, t)
    BY <1>2 DEF Seek, LeafFor, CellFor
  <2>2. Leaves(t) # << >>
    BY <1>2 DEF Pages
  <2>3. /\ p \in Pages(t)
        /\ \A q \in Pages(t) : q < p =>
              \A c \in 1 .. Len(Leaves(t)[q]) : Leaves(t)[q][c][1] < k
    BY <2>2, LeafForFacts
  <2> HIDE DEF p
  <2>4. /\ cell \in 1 .. Len(Leaves(t)[p]) + 1
        /\ \A c \in 1 .. Len(Leaves(t)[p]) : c < cell => Leaves(t)[p][c][1] < k
    BY <2>3, CellForFacts
  <2>5. \A j \in 1 .. Start(t, p) : RowsOf(t)[j][1] < k
    BY <2>3, RowsBefore
  <2>6. p \in Nat /\ Len(Leaves(t)[p]) \in Nat
    BY <2>3, TableFacts
  <2> HIDE DEF cell
  <2>7. n \in Cursors
    BY <2>4, <2>6 DEF Cursors
  <2>8. s \in Trees
    BY DEF TreeOK
  <2>9. b \in Trees /\ b.cur = s.cur
    BY <2>6, <2>8, ReadFacts
  <2> HIDE DEF b
  <2>10. d \in Trees /\ d.cur = s.cur
    BY <2>6, <2>9, TakeCur
  <2> HIDE DEF d
  <2>11. n.page = p /\ n.cell = cell /\ n.init
    OBVIOUS
  <2> HIDE DEF n
  <2>12. e \in Trees /\ e.cur = [d.cur EXCEPT ![t] = n]
    BY <2>7, <2>10, CursorFacts
  <2> HIDE DEF e
  <2>13. e.cur[t] = n /\ \A u \in DOMAIN db : u # t => e.cur[u] = s.cur[u]
    BY <2>8, <2>10, <2>12 DEF Trees
  <2>14. /\ Pos(Settle(e, t), t) = Start(t, p) + cell - 1
         /\ \A u \in DOMAIN db : u # t => Settle(e, t).cur[u] = e.cur[u]
    <3>1. e.cur[t].init /\ e.cur[t].page = p /\ e.cur[t].cell = cell
      BY <2>11, <2>13
    <3>2. e.cur[t].page \in Pages(t) /\ e.cur[t].cell \in 1 .. Len(Leaves(t)[e.cur[t].page]) + 1
      BY <2>3, <2>4, <3>1
    <3>3. /\ Pos(Settle(e, t), t) = Start(t, e.cur[t].page) + e.cur[t].cell - 1
          /\ \A u \in DOMAIN db : u # t => Settle(e, t).cur[u] = e.cur[u]
      BY <2>12, <3>1, <3>2, SettlePos
    <3> QED BY <3>1, <3>3
  <2>15. /\ Start(t, p) \in Nat /\ Len(RowsOf(t)) \in Nat
         /\ Start(t, p) + Len(Leaves(t)[p]) <= Len(RowsOf(t))
    BY <2>3, LeafLen, RowsFacts
  <2>16. Start(t, p) + cell - 1 \in 0 .. Len(RowsOf(t))
    BY <2>4, <2>6, <2>15
  <2>17. ASSUME NEW j \in 1 .. Start(t, p) + cell - 1 PROVE RowsOf(t)[j][1] < k
    <3>1. CASE j <= Start(t, p)
      <4>1. j \in 1 .. Start(t, p)
        BY <2>15, <3>1
      <4> QED BY <2>5, <4>1
    <3>2. CASE j > Start(t, p)
      <4>1. /\ j - Start(t, p) \in 1 .. Len(Leaves(t)[p]) /\ j - Start(t, p) < cell
            /\ Start(t, p) + (j - Start(t, p)) = j
        BY <2>4, <2>6, <2>15, <3>2
      <4>2. RowsOf(t)[Start(t, p) + (j - Start(t, p))] = Leaves(t)[p][j - Start(t, p)]
        BY <2>3, <4>1, LeafRow
      <4>3. Leaves(t)[p][j - Start(t, p)][1] < k
        BY <2>4, <4>1
      <4> QED BY <4>1, <4>2, <4>3
    <3> QED BY <2>15, <3>1, <3>2
  <2> QED BY <2>1, <2>13, <2>14, <2>16, <2>17
<1> QED BY <1>1, <1>2

(* Joining sequences is associative (kept as a predicate, for the provers). *)
Assoc(a, b, c) == (a \o b) \o c = a \o (b \o c)

(* Joining sequences is associative.                                       *)
LEMMA CatAssoc ==
  ASSUME NEW S, NEW a \in Seq(S), NEW b \in Seq(S), NEW c \in Seq(S)
  PROVE  Assoc(a, b, c)
BY DEF Assoc

(* Rows joined from the right, as the products join them, are the rows one *)
(* after the other.                                                        *)
LEMMA FlattenRight ==
  ASSUME NEW S, NEW s \in Seq(Seq(S)), s # << >>, NEW w,
         \A i \in 1 .. Len(s) : w[i] \in Seq(S),
         w[Len(s)] = s[Len(s)], \A i \in 1 .. Len(s) - 1 : w[i] = s[i] \o w[i + 1]
  PROVE  FlattenSeq(s) = w[1]
<1> DEFINE n == Len(s)
           f == Flat(s)
           M == {k \in 1 .. n - 1 : f[k] \o w[k + 1] = w[1]}
<1>1. n \in Nat /\ n >= 1
  <2>1. Len(s) \in Nat /\ (Len(s) = 0 => s = << >>)
    OBVIOUS
  <2> QED BY <2>1
<1>2. /\ f[1] = s[1] /\ \A k \in 2 .. n : f[k] = f[k - 1] \o s[k]
      /\ \A k \in 1 .. n : f[k] \in Seq(S)
  <2> HIDE DEF n, f
  <2> QED BY FlatDef DEF n, f
<1>3. FlattenSeq(s) = f[n]
  BY FlattenIsFlat
<1>4. \A i \in 1 .. n : s[i] \in Seq(S)
  BY ElementOfSeq
<1> HIDE DEF n, f
<1>5. CASE n = 1
  BY <1>2, <1>3, <1>5 DEF n
<1>6. CASE n > 1
  <2>1. 1 \in M
    <3>1. 1 \in 1 .. n - 1 /\ 1 + 1 = 2
      BY <1>1, <1>6
    <3>2. w[1] = s[1] \o w[1 + 1]
      BY <3>1 DEF n
    <3> QED BY <1>2, <3>1, <3>2
  <2>2. ASSUME NEW k \in 1 .. n - 1, k > 1, k - 1 \in M PROVE k \in M
    <3>1. /\ k \in 1 .. n /\ k \in 2 .. n /\ k - 1 \in 1 .. n /\ k + 1 \in 1 .. n
          /\ (k - 1) + 1 = k
      BY <1>1, <2>2
    <3>2. f[k - 1] \o w[k] = w[1]
      BY <2>2, <3>1
    <3>3. w[k] = s[k] \o w[k + 1] /\ f[k] = f[k - 1] \o s[k]
      BY <1>2, <3>1 DEF n
    <3>4. f[k - 1] \in Seq(S) /\ s[k] \in Seq(S) /\ w[k + 1] \in Seq(S)
      BY <1>2, <1>4, <3>1 DEF n
    <3>5. (f[k - 1] \o s[k]) \o w[k + 1] = f[k - 1] \o (s[k] \o w[k + 1])
      <4>1. Assoc(f[k - 1], s[k], w[k + 1])
        BY <3>4, CatAssoc
      <4> QED BY <4>1 DEF Assoc
    <3>6. f[k] \o w[k + 1] = w[1]
      BY <3>2, <3>3, <3>5
    <3> QED BY <3>6
  <2>3. \A k \in 1 .. n - 1 : k \in M
    <3>1. n - 1 \in Nat
      BY <1>1
    <3> HIDE DEF M
    <3> QED BY <2>1, <2>2, <3>1, StepInduction
  <2>4. n - 1 \in 1 .. n - 1 /\ (n - 1) + 1 = n /\ n \in 2 .. n
    BY <1>1, <1>6
  <2>5. f[n - 1] \o w[n] = w[1]
    BY <2>3, <2>4
  <2>6. f[n] = f[n - 1] \o s[n] /\ w[n] = s[n]
    BY <1>2, <2>4 DEF n
  <2> QED BY <1>3, <2>5, <2>6
<1> QED BY <1>1, <1>5, <1>6

-----------------------------------------------------------------------------
(* A literal on the left turns the comparison round.                       *)
LEMMA Mirror ==
  ASSUME NEW o, NEW a, NEW b PROVE Compare(Mirrored(o), a, b) <=> Compare(o, b, a)
<1>1. o = ">" => Mirrored(o) = "<"
  BY Zenon DEF Mirrored
<1>2. o = ">=" => Mirrored(o) = "<="
  BY Zenon DEF Mirrored
<1>3. o = "<" => Mirrored(o) = ">"
  BY Zenon DEF Mirrored
<1>4. o = "<=" => Mirrored(o) = ">="
  BY Zenon DEF Mirrored
<1>5. o \notin {">", ">=", "<", "<="} => Mirrored(o) = o
  BY Zenon DEF Mirrored
<1> QED BY <1>1, <1>2, <1>3, <1>4, <1>5 DEF Compare

(* The predicates the filter is built of say what the conditions say.      *)
LEMMA FilterMeans ==
  ASSUME NEW q, NEW row, \A i \in DOMAIN q.conds : PredOk(q.conds[i], q.from)
  PROVE  SatisfiesAll(row, q) <=> Fulfils(row, q)
<1>1. ASSUME NEW i \in DOMAIN q.conds
      PROVE  Satisfies(row, q.conds[i], q.from) <=>
               Compare(q.conds[i].op, ValueIn(q.conds[i].lhs, row, q.from),
                                      ValueIn(q.conds[i].rhs, row, q.from))
  <2> DEFINE c == q.conds[i]
             l == ValueIn(c.lhs, row, q.from)
             r == ValueIn(c.rhs, row, q.from)
  <2>1. c.lhs.kind = "col" \/ c.rhs.kind = "col"
    <3>1. PICK x \in Range(Sides(c)) : x.kind = "col"
      BY DEF PredOk
    <3>2. x = c.lhs \/ x = c.rhs
      BY DEF Sides, Range
    <3> QED BY <3>1, <3>2
  <2> HIDE DEF c
  <2>2. CASE c.rhs.kind = "lit"
    <3>2. c.lhs.kind # "lit"
      BY <2>1, <2>2
    <3>1. Satisfies(row, c, q.from) = Compare(c.op, row[Place(c.lhs, q.from)], c.rhs.value)
      BY <2>2, <3>2, Zenon DEF Satisfies
    <3>3. l = row[Place(c.lhs, q.from)] /\ r = c.rhs.value
      BY <2>2, <3>2 DEF ValueIn
    <3> QED BY <3>1, <3>3 DEF c
  <2>3. CASE c.rhs.kind # "lit" /\ c.lhs.kind = "lit"
    <3>1. Satisfies(row, c, q.from) =
            Compare(Mirrored(c.op), row[Place(c.rhs, q.from)], c.lhs.value)
      BY <2>3, Zenon DEF Satisfies
    <3>2. r = row[Place(c.rhs, q.from)] /\ l = c.lhs.value
      BY <2>3 DEF ValueIn
    <3> HIDE DEF l, r
    <3>3. Compare(Mirrored(c.op), r, l) <=> Compare(c.op, l, r)
      BY Mirror
    <3> QED BY <3>1, <3>2, <3>3 DEF c, l, r
  <2>4. CASE c.rhs.kind # "lit" /\ c.lhs.kind # "lit"
    <3>1. Satisfies(row, c, q.from) =
            Compare(c.op, row[Place(c.lhs, q.from)], row[Place(c.rhs, q.from)])
      BY <2>4, Zenon DEF Satisfies
    <3>2. r = row[Place(c.rhs, q.from)] /\ l = row[Place(c.lhs, q.from)]
      BY <2>4 DEF ValueIn
    <3> QED BY <3>1, <3>2 DEF c
  <2> QED BY <2>2, <2>3, <2>4
<1> QED BY <1>1 DEF SatisfiesAll, Fulfils

(* Rows that do not fulfil the conditions give nothing.                    *)
LEMMA GivenNone ==
  ASSUME NEW q, NEW rows, Len(rows) \in Nat, NEW m \in 0 .. Len(rows),
         \A j \in 1 .. m : ~Fulfils(rows[j], q)
  PROVE  Given(rows, q)[m] = << >>
<1> DEFINE S == {k \in 0 .. m : Given(rows, q)[k] = << >>}
<1>1. m \in Nat /\ 0 \in S
  BY GivenDef
<1>2. ASSUME NEW k \in 0 .. m - 1, k \in S PROVE k + 1 \in S
  <2>1. k + 1 \in 1 .. m /\ k + 1 \in 1 .. Len(rows) /\ (k + 1) - 1 = k /\ k + 1 \in 0 .. m
    BY <1>1
  <2>2. Given(rows, q)[k + 1] = Given(rows, q)[(k + 1) - 1]
    BY <2>1, GivenDef DEF Adding
  <2> QED BY <1>2, <2>1, <2>2
<1>3. \A k \in 0 .. m : k \in S
  <2> HIDE DEF S
  <2> QED BY <1>1, <1>2, IntervalInduction
<1> QED BY <1>1, <1>3

(* An element of sequences one after the other is an element of one of     *)
(* them.                                                                   *)
LEMMA FlattenFrom ==
  ASSUME NEW S, NEW s \in Seq(Seq(S)), s # << >>, NEW j \in 1 .. Len(FlattenSeq(s))
  PROVE  \E i \in 1 .. Len(s) : \E m \in 1 .. Len(s[i]) : FlattenSeq(s)[j] = s[i][m]
<1> DEFINE n == Len(s)
           f == Flat(s)
           Found(x) == \E i \in 1 .. n : \E m \in 1 .. Len(s[i]) : x = s[i][m]
           E == {k \in 1 .. n : \A x \in 1 .. Len(f[k]) : Found(f[k][x])}
<1>1. n \in Nat /\ n >= 1
  <2>1. Len(s) \in Nat /\ (Len(s) = 0 => s = << >>)
    OBVIOUS
  <2> QED BY <2>1
<1>2. /\ f[1] = s[1] /\ \A k \in 2 .. n : f[k] = f[k - 1] \o s[k]
      /\ \A k \in 1 .. n : f[k] \in Seq(S)
  <2> HIDE DEF n, f
  <2> QED BY FlatDef DEF n, f
<1>3. FlattenSeq(s) = f[n]
  BY FlattenIsFlat
<1>4. \A i \in 1 .. n : s[i] \in Seq(S)
  BY ElementOfSeq
<1> HIDE DEF n, f
<1>5. 1 \in E
  <2>1. ASSUME NEW x \in 1 .. Len(f[1]) PROVE Found(f[1][x])
    <3>1. 1 \in 1 .. n /\ x \in 1 .. Len(s[1]) /\ f[1][x] = s[1][x]
      BY <1>1, <1>2
    <3> QED BY <3>1
  <2> HIDE DEF Found
  <2> QED BY <1>1, <2>1
<1>6. ASSUME NEW k \in 1 .. n, k > 1, k - 1 \in E PROVE k \in E
  <2>1. k \in 2 .. n /\ k - 1 \in 1 .. n
    BY <1>1, <1>6
  <2>2. f[k] = f[k - 1] \o s[k] /\ f[k - 1] \in Seq(S) /\ s[k] \in Seq(S)
    BY <1>2, <1>4, <2>1
  <2>3. ASSUME NEW x \in 1 .. Len(f[k]) PROVE Found(f[k][x])
    <3> DEFINE a == Len(f[k - 1])
               b == Len(s[k])
    <3>1. a \in Nat /\ b \in Nat /\ Len(f[k]) = a + b
      BY <2>2, CatLen
    <3>2. CASE x <= a
      <4>1. x \in 1 .. a
        BY <3>1, <3>2
      <4>2. f[k][x] = f[k - 1][x]
        BY <2>2, <4>1, CatFront
      <4>3. \A y \in 1 .. a : Found(f[k - 1][y])
        BY ONLY <1>6
      <4> HIDE DEF Found, a
      <4>4. Found(f[k - 1][x])
        BY ONLY <4>1, <4>3
      <4> QED BY ONLY <4>2, <4>4
    <3> HIDE DEF a, b
    <3>3. CASE x > a
      <4>1. x - a \in 1 .. b /\ a + (x - a) = x
        BY <3>1, <3>3
      <4>2. f[k][a + (x - a)] = s[k][x - a]
        BY <2>2, <4>1, CatBehind DEF a, b
      <4> QED BY <4>1, <4>2 DEF b
    <3> QED BY <3>1, <3>2, <3>3
  <2> HIDE DEF Found
  <2> QED BY <2>3
<1>7. \A k \in 1 .. n : k \in E
  <2> HIDE DEF E
  <2> QED BY <1>1, <1>5, <1>6, StepInduction
<1>8. j \in 1 .. Len(f[n]) /\ n \in 1 .. n
  BY <1>1, <1>3
<1>9. Found(f[n][j])
  <2> HIDE DEF Found
  <2> QED BY <1>7, <1>8
<1> QED BY <1>3, <1>9 DEF n

(* What the parser makes of a statement.                                   *)
LEMMA QueryIs ==
  ASSUME NEW q \in Queries
  PROVE  /\ q.from \in Seq(Nat) /\ q.from # << >> /\ Len(q.from) \in Nat \ {0}
         /\ q.conds \in Seq(Range(q.conds))
         /\ \A i \in DOMAIN q.conds :
              /\ IF q.conds[i].lhs.kind = "lit" THEN q.conds[i].lhs.value \in Int
                                               ELSE q.conds[i].lhs.kind \in {"col", "op"}
              /\ IF q.conds[i].rhs.kind = "lit" THEN q.conds[i].rhs.value \in Int
                                               ELSE q.conds[i].rhs.kind \in {"col", "op"}
<1>1. q.from \in Seq(Nat) /\ q.from # << >> /\ q.conds \in Seq(Range(q.conds))
  BY SelectAssumption
<1>2. \A i \in DOMAIN q.conds : \A x \in {q.conds[i].lhs, q.conds[i].rhs} :
            IF x.kind = "lit" THEN x.value \in Int ELSE x.kind \in {"col", "op"}
  BY SelectAssumption
<1>3. Len(q.from) \in Nat \ {0}
  BY <1>1
<1> QED BY <1>1, <1>2, <1>3

(* The key a scan begins at comes from a condition on the key.             *)
LEMMA KeyFrom ==
  ASSUME NEW q \in Queries, NEW t, \A i \in DOMAIN q.conds : KeyPredOk(q.conds[i], t),
         KeyPreds(q.conds) # << >>
  PROVE  \E i \in DOMAIN q.conds : KeyOf(q.conds[i]) = <<KeyPreds(q.conds)[1]>>
                                    /\ KeyPreds(q.conds)[1] \in Int
<1> DEFINE n == Len(q.conds)
           s == [i \in DOMAIN q.conds |-> KeyOf(q.conds[i])]
           ks == KeyPreds(q.conds)
<1>1. n \in Nat /\ DOMAIN q.conds = 1 .. n
  BY QueryIs
<1>2. ASSUME NEW i \in DOMAIN q.conds
      PROVE  KeyOf(q.conds[i]) = << >> \/ \E v \in Int : KeyOf(q.conds[i]) = <<v>>
  <2> DEFINE c == q.conds[i]
             lit == IF c.lhs.kind = "col" THEN c.rhs ELSE c.lhs
  <2>1. {c.lhs.kind, c.rhs.kind} = {"col", "lit"}
    BY DEF KeyPredOk, KeyPredExpected
  <2>2. lit.value \in Int
    <3>1. lit.kind = "lit" /\ lit \in {c.lhs, c.rhs}
      BY <2>1
    <3> HIDE DEF lit
    <3> QED BY <3>1, QueryIs
  <2>3. KeyOf(c) = <<lit.value>> \/ KeyOf(c) = << >>
    <3>1. Operands(c).lit = lit
      BY DEF Operands
    <3> QED BY <3>1 DEF KeyOf
  <2> QED BY <2>2, <2>3
<1>3. \A i \in 1 .. n : KeyOf(q.conds[i]) \in Seq(Int)
  <2>1. ASSUME NEW i \in 1 .. n PROVE KeyOf(q.conds[i]) \in Seq(Int)
    <3>1. KeyOf(q.conds[i]) = << >> \/ \E v \in Int : KeyOf(q.conds[i]) = <<v>>
      BY <1>1, <1>2
    <3>2. CASE KeyOf(q.conds[i]) = << >>
      BY <3>2
    <3>3. CASE \E v \in Int : KeyOf(q.conds[i]) = <<v>>
      <4>1. PICK v \in Int : KeyOf(q.conds[i]) = <<v>>
        BY <3>3
      <4>2. <<v>> \in Seq(Int)
        OBVIOUS
      <4> QED BY <4>1, <4>2
    <3> QED BY <3>1, <3>2, <3>3
  <2> QED BY <2>1
<1>4. s \in Seq(Seq(Int)) /\ Len(s) = n /\ \A i \in 1 .. n : s[i] = KeyOf(q.conds[i])
  <2>1. s = [i \in 1 .. n |-> KeyOf(q.conds[i])]
    BY <1>1
  <2> HIDE DEF n
  <2> QED BY <1>1, <1>3, <2>1
<1>5. ks = FlattenSeq(s)
  BY DEF KeyPreds
<1>6. s # << >>
  <2>1. s = << >> => FlattenSeq(s) = << >>
    BY DEF FlattenSeq
  <2> QED BY <1>5, <2>1
<1>7. ks \in Seq(Int) /\ ks # << >>
  <2>1. Flat(s)[Len(s)] \in Seq(Int)
    <3>1. Len(s) \in 1 .. Len(s)
      BY <1>4, <1>6
    <3> HIDE DEF s
    <3> QED BY <1>4, <1>6, <3>1, FlatDef
  <2>2. FlattenSeq(s) = Flat(s)[Len(s)]
    <3> HIDE DEF s
    <3> QED BY <1>4, <1>6, FlattenIsFlat
  <2> QED BY <1>5, <2>1, <2>2
<1>8. 1 \in 1 .. Len(ks)
  BY <1>7
<1>9. PICK i \in 1 .. n : \E m \in 1 .. Len(s[i]) : ks[1] = s[i][m]
  <2> HIDE DEF s, ks, n
  <2>1. 1 \in 1 .. Len(FlattenSeq(s))
    BY <1>5, <1>8
  <2> QED BY <1>4, <1>5, <1>6, <2>1, FlattenFrom
<1>10. PICK m \in 1 .. Len(s[i]) : ks[1] = s[i][m]
  BY <1>9
<1>11. i \in DOMAIN q.conds /\ s[i] = KeyOf(q.conds[i])
  BY <1>1, <1>4
<1> HIDE DEF s, ks
<1>12. PICK v \in Int : KeyOf(q.conds[i]) = <<v>>
  BY <1>2, <1>10, <1>11
<1>13. m = 1
  BY <1>10, <1>11, <1>12
<1>14. ks[1] = v
  BY <1>10, <1>11, <1>12, <1>13
<1> QED BY <1>11, <1>12, <1>14 DEF ks

(* Rows in front of the key a scan begins at do not fulfil the conditions. *)
LEMMA KeySkips ==
  ASSUME NEW q \in Queries, KeyStandsFirst(q), Readable(q), Builds(q), Len(q.from) = 1,
         KeyPreds(q.conds) # << >>, NEW row, row[1] \in Nat, row[1] < KeyPreds(q.conds)[1]
  PROVE  ~Fulfils(row, q)
<1> DEFINE k == KeyPreds(q.conds)[1]
<1>1. \A i \in DOMAIN q.conds : KeyPredOk(q.conds[i], q.from[1])
  BY DEF Readable
<1>2. PICK i \in DOMAIN q.conds : KeyOf(q.conds[i]) = <<k>> /\ k \in Int
  BY <1>1, KeyFrom
<1> DEFINE c == q.conds[i]
           col == IF c.lhs.kind = "col" THEN c.lhs ELSE c.rhs
           lit == IF c.lhs.kind = "col" THEN c.rhs ELSE c.lhs
<1>3. /\ c.op \in {"=", ">", ">="} /\ c.lhs.kind # c.rhs.kind
      /\ c.lhs.kind \in {"lit", "col"} /\ c.rhs.kind \in {"lit", "col"}
  <2>1. c.op \in {"=", ">", ">="} /\ {c.lhs.kind, c.rhs.kind} = {"col", "lit"}
    BY <1>1 DEF KeyPredOk, KeyPredExpected
  <2>2. \A a, b : {a, b} = {"col", "lit"} =>
          a # b /\ a \in {"lit", "col"} /\ b \in {"lit", "col"}
    <3>1. ASSUME NEW a, NEW b, {a, b} = {"col", "lit"}
          PROVE  a # b /\ a \in {"lit", "col"} /\ b \in {"lit", "col"}
      <4>1. "col" \in {a, b} /\ "lit" \in {a, b} /\ a \in {"col", "lit"} /\ b \in {"col", "lit"}
        BY <3>1
      <4>2. "col" # "lit"
        OBVIOUS
      <4> QED BY ONLY <4>1, <4>2
    <3> QED BY <3>1
  <2> HIDE DEF c
  <2> QED BY <2>1, <2>2
<1>4. col.col = 1 /\ lit.value = k
  <2>1. Operands(c).col = col /\ Operands(c).lit = lit
    BY DEF Operands
  <2> HIDE DEF c, col, lit
  <2>2. KeyOf(c) = <<k>>
    BY <1>2 DEF c
  <2> HIDE DEF k
  <2> QED BY <2>1, <2>2 DEF KeyOf
<1>5. Place(col, q.from) = 1
  <2>1. Named(col, q.from)
    <3>1. \A x \in Range(Sides(c)) : x.kind = "col" => Named(x, q.from)
      BY DEF Builds, PredOk
    <3>2. c.lhs \in Range(Sides(c)) /\ c.rhs \in Range(Sides(c))
      BY DEF Sides, Range
    <3>3. col.kind = "col" /\ col \in {c.lhs, c.rhs}
      BY <1>3
    <3> HIDE DEF c, col
    <3> QED BY <3>1, <3>2, <3>3
  <2>2. Matches(col, q.from) # {}
    <3>1. Cardinality({}) = 0
      BY FS_EmptySet
    <3> HIDE DEF c, col
    <3>2. Cardinality(Matches(col, q.from)) = 1
      BY <2>1 DEF Named
    <3>3. ASSUME Matches(col, q.from) = {} PROVE FALSE
      BY ONLY <3>1, <3>2, <3>3
    <3> QED BY <3>3
  <2>3. \A x \in Matches(col, q.from) : x = 1
    <3>1. DOMAIN q.from = 1 .. 1
      BY QueryIs
    <3> HIDE DEF col
    <3> QED BY <1>4, <3>1 DEF Matches
  <2> HIDE DEF col
  <2> QED BY <2>2, <2>3 DEF Place
<1>6. ASSUME Fulfils(row, q) PROVE FALSE
  <2>1. Compare(c.op, ValueIn(c.lhs, row, q.from), ValueIn(c.rhs, row, q.from))
    BY <1>6 DEF Fulfils
  <2>2. CASE c.lhs.kind = "col"
    <3>1. ValueIn(c.lhs, row, q.from) = row[1] /\ ValueIn(c.rhs, row, q.from) = k
      BY <1>3, <1>4, <1>5, <2>2 DEF ValueIn
    <3>2. Compare(c.op, row[1], k)
      BY <2>1, <3>1
    <3> HIDE DEF c
    <3>3. k \in Int /\ row[1] < k
      BY <1>2
    <3> HIDE DEF k
    <3> QED BY <1>3, <3>2, <3>3 DEF Compare
  <2>3. CASE c.lhs.kind = "lit"
    <3>0. c.rhs.kind = "col" /\ c.rhs.col = 1 /\ c.op = "="
      BY <1>3, <1>4, <2>3 DEF KeyStandsFirst
    <3>1. ValueIn(c.rhs, row, q.from) = row[1] /\ ValueIn(c.lhs, row, q.from) = k
      BY <1>3, <1>4, <1>5, <2>3 DEF ValueIn
    <3>2. Compare("=", k, row[1])
      BY <2>1, <3>0, <3>1
    <3> HIDE DEF c
    <3>3. k \in Int /\ row[1] < k
      BY <1>2
    <3> HIDE DEF k
    <3> QED BY <3>2, <3>3 DEF Compare
  <2> QED BY <1>3, <2>2, <2>3
<1> QED BY <1>6

-----------------------------------------------------------------------------
(* The statement's tables, the rows of the one at a place, the product of  *)
(* those from a place on, and the rows a scan has passed.                  *)
LastPlace == Len(query.from)
Placed ==
  db \in Databases /\ query \in Queries /\ \A i \in Places : query.from[i] \in DOMAIN db
RowsAt(i) == RowsOf(query.from[i])
From(i)   == Product(query.from)[i]
At(s, i)  == Pos(s, query.from[i])

(* Places are numbered from 1 to the last.                                 *)
LEMMA PlacesFacts ==
  ASSUME Placed
  PROVE  /\ LastPlace \in Nat \ {0} /\ Places = 1 .. LastPlace
         /\ LastPlace \in Places /\ 1 \in Places
         /\ \A i \in 1 .. LastPlace - 1 : i \in Places /\ i + 1 \in Places /\ i # LastPlace
         /\ \A i \in Places : i = LastPlace \/ i \in 1 .. LastPlace - 1
<1>1. LastPlace \in Nat \ {0} /\ Places = 1 .. LastPlace
  BY QueryFacts DEF Placed, LastPlace
<1> QED BY <1>1

(* Rows, and products of them, are sequences of numbers.                   *)
LEMMA FromFacts ==
  ASSUME Placed, NEW i \in Places
  PROVE  /\ From(i) \in Seq(Seq(Nat)) /\ Len(From(i)) \in Nat
         /\ RowsAt(i) \in Seq(Seq(Nat)) /\ Len(RowsAt(i)) \in Nat
         /\ \A j \in 1 .. Len(RowsAt(i)) : RowsAt(i)[j] \in Seq(Nat) /\ RowsAt(i)[j] # NoRow
<1>1. Places = 1 .. Len(query.from) /\ query.from \in Seq(Nat) /\ query.from # << >>
  BY QueryFacts DEF Placed
<1>2. From(i) \in Seq(Seq(Nat))
  BY <1>1, ProductDef DEF Placed, From
<1>3. Len(From(i)) \in Nat
  BY <1>2
<1>4. /\ RowsAt(i) \in Seq(Seq(Nat)) /\ Len(RowsAt(i)) \in Nat
      /\ \A j \in 1 .. Len(RowsAt(i)) : RowsAt(i)[j] \in Seq(Nat) /\ RowsAt(i)[j] # NoRow
  BY RowsFacts DEF Placed, RowsAt
<1> QED BY <1>2, <1>3, <1>4

(* The product at the last place is its table.                             *)
LEMMA FromLast ==
  ASSUME Placed PROVE From(LastPlace) = RowsAt(LastPlace)
<1>1. Places = 1 .. Len(query.from) /\ query.from \in Seq(Nat) /\ query.from # << >>
  BY QueryFacts DEF Placed
<1> QED BY <1>1, ProductDef DEF Placed, From, RowsAt, LastPlace

(* The product at a place is its table times the product behind it.        *)
LEMMA FromNext ==
  ASSUME Placed, NEW i \in 1 .. LastPlace - 1
  PROVE  From(i) = Times(RowsAt(i), From(i + 1))[Len(RowsAt(i))]
<1>1. Places = 1 .. Len(query.from) /\ query.from \in Seq(Nat) /\ query.from # << >>
  BY QueryFacts DEF Placed
<1> QED BY <1>1, ProductDef DEF Placed, From, RowsAt, LastPlace

(* A cursor between two calls has passed no more rows than there are.      *)
LEMMA PosRange ==
  ASSUME db \in Databases, NEW t \in DOMAIN db, NEW s, TreeOK(s)
  PROVE  Pos(s, t) \in 0 .. Len(RowsOf(t))
<1> DEFINE c == s.cur[t]
<1>1. /\ c.page \in Pages(t) \cup {Null}
      /\ c.held => c.page \in Pages(t) /\ c.cell \in DOMAIN Leaves(t)[c.page]
      /\ ~c.held => c.cell = 1
  BY DEF TreeOK, Settled
<1>2. Len(RowsOf(t)) \in Nat
  BY RowsFacts
<1>3. CASE ~c.init
  BY <1>2, <1>3 DEF Pos
<1>4. CASE c.init /\ c.page = Null
  BY <1>2, <1>4 DEF Pos
<1>5. CASE c.init /\ c.page # Null
  <2>1. c.page \in Pages(t)
    BY <1>1, <1>5
  <2>2. /\ Start(t, c.page) \in Nat /\ Len(Leaves(t)[c.page]) \in Nat
        /\ Start(t, c.page) + Len(Leaves(t)[c.page]) <= Len(RowsOf(t))
    BY <2>1, LeafLen
  <2>3. c.cell \in Nat /\ c.cell >= 1 /\ (c.cell = 1 \/ c.cell <= Len(Leaves(t)[c.page]))
    <3>1. DOMAIN Leaves(t)[c.page] = 1 .. Len(Leaves(t)[c.page])
      BY <2>1, TableFacts
    <3> DEFINE m == Len(Leaves(t)[c.page])
    <3>2. m \in Nat /\ (c.held => c.cell \in 1 .. m) /\ (~c.held => c.cell = 1)
      BY <1>1, <2>2, <3>1
    <3>3. CASE c.held
      <4>1. c.cell \in 1 .. m
        BY <3>2, <3>3
      <4> HIDE DEF c, m
      <4> QED BY <3>2, <4>1 DEF m
    <3> QED BY <3>2, <3>3
  <2>4. Pos(s, t) = Start(t, c.page) + c.cell - 1
    BY <1>5 DEF Pos
  <2> DEFINE x == Start(t, c.page)
             y == Len(Leaves(t)[c.page])
             z == Len(RowsOf(t))
             l == c.cell
  <2>5. /\ x \in Nat /\ y \in Nat /\ z \in Nat /\ l \in Nat
        /\ x + y <= z /\ l >= 1 /\ (l = 1 \/ l <= y)
    BY ONLY <1>2, <2>2, <2>3
  <2> HIDE DEF c, x, y, z, l
  <2>6. x + l - 1 \in 0 .. z
    BY ONLY <2>5
  <2> QED BY ONLY <2>4, <2>6 DEF x, z, l
<1> QED BY <1>3, <1>4, <1>5

(* A scan has passed no more rows than its table has.                      *)
LEMMA AtRange ==
  ASSUME Placed, NEW s, TreeOK(s), NEW i \in Places
  PROVE  At(s, i) \in 0 .. Len(RowsAt(i))
BY PosRange DEF Placed, At, RowsAt

-----------------------------------------------------------------------------
(* The rows the products are at are those the scans before the last gave   *)
(* last; behind a product that has none yet, no scan has begun.            *)
Ordered(s, f) ==
  /\ f[LastPlace] = NoRow
  /\ \A i \in 1 .. LastPlace - 1 :
       IF f[i] = NoRow THEN \A j \in i .. LastPlace : At(s, j) = 0 /\ f[j] = NoRow
       ELSE At(s, i) \in 1 .. Len(RowsAt(i)) /\ f[i] = RowsAt(i)[At(s, i)]

(* How many rows of the product from a place on are passed.                *)
Counts(d, s, f) ==
  /\ d \in [Places -> Nat]
  /\ d[LastPlace] = At(s, LastPlace)
  /\ \A i \in 1 .. LastPlace - 1 :
       d[i] = IF f[i] = NoRow THEN 0
              ELSE Len(Times(RowsAt(i), From(i + 1))[At(s, i) - 1]) + d[i + 1]

(* The products before the place that is called have a row; if the call    *)
(* behind it found none, the product there has passed all its rows; where  *)
(* source_2 was rewound, no row of it has come since.                      *)
Walked(d, f, a, no, re) ==
  /\ \A j \in Places : j < a \/ (no /\ j = a) => f[j] # NoRow
  /\ no => d[a + 1] = Len(From(a + 1))
  /\ \A j \in re : j \in 1 .. LastPlace - 1 /\ d[j + 1] = 0

(* Never more rows than the product has.                                   *)
LEMMA CountsRange ==
  ASSUME Placed, NEW s, TreeOK(s), NEW f, Ordered(s, f), NEW d, Counts(d, s, f)
  PROVE  \A i \in Places : d[i] \in 0 .. Len(From(i))
<1> DEFINE n == LastPlace
           S == {i \in 1 .. n : d[i] \in 0 .. Len(From(i))}
<1>1. n \in Nat \ {0} /\ Places = 1 .. n /\ n \in 1 .. n
  BY PlacesFacts
<1>2. n \in S
  <2>1. d[n] = At(s, n)
    BY DEF Counts
  <2> QED BY <1>1, <2>1, AtRange, FromLast
<1>3. ASSUME NEW i \in 1 .. n - 1, i + 1 \in S PROVE i \in S
  <2>1. i \in Places /\ i + 1 \in Places
    BY PlacesFacts
  <2>2. /\ RowsAt(i) \in Seq(Seq(Nat)) /\ From(i + 1) \in Seq(Seq(Nat))
        /\ Len(From(i)) \in Nat /\ Len(From(i + 1)) \in Nat
    BY <2>1, FromFacts
  <2>3. d[i] = IF f[i] = NoRow THEN 0
               ELSE Len(Times(RowsAt(i), From(i + 1))[At(s, i) - 1]) + d[i + 1]
    BY DEF Counts
  <2>4. d[i + 1] \in 0 .. Len(From(i + 1))
    BY <1>3
  <2>5. CASE f[i] = NoRow
    BY <1>1, <2>1, <2>2, <2>3, <2>5
  <2>6. CASE f[i] # NoRow
    <3>1. At(s, i) \in 1 .. Len(RowsAt(i))
      BY <2>6 DEF Ordered
    <3> DEFINE a == Len(Times(RowsAt(i), From(i + 1))[At(s, i) - 1])
               b == Len(Times(RowsAt(i), From(i + 1))[At(s, i)])
    <3>2. /\ b = a + Len(From(i + 1)) /\ a \in Nat /\ b \in Nat
          /\ b <= Len(Times(RowsAt(i), From(i + 1))[Len(RowsAt(i))])
      BY <2>2, <3>1, TimesLen
    <3>3. b <= Len(From(i))
      BY <3>2, FromNext
    <3>4. d[i] = a + d[i + 1]
      BY <2>3, <2>6
    <3> HIDE DEF a, b
    <3>5. d[i] \in 0 .. Len(From(i))
      BY <2>2, <2>4, <3>2, <3>3, <3>4
    <3> QED BY <1>1, <2>1, <3>5
  <2> QED BY <2>5, <2>6
<1>4. \A i \in 1 .. n : i \in S
  <2> HIDE DEF S
  <2> QED BY <1>1, <1>2, <1>3, DownInduction
<1> QED BY <1>1, <1>4

(* A function of the places whose values are pieces is a row of pieces.    *)
LEMMA RowOfPieces ==
  ASSUME NEW n \in Nat \ {0}, NEW g, g = [i \in 1 .. n |-> g[i]],
         \A i \in 1 .. n : g[i] \in Seq(Nat)
  PROVE  g \in Seq(Seq(Nat)) /\ Len(g) = n /\ g # << >>
<1> DEFINE P == Seq(Nat)
<1>1. g \in [1 .. n -> P]
  OBVIOUS
<1> HIDE DEF P
<1>2. g \in Seq(P) /\ Len(g) = n
  BY ONLY <1>1, n \in Nat \ {0}
<1>3. g # << >>
  BY ONLY <1>2, n \in Nat \ {0}
<1> QED BY <1>2, <1>3 DEF P

(* The row the scans and products are at next is the next row of the       *)
(* product of all tables.                                                  *)
LEMMA NextRow ==
  ASSUME Placed, NEW s, TreeOK(s), NEW f, Ordered(s, f), NEW d, Counts(d, s, f),
         \A i \in 1 .. LastPlace - 1 : f[i] # NoRow,
         At(s, LastPlace) < Len(RowsAt(LastPlace)),
         NEW r, r = RowsAt(LastPlace)[At(s, LastPlace) + 1]
  PROVE  /\ d[1] + 1 \in 1 .. Len(From(1))
         /\ FlattenSeq([i \in Places |-> IF i = LastPlace THEN r ELSE f[i]]) = From(1)[d[1] + 1]
<1> DEFINE n == LastPlace
           S == {i \in 1 .. n : d[i] < Len(From(i))}
           w == [i \in 1 .. n |-> From(i)[d[i] + 1]]
           row == [i \in 1 .. n |-> IF i = n THEN r ELSE f[i]]
<1>1. n \in Nat \ {0} /\ Places = 1 .. n /\ n \in 1 .. n /\ n >= 1
  BY PlacesFacts
<1>2. d[n] = At(s, n) /\ \A i \in Places : d[i] \in 0 .. Len(From(i)) /\ Len(From(i)) \in Nat
  BY CountsRange, FromFacts DEF Counts
<1>3. ASSUME NEW i \in 1 .. n - 1
      PROVE  /\ d[i] = Len(Times(RowsAt(i), From(i + 1))[At(s, i) - 1]) + d[i + 1]
             /\ At(s, i) \in 1 .. Len(RowsAt(i)) /\ f[i] = RowsAt(i)[At(s, i)]
             /\ RowsAt(i) \in Seq(Seq(Nat)) /\ From(i + 1) \in Seq(Seq(Nat))
             /\ d[i + 1] \in Nat /\ Len(From(i + 1)) \in Nat
             /\ i \in Places /\ i + 1 \in 1 .. n
  <2>1. i \in Places /\ i + 1 \in Places
    BY PlacesFacts
  <2>2. d[i] = Len(Times(RowsAt(i), From(i + 1))[At(s, i) - 1]) + d[i + 1]
    BY DEF Counts
  <2>3. At(s, i) \in 1 .. Len(RowsAt(i)) /\ f[i] = RowsAt(i)[At(s, i)]
    BY DEF Ordered
  <2>4. RowsAt(i) \in Seq(Seq(Nat)) /\ From(i + 1) \in Seq(Seq(Nat))
    BY <2>1, FromFacts
  <2>5. d[i + 1] \in Nat /\ Len(From(i + 1)) \in Nat
    BY <1>2, <2>1
  <2>6. i + 1 \in 1 .. n
    BY <1>1
  <2> QED BY ONLY <2>1, <2>2, <2>3, <2>4, <2>5, <2>6
<1>4. n \in S
  BY <1>1, <1>2, FromLast
<1>5. ASSUME NEW i \in 1 .. n - 1, i + 1 \in S PROVE i \in S
  <2> DEFINE a == Len(Times(RowsAt(i), From(i + 1))[At(s, i) - 1])
             b == Len(Times(RowsAt(i), From(i + 1))[At(s, i)])
  <2>1. /\ b = a + Len(From(i + 1)) /\ a \in Nat /\ b \in Nat
        /\ b <= Len(Times(RowsAt(i), From(i + 1))[Len(RowsAt(i))])
    BY <1>3, TimesLen
  <2>2. b <= Len(From(i))
    BY <2>1, FromNext
  <2>3. d[i] = a + d[i + 1] /\ d[i + 1] \in Nat /\ Len(From(i + 1)) \in Nat
    BY <1>3
  <2>4. Len(From(i)) \in Nat /\ i \in 1 .. n
    BY <1>2, <1>3, <1>1
  <2> HIDE DEF a, b
  <2>5. d[i + 1] < Len(From(i + 1))
    BY <1>5
  <2>6. d[i] < Len(From(i))
    BY <2>1, <2>2, <2>3, <2>4, <2>5
  <2> QED BY <2>4, <2>6
<1>6. \A i \in 1 .. n : i \in S
  <2> HIDE DEF S
  <2> QED BY <1>1, <1>4, <1>5, DownInduction
<1>7. \A i \in 1 .. n : d[i] + 1 \in 1 .. Len(From(i))
  BY <1>1, <1>2, <1>6
<1>8. \A i \in 1 .. n : w[i] \in Seq(Nat)
  <2>1. ASSUME NEW i \in 1 .. n PROVE From(i)[d[i] + 1] \in Seq(Nat)
    <3>1. From(i) \in Seq(Seq(Nat)) /\ d[i] + 1 \in 1 .. Len(From(i))
      BY <1>1, <1>7, FromFacts
    <3> QED BY <3>1, ElementOfSeq
  <2> QED BY <2>1
<1>9. row[n] = r /\ w[n] = r
  BY <1>1, <1>2, FromLast
<1>10. ASSUME NEW i \in 1 .. n - 1 PROVE w[i] = row[i] \o w[i + 1]
  <2> DEFINE a == Len(Times(RowsAt(i), From(i + 1))[At(s, i) - 1])
             j == d[i + 1] + 1
  <2>1. j \in 1 .. Len(From(i + 1)) /\ i \in 1 .. n /\ i # n
    BY <1>1, <1>3, <1>7
  <2>2. Times(RowsAt(i), From(i + 1))[Len(RowsAt(i))][a + j] =
          RowsAt(i)[At(s, i)] \o From(i + 1)[j]
    <3> DEFINE p == At(s, i)
               A == RowsAt(i)
               B == From(i + 1)
    <3>1. p \in 1 .. Len(A) /\ A \in Seq(Seq(Nat)) /\ B \in Seq(Seq(Nat)) /\ j \in 1 .. Len(B)
      BY <1>3, <2>1
    <3> HIDE DEF j, p, A, B
    <3>2. JoinsAt(A, B, p, j)
      BY <3>1, TimesAt
    <3> QED BY <3>2 DEF p, A, B, JoinsAt
  <2>3. From(i)[a + j] = f[i] \o From(i + 1)[j]
    BY <1>3, <2>2, FromNext
  <2>4. a + j = d[i] + 1
    <3>1. a \in Nat
      BY <1>3, TimesLen
    <3>2. d[i] = a + d[i + 1] /\ d[i + 1] \in Nat
      BY <1>3
    <3> HIDE DEF a
    <3> QED BY <3>1, <3>2
  <2>5. w[i] = From(i)[d[i] + 1] /\ w[i + 1] = From(i + 1)[j] /\ row[i] = f[i]
    BY <1>3, <2>1
  <2> HIDE DEF a, j, w, row
  <2> QED BY <2>3, <2>4, <2>5
<1>11. row \in Seq(Seq(Nat)) /\ Len(row) = n /\ row # << >>
  <2>1. \A i \in 1 .. n : row[i] \in Seq(Nat)
    <3>1. ASSUME NEW i \in 1 .. n PROVE row[i] \in Seq(Nat)
      <4>1. CASE i = n
        BY <1>8, <1>9, <4>1
      <4>2. CASE i # n
        <5>1. i \in 1 .. n - 1
          BY <1>1, <4>2
        <5>2. row[i] = RowsAt(i)[At(s, i)] /\ At(s, i) \in 1 .. Len(RowsAt(i))
          BY <1>3, <4>2, <5>1
        <5> QED BY <1>3, <5>1, <5>2, FromFacts
      <4> QED BY <4>1, <4>2
    <3> QED BY <3>1
  <2>2. row = [i \in 1 .. n |-> row[i]]
    OBVIOUS
  <2>3. n \in Nat \ {0}
    BY <1>1
  <2> HIDE DEF row, n
  <2>4. row \in Seq(Seq(Nat)) /\ Len(row) = n /\ row # << >>
    BY ONLY <2>1, <2>2, <2>3, RowOfPieces
  <2> QED BY ONLY <2>4
<1>12. FlattenSeq(row) = w[1]
  <2> DEFINE Q == Nat
  <2>1. /\ row \in Seq(Seq(Q)) /\ row # << >> /\ Len(row) = n
        /\ \A i \in 1 .. n : w[i] \in Seq(Q)
        /\ w[n] = row[n]
        /\ \A i \in 1 .. n - 1 : w[i] = row[i] \o w[i + 1]
    BY <1>8, <1>9, <1>10, <1>11
  <2> HIDE DEF row, w, n, Q
  <2>2. /\ \A i \in 1 .. Len(row) : w[i] \in Seq(Q)
        /\ w[Len(row)] = row[Len(row)]
        /\ \A i \in 1 .. Len(row) - 1 : w[i] = row[i] \o w[i + 1]
    BY ONLY <2>1
  <2> QED BY ONLY <2>1, <2>2, FlattenRight
<1>13. w[1] = From(1)[d[1] + 1] /\ 1 \in 1 .. n
  BY <1>1
<1>14. [i \in Places |-> IF i = LastPlace THEN r ELSE f[i]] = row
  BY <1>1
<1> HIDE DEF row, w
<1> QED BY <1>7, <1>12, <1>13, <1>14

(* The last scan gives a row: one more row of every product is passed.     *)
LEMMA LastMoves ==
  ASSUME Placed, NEW s, NEW r, NEW f, Ordered(s, f), NEW d, Counts(d, s, f),
         \A i \in 1 .. LastPlace - 1 : f[i] # NoRow /\ At(r, i) = At(s, i),
         At(r, LastPlace) = At(s, LastPlace) + 1
  PROVE  Ordered(r, f) /\ Counts([i \in Places |-> d[i] + 1], r, f)
<1> DEFINE n == LastPlace
           e == [i \in Places |-> d[i] + 1]
<1>1. /\ n \in Places
      /\ \A i \in 1 .. n - 1 : i \in Places /\ i + 1 \in Places
  BY PlacesFacts
<1>2. Ordered(r, f)
  BY DEF Ordered
<1>3. \A i \in Places : d[i] \in Nat /\ e[i] = d[i] + 1
  BY DEF Counts
<1>4. e \in [Places -> Nat]
  <2>1. \A i \in Places : d[i] + 1 \in Nat
    BY <1>3
  <2> QED BY <2>1
<1>5. e[n] = At(r, n)
  BY <1>1, <1>3 DEF Counts
<1> HIDE DEF e
<1>6. ASSUME NEW i \in 1 .. n - 1
      PROVE  e[i] = IF f[i] = NoRow THEN 0
                    ELSE Len(Times(RowsAt(i), From(i + 1))[At(r, i) - 1]) + e[i + 1]
  <2> DEFINE a == Len(Times(RowsAt(i), From(i + 1))[At(s, i) - 1])
  <2>1. d[i] = a + d[i + 1]
    BY DEF Counts
  <2>2. At(r, i) = At(s, i) /\ f[i] # NoRow
    OBVIOUS
  <2>3. a \in Nat
    <3>1. i \in Places /\ i + 1 \in Places
      BY <1>1
    <3>2. RowsAt(i) \in Seq(Seq(Nat)) /\ From(i + 1) \in Seq(Seq(Nat))
      BY <3>1, FromFacts
    <3>3. At(s, i) \in 1 .. Len(RowsAt(i))
      BY <2>2 DEF Ordered
    <3> QED BY <3>2, <3>3, TimesLen
  <2>4. e[i] = d[i] + 1 /\ e[i + 1] = d[i + 1] + 1 /\ d[i + 1] \in Nat
    BY <1>1, <1>3
  <2>5. e[i] = a + e[i + 1]
    <3> HIDE DEF a
    <3> QED BY <2>1, <2>3, <2>4
  <2> QED BY <2>2, <2>5
<1> QED BY <1>2, <1>4, <1>5, <1>6 DEF Counts, e

(* A product gets its first row: no more rows are passed.                  *)
LEMMA FirstMoves ==
  ASSUME Placed, NEW s, NEW r, NEW f, Ordered(s, f), NEW d, Counts(d, s, f),
         NEW a \in 1 .. LastPlace - 1, f[a] = NoRow, \A i \in Places : i < a => f[i] # NoRow,
         DOMAIN f = Places, NEW row, row # NoRow, Len(RowsAt(a)) \in Nat \ {0}, row = RowsAt(a)[1],
         \A i \in Places : At(r, i) = IF i = a THEN 1 ELSE At(s, i)
  PROVE  Ordered(r, [f EXCEPT ![a] = row]) /\ Counts(d, r, [f EXCEPT ![a] = row])
<1> DEFINE n == LastPlace
           g == [f EXCEPT ![a] = row]
<1>1. /\ n \in Nat \ {0} /\ Places = 1 .. n /\ n \in Places
      /\ \A i \in 1 .. n - 1 : i \in Places /\ i + 1 \in Places
  BY PlacesFacts
<1>2. \A i \in Places : g[i] = IF i = a THEN row ELSE f[i]
  OBVIOUS
<1>3. a # n /\ a \in Places /\ \A j \in a .. n : At(s, j) = 0 /\ f[j] = NoRow
  BY <1>1 DEF Ordered
<1> HIDE DEF g
<1>4. Ordered(r, g)
  <2>1. g[n] = NoRow
    BY <1>1, <1>2, <1>3 DEF Ordered
  <2>2. ASSUME NEW i \in 1 .. n - 1, g[i] = NoRow, NEW j \in i .. n
        PROVE  At(r, j) = 0 /\ g[j] = NoRow
    <3>1. i \in Places /\ j \in Places /\ i # a
      BY <1>1, <1>2, <2>2
    <3>2. f[i] = NoRow
      BY <1>2, <2>2, <3>1
    <3>3. i > a
      BY <1>1, <1>3, <3>1, <3>2
    <3>4. j \in a .. n /\ j # a
      BY <1>1, <1>3, <3>3
    <3> QED BY <1>2, <1>3, <3>1, <3>4
  <2>3. ASSUME NEW i \in 1 .. n - 1, g[i] # NoRow
        PROVE  At(r, i) \in 1 .. Len(RowsAt(i)) /\ g[i] = RowsAt(i)[At(r, i)]
    <3>1. CASE i = a
      <4>1. At(r, i) = 1 /\ g[i] = row
        BY <1>2, <1>3, <3>1
      <4> QED BY <3>1, <4>1
    <3>2. CASE i # a
      <4>1. i \in Places
        BY <1>1
      <4>2. At(r, i) = At(s, i) /\ g[i] = f[i]
        BY <1>2, <3>2, <4>1
      <4> QED BY <2>3, <4>2 DEF Ordered
    <3> QED BY <3>1, <3>2
  <2> QED BY <2>1, <2>2, <2>3 DEF Ordered
<1>5. d \in [Places -> Nat] /\ d[n] = At(r, n)
  BY <1>1, <1>3 DEF Counts
<1>6. ASSUME NEW i \in 1 .. n - 1
      PROVE  d[i] = IF g[i] = NoRow THEN 0
                    ELSE Len(Times(RowsAt(i), From(i + 1))[At(r, i) - 1]) + d[i + 1]
  <2>1. i \in Places
    BY <1>1
  <2>2. CASE i # a
    <3>1. At(r, i) = At(s, i) /\ g[i] = f[i]
      BY <1>2, <2>1, <2>2
    <3> QED BY <3>1 DEF Counts
  <2>3. CASE i = a
    <3>1. At(r, a) - 1 = 0 /\ g[a] = row
      BY <1>2, <1>3
    <3>2. d[a] = 0
      BY DEF Counts
    <3>3. d[a + 1] = 0
      <4>1. CASE a + 1 = n
        BY <1>1, <1>3, <4>1 DEF Counts
      <4>2. CASE a + 1 # n
        <5>1. a + 1 \in 1 .. n - 1 /\ a + 1 \in a .. n
          BY <1>1, <4>2
        <5>2. f[a + 1] = NoRow
          BY <1>3, <5>1
        <5> QED BY <5>1, <5>2 DEF Counts
      <4> QED BY <4>1, <4>2
    <3>4. Len(Times(RowsAt(a), From(a + 1))[0]) = 0
      <4>1. a \in Places /\ a + 1 \in Places
        BY <1>1
      <4>2. RowsAt(a) \in Seq(Seq(Nat)) /\ From(a + 1) \in Seq(Seq(Nat))
        BY <4>1, FromFacts
      <4>3. Times(RowsAt(a), From(a + 1))[0] = << >>
        BY <4>2, TimesDef
      <4> QED BY <4>3
    <3> QED BY <2>3, <3>1, <3>2, <3>3, <3>4
  <2> QED BY <2>2, <2>3
<1> QED BY <1>4, <1>5, <1>6 DEF Counts, g

(* What moves when a product takes its next row and source_2 is rewound.   *)
MovesOn(s, r, f, g, row, a) ==
  /\ f[a] # NoRow /\ row # NoRow
  /\ At(s, a) + 1 \in 1 .. Len(RowsAt(a)) /\ row = RowsAt(a)[At(s, a) + 1]
  /\ \A i \in Places :
       /\ At(r, i) = IF i > a THEN 0 ELSE IF i = a THEN At(s, a) + 1 ELSE At(s, i)
       /\ g[i] = IF i = a THEN row ELSE IF i > a THEN NoRow ELSE f[i]

(* A product moves on to its next row when source_2 has run out, and       *)
(* source_2 begins again: no more rows are passed.                         *)
LEMMA NextMoves ==
  ASSUME Placed, NEW s, NEW r, NEW f, Ordered(s, f), NEW d, Counts(d, s, f),
         NEW a \in 1 .. LastPlace - 1, d[a + 1] = Len(From(a + 1)),
         NEW g, NEW row, MovesOn(s, r, f, g, row, a),
         NEW e, e = [i \in Places |-> IF i > a THEN 0 ELSE d[i]]
  PROVE  Ordered(r, g) /\ Counts(e, r, g)
<1> DEFINE n == LastPlace
<1>0. /\ f[a] # NoRow /\ row # NoRow
      /\ At(s, a) + 1 \in 1 .. Len(RowsAt(a)) /\ row = RowsAt(a)[At(s, a) + 1]
      /\ \A i \in Places :
           /\ At(r, i) = IF i > a THEN 0 ELSE IF i = a THEN At(s, a) + 1 ELSE At(s, i)
           /\ g[i] = IF i = a THEN row ELSE IF i > a THEN NoRow ELSE f[i]
  BY DEF MovesOn
<1>1. /\ n \in Nat \ {0} /\ Places = 1 .. n /\ n \in Places
      /\ \A i \in 1 .. n - 1 : i \in Places /\ i + 1 \in Places
      /\ a \in Places /\ a # n /\ n > a /\ ~(a > a)
  BY PlacesFacts
<1>2. \A i \in Places : e[i] = IF i > a THEN 0 ELSE d[i]
  OBVIOUS
<1>3. e \in [Places -> Nat]
  <2>1. d \in [Places -> Nat]
    BY <1>0 DEF Counts
  <2> QED BY <2>1
<1>4. Ordered(r, g)
  <2>1. g[n] = NoRow
    BY <1>0, <1>1
  <2>2. ASSUME NEW i \in 1 .. n - 1, g[i] = NoRow, NEW j \in i .. n
        PROVE  At(r, j) = 0 /\ g[j] = NoRow
    <3>1. i \in Places /\ j \in Places /\ i # a
      BY <1>0, <1>1, <2>2
    <3>2. i > a
      <4>1. CASE i < a
        <5>1. ~(i > a) /\ a \in i .. n
          BY <1>1, <3>1, <4>1
        <5>2. f[i] = NoRow
          BY <1>0, <2>2, <3>1, <5>1
        <5>3. f[a] = NoRow
          BY <5>1, <5>2 DEF Ordered
        <5> QED BY <1>0, <5>3
      <4> QED BY <1>1, <3>1, <4>1
    <3>3. j > a /\ j # a
      BY <1>1, <3>1, <3>2
    <3> QED BY <1>0, <3>1, <3>3
  <2>3. ASSUME NEW i \in 1 .. n - 1, g[i] # NoRow
        PROVE  At(r, i) \in 1 .. Len(RowsAt(i)) /\ g[i] = RowsAt(i)[At(r, i)]
    <3>0. i \in Places
      BY <1>0, <1>1
    <3>1. CASE i = a
      <4>1. At(r, i) = At(s, a) + 1 /\ g[i] = row
        BY <1>0, <1>1, <3>1
      <4> QED BY <1>0, <3>1, <4>1
    <3>2. CASE i # a
      <4>1. ~(i > a)
        BY <1>0, <2>3, <3>0, <3>2
      <4>2. At(r, i) = At(s, i) /\ g[i] = f[i]
        BY <1>0, <3>0, <3>2, <4>1
      <4> QED BY <2>3, <4>2 DEF Ordered
    <3> QED BY <3>1, <3>2
  <2> QED BY <2>1, <2>2, <2>3 DEF Ordered
<1>5. e[n] = At(r, n)
  BY <1>0, <1>1, <1>2
<1>6. ASSUME NEW i \in 1 .. n - 1
      PROVE  e[i] = IF g[i] = NoRow THEN 0
                    ELSE Len(Times(RowsAt(i), From(i + 1))[At(r, i) - 1]) + e[i + 1]
  <2>1. i \in Places /\ i + 1 \in Places
    BY <1>0, <1>1
  <2>2. CASE i > a
    <3>1. e[i] = 0 /\ g[i] = NoRow
      BY <1>0, <1>1, <1>2, <2>1, <2>2
    <3> QED BY <3>1
  <2>3. CASE i < a
    <3>1. ~(i > a) /\ i # a /\ ~(i + 1 > a)
      BY <1>1, <2>1, <2>3
    <3>2. At(r, i) = At(s, i) /\ g[i] = f[i] /\ e[i] = d[i] /\ e[i + 1] = d[i + 1]
      BY <1>0, <1>2, <2>1, <3>1
    <3> QED BY <3>2 DEF Counts
  <2>4. CASE i = a
    <3> DEFINE p == At(s, a)
               x == Len(Times(RowsAt(a), From(a + 1))[p - 1])
               y == Len(Times(RowsAt(a), From(a + 1))[p])
    <3>1. At(r, a) = p + 1 /\ g[a] = row /\ e[a] = d[a] /\ e[a + 1] = 0
      <4>1. a + 1 > a /\ a + 1 \in Places
        BY <1>0, <1>1
      <4> QED BY <1>0, <1>1, <1>2, <4>1
    <3>2. d[a] = x + Len(From(a + 1))
      BY <1>0 DEF Counts
    <3>3. p \in 1 .. Len(RowsAt(a))
      BY <1>0 DEF Ordered
    <3>4. y = x + Len(From(a + 1)) /\ y \in Nat
      <4>1. RowsAt(a) \in Seq(Seq(Nat)) /\ From(a + 1) \in Seq(Seq(Nat))
        BY <2>1, <2>4, FromFacts
      <4> HIDE DEF p
      <4> QED BY <3>3, <4>1, TimesLen
    <3>5. (p + 1) - 1 = p
      BY <3>3
    <3>6. e[a] = y + e[a + 1]
      <4> HIDE DEF x, y
      <4> QED BY <3>1, <3>2, <3>4
    <3>7. e[a] = Len(Times(RowsAt(a), From(a + 1))[At(r, a) - 1]) + e[a + 1]
      BY <3>1, <3>5, <3>6
    <3> QED BY <1>0, <2>4, <3>1, <3>7
  <2> QED BY <1>1, <2>1, <2>2, <2>3, <2>4
<1> QED BY <1>3, <1>4, <1>5, <1>6 DEF Counts

(* A product whose first factor has run out, and whose second factor had,  *)
(* has run out.                                                            *)
LEMMA AllPassed ==
  ASSUME Placed, NEW s, TreeOK(s), NEW f, Ordered(s, f), NEW d, Counts(d, s, f),
         NEW a \in 1 .. LastPlace - 1, At(s, a) = Len(RowsAt(a)),
         f[a] # NoRow => d[a + 1] = Len(From(a + 1))
  PROVE  d[a] = Len(From(a))
<1>1. a \in Places /\ a + 1 \in Places
  BY PlacesFacts
<1>2. RowsAt(a) \in Seq(Seq(Nat)) /\ From(a + 1) \in Seq(Seq(Nat)) /\ Len(RowsAt(a)) \in Nat
  BY <1>1, FromFacts
<1>3. From(a) = Times(RowsAt(a), From(a + 1))[Len(RowsAt(a))]
  BY FromNext
<1>4. CASE f[a] = NoRow
  <2>1. At(s, a) = 0
    <3>1. a \in a .. LastPlace
      BY <1>1, PlacesFacts
    <3> QED BY <1>4, <3>1 DEF Ordered
  <2>2. Times(RowsAt(a), From(a + 1))[0] = << >>
    BY <1>2, TimesDef
  <2>3. From(a) = << >>
    BY <1>3, <2>1, <2>2
  <2>4. d[a] = 0
    BY <1>4 DEF Counts
  <2> QED BY <2>3, <2>4
<1>5. CASE f[a] # NoRow
  <2> DEFINE p == At(s, a)
  <2>1. d[a] = Len(Times(RowsAt(a), From(a + 1))[p - 1]) + d[a + 1]
    BY <1>5 DEF Counts
  <2>2. p \in 1 .. Len(RowsAt(a))
    BY <1>5 DEF Ordered
  <2> HIDE DEF p
  <2>3. Len(Times(RowsAt(a), From(a + 1))[p]) =
          Len(Times(RowsAt(a), From(a + 1))[p - 1]) + Len(From(a + 1))
    BY <1>2, <2>2, TimesLen
  <2> QED BY <1>3, <1>5, <2>1, <2>3 DEF p
<1> QED BY <1>4, <1>5

(* So has one whose second factor is empty.                                *)
LEMMA EmptyPassed ==
  ASSUME Placed, NEW s, TreeOK(s), NEW f, Ordered(s, f), NEW d, Counts(d, s, f),
         NEW a \in 1 .. LastPlace - 1, Len(From(a + 1)) = 0
  PROVE  d[a] = Len(From(a))
<1>1. a \in Places /\ a + 1 \in Places
  BY PlacesFacts
<1>2. RowsAt(a) \in Seq(Seq(Nat)) /\ From(a + 1) \in Seq(Seq(Nat)) /\ Len(RowsAt(a)) \in Nat
  BY <1>1, FromFacts
<1>3. Len(From(a)) = 0
  <2>1. Len(RowsAt(a)) \in 0 .. Len(RowsAt(a))
    BY <1>2
  <2>2. Len(Times(RowsAt(a), From(a + 1))[Len(RowsAt(a))]) = 0
    BY <1>2, <2>1, TimesEmpty
  <2> QED BY <2>2, FromNext
<1>4. d[a] \in 0 .. Len(From(a))
  BY <1>1, CountsRange
<1> QED BY <1>3, <1>4

(* Places have tables of their own.                                        *)
LEMMA Distinct ==
  ASSUME Placed, IsInjective(query.from), NEW i \in Places, NEW j \in Places, i # j
  PROVE  query.from[i] # query.from[j] /\ query.from[i] \in DOMAIN db /\ query.from[j] \in DOMAIN db
<1>1. DOMAIN query.from = Places
  BY QueryFacts DEF Placed
<1> QED BY <1>1 DEF IsInjective, Placed

(* A call of a scan moves its own cursor only.                             *)
LEMMA ScanMoves ==
  ASSUME Placed, IsInjective(query.from), NEW s, TreeOK(s), NEW a \in Places
  PROVE  LET r == CursorNext(s, query.from[a]) IN
         /\ \A i \in Places : i # a => At(r.st, i) = At(s, i)
         /\ r.row = NoRow => At(s, a) = Len(RowsAt(a)) /\ At(r.st, a) = At(s, a)
         /\ r.row # NoRow => /\ At(s, a) + 1 \in 1 .. Len(RowsAt(a))
                             /\ r.row = RowsAt(a)[At(s, a) + 1]
                             /\ At(r.st, a) = At(s, a) + 1
<1> DEFINE t == query.from[a]
           r == CursorNext(s, t)
<1>1. t \in DOMAIN db /\ db \in Databases
  BY DEF Placed
<1> HIDE DEF r
<1>2. \A u \in DOMAIN db : u # t => r.st.cur[u] = s.cur[u]
  BY <1>1, NextPos DEF r
<1>3. r.row = NoRow => Pos(s, t) = Len(RowsOf(t)) /\ Pos(r.st, t) = Pos(s, t)
  BY <1>1, NextPos DEF r
<1>4. r.row # NoRow => /\ Pos(s, t) \in 0 .. Len(RowsOf(t)) - 1
                       /\ r.row = RowsOf(t)[Pos(s, t) + 1] /\ Pos(r.st, t) = Pos(s, t) + 1
  BY <1>1, NextPos DEF r
<1>5. ASSUME NEW i \in Places, i # a PROVE At(r.st, i) = At(s, i)
  <2>1. query.from[i] # t /\ query.from[i] \in DOMAIN db
    BY <1>5, Distinct
  <2>2. r.st.cur[query.from[i]] = s.cur[query.from[i]]
    BY <1>2, <2>1
  <2> QED BY <2>2, SamePos DEF At
<1>6. Len(RowsOf(t)) \in Nat
  BY <1>1, RowsFacts
<1>7. Pos(s, t) \in 0 .. Len(RowsOf(t)) - 1 => Pos(s, t) + 1 \in 1 .. Len(RowsOf(t))
  BY <1>6
<1>8. /\ r.row = NoRow => At(s, a) = Len(RowsAt(a)) /\ At(r.st, a) = At(s, a)
      /\ r.row # NoRow => /\ At(s, a) + 1 \in 1 .. Len(RowsAt(a))
                          /\ r.row = RowsAt(a)[At(s, a) + 1]
                          /\ At(r.st, a) = At(s, a) + 1
  BY <1>3, <1>4, <1>7 DEF At, RowsAt
<1> QED BY <1>5, <1>8 DEF r

(* The scans behind a place are rewound.                                   *)
LEMMA RewoundMoves ==
  ASSUME Placed, IsInjective(query.from), NEW s, TreeOK(s), NEW a \in Places, NEW i \in Places
  PROVE  At(LetGo(s, {query.from[x] : x \in {j \in Places : j > a}}), i) =
           IF i > a THEN 0 ELSE At(s, i)
<1> DEFINE T == {query.from[x] : x \in {j \in Places : j > a}}
           r == LetGo(s, T)
<1>1. query.from[i] \in DOMAIN db
  BY DEF Placed
<1>2. query.from[i] \in T <=> i > a
  <2>1. ASSUME query.from[i] \in T PROVE i > a
    <3>1. PICK j \in Places : j > a /\ query.from[i] = query.from[j]
      BY <2>1
    <3> QED BY <3>1, Distinct
  <2> QED BY <2>1
<1>3. r.cur[query.from[i]] = IF query.from[i] \in T THEN NewCursor ELSE s.cur[query.from[i]]
  <2> HIDE DEF T
  <2> QED BY <1>1, LetGoCur
<1> HIDE DEF T, r
<1>4. CASE i > a
  <2>1. r.cur[query.from[i]] = NewCursor
    BY <1>2, <1>3, <1>4
  <2>2. Pos(r, query.from[i]) = 0
    BY <2>1, NewPos
  <2> QED BY <1>4, <2>2 DEF At, r, T
<1>5. CASE ~(i > a)
  <2>1. r.cur[query.from[i]] = s.cur[query.from[i]]
    BY <1>2, <1>3, <1>5
  <2>2. Pos(r, query.from[i]) = Pos(s, query.from[i])
    BY <2>1, SamePos
  <2> QED BY <1>5, <2>2 DEF At, r, T
<1> QED BY <1>4, <1>5

(* Scans that stay where they were change nothing.                         *)
LEMMA StandStill ==
  ASSUME Placed, NEW s, NEW r, NEW f, Ordered(s, f), NEW d, Counts(d, s, f),
         \A i \in Places : At(r, i) = At(s, i)
  PROVE  Ordered(r, f) /\ Counts(d, r, f)
<1> DEFINE n == LastPlace
<1>1. /\ n \in Places /\ Places = 1 .. n /\ n \in Nat
      /\ \A i \in 1 .. n - 1 : i \in Places /\ \A j \in i .. n : j \in Places
  BY PlacesFacts
<1> HIDE DEF n
<1>2. Ordered(r, f)
  BY <1>1 DEF Ordered, n
<1>3. Counts(d, r, f)
  BY <1>1 DEF Counts, n
<1> QED BY <1>2, <1>3

-----------------------------------------------------------------------------
(* What the rows given out mean while a statement runs, and when it has    *)
(* ended.                                                                  *)
Meant ==
  /\ phase = "running" =>
       /\ IsInjective(query.from) /\ Builds(query) /\ answer = Answer(query)
       /\ Ordered(tree, first)
       /\ \E d : /\ Counts(d, tree, first) /\ Walked(d, first, at, none, retried)
                 /\ out = Given(AllRows(query.from), query)[d[1]]
  /\ phase = "idle" =>
       /\ \A t \in DOMAIN db : tree.cur[t] = NewCursor
       /\ reply = "rows" => out = answer

(* The tables do not change, so neither do their rows and products.        *)
LEMMA SameRows ==
  ASSUME UNCHANGED <<db, query>>
  PROVE  /\ Places' = Places /\ LastPlace' = LastPlace
         /\ \A i : RowsAt(i)' = RowsAt(i) /\ From(i)' = From(i)
         /\ \A i : At(tree, i)' = At(tree', i)
         /\ AllRows(query.from)' = AllRows(query.from)
         /\ \A x : AllRows(x)' = AllRows(x)
<1>1. \A t : RowsOf(t)' = RowsOf(t) /\ Leaves(t)' = Leaves(t)
  BY DEF RowsOf, Leaves
<1>2. \A x : Product(x)' = Product(x)
  BY <1>1 DEF Product
<1>3. \A t, p : Start(t, p)' = Start(t, p)
  BY <1>1 DEF Start
<1>4. \A t : Pos(tree, t)' = Pos(tree', t)
  BY <1>1, <1>3 DEF Pos, Null
<1> QED BY <1>1, <1>2, <1>4 DEF Places, LastPlace, RowsAt, From, At, AllRows

(* Nor do the types of their columns, nor which statements can be built.   *)
LEMMA SameTypes ==
  ASSUME UNCHANGED db PROVE \A q : Builds(q)' <=> Builds(q)
<1>1. \A x, from : TypesOf(x, from)' = TypesOf(x, from)
  BY DEF TypesOf
<1>2. \A c, from : PredOk(c, from)' <=> PredOk(c, from)
  BY <1>1 DEF PredOk
<1> QED BY <1>2 DEF Builds

-----------------------------------------------------------------------------
(* A step of a running statement keeps what the rows mean when it keeps    *)
(* the parts of it, for some numbers of rows passed.                       *)
LEMMA MeantNext ==
  ASSUME UNCHANGED <<db, query, answer>>, phase' = "running",
         IsInjective(query.from), Builds(query), answer = Answer(query),
         Ordered(tree', first'), NEW d, Counts(d, tree', first'),
         Walked(d, first', at', none', retried'),
         out' = Given(AllRows(query.from), query)[d[1]]
  PROVE  Meant'
<1>1. /\ Places' = Places /\ LastPlace' = LastPlace
      /\ \A i : RowsAt(i)' = RowsAt(i) /\ From(i)' = From(i)
      /\ \A i : At(tree, i)' = At(tree', i)
      /\ AllRows(query.from)' = AllRows(query.from) /\ \A x : AllRows(x)' = AllRows(x)
  BY SameRows
<1>2. Ordered(tree, first)'
  BY <1>1 DEF Ordered
<1>3. Counts(d, tree, first)'
  BY <1>1 DEF Counts
<1>4. Walked(d, first, at, none, retried)'
  BY <1>1 DEF Walked
<1>5. (out = Given(AllRows(query.from), query)[d[1]])'
  BY <1>1
<1>6. (IsInjective(query.from) /\ Builds(query))'
  BY SameTypes
<1>7. Answer(query)' = Answer(query)
  BY <1>1 DEF Answer
<1>8. (\E x : /\ Counts(x, tree, first) /\ Walked(x, first, at, none, retried)
              /\ out = Given(AllRows(query.from), query)[x[1]])'
  BY <1>3, <1>4, <1>5
<1> QED BY <1>2, <1>6, <1>7, <1>8 DEF Meant

(* What a step of a running statement may rest on.                         *)
LEMMA Pulling ==
  ASSUME IInv, Meant, Running
  PROVE  /\ UNCHANGED <<db, query, answer>> /\ phase = "running"
         /\ Placed /\ TreeOK(tree) /\ DOMAIN first = Places
         /\ at \in 0 .. LastPlace /\ (IF none THEN at < LastPlace ELSE at > 0)
         /\ IsInjective(query.from) /\ Builds(query) /\ answer = Answer(query)
         /\ Ordered(tree, first)
BY PullFacts DEF Running, Meant, Placed, LastPlace

(* The numbers of rows passed at every place.                              *)
LEMMA Passed ==
  ASSUME Meant, phase = "running"
  PROVE  \E d : /\ Counts(d, tree, first) /\ Walked(d, first, at, none, retried)
                /\ out = Given(AllRows(query.from), query)[d[1]]
BY DEF Meant

(* Cartesian::next() asks source_1 for its first row.                      *)
LEMMA FirstRowMeant == ASSUME IInv, Meant, FirstRow PROVE Meant'
<1> DEFINE n == LastPlace
           r == CursorNext(tree, query.from[at])
<1>1. Running /\ ~none /\ at < n /\ UNCHANGED <<phase, reply, out>>
  BY DEF FirstRow, LastPlace
<1>2. /\ UNCHANGED <<db, query, answer>> /\ phase' = "running"
      /\ Placed /\ TreeOK(tree) /\ DOMAIN first = Places /\ at \in 0 .. n /\ at > 0
      /\ IsInjective(query.from) /\ Builds(query) /\ answer = Answer(query)
      /\ Ordered(tree, first)
  BY <1>1, Pulling
<1>3. PICK d : /\ Counts(d, tree, first) /\ Walked(d, first, at, none, retried)
               /\ out = Given(AllRows(query.from), query)[d[1]]
  BY <1>1, Passed DEF Running
<1>4. /\ n \in Nat \ {0} /\ Places = 1 .. n /\ at \in Places /\ at \in 1 .. n - 1
      /\ at + 1 \in Places
  BY <1>1, <1>2, PlacesFacts
<1>5. /\ \A i \in Places : i < at => first[i] # NoRow
      /\ \A j \in retried : j \in 1 .. n - 1 /\ d[j + 1] = 0
  BY <1>3 DEF Walked
<1>6. /\ \A i \in Places : i # at => At(r.st, i) = At(tree, i)
      /\ r.row = NoRow => At(tree, at) = Len(RowsAt(at)) /\ At(r.st, at) = At(tree, at)
      /\ r.row # NoRow => /\ At(tree, at) + 1 \in 1 .. Len(RowsAt(at))
                          /\ r.row = RowsAt(at)[At(tree, at) + 1]
                          /\ At(r.st, at) = At(tree, at) + 1
  BY <1>2, <1>4, ScanMoves
<1>7. CASE first[at] # NoRow /\ at' = at + 1 /\ UNCHANGED <<tree, first, none, retried>>
  <2>1. Walked(d, first', at', none', retried')
    <3>1. ASSUME NEW j \in Places, j < at + 1 PROVE first[j] # NoRow
      <4>1. j < at \/ j = at
        BY <1>4, <3>1
      <4> QED BY <1>5, <1>7, <4>1
    <3> QED BY <1>1, <1>5, <1>7, <3>1 DEF Walked
  <2> QED BY <1>1, <1>2, <1>3, <1>7, <2>1, MeantNext
<1>8. CASE /\ first[at] = NoRow /\ r.row # NoRow
           /\ tree' = r.st /\ first' = [first EXCEPT ![at] = r.row]
           /\ at' = at + 1 /\ UNCHANGED <<none, retried>>
  <2>1. At(tree, at) = 0
    <3>1. at \in at .. n
      BY <1>4
    <3> QED BY <1>2, <1>4, <1>8, <3>1 DEF Ordered
  <2>2. Len(RowsAt(at)) \in Nat \ {0} /\ r.row = RowsAt(at)[1]
    <3>1. Len(RowsAt(at)) \in Nat
      BY <1>2, <1>4, FromFacts
    <3>2. 0 + 1 \in 1 .. Len(RowsAt(at)) /\ r.row = RowsAt(at)[0 + 1]
      BY <1>6, <1>8, <2>1
    <3>3. 0 + 1 = 1
      OBVIOUS
    <3> HIDE DEF r
    <3> QED BY <3>1, <3>2, <3>3
  <2>3. \A i \in Places : At(r.st, i) = IF i = at THEN 1 ELSE At(tree, i)
    BY <1>6, <1>8, <2>1
  <2> HIDE DEF r
  <2>4. Ordered(tree', first') /\ Counts(d, tree', first')
    BY <1>2, <1>3, <1>4, <1>5, <1>8, <2>2, <2>3, FirstMoves
  <2>5. Walked(d, first', at', none', retried')
    <3>1. ASSUME NEW j \in Places, j < at + 1 PROVE first'[j] # NoRow
      <4>1. CASE j = at
        BY <1>2, <1>8, <4>1
      <4>2. CASE j # at
        <5>1. j < at
          BY <1>4, <3>1, <4>2
        <5> QED BY <1>2, <1>5, <1>8, <4>2, <5>1
      <4> QED BY <4>1, <4>2
    <3> QED BY <1>1, <1>5, <1>8, <3>1 DEF Walked
  <2>6. out' = Given(AllRows(query.from), query)[d[1]]
    BY <1>1, <1>3
  <2> QED BY <1>2, <2>4, <2>5, <2>6, MeantNext
<1>9. CASE first[at] = NoRow /\ r.row = NoRow /\ tree' = r.st /\ NoneHere /\ UNCHANGED first
  <2>1. \A i \in Places : At(r.st, i) = At(tree, i)
    BY <1>6, <1>9
  <2>2. Ordered(r.st, first) /\ Counts(d, r.st, first)
    <3> HIDE DEF r
    <3> QED BY <1>2, <1>3, <2>1, StandStill
  <2>3. d[at] = Len(From(at))
    <3>1. At(tree, at) = Len(RowsAt(at))
      BY <1>6, <1>9
    <3> QED BY <1>2, <1>3, <1>4, <1>9, <3>1, AllPassed
  <2>4. Walked(d, first', at', none', retried')
    <3>1. at' = at - 1 /\ none' = TRUE /\ retried' = retried \ {at} /\ first' = first
      BY <1>9 DEF NoneHere
    <3>2. ASSUME NEW j \in Places, j < at - 1 \/ j = at - 1 PROVE first[j] # NoRow
      <4>1. j < at
        BY <1>4, <3>2
      <4> QED BY <1>5, <4>1
    <3>3. (at - 1) + 1 = at
      BY <1>4
    <3> QED BY <1>5, <2>3, <3>1, <3>2, <3>3 DEF Walked
  <2>5. out' = Given(AllRows(query.from), query)[d[1]]
    BY <1>1, <1>3
  <2> QED BY <1>2, <1>9, <2>2, <2>4, <2>5, MeantNext
<1> QED BY <1>7, <1>8, <1>9 DEF FirstRow

(* The scan of the last table gives a row, or has none left.               *)
LEMMA LastRowMeant == ASSUME IInv, Meant, LastRow PROVE Meant'
<1> DEFINE n == LastPlace
           r == CursorNext(tree, query.from[at])
           row == FlattenSeq([i \in Places |-> IF i = at THEN r.row ELSE first[i]])
           all == AllRows(query.from)
<1>1. Running /\ ~none /\ at = n /\ UNCHANGED <<phase, reply, first>> /\ tree' = r.st
  BY DEF LastRow, LastPlace
<1>2. /\ UNCHANGED <<db, query, answer>> /\ phase' = "running"
      /\ Placed /\ TreeOK(tree) /\ DOMAIN first = Places /\ at \in 0 .. n /\ at > 0
      /\ IsInjective(query.from) /\ Builds(query) /\ answer = Answer(query)
      /\ Ordered(tree, first)
  BY <1>1, Pulling
<1>3. PICK d : /\ Counts(d, tree, first) /\ Walked(d, first, at, none, retried)
               /\ out = Given(AllRows(query.from), query)[d[1]]
  BY <1>1, Passed DEF Running
<1>4. /\ n \in Nat \ {0} /\ Places = 1 .. n /\ at \in Places /\ 1 \in Places
      /\ \A i \in 1 .. n - 1 : i \in Places /\ i < at /\ i # at
  BY <1>1, <1>2, PlacesFacts
<1>5. /\ \A i \in 1 .. n - 1 : first[i] # NoRow
      /\ \A j \in retried : j \in 1 .. n - 1 /\ d[j + 1] = 0
  BY <1>3, <1>4 DEF Walked
<1>6. /\ \A i \in Places : i # at => At(r.st, i) = At(tree, i)
      /\ r.row = NoRow => At(tree, at) = Len(RowsAt(at)) /\ At(r.st, at) = At(tree, at)
      /\ r.row # NoRow => /\ At(tree, at) + 1 \in 1 .. Len(RowsAt(at))
                          /\ r.row = RowsAt(at)[At(tree, at) + 1]
                          /\ At(r.st, at) = At(tree, at) + 1
  BY <1>2, <1>4, ScanMoves
<1>7. CASE /\ r.row # NoRow
           /\ out' = IF SatisfiesAll(row, query) THEN Append(out, Projected(row, query)) ELSE out
           /\ at' = 1 /\ retried' = {} /\ UNCHANGED none
  <2> DEFINE e == [i \in Places |-> d[i] + 1]
  <2>1. /\ \A i \in 1 .. n - 1 : first[i] # NoRow /\ At(r.st, i) = At(tree, i)
        /\ At(r.st, n) = At(tree, n) + 1
    BY <1>1, <1>4, <1>5, <1>6, <1>7
  <2>2. Ordered(r.st, first) /\ Counts(e, r.st, first)
    <3> HIDE DEF r
    <3> QED BY <1>2, <1>3, <2>1, LastMoves
  <2>3. d[1] + 1 \in 1 .. Len(From(1)) /\ row = From(1)[d[1] + 1]
    <3>1. At(tree, n) < Len(RowsAt(n)) /\ r.row = RowsAt(n)[At(tree, n) + 1]
      <4>1. At(tree, n) \in 0 .. Len(RowsAt(n)) /\ Len(RowsAt(n)) \in Nat
        BY <1>1, <1>2, <1>4, AtRange, FromFacts
      <4>2. At(tree, n) + 1 \in 1 .. Len(RowsAt(n)) /\ r.row = RowsAt(n)[At(tree, n) + 1]
        BY <1>1, <1>6, <1>7
      <4> QED BY <4>1, <4>2
    <3>2. row = FlattenSeq([i \in Places |-> IF i = n THEN r.row ELSE first[i]])
      BY <1>1
    <3> HIDE DEF row, r
    <3> QED BY <1>2, <1>3, <1>5, <3>1, <3>2, NextRow
  <2>4. all = From(1) /\ Len(all) \in Nat
    BY <1>2, <1>4, FromFacts DEF AllRows, From
  <2>5. e[1] = d[1] + 1 /\ (d[1] + 1) - 1 = d[1]
    <3>1. d[1] \in Nat
      BY <1>3, <1>4 DEF Counts
    <3> QED BY <1>4, <3>1
  <2>6. out' = Given(all, query)[e[1]]
    <3>1. SatisfiesAll(row, query) <=> Fulfils(row, query)
      <4>1. \A i \in DOMAIN query.conds : PredOk(query.conds[i], query.from)
        BY <1>2 DEF Builds
      <4> HIDE DEF row
      <4> QED BY <4>1, FilterMeans
    <3> HIDE DEF row, all, r, e
    <3>2. d[1] + 1 \in 1 .. Len(all) /\ row = all[d[1] + 1]
      BY <2>3, <2>4
    <3>3. Given(all, query)[d[1] + 1] =
            Adding(Given(all, query)[(d[1] + 1) - 1], all[d[1] + 1], query)
      BY <2>4, <3>2, GivenDef
    <3>4. out = Given(all, query)[d[1]]
      BY <1>3 DEF all
    <3>5. CASE Fulfils(row, query)
      <4>1. out' = Append(out, Projected(row, query))
        BY <1>7, <3>1, <3>5
      <4> QED BY <2>5, <3>2, <3>3, <3>4, <3>5, <4>1 DEF Adding
    <3>6. CASE ~Fulfils(row, query)
      <4>1. out' = out
        BY <1>7, <3>1, <3>6
      <4> QED BY <2>5, <3>2, <3>3, <3>4, <3>6, <4>1 DEF Adding
    <3> QED BY <3>5, <3>6
  <2>7. Walked(e, first', at', none', retried')
    <3>1. \A j \in Places : ~(j < 1)
      BY <1>4
    <3> QED BY <1>1, <1>7, <3>1 DEF Walked
  <2> HIDE DEF e, r, row
  <2> QED BY <1>1, <1>2, <2>2, <2>6, <2>7, MeantNext
<1>8. CASE r.row = NoRow /\ NoneHere /\ UNCHANGED out
  <2>1. \A i \in Places : At(r.st, i) = At(tree, i)
    BY <1>6, <1>8
  <2>2. Ordered(r.st, first) /\ Counts(d, r.st, first)
    <3> HIDE DEF r
    <3> QED BY <1>2, <1>3, <2>1, StandStill
  <2>3. d[n] = Len(From(n))
    <3>1. At(tree, n) = Len(RowsAt(n))
      BY <1>1, <1>6, <1>8
    <3> QED BY <1>2, <1>3, <3>1, FromLast DEF Counts
  <2>4. Walked(d, first', at', none', retried')
    <3>1. at' = n - 1 /\ none' = TRUE /\ retried' = retried \ {at} /\ first' = first
      BY <1>1, <1>8 DEF NoneHere
    <3>2. ASSUME NEW j \in Places, j < n - 1 \/ j = n - 1 PROVE first[j] # NoRow
      <4>1. j \in 1 .. n - 1
        BY <1>4, <3>2
      <4> QED BY <1>5, <4>1
    <3>3. (n - 1) + 1 = n
      BY <1>4
    <3> QED BY <1>5, <2>3, <3>1, <3>2, <3>3 DEF Walked
  <2>5. out' = Given(AllRows(query.from), query)[d[1]]
    BY <1>3, <1>8
  <2> QED BY <1>1, <1>2, <2>2, <2>4, <2>5, MeantNext
<1> QED BY <1>7, <1>8 DEF LastRow

(* source_1 moves on and source_2 is rewound, or source_1 has run out.     *)
LEMMA AdvanceMeant == ASSUME IInv, Meant, Advance PROVE Meant'
<1> DEFINE n == LastPlace
           r == CursorNext(tree, query.from[at])
           T == {query.from[i] : i \in {j \in Places : j > at}}
<1>1. Running /\ none /\ at \in Places \ retried /\ UNCHANGED <<phase, reply, out>>
  BY DEF Advance
<1>2. /\ UNCHANGED <<db, query, answer>> /\ phase' = "running"
      /\ Placed /\ TreeOK(tree) /\ DOMAIN first = Places /\ at \in 0 .. n /\ at < n
      /\ IsInjective(query.from) /\ Builds(query) /\ answer = Answer(query)
      /\ Ordered(tree, first)
  BY <1>1, Pulling
<1>3. PICK d : /\ Counts(d, tree, first) /\ Walked(d, first, at, none, retried)
               /\ out = Given(AllRows(query.from), query)[d[1]]
  BY <1>1, Passed DEF Running
<1>4. /\ n \in Nat \ {0} /\ Places = 1 .. n /\ at \in Places /\ at \in 1 .. n - 1
      /\ at + 1 \in Places /\ 1 \in Places /\ ~(1 > at) /\ ~(at > at)
  BY <1>1, <1>2, PlacesFacts
<1>5. /\ \A i \in Places : i < at => first[i] # NoRow
      /\ first[at] # NoRow /\ d[at + 1] = Len(From(at + 1))
      /\ \A j \in retried : j \in 1 .. n - 1 /\ d[j + 1] = 0
  BY <1>1, <1>3, <1>4 DEF Walked
<1>6. /\ \A i \in Places : i # at => At(r.st, i) = At(tree, i)
      /\ r.row = NoRow => At(tree, at) = Len(RowsAt(at)) /\ At(r.st, at) = At(tree, at)
      /\ r.row # NoRow => /\ At(tree, at) + 1 \in 1 .. Len(RowsAt(at))
                          /\ r.row = RowsAt(at)[At(tree, at) + 1]
                          /\ At(r.st, at) = At(tree, at) + 1
  BY <1>2, <1>4, ScanMoves
<1>7. CASE /\ r.row # NoRow
           /\ tree' = LetGo(r.st, T) /\ first' = Rewound(r.row)
           /\ at' = at + 1 /\ none' = FALSE /\ retried' = retried \cup {at}
  <2> DEFINE e == [i \in Places |-> IF i > at THEN 0 ELSE d[i]]
             s == LetGo(r.st, T)
             g == Rewound(r.row)
  <2>1. TreeOK(r.st)
    <3>1. query.from[at] \in DOMAIN db /\ db \in Databases
      BY <1>2, <1>4 DEF Placed
    <3> QED BY <1>2, <3>1, CursorNextFacts
  <2>2. \A i \in Places : At(s, i) = IF i > at THEN 0 ELSE At(r.st, i)
    <3> HIDE DEF r
    <3> QED BY <1>2, <1>4, <2>1, RewoundMoves
  <2>3. \A i \in Places :
          At(s, i) = IF i > at THEN 0 ELSE IF i = at THEN At(tree, at) + 1 ELSE At(tree, i)
    <3> HIDE DEF r, s
    <3> QED BY <1>6, <1>7, <2>2
  <2>4. \A i \in Places : g[i] = IF i = at THEN r.row ELSE IF i > at THEN NoRow ELSE first[i]
    <3> HIDE DEF r
    <3> QED BY <1>2 DEF Rewound
  <2>5. Ordered(s, g) /\ Counts(e, s, g)
    <3> HIDE DEF r, s, g
    <3>1. At(tree, at) + 1 \in 1 .. Len(RowsAt(at)) /\ r.row = RowsAt(at)[At(tree, at) + 1]
      BY <1>6, <1>7
    <3> DEFINE new == r.row
    <3>2. /\ new # NoRow /\ new = RowsAt(at)[At(tree, at) + 1]
          /\ \A i \in Places : g[i] = IF i = at THEN new ELSE IF i > at THEN NoRow ELSE first[i]
      BY <1>7, <2>4, <3>1
    <3> HIDE DEF new
    <3>3. Placed /\ Ordered(tree, first) /\ Counts(d, tree, first)
      BY <1>2, <1>3
    <3>5. MovesOn(tree, s, first, g, new, at)
      BY <1>5, <2>3, <3>1, <3>2 DEF MovesOn
    <3>4. e = [i \in Places |-> IF i > at THEN 0 ELSE d[i]]
      OBVIOUS
    <3> HIDE DEF e
    <3>6. at \in 1 .. LastPlace - 1 /\ d[at + 1] = Len(From(at + 1))
      BY <1>4, <1>5
    <3> QED BY <3>3, <3>4, <3>5, <3>6, NextMoves
  <2>6. \A i \in Places : e[i] = IF i > at THEN 0 ELSE d[i]
    OBVIOUS
  <2>7. Walked(e, g, at + 1, FALSE, retried \cup {at})
    <3> HIDE DEF e, g, r
    <3>1. ASSUME NEW j \in Places, j < at + 1 PROVE g[j] # NoRow
      <4>1. CASE j = at
        BY <1>7, <2>4, <4>1
      <4>2. CASE j # at
        <5>1. j < at /\ ~(j > at)
          BY <1>4, <3>1, <4>2
        <5> QED BY <1>5, <2>4, <4>2, <5>1
      <4> QED BY <4>1, <4>2
    <3>2. ASSUME NEW j \in retried \cup {at} PROVE j \in 1 .. n - 1 /\ e[j + 1] = 0
      <4>1. CASE j = at
        <5>1. at + 1 > at
          BY <1>4
        <5> QED BY <1>4, <2>6, <4>1, <5>1
      <4>2. CASE j # at
        <5>1. j \in 1 .. n - 1 /\ d[j + 1] = 0
          BY <1>5, <3>2, <4>2
        <5>2. j + 1 \in Places
          BY <1>4, <5>1
        <5> QED BY <2>6, <5>1, <5>2
      <4> QED BY <4>1, <4>2
    <3> QED BY <3>1, <3>2 DEF Walked
  <2>8. e[1] = d[1]
    BY <1>4, <2>6
  <2> HIDE DEF e
  <2>9. out' = Given(AllRows(query.from), query)[e[1]]
    BY <1>1, <1>3, <2>8
  <2>10. tree' = s /\ first' = g
    BY <1>7
  <2> HIDE DEF s, g, r, T
  <2>11. Walked(e, first', at', none', retried')
    BY <1>7, <2>7, <2>10
  <2> QED BY <1>2, <2>5, <2>9, <2>10, <2>11, MeantNext
<1>8. CASE r.row = NoRow /\ tree' = r.st /\ NoneHere /\ UNCHANGED first
  <2>1. \A i \in Places : At(r.st, i) = At(tree, i)
    BY <1>6, <1>8
  <2>2. Ordered(r.st, first) /\ Counts(d, r.st, first)
    <3> HIDE DEF r
    <3> QED BY <1>2, <1>3, <2>1, StandStill
  <2>3. d[at] = Len(From(at))
    <3>1. At(tree, at) = Len(RowsAt(at))
      BY <1>6, <1>8
    <3> QED BY <1>2, <1>3, <1>4, <1>5, <3>1, AllPassed
  <2>4. Walked(d, first', at', none', retried')
    <3>1. at' = at - 1 /\ none' = TRUE /\ retried' = retried \ {at} /\ first' = first
      BY <1>8 DEF NoneHere
    <3>2. ASSUME NEW j \in Places, j < at - 1 \/ j = at - 1 PROVE first[j] # NoRow
      <4>1. j < at
        BY <1>4, <3>2
      <4> QED BY <1>5, <4>1
    <3>3. (at - 1) + 1 = at
      BY <1>4
    <3> QED BY <1>5, <2>3, <3>1, <3>2, <3>3 DEF Walked
  <2>5. out' = Given(AllRows(query.from), query)[d[1]]
    BY <1>1, <1>3
  <2> QED BY <1>2, <1>8, <2>2, <2>4, <2>5, MeantNext
<1> QED BY <1>7, <1>8 DEF Advance

-----------------------------------------------------------------------------
(* source_2 is empty.                                                      *)
LEMMA GiveUpMeant == ASSUME IInv, Meant, GiveUp PROVE Meant'
<1> DEFINE n == LastPlace
<1>1. Running /\ none /\ at \in retried /\ NoneHere /\ UNCHANGED <<phase, reply, out, tree, first>>
  BY DEF GiveUp
<1>2. /\ UNCHANGED <<db, query, answer>> /\ phase' = "running"
      /\ Placed /\ TreeOK(tree)
      /\ IsInjective(query.from) /\ Builds(query) /\ answer = Answer(query)
      /\ Ordered(tree, first)
  BY <1>1, Pulling
<1>3. PICK d : /\ Counts(d, tree, first) /\ Walked(d, first, at, none, retried)
               /\ out = Given(AllRows(query.from), query)[d[1]]
  BY <1>1, Passed DEF Running
<1>4. n \in Nat \ {0} /\ Places = 1 .. n
  BY <1>2, PlacesFacts
<1>5. /\ \A i \in Places : i < at => first[i] # NoRow
      /\ d[at + 1] = Len(From(at + 1))
      /\ \A j \in retried : j \in 1 .. n - 1 /\ d[j + 1] = 0
  BY <1>1, <1>3 DEF Walked
<1>6. at \in 1 .. n - 1 /\ Len(From(at + 1)) = 0
  BY <1>1, <1>5
<1>7. d[at] = Len(From(at))
  BY <1>2, <1>3, <1>6, EmptyPassed
<1>8. Walked(d, first', at', none', retried')
  <2>1. at' = at - 1 /\ none' = TRUE /\ retried' = retried \ {at} /\ first' = first
    BY <1>1 DEF NoneHere
  <2>2. ASSUME NEW j \in Places, j < at - 1 \/ j = at - 1 PROVE first[j] # NoRow
    <3>1. j < at
      BY <1>4, <1>6, <2>2
    <3> QED BY <1>5, <3>1
  <2>3. (at - 1) + 1 = at
    BY <1>6
  <2> QED BY <1>5, <1>7, <2>1, <2>2, <2>3 DEF Walked
<1> QED BY <1>1, <1>2, <1>3, <1>8, MeantNext

(* The tree is dropped.                                                    *)
LEMMA EndMeant ==
  ASSUME UNCHANGED db, NEW s, TreeOK(s), NEW r, End(s, r), r = "rows" => out' = answer'
  PROVE  Meant'
<1>1. tree' = LetGo(s, DOMAIN db) /\ phase' = "idle" /\ reply' = r
  BY DEF End
<1>2. \A t \in DOMAIN db : tree'.cur[t] = NewCursor
  BY <1>1, LetGoCur
<1>3. (\A t \in DOMAIN db : tree.cur[t] = NewCursor)'
  BY <1>2 DEF NewCursor, Null
<1> QED BY <1>1, <1>3 DEF Meant

(* The statement ends with all rows given out.                             *)
LEMMA FinishMeant == ASSUME IInv, Meant, Finish PROVE Meant'
<1>1. Running /\ none /\ at = 0 /\ End(tree, "rows") /\ UNCHANGED out
  BY DEF Finish
<1>2. /\ UNCHANGED <<db, query, answer>> /\ Placed /\ TreeOK(tree) /\ answer = Answer(query)
  BY <1>1, Pulling
<1>3. PICK d : /\ Counts(d, tree, first) /\ Walked(d, first, at, none, retried)
               /\ out = Given(AllRows(query.from), query)[d[1]]
  BY <1>1, Passed DEF Running
<1>4. d[1] = Len(From(1))
  BY <1>1, <1>3 DEF Walked
<1>5. out = answer
  BY <1>2, <1>3, <1>4 DEF Answer, AllRows, From
<1> QED BY <1>1, <1>2, <1>5, EndMeant

-----------------------------------------------------------------------------
(* Where the scans of a statement begin: no row in front of them is part   *)
(* of the answer.                                                          *)
LEMMA ScansPos ==
  ASSUME IInv, phase = "idle", Meant, NEW q \in Queries,
         Known(q.from), Readable(q), Builds(q), KeyStandsFirst(q)
  PROVE  /\ \A i \in 1 .. Len(q.from) :
              /\ Pos(Scans(q), q.from[i]) \in Nat
              /\ Len(q.from) # 1 => Pos(Scans(q), q.from[i]) = 0
         /\ Given(AllRows(q.from), q)[Pos(Scans(q), q.from[1])] = << >>
<1> DEFINE n == Len(q.from)
           t == q.from[1]
           k == KeyPreds(q.conds)[1]
<1>1. db \in Databases /\ TreeOK(tree) /\ \A u \in DOMAIN db : tree.cur[u] = NewCursor
  BY DEF IInv, Meant
<1>2. /\ q.from \in Seq(Nat) /\ q.from # << >> /\ n \in Nat \ {0} /\ DOMAIN q.from = 1 .. n
      /\ \A i \in 1 .. n : q.from[i] \in DOMAIN db
  <2>1. q.from \in Seq(Nat) /\ q.from # << >> /\ n \in Nat \ {0}
    BY QueryIs
  <2>2. DOMAIN q.from = 1 .. n
    BY <2>1
  <2>3. \A i \in DOMAIN q.from : q.from[i] \in DOMAIN db
    BY DEF Known, Range
  <2> QED BY <2>1, <2>2, <2>3
<1>3. \A i \in 1 .. n : Pos(tree, q.from[i]) = 0
  BY <1>1, <1>2, NewPos
<1>4. /\ AllRows(q.from) = Product(q.from)[1] /\ AllRows(q.from) \in Seq(Seq(Nat))
      /\ Len(AllRows(q.from)) \in Nat
  <2>1. 1 \in 1 .. n
    BY <1>2
  <2>2. Product(q.from)[1] \in Seq(Seq(Nat))
    BY <1>1, <1>2, <2>1, ProductDef
  <2>3. Len(Product(q.from)[1]) \in Nat
    BY <2>2
  <2> QED BY <2>2, <2>3 DEF AllRows
<1>5. CASE Scans(q) = tree
  <2>1. Pos(tree, t) = 0
    <3>1. 1 \in 1 .. n
      BY <1>2
    <3> QED BY <1>3, <3>1
  <2>2. Given(AllRows(q.from), q)[0] = << >>
    BY <1>4, GivenDef
  <2> QED BY <1>3, <1>5, <2>1, <2>2
<1>6. CASE Scans(q) # tree
  <2>1. n = 1 /\ KeyPreds(q.conds) # << >> /\ Scans(q) = Seek(tree, t, k)
    BY <1>6 DEF Scans
  <2>2. t \in DOMAIN db /\ tree.cur[t] = NewCursor
    BY <1>1, <1>2, <2>1
  <2>3. k \in Int
    <3>1. \A i \in DOMAIN q.conds : KeyPredOk(q.conds[i], t)
      BY <2>1 DEF Readable
    <3> QED BY <2>1, <3>1, KeyFrom
  <2> DEFINE s == Seek(tree, t, k)
             rows == RowsOf(t)
  <2> HIDE DEF k
  <2>4. /\ Pos(s, t) \in 0 .. Len(rows)
        /\ \A j \in 1 .. Pos(s, t) : rows[j][1] < k
    BY <1>1, <2>2, <2>3, SeekPos
  <2>5. rows \in Seq(Nat \X Nat) /\ Len(rows) \in Nat
    BY <1>1, <2>2, RowsFacts
  <2> HIDE DEF s
  <2>6. AllRows(q.from) = rows
    <3>1. Product(q.from)[n] = RowsOf(q.from[n])
      BY <1>1, <1>2, ProductDef
    <3> QED BY <1>4, <2>1, <3>1
  <2> HIDE DEF rows
  <2>7. ASSUME NEW j \in 1 .. Pos(s, t) PROVE ~Fulfils(rows[j], q)
    <3>1. j \in 1 .. Len(rows) /\ rows[j][1] < k
      BY <2>4, <2>5
    <3>2. rows[j] \in Nat \X Nat
      BY <2>5, <3>1, ElementOfSeq
    <3>3. rows[j][1] \in Nat
      BY <3>2
    <3>4. rows[j][1] < KeyPreds(q.conds)[1]
      BY <3>1 DEF k
    <3> QED BY <2>1, <3>3, <3>4, KeySkips
  <2>8. Given(rows, q)[Pos(s, t)] = << >>
    BY <2>4, <2>5, <2>7, GivenNone
  <2>9. Pos(s, t) \in Nat
    BY <2>4, <2>5
  <2>10. \A i \in 1 .. n : i = 1
    BY <2>1
  <2>11. Scans(q) = s
    BY <2>1 DEF s
  <2> QED BY <2>1, <2>6, <2>8, <2>9, <2>10, <2>11
<1> QED BY <1>5, <1>6

(* Another statement looks at the same tables.                             *)
LEMMA NewRows ==
  ASSUME UNCHANGED db
  PROVE  /\ Places' = 1 .. Len(query'.from) /\ LastPlace' = Len(query'.from)
         /\ \A i : RowsAt(i)' = RowsOf(query'.from[i]) /\ From(i)' = Product(query'.from)[i]
         /\ \A i : At(tree, i)' = Pos(tree', query'.from[i])
         /\ \A x : AllRows(x)' = AllRows(x)
<1>1. \A t : RowsOf(t)' = RowsOf(t) /\ Leaves(t)' = Leaves(t)
  BY DEF RowsOf, Leaves
<1>2. \A x : Product(x)' = Product(x)
  BY <1>1 DEF Product
<1>3. \A t, p : Start(t, p)' = Start(t, p)
  BY <1>1 DEF Start
<1>4. \A t : Pos(tree, t)' = Pos(tree', t)
  BY <1>1, <1>3 DEF Pos, Null
<1> QED BY <1>1, <1>2, <1>4 DEF Places, LastPlace, RowsAt, From, At, AllRows

(* A statement begins.                                                     *)
LEMMA BeginMeant ==
  ASSUME IInv, Meant, NEW q \in Queries, KeyStandsFirst(q), Begin(q)
  PROVE  Meant'
<1>1. /\ phase = "idle" /\ query' = q /\ out' = << >> /\ UNCHANGED db
      /\ answer' = IF Known(q.from) /\ Builds(q) THEN Answer(q) ELSE << >>
  BY DEF Begin
<1>2. db \in Databases /\ TreeOK(tree)
  BY DEF IInv
<1>4. CASE phase' = "panicked"
  BY <1>4 DEF Meant
<1>3. CASE End(tree, "error")
  <2>1. "error" # "rows"
    OBVIOUS
  <2> QED BY <1>1, <1>2, <1>3, <2>1, EndMeant
<1>5. CASE Known(q.from) /\ End(Scans(q), "error")
  <2>1. "error" # "rows"
    OBVIOUS
  <2>2. TreeOK(Scans(q))
    BY <1>1, <1>5, ScansFacts
  <2> QED BY <1>1, <1>5, <2>1, <2>2, EndMeant
<1>6. CASE /\ Known(q.from) /\ Readable(q) /\ Builds(q)
           /\ phase' = "running" /\ reply' = "none" /\ tree' = Scans(q)
           /\ first' = [i \in DOMAIN q.from |-> NoRow]
           /\ at' = 1 /\ none' = FALSE /\ retried' = {}
  <2> DEFINE n == Len(q.from)
  <2>1. /\ Places' = 1 .. n /\ LastPlace' = n
        /\ \A i : RowsAt(i)' = RowsOf(q.from[i]) /\ From(i)' = Product(q.from)[i]
        /\ \A i : At(tree, i)' = Pos(tree', q.from[i])
        /\ AllRows(q.from)' = AllRows(q.from)
    BY <1>1, NewRows
  <2>2. n \in Nat \ {0} /\ DOMAIN q.from = 1 .. n /\ 1 \in 1 .. n
    <3>1. q.from \in Seq(Nat) /\ n \in Nat \ {0}
      BY QueryIs
    <3> QED BY <3>1
  <2>3. /\ \A i \in 1 .. n : /\ Pos(tree', q.from[i]) \in Nat
                             /\ n # 1 => Pos(tree', q.from[i]) = 0
        /\ Given(AllRows(q.from), q)[Pos(tree', q.from[1])] = << >>
    BY <1>1, <1>6, ScansPos
  <2>4. \A i \in 1 .. n : first'[i] = NoRow
    BY <1>6, <2>2
  <2>5. PICK d : d = [i \in 1 .. n |-> Pos(tree', q.from[i])]
    OBVIOUS
  <2>6. d \in [1 .. n -> Nat] /\ \A i \in 1 .. n : d[i] = Pos(tree', q.from[i])
    BY <2>3, <2>5
  <2>7. Ordered(tree, first)'
    <3>1. \A i \in 1 .. n - 1 : \A j \in i .. n : Pos(tree', q.from[j]) = 0 /\ first'[j] = NoRow
      <4>1. ASSUME NEW i \in 1 .. n - 1, NEW j \in i .. n
            PROVE  Pos(tree', q.from[j]) = 0 /\ first'[j] = NoRow
        <5>1. n # 1 /\ j \in 1 .. n
          <6> HIDE DEF n
          <6> QED BY <2>2
        <5> QED BY <2>3, <2>4, <5>1
      <4> QED BY <4>1
    <3>2. n \in 1 .. n /\ \A i \in 1 .. n - 1 : i \in 1 .. n
      BY <2>2
    <3>3. \A i \in 1 .. n - 1 : first'[i] = NoRow
      BY <2>4, <3>2
    <3> QED BY <2>1, <2>4, <3>1, <3>2, <3>3 DEF Ordered, NoRow
  <2>8. Counts(d, tree, first)'
    <3>1. n \in 1 .. n /\ \A i \in 1 .. n - 1 : i \in 1 .. n /\ n # 1
      <4> HIDE DEF n
      <4> QED BY <2>2
    <3>2. d[n] = Pos(tree', q.from[n]) /\ \A i \in 1 .. n - 1 : d[i] = 0 /\ first'[i] = NoRow
      BY <2>3, <2>4, <2>6, <3>1
    <3>3. d \in [Places' -> Nat] /\ d[LastPlace'] = At(tree, LastPlace)'
      BY <2>1, <2>6, <3>2
    <3>4. \A i \in 1 .. LastPlace' - 1 : d[i] = 0 /\ first'[i] = NoRow
      BY <2>1, <3>2
    <3> HIDE DEF n
    <3> QED BY <3>3, <3>4 DEF Counts, NoRow
  <2>9. Walked(d, first, at, none, retried)'
    <3>1. \A j \in 1 .. n : ~(j < 1)
      OBVIOUS
    <3> QED BY <1>6, <2>1, <3>1 DEF Walked
  <2>10. (out = Given(AllRows(query.from), query)[d[1]])'
    <3>1. d[1] = Pos(tree', q.from[1])
      BY <2>2, <2>6
    <3>2. AllRows(query.from)' = AllRows(q.from)
      BY <1>1, <2>1
    <3>3. out' = Given(AllRows(q.from), q)[d[1]] /\ query' = q
      BY <1>1, <2>3, <3>1
    <3> HIDE DEF n
    <3> QED BY <3>2, <3>3
  <2>11. (\E x : /\ Counts(x, tree, first) /\ Walked(x, first, at, none, retried)
                 /\ out = Given(AllRows(query.from), query)[x[1]])'
    BY <2>8, <2>9, <2>10
  <2>12. (IsInjective(query.from) /\ Builds(query))'
    BY <1>1, <1>6, SameTypes DEF Known
  <2>13. (answer = Answer(query))'
    <3>1. Answer(q)' = Answer(q)
      BY <2>1 DEF Answer
    <3> QED BY <1>1, <1>6, <3>1
  <2> QED BY <1>6, <2>7, <2>11, <2>12, <2>13 DEF Meant
<1> QED BY <1>3, <1>4, <1>5, <1>6 DEF Begin

(* It holds at the start.                                                  *)
LEMMA InitMeant == Init => Meant
BY DEF Init, Meant

(* It holds when nothing changes.                                          *)
LEMMA StutterMeant == ASSUME Meant, UNCHANGED vars PROVE Meant'
<1>1. UNCHANGED <<db, query, phase, reply, out, answer, tree, first, at, none, retried>>
  BY DEF vars, walk
<1>2. CASE phase = "running"
  <2>1. PICK d : /\ Counts(d, tree, first) /\ Walked(d, first, at, none, retried)
                 /\ out = Given(AllRows(query.from), query)[d[1]]
    BY <1>2, Passed
  <2>2. /\ Counts(d, tree', first') /\ Walked(d, first', at', none', retried')
        /\ out' = Given(AllRows(query.from), query)[d[1]]
    BY <1>1, <2>1
  <2>3. /\ IsInjective(query.from) /\ Builds(query) /\ answer = Answer(query)
        /\ Ordered(tree', first')
    BY <1>1, <1>2 DEF Meant
  <2> QED BY <1>1, <1>2, <2>2, <2>3, MeantNext
<1>3. CASE phase # "running"
  <2>1. (\A t \in DOMAIN db : tree.cur[t] = NewCursor)' <=>
          \A t \in DOMAIN db : tree.cur[t] = NewCursor
    BY <1>1 DEF NewCursor, Null
  <2> QED BY <1>1, <1>3, <2>1 DEF Meant
<1> QED BY <1>2, <1>3

(* Every step keeps it.                                                    *)
LEMMA NextMeant ==
  ASSUME \A q \in Queries : KeyStandsFirst(q), IInv, Meant, [Next]_vars
  PROVE  Meant'
<1>1. ASSUME NEW q \in Queries, Begin(q) PROVE Meant'
  BY <1>1, BeginMeant
<1>2. CASE FirstRow
  BY <1>2, FirstRowMeant
<1>3. CASE LastRow
  BY <1>3, LastRowMeant
<1>4. CASE Advance
  BY <1>4, AdvanceMeant
<1>5. CASE GiveUp
  BY <1>5, GiveUpMeant
<1>6. CASE Finish
  BY <1>6, FinishMeant
<1>7. CASE StayPanicked
  BY <1>7, StutterMeant DEF StayPanicked
<1>8. CASE UNCHANGED vars
  BY <1>8, StutterMeant
<1> QED BY <1>1, <1>2, <1>3, <1>4, <1>5, <1>6, <1>7, <1>8 DEF Next, Pull

(* What was given out is always what the rows passed so far give.          *)
LEMMA MeantAnswer ==
  ASSUME IInv, Meant PROVE RowsAreTheAnswer
<1>1. ASSUME phase = "running" PROVE IsPrefix(out, answer)
  <2>1. PICK d : /\ Counts(d, tree, first) /\ Walked(d, first, at, none, retried)
                 /\ out = Given(AllRows(query.from), query)[d[1]]
    BY <1>1, Passed
  <2>2. Placed /\ TreeOK(tree) /\ Ordered(tree, first) /\ answer = Answer(query)
    <3>1. /\ db \in Databases /\ query \in Queries /\ TreeOK(tree)
          /\ Range(query.from) \subseteq DOMAIN db
      BY <1>1 DEF IInv, WalkOK, Walking
    <3>2. \A i \in Places : query.from[i] \in DOMAIN db
      BY <3>1, QueryFacts DEF Range
    <3> QED BY <1>1, <3>1, <3>2 DEF Meant, Placed
  <2>3. 1 \in Places /\ From(1) = AllRows(query.from)
    BY <2>2, PlacesFacts DEF From, AllRows
  <2>4. d[1] \in 0 .. Len(From(1)) /\ Len(From(1)) \in Nat
    BY <2>1, <2>2, <2>3, CountsRange, FromFacts
  <2> DEFINE rows == AllRows(query.from)
             m == Len(rows)
  <2>5. d[1] \in 0 .. m /\ m \in 0 .. m /\ d[1] <= m /\ m \in Nat
    BY <2>3, <2>4
  <2>6. answer = Given(rows, query)[m]
    BY <2>2 DEF Answer
  <2>7. IsPrefix(Given(rows, query)[d[1]], Given(rows, query)[m])
    <3> HIDE DEF rows
    <3> QED BY <2>5, GivenPrefix
  <2> QED BY <2>1, <2>6, <2>7
<1>2. phase = "idle" /\ reply = "rows" => out = answer
  BY DEF Meant
<1> QED BY <1>1, <1>2 DEF RowsAreTheAnswer

(* A select gives out the rows its text means, for any tables and any      *)
(* statements whose keys stand first.                                      *)
THEOREM RowsAreRight ==
  ASSUME \A q \in Queries : KeyStandsFirst(q)
  PROVE  Spec => []RowsAreTheAnswer
<1>1. Init => IInv /\ Meant
  BY InitInv, InitMeant
<1>2. IInv /\ Meant /\ [Next]_vars => (IInv /\ Meant)'
  BY NextInv, NextMeant
<1>3. IInv /\ Meant => RowsAreTheAnswer
  BY MeantAnswer
<1> QED BY <1>1, <1>2, <1>3, PTL DEF Spec
=============================================================================
