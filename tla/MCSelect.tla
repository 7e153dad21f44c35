------------------------------ MODULE MCSelect ------------------------------
(* Small tables and statements for TLC.                                    *)
EXTENDS Select

CONSTANT Two, Three                     \* shapes of the second, third table

Tbl(leaves, seps) == [leaves |-> leaves, seps |-> seps]
Row(k) == <<k, (2 * k) % 3>>
LeafOf(keys) == [i \in DOMAIN keys |-> Row(keys[i])]

Empty   == Tbl(<< >>, << >>)                      \* no row was ever inserted
Emptied == Tbl(<<LeafOf(<< >>)>>, << >>)          \* all rows deleted
One     == Tbl(<<LeafOf(<<0, 2, 3>>)>>, << >>)
Split   == Tbl(<<LeafOf(<<0, 1>>), LeafOf(<<4>>)>>, <<3>>)
Late    == Tbl(<<LeafOf(<<1>>), LeafOf(<<2, 4>>)>>, <<2>>)
Cut     == Tbl(<<LeafOf(<<1, 2>>), LeafOf(<< >>)>>, <<4>>)

Shapes == {Empty, Emptied, One, Split, Late, Cut}
Typed(shape, type) == [leaves |-> shape.leaves, seps |-> shape.seps, types |-> <<"uint", type>>]
SmallDatabases ==
  {<<Typed(a, "int"), Typed(b, "uint"), Typed(c, "uint")>> : a \in Shapes, b \in Two, c \in Three}
TwoShapes == {Empty, One, Split}
ThreeShapes == {Emptied, Late}

Key(t) == Column(t, 1)
Val(t) == Column(t, 2)
Number(v) == Literal(v, {"int", "long"} \cup IF v < 0 THEN {} ELSE {"uint", "ulong"})
Text == Literal(0, {"string"})
Select(from, conds, cols) == [from |-> from, conds |-> conds, cols |-> cols]

Orders == {"=", ">", ">="}
Others == {"!=", "<", "<="}

(* Selects of one table whose conditions find_key_preds() reads as meant.  *)
OneTable ==
  {Select(<<1>>, << >>, AllColumns)}
    \cup {Select(<<1>>, <<Cond(Key(0), o, Number(k))>>, <<Val(0)>>) : o \in Orders, k \in 0 .. 4}
    \cup {Select(<<1>>, <<Cond(Val(1), "=", Number(1)), Cond(Key(1), o, Number(k))>>, AllColumns)
            : o \in Orders, k \in {1, 3}}
    \cup {Select(<<1>>, <<Cond(Number(1), ">", Val(0))>>, AllColumns)}

(* Selects that fail when they are built.                                  *)
Wrong ==
  {Select(<<1>>, <<Cond(Key(0), ">", Number(1))>>, <<Column(0, 3)>>),
   Select(<<1>>, <<Cond(Key(1), ">", Number(0)), Cond(Val(2), "=", Number(1))>>, AllColumns),
   Select(<<1, 2>>, <<Cond(Key(0), "=", Key(2))>>, AllColumns),
   Select(<<1, 2>>, <<Cond(Number(1), "=", Number(1))>>, AllColumns),
   Select(<<1, 2>>, <<Cond(Operation, "=", Key(1))>>, AllColumns),
   Select(<<1, 2>>, <<Cond(Val(1), "=", Val(2))>>, AllColumns),
   Select(<<1>>, <<Cond(Key(0), ">", Number(1)), Cond(Text, "=", Val(0))>>, AllColumns),
   Select(<<1>>, <<Cond(Key(0), ">", Number(-1)), Cond(Val(0), "!=", Number(1))>>, AllColumns),
   Select(<<1>>, <<Cond(Val(0), "=", Number(1)), Cond(Operation, "=", Number(1))>>, AllColumns),
   Select(<<1, 1>>, << >>, AllColumns),
   Select(<<4>>, << >>, AllColumns)}

Joins ==
  {Select(<<1, 2, 3>>, << >>, <<Key(3), Key(1), Key(2)>>),
   Select(<<3, 1, 2>>, <<Cond(Key(2), "=", Val(3))>>, AllColumns)}
    \cup {Select(<<2, 1>>, <<Cond(Key(1), o, Key(2))>>, AllColumns) : o \in Orders \cup Others}
    \cup {Select(<<1, 3>>, <<Cond(Number(1), o, Key(3))>>, <<Key(1), Val(3)>>) : o \in Orders \cup Others}

(* Two conditions on a column of one table.                                *)
AnyComparison ==
  {Select(<<1>>, <<Cond(Val(0), ">", Number(0)), Cond(Val(0), o, Number(2))>>, AllColumns)
     : o \in Orders \cup Others}

Statements == OneTable \cup Wrong \cup Joins \cup AnyComparison

(* What the theorem about the answer asks of statements holds of these.    *)
ASSUME StatementsAreCovered == \A q \in Statements : KeyStandsFirst(q)

(* Conditions on the key with the literal first.                           *)
LiteralFirst ==
  {Select(<<1>>, <<Cond(Number(k), o, Key(0))>>, AllColumns) : o \in Orders, k \in 0 .. 4}
=============================================================================
