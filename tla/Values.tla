------------------------------- MODULE Values -------------------------------
(* Values of columns: from the expressions of an insert to typed data      *)
(* (execution/query.rs), the arithmetic on them (storage.rs and, for       *)
(* literals, interface/parser.rs); module RowBytes has the bytes of a row. *)
(*                                                                         *)
(* A value is [type, value].  An expression is what module Parser makes of *)
(* it.  Nothing is read from a place here: the place in an outcome is 0.   *)
(* Products and quotients of floats are not modelled.                      *)
EXTENDS Parser, RowBytes

NumericType == IntegerType \cup {"float"}
Arithmetic == {"+", "-", "*", "/"}

Value(type, value) == Got([type |-> type, value |-> value], 0)

----------------------------------------------------------------------------
(* Arithmetic at one type.                                                 *)

\* Division truncates towards zero.
Quotient(l, r) ==
  LET Abs(n) == IF n < 0 THEN -n ELSE n
      q == Abs(l) \div Abs(r)
  IN  IF (l < 0) = (r < 0) THEN q ELSE -q

Exactly(op, l, r) ==
  IF op = "+" THEN l + r
  ELSE IF op = "-" THEN l - r
  ELSE IF op = "*" THEN l * r
  ELSE Quotient(l, r)

\* The operators of Rust at an integer type: a debug build panics when the
\* result does not fit, a release build wraps; both do when a division has
\* no result.
Calculate(op, l, r, type, debug) ==
  IF op = "/" /\ r = 0 THEN Failed("panic")
  ELSE IF Fits(Exactly(op, l, r), type) THEN Got(Exactly(op, l, r), 0)
  ELSE IF debug \/ op = "/" THEN Failed("panic")
  ELSE Got(Wrapped(Exactly(op, l, r), type), 0)

CalculateFloat(op, l, r) ==
  IF op \in {"+", "-"} THEN Got(Exactly(op, l, r), 0) ELSE Failed("unmodelled")

----------------------------------------------------------------------------
(* A literal, in a column of some type or compared with another one.       *)

\* Mutant: the result of try_from is unwrapped.
LiteralToColDataUnwrapped(node, target) ==
  IF node.literal = "int" /\ target \in IntegerType
  THEN IF Fits(node.value, target) THEN Value(target, node.value) ELSE Failed("panic")
  ELSE IF node.literal = target THEN Value(target, node.value)
  ELSE Failed("error")

LiteralToColData(node, target) ==
  IF node.literal = "int"
  THEN IF target \in IntegerType /\ Fits(node.value, target)
       THEN Value(target, node.value) ELSE Failed("error")
  ELSE IF node.literal = target THEN Value(target, node.value)
  ELSE Failed("error")

\* Arithmetic on literals is at i64, or at f64 when one side is a float;
\* on other literals, on a comparison or a column there is none.
Hundredths(node) ==
  IF node.literal = "int" THEN 100 * node.value ELSE node.value

CalculateLiterals(op, l, r, debug) ==
  IF {l.literal, r.literal} = {"int"}
  THEN Then(Calculate(op, l.value, r.value, "long", debug),
            LAMBDA value, none : Literal("int", value))
  ELSE IF {l.literal, r.literal} \subseteq {"int", "float"}
  THEN Then(CalculateFloat(op, Hundredths(l), Hundredths(r)),
            LAMBDA value, none : Literal("float", value))
  ELSE Failed("panic")

RECURSIVE ExprToLiteral(_, _)
ExprToLiteral(expr, debug) ==
  IF "literal" \in DOMAIN expr THEN Got(expr, 0)
  ELSE IF "op" \in DOMAIN expr /\ expr.op \in Arithmetic
  THEN Then(ExprToLiteral(expr.left, debug), LAMBDA l, a :
         Then(ExprToLiteral(expr.right, debug), LAMBDA r, b :
           CalculateLiterals(expr.op, l, r, debug)))
  ELSE Failed("panic")

\* Literals of two kinds are different, and in no order; neither are two
\* strings.
Rank(node) ==
  IF node.literal = "bool" THEN IF node.value THEN 1 ELSE 0 ELSE node.value

CompareLiterals(op, l, r) ==
  LET alike == l.literal = r.literal
      Less(a, b) == alike /\ a.literal # "string" /\ Rank(a) < Rank(b)
      equal == alike /\ l.value = r.value
      ordered == equal /\ l.literal # "string"
  IN  \/ op = "=" /\ equal
      \/ op = "!=" /\ ~equal
      \/ op \in {"<", "<="} /\ Less(l, r)
      \/ op \in {">", ">="} /\ Less(r, l)
      \/ op \in {"<=", ">="} /\ ordered

----------------------------------------------------------------------------
(* The value of an expression in a column.                                 *)

RECURSIVE ExprToColData(_, _, _)
ExprToColData(expr, target, debug) ==
  IF "literal" \in DOMAIN expr THEN LiteralToColData(expr, target)
  ELSE IF "op" \notin DOMAIN expr THEN Failed("panic")
  ELSE IF expr.op \in Arithmetic
  THEN IF target \notin NumericType THEN Failed("error")
       ELSE Then(ExprToColData(expr.left, target, debug), LAMBDA l, a :
              Then(ExprToColData(expr.right, target, debug), LAMBDA r, b :
                Then(IF target = "float"
                     THEN CalculateFloat(expr.op, l.value, r.value)
                     ELSE Calculate(expr.op, l.value, r.value, target, debug),
                     LAMBDA value, c : Value(target, value))))
  ELSE IF target # "bool" THEN Failed("error")
  ELSE Then(ExprToLiteral(expr.left, debug), LAMBDA l, a :
         Then(ExprToLiteral(expr.right, debug), LAMBDA r, b :
           Value("bool", CompareLiterals(expr.op, l, r))))

\* The values of the columns, one after the other up to the first failure.
Assemble(exprs, types, debug) ==
  LET vals[i \in 0 .. Len(exprs)] ==
        IF i = 0 THEN Got(<<>>, 0)
        ELSE Then(vals[i - 1], LAMBDA done, a :
               Then(ExprToColData(exprs[i], types[i], debug), LAMBDA v, b :
                 Got(Append(done, v), 0)))
  IN  vals[Len(exprs)]

ValTypes(schema) == [i \in DOMAIN schema.vals |-> schema.vals[i].type]
RowTypes(schema) == <<schema.key.type>> \o ValTypes(schema)

AssembleRecData(exprs, schema, debug) == Assemble(exprs, ValTypes(schema), debug)

AssembleRowData(exprs, schema, debug) ==
  IF Len(exprs) # Len(RowTypes(schema)) THEN Failed("error")
  ELSE Assemble(exprs, RowTypes(schema), debug)

=============================================================================
