------------------------------- MODULE Parser -------------------------------
(* The recursive descent parser of statements (interface/parser.rs).       *)
(*                                                                         *)
(* A parse function takes the tokens ts and the place i of the next one    *)
(* and gives back a node and the place after it, or how it failed.         *)
EXTENDS Lexer, Outcome, Bytes

\* The kind of the next token, without taking it.
Peek(ts, i, Next(_)) ==
  IF i > Len(ts) THEN Failed("nothing")
  ELSE IF ts[i].kind = "invalid" THEN Failed("error")
  ELSE Next(ts[i].kind)

\* Takes the next token, which must be of one of these kinds.
Take(ts, i, kinds) ==
  Peek(ts, i, LAMBDA kind : IF kind \in kinds THEN Got(ts[i], i + 1)
                            ELSE Failed("error"))

\* One item, and another after each separator.
SepList(Item(_), sep, ts, i) ==
  LET from[j \in Nat] ==
        Then(Item(j), LAMBDA item, at :
          Peek(ts, at, LAMBDA kind :
            IF kind # sep THEN Got(<<item>>, at)
            ELSE Then(from[at + 1], LAMBDA rest, end :
                        Got(<<item>> \o rest, end))))
  IN  from[i]

----------------------------------------------------------------------------
(* Names, literals and expressions.                                        *)

ParseTable(ts, i) ==
  Then(Take(ts, i, {"id"}), LAMBDA id, at : Got(id.text, at))

ParseTableList(ts, i) == SepList(LAMBDA j : ParseTable(ts, j), ",", ts, i)

\* A column, with or without its table.
ParseColumn(ts, i) ==
  Then(Take(ts, i, {"id"}), LAMBDA id, at :
    Peek(ts, at, LAMBDA kind :
      IF kind # "." THEN Got([table |-> <<>>, column |-> id.text], at)
      ELSE Then(Take(ts, at + 1, {"id"}), LAMBDA column, end :
             Got([table |-> id.text, column |-> column.text], end))))

ParseColumnList(ts, i) ==
  Peek(ts, i, LAMBDA kind :
    IF kind = "*" THEN Got(<<>>, i + 1)
    ELSE SepList(LAMBDA j : ParseColumn(ts, j), ",", ts, i))

\* The number some digits stand for.
ParseDigits(text) ==
  LET Value(c) == (CHOOSE i \in DOMAIN Digits : Digits[i] = c) - 1
      value[k \in 0 .. Len(text)] ==
        IF k = 0 THEN 0 ELSE value[k - 1] * 10 + Value(text[k])
  IN  value[Len(text)]

\* A float has two decimals here, and its value is a number of hundredths.
ParseHundredths(text) ==
  LET dot == CHOOSE j \in DOMAIN text : text[j] = "."
      decimals == SubSeq(text \o <<"0", "0">>, dot + 1, dot + 2)
  IN  ParseDigits(SubSeq(text, 1, dot - 1) \o decimals)

Literal(kind, value) == Got([literal |-> kind, value |-> value], 0)

\* What a literal token stands for.  A Boolean is true when it is spelled
\* "true" in lower case; a number past i64 is an unwrap of an error.
ReadLiteral(token, sign) ==
  IF token.kind = "string"
  THEN Literal("string", SubSeq(token.text, 2, Len(token.text) - 1))
  ELSE IF token.kind = "bool" THEN Literal("bool", token.text = <<"true">>)
  ELSE IF token.kind = "float"
  THEN Literal("float", sign * ParseHundredths(token.text))
  ELSE IF ParseDigits(token.text) > Highest("long") THEN Failed("panic")
  ELSE Literal("int", sign * ParseDigits(token.text))

ParseLiteralExpr(ts, i) ==
  Then(Take(ts, i, {"int", "float", "string", "bool", "-"}), LAMBDA first, at :
    IF first.kind # "-"
    THEN Then(ReadLiteral(first, 1), LAMBDA node, none : Got(node, at))
    ELSE Then(Take(ts, at, {"int", "float"}), LAMBDA second, end :
           Then(ReadLiteral(second, -1), LAMBDA node, none : Got(node, end))))

\* Operators have no precedence: the right operand is all the rest of the
\* expression.  && and || end an expression, so neither is an operand's.
ParseExpr(ts, i) ==
  LET expr[j \in Nat] ==
        LET first ==
              Peek(ts, j, LAMBDA kind :
                IF kind = "("
                THEN Then(expr[j + 1], LAMBDA inner, at :
                       Then(Take(ts, at, {")"}), LAMBDA close, end :
                              Got(inner, end)))
                ELSE IF kind = "id" THEN ParseColumn(ts, j)
                ELSE ParseLiteralExpr(ts, j))
        IN  Then(first, LAMBDA left, at :
              Peek(ts, at, LAMBDA kind :
                IF kind \in Operators \ {"&&", "||"}
                THEN Then(expr[at + 1], LAMBDA right, end :
                       Got([op |-> kind, left |-> left, right |-> right], end))
                ELSE Got(left, at)))
  IN  expr[i]

\* A predicate is a comparison at its outermost operator.
Comparison == {"=", "!=", ">", ">=", "<", "<="}

\* Mutant: any operator will do.
IsPredAny(node) == "op" \in DOMAIN node

IsPred(node) == "op" \in DOMAIN node /\ node.op \in Comparison

ParsePredicate(ts, i) ==
  Then(ParseExpr(ts, i), LAMBDA node, at :
    IF IsPred(node) THEN Got(node, at) ELSE Failed("error"))

\* The caller may not have looked for the word `where`: a debug build
\* asserts it is there, and a release build drops whatever token is.
ParseWhereClause(ts, i, debug) ==
  Peek(ts, i, LAMBDA kind :
    IF debug /\ kind # "where" THEN Failed("panic")
    ELSE SepList(LAMBDA j : ParsePredicate(ts, j), "&&", ts, i + 1))

----------------------------------------------------------------------------
(* Rows and schemas.                                                       *)

ParseRowValue(ts, i) ==
  Then(Take(ts, i, {"("}), LAMBDA open, at :
    Then(SepList(LAMBDA j : ParseExpr(ts, j), ",", ts, at), LAMBDA vals, to :
      Then(Take(ts, to, {")"}), LAMBDA close, end : Got(vals, end))))

ParseRowValueList(ts, i) ==
  Then(SepList(LAMBDA j : ParseRowValue(ts, j), ",", ts, i + 1),
       LAMBDA rows, at :
    Then(Take(ts, at, {"]"}), LAMBDA close, end : Got(rows, end)))

ColumnType == {"int", "uint", "long", "ulong", "string", "bool", "float"}
KeyType == {"uint", "ulong"}

\* The name of a type is read whatever its case.
TypeNamed(text) == IF Len(text) = 1 THEN ToLower(text[1]) ELSE "none"

ParseColumnType(ts, i) ==
  Then(Take(ts, i, {"id"}), LAMBDA id, at :
    IF TypeNamed(id.text) \in ColumnType THEN Got(TypeNamed(id.text), at)
    ELSE Failed("error"))

\* <column> : <type> [primary [auto]]; only the name of the column is kept.
ParseSchemaColumn(ts, i) ==
  Then(ParseColumn(ts, i), LAMBDA column, at :
    Then(Take(ts, at, {":"}), LAMBDA colon, from :
      Then(ParseColumnType(ts, from), LAMBDA type, to :
        Peek(ts, to, LAMBDA kind :
          LET Col(primary, auto, end) ==
                Got([name |-> column.column, type |-> type,
                     primary |-> primary, auto |-> auto], end)
          IN  IF kind # "primary" THEN Col(FALSE, FALSE, to)
              ELSE IF type \notin KeyType THEN Failed("error")
              ELSE Peek(ts, to + 1, LAMBDA next :
                     IF next = "auto" THEN Col(TRUE, TRUE, to + 2)
                     ELSE Col(TRUE, FALSE, to + 1))))))

OneKey(cols) == Cardinality({j \in DOMAIN cols : cols[j].primary}) = 1

\* The key comes first wherever it was written.
SchemaOf(cols) ==
  LET Named(c) == [name |-> c.name, type |-> c.type]
      keys == {j \in DOMAIN cols : cols[j].primary}
      key == cols[CHOOSE j \in keys : TRUE]
      Val(j) == IF j < Min(keys) THEN Named(cols[j]) ELSE Named(cols[j + 1])
  IN  [key |-> [name |-> key.name, type |-> key.type, auto |-> key.auto],
       vals |-> [j \in 1 .. Len(cols) - 1 |-> Val(j)]]

ParseTableSchema(ts, i) ==
  Then(Take(ts, i, {"{"}), LAMBDA open, at :
    Then(SepList(LAMBDA j : ParseSchemaColumn(ts, j), ",", ts, at),
         LAMBDA cols, to :
      IF ~OneKey(cols) THEN Failed("error")
      ELSE Then(Take(ts, to, {"}"}), LAMBDA close, end :
             Got(SchemaOf(cols), end))))

----------------------------------------------------------------------------
(* Statements.  Each one ends with a semicolon, and what follows it on the *)
(* line is never looked at.                                                *)

Ended(ts, i, stmt) ==
  Then(Take(ts, i, {";"}), LAMBDA semi, at : Got(stmt, at))

ParseSelect(ts, i, debug) ==
  Then(ParseColumnList(ts, i), LAMBDA columns, a :
    Then(Take(ts, a, {"from"}), LAMBDA from, b :
      Then(ParseTableList(ts, b), LAMBDA tables, c :
        LET Select(conds, end) ==
              Ended(ts, end, [stmt |-> "select", columns |-> columns,
                              tables |-> tables, conds |-> conds])
        IN  Peek(ts, c, LAMBDA kind :
              IF kind = "where" THEN Then(ParseWhereClause(ts, c, debug), Select)
              ELSE Select(<<>>, c)))))

ParseInsert(ts, i) ==
  Then(ParseTable(ts, i), LAMBDA table, a :
    LET Insert(rows, end) ==
          Ended(ts, end, [stmt |-> "insert", table |-> table, rows |-> rows])
    IN  Peek(ts, a, LAMBDA kind :
          IF kind = "[" THEN Then(ParseRowValueList(ts, a), Insert)
          ELSE IF kind = "("
          THEN Then(ParseRowValue(ts, a), LAMBDA row, end : Insert(<<row>>, end))
          ELSE Failed("error")))

ParseNew(ts, i) ==
  Then(Take(ts, i, {"table"}), LAMBDA word, a :
    Then(ParseTable(ts, a), LAMBDA table, b :
      Then(ParseTableSchema(ts, b), LAMBDA schema, c :
        Ended(ts, c, [stmt |-> "new", table |-> table, schema |-> schema]))))

ParseDrop(ts, i) ==
  Then(Take(ts, i, {"table"}), LAMBDA word, a :
    Then(ParseTable(ts, a), LAMBDA table, b :
      Ended(ts, b, [stmt |-> "drop", table |-> table])))

ParseDescribe(ts, i) ==
  Then(ParseTable(ts, i), LAMBDA table, a :
    Ended(ts, a, [stmt |-> "describe", table |-> table]))

ParseDelete(ts, i, debug) ==
  Then(Take(ts, i, {"from"}), LAMBDA word, a :
    Then(ParseTable(ts, a), LAMBDA table, b :
      Then(ParseWhereClause(ts, b, debug), LAMBDA conds, c :
        Ended(ts, c, [stmt |-> "delete", table |-> table, conds |-> conds]))))

Parse(ts, debug) ==
  Peek(ts, 1, LAMBDA kind :
    IF kind = "select" THEN ParseSelect(ts, 2, debug)
    ELSE IF kind = "insert" THEN ParseInsert(ts, 2)
    ELSE IF kind = "new" THEN ParseNew(ts, 2)
    ELSE IF kind = "drop" THEN ParseDrop(ts, 2)
    ELSE IF kind = "delete" THEN ParseDelete(ts, 2, debug)
    ELSE IF kind = "describe" THEN ParseDescribe(ts, 2)
    ELSE Failed("error"))
=============================================================================
