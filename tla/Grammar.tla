------------------------------ MODULE Grammar ------------------------------
(* What a line may say: the grammar that the comments of                   *)
(* interface/parser.rs give, as a relation between strings of tokens and   *)
(* the nodes they are writings of.  It says nothing of how a line is read: *)
(* every way to cut a string in parts is tried.  Each operator gives the   *)
(* set of the nodes that s is a writing of.                                *)
EXTENDS Bytes, Lexer, FiniteSetsExt

Kinds(s) == [i \in DOMAIN s |-> s[i].kind]
At(s, kind) == {i \in DOMAIN s : s[i].kind = kind}
Inside(s) == SubSeq(s, 2, Len(s) - 1)

\* All the ways to cut s at separators into things that One knows.
ListsOf(One(_), sep, s) ==
  LET from[i \in 1 .. Len(s) + 1] ==
        {<<x>> : x \in One(SubSeq(s, i, Len(s)))} \cup
        UNION {{<<x>> \o rest : x \in One(SubSeq(s, i, j - 1)), rest \in from[j + 1]} :
               j \in {k \in At(s, sep) : k > i}}
  IN  from[1]

NamesOf(s) == IF Kinds(s) = <<"id">> THEN {s[1].text} ELSE {}

ColumnsOf(s) ==
  IF Kinds(s) = <<"id">> THEN {[table |-> <<>>, column |-> s[1].text]}
  ELSE IF Kinds(s) = <<"id", ".", "id">>
  THEN {[table |-> s[1].text, column |-> s[3].text]}
  ELSE {}

Decimal(text) ==
  LET DigitOf(c) == (CHOOSE i \in DOMAIN Digits : Digits[i] = c) - 1
      Weigh(i) == DigitOf(text[i]) * 10 ^ (Len(text) - i)
  IN  MapThenSumSet(Weigh, DOMAIN text)

\* The value of a number, in hundredths when it has a point; the digits
\* after the second one of a fraction are dropped.
NumbersOf(token) ==
  LET point == CHOOSE i \in DOMAIN token.text : token.text[i] = "."
      padded == SelectSeq(token.text, LAMBDA c : c # ".") \o <<"0", "0">>
  IN  IF token.kind = "float"
      THEN {[literal |-> "float", value |-> Decimal(SubSeq(padded, 1, point + 1))]}
      ELSE IF token.kind = "int" /\ Decimal(token.text) <= Highest("long")
      THEN {[literal |-> "int", value |-> Decimal(token.text)]}
      ELSE {}

LiteralsOf(s) ==
  IF Len(s) = 1 /\ s[1].kind = "string" THEN {[literal |-> "string", value |-> Inside(s[1].text)]}
  ELSE IF Len(s) = 1 /\ s[1].kind = "bool"
  THEN {[literal |-> "bool", value |-> ToLower(s[1].text[1]) = "true"]}
  ELSE IF Len(s) = 1 THEN NumbersOf(s[1])
  ELSE IF Len(s) = 2 /\ s[1].kind = "-"
  THEN {[n EXCEPT !.value = -@] : n \in NumbersOf(s[2])}
  ELSE {}

\* An operand, or an operand, an operator and any expression.
RECURSIVE ExprsOf(_)
OperandsOf(s) ==
  LiteralsOf(s) \cup ColumnsOf(s) \cup
    IF Len(s) > 2 /\ s[1].kind = "(" /\ s[Len(s)].kind = ")"
    THEN ExprsOf(Inside(s)) ELSE {}

ExprsOf(s) ==
  OperandsOf(s) \cup
  UNION {{[op |-> s[i].kind, left |-> l, right |-> r] :
            l \in OperandsOf(SubSeq(s, 1, i - 1)),
            r \in ExprsOf(SubSeq(s, i + 1, Len(s)))} :
         i \in {j \in 2 .. Len(s) - 1 : s[j].kind \in Operators \ {"&&", "||"}}}

PredsOf(s) ==
  {e \in ExprsOf(s) : "op" \in DOMAIN e /\ e.op \notin {"+", "-", "*", "/"}}
CondsOf(s) == ListsOf(PredsOf, "&&", s)

RowsOf(s) ==
  IF Len(s) > 2 /\ s[1].kind = "(" /\ s[Len(s)].kind = ")"
  THEN ListsOf(ExprsOf, ",", Inside(s)) ELSE {}

----------------------------------------------------------------------------
(* Schemas.                                                                *)

\* <name> : <type>, and for the key `primary`, and for its counter `auto`.
SchemaColumnsOf(s) ==
  UNION {{[name |-> c.column, type |-> ToLower(s[i + 1].text[1]),
           marks |-> SubSeq(Kinds(s), i + 2, Len(s))] :
            c \in ColumnsOf(SubSeq(s, 1, i - 1))} :
         i \in {j \in At(s, ":") : j < Len(s) /\ s[j + 1].kind = "id"
                                             /\ Len(s[j + 1].text) = 1}}

IsColumn(c) ==
  /\ c.type \in {"int", "uint", "long", "ulong", "string", "bool", "float"}
  /\ \/ c.marks = <<>>
     \/ c.marks \in {<<"primary">>, <<"primary", "auto">>} /\ c.type \in {"uint", "ulong"}

IsKey(c) == c.marks # <<>>
SchemasOf(s) ==
  LET Plain(c) == [name |-> c.name, type |-> c.type]
      Schema(cols) ==
        LET vals == SelectSeq(cols, LAMBDA c : ~IsKey(c))
            key == SelectSeq(cols, IsKey)[1]
        IN  [key |-> [name |-> key.name, type |-> key.type, auto |-> Len(key.marks) = 2],
             vals |-> [i \in DOMAIN vals |-> Plain(vals[i])]]
  IN  IF Len(s) > 2 /\ s[1].kind = "{" /\ s[Len(s)].kind = "}"
      THEN {Schema(cols) : cols \in
              {l \in ListsOf(SchemaColumnsOf, ",", Inside(s)) :
                 /\ \A i \in DOMAIN l : IsColumn(l[i])
                 /\ Cardinality({i \in DOMAIN l : IsKey(l[i])}) = 1}}
      ELSE {}

----------------------------------------------------------------------------
(* Statements, without the semicolon they end with.                        *)

SelectsOf(s) ==
  UNION {{[stmt |-> "select", columns |-> columns, tables |-> tables, conds |-> conds] :
            columns \in IF Kinds(SubSeq(s, 2, f - 1)) = <<"*">> THEN {<<>>}
                        ELSE ListsOf(ColumnsOf, ",", SubSeq(s, 2, f - 1)),
            tables \in ListsOf(NamesOf, ",", SubSeq(s, f + 1, w - 1)),
            conds \in IF w > Len(s) THEN {<<>>} ELSE CondsOf(SubSeq(s, w + 1, Len(s)))} :
         f \in At(s, "from"), w \in At(s, "where") \cup {Len(s) + 1}}

InsertsOf(s) ==
  LET rest == SubSeq(s, 3, Len(s))
      values == IF Len(rest) > 2 /\ rest[1].kind = "[" /\ rest[Len(rest)].kind = "]"
                THEN ListsOf(RowsOf, ",", Inside(rest))
                ELSE {<<row>> : row \in RowsOf(rest)}
  IN  {[stmt |-> "insert", table |-> t, rows |-> rows] :
         t \in NamesOf(SubSeq(s, 2, 2)), rows \in values}

DeletesOf(s) ==
  IF Len(s) > 4 /\ s[2].kind = "from" /\ s[4].kind = "where"
  THEN {[stmt |-> "delete", table |-> t, conds |-> conds] :
          t \in NamesOf(SubSeq(s, 3, 3)), conds \in CondsOf(SubSeq(s, 5, Len(s)))}
  ELSE {}

NewsOf(s) ==
  {[stmt |-> "new", table |-> t, schema |-> schema] :
     t \in {n \in NamesOf(SubSeq(s, 3, 3)) : s[2].kind = "table"},
     schema \in SchemasOf(SubSeq(s, 4, Len(s)))}

StatementsOf(s) ==
  IF Kinds(s) = <<"describe", "id">> THEN {[stmt |-> "describe", table |-> s[2].text]}
  ELSE IF Len(s) < 3 THEN {}
  ELSE IF s[1].kind = "select" THEN SelectsOf(s)
  ELSE IF s[1].kind = "insert" THEN InsertsOf(s)
  ELSE IF s[1].kind = "delete" THEN DeletesOf(s)
  ELSE IF s[1].kind = "new" THEN NewsOf(s)
  ELSE IF s[1].kind = "drop" /\ s[2].kind = "table"
  THEN {[stmt |-> "drop", table |-> t] : t \in NamesOf(SubSeq(s, 3, Len(s)))}
  ELSE {}

\* A line is read up to a semicolon; the rest of it does not matter.
Readings(s) ==
  UNION {StatementsOf(SubSeq(s, 1, i - 1)) : i \in At(s, ";")}

----------------------------------------------------------------------------
(* Tokens: what they are of a text, however they are found.                *)

InWord(c) == c \in Letter \cup Digit \cup {"_"}

\* The operators of two characters.
Double == {<<"!", "=", "!=">>, <<">", "=", ">=">>, <<"<", "=", "<=">>,
           <<"&", "&", "&&">>, <<"|", "|", "||">>}

\* The kinds of token that some symbols are.
KindsOf(word) ==
  LET first == word[1]
      points == {i \in DOMAIN word : word[i] = "."}
      lower == ToLower(first)
  IN  {k \in Punctuation \cup (OpChar \ {"!", "&", "|"}) : word = <<k>>}
      \cup {d[3] : d \in {x \in Double : word = <<x[1], x[2]>>}}
      \cup {k \in {"string"} : Len(word) > 1 /\ {i \in DOMAIN word : word[i] = Quote} = {1, Len(word)}}
      \cup {k \in {"int", "float"} :
              /\ first \in Digit /\ \A i \in (DOMAIN word) \ points : word[i] \in Digit
              /\ Cardinality(points) = IF k = "int" THEN 0 ELSE 1}
      \cup {k \in KeyWord \cup {"bool", "id"} :
              /\ first \in Letter /\ \A i \in DOMAIN word : InWord(word[i])
              /\ k = IF Len(word) > 1 THEN "id"
                     ELSE IF lower \in BoolWord THEN "bool"
                     ELSE IF lower = "desc" THEN "describe"
                     ELSE IF lower \in KeyWord THEN lower ELSE "id"}

\* Tokens spell the text but for spaces between them, up to one that is
\* invalid, each is of its kind, and none is the beginning of a longer one.
Spell(s, text) ==
  LET valid == {i \in DOMAIN s : s[i].kind # "invalid"}
      From(i) == s[i].next - Len(s[i].text)
      EndBefore(i) == IF i = 1 THEN 1 ELSE s[i - 1].next
  IN  /\ \A i \in valid :
           /\ s[i].text = SubSeq(text, From(i), s[i].next - 1)
           /\ \A j \in EndBefore(i) .. From(i) - 1 : text[j] = Space
           /\ KindsOf(s[i].text) = {s[i].kind}
           /\ s[i].next \in DOMAIN text => KindsOf(Append(s[i].text, text[s[i].next])) = {}
      /\ valid = DOMAIN s =>
           \A j \in (IF s = <<>> THEN 1 ELSE s[Len(s)].next) .. Len(text) : text[j] = Space

\* Where the token that is not valid would be.
Stop(s, text) ==
  EndOfRun(text, IF Len(s) = 1 THEN 1 ELSE s[Len(s) - 1].next, {Space})

\* No token begins at this place, or a number that something other than a
\* space, punctuation or an operator ends.
NoTokenAt(text, i) ==
  LET rest == SubSeq(text, i, Len(text))
      ends == {n \in DOMAIN rest : KindsOf(SubSeq(rest, 1, n)) # {}}
  IN  \/ ends = {}
      \/ /\ text[i] \in Digit
         /\ Max(ends) < Len(rest)
         /\ InWord(rest[Max(ends) + 1]) \/ rest[Max(ends) + 1] = Quote
=============================================================================
