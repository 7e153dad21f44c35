----------------------------- MODULE MCSession -----------------------------
(* Lines for TLC.                                                          *)
EXTENDS Session

SomeLetters == {"a", "t", "id", "b", "s", "int", "uint", "ulong", "long",
                "string", "bool", "float", "quit", "SELECT", "TRUE", "UINT"}

AllSymbols ==
  <<"select", "from", "new", "table", "primary", "auto", "insert", "describe",
    "desc", "drop", "delete", "where", "true", "false", "a", "t", "id", "b",
    "s", "int", "uint", "ulong", "long", "string", "bool", "float", "quit",
    "SELECT", "TRUE", "UINT", "_", " ">> \o Digits
Characters == [c \in Range(AllSymbols) |-> CHOOSE i \in DOMAIN AllSymbols : AllSymbols[i] = c]

----------------------------------------------------------------------------
\* Words with a space after each one; a number or a string is one word.
N(n) == LET digits[m \in Nat] == IF m < 10 THEN <<Digits[m + 1]>>
                                 ELSE Append(digits[m \div 10], Digits[(m % 10) + 1])
        IN  digits[n]
Str(s) == <<Quote>> \o s \o <<Quote>>
W(words) == FlattenSeq([i \in DOMAIN words |-> <<words[i], Space>>])

NewLine(cols) == W(<<"new", "table", "t", "{">>) \o cols \o W(<<"}", ";">>)
InsertLine(list) == W(<<"insert", "t">>) \o list \o W(<<";">>)
Row1(v) == W(<<"(">>) \o v \o W(<<")">>)
Row2(v, w) == W(<<"(">>) \o v \o W(<<",">>) \o w \o W(<<")">>)
Row3(v, w, x) == W(<<"(">>) \o v \o W(<<",">>) \o w \o W(<<",">>) \o x \o W(<<")">>)
DeleteLine(conds) == W(<<"delete", "from", "t", "where">>) \o conds \o W(<<";">>)
OpSymbols(o) == IF o = "!=" THEN <<"!", "=">> ELSE IF o = ">=" THEN <<">", "=">>
                ELSE IF o = "<=" THEN <<"<", "=">> ELSE <<o>>
Op(l, o, r) == l \o <<Space>> \o OpSymbols(o) \o <<Space>> \o r

\* A name no header has the room for.
TooLong == FlattenSeq([i \in 1 .. (Base * Base) \div 2 |-> <<"a", "_">>])
NewLines == {
  NewLine(TooLong \o W(<<":", "uint", "primary">>)),
  NewLine(W(<<"id", ":", "UINT", "primary", "auto", ",", "a", ":", "int">>)),
  NewLine(W(<<"s", ":", "string", ",", "b", ":", "bool", ",", "id", ":", "uint", "primary">>)),
  NewLine(W(<<"id", ":", "uint", "primary", "auto", ",", "s", ":", "string">>)),
  NewLine(W(<<"id", ":", "ulong", "primary", "auto", ",", "a", ":", "float">>)),
  NewLine(W(<<"a", ":", "long", ",", "s", ":", "string", ",", "id", ":", "uint", "primary">>))}

Minus(v) == W(<<"-">>) \o v
Paren(v) == W(<<"(">>) \o v \o W(<<")">>)
Numbers == {
  N(0), N(127), N(128), Minus(N(1)), Op(N(127), "+", N(1)), Op(Minus(N(127)), "-", N(1)),
  Op(N(7), "-", Op(N(3), "-", N(2))), Op(N(7), "*", N(7)), Op(N(7), "/", N(2)),
  Op(N(7), "/", N(0)), Op(Paren(Op(Minus(N(127)), "-", N(1))), "/", Minus(N(1))),
  N(32767), N(32768), <<"a">>}
InsertLines ==
  {InsertLine(Row1(v)) : v \in Numbers \cup {<<"1", ".", "5">>, <<"TRUE">>}}
  \cup {InsertLine(Row1(Str([i \in 1 .. n |-> "b"]))) : n \in {5, 6}}
  \cup {InsertLine(Row2(N(255), N(1))), InsertLine(Row2(N(0), N(7))),
        InsertLine(Row2(Op(N(0), "-", N(1)), N(2))),
        InsertLine(Row2(N(7), <<"2", ".">>)),
        InsertLine(<<"[">> \o Row1(N(7)) \o <<",">> \o Row1(N(128)) \o <<"]">>),
        InsertLine(<<"[">> \o Row1(N(7)) \o <<",">> \o Row1(Minus(N(1))) \o <<"]">>),
        InsertLine(<<"[">> \o Row2(N(7), N(0)) \o <<",">> \o Row1(N(2)) \o <<",">>
                           \o Row2(N(7), N(3)) \o <<"]">>)}
  \cup {InsertLine(Row3(N(1), Str(<<"a", "b">>), <<"true">>)),
        InsertLine(Row3(N(2), Str(<<>>), <<"TRUE">>)),
        InsertLine(Row3(N(3), Str(<<"b">>), Op(N(1), "<", Op(N(2), "+", N(1))))),
        InsertLine(Row3(N(3), Str(<<"b">>), Op(Str(<<"b">>), ">", Str(<<"a">>)))),
        InsertLine(Row3(N(3), Str(<<"b">>), Op(N(1), "=", Op(N(1), "=", N(1))))),
        InsertLine(Row3(N(1), Minus(N(7)), Str(<<"a">>))),
        InsertLine(Row3(N(2), Op(Minus(N(32767)), "-", N(1)), Str(<<>>))),
        InsertLine(Row3(N(2), Op(N(32767), "*", N(2)), Str(<<"b">>))),
        InsertLine(Row3(N(2), N(1), Str(<<"a", " ", "b">>)))}
DeleteLines == {
  DeleteLine(Op(<<"id">>, "<", N(2))), DeleteLine(Op(N(7), "<", <<"a">>)),
  DeleteLine(Op(<<"t", ".", "a">>, "!=", N(7))), DeleteLine(Op(<<"id">>, "=", <<"a">>)),
  DeleteLine(Op(<<"s">>, ">", Str(<<"a">>))), DeleteLine(Op(<<"b">>, "=", <<"true">>)),
  DeleteLine(Op(<<"id">>, "<", N(2)) \o <<"&", "&">> \o Op(<<"a">>, ">", N(0))),
  DeleteLine(Op(<<"a">>, "+", N(1)))}
SelectLine(conds) == W(<<"select", "a", "from", "t", "where">>) \o conds \o W(<<";">>)
SelectLines == {
  SelectLine(Op(<<"id">>, ">=", N(1))), SelectLine(Op(<<"a">>, "!=", N(7))),
  SelectLine(Op(N(7), "<", <<"id">>)), SelectLine(Op(<<"id">>, "=", <<"a">>)),
  SelectLine(Op(<<"id">>, "=", Str(<<"a">>)) \o <<"&", "&">> \o Op(<<"a">>, "<", N(1))),
  SelectLine(Op(N(1), "=", <<"b">>))}
OtherLines == {W(<<"drop", "table", "t", ";">>), W(<<"desc", "t", ";">>)}

\* The lines that are edited.
SomeLines == {
  NewLine(W(<<"id", ":", "UINT", "primary", "auto", ",", "a", ":", "int">>)),
  <<".", "quit">>,
  W(<<"SELECT", "*", "from", "t", "where", "id">>) \o <<">", "=">> \o W(<<"1", ";", "a">>),
  W(<<"select", "t", ".", "id", ",", "a", "from", "t", ",", "b", ";">>),
  InsertLine(<<"[">> \o Row1(Op(N(7), "-", Op(N(3), "-", N(2)))) \o <<",">> \o Row1(N(1)) \o <<"]">>),
  InsertLine(Row2(Str(<<"a", "b">>), Paren(Op(N(1), "+", Minus(N(1)))))),
  DeleteLine(Op(<<"t", ".", "a">>, "!=", N(7)) \o <<"&", "&">> \o Op(<<"a">>, ">", N(0)))}
Lines == NewLines \cup InsertLines \cup DeleteLines \cup SelectLines \cup OtherLines \cup SomeLines
LaterLines == DeleteLines \cup OtherLines
SomeSymbols == {"a", "1", "(", ",", "=", "'", "."}
SomeWords == {
  <<"select">>, <<"from">>, <<"where">>, <<"insert">>, <<"delete">>, <<"describe">>,
  <<"drop">>, <<"table">>, <<"a">>, <<"*">>, <<",">>, <<".">>, <<"(">>, <<")">>,
  <<"1">>, <<"-">>, <<"=">>, <<"&", "&">>, <<";">>}
=============================================================================
