------------------------------- MODULE Lexer -------------------------------
(* The lexer of a typed line (interface/lexer.rs).                         *)
(*                                                                         *)
(* A text is a sequence of symbols.  A symbol is one character, except     *)
(* that a run of letters is a single symbol ("select", "a").  Two runs     *)
(* without a space between them are still one word, as in the code: the    *)
(* text of a token is the sequence of the symbols it spans.                *)
(*                                                                         *)
(* The code's lexer is pulled one token at a time.  Tokens(text) is all    *)
(* the tokens it would hand out; an error of the lexer is a last token     *)
(* "invalid", at which every caller fails, and what follows it is unread.  *)
EXTENDS Naturals, Sequences, FiniteSetsExt

CONSTANT Letters     \* the runs of letters that are no keyword

\* The reserved words, and the two that are Boolean literals.
KeyWord == {"select", "from", "new", "table", "primary", "auto", "insert",
            "describe", "desc", "drop", "delete", "where"}
BoolWord == {"true", "false"}

\* Words the user shouts, and what to_lowercase makes of them.
Shouted == [SELECT |-> "select", TRUE |-> "true", UINT |-> "uint"]
ToLower(c) == IF c \in DOMAIN Shouted THEN Shouted[c] ELSE c

Letter == KeyWord \cup BoolWord \cup Letters \cup DOMAIN Shouted
Digits == <<"0", "1", "2", "3", "4", "5", "6", "7", "8", "9">>
Digit == {Digits[i] : i \in DOMAIN Digits}
Space == " "
Quote == "'"
Punctuation == {",", ":", ";", "(", ")", "{", "}", "[", "]", "."}
OpChar == {"+", "-", "*", "/", "=", "!", "<", ">", "&", "|"}
Operators == {"+", "-", "*", "/", "=", "!=", ">", ">=", "<", "<=", "&&", "||"}

----------------------------------------------------------------------------
(* One token: its kind (a keyword, operator or punctuation stands for      *)
(* itself), the symbols it spans, and the place after it.                  *)

Token(kind, text, from, to) ==
  [kind |-> kind, text |-> SubSeq(text, from, to - 1), next |-> to]

NoToken == [kind |-> "nothing", text |-> <<>>, next |-> 0]
Invalid == [kind |-> "invalid", text |-> <<>>, next |-> 0]

\* The first place at or after i that holds none of the symbols of run.
EndOfRun(text, i, run) ==
  Min({j \in i .. Len(text) : text[j] \notin run} \cup {Len(text) + 1})

CharAt(text, i) == IF i \in DOMAIN text THEN text[i] ELSE "nothing"

\* From a quote to the next one; there is no escape.
ScanString(text, i) ==
  LET close == EndOfRun(text, i + 1, {text[j] : j \in DOMAIN text} \ {Quote})
  IN  IF close > Len(text) THEN Invalid
      ELSE Token("string", text, i, close + 1)

ScanPunctuation(text, i) == Token(text[i], text, i, i + 1)

\* An operator of two characters where the second one is there.  ! & and |
\* need theirs; > and < only need some character to follow.
ScanOp(text, i) ==
  LET ch == text[i]
      second == CharAt(text, i + 1)
      Double(kind) == Token(kind, text, i, i + 2)
      Single == Token(ch, text, i, i + 1)
  IN  IF ch \in {"+", "-", "*", "/", "="} THEN Single
      ELSE IF ch = "!" THEN IF second = "=" THEN Double("!=") ELSE Invalid
      ELSE IF ch = "&" THEN IF second = "&" THEN Double("&&") ELSE Invalid
      ELSE IF ch = "|" THEN IF second = "|" THEN Double("||") ELSE Invalid
      ELSE IF second = "nothing" THEN Invalid
      ELSE IF second # "=" THEN Single
      ELSE Double(IF ch = ">" THEN ">=" ELSE "<=")

\* Digits with at most one dot; a space, operator or punctuation ends them.
ScanNumeric(text, i) ==
  LET whole == EndOfRun(text, i, Digit)
      dotted == CharAt(text, whole) = "."
      end == IF dotted THEN EndOfRun(text, whole + 1, Digit) ELSE whole
  IN  IF CharAt(text, end) \in {"nothing", Space} \cup OpChar \cup Punctuation
      THEN Token(IF dotted THEN "float" ELSE "int", text, i, end)
      ELSE Invalid

\* A word; a space or punctuation ends it, and an operator does not.
ScanWord(text, i) ==
  LET end == EndOfRun(text, i, Letter \cup Digit \cup {"_"})
      word == [j \in 1 .. end - i |-> ToLower(text[i + j - 1])]
      kind == IF Len(word) = 1 /\ word[1] \in KeyWord
              THEN IF word[1] = "desc" THEN "describe" ELSE word[1]
              ELSE IF Len(word) = 1 /\ word[1] \in BoolWord THEN "bool"
              ELSE "id"
  IN  IF CharAt(text, end) \in {"nothing", Space} \cup Punctuation
      THEN Token(kind, text, i, end)
      ELSE Invalid

NextToken(text, cursor) ==
  LET i == EndOfRun(text, cursor, {Space})
      first == CharAt(text, i)
  IN  IF first = "nothing" THEN NoToken
      ELSE IF first = Quote THEN ScanString(text, i)
      ELSE IF first \in Punctuation THEN ScanPunctuation(text, i)
      ELSE IF first \in OpChar THEN ScanOp(text, i)
      ELSE IF first \in Digit THEN ScanNumeric(text, i)
      ELSE IF first \in Letter THEN ScanWord(text, i)
      ELSE Invalid

Tokens(text) ==
  LET from[i \in 1 .. Len(text) + 1] ==
        LET token == NextToken(text, i)
        IN  IF token.kind = "nothing" THEN <<>>
            ELSE IF token.kind = "invalid" THEN <<token>>
            ELSE <<token>> \o from[token.next]
  IN  from[1]
=============================================================================
