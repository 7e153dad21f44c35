------------------------------ MODULE Prompt -------------------------------
(* The prompt (interface/repl.rs): the user types a line and the program   *)
(* reads a command from it.                                                *)
(*                                                                         *)
(* The line editor is a library.  A line is typed word by word, or is one  *)
(* of the history and edited at any place, before it is entered.           *)
EXTENDS Parser

CONSTANTS
  Words,       \* the words that are typed, each a sequence of symbols
  History,     \* the lines that can be recalled
  Editable,    \* the lines of them that are edited
  Symbols,     \* the symbols put into such a line
  MaxLength,   \* bound: symbols of a line that is typed
  MaxEdits     \* bound: changes to recalled lines, words without a space;
               \* no other line is made up after one that has any

VARIABLES
  debug,       \* the build: with debug assertions or without
  text,        \* the line so far
  edits,       \* changes made so far
  answer       \* what get_input gave back, or Typing

promptVars == <<debug, text, edits, answer>>

Typing == [res |-> "typing", node |-> <<>>, at |-> 0]

MetaCommand == [quit |-> "quit", exit |-> "quit", tables |-> "tables",
                ls |-> "tables", help |-> "help"]
Meta(cmd) == Got([stmt |-> "meta", cmd |-> cmd], 0)

\* The first character is taken without asking whether there is one.
GetInput(line) ==
  IF line = <<>> THEN Failed("panic")
  ELSE IF line[1] # "." THEN Parse(Tokens(line), debug)
  ELSE IF Len(line) = 2 /\ line[2] \in DOMAIN MetaCommand
  THEN Meta(MetaCommand[line[2]])
  ELSE Failed("error")

PromptInit ==
  /\ debug \in BOOLEAN
  /\ text = <<>> /\ edits = 0
  /\ answer = Typing

\* A word more, after a space or right where the line ends, as long as the
\* line can still become a statement.
Type(word, space) ==
  /\ answer = Typing
  /\ Len(text) + Len(space) + Len(word) <= MaxLength
  /\ IF text = <<>> THEN edits = 0 ELSE GetInput(text).res = "nothing"
  /\ text = <<>> => space = <<>>
  /\ LET glued == IF space = <<>> /\ text # <<>> THEN 1 ELSE 0
     IN  edits + glued <= MaxEdits /\ edits' = edits + glued
  /\ text' = text \o space \o word
  /\ UNCHANGED <<debug, answer>>

Recall ==
  /\ answer = Typing
  /\ text = <<>> /\ edits = 0
  /\ text' \in History
  /\ UNCHANGED <<debug, edits, answer>>

\* The symbols before one place and from another on, with some in between.
Edit ==
  /\ answer = Typing
  /\ edits < MaxEdits
  /\ edits > 0 \/ text \in Editable
  /\ edits' = edits + 1
  /\ \E from \in DOMAIN text, more \in {0, 1}, put \in {<<>>} \cup {<<s>> : s \in Symbols} :
       text' = SubSeq(text, 1, from - 1) \o put \o SubSeq(text, from + more, Len(text))
  /\ UNCHANGED <<debug, answer>>

Enter ==
  /\ answer = Typing
  /\ answer' = GetInput(text)
  /\ UNCHANGED <<debug, text, edits>>

\* CTRL-C and CTRL-D count as .exit, whatever was typed.
Interrupt ==
  /\ answer = Typing
  /\ answer' = Meta("quit")
  /\ UNCHANGED <<debug, text, edits>>

PromptNext ==
  \/ \E word \in Words, space \in {<<>>, <<Space>>} : Type(word, space)
  \/ Recall \/ Edit \/ Enter \/ Interrupt

\* The program prompts again.
Again ==
  /\ text' = <<>> /\ answer' = Typing
  /\ UNCHANGED <<debug, edits>>
=============================================================================
