---------------------------- MODULE MCSlottedPage ----------------------------
(* SlottedPage for TLC: keys are numbers up to a bound.                    *)
EXTENDS SlottedPage

CONSTANT MaxKey        \* bound: largest key

Keys == 0 .. MaxKey
=============================================================================
