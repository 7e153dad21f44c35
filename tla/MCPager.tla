------------------------------- MODULE MCPager -------------------------------
(* Pager for TLC: page contents are interchangeable.                       *)
EXTENDS Pager, TLC

Symmetry == Permutations(Data)
=============================================================================
