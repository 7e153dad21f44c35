-------------------------------- MODULE Sums --------------------------------
(***************************************************************************)
(* The sum of the values of a function on a finite set, as the number of   *)
(* pairs <<x, i>> with i in 1 .. f[x]: what the loops of the storage code  *)
(* add up, in a form about which cardinalities say all there is to know.   *)
(***************************************************************************)
EXTENDS Naturals, FiniteSets

Pairs(f) == UNION {{x} \X (1 .. f[x]) : x \in DOMAIN f}
Total(f) == Cardinality(Pairs(f))
=============================================================================
