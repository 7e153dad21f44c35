------------------------------ MODULE Outcome ------------------------------
(* What a function of the code gives back that reads something from a      *)
(* place on: the node it read and the place after it, or how it failed.    *)
(*   "error"    it returned an Err;                                        *)
(*   "nothing"  it returned the Err for an input that ended too early;     *)
(*   "panic"    it panicked, which ends the process.                       *)
(* Then(r, Next) is the code's `?`: it goes on with the node and the place *)
(* of r, or returns the failure of r.                                      *)

Got(node, at) == [res |-> "ok", node |-> node, at |-> at]
Failed(how) == [res |-> how, node |-> <<>>, at |-> 0]

Then(r, Next(_, _)) == IF r.res = "ok" THEN Next(r.node, r.at) ELSE r
=============================================================================
