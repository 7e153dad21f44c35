------------------------------ MODULE MCEngine ------------------------------
(* Rows for TLC.                                                           *)
EXTENDS Engine
SomeBatches == {<<0>>, <<1, 0>>, <<NoKey>>, <<NoKey, 1>>, <<0, Bad>>}
=============================================================================
