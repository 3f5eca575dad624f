---------------------------- MODULE MCGlobalRNG -----------------------------
(***************************************************************************)
(* GlobalRNG with parameters that differ in one or in both.                *)
(***************************************************************************)
EXTENDS GlobalRNG

MCParameters ==
  [maxRandom : {"n1", "n2"}, theta : {"t1", "t2"}] \ {[maxRandom |-> "n2", theta |-> "t1"]}
=============================================================================
