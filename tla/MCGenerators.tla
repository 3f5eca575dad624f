---------------------------- MODULE MCGenerators ----------------------------
(***************************************************************************)
(* Generators on small words: 4 seeds of 5 positions, a cache of 3, a hash *)
(* that tells every word from every other.                                 *)
(***************************************************************************)
EXTENDS Generators, Ranges

ASSUME RangesHold == SelectInRange /\ UniformIntInRange /\ FlipAtTheEnds

MCHash == [w \in Words |-> w.seed * PosMod + w.pos]
=============================================================================
