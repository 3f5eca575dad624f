------------------------------- MODULE MCLog --------------------------------
(***************************************************************************)
(* Log with the levels the code names at its borders, and interchangeable  *)
(* blocks.                                                                 *)
(***************************************************************************)
EXTENDS Log, TLC

MCSeverities == {ZERO, INFO, DISABLED}

Symmetry == Permutations(Printers)
=============================================================================
