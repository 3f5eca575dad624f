------------------------------ MODULE MCSockets ------------------------------
(***************************************************************************)
(* Sockets with interchangeable threads and names.                         *)
(***************************************************************************)
EXTENDS Sockets, TLC

Symmetry == Permutations(Threads) \cup Permutations(Names)
=============================================================================
