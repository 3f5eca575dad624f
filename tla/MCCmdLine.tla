----------------------------- MODULE MCCmdLine ------------------------------
(***************************************************************************)
(* CmdLine with one digit and one letter.                                  *)
(***************************************************************************)
EXTENDS CmdLine

MCDigits == [c \in {"1"} |-> 1]

MCFlag == <<"x">>

\* Without is SelectSeq, and Nth counts as SetToSortSeq sorts.
ASSUME WithoutIsSelectSeq ==
  \A t \in Texts : Without(t, Space) = SelectSeq(t, LAMBDA c : c # Space)

ASSUME NthIsSorted ==
  \A S \in SUBSET (1..MaxText) : [n \in 1..Cardinality(S) |-> Nth(S, n)] = SetToSortSeq(S, <)
=============================================================================
