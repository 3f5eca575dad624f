------------------------------ MODULE Allocator -----------------------------
(***************************************************************************)
(* What AlignedMem promises: blocks of the size and the alignment asked    *)
(* for, apart from each other, each the client's until it is deallocated.  *)
(* Only a request may fail.                                                *)
(***************************************************************************)
EXTENDS Naturals

CONSTANTS Addresses, Sizes, Alignments

VARIABLES
  live,        \* the blocks: [p, n, a]
  failed

allocatorVars == <<live, failed>>

Bytes(b) == b.p..(b.p + b.n - 1)

AllocatorInit == live = {} /\ failed = FALSE

Succeed ==
  \E b \in [p : Addresses, n : Sizes, a : Alignments \ {0}] :
    /\ b.p % b.a = 0
    /\ \A c \in live : c.p # b.p /\ Bytes(b) \cap Bytes(c) = {}
    /\ live' = live \cup {b}
    /\ UNCHANGED failed

Fail == failed' = TRUE /\ UNCHANGED live

Release == \E b \in live : live' = live \ {b} /\ UNCHANGED failed

AllocatorNext == ~failed /\ (Succeed \/ Fail \/ Release)

AllocatorSpec == AllocatorInit /\ [][AllocatorNext]_allocatorVars
=============================================================================
