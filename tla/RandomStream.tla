---------------------------- MODULE RandomStream ----------------------------
(***************************************************************************)
(* What the header RNG.h promises of every version of the generator: it    *)
(* stands at a word, each draw returns the hash of that word and steps to  *)
(* the next, and the client can move it.  setSeed names the sequence and   *)
(* setPos the position in it; which position setSeed leaves the generator  *)
(* at, and which sequence setPos finds it in, is not part of the promise   *)
(* (the versions differ), so a client that must know calls both.           *)
(***************************************************************************)
EXTENDS RGenWord

CONSTANT None      \* what a call that draws nothing returns

VARIABLES
  at,              \* the word the next draw hashes
  out              \* what the last call returned

streamVars == <<at, out>>

StreamInit == at = INIT_DATA /\ out = None

Draw ==
  /\ out' = Hash[at]
  /\ at' = Advance(at, 1)

\* setSeed
Reseed(s) ==
  /\ at' \in {w \in Words : w.seed = s}
  /\ out' = None

\* setPos
Seek(p) ==
  /\ at' \in {w \in Words : w.pos = p}
  /\ out' = None

StreamNext ==
  \/ Draw
  \/ \E s \in 0..(SeedMod - 1) : Reseed(s)
  \/ \E p \in 0..(PosMod - 1) : Seek(p)

StreamSpec == StreamInit /\ [][StreamNext]_streamVars
=============================================================================
