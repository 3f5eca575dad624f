------------------------------- MODULE MCRNG2 -------------------------------
(***************************************************************************)
(* RNG2 from the seeds at the borders of the constructor's tests, of the   *)
(* two moduli and of the type, and a few others.                           *)
(***************************************************************************)
EXTENDS RNG2

MCSeeds == {0, 1, -1, 2, 17, -12345, 20100729, 1073741824,
            IM1 - 1, IM1, -IM1, IM1 + 1, IM2 - 1, IM2, -IM2, IM2 + 1,
            INT32_MAX - 1, INT32_MAX, -INT32_MAX}
=============================================================================
