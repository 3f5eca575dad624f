------------------------------- MODULE Ranges -------------------------------
(***************************************************************************)
(* What TRNG makes of a draw (RNG.h): the 32 bits of psdes become a real   *)
(* of the unit interval, and that a bit, or an integer of a range.  A real *)
(* is a fraction; what double's rounding does to it is left out.  RNG2.h   *)
(* has the same helpers for its own deviates.                              *)
(***************************************************************************)
EXTENDS RGenWord

CONSTANT EpsInv    \* 2^23, 1 / std::numeric_limits<float>::epsilon()

ASSUME RangesAssumption == EpsInv \in Nat \ {0} /\ WordMod # 1 /\ WordMod % 2 = 0

Word32 == 0..(WordMod - 1)

Half == WordMod \div 2

Int32 == -Half..(Half - 1)

\* _coeff is (1 - epsilon) / UINT_MAX: the largest draw stays below 1 in a float.
toUnitReal(w) == [num |-> w * (EpsInv - 1), den |-> EpsInv * (WordMod - 1)]

\* flip(p), p being a fraction, too: `g.rand() <= p'
flip(w, f) == toUnitReal(w).num * f.den <= f.num * toUnitReal(w).den

\* select(n): the whole part of n times the draw.
select(w, n) == (n * toUnitReal(w).num) \div toUnitReal(w).den

ToInt32(v) == IF v < Half THEN v ELSE v - WordMod

\* uniformInt: the difference, the argument of select and the sum are 32 bits
\* wide, and the result is the sum's bits as an int32_t.  (As an int, the
\* difference may overflow, where this takes it to wrap.)
uniformInt(w, minValue, limitValue) ==
  ToInt32((minValue + select(w, (limitValue - minValue) % WordMod)) % WordMod)

-----------------------------------------------------------------------------
(* Properties.                                                             *)

\* RNG.h:76, "an unsigned int distributed uniformly in [0, n)": select stays in
\* the range, and draws its last value just if n is not above 1 / epsilon.
SelectInRange ==
  \A n \in Word32 \ {0} :
    /\ \A w \in Word32 : select(w, n) \in 0..(n - 1)
    /\ n <= EpsInv <=> \E w \in Word32 : select(w, n) = n - 1

\* RNG.h:83, "an int distributed uniformly in [minValue, limitValue)", although
\* the two may be further apart than an int tells.
UniformIntInRange ==
  \A minValue, limitValue \in Int32 :
    minValue < limitValue =>
      \A w \in Word32 : uniformInt(w, minValue, limitValue) \in minValue..(limitValue - 1)

\* RNG.h:69, "true with probability p": always for 1; for 0 when the draw is 0.
FlipAtTheEnds ==
  \A w \in Word32 :
    /\ flip(w, [num |-> 1, den |-> 1])
    /\ EpsInv > 1 => (flip(w, [num |-> 0, den |-> 1]) <=> w = 0)
=============================================================================
