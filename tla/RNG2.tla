-------------------------------- MODULE RNG2 --------------------------------
(***************************************************************************)
(* RNG2 (RNG2.h, RNG2.cpp), the generator ran2: two congruential sequences *)
(* advanced by Schrage's method in int32_t, and a shuffle table.  The      *)
(* constants are the code's own; the constructor runs one turn of its loop *)
(* per step.  TLC's integers have the width of the code's, and TLC stops   *)
(* at an overflow; RNG2Proofs shows there is none for any seed.            *)
(***************************************************************************)
EXTENDS Integers

CONSTANTS
  Seeds,       \* arguments of the constructor
  MaxDraws     \* bound: calls of rand()

IM1  == 2147483563
IM2  == 2147483399
IA1  == 40014
IA2  == 40692
IQ1  == 53668
IQ2  == 52774
IR1  == 12211
IR2  == 3791
NTAB == 32
IMM1 == IM1 - 1
NDIV == 1 + IMM1 \div NTAB

INT32_MAX == 2147483647

\* The least int32_t is left out: the constructor negates it, which overflows.
ASSUME RNG2Assumption == Seeds \subseteq (-INT32_MAX)..INT32_MAX /\ MaxDraws \in Nat

VARIABLES
  seed,        \* history: the argument of the constructor
  j,           \* the constructor's loop counter; -1 when it is done
  idum, idum2, iy,
  iv,          \* the shuffle table; 0 in an uninitialised entry
  draws        \* calls of rand() so far

vars == <<seed, j, idum, idum2, iy, iv, draws>>

Slots == 0..(NTAB - 1)

SeedAbs(s) == IF s > 0 THEN s ELSE -s

InstallNoZeroTest(s) == SeedAbs(s)

\* (seed > 0) ? seed : ((seed < 0) ? (-seed) : 1)
Install(s) == IF s > 0 THEN s ELSE IF s < 0 THEN -s ELSE 1

Product1(x) == IA1 * (x - (x \div IQ1) * IQ1)

Product2(x) == IA2 * (x - (x \div IQ2) * IQ2)

Schrage1(x) == Product1(x) - (x \div IQ1) * IR1

Schrage2(x) == Product2(x) - (x \div IQ2) * IR2

Step1NoWrap(x) == Schrage1(x)

\* The two sequences, whose values are never negative.
Step1(x) == IF Schrage1(x) < 0 THEN Schrage1(x) + IM1 ELSE Schrage1(x)

Step2(x) == IF Schrage2(x) < 0 THEN Schrage2(x) + IM2 ELSE Schrage2(x)

Init ==
  /\ seed \in Seeds
  /\ idum = Install(seed) /\ idum2 = Install(seed)
  /\ j = NTAB + 7
  /\ iy = 0
  /\ iv = [i \in Slots |-> 0]
  /\ draws = 0

\* One turn of the constructor's loop; after the last, `iy = iv[0]'.
Warmup ==
  /\ j >= 0
  /\ idum' = Step1(idum)
  /\ iv' = IF j < NTAB THEN [iv EXCEPT ![j] = idum'] ELSE iv
  /\ j' = j - 1
  /\ iy' = IF j = 0 THEN iv'[0] ELSE iy
  /\ UNCHANGED <<seed, idum2, draws>>

\* The slot that the last output chooses.
Slot == iy \div NDIV

Unwrapped(y) == y

\* `if( iy < 1 ) iy += IMM1;'
Wrapped(y) == IF y < 1 THEN y + IMM1 ELSE y

Rand ==
  /\ j < 0
  /\ draws < MaxDraws
  /\ idum' = Step1(idum)
  /\ idum2' = Step2(idum2)
  /\ iy' = Wrapped(iv[Slot] - idum2')
  /\ iv' = [iv EXCEPT ![Slot] = idum']
  /\ draws' = draws + 1
  /\ UNCHANGED <<seed, j>>

Next == Warmup \/ Rand

Spec == Init /\ [][Next]_vars

-----------------------------------------------------------------------------
(* Properties.                                                             *)

TypeOK ==
  /\ seed \in Seeds
  /\ j \in (-1)..(NTAB + 7)
  /\ idum \in 0..INT32_MAX /\ idum2 \in 0..INT32_MAX
  /\ iy \in 0..IMM1
  /\ iv \in [Slots -> 0..IMM1]
  /\ draws \in 0..MaxDraws

\* Every step of rand() and of the constructor stays in int32_t, the sum of
\* iv[j] and -idum2 included, and the table is read and written inside it.
InRange ==
  /\ Product1(idum) \in 0..INT32_MAX /\ Schrage1(idum) \in (-INT32_MAX)..INT32_MAX
  /\ Product2(idum2) \in 0..INT32_MAX /\ Schrage2(idum2) \in (-INT32_MAX)..INT32_MAX
  /\ Slot \in Slots
  /\ iv[Slot] - Step2(idum2) \in (-INT32_MAX)..INT32_MAX

\* RNG2.h, "return a uniform deviate in (0.0, 1.0)": the numerator of the
\* deviate, over IM1, is never 0 and never IM1, for any seed, even one for
\* which a sequence has died out.
OutputInside == draws > 0 => iy \in 1..IMM1

\* Neither sequence ever dies out, but for two seeds and their negatives: it
\* would stay at 0 for ever.
Alive ==
  /\ SeedAbs(seed) # IM1 => idum # 0 /\ (j < NTAB => idum < IM1)
  /\ SeedAbs(seed) # IM2 => idum2 # 0
=============================================================================
