----------------------------- MODULE RNG2Proofs -----------------------------
(***************************************************************************)
(* Proofs about RNG2, for every seed but the least int32_t and any number  *)
(* of draws: first Schrage's method, then the inductive invariant.  The    *)
(* arithmetic is on the literals of the code, which of the provers only    *)
(* the SMT solver can read, in small steps.                                *)
(***************************************************************************)
EXTENDS RNG2, TLAPS

(* The quotient and the remainder of x by IQ1. *)
LEMMA Division1 ==
  ASSUME NEW x \in Nat
  PROVE  \E k, r \in Int : /\ k = x \div 53668
                           /\ r = x - k * 53668
                           /\ r >= 0
                           /\ r <= 53667
                           /\ x = 53668 * k + r
<1> DEFINE k == x \div 53668
           r == x - k * 53668
<1>1. k \in Int /\ r \in Int
  BY SMTT(20)
<1>2. r >= 0
  BY SMTT(20)
<1>3. r <= 53667
  BY SMTT(20)
<1>4. k = x \div 53668
  BY SMT
<1>5. r = x - k * 53668
  BY SMT
<1> HIDE DEF k, r
<1>6. x = 53668 * k + r
  BY <1>1, <1>5, SMT
<1> QED
  BY <1>1, <1>2, <1>3, <1>4, <1>5, <1>6, SMT

(* The two terms of a step of sequence 1, with x = IQ1 * k + r: they and   *)
(* their difference fit int32_t.                                           *)
LEMMA Terms1 ==
  ASSUME NEW x \in Nat, x <= 2147483647,
         NEW k \in Int, NEW r \in Int, r >= 0, r <= 53667, x = 53668 * k + r
  PROVE  /\ k >= 0 /\ k <= 40014
         /\ 40014 * r >= 0 /\ 40014 * r <= 2147483647
         /\ 40014 * r - k * 12211 < 2147483563
         /\ 40014 * r - k * 12211 + 2147483563 > 0
         /\ 40014 * r - k * 12211 = 40014 * x - k * 2147483563
<1>1. k >= 0 /\ k <= 40014
  BY SMTT(20)
<1>2. 40014 * r >= 0 /\ 40014 * r <= 2147483647
  BY SMTT(20)
<1>3. 40014 * r - k * 12211 < 2147483563
  BY <1>1, SMTT(20)
<1>4. 40014 * r - k * 12211 + 2147483563 > 0
  BY <1>1, SMTT(20)
<1>5. 40014 * r - k * 12211 = 40014 * x - k * 2147483563
  BY SMTT(20)
<1> QED
  BY <1>1, <1>2, <1>3, <1>4, <1>5, SMT

(* The terms of sequence 1 are equal for 0 and for the modulus only: 1219    *)
(* and 372 are the Bezout coefficients of IA1 and IR1.                      *)
LEMMA Equal1 ==
  ASSUME NEW x \in Nat,
         NEW k \in Int, NEW r \in Int, r >= 0, r <= 53667, x = 53668 * k + r,
         k >= 0, k <= 40014, 40014 * r = k * 12211
  PROVE  x = 0 \/ x = 2147483563
<1> DEFINE m == 1219 * r - 372 * k
<1>1. m \in Int
  BY SMT
<1>2. k = 40014 * m
  BY SMTT(20)
<1> HIDE DEF m
<1>3. k = 0 \/ k = 40014
  BY <1>1, <1>2, SMTT(20)
<1>4. CASE k = 0
  <2>1. r = 0
    BY <1>4, SMTT(20)
  <2> QED
    BY <1>4, <2>1, SMTT(20)
<1>5. CASE k = 40014
  <2>1. r = 12211
    BY <1>5, SMTT(20)
  <2> QED
    BY <1>5, <2>1, SMTT(20)
<1> QED
  BY <1>3, <1>4, <1>5, SMT

(* What Schrage's method gives in sequence 1: no overflow, a multiple of   *)
(* the modulus less than IA1 * x, and 0 for 0 and the modulus only.        *)
LEMMA Schrage1Facts ==
  ASSUME NEW x \in Nat, x <= 2147483647
  PROVE  /\ Product1(x) \in Int /\ Product1(x) >= 0 /\ Product1(x) <= 2147483647
         /\ Schrage1(x) \in Int
         /\ Schrage1(x) < 2147483563
         /\ Schrage1(x) + 2147483563 > 0
         /\ Schrage1(x) = 0 => x = 0 \/ x = 2147483563
<1>1. PICK k, r \in Int : /\ k = x \div 53668
                          /\ r = x - k * 53668
                          /\ r >= 0
                          /\ r <= 53667
                          /\ x = 53668 * k + r
  BY Division1, SMT
<1>2. /\ k >= 0 /\ k <= 40014
      /\ 40014 * r >= 0 /\ 40014 * r <= 2147483647
      /\ 40014 * r - k * 12211 < 2147483563
      /\ 40014 * r - k * 12211 + 2147483563 > 0
      /\ 40014 * r - k * 12211 = 40014 * x - k * 2147483563
  BY <1>1, Terms1, SMT
<1>3. Product1(x) = 40014 * r /\ Schrage1(x) = 40014 * r - k * 12211
  BY <1>1, SMT DEF Product1, Schrage1, IA1, IQ1, IR1
<1>4. 40014 * r = k * 12211 => x = 0 \/ x = 2147483563
  BY <1>1, <1>2, Equal1, SMT
<1>5. 40014 * r - k * 12211 = 0 => 40014 * r = k * 12211
  BY <1>1, SMT
<1>6. Product1(x) \in Int /\ Schrage1(x) \in Int
  BY <1>1, <1>3, SMT
<1> QED
  BY <1>2, <1>3, <1>4, <1>5, <1>6, SMTT(20)

(* The quotient and the remainder of x by IQ2. *)
LEMMA Division2 ==
  ASSUME NEW x \in Nat
  PROVE  \E k, r \in Int : /\ k = x \div 52774
                           /\ r = x - k * 52774
                           /\ r >= 0
                           /\ r <= 52773
                           /\ x = 52774 * k + r
<1> DEFINE k == x \div 52774
           r == x - k * 52774
<1>1. k \in Int /\ r \in Int
  BY SMTT(20)
<1>2. r >= 0
  BY SMTT(20)
<1>3. r <= 52773
  BY SMTT(20)
<1>4. k = x \div 52774
  BY SMT
<1>5. r = x - k * 52774
  BY SMT
<1> HIDE DEF k, r
<1>6. x = 52774 * k + r
  BY <1>1, <1>5, SMT
<1> QED
  BY <1>1, <1>2, <1>3, <1>4, <1>5, <1>6, SMT

(* The two terms of a step of sequence 2, with x = IQ2 * k + r: they and   *)
(* their difference fit int32_t.                                           *)
LEMMA Terms2 ==
  ASSUME NEW x \in Nat, x <= 2147483647,
         NEW k \in Int, NEW r \in Int, r >= 0, r <= 52773, x = 52774 * k + r
  PROVE  /\ k >= 0 /\ k <= 40692
         /\ 40692 * r >= 0 /\ 40692 * r <= 2147483647
         /\ 40692 * r - k * 3791 < 2147483399
         /\ 40692 * r - k * 3791 + 2147483399 > 0
         /\ 40692 * r - k * 3791 = 40692 * x - k * 2147483399
<1>1. k >= 0 /\ k <= 40692
  BY SMTT(20)
<1>2. 40692 * r >= 0 /\ 40692 * r <= 2147483647
  BY SMTT(20)
<1>3. 40692 * r - k * 3791 < 2147483399
  BY <1>1, SMTT(20)
<1>4. 40692 * r - k * 3791 + 2147483399 > 0
  BY <1>1, SMTT(20)
<1>5. 40692 * r - k * 3791 = 40692 * x - k * 2147483399
  BY SMTT(20)
<1> QED
  BY <1>1, <1>2, <1>3, <1>4, <1>5, SMT

(* The terms of sequence 2 are equal for 0 and for the modulus only: 12623    *)
(* and 1176 are the Bezout coefficients of IA2 and IR2.                      *)
LEMMA Equal2 ==
  ASSUME NEW x \in Nat,
         NEW k \in Int, NEW r \in Int, r >= 0, r <= 52773, x = 52774 * k + r,
         k >= 0, k <= 40692, 40692 * r = k * 3791
  PROVE  x = 0 \/ x = 2147483399
<1> DEFINE m == 12623 * r - 1176 * k
<1>1. m \in Int
  BY SMT
<1>2. k = 40692 * m
  BY SMTT(20)
<1> HIDE DEF m
<1>3. k = 0 \/ k = 40692
  BY <1>1, <1>2, SMTT(20)
<1>4. CASE k = 0
  <2>1. r = 0
    BY <1>4, SMTT(20)
  <2> QED
    BY <1>4, <2>1, SMTT(20)
<1>5. CASE k = 40692
  <2>1. r = 3791
    BY <1>5, SMTT(20)
  <2> QED
    BY <1>5, <2>1, SMTT(20)
<1> QED
  BY <1>3, <1>4, <1>5, SMT

(* What Schrage's method gives in sequence 2: no overflow, a multiple of   *)
(* the modulus less than IA2 * x, and 0 for 0 and the modulus only.        *)
LEMMA Schrage2Facts ==
  ASSUME NEW x \in Nat, x <= 2147483647
  PROVE  /\ Product2(x) \in Int /\ Product2(x) >= 0 /\ Product2(x) <= 2147483647
         /\ Schrage2(x) \in Int
         /\ Schrage2(x) < 2147483399
         /\ Schrage2(x) + 2147483399 > 0
         /\ Schrage2(x) = 0 => x = 0 \/ x = 2147483399
<1>1. PICK k, r \in Int : /\ k = x \div 52774
                          /\ r = x - k * 52774
                          /\ r >= 0
                          /\ r <= 52773
                          /\ x = 52774 * k + r
  BY Division2, SMT
<1>2. /\ k >= 0 /\ k <= 40692
      /\ 40692 * r >= 0 /\ 40692 * r <= 2147483647
      /\ 40692 * r - k * 3791 < 2147483399
      /\ 40692 * r - k * 3791 + 2147483399 > 0
      /\ 40692 * r - k * 3791 = 40692 * x - k * 2147483399
  BY <1>1, Terms2, SMT
<1>3. Product2(x) = 40692 * r /\ Schrage2(x) = 40692 * r - k * 3791
  BY <1>1, SMT DEF Product2, Schrage2, IA2, IQ2, IR2
<1>4. 40692 * r = k * 3791 => x = 0 \/ x = 2147483399
  BY <1>1, <1>2, Equal2, SMT
<1>5. 40692 * r - k * 3791 = 0 => 40692 * r = k * 3791
  BY <1>1, SMT
<1>6. Product2(x) \in Int /\ Schrage2(x) \in Int
  BY <1>1, <1>3, SMT
<1> QED
  BY <1>2, <1>3, <1>4, <1>5, <1>6, SMTT(20)

(* The values of the constants, as bounds: an equation with a literal would *)
(* be substituted in the intervals, which the prover cannot evaluate.       *)
LEMMA Bounds ==
  /\ IM1 \in Nat /\ IM1 <= 2147483563 /\ IM1 >= 2147483563
  /\ IM2 \in Nat /\ IM2 <= 2147483399 /\ IM2 >= 2147483399
  /\ INT32_MAX \in Nat /\ INT32_MAX <= 2147483647 /\ INT32_MAX >= 2147483647
  /\ NTAB \in Nat /\ NTAB <= 32 /\ NTAB >= 32
  /\ IMM1 \in Nat /\ IMM1 <= 2147483562 /\ IMM1 >= 2147483562
  /\ NDIV \in Nat /\ NDIV <= 67108862 /\ NDIV >= 67108862
<1>1. IM1 \in Nat /\ IM1 <= 2147483563 /\ IM1 >= 2147483563
  BY SMT DEF IM1
<1>2. IM2 \in Nat /\ IM2 <= 2147483399 /\ IM2 >= 2147483399
  BY SMT DEF IM2
<1>3. INT32_MAX \in Nat /\ INT32_MAX <= 2147483647 /\ INT32_MAX >= 2147483647
  BY SMT DEF INT32_MAX
<1>4. NTAB \in Nat /\ NTAB <= 32 /\ NTAB >= 32
  BY SMT DEF NTAB
<1>5. IMM1 \in Nat /\ IMM1 <= 2147483562 /\ IMM1 >= 2147483562
  <2>1. IMM1 = IM1 - 1
    BY SMT DEF IMM1
  <2> QED
    BY <1>1, <2>1, SMT
<1>6. NDIV \in Nat /\ NDIV <= 67108862 /\ NDIV >= 67108862
  <2>1. NDIV = 1 + IMM1 \div NTAB
    BY SMT DEF NDIV
  <2>2. NTAB = 32 /\ IMM1 = 2147483562
    BY <1>4, <1>5, SMT
  <2> QED
    BY <2>1, <2>2, SMT
<1> QED
  BY <1>1, <1>2, <1>3, <1>4, <1>5, <1>6, SMT

(* A step of sequence 1 stays below the modulus, and dies for 0 and the *)
(* modulus only.                                                        *)
LEMMA Step1Facts ==
  ASSUME NEW x \in Int, x >= 0, x <= 2147483647
  PROVE  /\ Step1(x) \in Int /\ Step1(x) >= 0 /\ Step1(x) < 2147483563
         /\ x # 0 /\ x # 2147483563 => Step1(x) # 0
<1>1. x \in Nat
  BY SMT
<1>2. /\ Schrage1(x) \in Int
      /\ Schrage1(x) < 2147483563
      /\ Schrage1(x) + 2147483563 > 0
      /\ Schrage1(x) = 0 => x = 0 \/ x = 2147483563
  BY <1>1, Schrage1Facts, SMT
<1>3. Step1(x) = IF Schrage1(x) < 0 THEN Schrage1(x) + 2147483563 ELSE Schrage1(x)
  BY SMT DEF Step1, IM1
<1> QED
  BY <1>2, <1>3, SMTT(20)

(* The same of sequence 2. *)
LEMMA Step2Facts ==
  ASSUME NEW x \in Int, x >= 0, x <= 2147483647
  PROVE  /\ Step2(x) \in Int /\ Step2(x) >= 0 /\ Step2(x) < 2147483399
         /\ x # 0 /\ x # 2147483399 => Step2(x) # 0
<1>1. x \in Nat
  BY SMT
<1>2. /\ Schrage2(x) \in Int
      /\ Schrage2(x) < 2147483399
      /\ Schrage2(x) + 2147483399 > 0
      /\ Schrage2(x) = 0 => x = 0 \/ x = 2147483399
  BY <1>1, Schrage2Facts, SMT
<1>3. Step2(x) = IF Schrage2(x) < 0 THEN Schrage2(x) + 2147483399 ELSE Schrage2(x)
  BY SMT DEF Step2, IM2
<1> QED
  BY <1>2, <1>3, SMTT(20)

(* A number between 0 and the modulus that is a multiple of the modulus    *)
(* away from z is z's residue.                                             *)
LEMMA Residue1 ==
  ASSUME NEW y \in Nat, y < 2147483563, NEW z \in Int, NEW c \in Int,
         z = y + c * 2147483563
  PROVE  y = z % 2147483563
  BY SMTT(20)

(* A step of sequence 1 subtracts a multiple of the modulus from IA1 * x. *)
LEMMA Congruent1 ==
  ASSUME NEW x \in Nat, x <= 2147483647
  PROVE  \E k \in Int : Schrage1(x) = 40014 * x - k * 2147483563
<1>1. PICK k, r \in Int : /\ k = x \div 53668
                          /\ r = x - k * 53668
                          /\ r >= 0
                          /\ r <= 53667
                          /\ x = 53668 * k + r
  BY Division1, SMT
<1>2. 40014 * r - k * 12211 = 40014 * x - k * 2147483563
  BY <1>1, Terms1, SMT
<1>3. Schrage1(x) = 40014 * r - k * 12211
  BY <1>1, SMT DEF Schrage1, Product1, IA1, IQ1, IR1
<1> QED
  BY <1>1, <1>2, <1>3, SMT

(* The same with the literals in place of their names. *)
LEMMA StepIsMultiplication ==
  ASSUME NEW x \in Nat, x <= 2147483647
  PROVE  Step1(x) = (40014 * x) % 2147483563
<1>2. PICK k \in Int : Schrage1(x) = 40014 * x - k * 2147483563
  BY Congruent1, SMT
<1>3. Schrage1(x) \in Int
  BY Schrage1Facts, SMT
<1>4. Step1(x) = IF Schrage1(x) < 0 THEN Schrage1(x) + 2147483563 ELSE Schrage1(x)
  BY SMT DEF Step1, IM1
<1>5. Step1(x) \in Nat /\ Step1(x) < 2147483563
  BY Step1Facts, SMT
<1> DEFINE c == IF Schrage1(x) < 0 THEN k - 1 ELSE k
<1>6. c \in Int
  BY <1>2, <1>3, SMT
<1>7. 40014 * x = Step1(x) + c * 2147483563
  BY <1>2, <1>3, <1>4, SMTT(20)
<1> HIDE DEF c
<1>8. 40014 * x \in Int
  BY SMT
<1> QED
  BY <1>5, <1>6, <1>7, <1>8, Residue1, SMT

(* Schrage's method computes the congruential step it stands for: what     *)
(* rand() does to idum is multiplication by IA1 modulo IM1 (RNG2.cpp:35),  *)
(* for every value that fits the variable, without ever leaving int32_t.   *)
THEOREM SchrageIsMultiplication ==
  \A x \in 0..INT32_MAX : Step1(x) = (IA1 * x) % IM1
<1>1. TAKE x \in 0..INT32_MAX
<1>2. x \in Nat /\ x <= 2147483647
  BY Bounds, SMT
<1>3. Step1(x) = (40014 * x) % 2147483563
  BY <1>2, StepIsMultiplication, SMT
<1>4. IA1 * x = 40014 * x
  BY SMT DEF IA1
<1>5. IM1 = 2147483563
  BY SMT DEF IM1
<1> QED
  BY <1>3, <1>4, <1>5, SMT

-----------------------------------------------------------------------------
(* The invariant.                                                          *)

(* What the steps need of sequence 1, of sequence 2 and of the output, in  *)
(* the names of the module.                                                *)
LEMMA Sequence1 ==
  ASSUME NEW x \in 0..INT32_MAX
  PROVE  /\ Product1(x) \in 0..INT32_MAX
         /\ Schrage1(x) \in (-INT32_MAX)..INT32_MAX
         /\ Step1(x) \in 0..INT32_MAX
         /\ Step1(x) \in 0..IMM1
         /\ Step1(x) < IM1
         /\ x # 0 /\ x # IM1 => Step1(x) # 0
<1>1. x \in Nat /\ x <= 2147483647
  BY Bounds, SMT
<1>2. /\ Product1(x) \in Int /\ Product1(x) >= 0 /\ Product1(x) <= 2147483647
      /\ Schrage1(x) \in Int
      /\ Schrage1(x) < 2147483563
      /\ Schrage1(x) + 2147483563 > 0
  BY <1>1, Schrage1Facts, SMT
<1>3. /\ Step1(x) \in Int /\ Step1(x) >= 0 /\ Step1(x) < 2147483563
      /\ x # 0 /\ x # 2147483563 => Step1(x) # 0
  BY <1>1, Step1Facts, SMT
<1>4. Product1(x) \in 0..INT32_MAX
  BY <1>2, Bounds, SMT
<1>5. Schrage1(x) \in (-INT32_MAX)..INT32_MAX
  BY <1>2, Bounds, SMT
<1>6. Step1(x) \in 0..INT32_MAX /\ Step1(x) \in 0..IMM1 /\ Step1(x) < IM1
  BY <1>3, Bounds, SMT
<1>7. x # 0 /\ x # IM1 => Step1(x) # 0
  BY <1>1, <1>3, Bounds, SMT
<1> QED
  BY <1>4, <1>5, <1>6, <1>7, SMT

LEMMA Sequence2 ==
  ASSUME NEW x \in 0..INT32_MAX
  PROVE  /\ Product2(x) \in 0..INT32_MAX
         /\ Schrage2(x) \in (-INT32_MAX)..INT32_MAX
         /\ Step2(x) \in 0..INT32_MAX
         /\ Step2(x) < IM2
         /\ x # 0 /\ x # IM2 => Step2(x) # 0
<1>1. x \in Nat /\ x <= 2147483647
  BY Bounds, SMT
<1>2. /\ Product2(x) \in Int /\ Product2(x) >= 0 /\ Product2(x) <= 2147483647
      /\ Schrage2(x) \in Int
      /\ Schrage2(x) < 2147483399
      /\ Schrage2(x) + 2147483399 > 0
  BY <1>1, Schrage2Facts, SMT
<1>3. /\ Step2(x) \in Int /\ Step2(x) >= 0 /\ Step2(x) < 2147483399
      /\ x # 0 /\ x # 2147483399 => Step2(x) # 0
  BY <1>1, Step2Facts, SMT
<1>4. Product2(x) \in 0..INT32_MAX
  BY <1>2, Bounds, SMT
<1>5. Schrage2(x) \in (-INT32_MAX)..INT32_MAX
  BY <1>2, Bounds, SMT
<1>6. Step2(x) \in 0..INT32_MAX /\ Step2(x) < IM2
  BY <1>3, Bounds, SMT
<1>7. x # 0 /\ x # IM2 => Step2(x) # 0
  BY <1>1, <1>3, Bounds, SMT
<1> QED
  BY <1>4, <1>5, <1>6, <1>7, SMT

(* An entry of the table less a value of sequence 2 fits int32_t, and the  *)
(* output made of it is neither 0 nor the modulus.                         *)
LEMMA Output ==
  ASSUME NEW a \in 0..IMM1, NEW b \in 0..INT32_MAX, b < IM2
  PROVE  /\ a - b \in (-INT32_MAX)..INT32_MAX
         /\ Wrapped(a - b) \in 1..IMM1
<1>1. a \in Int /\ a >= 0 /\ a <= IMM1 /\ b \in Int /\ b >= 0
  BY Bounds, SMT
<1>2. a - b \in (-INT32_MAX)..INT32_MAX
  BY <1>1, Bounds, SMT
<1>3. Wrapped(a - b) = IF a - b < 1 THEN a - b + IMM1 ELSE a - b
  BY SMT DEF Wrapped
<1>4. Wrapped(a - b) \in 1..IMM1
  BY <1>1, <1>3, Bounds, SMT
<1> QED
  BY <1>2, <1>4, SMT

(* The output chooses a slot of the table. *)
LEMMA SlotInTable ==
  ASSUME NEW y \in 0..IMM1
  PROVE  y \div NDIV \in Slots
<1>1. y \in Int /\ y >= 0 /\ y <= 2147483562
  BY Bounds, SMT
<1>2. NDIV = 67108862
  BY Bounds, SMT
<1>3. y \div 67108862 \in Int /\ y \div 67108862 >= 0 /\ y \div 67108862 <= 31
  BY <1>1, SMTT(20)
<1>4. Slots = 0..(NTAB - 1)
  BY SMT DEF Slots
<1>5. NTAB \in Nat /\ NTAB >= 32
  BY Bounds, SMT
<1> QED
  BY <1>2, <1>3, <1>4, <1>5, SMT

(* The constructor's idum and idum2 are positive, and a modulus only for   *)
(* that seed or its negative.                                              *)
LEMMA Installed ==
  ASSUME NEW s \in Seeds
  PROVE  /\ Install(s) \in 0..INT32_MAX
         /\ Install(s) # 0
         /\ SeedAbs(s) # IM1 => Install(s) # IM1
         /\ SeedAbs(s) # IM2 => Install(s) # IM2
<1>1. s \in (-INT32_MAX)..INT32_MAX
  BY RNG2Assumption, SMT DEF RNG2Assumption
<1>2. s \in Int /\ s >= -INT32_MAX /\ s <= INT32_MAX
  BY <1>1, Bounds, SMT
<1>3. Install(s) = IF s > 0 THEN s ELSE IF s < 0 THEN -s ELSE 1
  BY SMT DEF Install
<1>4. SeedAbs(s) = IF s > 0 THEN s ELSE -s
  BY SMT DEF SeedAbs
<1>5. /\ Install(s) \in Int /\ Install(s) <= INT32_MAX /\ Install(s) > 0
      /\ Install(s) = SeedAbs(s) \/ Install(s) = 1
  BY <1>2, <1>3, <1>4, Bounds, SMT
<1> QED
  BY <1>5, Bounds, SMT

(* Induction needs, besides the properties: that no draw precedes the end  *)
(* of the constructor, that after its first turn idum is below its         *)
(* modulus, and that neither sequence is at its modulus, which only the    *)
(* seeds it leaves out put there.                                          *)
IInv ==
  /\ TypeOK
  /\ j >= 0 => draws = 0
  /\ j < NTAB + 7 => idum < IM1
  /\ OutputInside
  /\ SeedAbs(seed) # IM1 => idum # 0 /\ idum # IM1
  /\ SeedAbs(seed) # IM2 => idum2 # 0 /\ idum2 # IM2

LEMMA InitIInv == Init => IInv
<1> SUFFICES ASSUME Init
             PROVE  IInv
  OBVIOUS
<1>1. seed \in Seeds
  BY SMT DEF Init
<1>2. /\ idum \in 0..INT32_MAX /\ idum # 0 /\ (SeedAbs(seed) # IM1 => idum # IM1)
      /\ idum2 \in 0..INT32_MAX /\ idum2 # 0 /\ (SeedAbs(seed) # IM2 => idum2 # IM2)
  BY <1>1, Installed, SMT DEF Init
<1>3. TypeOK
  <2>1. 0 \in 0..IMM1 /\ 0 \in 0..MaxDraws
    BY Bounds, RNG2Assumption, SMT DEF RNG2Assumption
  <2>2. j \in (-1)..(NTAB + 7)
    BY Bounds, SMT DEF Init
  <2>3. iv \in [Slots -> 0..IMM1]
    BY <2>1, SMT DEF Init
  <2> QED
    BY <1>1, <1>2, <2>1, <2>2, <2>3, SMT DEF Init, TypeOK
<1>4. /\ j >= 0 => draws = 0
      /\ j < NTAB + 7 => idum < IM1
      /\ OutputInside
  BY Bounds, SMT DEF Init, OutputInside
<1> QED
  BY <1>2, <1>3, <1>4, SMT DEF IInv

LEMMA WarmupIInv == IInv /\ Warmup => IInv'
<1> SUFFICES ASSUME IInv, Warmup
             PROVE  IInv'
  OBVIOUS
<1>1. /\ idum' = Step1(idum) /\ idum \in 0..INT32_MAX
      /\ j \in Int /\ j >= 0 /\ j <= NTAB + 7 /\ j' = j - 1
      /\ idum2' = idum2 /\ seed' = seed /\ draws' = draws /\ draws = 0
  BY Bounds, SMT DEF IInv, TypeOK, Warmup
<1>2. /\ idum' \in 0..INT32_MAX /\ idum' \in 0..IMM1
      /\ idum' < IM1
      /\ SeedAbs(seed) # IM1 => idum' # 0
  BY <1>1, Sequence1, SMT DEF IInv
<1>3. iv' \in [Slots -> 0..IMM1]
  <2>1. iv \in [Slots -> 0..IMM1]
    BY SMT DEF IInv, TypeOK
  <2>2. iv' = IF j < NTAB THEN [iv EXCEPT ![j] = idum'] ELSE iv
    BY SMT DEF Warmup
  <2>3. ASSUME NEW f \in [Slots -> 0..IMM1], NEW i, NEW y \in 0..IMM1
        PROVE  [f EXCEPT ![i] = y] \in [Slots -> 0..IMM1]
    BY Zenon
  <2>4. CASE j < NTAB
    BY <1>2, <2>1, <2>2, <2>3, <2>4, Zenon
  <2>5. CASE ~(j < NTAB)
    BY <2>1, <2>2, <2>5, Zenon
  <2> QED
    BY <2>4, <2>5, Zenon
<1>4. iy' \in 0..IMM1
  <2>1. 0 \in Slots
    BY Bounds, SMT DEF Slots
  <2>2. iy \in 0..IMM1 /\ iy' = IF j = 0 THEN iv'[0] ELSE iy
    BY SMT DEF IInv, TypeOK, Warmup
  <2> QED
    BY <1>3, <2>1, <2>2, SMT
<1>5. TypeOK'
  <2>1. j' \in (-1)..(NTAB + 7)
    BY <1>1, Bounds, SMT
  <2> QED
    BY <1>1, <1>2, <1>3, <1>4, <2>1, SMT DEF IInv, TypeOK
<1>6. OutputInside'
  BY <1>1, SMT DEF OutputInside
<1>7. SeedAbs(seed') # IM1 => idum' # 0 /\ idum' # IM1
  BY <1>1, <1>2, Bounds, SMT
<1>8. SeedAbs(seed') # IM2 => idum2' # 0 /\ idum2' # IM2
  BY <1>1, SMT DEF IInv
<1> QED
  BY <1>1, <1>2, <1>5, <1>6, <1>7, <1>8, SMT DEF IInv

LEMMA RandIInv == IInv /\ Rand => IInv'
<1> SUFFICES ASSUME IInv, Rand
             PROVE  IInv'
  OBVIOUS
<1>1. /\ idum' = Step1(idum) /\ idum \in 0..INT32_MAX
      /\ idum2' = Step2(idum2) /\ idum2 \in 0..INT32_MAX
      /\ j' = j /\ j < 0 /\ j \in Int /\ seed' = seed
      /\ j \in (-1)..(NTAB + 7) /\ seed \in Seeds
  BY Bounds, SMT DEF IInv, TypeOK, Rand
<1>2. /\ idum' \in 0..INT32_MAX /\ idum' \in 0..IMM1
      /\ idum' < IM1
      /\ SeedAbs(seed) # IM1 => idum' # 0
  BY <1>1, Sequence1, SMT DEF IInv
<1>3. /\ idum2' \in 0..INT32_MAX
      /\ idum2' < IM2
      /\ SeedAbs(seed) # IM2 => idum2' # 0
  BY <1>1, Sequence2, SMT DEF IInv
<1>4. Slot \in Slots
  BY SlotInTable, SMT DEF IInv, TypeOK, Slot
<1>5. iv \in [Slots -> 0..IMM1] /\ iv[Slot] \in 0..IMM1
  BY <1>4, SMT DEF IInv, TypeOK
<1>6. iy' \in 1..IMM1
  <2>1. iy' = Wrapped(iv[Slot] - idum2')
    BY SMT DEF Rand
  <2> QED
    BY <1>3, <1>5, <2>1, Output, SMT
<1>7. iv' \in [Slots -> 0..IMM1]
  <2>1. iv' = [iv EXCEPT ![Slot] = idum']
    BY SMT DEF Rand
  <2> QED
    BY <1>2, <1>5, <2>1, Zenon
<1>8. draws' \in 0..MaxDraws
  BY RNG2Assumption, SMT DEF RNG2Assumption, IInv, TypeOK, Rand
<1>9. TypeOK'
  <2>1. iy' \in 0..IMM1
    BY <1>6, Bounds, SMT
  <2> QED
    BY <1>1, <1>2, <1>3, <1>7, <1>8, <2>1, SMT DEF TypeOK
<1>10. OutputInside'
  BY <1>6, SMT DEF OutputInside
<1>11. /\ SeedAbs(seed') # IM1 => idum' # 0 /\ idum' # IM1
       /\ SeedAbs(seed') # IM2 => idum2' # 0 /\ idum2' # IM2
  BY <1>1, <1>2, <1>3, Bounds, SMT
<1>12. j' >= 0 => draws' = 0
  BY <1>1, SMT
<1> QED
  BY <1>2, <1>9, <1>10, <1>11, <1>12, SMT DEF IInv

\* The ranges of the residues and of the table, from the first turn of the
\* constructor's loop on.
THEOREM Invariance == Spec => []IInv
<1>1. IInv /\ UNCHANGED vars => IInv'
  BY SMT DEF vars, IInv, TypeOK, OutputInside, SeedAbs
<1>2. IInv /\ [Next]_vars => IInv'
  BY <1>1, WarmupIInv, RandIInv, SMT DEF Next
<1> QED
  BY InitIInv, <1>2, PTL DEF Spec

(* The variables, the table among them, keep their ranges. *)
THEOREM TypeCorrect == Spec => []TypeOK
<1>1. IInv => TypeOK
  BY SMT DEF IInv
<1> QED
  BY Invariance, <1>1, PTL

(* Nothing that rand() (RNG2.cpp:32-48) or the constructor (18-27)         *)
(* computes leaves int32_t, for any seed but the least and any number of   *)
(* draws, and no access to the table is out of it.                         *)
THEOREM NoOverflow == Spec => []InRange
<1>1. IInv => InRange
  <2> SUFFICES ASSUME IInv
               PROVE  InRange
    OBVIOUS
  <2>1. idum \in 0..INT32_MAX /\ idum2 \in 0..INT32_MAX /\ iy \in 0..IMM1
    BY SMT DEF IInv, TypeOK
  <2>2. Product1(idum) \in 0..INT32_MAX /\ Schrage1(idum) \in (-INT32_MAX)..INT32_MAX
    BY <2>1, Sequence1, SMT
  <2>3. /\ Product2(idum2) \in 0..INT32_MAX /\ Schrage2(idum2) \in (-INT32_MAX)..INT32_MAX
        /\ Step2(idum2) \in 0..INT32_MAX /\ Step2(idum2) < IM2
    BY <2>1, Sequence2, SMT
  <2>4. Slot \in Slots
    BY <2>1, SlotInTable, SMT DEF Slot
  <2>5. iv[Slot] \in 0..IMM1
    BY <2>4, SMT DEF IInv, TypeOK
  <2>6. iv[Slot] - Step2(idum2) \in (-INT32_MAX)..INT32_MAX
    BY <2>3, <2>5, Output, SMT
  <2> QED
    BY <2>2, <2>3, <2>4, <2>6, SMT DEF InRange
<1> QED
  BY Invariance, <1>1, PTL

(* "return a uniform deviate in (0.0, 1.0)" (RNG2.h:37): the numerator of  *)
(* every deviate is strictly between 0 and IM1.                            *)
THEOREM OutputsInside == Spec => []OutputInside
<1>1. IInv => OutputInside
  BY SMT DEF IInv
<1> QED
  BY Invariance, <1>1, PTL

(* Only the seeds IM1 and IM2 and their negatives make a sequence die. *)
THEOREM SequencesLive == Spec => []Alive
<1>1. IInv => Alive
  <2> SUFFICES ASSUME IInv
               PROVE  Alive
    OBVIOUS
  <2>1. j < NTAB => j < NTAB + 7
    BY Bounds, SMT DEF IInv, TypeOK
  <2> QED
    BY <2>1, SMT DEF IInv, Alive
<1> QED
  BY Invariance, <1>1, PTL
=============================================================================
