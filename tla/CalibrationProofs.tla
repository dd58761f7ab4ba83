-------------------------- MODULE CalibrationProofs --------------------------
(***************************************************************************)
(* Proofs about Calibration for every interval, every shorter wait of init *)
(* and every length of a read.                                             *)
(***************************************************************************)
EXTENDS Calibration, ModLemmas

-----------------------------------------------------------------------------
(* Division.                                                               *)

(* A quotient is known by what is left over. *)
LEMMA DivUnique ==
  ASSUME NEW n \in Nat \ {0}, NEW x \in Int, NEW q \in Int, NEW r \in 0 .. n - 1,
         x = n * q + r
  PROVE  x \div n = q
<1>. DEFINE d == x \div n
<1>1. d \in Int /\ x = n * d + r
  BY DivMod, ModUnique
<1>. HIDE DEF d
<1>2. n * d - n * q < n /\ n * q - n * d < n
  BY <1>1
<1>3. d = q
  BY <1>1, <1>2, SameMultiple
<1>. QED BY <1>3 DEF d

(* A multiple of the divisor adds its factor to the quotient. *)
LEMMA DivAdd ==
  ASSUME NEW n \in Nat \ {0}, NEW a \in Int, NEW q \in Int
  PROVE  (a + q * n) \div n = (a \div n) + q
<1>. DEFINE d == a \div n
            m == a % n
            x == a + q * n
<1>1. d \in Int /\ m \in 0 .. n - 1 /\ a = n * d + m
  BY DivMod, ModRange
<1>2. x \in Int /\ x = a + q * n
  OBVIOUS
<1>. HIDE DEF d, m, x
<1>3. d + q \in Int /\ x = n * (d + q) + m
  BY <1>1, <1>2
<1>4. x \div n = d + q
  BY <1>1, <1>2, <1>3, DivUnique
<1>. QED BY <1>4 DEF d, x

(* A common factor of dividend and divisor cancels. *)
LEMMA DivCancel ==
  ASSUME NEW a \in Int, NEW b \in Nat \ {0}, NEW c \in Nat \ {0}
  PROVE  (a * c) \div (b * c) = a \div b
<1>. DEFINE d == a \div b
            m == a % b
            x == a * c
            n == b * c
<1>1. d \in Int /\ m \in 0 .. b - 1 /\ a = b * d + m
  BY DivMod, ModRange
<1>2. x \in Int /\ x = a * c /\ n \in Nat \ {0} /\ n = b * c
  OBVIOUS
<1>. HIDE DEF d, m, x, n
<1>3. m * c \in 0 .. n - 1
  <2>1. m * c \in Nat /\ (m + 1) * c <= b * c /\ (m + 1) * c = m * c + c
    BY <1>1
  <2>. QED BY <1>2, <2>1
<1>4. x = n * d + m * c
  <2>1. (b * d + m) * c = (b * c) * d + m * c
    BY <1>1
  <2>. QED BY <1>1, <1>2, <2>1
<1>5. x \div n = d
  BY <1>1, <1>2, <1>3, <1>4, DivUnique
<1>. QED BY <1>5 DEF d, x, n

(* i64 division loses less than a divisor, whatever the sign. *)
LEMMA TruncatedDivision ==
  ASSUME NEW a \in Int, NEW b \in Nat \ {0}
  PROVE  /\ i64_div(a, b) \in Int
         /\ a - b * i64_div(a, b) < b
         /\ b * i64_div(a, b) - a < b
<1>1. CASE a >= 0
  <2>. DEFINE d == a \div b
  <2>1. d \in Int /\ a = b * d + (a % b) /\ a % b \in 0 .. b - 1
    BY DivMod, ModRange
  <2>2. i64_div(a, b) = d
    BY <1>1 DEF i64_div
  <2>. HIDE DEF d
  <2>3. b * d \in Int
    BY <2>1
  <2>. QED BY <2>1, <2>2, <2>3
<1>2. CASE a < 0
  <2>. DEFINE c == -a
              d == c \div b
  <2>1. c \in Int
    OBVIOUS
  <2>2. d \in Int /\ c = b * d + (c % b) /\ c % b \in 0 .. b - 1
    <3>. HIDE DEF c
    <3>. QED BY <2>1, DivMod, ModRange
  <2>3. i64_div(a, b) = -d
    BY <1>2 DEF i64_div
  <2>4. a = -c
    OBVIOUS
  <2>. HIDE DEF c, d
  <2>5. b * d \in Int /\ b * (-d) = -(b * d)
    BY <2>2
  <2>. QED BY <2>2, <2>3, <2>4, <2>5
<1>. QED BY <1>1, <1>2

(* The wait of init and the interval. *)
LEMMA TicksFacts ==
  /\ InitTicks \in Nat \ {0} /\ Interval \in Nat \ {0} /\ InitTicks < Interval
  /\ InitTicks * Interval \in Nat \ {0}
<1>1. InitTicks \in Nat \ {0} /\ Interval \in Nat \ {0} /\ InitTicks < Interval
  BY TicksAssumption
<1>. QED BY <1>1

-----------------------------------------------------------------------------
(* sync_time.                                                              *)

(* The samples of sync_time, as TypeInv has them. *)
ReadsOK == reads \in [1 .. N -> Reads]

(* The pair that sync_time picks is one of its pairs and no slower than    *)
(* any.                                                                    *)
LEMMA BestIsFastest ==
  ASSUME ReadsOK
  PROVE  best \in 1 .. N /\ \A k \in 1 .. N : gap(best) <= gap(k)
<1>. DEFINE P(i) == \A k \in 1 .. N : gap(i) < gap(k) \/ (gap(i) = gap(k) /\ i <= k)
<1>1. \A i \in 1 .. N : gap(i) \in Nat
  BY DEF ReadsOK, Reads, gap, N
<1>2. \E i \in 1 .. N : P(i)
  <2>1. gap(1) \in Nat /\ gap(2) \in Nat /\ gap(3) \in Nat
    BY <1>1 DEF N
  <2>2. \A k \in 1 .. N : k = 1 \/ k = 2 \/ k = 3
    BY DEF N
  <2>3. CASE gap(1) <= gap(2) /\ gap(1) <= gap(3)
    <3>1. P(1)
      BY <2>1, <2>2, <2>3
    <3>. QED BY <3>1 DEF N
  <2>4. CASE gap(2) < gap(1) /\ gap(2) <= gap(3)
    <3>1. P(2)
      BY <2>1, <2>2, <2>4
    <3>. QED BY <3>1 DEF N
  <2>5. CASE gap(3) < gap(1) /\ gap(3) < gap(2)
    <3>1. P(3)
      BY <2>1, <2>2, <2>5
    <3>. QED BY <3>1 DEF N
  <2>. QED BY <2>1, <2>3, <2>4, <2>5
<1>3. best = CHOOSE i \in 1 .. N : P(i)
  BY DEF best
<1>4. best \in 1 .. N /\ P(best)
  <2>. HIDE DEF P
  <2>. QED BY <1>2, <1>3
<1>. QED BY <1>1, <1>4

(* The error of a sample: less than half of its own gap, and at most half  *)
(* of the longest read.                                                    *)
LEMMA NoiseFacts ==
  ASSUME ReadsOK
  PROVE  /\ noise \in -MaxNoise .. MaxNoise
         /\ 2 * Abs(noise) < gap(best)
         /\ MaxNoise \in Nat
<1>. DEFINE a == reads[best].lag
            b == reads[best].lead
<1>1. a \in 1 .. LongestRead /\ b \in 1 .. LongestRead
  BY BestIsFastest DEF ReadsOK, Reads
<1>2. noise = (a + b) \div 2 - a /\ gap(best) = a + b
  BY DEF noise, gap
<1>. HIDE DEF a, b
<1>. QED BY <1>1, <1>2, ReadAssumption DEF MaxNoise, Abs

LEMMA SampleIsClose == ReadsOK => SampleClose
<1>. SUFFICES ASSUME ReadsOK, NEW i \in 1 .. N PROVE 2 * Abs(noise) < gap(i)
  BY DEF SampleClose
<1>1. gap(best) \in Nat /\ gap(i) \in Nat /\ gap(best) <= gap(i)
  BY BestIsFastest DEF ReadsOK, Reads, gap
<1>2. 2 * Abs(noise) < gap(best) /\ Abs(noise) \in Nat
  BY NoiseFacts DEF Abs
<1>. QED BY <1>1, <1>2

-----------------------------------------------------------------------------
(* The correction.                                                         *)

(* The error when the first calibration is due: that of init's second      *)
(* sample, and what the wrong rate has added in an Interval.               *)
LEMMA FirstError ==
  ASSUME base_err \in Int, NEW n \in Int, drift = (-n - base_err) * Interval,
         since = InitTicks + Interval
  PROVE  Error = -n + ((-n - base_err) * Interval) \div InitTicks
<1>. DEFINE d == -n - base_err
            F == (d * Interval) \div InitTicks
            a == d * Interval + d * InitTicks
<1>. USE TicksFacts
<1>1. d \in Int /\ drift = d * Interval /\ base_err = -n - d
  OBVIOUS
<1>. HIDE DEF d
<1>2. d * Interval \in Int /\ a \in Int
  BY <1>1
<1>3. drift * since = a * Interval
  BY <1>1
<1>4. (a * Interval) \div (InitTicks * Interval) = a \div InitTicks
  <2>. HIDE DEF a
  <2>. QED BY <1>2, DivCancel
<1>5. a \div InitTicks = F + d
  BY <1>1, <1>2, DivAdd
<1>6. F \in Int
  BY <1>2, DivMod
<1>7. Error = base_err + (F + d)
  <2>. HIDE DEF a, F
  <2>. QED BY <1>3, <1>4, <1>5 DEF Error
<1>8. Error = -n + F
  <2>. HIDE DEF F
  <2>. QED BY <1>1, <1>6, <1>7
<1>. QED BY <1>8 DEF d, F

(* The extrapolated error is, but for rounding, the measured one and its   *)
(* share in the next Interval.                                             *)
LEMMA Extrapolation ==
  ASSUME NEW s \in Int, since = InitTicks + Interval
  PROVE  \E r \in Int, x \in Int :
           /\ expected_err_at_next_calibration(s) = s + x
           /\ (InitTicks + Interval) * x = s * Interval + r
           /\ r < InitTicks + Interval /\ -r < InitTicks + Interval
<1>. DEFINE x == i64_div(s * Interval, InitTicks + Interval)
            b == InitTicks + Interval
            p == s * Interval
            r == b * x - p
<1>. USE TicksFacts
<1>1. expected_err_at_next_calibration(s) = s + x
  <2>1. (s - BASE_NS_ERR) * Interval = s * Interval /\ since + BASE_NS_ERR = b
    BY DEF BASE_NS_ERR
  <2>. QED BY <2>1 DEF expected_err_at_next_calibration
<1>2. p \in Int /\ b \in Nat \ {0}
  OBVIOUS
<1>3. x \in Int /\ p - b * x < b /\ b * x - p < b
  BY <1>2, TruncatedDivision
<1>. HIDE DEF x, b, p
<1>4. r \in Int /\ b * x = p + r /\ r < b /\ -r < b
  <2>1. b * x \in Int
    BY <1>2, <1>3
  <2>. QED BY <1>2, <1>3, <2>1
<1>. HIDE DEF r
<1>. QED BY <1>1, <1>3, <1>4 DEF b, p

(* After the first correction the errors of the samples are left, at most  *)
(* three times, whatever rate init had found: T is its wait, I the         *)
(* interval, n0 and n1 are the errors of its two samples, n2 that of the   *)
(* calibration; F and x are rounded quotients, f and r what they leave.    *)
LEMMA CorrectionBound ==
  ASSUME NEW T \in Nat \ {0}, NEW I \in Nat \ {0}, NEW M \in Nat,
         NEW n0 \in -M .. M, NEW n1 \in Int, NEW n2 \in -M .. M,
         NEW F \in Int, NEW f \in 0 .. T - 1, (n0 - n1) * I = T * F + f,
         NEW x \in Int, NEW r \in Int, r < T + I, -r < T + I,
         (T + I) * x = (-n1 + F + n2) * I + r
  PROVE  Abs(F - n2 - x) <= 3 * M + 1
<1>. DEFINE z == F - n2 - x
<1>1. z \in Int
  OBVIOUS
<1>2. (T + I) * z = I * n0 - (T + 2 * I) * n2 - f - r
  <2>1. (T + I) * z = T * F + I * F - T * n2 - I * n2 - (T + I) * x
    OBVIOUS
  <2>2. (-n1 + F + n2) * I = I * F + I * n2 - I * n1
    OBVIOUS
  <2>3. (n0 - n1) * I = I * n0 - I * n1
    OBVIOUS
  <2>4. (T + 2 * I) * n2 = T * n2 + 2 * (I * n2)
    OBVIOUS
  <2>. QED BY <1>1, <2>1, <2>2, <2>3, <2>4
<1>3. I * n0 <= I * M /\ I * n0 >= -(I * M)
  OBVIOUS
<1>4. /\ (T + 2 * I) * n2 <= (T + 2 * I) * M
      /\ (T + 2 * I) * n2 >= -((T + 2 * I) * M)
  OBVIOUS
<1>. HIDE DEF z
<1>5. (T + I) * z < (T + I) * (3 * M + 2) /\ (T + I) * z > -((T + I) * (3 * M + 2))
  <2>1. I * M \in Nat /\ T * M \in Nat
    OBVIOUS
  <2>2. (T + 2 * I) * M = T * M + 2 * (I * M)
    OBVIOUS
  <2>3. (T + I) * (3 * M + 2) = 3 * (T * M) + 3 * (I * M) + 2 * T + 2 * I
    OBVIOUS
  <2>4. I * n0 \in Int /\ (T + 2 * I) * n2 \in Int
    OBVIOUS
  <2>. QED BY <1>1, <1>2, <1>3, <1>4, <2>1, <2>2, <2>3, <2>4
<1>6. z < 3 * M + 2 /\ z > -(3 * M + 2)
  <2>1. CASE z >= 3 * M + 2
    <3>1. (T + I) * z >= (T + I) * (3 * M + 2)
      BY <1>1, <2>1
    <3>. QED BY <1>1, <1>5, <3>1
  <2>2. CASE z <= -(3 * M + 2)
    <3>1. (T + I) * z <= (T + I) * (-(3 * M + 2))
      BY <1>1, <2>2
    <3>2. (T + I) * (-(3 * M + 2)) = -((T + I) * (3 * M + 2))
      OBVIOUS
    <3>. QED BY <1>1, <1>5, <3>1, <3>2
  <2>. QED BY <1>1, <2>1, <2>2
<1>7. Abs(z) <= 3 * M + 1
  BY <1>1, <1>6 DEF Abs
<1>. QED BY <1>7 DEF z

-----------------------------------------------------------------------------
(* The invariant.                                                          *)

(* The error of the sample in reads is one that MaxNoise covers. *)
NoiseSmall == noise \in -MaxNoise .. MaxNoise

(* That holds for the next sample as for this one. *)
LEMMA NextNoise == sync_time => NoiseSmall'
<1>1. ReadsOK => NoiseSmall
  BY NoiseFacts DEF NoiseSmall
<1>2. ReadsOK' => NoiseSmall'
  BY <1>1, PTL
<1>. QED BY <1>2 DEF sync_time, ReadsOK

LEMMA MaxNoiseNat == MaxNoise \in Nat
BY ReadAssumption DEF MaxNoise

LEMMA InitInv == Init => IndInv
BY ReadAssumption DEF Init, IndInv, TypeInv, N, Reads

LEMMA InitBaseInv ==
  ASSUME IndInv, InitBase
  PROVE  IndInv'
<1>1. /\ pc' = "spin" /\ since' = 0 /\ calibrations' = 0
      /\ base_err' = -noise' /\ drift' = drift /\ sync_time
  BY DEF IndInv, InitBase
<1>2. noise' \in -MaxNoise .. MaxNoise
  BY <1>1, NextNoise DEF NoiseSmall
<1>. DEFINE n == noise'
<1>. HIDE DEF n
<1>3. n \in -MaxNoise .. MaxNoise /\ base_err' = -n
  BY <1>1, <1>2 DEF n
<1>4. base_err' \in Int /\ Abs(base_err') <= MaxNoise
  BY <1>3, MaxNoiseNat DEF Abs
<1>. QED BY <1>1, <1>4 DEF IndInv, TypeInv, sync_time, Abs

LEMMA InitRateInv ==
  ASSUME IndInv, InitRate
  PROVE  IndInv'
<1>. DEFINE n == noise'
<1>1. /\ pc = "spin" /\ pc' = "call" /\ since' = InitTicks /\ calibrations' = 0
      /\ base_err' = base_err /\ sync_time /\ drift' = (-n - base_err) * Interval
      /\ base_err \in Int /\ Abs(base_err) <= MaxNoise
  BY DEF IndInv, TypeInv, InitRate
<1>2. n \in -MaxNoise .. MaxNoise
  BY <1>1, NextNoise DEF NoiseSmall
<1>. HIDE DEF n
<1>3. n \in Int /\ drift' \in Int
  BY <1>1, <1>2, MaxNoiseNat, TicksFacts
<1>4. TypeInv'
  BY <1>1, <1>3, TicksFacts DEF IndInv, TypeInv, sync_time
<1>5. InitialRate'
  BY <1>1, <1>2, TicksFacts DEF InitialRate, Abs
<1>. QED BY <1>1, <1>4, <1>5 DEF IndInv

(* Two steps that leave the parameters alone: calibrate returning at once, *)
(* and the thread's sleep.                                                 *)
LEMMA WaitInv ==
  ASSUME IndInv, NotDue \/ Sleep
  PROVE  IndInv'
<1>1. /\ UNCHANGED <<reads, base_err, drift, calibrations>>
      /\ pc \notin {"init", "spin"} /\ pc' \in {"call", "sleep"}
  BY DEF NotDue, Sleep
<1>2. since' \in Nat
  BY TicksFacts DEF IndInv, TypeInv, NotDue, Sleep
<1>3. TypeInv'
  BY <1>1, <1>2 DEF IndInv, TypeInv
<1>4. ASSUME calibrations = 0 PROVE InitialRate'
  <2>1. InitialRate
    BY <1>1, <1>4 DEF IndInv
  <2>2. /\ Abs(base_err') <= MaxNoise
        /\ \E n \in -MaxNoise .. MaxNoise : drift' = (-n - base_err') * Interval
    BY <1>1, <2>1 DEF InitialRate, Abs
  <2>3. since' = IF pc' = "sleep" THEN InitTicks
                 ELSE IF pc' = "adjust" \/ since' >= Interval THEN InitTicks + Interval
                 ELSE InitTicks
    BY <2>1, TicksFacts DEF InitialRate, NotDue, Sleep
  <2>. QED BY <2>2, <2>3 DEF InitialRate, Abs
<1>5. ASSUME calibrations = 1 PROVE CorrectedRate'
  <2>1. CorrectedRate
    BY <1>5 DEF IndInv
  <2>. QED BY <1>1, <2>1 DEF CorrectedRate, NextError, Abs
<1>6. ASSUME calibrations >= 1
      PROVE  since' = IF pc' = "sleep" THEN 0 ELSE Interval
  BY <1>6, TicksFacts DEF IndInv, NotDue, Sleep
<1>. QED BY <1>1, <1>3, <1>4, <1>5, <1>6 DEF IndInv

LEMMA CalibrateSampleInv ==
  ASSUME IndInv, CalibrateSample
  PROVE  IndInv'
<1>1. /\ UNCHANGED <<since, base_err, drift, calibrations>> /\ since >= Interval
      /\ pc = "call" /\ pc' = "adjust" /\ sync_time
  BY DEF CalibrateSample
<1>2. TypeInv'
  BY <1>1 DEF IndInv, TypeInv, sync_time
<1>3. ASSUME calibrations = 0 PROVE InitialRate'
  BY <1>1, <1>3, TicksFacts DEF IndInv, InitialRate, Abs
<1>4. ASSUME calibrations = 1 PROVE CorrectedRate'
  BY <1>1, <1>4 DEF IndInv, CorrectedRate, NextError, Abs
<1>5. ASSUME calibrations >= 1 PROVE since' = Interval
  BY <1>1, <1>5 DEF IndInv
<1>. QED BY <1>1, <1>2, <1>3, <1>4, <1>5 DEF IndInv

(* The first calibration, whose effect is the heart of the argument, and   *)
(* every later one.                                                        *)
LEMMA CalibrateAdjustInv ==
  ASSUME IndInv, CalibrateAdjust
  PROVE  IndInv'
<1>. DEFINE s == Error + noise
            y == expected_err_at_next_calibration(s)
<1>1. /\ pc = "adjust" /\ pc' = "sleep" /\ since' = 0 /\ reads' = reads
      /\ calibrations \in Nat /\ calibrations' = calibrations + 1
      /\ drift' = drift - InitTicks * y /\ base_err' = Error
  BY DEF CalibrateAdjust, IndInv, TypeInv
<1>2. since \in Nat /\ base_err \in Int /\ drift \in Int
  BY DEF IndInv, TypeInv
<1>3. drift * since \in Int /\ Error \in Int /\ noise \in -MaxNoise .. MaxNoise /\ s \in Int
  <2>1. drift * since \in Int
    BY <1>2
  <2>2. (drift * since) \div (InitTicks * Interval) \in Int
    <3>. DEFINE p == drift * since
                n == InitTicks * Interval
    <3>1. p \in Int /\ n \in Nat \ {0}
      BY <2>1, TicksFacts
    <3>. HIDE DEF p, n
    <3>2. p \div n \in Int
      BY <3>1, DivMod
    <3>. QED BY <3>2 DEF p, n
  <2>3. noise \in -MaxNoise .. MaxNoise
    BY NoiseFacts DEF IndInv, TypeInv, ReadsOK
  <2>. QED BY <1>2, <2>1, <2>2, <2>3, MaxNoiseNat DEF Error
<1>4. y \in Int
  <2>1. since \in Nat \ {0}
    BY <1>1, <1>2, TicksFacts DEF IndInv
  <2>2. y = s + i64_div((s - 0) * Interval, since + 0)
    BY DEF expected_err_at_next_calibration, BASE_NS_ERR
  <2>. HIDE DEF s, y
  <2>3. (s - 0) * Interval \in Int /\ since + 0 \in Nat \ {0}
    BY <1>3, <2>1, TicksFacts
  <2>4. i64_div((s - 0) * Interval, since + 0) \in Int
    BY <2>3, TruncatedDivision
  <2>. QED BY <1>3, <2>2, <2>4
<1>5. TypeInv'
  <2>. HIDE DEF y
  <2>1. drift' \in Int
    BY <1>1, <1>2, <1>4, TicksFacts
  <2>. QED BY <1>1, <1>2, <1>3, <2>1 DEF IndInv, TypeInv
<1>6. ASSUME calibrations = 0 PROVE CorrectedRate'
  <2>1. InitialRate
    BY <1>1, <1>6 DEF IndInv
  <2>2. since = InitTicks + Interval
    BY <1>1, <2>1 DEF InitialRate
  <2>3. PICK n1 \in -MaxNoise .. MaxNoise : drift = (-n1 - base_err) * Interval
    BY <2>1 DEF InitialRate
  <2>. DEFINE T == InitTicks
              I == Interval
              M == MaxNoise
              n0 == -base_err
              n2 == noise
              e == Error
              F == drift \div T
              f == drift % T
  <2>4. /\ T \in Nat \ {0} /\ I \in Nat \ {0} /\ M \in Nat
        /\ n0 \in -M .. M /\ n1 \in Int /\ n2 \in -M .. M
        /\ e \in Int /\ drift = (n0 - n1) * I
    <3>1. n0 \in -M .. M
      BY <1>2, <2>1, MaxNoiseNat DEF InitialRate, Abs
    <3>2. -n1 - base_err = n0 - n1
      BY <1>2, MaxNoiseNat
    <3>. QED BY <1>3, <2>3, <3>1, <3>2, TicksFacts, MaxNoiseNat
  <2>5. e = -n1 + F
    BY <1>2, <2>2, <2>3, MaxNoiseNat, FirstError
  <2>6. F \in Int /\ f \in 0 .. T - 1 /\ drift = T * F + f
    BY <1>2, TicksFacts, DivMod, ModRange
  <2>7. PICK r \in Int, x \in Int :
          /\ y = s + x /\ (T + I) * x = s * I + r /\ r < T + I /\ -r < T + I
    BY <1>3, <2>2, Extrapolation
  <2>8. s = e + n2 /\ base_err' = e /\ drift' = drift - T * y
    BY <1>1
  <2>9. drift' \div InitTicks = drift' \div T
    OBVIOUS
  <2>. HIDE DEF T, I, M, n0, n2, e, s, y, F, f
  <2>10. Abs(F - n2 - x) <= 3 * M + 1
    <3>1. (n0 - n1) * I = T * F + f
      BY <2>4, <2>6
    <3>2. s = -n1 + F + n2
      BY <2>4, <2>5, <2>6, <2>8
    <3>3. (T + I) * x = (-n1 + F + n2) * I + r
      BY <2>7, <3>2
    <3>. QED BY <2>4, <2>6, <2>7, <3>1, <3>3, CorrectionBound
  <2>11. drift' \div T = F + (-y)
    <3>1. y \in Int /\ -y \in Int
      BY <1>4
    <3>2. drift' = drift + (-y) * T
      BY <1>2, <2>4, <2>8, <3>1
    <3>3. (drift + (-y) * T) \div T = drift \div T + (-y)
      BY <1>2, <2>4, <3>1, DivAdd
    <3>. QED BY <3>2, <3>3 DEF F
  <2>12. base_err' + drift' \div T = F - n2 - x
    BY <1>4, <2>4, <2>6, <2>7, <2>8, <2>11
  <2>13. Abs(base_err' + drift' \div InitTicks) <= 3 * MaxNoise + 1
    BY <2>9, <2>10, <2>12 DEF M
  <2>. QED BY <2>13 DEF CorrectedRate, NextError, Abs
<1>. QED BY <1>1, <1>5, <1>6 DEF IndInv

LEMMA NextInv == IndInv /\ [Next]_vars => IndInv'
<1>. SUFFICES ASSUME IndInv, [Next]_vars PROVE IndInv'
  OBVIOUS
<1>1. CASE UNCHANGED vars
  BY <1>1 DEF vars, IndInv, TypeInv, InitialRate, CorrectedRate, NextError, Abs
<1>. QED BY <1>1, InitBaseInv, InitRateInv, WaitInv, CalibrateSampleInv,
            CalibrateAdjustInv DEF Next

-----------------------------------------------------------------------------
(* The theorems.                                                           *)

(* The invariant that ties the conversion's error to the errors of the     *)
(* samples, from init to the calibration after the first one.              *)
THEOREM Invariance == Spec => []IndInv
<1>. QED BY InitInv, NextInv, PTL DEF Spec

(* sync_time's sample is as good as its fastest pair of reads, however     *)
(* long the others were interrupted.                                       *)
THEOREM SamplesAreClose == Spec => []SampleClose
<1>1. IndInv => SampleClose
  BY SampleIsClose DEF IndInv, TypeInv, ReadsOK
<1>. QED BY <1>1, Invariance, PTL

(* Whatever rate init has found, and however much longer the interval is   *)
(* than its wait, the first calibration leaves three sample errors and a   *)
(* unit of rounding.                                                       *)
THEOREM FirstCorrectionWorks == Spec => []FirstCorrection
<1>1. IndInv => FirstCorrection
  <2>. SUFFICES ASSUME IndInv, pc = "adjust", calibrations = 1
                PROVE  Abs(Error) <= 3 * MaxNoise + 1
    BY DEF FirstCorrection, SmallError
  <2>1. CorrectedRate /\ drift \in Int /\ since = Interval
    BY DEF IndInv, TypeInv
  <2>2. (drift * since) \div (InitTicks * Interval) = drift \div InitTicks
    BY <2>1, TicksFacts, DivCancel
  <2>. QED BY <2>1, <2>2 DEF Error, NextError, CorrectedRate
<1>. QED BY <1>1, Invariance, PTL

(* A calibration an Interval after the last one extrapolates its error     *)
(* from zero, hence doubles it.                                            *)
LEMMA Doubled ==
  ASSUME NEW s \in Int, since = Interval
  PROVE  expected_err_at_next_calibration(s) = 2 * s
<1>. USE TicksFacts
<1>1. expected_err_at_next_calibration(s) = s + i64_div(s * Interval, Interval)
  <2>1. (s - BASE_NS_ERR) * Interval = s * Interval /\ since + BASE_NS_ERR = Interval
    BY DEF BASE_NS_ERR
  <2>. QED BY <2>1 DEF expected_err_at_next_calibration
<1>. DEFINE p == s * Interval
            x == i64_div(p, Interval)
<1>2. p \in Int /\ p = Interval * s
  OBVIOUS
<1>3. x \in Int /\ p - Interval * x < Interval /\ Interval * x - p < Interval
  <2>. HIDE DEF p
  <2>. QED BY <1>2, TruncatedDivision
<1>. HIDE DEF x, p
<1>4. x = s
  BY <1>2, <1>3, SameMultiple
<1>. QED BY <1>1, <1>4 DEF x, p

(* No later correction reduces the error: every second calibration meets   *)
(* it with the opposite sign, whatever the interval and the wait.          *)
THEOREM ErrorAlternates == Spec => ErrorComesBack
<1>1. ASSUME IndInv, CalibrateAdjust, calibrations >= 1
      PROVE  NextError' = -base_err - 2 * noise
  <2>. DEFINE T == InitTicks
              F == drift \div T
              n == noise
              s == Error + n
              y == expected_err_at_next_calibration(s)
  <2>1. /\ since = Interval /\ base_err \in Int /\ drift \in Int /\ T \in Nat \ {0}
        /\ drift' = drift - T * y /\ base_err' = Error
    BY <1>1, TicksFacts DEF IndInv, TypeInv, CalibrateAdjust
  <2>2. n \in Int
    BY <1>1, NoiseFacts DEF IndInv, TypeInv, ReadsOK
  <2>3. F \in Int
    BY <2>1, DivMod
  <2>4. Error = base_err + F
    <3>1. (drift * since) \div (InitTicks * Interval) = F
      BY <2>1, TicksFacts, DivCancel
    <3>. QED BY <3>1 DEF Error
  <2>5. s \in Int
    <3>. HIDE DEF F, n
    <3>. QED BY <2>1, <2>2, <2>3, <2>4
  <2>6. y = 2 * s
    <3>. HIDE DEF s
    <3>. QED BY <2>1, <2>5, Doubled
  <2>7. s = base_err + F + n
    <3>. HIDE DEF F, n
    <3>. QED BY <2>1, <2>2, <2>3, <2>4
  <2>8. NextError' = base_err' + drift' \div T
    BY DEF NextError
  <2>. HIDE DEF T, F, n, s, y
  <2>9. -y \in Int /\ drift' = drift + (-y) * T
    BY <2>1, <2>5, <2>6
  <2>10. drift' \div T = F + (-y)
    <3>1. (drift + (-y) * T) \div T = drift \div T + (-y)
      BY <2>1, <2>9, DivAdd
    <3>. QED BY <2>9, <3>1 DEF F
  <2>11. base_err' = base_err + F
    BY <2>1, <2>4
  <2>12. (base_err + F) + (F + (-y)) = -base_err - 2 * n
    BY <2>1, <2>2, <2>3, <2>6, <2>7
  <2>. QED BY <2>8, <2>10, <2>11, <2>12 DEF n
<1>2. IndInv /\ [Next]_vars
        => [pc = "adjust" /\ calibrations >= 1
              => NextError' = -base_err - 2 * noise]_vars
  BY <1>1 DEF Next, InitBase, InitRate, NotDue, CalibrateSample, Sleep
<1>. QED BY <1>2, Invariance, PTL DEF Spec, ErrorComesBack
=============================================================================
