------------------------------ MODULE ModLemmas ------------------------------
(***************************************************************************)
(* Remainders, as the ring buffers use them: the slot of an index and the  *)
(* wrap-around of an index are remainders of positions by a length.        *)
(***************************************************************************)
EXTENDS Integers, TLAPS

(* A remainder lies between 0 and the divisor. *)
LEMMA ModRange ==
  ASSUME NEW n \in Nat \ {0}, NEW x \in Int
  PROVE  x % n \in 0 .. n - 1
OBVIOUS

(* The two defining facts of quotient and remainder. *)
LEMMA DivMod ==
  ASSUME NEW n \in Nat \ {0}, NEW x \in Int
  PROVE  x \div n \in Int /\ x = n * (x \div n) + (x % n)
OBVIOUS

(* Two multiples of n that are less than n apart are equal. *)
LEMMA SameMultiple ==
  ASSUME NEW n \in Nat \ {0}, NEW p \in Int, NEW q \in Int,
         n * p - n * q < n, n * q - n * p < n
  PROVE  p = q
<1>1. CASE p > q
  <2>1. p - q >= 1
    BY <1>1
  <2>2. n * (p - q) >= n
    BY <2>1
  <2>. QED BY <2>2
<1>2. CASE p < q
  <2>1. q - p >= 1
    BY <1>2
  <2>2. n * (q - p) >= n
    BY <2>1
  <2>. QED BY <2>2
<1>. QED BY <1>1, <1>2

(* A quotient and a remainder determine each other. *)
LEMMA ModUnique ==
  ASSUME NEW n \in Nat \ {0}, NEW x \in Int, NEW q \in Int, NEW r \in 0 .. n - 1,
         x = n * q + r
  PROVE  x % n = r
<1>1. x \div n \in Int /\ x = n * (x \div n) + (x % n) /\ x % n \in 0 .. n - 1
  BY DivMod, ModRange
<1>. DEFINE d == x \div n
            m == x % n
<1>2. d \in Int /\ m \in 0 .. n - 1 /\ n * d + m = n * q + r
  BY <1>1
<1>. HIDE DEF d, m
<1>3. n * d \in Int /\ n * q \in Int
  BY <1>2
<1>4. n * d - n * q < n /\ n * q - n * d < n
  BY <1>2, <1>3
<1>5. d = q
  BY <1>2, <1>4, SameMultiple
<1>6. m = r
  BY <1>2, <1>5
<1>. QED BY <1>6 DEF m

(* Below the divisor nothing wraps. *)
LEMMA ModSmall ==
  ASSUME NEW n \in Nat \ {0}, NEW x \in Nat, x < n
  PROVE  x % n = x
<1>1. x = n * 0 + x /\ x \in 0 .. n - 1
  OBVIOUS
<1>. QED BY <1>1, ModUnique

(* Just below zero the result counts down from the divisor. *)
LEMMA ModNegative ==
  ASSUME NEW n \in Nat \ {0}, NEW x \in Int, -n <= x, x < 0
  PROVE  x % n = x + n
<1>1. x = n * (-1) + (x + n) /\ x + n \in 0 .. n - 1
  OBVIOUS
<1>. QED BY <1>1, ModUnique

(* Inside one round of the ring, slots advance with indices. *)
LEMMA ModStep ==
  ASSUME NEW n \in Nat \ {0}, NEW x \in Nat, NEW k \in Nat, (x % n) + k < n
  PROVE  (x + k) % n = (x % n) + k
<1>. DEFINE d == x \div n
            m == x % n
<1>1. d \in Int /\ m \in 0 .. n - 1 /\ x = n * d + m
  BY DivMod, ModRange
<1>2. m + k < n
  OBVIOUS
<1>. HIDE DEF d, m
<1>3. x + k = n * d + (m + k) /\ m + k \in 0 .. n - 1
  BY <1>1, <1>2
<1>4. (x + k) % n = m + k
  BY <1>1, <1>3, ModUnique
<1>. QED BY <1>4 DEF m

(* The next multiple of the divisor is the start of the ring. *)
LEMMA ModNext ==
  ASSUME NEW n \in Nat \ {0}, NEW x \in Nat
  PROVE  (x + (n - (x % n))) % n = 0
<1>. DEFINE d == x \div n
            m == x % n
<1>1. d \in Int /\ m \in 0 .. n - 1 /\ x = n * d + m
  BY DivMod, ModRange
<1>. HIDE DEF d, m
<1>2. x + (n - m) = n * (d + 1) + 0
  BY <1>1
<1>3. d + 1 \in Int /\ 0 \in 0 .. n - 1 /\ x + (n - m) \in Int
  BY <1>1
<1>4. (x + (n - m)) % n = 0
  BY <1>2, <1>3, ModUnique
<1>. QED BY <1>4 DEF m

(* Indices less than one round apart have different slots. *)
LEMMA ModDistinct ==
  ASSUME NEW n \in Nat \ {0}, NEW x \in Nat, NEW y \in Nat, x < y, y - x < n
  PROVE  x % n # y % n
<1>. SUFFICES ASSUME x % n = y % n
              PROVE  FALSE
  OBVIOUS
<1>. DEFINE d == x \div n
            e == y \div n
            m == x % n
<1>1. /\ d \in Int /\ e \in Int /\ m \in 0 .. n - 1
      /\ x = n * d + m /\ y = n * e + m
  BY DivMod, ModRange
<1>. HIDE DEF d, e, m
<1>2. n * d \in Int /\ n * e \in Int
  BY <1>1
<1>3. n * d - n * e < n /\ n * e - n * d < n
  BY <1>1, <1>2
<1>4. d = e
  BY <1>1, <1>3, SameMultiple
<1>. QED BY <1>1, <1>4
=============================================================================
