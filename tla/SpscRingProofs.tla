--------------------------- MODULE SpscRingProofs ---------------------------
(***************************************************************************)
(* Proofs about SpscRing for every capacity and every range of the         *)
(* indices: they wrap for ever.                                            *)
(***************************************************************************)
EXTENDS SpscRing, ModLemmas

-----------------------------------------------------------------------------
(* The capacity.                                                           *)

Powers ==
  {1, 2, 4, 8, 16, 32, 64, 128, 256, 512, 1024, 2048, 4096, 8192, 16384, 32768,
   65536, 131072, 262144, 524288, 1048576}

LEMMA PowersListed == Pow2 = Powers
<1>. DEFINE pw(k) == 2 ^ k
<1>1. /\ pw(0) = 1 /\ pw(1) = 2 /\ pw(2) = 4 /\ pw(3) = 8
      /\ pw(4) = 16 /\ pw(5) = 32 /\ pw(6) = 64 /\ pw(7) = 128
      /\ pw(8) = 256 /\ pw(9) = 512 /\ pw(10) = 1024 /\ pw(11) = 2048
      /\ pw(12) = 4096 /\ pw(13) = 8192 /\ pw(14) = 16384 /\ pw(15) = 32768
      /\ pw(16) = 65536 /\ pw(17) = 131072 /\ pw(18) = 262144 /\ pw(19) = 524288
      /\ pw(20) = 1048576
  OBVIOUS
<1>2. Pow2 = {pw(k) : k \in 0 .. 20}
  BY DEF Pow2
<1>. HIDE DEF pw
<1>3. \A k \in 0 .. 20 :
        \/ k = 0 \/ k = 1 \/ k = 2 \/ k = 3 \/ k = 4 \/ k = 5 \/ k = 6
        \/ k = 7 \/ k = 8 \/ k = 9 \/ k = 10 \/ k = 11 \/ k = 12 \/ k = 13
        \/ k = 14 \/ k = 15 \/ k = 16 \/ k = 17 \/ k = 18 \/ k = 19 \/ k = 20
  OBVIOUS
<1>4. Pow2 \subseteq Powers
  BY <1>1, <1>2, <1>3, SMT DEF Powers
<1>5. Powers \subseteq Pow2
  BY <1>1, <1>2, SMT DEF Powers
<1>. QED BY <1>4, <1>5

(* ring_buffer's rounding finds a power of two, and it is no less than     *)
(* what was asked for.                                                     *)
LEMMA CapacityFacts ==
  Capacity \in Nat \ {0} /\ capacity <= Capacity /\ Slots = 0 .. Capacity - 1
<1>. DEFINE P(p) == p >= capacity /\ \A q \in Pow2 : q >= capacity => p <= q
<1>1. capacity \in Nat /\ capacity <= 1048576
  BY CapacityAssumption, SMT
<1>2. \E p \in Powers : p >= capacity /\ \A q \in Powers : q >= capacity => p <= q
  BY <1>1, SMT DEF Powers
<1>3. \E p \in Pow2 : P(p)
  BY <1>2, PowersListed
<1>4. Capacity \in Pow2 /\ P(Capacity)
  <2>. HIDE DEF P
  <2>1. Capacity = CHOOSE p \in Pow2 : P(p)
    BY DEF Capacity, P
  <2>. QED BY <1>3, <2>1
<1>5. \A p \in Powers : p \in Nat \ {0}
  BY SMT DEF Powers
<1>. QED BY <1>1, <1>4, <1>5, PowersListed DEF Slots, mask

-----------------------------------------------------------------------------
(* Indices.                                                                *)

LEMMA IdxFacts ==
  /\ Capacity \in Nat \ {0} /\ IDX_MOD \in Nat \ {0} /\ Capacity < IDX_MOD
  /\ Idx = 0 .. IDX_MOD - 1 /\ Slots = 0 .. Capacity - 1 /\ mask = Capacity - 1
BY CapacityFacts, IdxModAssumption DEF Idx, mask

(* Subtraction wraps once. *)
LEMMA WrappingSub ==
  ASSUME NEW i \in Idx, NEW c \in Idx
  PROVE  /\ wrapping_sub(i, c) = IF i >= c THEN i - c ELSE i - c + IDX_MOD
         /\ wrapping_sub(i, c) \in Nat /\ wrapping_sub(i, c) < IDX_MOD
<1>. USE IdxFacts
<1>1. CASE i >= c
  <2>1. i - c \in Nat /\ i - c < IDX_MOD
    BY <1>1
  <2>2. (i - c) % IDX_MOD = i - c
    BY <2>1, ModSmall
  <2>. QED BY <1>1, <2>1, <2>2 DEF wrapping_sub
<1>2. CASE i < c
  <2>1. i - c \in Int /\ -IDX_MOD <= i - c /\ i - c < 0
    BY <1>2
  <2>2. (i - c) % IDX_MOD = i - c + IDX_MOD
    BY <2>1, ModNegative
  <2>. QED BY <1>2, <2>1, <2>2 DEF wrapping_sub
<1>. QED BY <1>1, <1>2

(* An index is a natural number below IDX_MOD, and conversely. *)
LEMMA IdxIs == \A i : i \in Idx <=> i \in Nat /\ i < IDX_MOD
BY IdxFacts

(* Addition of less than a whole range wraps once, too. *)
LEMMA WrappingAdd ==
  ASSUME NEW i \in Idx, NEW k \in Nat, k < IDX_MOD
  PROVE  /\ wrapping_add(i, k) = IF i + k < IDX_MOD THEN i + k ELSE i + k - IDX_MOD
         /\ wrapping_add(i, k) \in Idx
<1>1. i \in Nat /\ i < IDX_MOD /\ IDX_MOD \in Nat \ {0}
  BY IdxIs, IdxFacts
<1>2. CASE i + k < IDX_MOD
  <2>1. i + k \in Nat
    BY <1>1
  <2>2. (i + k) % IDX_MOD = i + k
    BY <1>1, <1>2, <2>1, ModSmall
  <2>. QED BY <1>2, <2>1, <2>2, IdxIs DEF wrapping_add
<1>3. CASE ~(i + k < IDX_MOD)
  <2>. DEFINE r == i + k - IDX_MOD
  <2>1. i + k = IDX_MOD * 1 + r /\ i + k \in Int /\ r \in 0 .. IDX_MOD - 1
    BY <1>1, <1>3
  <2>2. r \in Nat /\ r < IDX_MOD
    BY <1>1, <1>3
  <2>. HIDE DEF r
  <2>3. (i + k) % IDX_MOD = r
    BY <1>1, <2>1, ModUnique
  <2>4. wrapping_add(i, k) = r /\ r \in Idx
    BY <2>2, <2>3, IdxIs DEF wrapping_add
  <2>. QED BY <1>3, <2>4 DEF r
<1>. QED BY <1>2, <1>3

(* A whole range of indices is a number of whole rings. *)
LEMMA SlotOfNextRound ==
  ASSUME NEW i \in Nat
  PROVE  (i + IDX_MOD) % Capacity = i % Capacity
<1>. DEFINE n == IDX_MOD \div Capacity
            q == i \div Capacity
            r == i % Capacity
<1>0. Capacity \in Nat \ {0} /\ i \in Int /\ IDX_MOD \in Int
  BY IdxFacts
<1>1. n \in Int /\ IDX_MOD = Capacity * n
  <2>1. n \in Int /\ IDX_MOD = Capacity * n + (IDX_MOD % Capacity)
    BY <1>0, DivMod
  <2>. HIDE DEF n
  <2>2. Capacity * n \in Int
    BY <1>0, <2>1
  <2>. QED BY <2>1, <2>2, IdxModAssumption
<1>2. q \in Int /\ i = Capacity * q + r
  BY <1>0, DivMod
<1>3. r \in 0 .. Capacity - 1
  BY <1>0, ModRange
<1>. HIDE DEF n, q, r
<1>4. i + IDX_MOD = Capacity * (q + n) + r /\ q + n \in Int /\ i + IDX_MOD \in Int
  BY <1>0, <1>1, <1>2, <1>3
<1>5. (i + IDX_MOD) % Capacity = r
  BY <1>0, <1>3, <1>4, ModUnique
<1>. QED BY <1>5 DEF r

(* The slot of an index, seen from another index. *)
LEMMA SlotAhead ==
  ASSUME NEW i \in Idx, NEW c \in Idx
  PROVE  Slot(i) = (c + wrapping_sub(i, c)) % Capacity /\ Slot(i) \in Slots
<1>1. i \in Nat /\ i \in Int /\ c \in Nat /\ IDX_MOD \in Nat /\ Capacity \in Nat \ {0}
  BY IdxIs, IdxFacts
<1>2. wrapping_sub(i, c) = IF i >= c THEN i - c ELSE i - c + IDX_MOD
  BY WrappingSub
<1>3. c + wrapping_sub(i, c) = i \/ c + wrapping_sub(i, c) = i + IDX_MOD
  BY <1>1, <1>2
<1>4. i % Capacity \in 0 .. Capacity - 1
  BY <1>1, ModRange
<1>5. i % Capacity \in Slots
  BY <1>4, IdxFacts
<1>. QED BY <1>1, <1>3, <1>5, SlotOfNextRound DEF Slot

(* Two indices less than a ring apart have different slots. *)
LEMMA SlotsDiffer ==
  ASSUME NEW i \in Idx, NEW j \in Idx, NEW c \in Idx,
         wrapping_sub(i, c) < wrapping_sub(j, c), wrapping_sub(j, c) < Capacity
  PROVE  Slot(i) # Slot(j)
<1>. DEFINE a == wrapping_sub(i, c)
            b == wrapping_sub(j, c)
<1>1. a \in Nat /\ b \in Nat /\ c \in Nat /\ Capacity \in Nat \ {0}
  BY WrappingSub, IdxIs, IdxFacts
<1>2. Slot(i) = (c + a) % Capacity /\ Slot(j) = (c + b) % Capacity
  BY SlotAhead
<1>3. a < b /\ b < Capacity
  OBVIOUS
<1>. HIDE DEF a, b
<1>4. c + a \in Nat /\ c + b \in Nat /\ c + a < c + b /\ (c + b) - (c + a) < Capacity
  BY <1>1, <1>3
<1>. QED BY <1>1, <1>2, <1>4, ModDistinct

(* The index k places after i is k further ahead, within the range. *)
LEMMA AheadAdd ==
  ASSUME NEW i \in Idx, NEW c \in Idx, NEW k \in Nat, wrapping_sub(i, c) + k < IDX_MOD
  PROVE  /\ wrapping_add(i, k) \in Idx
         /\ wrapping_sub(wrapping_add(i, k), c) = wrapping_sub(i, c) + k
<1>. DEFINE n == wrapping_add(i, k)
<1>1. i \in Nat /\ i < IDX_MOD /\ c \in Nat /\ c < IDX_MOD /\ IDX_MOD \in Nat
  BY IdxIs, IdxFacts
<1>2. wrapping_sub(i, c) = IF i >= c THEN i - c ELSE i - c + IDX_MOD
  BY WrappingSub
<1>3. k < IDX_MOD
  BY <1>1, <1>2
<1>4. n \in Idx /\ n = IF i + k < IDX_MOD THEN i + k ELSE i + k - IDX_MOD
  BY <1>3, WrappingAdd
<1>. HIDE DEF n
<1>5. wrapping_sub(n, c) = IF n >= c THEN n - c ELSE n - c + IDX_MOD
  BY <1>4, WrappingSub
<1>6. wrapping_sub(n, c) = wrapping_sub(i, c) + k
  BY <1>1, <1>2, <1>4, <1>5
<1>. QED BY <1>4, <1>6 DEF n

(* Different indices are differently far ahead. *)
LEMMA AheadInjective ==
  ASSUME NEW i \in Idx, NEW j \in Idx, NEW c \in Idx, wrapping_sub(i, c) = wrapping_sub(j, c)
  PROVE  i = j
<1>1. /\ i \in Int /\ 0 <= i /\ i < IDX_MOD /\ j \in Int /\ 0 <= j /\ j < IDX_MOD
      /\ c \in Int /\ 0 <= c /\ c < IDX_MOD /\ IDX_MOD \in Int
  BY IdxIs, IdxFacts
<1>2. i - c = wrapping_sub(i, c) \/ i - c = wrapping_sub(i, c) - IDX_MOD
  BY <1>1, WrappingSub
<1>3. j - c = wrapping_sub(i, c) \/ j - c = wrapping_sub(i, c) - IDX_MOD
  BY <1>1, WrappingSub
<1>4. wrapping_sub(i, c) \in Int
  BY WrappingSub
<1>. HIDE DEF wrapping_sub
<1>5. i - j = 0 \/ i - j = IDX_MOD \/ j - i = IDX_MOD
  BY <1>1, <1>2, <1>3, <1>4
<1>. QED BY <1>1, <1>5

(* Moving the point of view from c to d shortens the distances by that of  *)
(* d, and what was nearer than d is then almost a whole range ahead.       *)
LEMMA AheadShift ==
  ASSUME NEW i \in Idx, NEW c \in Idx, NEW d \in Idx
  PROVE  wrapping_sub(i, d) = IF wrapping_sub(d, c) <= wrapping_sub(i, c)
                              THEN wrapping_sub(i, c) - wrapping_sub(d, c)
                              ELSE wrapping_sub(i, c) - wrapping_sub(d, c) + IDX_MOD
<1>1. wrapping_sub(i, c) = IF i >= c THEN i - c ELSE i - c + IDX_MOD
  BY WrappingSub
<1>2. wrapping_sub(d, c) = IF d >= c THEN d - c ELSE d - c + IDX_MOD
  BY WrappingSub
<1>3. wrapping_sub(i, d) = IF i >= d THEN i - d ELSE i - d + IDX_MOD
  BY WrappingSub
<1>4. i \in Nat /\ i < IDX_MOD /\ c \in Nat /\ c < IDX_MOD /\ IDX_MOD \in Nat
      /\ d \in Nat /\ d < IDX_MOD
  BY IdxIs, IdxFacts
<1>. QED BY <1>1, <1>2, <1>3, <1>4

-----------------------------------------------------------------------------
(* The invariant.                                                          *)

(* What the invariant says about the distances, for the steps below. *)
LEMMA Distances ==
  ASSUME IndInv
  PROVE  /\ \A i \in Idx : Ahead(i) \in Nat /\ Ahead(i) < IDX_MOD
         /\ Ahead(head) <= Ahead(cached_tail) /\ Ahead(cached_tail) <= Ahead(tail)
         /\ Ahead(tail) <= Capacity /\ Capacity < IDX_MOD
         /\ Capacity \in Nat /\ IDX_MOD \in Nat
BY WrappingSub, IdxFacts DEF IndInv, TypeOK, Order, Ahead

LEMMA InitInv == Init => IndInv
<1>. SUFFICES ASSUME Init PROVE IndInv
  OBVIOUS
<1>1. 0 \in Idx /\ Capacity \in Nat \ {0}
  BY IdxIs, IdxFacts
<1>2. wrapping_sub(0, 0) = 0
  BY <1>1, WrappingSub
<1>3. TypeOK
  BY <1>1 DEF Init, TypeOK
<1>4. Order
  BY <1>1, <1>2 DEF Init, Order, Ahead
<1>5. Held
  BY <1>1, <1>2, WrappingSub DEF Init, Held, Ahead
<1>. QED BY <1>3, <1>4, <1>5 DEF IndInv

(* The steps that only move a program counter. *)
LEMMA ControlInv ==
  ASSUME IndInv, SendRegMsg \/ (\E r \in BOOLEAN : Push(r)) \/ RecvRegMsg \/ ParkTimeout
  PROVE  IndInv'
<1>1. /\ UNCHANGED <<buffer, tail, head, local_tail, cached_head, local_head, cached_tail>>
      /\ cpc' = "take" => cpc = "take"
      /\ ppc' = "publish" => ppc = "publish"
      /\ ppc' = "write" => ppc = "write" \/ ~Full(local_tail, cached_head)
  BY DEF SendRegMsg, Push, RecvRegMsg, ParkTimeout, producer, consumer
<1>2. TypeOK'
  BY <1>1 DEF IndInv, TypeOK, SendRegMsg, Push, RecvRegMsg, ParkTimeout, producer, consumer
<1>3. \A i : Ahead(i)' = wrapping_sub(i, cached_head)
  BY <1>1 DEF Ahead
<1>4. Order'
  BY <1>1 DEF IndInv, Order, Ahead
<1>5. ~Full(local_tail, cached_head) => Ahead(tail) < Capacity
  BY Distances, IdxFacts DEF Full, IndInv, TypeOK, Order, Ahead
<1>6. Held'
  BY <1>1, <1>5 DEF IndInv, Held, Ahead
<1>. QED BY <1>2, <1>4, <1>6 DEF IndInv

LEMMA RefreshHeadInv == IndInv /\ RefreshHead => IndInv'
<1>. SUFFICES ASSUME IndInv, RefreshHead PROVE IndInv'
  OBVIOUS
<1>1. TypeOK'
  BY DEF IndInv, TypeOK, RefreshHead, consumer
<1>2. UNCHANGED <<buffer, tail, head, local_tail, local_head, cached_tail, cpc>> /\ cached_head' = head
  BY DEF RefreshHead, consumer
<1>. DEFINE New(i) == wrapping_sub(i, head)
<1>3. \A i \in Idx : New(i) = IF Ahead(head) <= Ahead(i)
                              THEN Ahead(i) - Ahead(head)
                              ELSE Ahead(i) - Ahead(head) + IDX_MOD
  BY AheadShift DEF Ahead, IndInv, TypeOK
<1>4. head \in Idx /\ tail \in Idx /\ cached_tail \in Idx
  BY DEF IndInv, TypeOK
<1>5. Ahead(head)' = New(head) /\ Ahead(tail)' = New(tail) /\ Ahead(cached_tail)' = New(cached_tail)
  BY <1>2 DEF Ahead
<1>6. ~Full(local_tail, head) => New(tail) < Capacity
  <2>1. local_tail = tail /\ mask = Capacity - 1 /\ Capacity \in Nat /\ New(tail) \in Nat
    BY <1>4, WrappingSub, IdxFacts DEF IndInv, Order
  <2>2. Full(local_tail, head) <=> New(tail) > mask
    BY <2>1 DEF Full
  <2>. QED BY <2>1, <2>2
<1>. HIDE DEF New
<1>7. /\ New(head) = 0 /\ New(head) <= New(cached_tail) /\ New(cached_tail) <= New(tail)
      /\ New(tail) <= Capacity
      /\ \A i \in Idx : New(i) < New(tail) => Ahead(head) <= Ahead(i) /\ Ahead(i) < Ahead(tail)
  BY <1>3, <1>4, Distances
<1>8. Order'
  BY <1>2, <1>5, <1>7 DEF IndInv, Order
<1>9. Held'
  <2>1. (ppc \in {"write", "publish"})' => New(tail) < Capacity
    BY <1>6 DEF RefreshHead
  <2>2. ppc' # "publish"
    BY DEF RefreshHead
  <2>3. \A i \in Idx : New(i) < New(tail) => buffer[Slot(i)] = i
    BY <1>7 DEF IndInv, Held
  <2>. QED BY <1>2, <2>1, <2>2, <2>3 DEF Held, Ahead, New
<1>. QED BY <1>1, <1>8, <1>9 DEF IndInv

(* Between head and tail there is no entry in the slot being written. *)
LEMMA WriteSlotInv == IndInv /\ WriteSlot => IndInv'
<1>. SUFFICES ASSUME IndInv, WriteSlot PROVE IndInv'
  OBVIOUS
<1>1. /\ UNCHANGED <<tail, head, local_tail, local_head, cached_head, cached_tail, cpc>>
      /\ local_tail = tail /\ tail \in Idx /\ cached_head \in Idx
      /\ buffer \in [Slots -> Idx \union {-1}]
      /\ buffer' = [buffer EXCEPT ![Slot(tail)] = tail]
  BY DEF IndInv, TypeOK, Order, WriteSlot, consumer
<1>2. Slot(tail) \in Slots
  BY <1>1, SlotAhead
<1>3. TypeOK'
  BY <1>1, <1>2 DEF IndInv, TypeOK, WriteSlot, consumer
<1>4. Order'
  BY <1>1 DEF IndInv, Order, Ahead
<1>5. Ahead(tail) < Capacity
  BY DEF IndInv, Held, WriteSlot
<1>6. ASSUME NEW i \in Idx, Ahead(head) <= Ahead(i), Ahead(i) < Ahead(tail)
      PROVE  buffer'[Slot(i)] = i
  <2>1. Slot(i) # Slot(tail)
    BY <1>1, <1>5, <1>6, SlotsDiffer DEF Ahead
  <2>2. Slot(i) \in Slots
    BY <1>1, SlotAhead
  <2>3. buffer[Slot(i)] = i
    BY <1>6 DEF IndInv, Held
  <2>. QED BY <1>1, <2>1, <2>2, <2>3
<1>7. buffer'[Slot(tail)] = tail
  BY <1>1, <1>2
<1>8. Held'
  BY <1>1, <1>5, <1>6, <1>7 DEF Held, Ahead
<1>. QED BY <1>3, <1>4, <1>8 DEF IndInv

LEMMA PublishTailInv == IndInv /\ PublishTail => IndInv'
<1>. SUFFICES ASSUME IndInv, PublishTail PROVE IndInv'
  OBVIOUS
<1>1. /\ UNCHANGED <<buffer, head, local_head, cached_head, cached_tail, cpc>>
      /\ tail' = wrapping_add(tail, 1) /\ local_tail' = tail' /\ ppc' = "idle"
      /\ head \in Idx /\ tail \in Idx /\ cached_head \in Idx /\ cached_tail \in Idx
      /\ buffer[Slot(tail)] = tail /\ Ahead(tail) < Capacity
  BY DEF IndInv, TypeOK, Order, Held, PublishTail, consumer
<1>2. wrapping_sub(tail, cached_head) + 1 < IDX_MOD
  BY <1>1, Distances DEF Ahead
<1>3. tail' \in Idx /\ wrapping_sub(tail', cached_head) = Ahead(tail) + 1
  BY <1>1, <1>2, AheadAdd DEF Ahead
<1>4. TypeOK'
  BY <1>1, <1>3 DEF IndInv, TypeOK, PublishTail, consumer
<1>5. Ahead(tail)' = Ahead(tail) + 1
  BY <1>1, <1>3 DEF Ahead
<1>6. Order'
  <2>1. Ahead(cached_tail)' = Ahead(cached_tail) /\ Ahead(head)' = Ahead(head)
    BY <1>1 DEF Ahead
  <2>. QED BY <1>1, <1>5, <2>1, Distances DEF IndInv, Order
<1>7. ASSUME NEW i \in Idx, Ahead(head) <= Ahead(i), Ahead(i) < Ahead(tail) + 1
      PROVE  buffer[Slot(i)] = i
  <2>1. CASE Ahead(i) < Ahead(tail)
    BY <1>7, <2>1 DEF IndInv, Held
  <2>2. CASE ~(Ahead(i) < Ahead(tail))
    <3>1. Ahead(i) = Ahead(tail)
      BY <1>1, <1>7, <2>2, Distances
    <3>2. i = tail
      BY <1>1, <3>1, AheadInjective DEF Ahead
    <3>. QED BY <1>1, <3>2
  <2>. QED BY <2>1, <2>2
<1>8. Held'
  BY <1>1, <1>3, <1>7 DEF Held, Ahead
<1>. QED BY <1>4, <1>6, <1>8 DEF IndInv

LEMMA PopLookInv == IndInv /\ PopLook => IndInv'
<1>. SUFFICES ASSUME IndInv, PopLook PROVE IndInv'
  OBVIOUS
<1>1. /\ UNCHANGED <<buffer, head, tail, local_tail, local_head, cached_head, ppc>>
      /\ cached_tail' \in {tail, cached_tail}
      /\ cpc' = "take" => head # cached_tail'
  BY DEF IndInv, Order, PopLook, producer
<1>2. TypeOK'
  BY <1>1 DEF IndInv, TypeOK, PopLook, producer
<1>3. Order'
  <2>1. Ahead(tail)' = Ahead(tail) /\ Ahead(head)' = Ahead(head)
        /\ Ahead(cached_tail)' \in {Ahead(tail), Ahead(cached_tail)}
    BY <1>1 DEF Ahead
  <2>2. Ahead(tail) \in Nat /\ Ahead(head) \in Nat /\ Ahead(cached_tail) \in Nat
    BY Distances DEF IndInv, TypeOK
  <2>3. Ahead(head) <= Ahead(tail)
    BY <2>2, Distances
  <2>. QED BY <1>1, <2>1, <2>2, <2>3, Distances DEF IndInv, Order
<1>4. Held'
  BY <1>1 DEF IndInv, Held, Ahead
<1>. QED BY <1>2, <1>3, <1>4 DEF IndInv

(* Where pop takes an entry there is one. *)
LEMMA TakeNotEmpty ==
  ASSUME IndInv, cpc = "take"
  PROVE  Ahead(head) < Ahead(cached_tail)
<1>1. head \in Idx /\ cached_tail \in Idx /\ cached_head \in Idx /\ head # cached_tail
  BY DEF IndInv, TypeOK, Order
<1>2. Ahead(head) # Ahead(cached_tail)
  BY <1>1, AheadInjective DEF Ahead
<1>. QED BY <1>1, <1>2, Distances

LEMMA PopTakeInv == IndInv /\ PopTake => IndInv'
<1>. SUFFICES ASSUME IndInv, PopTake PROVE IndInv'
  OBVIOUS
<1>1. /\ UNCHANGED <<buffer, tail, local_tail, cached_head, cached_tail, ppc>>
      /\ head' = wrapping_add(head, 1) /\ local_head' = head' /\ cpc = "take" /\ cpc' = "pop"
      /\ head \in Idx /\ tail \in Idx /\ cached_head \in Idx /\ cached_tail \in Idx
  BY DEF IndInv, TypeOK, Order, PopTake, producer
<1>2. Ahead(head) < Ahead(cached_tail)
  BY <1>1, TakeNotEmpty
<1>3. wrapping_sub(head, cached_head) + 1 < IDX_MOD
  <2>1. Ahead(head) \in Nat /\ Ahead(cached_tail) \in Nat /\ Ahead(cached_tail) < IDX_MOD
    BY <1>1, Distances
  <2>2. Ahead(head) + 1 < IDX_MOD
    BY <1>2, <2>1, Distances
  <2>. QED BY <2>2 DEF Ahead
<1>4. head' \in Idx /\ wrapping_sub(head', cached_head) = Ahead(head) + 1
  BY <1>1, <1>3, AheadAdd DEF Ahead
<1>5. TypeOK'
  BY <1>1, <1>4 DEF IndInv, TypeOK, PopTake, producer
<1>6. Ahead(head)' = Ahead(head) + 1
  BY <1>1, <1>4 DEF Ahead
<1>7. Order'
  <2>1. Ahead(cached_tail)' = Ahead(cached_tail) /\ Ahead(tail)' = Ahead(tail)
    BY <1>1 DEF Ahead
  <2>. QED BY <1>1, <1>2, <1>6, <2>1, Distances DEF IndInv, Order
<1>8. Held'
  <2>1. \A i \in Idx : Ahead(head) + 1 <= Ahead(i) => Ahead(head) <= Ahead(i)
    BY <1>1, Distances
  <2>. QED BY <1>1, <1>4, <2>1 DEF IndInv, Held, Ahead
<1>. QED BY <1>5, <1>7, <1>8 DEF IndInv

LEMMA NextInv == IndInv /\ [Next]_vars => IndInv'
<1>1. IndInv /\ UNCHANGED vars => IndInv'
  BY DEF IndInv, TypeOK, Order, Held, Ahead, vars, producer, consumer
<1>. QED
  BY <1>1, ControlInv, RefreshHeadInv, WriteSlotInv, PublishTailInv, PopLookInv, PopTakeInv
     DEF Next, ProducerStep, ConsumerStep

(* Seen from the producer's copy of head, the consumer's indices and the   *)
(* tail keep their order through every wrap-around, and every entry        *)
(* between them is in its slot.                                            *)
THEOREM Invariance == Spec => []IndInv
BY InitInv, NextInv, PTL DEF Spec

(* Every index stays in its range and every program counter in its set. *)
THEOREM TypeCorrect == Spec => []TypeOK
<1>1. IndInv => TypeOK
  BY DEF IndInv
<1>. QED BY <1>1, Invariance, PTL

(* No entry is lost or overwritten before it is popped, for every capacity *)
(* and every range of the indices: the stale copies of head and tail are   *)
(* safe.                                                                   *)
THEOREM NothingOverwritten == Spec => []EntriesHeld
<1>1. IndInv => EntriesHeld
  <2>. SUFFICES ASSUME IndInv PROVE EntriesHeld
    OBVIOUS
  <2>. DEFINE a == Ahead(head)
              t == Ahead(tail)
  <2>1. /\ head \in Idx /\ tail \in Idx /\ cached_head \in Idx /\ local_head = head
        /\ a = wrapping_sub(head, cached_head)
    BY DEF IndInv, TypeOK, Order, Ahead
  <2>2. a \in Nat /\ t \in Nat /\ a <= t /\ t < IDX_MOD /\ IDX_MOD \in Nat
    <3>1. Ahead(cached_tail) \in Nat
      BY Distances DEF IndInv, TypeOK
    <3>. QED BY <2>1, <3>1, Distances
  <2>3. wrapping_sub(tail, head) = t - a
    BY <2>1, <2>2, AheadShift DEF Ahead
  <2>. HIDE DEF a, t
  <2>4. ASSUME NEW k \in 0 .. wrapping_sub(tail, head) - 1
        PROVE  /\ wrapping_add(head, k) \in Idx
               /\ Ahead(wrapping_add(head, k)) = a + k
               /\ k \in Nat /\ a + k < t
    <3>1. k \in Nat /\ a + k < t
      BY <2>2, <2>3
    <3>2. wrapping_sub(head, cached_head) + k < IDX_MOD
      BY <2>1, <2>2, <3>1
    <3>3. /\ wrapping_add(head, k) \in Idx
          /\ wrapping_sub(wrapping_add(head, k), cached_head) = wrapping_sub(head, cached_head) + k
      BY <2>1, <3>1, <3>2, AheadAdd
    <3>. QED BY <2>1, <3>1, <3>3 DEF Ahead
  <2>5. \A i \in Pending : buffer[Slot(i)] = i
    <3>1. \A k \in 0 .. wrapping_sub(tail, head) - 1 :
            /\ wrapping_add(head, k) \in Idx
            /\ Ahead(head) <= Ahead(wrapping_add(head, k))
            /\ Ahead(wrapping_add(head, k)) < Ahead(tail)
      BY <2>2, <2>4 DEF a, t
    <3>. QED BY <3>1 DEF Pending, IndInv, Held
  <2>6. cpc = "take" => local_head \in Pending
    <3>. SUFFICES ASSUME cpc = "take" PROVE head \in Pending
      BY <2>1
    <3>1. a < t
      <4>1. Ahead(cached_tail) \in Nat
        BY Distances DEF IndInv, TypeOK
      <4>. QED BY <2>2, <4>1, TakeNotEmpty, Distances DEF a, t
    <3>2. 0 \in 0 .. wrapping_sub(tail, head) - 1
      BY <2>2, <2>3, <3>1
    <3>3. head \in Nat /\ head < IDX_MOD /\ IDX_MOD \in Nat \ {0}
      BY <2>1, IdxIs, IdxFacts
    <3>4. wrapping_add(head, 0) = head
      BY <2>1, <3>3, WrappingAdd
    <3>. QED BY <3>2, <3>4 DEF Pending
  <2>. QED BY <2>5, <2>6 DEF EntriesHeld
<1>. QED BY <1>1, Invariance, PTL
=============================================================================
