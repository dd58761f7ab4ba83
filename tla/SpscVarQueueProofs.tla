------------------------- MODULE SpscVarQueueProofs -------------------------
(***************************************************************************)
(* Proofs about SpscVarQueue for every ring size, every index width, every *)
(* set of record sizes and every number of calls that keeps the indices    *)
(* below the sign bit (BelowSignBit); what a drained ring does is proved   *)
(* for every index.                                                        *)
(***************************************************************************)
EXTENDS SpscVarQueue, ModLemmas, Sequences

-----------------------------------------------------------------------------
(* Slots and blocks.                                                       *)

(* The block of an index lies in the ring. *)
LEMMA SlotRange ==
  ASSUME NEW i \in Nat
  PROVE  /\ Slot(i) \in Slots /\ Slot(i) \in Nat /\ Slot(i) < BLK_CNT
         /\ Pad(i) \in Nat \ {0} /\ Pad(i) <= BLK_CNT
         /\ Pad(i) = BLK_CNT - Slot(i)
<1>1. Slot(i) \in 0 .. BLK_CNT - 1
  BY BlkCntAssumption, ModRange DEF Slot
<1>. QED BY <1>1, BlkCntAssumption DEF Pad, Slots

(* Up to the end of the ring, consecutive indices have consecutive blocks. *)
LEMMA SlotStep ==
  ASSUME NEW i \in Nat, NEW k \in Nat, Slot(i) + k < BLK_CNT
  PROVE  Slot(i + k) = Slot(i) + k
BY BlkCntAssumption, ModStep DEF Slot

(* Behind the padding the ring starts over. *)
LEMMA SlotNext ==
  ASSUME NEW i \in Nat
  PROVE  Slot(i + Pad(i)) = 0
BY BlkCntAssumption, ModNext DEF Slot, Pad

(* Indices less than a ring apart have different blocks. *)
LEMMA SlotDistinct ==
  ASSUME NEW i \in Nat, NEW j \in Nat, i < j, j - i < BLK_CNT
  PROVE  Slot(i) # Slot(j)
BY BlkCntAssumption, ModDistinct DEF Slot

(* A frame with bytes takes at least one block. *)
LEMMA BlocksPositive ==
  ASSUME NEW n \in Nat
  PROVE  Blocks(n) \in Nat /\ (n # 0 => Blocks(n) # 0)
BY DEF Blocks, div_ceil, BLOCK_SIZE

LEMMA BlkSzPositive ==
  ASSUME NEW l \in Nat
  PROVE  /\ BlkSz(l) \in Nat \ {0} /\ TotalBytes(l) \in Nat \ {0}
         /\ BlkSz(l) = Blocks(TotalBytes(l))
<1>1. TotalBytes(l) \in Nat \ {0}
  BY DEF TotalBytes, MSG_HEADER_SIZE
<1>. QED BY <1>1, BlocksPositive DEF BlkSz

LEMMA IdxFacts == IDX_MOD \in Nat \ {0} /\ IDX_MOD = 2 * IDX_HALF
BY IdxAssumption, BlkCntAssumption DEF IDX_MOD

(* Below 2^32 an index does not wrap. *)
LEMMA WrapAdd ==
  ASSUME NEW x \in Nat, NEW y \in Nat, x + y < IDX_MOD
  PROVE  wrapping_add(x, y) = x + y
BY IdxFacts, ModSmall DEF wrapping_add

(***************************************************************************)
(* The room test of try_alloc, done with wrapping unsigned and then signed *)
(* 32-bit arithmetic, decides whether the blocks needed are free, as long  *)
(* as the indices stay below the sign bit.                                 *)
(***************************************************************************)
LEMMA RoomExact ==
  ASSUME BelowSignBit,
         NEW l \in PayloadLens, NEW i \in Nat, NEW r \in Nat,
         i < LastIdx, r <= i
  PROVE  HasRoom(r, i, BlkSz(l)) <=> i + Needed(i, BlkSz(l)) - r <= BLK_CNT
<1>. DEFINE b == BlkSz(l)
            n == Needed(i, b)
            v == (i + n) - BLK_CNT
<1>1. b \in Nat \ {0} /\ i + b < IDX_HALF /\ LastIdx \in Nat
  BY BlkSzPositive, LenAssumption, LastIdxAssumption, IdxAssumption DEF BelowSignBit
<1>2. n \in Nat /\ n <= b + BLK_CNT /\ b <= n
  <2>. HIDE DEF b
  <2>. QED BY <1>1, SlotRange, BlkCntAssumption DEF Needed
<1>. HIDE DEF b, n
<1>3. wrapping_add(i, n) = i + n
  <2>1. i + n < IDX_MOD
    BY <1>1, <1>2, IdxAssumption, IdxFacts, BlkCntAssumption
  <2>. QED BY <2>1, <1>2, WrapAdd
<1>4. v \in Int /\ -BLK_CNT <= v /\ v < IDX_HALF
  BY <1>1, <1>2, BlkCntAssumption, IdxAssumption
<1>5. MinReadIdx(i, b) = v % IDX_MOD
  BY <1>3 DEF MinReadIdx, wrapping_sub, n
<1>6. as_i32(MinReadIdx(i, b)) = v
  <2>. HIDE DEF v
  <2>1. CASE v >= 0
    <3>1. v % IDX_MOD = v
      BY <2>1, <1>4, IdxFacts, IdxAssumption, ModSmall
    <3>. QED BY <3>1, <2>1, <1>4, <1>5, IdxAssumption DEF as_i32
  <2>2. CASE v < 0
    <3>1. v % IDX_MOD = v + IDX_MOD
      BY <2>2, <1>4, IdxFacts, IdxAssumption, BlkCntAssumption, ModNegative
    <3>2. v + IDX_MOD >= IDX_HALF
      BY <1>4, IdxFacts, IdxAssumption, BlkCntAssumption
    <3>. QED BY <3>1, <3>2, <1>4, <1>5, IdxFacts DEF as_i32
  <2>. QED BY <2>1, <2>2, <1>4
<1>7. as_i32(r) = r
  BY <1>1, IdxAssumption DEF as_i32
<1>8. HasRoom(r, i, b) <=> ~(r < v)
  BY <1>6, <1>7 DEF HasRoom
<1>9. HasRoom(r, i, b) <=> i + n - r <= BLK_CNT
  BY <1>8, <1>1, <1>2, BlkCntAssumption
<1>. QED BY <1>9 DEF b, n

-----------------------------------------------------------------------------
(* What a step may do to the blocks of the unread frames.                  *)

(* The blocks that belong to published frames the consumer has not         *)
(* released.                                                               *)
LiveSlots == {Slot(x) : x \in read_idx .. written_idx - 1}

(* The facts about the types of the state that the steps below use. *)
LEMMA StateFacts ==
  ASSUME TypeOK
  PROVE  /\ writing_idx \in Nat /\ written_idx \in Nat /\ read_idx \in Nat
         /\ read_idx_cache \in Nat /\ write_idx \in Nat /\ end_idx \in Nat
         /\ len \in Nat /\ id \in Nat
         /\ accepted \in Nat /\ published \in Nat /\ delivered \in Nat
         /\ DOMAIN frames \subseteq Nat
         /\ \A p \in DOMAIN frames : frames[p] \in Nat
         /\ \A s \in Slots : size[s] \in Nat
BY IdxFacts, LenAssumption DEF TypeOK, Idx

(* Every block a published frame is made of is live. *)
LEMMA FrameSlotsLive ==
  ASSUME TypeOK, NoOverrun, FramesInv,
         NEW p \in DOMAIN frames \ {written_idx}
  PROVE  /\ Slot(p) \in LiveSlots
         /\ PaddingAt(p) => 0 \in LiveSlots
         /\ RecordAt(p) =>
              \A s \in Slot(p) .. Slot(p) + Blocks(size[Slot(p)]) - 1 : s \in LiveSlots
<1>1. p \in read_idx .. written_idx - 1 /\ p \in Nat /\ read_idx \in Nat /\ written_idx \in Nat
  BY StateFacts DEF FramesInv
<1>2. Slot(p) \in LiveSlots
  BY <1>1 DEF LiveSlots
<1>3. PaddingAt(p) => 0 \in LiveSlots
  <2>1. SUFFICES ASSUME PaddingAt(p) PROVE 0 \in LiveSlots
    OBVIOUS
  <2>2. p + Pad(p) \in read_idx .. written_idx - 1
    BY <2>1, <1>1, StateFacts DEF PaddingAt, FramesInv
  <2>. QED BY <2>2, <1>1, SlotNext DEF LiveSlots
<1>4. RecordAt(p) =>
        \A s \in Slot(p) .. Slot(p) + Blocks(size[Slot(p)]) - 1 : s \in LiveSlots
  <2>. SUFFICES ASSUME RecordAt(p),
                       NEW s \in Slot(p) .. Slot(p) + Blocks(size[Slot(p)]) - 1
                PROVE  s \in LiveSlots
    OBVIOUS
  <2>. DEFINE b == Blocks(size[Slot(p)])
              k == s - Slot(p)
  <2>1. Slot(p) \in Slots /\ Slot(p) \in Nat /\ b \in Nat
    BY <1>1, SlotRange, BlocksPositive, StateFacts
  <2>2. p + b \in read_idx .. written_idx /\ Slot(p) + b <= BLK_CNT
    BY DEF RecordAt, FramesInv
  <2>. HIDE DEF b
  <2>3. k \in Nat /\ k < b /\ s = Slot(p) + k
    BY <2>1 DEF b
  <2>. HIDE DEF k
  <2>4. Slot(p) + k < BLK_CNT
    BY <2>1, <2>2, <2>3, BlkCntAssumption
  <2>5. Slot(p + k) = s
    BY <2>3, <2>4, <1>1, SlotStep
  <2>6. p + k \in read_idx .. written_idx - 1
    BY <2>2, <2>3, <2>1, <1>1
  <2>. QED BY <2>5, <2>6 DEF LiveSlots
<1>. QED BY <1>2, <1>3, <1>4

(* The blocks behind written_idx, up to a ring's length from read_idx, are *)
(* not live.                                                               *)
LEMMA ApartFromLive ==
  ASSUME TypeOK, NEW x \in Nat, written_idx <= x, x - read_idx < BLK_CNT
  PROVE  Slot(x) \notin LiveSlots
<1>. SUFFICES ASSUME NEW y \in read_idx .. written_idx - 1, Slot(y) = Slot(x)
              PROVE  FALSE
  BY DEF LiveSlots
<1>1. y \in Nat /\ y < x /\ x - y < BLK_CNT
  BY StateFacts, BlkCntAssumption
<1>. QED BY <1>1, SlotDistinct

(* A step that changes neither a live block nor the frames keeps the       *)
(* frames as they are.                                                     *)
LEMMA FramesStable ==
  ASSUME TypeOK, NoOverrun, FramesInv,
         UNCHANGED <<frames, read_idx, written_idx, published>>,
         \A s \in LiveSlots : size'[s] = size[s] /\ meta'[s] = meta[s] /\ body'[s] = body[s]
  PROVE  FramesInv'
<1>1. ASSUME NEW p \in DOMAIN frames \ {written_idx}
      PROVE  (PaddingAt(p) \/ RecordAt(p))'
  <2>1. PaddingAt(p) \/ RecordAt(p)
    BY DEF FramesInv
  <2>2. CASE PaddingAt(p)
    <3>1. PaddingAt(p)'
      BY <2>2, FrameSlotsLive DEF PaddingAt
    <3>. QED BY <3>1
  <2>3. CASE RecordAt(p)
    <3>1. RecordAt(p)'
      BY <2>3, FrameSlotsLive DEF RecordAt
    <3>. QED BY <3>1
  <2>. QED BY <2>1, <2>2, <2>3
<1>. QED BY <1>1 DEF FramesInv

-----------------------------------------------------------------------------
(* The invariant holds initially and is kept by every action.              *)

LEMMA InitInv == Init => IndInv
<1>. SUFFICES ASSUME Init PROVE IndInv
  OBVIOUS
<1>1. TypeOK
  BY IdxFacts DEF Init, TypeOK, Idx, Slots
<1>2. NoOverrun /\ ProducerInv /\ ConsumerInv
  BY BlkCntAssumption DEF Init, NoOverrun, ProducerInv, ConsumerInv, Writing
<1>3. FramesInv
  BY DEF Init, FramesInv
<1>. QED BY <1>1, <1>2, <1>3 DEF IndInv

(* The producer's looks at read_idx: with room it knows how much. *)
LEMMA RoomFound ==
  ASSUME BelowSignBit, IndInv, NEW l \in PayloadLens, NEW r \in Nat,
         r <= read_idx, written_idx < LastIdx,
         HasRoom(r, written_idx, BlkSz(l))
  PROVE  /\ Rewind(written_idx, BlkSz(l)) =>
              (written_idx + Pad(written_idx)) + BlkSz(l) - read_idx <= BLK_CNT
         /\ ~Rewind(written_idx, BlkSz(l)) =>
              /\ written_idx + BlkSz(l) - read_idx <= BLK_CNT
              /\ BlkSz(l) <= Pad(written_idx)
<1>. DEFINE b == BlkSz(l)
            n == Needed(written_idx, b)
<1>1. written_idx \in Nat /\ read_idx \in Nat /\ read_idx <= written_idx /\ b \in Nat
  BY StateFacts, BlkSzPositive, LenAssumption DEF IndInv, NoOverrun
<1>2. Pad(written_idx) \in Nat
  BY <1>1, SlotRange
<1>3. r <= written_idx
  BY <1>1
<1>4. written_idx + n - r <= BLK_CNT
  BY <1>1, <1>3, RoomExact
<1>5. n = b + (IF Rewind(written_idx, b) THEN Pad(written_idx) ELSE 0)
  BY DEF Needed
<1>. HIDE DEF b, n
<1>6. n \in Nat
  BY <1>1, <1>2, <1>5
<1>7. written_idx + n - read_idx <= BLK_CNT
  BY <1>1, <1>4, <1>6, BlkCntAssumption
<1>8. ~Rewind(written_idx, b) => b <= Pad(written_idx)
  BY <1>1, <1>2 DEF Rewind
<1>9. /\ Rewind(written_idx, b) =>
              (written_idx + Pad(written_idx)) + b - read_idx <= BLK_CNT
      /\ ~Rewind(written_idx, b) =>
              /\ written_idx + b - read_idx <= BLK_CNT
              /\ b <= Pad(written_idx)
  BY <1>1, <1>2, <1>5, <1>7, <1>8, BlkCntAssumption
<1>. QED BY <1>9 DEF b

LEMMA TryAllocInv ==
  ASSUME BelowSignBit, IndInv, NEW l \in PayloadLens, TryAlloc(l)
  PROVE  IndInv'
<1>. USE DEF IndInv
<1>. USE StateFacts
<1>1. writing_idx = written_idx /\ written_idx < LastIdx /\ read_idx_cache <= read_idx
  BY DEF TryAlloc, ProducerInv
<1>2. l \in Nat /\ write_idx' = written_idx /\ len' = l
  BY <1>1, LenAssumption DEF TryAlloc
<1>3. ppc' \in {"refresh", "rewind", "reserve"}
  BY DEF TryAlloc, AfterRoom
<1>4. TypeOK'
  BY <1>1, <1>2, <1>3 DEF TryAlloc, TypeOK, ring, indices, consumer, history
<1>5. NoOverrun'
  BY DEF TryAlloc, NoOverrun, indices
<1>6. ppc' = "rewind" => HasRoom(read_idx_cache, written_idx, BlkSz(l)) /\ Rewind(written_idx, BlkSz(l))
  BY <1>1 DEF TryAlloc, AfterRoom
<1>7. ppc' = "reserve" => HasRoom(read_idx_cache, written_idx, BlkSz(l)) /\ ~Rewind(written_idx, BlkSz(l))
  BY <1>1 DEF TryAlloc, AfterRoom
<1>8. ProducerInv'
  BY <1>1, <1>2, <1>3, <1>6, <1>7, RoomFound
     DEF TryAlloc, ProducerInv, Behind, Writing, ring, indices, history
<1>9. FramesInv'
  BY FramesStable DEF TryAlloc, ring, indices, history
<1>10. ConsumerInv'
  BY DEF TryAlloc, ConsumerInv, ring, indices, consumer, history
<1>. QED BY <1>4, <1>5, <1>8, <1>9, <1>10

LEMMA RefreshCacheInv ==
  ASSUME BelowSignBit, IndInv, RefreshCache
  PROVE  IndInv'
<1>. USE DEF IndInv
<1>. USE StateFacts
<1>1. /\ writing_idx = written_idx /\ written_idx < LastIdx
      /\ write_idx = written_idx /\ len \in PayloadLens /\ read_idx_cache' = read_idx
  BY DEF RefreshCache, ProducerInv
<1>2. ppc' \in {"idle", "rewind", "reserve"}
  BY DEF RefreshCache, AfterRoom
<1>3. TypeOK'
  BY <1>1, <1>2 DEF RefreshCache, TypeOK, ring, consumer, history
<1>4. NoOverrun'
  BY DEF RefreshCache, NoOverrun
<1>5. ppc' = "rewind" => HasRoom(read_idx, written_idx, BlkSz(len)) /\ Rewind(written_idx, BlkSz(len))
  BY <1>1 DEF RefreshCache, AfterRoom
<1>6. ppc' = "reserve" => HasRoom(read_idx, written_idx, BlkSz(len)) /\ ~Rewind(written_idx, BlkSz(len))
  BY <1>1 DEF RefreshCache, AfterRoom
<1>7. ProducerInv'
  BY <1>1, <1>2, <1>5, <1>6, RoomFound
     DEF RefreshCache, ProducerInv, Behind, Writing, ring, history
<1>8. FramesInv'
  BY FramesStable DEF RefreshCache, ring, history
<1>9. ConsumerInv'
  BY DEF RefreshCache, ConsumerInv, ring, consumer, history
<1>. QED BY <1>3, <1>4, <1>7, <1>8, <1>9

LEMMA WriteRewindMarkerInv ==
  ASSUME BelowSignBit, IndInv, WriteRewindMarker
  PROVE  IndInv'
<1>. USE DEF IndInv
<1>. USE StateFacts
<1>. DEFINE b == BlkSz(len)
            w == written_idx + Pad(written_idx)
<1>1. /\ write_idx = written_idx /\ writing_idx = written_idx /\ len \in PayloadLens
      /\ written_idx < LastIdx /\ w + b - read_idx <= BLK_CNT
  BY DEF WriteRewindMarker, ProducerInv
<1>2. b \in Nat \ {0} /\ Pad(written_idx) \in Nat \ {0} /\ Pad(written_idx) <= BLK_CNT
  BY BlkSzPositive, SlotRange
<1>3. w \in Nat /\ w < IDX_MOD
  BY <1>1, <1>2, IdxFacts, IdxAssumption, BlkCntAssumption, LastIdxAssumption DEF BelowSignBit
<1>4. write_idx' = w /\ writing_idx' = w
  BY <1>1, <1>2, <1>3, WrapAdd DEF WriteRewindMarker
<1>5. Slot(w) = 0 /\ Pad(w) = BLK_CNT
  BY SlotNext, SlotRange, <1>3, BlkCntAssumption
<1>6. Slot(written_idx) \in Slots /\ Slot(written_idx) \notin LiveSlots
  <2>1. written_idx - read_idx < BLK_CNT
    BY <1>1, <1>2, BlkCntAssumption
  <2>. QED BY <2>1, SlotRange, ApartFromLive
<1>7. size' = [size EXCEPT ![Slot(written_idx)] = 0]
  BY <1>1 DEF WriteRewindMarker
<1>. HIDE DEF b, w
<1>8. TypeOK'
  <2>1. w \in Idx
    BY <1>3, IdxFacts DEF Idx
  <2>2. size' \in [Slots -> Nat]
    BY <1>7 DEF TypeOK
  <2>. QED BY <1>4, <2>1, <2>2 DEF WriteRewindMarker, TypeOK, consumer, history
<1>9. read_idx <= written_idx /\ written_idx <= w /\ w - read_idx <= BLK_CNT
  BY <1>1, <1>2, BlkCntAssumption DEF NoOverrun, w
<1>10. NoOverrun'
  BY <1>4, <1>9 DEF WriteRewindMarker, NoOverrun
<1>11. Behind'
  <2>1. size'[Slot(written_idx)] = 0
    BY <1>6, <1>7 DEF TypeOK
  <2>. QED BY <2>1, <1>4 DEF Behind, WriteRewindMarker, w
<1>12. b <= Pad(w)
  BY <1>1, <1>2, <1>5, <1>9, BlkCntAssumption DEF NoOverrun, w
<1>13. ProducerInv'
  BY <1>1, <1>4, <1>11, <1>12 DEF WriteRewindMarker, ProducerInv, Writing, history, b
<1>14. FramesInv'
  BY <1>6, <1>7, FramesStable DEF WriteRewindMarker, history, TypeOK
<1>15. ConsumerInv'
  <2>1. cpc \in {"record", "pop"} => Slot(read_idx) \in LiveSlots
    BY FrameSlotsLive DEF ConsumerInv, FramesInv
  <2>2. Slot(read_idx) \in Slots
    BY SlotRange
  <2>3. cpc \in {"record", "pop"} => size'[Slot(read_idx)] = size[Slot(read_idx)]
    BY <2>1, <2>2, <1>6, <1>7 DEF TypeOK
  <2>. QED BY <2>3 DEF WriteRewindMarker, ConsumerInv, consumer, history
<1>. QED BY <1>8, <1>10, <1>13, <1>14, <1>15

LEMMA ReserveInv ==
  ASSUME BelowSignBit, IndInv, Reserve
  PROVE  IndInv'
<1>. USE DEF IndInv
<1>. USE StateFacts
<1>. DEFINE b == BlkSz(len)
<1>1. /\ writing_idx = write_idx /\ Behind /\ len \in PayloadLens
      /\ write_idx + b - read_idx <= BLK_CNT /\ b <= Pad(write_idx)
      /\ written_idx < LastIdx /\ accepted = published
  BY DEF Reserve, ProducerInv, Writing
<1>2. b \in Nat \ {0} /\ Pad(written_idx) <= BLK_CNT /\ Pad(written_idx) \in Nat
  BY BlkSzPositive, SlotRange
<1>3. write_idx + b < IDX_MOD
  <2>1. write_idx <= written_idx + BLK_CNT
    BY <1>1, <1>2, BlkCntAssumption DEF Behind
  <2>. QED BY <2>1, <1>1, <1>2, IdxFacts, IdxAssumption, BlkCntAssumption, LastIdxAssumption
           DEF BelowSignBit
<1>4. writing_idx' = write_idx + b
  BY <1>2, <1>3, WrapAdd DEF Reserve
<1>. HIDE DEF b
<1>5. TypeOK'
  <2>1. writing_idx' \in Idx
    BY <1>2, <1>3, <1>4, IdxFacts DEF Idx
  <2>. QED BY <2>1 DEF Reserve, TypeOK, ring, consumer
<1>6. NoOverrun'
  BY <1>1, <1>2, <1>4 DEF NoOverrun, Reserve
<1>7. ProducerInv'
  BY <1>1, <1>4 DEF Reserve, ProducerInv, Behind, Writing, ring, b
<1>8. FramesInv'
  BY FramesStable DEF Reserve, ring
<1>9. ConsumerInv'
  BY DEF Reserve, ConsumerInv, ring, consumer
<1>. QED BY <1>5, <1>6, <1>7, <1>8, <1>9

(* While a record is written, its blocks are in the ring and not live, and *)
(* neither is the block of a rewind marker in front of it one of them.     *)
LEMMA ReservedApart ==
  ASSUME IndInv, Writing
  PROVE  /\ Slot(write_idx) \in Slots /\ Slot(write_idx) \in Reserved
         /\ Reserved \subseteq Slots
         /\ \A s \in Reserved : s \notin LiveSlots
         /\ write_idx # written_idx => Slot(written_idx) \notin Reserved
<1>. USE DEF IndInv
<1>. USE StateFacts
<1>. DEFINE b == BlkSz(len)
<1>1. /\ writing_idx = write_idx + b /\ Behind /\ b <= Pad(write_idx)
      /\ writing_idx - read_idx <= BLK_CNT /\ written_idx <= writing_idx
      /\ read_idx <= written_idx
  BY DEF ProducerInv, NoOverrun
<1>2. /\ b \in Nat \ {0} /\ Pad(write_idx) = BLK_CNT - Slot(write_idx)
      /\ Slot(write_idx) \in Slots /\ Slot(write_idx) \in Nat
      /\ Pad(written_idx) \in Nat \ {0} /\ Slot(written_idx) \in Nat
  BY BlkSzPositive, SlotRange
<1>3. Reserved = Slot(write_idx) .. Slot(write_idx) + b - 1
  BY DEF Reserved
<1>4. written_idx <= write_idx
  BY <1>1, <1>2 DEF Behind
<1>. HIDE DEF b
<1>5. Reserved \subseteq Slots /\ Slot(write_idx) \in Reserved
  <2>. DEFINE i == Slot(write_idx)
  <2>1. i \in Nat /\ b \in Nat \ {0} /\ i + b <= BLK_CNT
    BY <1>1, <1>2, BlkCntAssumption
  <2>2. Reserved = i .. (i + b) - 1
    BY <1>3, <2>1
  <2>. HIDE DEF i
  <2>3. i .. (i + b) - 1 \subseteq 0 .. BLK_CNT - 1 /\ i \in i .. (i + b) - 1
    BY <2>1, BlkCntAssumption
  <2>4. Reserved \subseteq Slots /\ i \in Reserved
    BY <2>2, <2>3 DEF Slots
  <2>. QED BY <2>4 DEF i
<1>6. ASSUME NEW s \in Reserved
      PROVE  s \notin LiveSlots /\ (write_idx # written_idx => Slot(written_idx) # s)
  <2>. DEFINE k == s - Slot(write_idx)
  <2>1. k \in Nat /\ k < b /\ s = Slot(write_idx) + k
    <3>1. s \in Slot(write_idx) .. Slot(write_idx) + b - 1
      BY <1>3, <1>6
    <3>2. Slot(write_idx) \in Nat /\ b \in Nat
      BY <1>2
    <3>. QED BY <3>1, <3>2, SMTT(60)
  <2>. HIDE DEF k
  <2>2. Slot(write_idx) + k < BLK_CNT
    BY <1>1, <1>2, <2>1, BlkCntAssumption
  <2>3. Slot(write_idx + k) = s
    BY <2>1, <2>2, SlotStep
  <2>4. /\ write_idx + k \in Nat /\ written_idx <= write_idx + k
        /\ (write_idx + k) - read_idx < BLK_CNT
    BY <1>1, <1>2, <1>4, <2>1, BlkCntAssumption
  <2>5. s \notin LiveSlots
    BY <2>3, <2>4, ApartFromLive
  <2>6. write_idx # written_idx => Slot(written_idx) # s
    <3>1. SUFFICES ASSUME write_idx # written_idx PROVE Slot(written_idx) # s
      OBVIOUS
    <3>2. written_idx < write_idx + k /\ (write_idx + k) - written_idx < BLK_CNT
      BY <3>1, <1>1, <1>4, <2>1, <2>4, BlkCntAssumption
    <3>. QED BY <3>2, <2>3, <2>4, SlotDistinct
  <2>. QED BY <2>5, <2>6
<1>. QED BY <1>2, <1>5, <1>6

(* A step that only writes reserved blocks disturbs nobody else. *)
LEMMA WriteReserved ==
  ASSUME IndInv, Writing, TypeOK', Writing',
         UNCHANGED <<indices, len, write_idx, id, consumer, history>>,
         \A s \in Slots \ Reserved :
           size'[s] = size[s] /\ meta'[s] = meta[s] /\ body'[s] = body[s]
  PROVE  NoOverrun' /\ Behind' /\ FramesInv' /\ ConsumerInv'
<1>. USE DEF IndInv
<1>. USE StateFacts
<1>1. \A s \in LiveSlots : s \in Slots \ Reserved
  <2>1. \A x \in read_idx .. written_idx - 1 : Slot(x) \in Slots
    BY SlotRange
  <2>. QED BY <2>1, ReservedApart DEF LiveSlots
<1>2. NoOverrun'
  BY DEF NoOverrun, indices
<1>3. Behind'
  BY ReservedApart, SlotRange DEF ProducerInv, Behind, indices
<1>4. FramesInv'
  BY <1>1, FramesStable DEF indices, history
<1>5. ConsumerInv'
  <2>1. cpc \in {"record", "pop"} => Slot(read_idx) \in LiveSlots
    BY FrameSlotsLive DEF ConsumerInv, FramesInv
  <2>2. cpc \in {"record", "pop"} => size'[Slot(read_idx)] = size[Slot(read_idx)]
    BY <2>1, <1>1
  <2>. QED BY <2>2 DEF ConsumerInv, indices, consumer, history
<1>. QED BY <1>2, <1>3, <1>4, <1>5

LEMMA WriteHeaderInv ==
  ASSUME IndInv, WriteHeader
  PROVE  IndInv'
<1>. USE DEF IndInv
<1>1. Writing /\ Writing'
  BY DEF WriteHeader, Writing
<1>2. Slot(write_idx) \in Slots /\ Slot(write_idx) \in Reserved
  BY <1>1, ReservedApart
<1>3. TypeOK'
  BY DEF WriteHeader, TypeOK, indices, consumer, history
<1>4. NoOverrun' /\ Behind' /\ FramesInv' /\ ConsumerInv'
  BY <1>1, <1>2, <1>3, WriteReserved DEF WriteHeader, TypeOK
<1>5. ProducerInv'
  BY <1>2, <1>4 DEF WriteHeader, ProducerInv, Writing, TypeOK, indices, history
<1>. QED BY <1>3, <1>4, <1>5

LEMMA CopyPayloadInv ==
  ASSUME IndInv, CopyPayload
  PROVE  IndInv'
<1>. USE DEF IndInv
<1>1. Writing /\ Writing'
  BY DEF CopyPayload, Writing
<1>2. Slot(write_idx) \in Slots /\ Slot(write_idx) \in Reserved /\ Reserved \subseteq Slots
  BY <1>1, ReservedApart
<1>3. TypeOK'
  BY LenAssumption DEF CopyPayload, TypeOK, indices, consumer, history
<1>4. NoOverrun' /\ Behind' /\ FramesInv' /\ ConsumerInv'
  BY <1>1, <1>2, <1>3, WriteReserved DEF CopyPayload
<1>5. Reserved' = Reserved
  BY DEF CopyPayload, Reserved
<1>6. meta'[Slot(write_idx)] = id /\ \A s \in Reserved : body'[s] = id
  BY <1>2 DEF CopyPayload, ProducerInv
<1>7. ProducerInv'
  BY <1>4, <1>5, <1>6 DEF CopyPayload, ProducerInv, Writing, indices, history
<1>. QED BY <1>3, <1>4, <1>7

LEMMA CommitSizeInv ==
  ASSUME IndInv, CommitSize
  PROVE  IndInv'
<1>. USE DEF IndInv
<1>1. Writing /\ Writing'
  BY DEF CommitSize, Writing
<1>2. Slot(write_idx) \in Slots /\ Slot(write_idx) \in Reserved
  BY <1>1, ReservedApart
<1>3. TotalBytes(len) \in Nat
  BY BlkSzPositive, StateFacts
<1>4. TypeOK'
  BY <1>3 DEF CommitSize, TypeOK, indices, consumer, history
<1>5. NoOverrun' /\ Behind' /\ FramesInv' /\ ConsumerInv'
  BY <1>1, <1>2, <1>4, WriteReserved DEF CommitSize, TypeOK
<1>6. Reserved' = Reserved
  BY DEF CommitSize, Reserved
<1>7. ProducerInv'
  BY <1>2, <1>5, <1>6 DEF CommitSize, ProducerInv, Writing, TypeOK, indices, history
<1>. QED BY <1>4, <1>5, <1>7

(* commit publishes the reservation: a frame for the record and, when      *)
(* there was a rewind, one for the padding before it.                      *)
LEMMA CommitPublishInv ==
  ASSUME IndInv, CommitPublish
  PROVE  IndInv'
<1>. USE DEF IndInv
<1>. USE StateFacts
<1>. DEFINE b == BlkSz(len)
            W == write_idx
            E == write_idx + b
<1>1. Writing
  BY DEF CommitPublish, Writing
<1>2. /\ writing_idx = E /\ Behind /\ b <= Pad(W) /\ id = published + 1
      /\ meta[Slot(W)] = id /\ size[Slot(W)] = TotalBytes(len)
      /\ \A s \in Reserved : body[s] = id
      /\ accepted = published + 1 /\ read_idx <= written_idx
      /\ writing_idx - read_idx <= BLK_CNT
  BY <1>1 DEF CommitPublish, ProducerInv, NoOverrun
<1>3. /\ b \in Nat \ {0} /\ Pad(W) = BLK_CNT - Slot(W) /\ Slot(W) \in Nat
      /\ Pad(written_idx) \in Nat \ {0} /\ b = Blocks(TotalBytes(len))
      /\ TotalBytes(len) # 0
  BY BlkSzPositive, SlotRange
<1>4. written_idx <= W /\ W < E
  BY <1>2, <1>3 DEF Behind
<1>5. /\ written_idx' = E /\ writing_idx' = E /\ read_idx' = read_idx
      /\ published' = published + 1
      /\ frames' = [p \in DOMAIN frames \union {W, E} |->
                      IF p = E THEN published + 1
                      ELSE IF p = W THEN published ELSE frames[p]]
      /\ UNCHANGED ring
  BY <1>2 DEF CommitPublish
<1>. HIDE DEF b, E, W
<1>6. TypeOK'
  <2>1. W \in Idx /\ E \in Idx
    BY <1>2 DEF TypeOK, W
  <2>. QED BY <1>5, <2>1 DEF CommitPublish, TypeOK, ring, consumer
<1>7. NoOverrun'
  BY <1>2, <1>4, <1>5, <1>3 DEF NoOverrun, E, W
<1>8. /\ DOMAIN frames' = DOMAIN frames \union {W, E}
      /\ \A p \in DOMAIN frames : p \in Nat /\ p <= written_idx /\ frames[p] <= published
      /\ written_idx \in DOMAIN frames /\ frames[written_idx] = published
      /\ read_idx \in DOMAIN frames
  BY <1>5 DEF FramesInv
<1>9. W \in Nat /\ E \in Nat /\ E = W + b
  BY <1>3 DEF W, E
<1>10. /\ \A p \in DOMAIN frames : frames'[p] = frames[p] /\ p # E
       /\ frames'[W] = published /\ frames'[E] = published + 1
  <2>1. \A p \in DOMAIN frames : p # E /\ (p = W => frames[p] = published)
    BY <1>4, <1>8, <1>9
  <2>. QED BY <2>1, <1>5, <1>4, <1>9
<1>11. ASSUME NEW p, p = W PROVE RecordAt(p)'
  <2>1. Blocks(size[Slot(p)]) = b /\ Slot(p) + b <= BLK_CNT /\ size[Slot(p)] # 0
    BY <1>2, <1>3, <1>11, BlkCntAssumption DEF W
  <2>2. \A s \in Slot(p) .. Slot(p) + b - 1 : body[s] = published + 1
    BY <1>2, <1>11 DEF Reserved, W, b
  <2>3. meta[Slot(p)] = published + 1
    BY <1>2, <1>11 DEF W
  <2>4. /\ p + b \in DOMAIN frames' /\ frames'[p + b] = frames'[p] + 1
        /\ frames'[p] = published
    BY <1>8, <1>9, <1>10, <1>11
  <2>. QED BY <2>1, <2>2, <2>3, <2>4, <1>5 DEF RecordAt, ring
<1>12. ASSUME NEW p, p = written_idx, W # written_idx PROVE PaddingAt(p)'
  <2>1. W = p + Pad(p) /\ size[Slot(p)] = 0
    BY <1>2, <1>12 DEF Behind, W
  <2>2. size[0] # 0
    BY <2>1, <1>2, <1>3, <1>12, SlotNext DEF W
  <2>3. W # E
    BY <1>4, <1>9
  <2>4. written_idx' = E /\ size' = size
    BY <1>5 DEF ring
  <2>5. /\ p + Pad(p) \in DOMAIN frames' \ {E}
        /\ frames'[p + Pad(p)] = frames'[p]
    BY <2>1, <2>3, <1>8, <1>10, <1>12
  <2>. QED BY <2>1, <2>5, <2>2, <2>4 DEF PaddingAt
<1>13. ASSUME NEW p \in DOMAIN frames \ {written_idx}
       PROVE  (PaddingAt(p) \/ RecordAt(p))'
  <2>1. PaddingAt(p) \/ RecordAt(p)
    BY DEF FramesInv
  <2>2. PaddingAt(p) => PaddingAt(p)'
    BY <1>5, <1>8, <1>10 DEF PaddingAt, ring
  <2>3. RecordAt(p) => RecordAt(p)'
    BY <1>5, <1>8, <1>10 DEF RecordAt, ring
  <2>. QED BY <2>1, <2>2, <2>3
<1>14. FramesInv'
  <2>1. {read_idx', written_idx'} \subseteq DOMAIN frames' /\ frames'[written_idx'] = published'
    BY <1>5, <1>8, <1>10
  <2>2. DOMAIN frames' \subseteq read_idx' .. written_idx'
    <3>1. ASSUME NEW p \in DOMAIN frames' PROVE p \in read_idx .. E
      <4>1. CASE p \in DOMAIN frames
        BY <4>1, <1>4, <1>9 DEF FramesInv
      <4>2. CASE p \in {W, E}
        BY <4>2, <1>2, <1>4, <1>9
      <4>. QED BY <4>1, <4>2, <1>8
    <3>. QED BY <3>1, <1>5
  <2>3. ASSUME NEW p \in DOMAIN frames', NEW q \in DOMAIN frames', p <= q
        PROVE  frames'[p] <= frames'[q]
    <3>1. \A r \in DOMAIN frames' : frames'[r] \in Nat /\ frames'[r] <= published + 1
      BY <1>8, <1>10
    <3>2. CASE q = E
      BY <3>1, <3>2, <1>10
    <3>3. CASE q = W
      <4>1. p # E
        BY <3>3, <2>3, <1>4, <1>9
      <4>. QED BY <4>1, <3>3, <1>8, <1>10
    <3>4. CASE q \in DOMAIN frames \ {W, E}
      <4>1. q <= written_idx
        BY <3>4, <1>8
      <4>2. p = W => W = written_idx /\ q = written_idx
        BY <4>1, <3>4, <2>3, <1>4, <1>9, <1>8
      <4>3. p \in DOMAIN frames
        BY <4>1, <4>2, <2>3, <3>4, <1>4, <1>8, <1>9
      <4>. QED BY <4>3, <3>4, <2>3, <1>10 DEF FramesInv
    <3>. QED BY <3>2, <3>3, <3>4, <1>8
  <2>4. ASSUME NEW p \in DOMAIN frames' \ {written_idx'}
        PROVE  (PaddingAt(p) \/ RecordAt(p))'
    <3>1. p \in DOMAIN frames \ {written_idx} \/ p = W \/ (p = written_idx /\ W # written_idx)
      BY <1>5, <1>8
    <3>. QED BY <3>1, <1>11, <1>12, <1>13
  <2>. QED BY <2>1, <2>2, <2>3, <2>4 DEF FramesInv
<1>15. ProducerInv'
  BY <1>2, <1>5 DEF CommitPublish, ProducerInv, Writing
<1>16. ConsumerInv'
  <2>1. frames'[read_idx] = frames[read_idx]
    BY <1>8, <1>10
  <2>2. cpc = "scan" => end_idx \in DOMAIN frames' /\ frames'[end_idx] = frames[end_idx]
    BY <1>8, <1>10 DEF ConsumerInv
  <2>3. read_idx # E
    BY <1>8, <1>10
  <2>. QED BY <2>1, <2>2, <2>3, <1>5 DEF CommitPublish, ConsumerInv, ring, consumer
<1>. QED BY <1>6, <1>7, <1>14, <1>15, <1>16

(* Releasing the frames before the frame r keeps the others. *)
LEMMA Release ==
  ASSUME TypeOK, NoOverrun, FramesInv, NEW r \in DOMAIN frames,
         read_idx' = r,
         frames' = [p \in Unreleased(r) |-> frames[p]],
         UNCHANGED <<ring, written_idx, published>>
  PROVE  FramesInv' /\ read_idx <= r /\ r <= written_idx
<1>. USE StateFacts
<1>1. /\ DOMAIN frames' = {p \in DOMAIN frames : r <= p}
      /\ \A p \in DOMAIN frames' : frames'[p] = frames[p]
      /\ \A p \in DOMAIN frames : p \in Nat /\ p <= written_idx /\ read_idx <= p
  BY DEF Unreleased, FramesInv
<1>2. r \in DOMAIN frames' /\ written_idx \in DOMAIN frames'
  BY <1>1 DEF FramesInv
<1>3. ASSUME NEW p \in DOMAIN frames' \ {written_idx}
      PROVE  (PaddingAt(p) \/ RecordAt(p))'
  <2>1. p \in DOMAIN frames \ {written_idx} /\ r <= p /\ p \in Nat
    BY <1>1
  <2>2. CASE PaddingAt(p)
    <3>1. p + Pad(p) \in DOMAIN frames' \ {written_idx}
      <4>1. Pad(p) \in Nat
        BY <2>1, SlotRange
      <4>. QED BY <4>1, <2>1, <2>2, <1>1 DEF PaddingAt
    <3>2. PaddingAt(p)'
      BY <2>2, <3>1, <1>1 DEF PaddingAt, ring
    <3>. QED BY <3>2
  <2>3. CASE RecordAt(p)
    <3>1. p + Blocks(size[Slot(p)]) \in DOMAIN frames'
      <4>1. Blocks(size[Slot(p)]) \in Nat
        BY <2>1, SlotRange, BlocksPositive
      <4>. QED BY <4>1, <2>1, <2>3, <1>1 DEF RecordAt
    <3>2. RecordAt(p)'
      BY <2>3, <3>1, <1>1 DEF RecordAt, ring
    <3>. QED BY <3>2
  <2>. QED BY <2>1, <2>2, <2>3 DEF FramesInv
<1>4. DOMAIN frames' \subseteq read_idx' .. written_idx'
  BY <1>1
<1>. QED BY <1>1, <1>2, <1>3, <1>4 DEF FramesInv

(* Every published frame but the last is a record or leads to one. *)
LEMMA NextRecord ==
  ASSUME TypeOK, FramesInv, NEW p \in DOMAIN frames \ {written_idx}
  PROVE  /\ frames[p] < frames[written_idx]
         /\ PaddingAt(p) => RecordAt(p + Pad(p))
<1>. USE StateFacts
<1>1. ASSUME NEW q \in DOMAIN frames, RecordAt(q)
      PROVE  frames[q] < frames[written_idx]
  <2>. DEFINE n == q + Blocks(size[Slot(q)])
  <2>1. n \in DOMAIN frames /\ frames[n] = frames[q] + 1
    BY <1>1 DEF RecordAt
  <2>. HIDE DEF n
  <2>2. written_idx \in DOMAIN frames /\ n <= written_idx
    BY <2>1 DEF FramesInv
  <2>3. frames[n] <= frames[written_idx]
    BY <2>1, <2>2 DEF FramesInv
  <2>. QED BY <2>1, <2>2, <2>3
<1>2. CASE RecordAt(p)
  BY <1>1, <1>2 DEF PaddingAt, RecordAt
<1>3. CASE PaddingAt(p)
  <2>. DEFINE q == p + Pad(p)
  <2>1. q \in DOMAIN frames \ {written_idx} /\ frames[q] = frames[p]
    BY <1>3 DEF PaddingAt
  <2>2. ~PaddingAt(q)
    BY <1>3, SlotNext DEF PaddingAt
  <2>3. RecordAt(q)
    BY <2>1, <2>2 DEF FramesInv
  <2>. QED BY <2>1, <2>3, <1>1
<1>. QED BY <1>2, <1>3 DEF FramesInv

(* front looks at a published frame, with the one it loaded as the end     *)
(* further on.                                                             *)
LEMMA ScanFacts ==
  ASSUME IndInv, cpc = "scan"
  PROVE  /\ read_idx \in DOMAIN frames \ {written_idx}
         /\ end_idx \in DOMAIN frames /\ frames[read_idx] = delivered
         /\ \A p \in DOMAIN frames : frames[p] <= delivered => p < end_idx
<1>. USE StateFacts
<1>1. /\ read_idx \in DOMAIN frames /\ written_idx \in DOMAIN frames
      /\ end_idx \in DOMAIN frames /\ frames[read_idx] = delivered
      /\ delivered < frames[end_idx] /\ end_idx <= written_idx
      /\ TypeOK
  BY DEF IndInv, FramesInv, ConsumerInv
<1>2. \A p \in DOMAIN frames : frames[p] <= delivered => p < end_idx
  <2>. SUFFICES ASSUME NEW p \in DOMAIN frames, frames[p] <= delivered, end_idx <= p
                PROVE  FALSE
    BY <1>1
  <2>1. frames[end_idx] <= frames[p]
    BY <1>1 DEF IndInv, FramesInv
  <2>. QED BY <1>1, <2>1
<1>3. read_idx < end_idx
  BY <1>1, <1>2
<1>. QED BY <1>1, <1>2, <1>3

(* The record that front returned. *)
LEMMA RecordFacts ==
  ASSUME IndInv, cpc \in {"record", "pop"}
  PROVE  /\ RecordAt(read_idx) /\ read_idx \in DOMAIN frames \ {written_idx}
         /\ FrontContent = frames[read_idx] + 1
         /\ frames[read_idx] + 1 <= published
<1>. USE StateFacts
<1>1. /\ read_idx \in DOMAIN frames \ {written_idx} /\ size[Slot(read_idx)] # 0
      /\ TypeOK /\ FramesInv /\ frames[written_idx] = published
  BY DEF IndInv, ConsumerInv, FramesInv
<1>2. RecordAt(read_idx)
  BY <1>1 DEF FramesInv, PaddingAt
<1>3. FrontContent = frames[read_idx] + 1
  BY <1>2 DEF RecordAt, FrontContent, FrontBlocks
<1>. QED BY <1>1, <1>2, <1>3, NextRecord

LEMMA FrontLoadInv ==
  ASSUME IndInv, FrontLoad
  PROVE  IndInv'
<1>. USE DEF IndInv
<1>1. TypeOK'
  BY DEF FrontLoad, TypeOK, ring, indices, producer, history
<1>2. NoOverrun' /\ ProducerInv'
  BY DEF FrontLoad, NoOverrun, ProducerInv, Behind, Writing, Reserved,
         ring, indices, producer, history
<1>3. FramesInv'
  BY FramesStable DEF FrontLoad, ring, indices, history
<1>4. ConsumerInv'
  <2>1. read_idx \in DOMAIN frames \ {written_idx} /\ frames[read_idx] = delivered
    BY DEF FrontLoad, FramesInv, ConsumerInv
  <2>2. frames[read_idx] < frames[written_idx] /\ written_idx \in DOMAIN frames
    BY <2>1, NextRecord DEF FramesInv
  <2>3. frames[written_idx] > delivered
    BY <2>1, <2>2, StateFacts
  <2>. QED BY <2>1, <2>2, <2>3 DEF FrontLoad, ConsumerInv, ring, indices, producer, history
<1>. QED BY <1>1, <1>2, <1>3, <1>4

LEMMA FrontRecordInv ==
  ASSUME IndInv, FrontRecord
  PROVE  IndInv'
<1>. USE DEF IndInv
<1>1. TypeOK'
  BY DEF FrontRecord, TypeOK, ring, indices, producer, history
<1>2. NoOverrun' /\ ProducerInv'
  BY DEF FrontRecord, NoOverrun, ProducerInv, Behind, Writing, Reserved,
         ring, indices, producer, history
<1>3. FramesInv'
  BY FramesStable DEF FrontRecord, ring, indices, history
<1>4. ConsumerInv'
  BY ScanFacts DEF FrontRecord, ConsumerInv, ring, indices, history
<1>. QED BY <1>1, <1>2, <1>3, <1>4

LEMMA OnRecordInv ==
  ASSUME IndInv, OnRecord
  PROVE  IndInv'
<1>. USE DEF IndInv
<1>0. frames[read_idx] = delivered /\ FrontContent = delivered + 1 /\ delivered \in Nat
  BY RecordFacts, StateFacts DEF OnRecord, ConsumerInv
<1>1. TypeOK'
  BY <1>0 DEF OnRecord, TypeOK, ring, indices, producer
<1>2. NoOverrun' /\ ProducerInv'
  BY DEF OnRecord, NoOverrun, ProducerInv, Behind, Writing, Reserved,
         ring, indices, producer
<1>3. FramesInv'
  BY FramesStable DEF OnRecord, ring, indices
<1>4. ConsumerInv'
  BY <1>0 DEF OnRecord, ConsumerInv, ring, indices
<1>. QED BY <1>1, <1>2, <1>3, <1>4

(* What both moves of read_idx have in common. *)
LEMMA MoveReadIdx ==
  ASSUME IndInv, NEW r \in DOMAIN frames, read_idx' = r,
         frames' = [p \in Unreleased(r) |-> frames[p]],
         cpc' \in {"front", "scan"},
         UNCHANGED <<ring, writing_idx, written_idx, read_idx_cache, producer,
                     end_idx, accepted, published, delivered, seen>>
  PROVE  TypeOK' /\ NoOverrun' /\ ProducerInv' /\ FramesInv' /\ frames'[r] = frames[r]
<1>. USE DEF IndInv
<1>. USE StateFacts
<1>1. FramesInv' /\ read_idx <= r /\ r <= written_idx
  BY Release
<1>2. r \in Idx /\ r \in Nat
  BY DEF TypeOK
<1>3. TypeOK'
  BY <1>2 DEF TypeOK, ring, producer, Unreleased
<1>4. NoOverrun'
  BY <1>1, <1>2, BlkCntAssumption DEF NoOverrun
<1>5. ProducerInv'
  <2>1. BlkSz(len) \in Nat /\ Pad(write_idx) \in Nat
    BY BlkSzPositive, SlotRange
  <2>. QED BY <2>1, <1>1, <1>2, BlkCntAssumption
           DEF ProducerInv, Behind, Writing, Reserved, ring, producer
<1>6. frames'[r] = frames[r]
  BY <1>2 DEF Unreleased
<1>. QED BY <1>1, <1>3, <1>4, <1>5, <1>6

LEMMA FrontRewindInv ==
  ASSUME IndInv, FrontRewind
  PROVE  IndInv'
<1>. USE DEF IndInv
<1>. USE StateFacts
<1>. DEFINE r == read_idx + Pad(read_idx)
<1>1. /\ read_idx \in DOMAIN frames \ {written_idx} /\ frames[read_idx] = delivered
      /\ size[Slot(read_idx)] = 0 /\ end_idx \in DOMAIN frames
      /\ delivered < frames[end_idx]
  BY ScanFacts DEF FrontRewind, ConsumerInv
<1>2. PaddingAt(read_idx)
  BY <1>1 DEF FramesInv, RecordAt
<1>3. r \in DOMAIN frames /\ frames[r] = delivered
  BY <1>1, <1>2 DEF PaddingAt
<1>4. r < end_idx
  BY <1>3, ScanFacts DEF FrontRewind
<1>5. read_idx' = r
  <2>1. r < IDX_MOD
    BY <1>3, IdxFacts DEF TypeOK, Idx
  <2>2. Pad(read_idx) \in Nat
    BY SlotRange
  <2>. QED BY <2>1, <2>2, WrapAdd DEF FrontRewind
<1>. HIDE DEF r
<1>6. cpc' = "scan"
  BY <1>3, <1>4, <1>5 DEF FrontRewind
<1>7. ASSUME NEW x \in DOMAIN frames, x = r
      PROVE  TypeOK' /\ NoOverrun' /\ ProducerInv' /\ FramesInv' /\ frames'[x] = frames[x]
  BY <1>5, <1>6, <1>7, MoveReadIdx DEF FrontRewind
<1>8. ConsumerInv'
  <2>1. frames'[read_idx'] = delivered
    BY <1>3, <1>5, <1>7
  <2>2. end_idx \in DOMAIN frames' /\ frames'[end_idx] = frames[end_idx]
    BY <1>1, <1>3, <1>4, <1>5 DEF FrontRewind, Unreleased
  <2>. QED BY <2>1, <2>2, <1>1, <1>6 DEF FrontRewind, ConsumerInv
<1>. QED BY <1>3, <1>7, <1>8

LEMMA PopInv ==
  ASSUME IndInv, Pop
  PROVE  IndInv'
<1>. USE DEF IndInv
<1>. USE StateFacts
<1>. DEFINE r == read_idx + Blocks(size[Slot(read_idx)])
<1>1. RecordAt(read_idx) /\ frames[read_idx] = delivered - 1
  BY RecordFacts DEF Pop, ConsumerInv
<1>2. r \in DOMAIN frames /\ frames[r] = delivered
  BY <1>1 DEF RecordAt
<1>3. read_idx' = r
  <2>1. r < IDX_MOD
    BY <1>2, IdxFacts DEF TypeOK, Idx
  <2>2. Blocks(size[Slot(read_idx)]) \in Nat
    BY SlotRange, BlocksPositive
  <2>. QED BY <2>1, <2>2, WrapAdd DEF Pop
<1>. HIDE DEF r
<1>4. ASSUME NEW x \in DOMAIN frames, x = r
      PROVE  TypeOK' /\ NoOverrun' /\ ProducerInv' /\ FramesInv' /\ frames'[x] = frames[x]
  BY <1>3, <1>4, MoveReadIdx DEF Pop
<1>5. ConsumerInv'
  BY <1>2, <1>3, <1>4 DEF Pop, ConsumerInv
<1>. QED BY <1>2, <1>4, <1>5

LEMMA NextInv ==
  ASSUME BelowSignBit, IndInv, [Next]_vars
  PROVE  IndInv'
<1>1. CASE UNCHANGED vars
  <2>. USE <1>1 DEF vars, ring, indices, producer, consumer, history
  <2>1. TypeOK' /\ NoOverrun'
    BY DEF IndInv, TypeOK, NoOverrun
  <2>2. ProducerInv'
    BY DEF IndInv, ProducerInv, Behind, Writing, Reserved
  <2>3. FramesInv'
    BY DEF IndInv, FramesInv, PaddingAt, RecordAt
  <2>4. ConsumerInv'
    BY DEF IndInv, ConsumerInv
  <2>. QED BY <2>1, <2>2, <2>3, <2>4 DEF IndInv
<1>2. ASSUME NEW l \in PayloadLens, TryAlloc(l) PROVE IndInv'
  BY <1>2, TryAllocInv
<1>3. CASE ProducerStep
  BY <1>3, RefreshCacheInv, WriteRewindMarkerInv, ReserveInv, WriteHeaderInv,
     CopyPayloadInv, CommitSizeInv, CommitPublishInv DEF ProducerStep
<1>4. CASE ConsumerStep
  BY <1>4, FrontLoadInv, FrontRewindInv, FrontRecordInv, OnRecordInv, PopInv
     DEF ConsumerStep
<1>. QED BY <1>1, <1>2, <1>3, <1>4 DEF Next

-----------------------------------------------------------------------------
(* The theorems.                                                           *)

(* The inductive invariant holds in every state of SpscVarQueueOpt shared  *)
(* by one producer and one consumer.                                       *)
THEOREM Invariance ==
  ASSUME BelowSignBit
  PROVE  Spec => []IndInv
<1>1. Init => IndInv
  BY InitInv
<1>2. IndInv /\ [Next]_vars => IndInv'
  BY NextInv
<1>. QED BY <1>1, <1>2, PTL DEF Spec

(* Every variable keeps its type; in particular no index leaves u32. *)
THEOREM TypeCorrect ==
  ASSUME BelowSignBit
  PROVE  Spec => []TypeOK
<1>1. IndInv => TypeOK
  BY DEF IndInv
<1>. QED BY <1>1, Invariance, PTL

(* try_alloc never reserves a block that holds an unread record. *)
THEOREM NeverOverruns ==
  ASSUME BelowSignBit
  PROVE  Spec => []NoOverrun
<1>1. IndInv => NoOverrun
  BY DEF IndInv
<1>. QED BY <1>1, Invariance, PTL

(* What try_alloc returns never straddles the end of the ring, so the      *)
(* payload copy of publish_args stays inside blk.                          *)
THEOREM Contiguous ==
  ASSUME BelowSignBit
  PROVE  Spec => []ReservationContiguous
<1>1. IndInv => ReservationContiguous
  <2>. SUFFICES ASSUME IndInv, Writing
                PROVE  Slot(write_idx) + BlkSz(len) <= BLK_CNT
    BY DEF ReservationContiguous
  <2>1. BlkSz(len) <= Pad(write_idx) /\ write_idx \in Nat /\ len \in Nat
    BY StateFacts DEF IndInv, ProducerInv
  <2>. QED BY <2>1, SlotRange, BlkSzPositive, BlkCntAssumption
<1>. QED BY <1>1, Invariance, PTL

(* Every record that front returns is the next one in publication order    *)
(* and whole: no reordering, loss, duplication or overwriting.             *)
THEOREM Intact ==
  ASSUME BelowSignBit
  PROVE  Spec => []RecordIntact
<1>1. IndInv => RecordIntact
  <2>. SUFFICES ASSUME IndInv, cpc = "record" PROVE RecordIntact
    BY DEF RecordIntact
  <2>1. frames[read_idx] = delivered
    BY DEF IndInv, ConsumerInv
  <2>. QED BY <2>1, RecordFacts DEF RecordIntact, RecordAt
<1>. QED BY <1>1, Invariance, PTL

(* pop's debug_assert never fails. *)
THEOREM PopAssertHolds ==
  ASSUME BelowSignBit
  PROVE  Spec => []PopSizeNonZero
<1>1. IndInv => PopSizeNonZero
  BY DEF IndInv, ConsumerInv, PopSizeNonZero
<1>. QED BY <1>1, Invariance, PTL

(* front never gives up behind a rewind marker. *)
THEOREM MarkerBeforeRecord ==
  ASSUME BelowSignBit
  PROVE  Spec => []RewindLeadsToRecord
<1>1. IndInv => RewindLeadsToRecord
  <2>. SUFFICES ASSUME IndInv, cpc = "scan", size[Slot(read_idx)] = 0
                PROVE  /\ wrapping_add(read_idx, Pad(read_idx)) # end_idx
                       /\ size[0] # 0
    BY DEF RewindLeadsToRecord
  <2>. DEFINE r == read_idx + Pad(read_idx)
  <2>1. /\ read_idx \in DOMAIN frames \ {written_idx} /\ frames[read_idx] = delivered
        /\ delivered \in Nat /\ end_idx \in Nat
    BY ScanFacts, StateFacts DEF IndInv
  <2>2. PaddingAt(read_idx)
    BY <2>1 DEF IndInv, FramesInv, RecordAt
  <2>3. r \in DOMAIN frames /\ frames[r] = delivered /\ size[0] # 0
    BY <2>1, <2>2 DEF PaddingAt
  <2>4. r < end_idx
    BY <2>1, <2>3, ScanFacts
  <2>5. wrapping_add(read_idx, Pad(read_idx)) = r
    <3>1. r < IDX_MOD /\ read_idx \in Nat
      BY <2>3, IdxFacts DEF IndInv, TypeOK, Idx
    <3>. QED BY <3>1, SlotRange, WrapAdd
  <2>6. r \in Nat
    BY <2>3, StateFacts DEF IndInv
  <2>. HIDE DEF r
  <2>. QED BY <2>1, <2>3, <2>4, <2>5, <2>6
<1>. QED BY <1>1, Invariance, PTL

-----------------------------------------------------------------------------
(* A drained ring, at whatever index: here nothing keeps the indices below *)
(* the sign bit, and the invariant above may be broken.                    *)

(* min_read_idx lies at most a ring behind, and wraps. *)
LEMMA MinReadIdxWraps ==
  ASSUME NEW i \in Idx, NEW b \in Nat, Needed(i, b) \in Nat, Needed(i, b) <= BLK_CNT
  PROVE  LET v == (i + Needed(i, b)) - BLK_CNT
         IN  MinReadIdx(i, b) = IF v < 0 THEN v + IDX_MOD ELSE v
<1>. DEFINE n == Needed(i, b)
            v == (i + n) - BLK_CNT
            w == (i + n) % IDX_MOD
<1>1. /\ i \in Nat /\ i < IDX_MOD /\ n \in Nat /\ n <= BLK_CNT /\ v \in Int /\ v <= i
      /\ IDX_MOD \in Nat \ {0} /\ BLK_CNT \in Nat \ {0} /\ 2 * BLK_CNT <= IDX_MOD
  BY IdxFacts, IdxAssumption, BlkCntAssumption DEF Idx
<1>2. MinReadIdx(i, b) = (w - BLK_CNT) % IDX_MOD
  BY DEF MinReadIdx, wrapping_add, wrapping_sub
<1>. HIDE DEF n
<1>3. CASE i + n < IDX_MOD
  <2>1. w = i + n
    BY <1>1, <1>3, ModSmall
  <2>2. MinReadIdx(i, b) = v % IDX_MOD
    BY <1>2, <2>1
  <2>. HIDE DEF v
  <2>3. CASE v < 0
    <3>1. -IDX_MOD <= v
      BY <1>1 DEF v
    <3>. QED BY <1>1, <2>2, <2>3, <3>1, ModNegative DEF v, n
  <2>4. CASE v >= 0
    <3>1. v \in Nat /\ v < IDX_MOD
      BY <1>1, <2>4
    <3>. QED BY <1>1, <2>2, <2>4, <3>1, ModSmall DEF v, n
  <2>. QED BY <1>1, <2>3, <2>4
<1>4. CASE i + n >= IDX_MOD
  <2>1. w = (i + n) - IDX_MOD
    <3>1. i + n \in Int /\ i + n = IDX_MOD * 1 + ((i + n) - IDX_MOD)
          /\ (i + n) - IDX_MOD \in 0 .. IDX_MOD - 1
      BY <1>1, <1>4
    <3>. QED BY <1>1, <3>1, ModUnique
  <2>2. w - BLK_CNT = v - IDX_MOD
    BY <1>1, <2>1
  <2>3. v - IDX_MOD \in Int /\ -IDX_MOD <= v - IDX_MOD /\ v - IDX_MOD < 0 /\ v >= 0
    BY <1>1, <1>4
  <2>4. (v - IDX_MOD) % IDX_MOD = (v - IDX_MOD) + IDX_MOD
    <3>. DEFINE x == v - IDX_MOD
    <3>. HIDE DEF x
    <3>1. x \in Int /\ -IDX_MOD <= x /\ x < 0
      BY <2>3 DEF x
    <3>2. x % IDX_MOD = x + IDX_MOD
      BY <1>1, <3>1, ModNegative
    <3>. QED BY <3>2 DEF x
  <2>5. MinReadIdx(i, b) = v
    BY <1>1, <1>2, <2>2, <2>4
  <2>6. ~(v < 0)
    BY <1>1, <2>3
  <2>. HIDE DEF v
  <2>. QED BY <2>5, <2>6 DEF v, n
<1>. QED BY <1>1, <1>3, <1>4

(* The test finds room in a drained ring but where min_read_idx has lost   *)
(* the sign bit that read_idx has.                                         *)
LEMMA DrainedRoom ==
  ASSUME NEW i \in Idx, NEW b \in Nat \ {0}, 2 * b <= BLK_CNT
  PROVE  HasRoom(i, i, b) <=> ~AtSignBit(i, b)
<1>. DEFINE n == Needed(i, b)
            v == (i + n) - BLK_CNT
            m == MinReadIdx(i, b)
<1>1. /\ i \in Nat /\ i < IDX_MOD /\ IDX_MOD = 2 * IDX_HALF
      /\ IDX_HALF \in Nat /\ BLK_CNT \in Nat \ {0} /\ BLK_CNT <= IDX_HALF
  BY IdxFacts, IdxAssumption, BlkCntAssumption DEF Idx
<1>2. n \in Nat /\ n <= BLK_CNT
  <2>1. Pad(i) \in Nat
    BY <1>1, SlotRange
  <2>. QED BY <1>1, <2>1 DEF Needed, Rewind
<1>3. m = IF v < 0 THEN v + IDX_MOD ELSE v
  BY <1>2, MinReadIdxWraps
<1>4. HasRoom(i, i, b) <=> ~(as_i32(i) < as_i32(m))
  BY DEF HasRoom
<1>5. AtSignBit(i, b) <=> IDX_HALF <= i /\ v < IDX_HALF
  BY DEF AtSignBit
<1>. HIDE DEF n, m
<1>6. v \in Int /\ v <= i /\ -BLK_CNT <= v /\ i - v <= BLK_CNT
  BY <1>1, <1>2
<1>. HIDE DEF v
<1>7. as_i32(i) < as_i32(m) <=> IDX_HALF <= i /\ v < IDX_HALF
  BY <1>1, <1>3, <1>6 DEF as_i32
<1>. QED BY <1>4, <1>5, <1>7

(* What the producer keeps to itself, whatever the consumer reads: between *)
(* calls, and until it has found room, all it reserved is published.       *)
OwnIndices ==
  /\ writing_idx \in Idx /\ written_idx \in Idx /\ write_idx \in Idx
  /\ len \in PayloadLens \union {0}
  /\ ppc \in {"idle", "refresh", "rewind"} => writing_idx = written_idx
  /\ ppc \in {"refresh", "rewind"} => write_idx = written_idx

LEMMA OwnIndicesInv == Spec => []OwnIndices
<1>1. Init => OwnIndices
  BY IdxFacts DEF Init, OwnIndices, Idx
<1>2. ASSUME NEW x \in Int, NEW y \in Int PROVE wrapping_add(x, y) \in Idx
  BY IdxFacts, ModRange DEF wrapping_add, Idx
<1>3. OwnIndices /\ [Next]_vars => OwnIndices'
  <2>. SUFFICES ASSUME OwnIndices, [Next]_vars PROVE OwnIndices'
    OBVIOUS
  <2>. USE DEF OwnIndices
  <2>1. CASE UNCHANGED vars
    BY <2>1 DEF vars, indices, producer
  <2>2. ASSUME NEW l \in PayloadLens, TryAlloc(l) PROVE OwnIndices'
    BY <2>2 DEF TryAlloc, AfterRoom, indices
  <2>3. CASE RefreshCache
    BY <2>3 DEF RefreshCache, AfterRoom
  <2>4. CASE WriteRewindMarker
    <3>1. write_idx \in Int /\ Pad(write_idx) \in Int
      BY SlotRange DEF Idx
    <3>2. write_idx' \in Idx
      BY <1>2, <2>4, <3>1 DEF WriteRewindMarker
    <3>. QED BY <2>4, <3>2 DEF WriteRewindMarker
  <2>5. CASE Reserve
    <3>1. write_idx \in Int /\ BlkSz(len) \in Int
      BY LenAssumption, BlkSzPositive DEF Idx
    <3>2. writing_idx' \in Idx
      BY <1>2, <2>5, <3>1 DEF Reserve
    <3>. QED BY <2>5, <3>2 DEF Reserve
  <2>6. CASE WriteHeader \/ CopyPayload \/ CommitSize
    BY <2>6 DEF WriteHeader, CopyPayload, CommitSize, indices
  <2>7. CASE CommitPublish
    BY <2>7 DEF CommitPublish
  <2>8. CASE ConsumerStep
    BY <2>8 DEF ConsumerStep, FrontLoad, FrontRewind, FrontRecord, OnRecord, Pop,
                indices, producer
  <2>. QED BY <2>1, <2>2, <2>3, <2>4, <2>5, <2>6, <2>7, <2>8 DEF Next, ProducerStep
<1>. QED BY <1>1, <1>3, PTL DEF Spec

(* A drained ring refuses a record of at most half the ring at the sign    *)
(* bit (the comparisons at lines 110 and 113), and at no other index.      *)
THEOREM DrainedRefusesAtSignBit == Spec => DrainedRefusal
<1>. DEFINE A == ppc = "refresh" /\ ppc' # "refresh" /\ read_idx = written_idx
                   /\ 2 * BlkSz(len) <= BLK_CNT
                   => (ppc' = "idle" <=> AtSignBit(write_idx, BlkSz(len)))
<1>1. OwnIndices /\ [Next]_vars => [A]_vars
  <2>. SUFFICES ASSUME OwnIndices, Next, ppc = "refresh", ppc' # "refresh",
                       read_idx = written_idx, 2 * BlkSz(len) <= BLK_CNT
                PROVE  ppc' = "idle" <=> AtSignBit(write_idx, BlkSz(len))
    OBVIOUS
  <2>1. RefreshCache
    BY DEF Next, TryAlloc, ProducerStep, ConsumerStep, WriteRewindMarker, Reserve,
           WriteHeader, CopyPayload, CommitSize, CommitPublish, FrontLoad,
           FrontRewind, FrontRecord, OnRecord, Pop, producer
  <2>2. write_idx = read_idx /\ write_idx \in Idx /\ len \in Nat
    BY LenAssumption DEF OwnIndices
  <2>3. BlkSz(len) \in Nat \ {0}
    BY <2>2, BlkSzPositive
  <2>4. ppc' = "idle" <=> ~HasRoom(write_idx, write_idx, BlkSz(len))
    BY <2>1, <2>2 DEF RefreshCache, AfterRoom
  <2>. QED BY <2>2, <2>3, <2>4, DrainedRoom
<1>. QED BY <1>1, OwnIndicesInv, PTL DEF Spec, DrainedRefusal

-----------------------------------------------------------------------------
(* The ring implements the abstract channel.                               *)

(* The record numbers from d + 1 to p, as the channel queues them. *)
Numbers(d, p) == [i \in 1 .. p - d |-> d + i]

LEMMA NumbersFacts ==
  ASSUME NEW d \in Nat, NEW p \in Nat, d <= p
  PROVE  /\ Numbers(d, p) \in Seq(Nat) /\ Len(Numbers(d, p)) = p - d
         /\ Append(Numbers(d, p), p + 1) = Numbers(d, p + 1)
         /\ d < p => /\ Numbers(d, p) # << >> /\ Head(Numbers(d, p)) = d + 1
                     /\ Tail(Numbers(d, p)) = Numbers(d + 1, p)
         /\ d = p => Numbers(d, p) = << >>
<1>1. Numbers(d, p) \in Seq(Nat) /\ Len(Numbers(d, p)) = p - d
  BY DEF Numbers
<1>2. Append(Numbers(d, p), p + 1) = Numbers(d, p + 1)
  BY DEF Numbers
<1>3. d < p => Numbers(d, p) # << >> /\ Head(Numbers(d, p)) = d + 1
  BY DEF Numbers
<1>4. d < p => Tail(Numbers(d, p)) = Numbers(d + 1, p)
  BY DEF Numbers
<1>5. d = p => Numbers(d, p) = << >>
  BY <1>1
<1>. QED BY <1>1, <1>2, <1>3, <1>4, <1>5

LEMMA DeliveredPublished ==
  ASSUME IndInv
  PROVE  delivered \in Nat /\ published \in Nat /\ delivered <= published
<1>. USE StateFacts
<1>1. /\ read_idx \in DOMAIN frames /\ written_idx \in DOMAIN frames
      /\ read_idx <= written_idx /\ frames[written_idx] = published
      /\ TypeOK
  BY DEF IndInv, NoOverrun, FramesInv
<1>2. CASE cpc = "pop"
  BY <1>1, <1>2, RecordFacts DEF IndInv, ConsumerInv
<1>3. CASE cpc # "pop"
  <2>1. frames[read_idx] <= frames[written_idx]
    BY <1>1 DEF IndInv, FramesInv
  <2>. QED BY <1>1, <1>3, <2>1 DEF IndInv, ConsumerInv
<1>. QED BY <1>2, <1>3

(* Every behaviour of the ring is one of the abstract channel: commit is   *)
(* its Publish, the sink's on_record its Deliver, and no other access to   *)
(* the ring is visible.                                                    *)
THEOREM Refinement ==
  ASSUME BelowSignBit
  PROVE  Spec => ImplementsChannel
<1>. DEFINE Q == Numbers(delivered, published)
<1>1. Init => Channel!Init
  <2>. SUFFICES ASSUME Init PROVE Channel!Init
    OBVIOUS
  <2>1. Numbers(0, 0) = << >>
    BY NumbersFacts
  <2>. QED BY <2>1 DEF Init, Channel!Init, Numbers
<1>2. IndInv /\ [Next]_vars => [Channel!Next]_(Channel!vars)
  <2>. SUFFICES ASSUME IndInv, [Next]_vars
                PROVE  [Channel!Next]_(Channel!vars)
    OBVIOUS
  <2>1. delivered \in Nat /\ published \in Nat /\ delivered <= published
    BY DeliveredPublished
  <2>2. CASE CommitPublish
    <3>1. Q' = Append(Q, published + 1)
      BY <2>1, <2>2, NumbersFacts DEF CommitPublish
    <3>2. published' = published + 1 /\ seen' = seen
      BY <2>2 DEF CommitPublish
    <3>. QED BY <3>1, <3>2 DEF Channel!Next, Channel!Publish, Numbers
  <2>3. CASE OnRecord
    <3>1. FrontContent = delivered + 1 /\ delivered + 1 <= published
      BY <2>3, RecordFacts DEF OnRecord, IndInv, ConsumerInv
    <3>2. Q # << >> /\ Head(Q) = delivered + 1 /\ Tail(Q) = Numbers(delivered + 1, published)
      <4>1. delivered < published
        BY <2>1, <3>1
      <4>. QED BY <4>1, <2>1, NumbersFacts
    <3>3. Q' = Tail(Q) /\ seen' = Head(Q) /\ published' = published
      BY <2>3, <3>1, <3>2 DEF OnRecord
    <3>. QED BY <3>2, <3>3 DEF Channel!Next, Channel!Deliver, Numbers
  <2>4. ASSUME UNCHANGED <<published, delivered, seen>>
        PROVE  UNCHANGED Channel!vars
    BY <2>4 DEF Channel!vars
  <2>5. CASE UNCHANGED vars
    BY <2>4, <2>5 DEF vars, history
  <2>6. ASSUME NEW l \in PayloadLens, TryAlloc(l) PROVE UNCHANGED Channel!vars
    BY <2>4, <2>6 DEF TryAlloc, history
  <2>7. CASE ProducerStep /\ ~CommitPublish
    BY <2>4, <2>7 DEF ProducerStep, RefreshCache, WriteRewindMarker, Reserve, WriteHeader,
                      CopyPayload, CommitSize, history
  <2>8. CASE ConsumerStep /\ ~OnRecord
    BY <2>4, <2>8 DEF ConsumerStep, FrontLoad, FrontRewind, FrontRecord, Pop, history
  <2>. QED BY <2>2, <2>3, <2>5, <2>6, <2>7, <2>8 DEF Next
<1>. QED BY <1>1, <1>2, Invariance, PTL DEF Spec, ImplementsChannel, Channel!Spec
=============================================================================
