---------------------------- MODULE SpscVarQueue ----------------------------
(***************************************************************************)
(* The staging buffer of the logger, SpscVarQueueOpt: a ring of BLK_CNT    *)
(* blocks of 64 bytes that carries variable-sized records from the thread  *)
(* that logs (LoggerHandle::publish_args) to the back end thread           *)
(* (run_log2::run).  A record takes a whole number of contiguous blocks,   *)
(* starts with a header, and never straddles the end of the ring: where it *)
(* would, the producer leaves a rewind marker (header.size = 0) and starts *)
(* over at block 0.                                                        *)
(*                                                                         *)
(* One action is one access to memory that the other thread can observe,   *)
(* with the thread-local computation that precedes it.  Accesses           *)
(* interleave in any order of the two programs (sequential consistency).   *)
(*                                                                         *)
(* A record is abstracted to its number; bytes are abstracted to the       *)
(* number of the record they belong to.  Lengths, block counts and the     *)
(* wrapping 32-bit indices are kept.                                       *)
(***************************************************************************)
EXTENDS Integers

CONSTANTS
  BLK_CNT,      \* blocks in the ring (1024 in StagingBuffer)
  IDX_HALF,     \* half the range of an index (2^31: indices are u32)
  PayloadLens,  \* the sizes in bytes of the argument structs that are logged
  StraySizes,   \* what payload bytes may look like where a header.size would be
  LastIdx       \* bound of the model: calls start while writing_idx < LastIdx

BLOCK_SIZE == 64
MSG_HEADER_SIZE == 24
IDX_MOD == 2 * IDX_HALF

(* SpscVarQueueOpt::new asserts the power of two; no index can be wider    *)
(* than the ring.                                                          *)
ASSUME BlkCntAssumption == BLK_CNT \in Nat \ {0}
ASSUME IsPow2Assumption == \E k \in 0 .. 31 : BLK_CNT = 2 ^ k
ASSUME IdxAssumption == IDX_HALF \in Nat /\ BLK_CNT <= IDX_HALF
ASSUME LenAssumption == PayloadLens \subseteq Nat /\ StraySizes \subseteq Nat
ASSUME LastIdxAssumption == LastIdx \in Nat

VARIABLES
  \* the blocks
  size,            \* header.size of each block
  meta,            \* the record whose level, tsc and log_func a header holds
  body,            \* the record whose payload bytes a block holds
  \* the indices, counted in blocks and never masked
  writing_idx,     \* end of what the producer reserved
  written_idx,     \* end of what the producer published
  read_idx,        \* start of what the consumer has not released
  read_idx_cache,  \* the producer's last view of read_idx
  \* the producer thread, inside publish_args
  ppc,             \* where it is
  len,             \* size_of::<A>() of the arguments being logged
  write_idx,       \* try_alloc's local copy of writing_idx
  id,              \* the number of the record being written
  \* the consumer thread, inside run
  cpc,             \* where it is
  end_idx,         \* front's local copy of written_idx (w)
  \* history
  accepted,        \* records for which try_alloc found room
  published,       \* records committed
  delivered,       \* records handed to the sink
  seen,            \* the record the sink saw last (0: none, or a torn one)
  frames           \* see below

(***************************************************************************)
(* frames is a history variable: its domain holds the index of every frame *)
(* (a record, or the padding a rewind marker stands for) that is published *)
(* and not yet released, and the index where the next frame will be        *)
(* published; frames[p] counts the records published before p.             *)
(***************************************************************************)

ring == <<size, meta, body>>
indices == <<writing_idx, written_idx, read_idx, read_idx_cache>>
producer == <<ppc, len, write_idx, id>>
consumer == <<cpc, end_idx>>
history == <<accepted, published, delivered, seen, frames>>
vars == <<ring, indices, producer, consumer, history>>

-----------------------------------------------------------------------------
(* Arithmetic of the indices.                                              *)

Slots == 0 .. BLK_CNT - 1
Idx == 0 .. IDX_MOD - 1

(* u32::wrapping_add and wrapping_sub, and the cast "as i32". *)
wrapping_add(x, y) == (x + y) % IDX_MOD
wrapping_sub(x, y) == (x - y) % IDX_MOD
as_i32(x) == IF x >= IDX_HALF THEN x - IDX_MOD ELSE x

(* The block an index stands for: i & mask(), BLK_CNT being a power of two. *)
Slot(i) == i % BLK_CNT

div_ceil(a, b) == (a + b - 1) \div b

(* Blocks of a frame of n bytes, and of a record with a payload of l bytes. *)
Blocks(n) == div_ceil(n, BLOCK_SIZE)
TotalBytes(l) == l + MSG_HEADER_SIZE
BlkSz(l) == Blocks(TotalBytes(l))

(* Blocks from index i to the end of the ring. *)
Pad(i) == BLK_CNT - Slot(i)

(* Mutant: off by one at the end of the ring. *)
Rewind_OffByOne(i, b) == b > Pad(i) + 1

(* Whether a record of b blocks does not fit before the end of the ring. *)
Rewind(i, b) == b > Pad(i)

(* Mutant: the padding is not counted. *)
Needed_NoPad(i, b) == b

(* Blocks try_alloc needs at index i for a record of b blocks. *)
Needed(i, b) == b + (IF Rewind(i, b) THEN Pad(i) ELSE 0)

(* The least read_idx at which these blocks are free. *)
MinReadIdx(i, b) == wrapping_sub(wrapping_add(i, Needed(i, b)), BLK_CNT)

(* Mutants: off by one; unsigned comparison. *)
HasRoom_OffByOne(r, i, b) == ~(as_i32(r) + 1 < as_i32(MinReadIdx(i, b)))
HasRoom_Unsigned(r, i, b) == ~(r < MinReadIdx(i, b))

(* Room as try_alloc judges it from a value r of read_idx. *)
HasRoom(r, i, b) == ~(as_i32(r) < as_i32(MinReadIdx(i, b)))

-----------------------------------------------------------------------------
Init ==
  /\ size = [s \in Slots |-> 0]
  /\ meta = [s \in Slots |-> 0]
  /\ body = [s \in Slots |-> 0]
  /\ writing_idx = 0 /\ written_idx = 0 /\ read_idx = 0 /\ read_idx_cache = 0
  /\ ppc = "idle" /\ len = 0 /\ write_idx = 0 /\ id = 0
  /\ cpc = "front" /\ end_idx = 0
  /\ accepted = 0 /\ published = 0 /\ delivered = 0 /\ seen = 0
  /\ frames = [p \in {0} |-> 0]

-----------------------------------------------------------------------------
(* The producer: publish_args, which is try_alloc, the header, the payload *)
(* and commit.                                                             *)

AfterRoom(i, b) == IF Rewind(i, b) THEN "rewind" ELSE "reserve"

(* Mutant: len is mistaken for the total. *)
TryAlloc_LenIsTotal(l) ==
  /\ ppc = "idle"
  /\ writing_idx < LastIdx
  /\ len' = TotalBytes(l)
  /\ write_idx' = writing_idx
  /\ ppc' = IF HasRoom(read_idx_cache, writing_idx, BlkSz(l))
            THEN AfterRoom(writing_idx, BlkSz(l)) ELSE "refresh"
  /\ UNCHANGED <<ring, indices, id, consumer, history>>

(* try_alloc up to its look at the cached read_idx. *)
TryAlloc(l) ==
  /\ ppc = "idle"
  /\ writing_idx < LastIdx
  /\ len' = l
  /\ write_idx' = writing_idx
  /\ ppc' = IF HasRoom(read_idx_cache, writing_idx, BlkSz(l))
            THEN AfterRoom(writing_idx, BlkSz(l)) ELSE "refresh"
  /\ UNCHANGED <<ring, indices, id, consumer, history>>

(* Mutants: the wrong index is cached; a full queue is retried. *)
RefreshCache_CachesWritten ==
  /\ ppc = "refresh"
  /\ read_idx_cache' = written_idx
  /\ ppc' = IF HasRoom(written_idx, write_idx, BlkSz(len))
            THEN AfterRoom(write_idx, BlkSz(len)) ELSE "idle"
  /\ UNCHANGED <<ring, writing_idx, written_idx, read_idx, len, write_idx, id,
                 consumer, history>>

RefreshCache_Retries ==
  /\ ppc = "refresh"
  /\ read_idx_cache' = read_idx
  /\ ppc' = IF HasRoom(read_idx, write_idx, BlkSz(len))
            THEN AfterRoom(write_idx, BlkSz(len)) ELSE "refresh"
  /\ UNCHANGED <<ring, writing_idx, written_idx, read_idx, len, write_idx, id,
                 consumer, history>>

(* The cache says there is no room: load read_idx and look again.  Without *)
(* room publish_args returns false and the record is dropped.              *)
RefreshCache ==
  /\ ppc = "refresh"
  /\ read_idx_cache' = read_idx
  /\ ppc' = IF HasRoom(read_idx, write_idx, BlkSz(len))
            THEN AfterRoom(write_idx, BlkSz(len)) ELSE "idle"
  /\ UNCHANGED <<ring, writing_idx, written_idx, read_idx, len, write_idx, id,
                 consumer, history>>

(* Mutant: the marker is published before the record behind it. *)
WriteRewindMarker_Publishes ==
  /\ ppc = "rewind"
  /\ size' = [size EXCEPT ![Slot(write_idx)] = 0]
  /\ write_idx' = wrapping_add(write_idx, Pad(write_idx))
  /\ writing_idx' = write_idx'
  /\ written_idx' = write_idx'
  /\ ppc' = "reserve"
  /\ UNCHANGED <<meta, body, read_idx, read_idx_cache, len, id, consumer, history>>

(* Leave a rewind marker and move to the start of the ring. *)
WriteRewindMarker ==
  /\ ppc = "rewind"
  /\ size' = [size EXCEPT ![Slot(write_idx)] = 0]
  /\ write_idx' = wrapping_add(write_idx, Pad(write_idx))
  /\ writing_idx' = write_idx'
  /\ ppc' = "reserve"
  /\ UNCHANGED <<meta, body, written_idx, read_idx, read_idx_cache, len, id,
                 consumer, history>>

(* The end of try_alloc; write_idx stays the index of the header. *)
Reserve ==
  /\ ppc = "reserve"
  /\ writing_idx' = wrapping_add(write_idx, BlkSz(len))
  /\ accepted' = accepted + 1
  /\ id' = accepted + 1
  /\ ppc' = "header"
  /\ UNCHANGED <<ring, written_idx, read_idx, read_idx_cache, len, write_idx,
                 consumer, published, delivered, seen, frames>>

WriteHeader ==
  /\ ppc = "header"
  /\ meta' = [meta EXCEPT ![Slot(write_idx)] = id]
  /\ ppc' = "payload"
  /\ UNCHANGED <<size, body, indices, len, write_idx, id, consumer, history>>

(* The blocks of the reservation, as copy_nonoverlapping addresses them:   *)
(* consecutive in memory.  The payload also covers the header fields of    *)
(* every block but the first.                                              *)
Reserved == Slot(write_idx) .. Slot(write_idx) + BlkSz(len) - 1

CopyPayload ==
  /\ ppc = "payload"
  /\ \E stray \in StraySizes :
       size' = [s \in Slots |->
                  IF s \in Reserved \ {Slot(write_idx)} THEN stray ELSE size[s]]
  /\ meta' = [s \in Slots |->
                IF s \in Reserved \ {Slot(write_idx)} THEN 0 ELSE meta[s]]
  /\ body' = [s \in Slots |-> IF s \in Reserved THEN id ELSE body[s]]
  /\ ppc' = "commit"
  /\ UNCHANGED <<indices, len, write_idx, id, consumer, history>>

(* Mutant: the header's own bytes are left out. *)
CommitSize_PayloadOnly ==
  /\ ppc = "commit"
  /\ size' = [size EXCEPT ![Slot(write_idx)] = len]
  /\ ppc' = "publish"
  /\ UNCHANGED <<meta, body, indices, len, write_idx, id, consumer, history>>

(* commit: the size goes into the header last ... *)
CommitSize ==
  /\ ppc = "commit"
  /\ size' = [size EXCEPT ![Slot(write_idx)] = TotalBytes(len)]
  /\ ppc' = "publish"
  /\ UNCHANGED <<meta, body, indices, len, write_idx, id, consumer, history>>

(* ... and written_idx catches up with writing_idx; publish_args returns   *)
(* true.  The frame published before the header of the record, if any, is  *)
(* the padding of a rewind.                                                *)
CommitPublish ==
  /\ ppc = "publish"
  /\ written_idx' = writing_idx
  /\ published' = published + 1
  /\ frames' = [p \in DOMAIN frames \union {write_idx, writing_idx} |->
                  IF p = writing_idx THEN published + 1
                  ELSE IF p = write_idx THEN published ELSE frames[p]]
  /\ ppc' = "idle"
  /\ UNCHANGED <<ring, writing_idx, read_idx, read_idx_cache, len, write_idx, id,
                 consumer, accepted, delivered, seen>>

ProducerStep ==
  \/ RefreshCache \/ WriteRewindMarker \/ Reserve
  \/ WriteHeader \/ CopyPayload \/ CommitSize \/ CommitPublish

-----------------------------------------------------------------------------
(* The consumer: the loop of run, which is front, on_record and pop.       *)

(* front up to its test for an empty queue.  An empty queue sends run once *)
(* more round its loop.                                                    *)
FrontLoad ==
  /\ cpc = "front"
  /\ read_idx # written_idx
  /\ end_idx' = written_idx
  /\ cpc' = "scan"
  /\ UNCHANGED <<ring, indices, producer, history>>

(* The indices of the frames that stay when read_idx moves to r. *)
Unreleased(r) == {p \in DOMAIN frames : r <= p}

(* Mutant: the marker is seen but read_idx stays. *)
FrontRewind_Stays ==
  /\ cpc = "scan"
  /\ size[Slot(read_idx)] = 0
  /\ UNCHANGED vars

(* front's loop skips the padding behind a rewind marker ... *)
FrontRewind ==
  /\ cpc = "scan"
  /\ size[Slot(read_idx)] = 0
  /\ read_idx' = wrapping_add(read_idx, Pad(read_idx))
  /\ cpc' = IF read_idx' = end_idx THEN "front" ELSE "scan"
  /\ frames' = [p \in Unreleased(read_idx') |-> frames[p]]
  /\ UNCHANGED <<ring, writing_idx, written_idx, read_idx_cache, producer, end_idx,
                 accepted, published, delivered, seen>>

(* ... and returns the header of the record it arrives at. *)
FrontRecord ==
  /\ cpc = "scan"
  /\ size[Slot(read_idx)] # 0
  /\ cpc' = "record"
  /\ UNCHANGED <<ring, indices, producer, end_idx, history>>

(* The blocks of the record at read_idx that lie in the ring. *)
FrontBlocks ==
  Slots \intersect
    (Slot(read_idx) .. Slot(read_idx) + Blocks(size[Slot(read_idx)]) - 1)

(* The record that header and payload at read_idx make up, 0 when they     *)
(* belong to different records.                                            *)
FrontContent ==
  LET m == meta[Slot(read_idx)]
  IN IF \A s \in FrontBlocks : body[s] = m THEN m ELSE 0

(* The sink formats the record. *)
OnRecord ==
  /\ cpc = "record"
  /\ seen' = FrontContent
  /\ delivered' = delivered + 1
  /\ cpc' = "pop"
  /\ UNCHANGED <<ring, indices, producer, end_idx, accepted, published, frames>>

(* Mutant: one block is released, whatever the size. *)
Pop_OneBlock ==
  /\ cpc = "pop"
  /\ read_idx' = wrapping_add(read_idx, 1)
  /\ frames' = [p \in Unreleased(read_idx') |-> frames[p]]
  /\ cpc' = "front"
  /\ UNCHANGED <<ring, writing_idx, written_idx, read_idx_cache, producer, end_idx,
                 accepted, published, delivered, seen>>

Pop ==
  /\ cpc = "pop"
  /\ read_idx' = wrapping_add(read_idx, Blocks(size[Slot(read_idx)]))
  /\ frames' = [p \in Unreleased(read_idx') |-> frames[p]]
  /\ cpc' = "front"
  /\ UNCHANGED <<ring, writing_idx, written_idx, read_idx_cache, producer, end_idx,
                 accepted, published, delivered, seen>>

ConsumerStep == FrontLoad \/ FrontRewind \/ FrontRecord \/ OnRecord \/ Pop

-----------------------------------------------------------------------------
Next ==
  \/ \E l \in PayloadLens : TryAlloc(l)
  \/ ProducerStep
  \/ ConsumerStep

Spec == Init /\ [][Next]_vars

(***************************************************************************)
(* Both threads keep running: publish_args is straight-line code, and run  *)
(* polls the queue in a loop that neither blocks nor ends.  Nobody is      *)
(* obliged to call publish_args.                                           *)
(***************************************************************************)
FairSpec == Spec /\ WF_vars(ProducerStep) /\ WF_vars(ConsumerStep)

-----------------------------------------------------------------------------
(* Properties.                                                             *)

TypeOK ==
  /\ size \in [Slots -> Nat] /\ meta \in [Slots -> Nat] /\ body \in [Slots -> Nat]
  /\ writing_idx \in Idx /\ written_idx \in Idx
  /\ read_idx \in Idx /\ read_idx_cache \in Idx
  /\ ppc \in {"idle", "refresh", "rewind", "reserve",
               "header", "payload", "commit", "publish"}
  /\ len \in PayloadLens \union {0} /\ write_idx \in Idx /\ id \in Nat
  /\ cpc \in {"front", "scan", "record", "pop"} /\ end_idx \in Idx
  /\ accepted \in Nat /\ published \in Nat /\ delivered \in Nat /\ seen \in Nat
  /\ DOMAIN frames \subseteq Idx
  /\ \A p \in DOMAIN frames : frames[p] \in Nat

Writing == ppc \in {"header", "payload", "commit", "publish"}

(* Whatever the producer has reserved or published and the consumer has    *)
(* not released fits in the ring, so try_alloc never hands out a block     *)
(* that still holds an unread record (the test against min_read_idx).      *)
NoOverrun ==
  /\ read_idx <= written_idx
  /\ written_idx <= writing_idx
  /\ writing_idx - read_idx <= BLK_CNT

(* The region try_alloc returns is contiguous: it ends at the latest with  *)
(* the last block of the ring, so the payload copy stays inside blk.       *)
ReservationContiguous ==
  Writing => Slot(write_idx) + BlkSz(len) <= BLK_CNT

(* What front returns is the next record in publication order, whole: its  *)
(* header and every one of its blocks were written by one publish_args     *)
(* call that has committed, and nothing has overwritten them since.        *)
RecordIntact ==
  cpc = "record" =>
    /\ FrontContent = delivered + 1
    /\ delivered + 1 <= published
    /\ Slot(read_idx) + Blocks(size[Slot(read_idx)]) <= BLK_CNT

(* The debug_assert of pop: the header that front returned has not become  *)
(* a rewind marker by the time pop reads it again.                         *)
PopSizeNonZero == cpc = "pop" => size[Slot(read_idx)] # 0

(* A rewind marker is published together with the record behind it: after  *)
(* skipping the padding, front always finds a record and never takes its   *)
(* second exit with None.                                                  *)
RewindLeadsToRecord ==
  cpc = "scan" /\ size[Slot(read_idx)] = 0 =>
    /\ wrapping_add(read_idx, Pad(read_idx)) # end_idx
    /\ size[0] # 0

(* A queue that the consumer has drained has room for every record of at   *)
(* most half the ring, wherever the indices stand: read_idx is then        *)
(* write_idx, and write_idx + needed - BLK_CNT is not above it.            *)
DrainedAccepts ==
  [][ppc = "refresh" /\ ppc' = "idle" /\ 2 * BlkSz(len) <= BLK_CNT
       => read_idx # written_idx]_vars

(* Where index i has the sign bit, and the least read_idx for a record of  *)
(* b blocks does not: 2^31 and the next blocks, less than a ring.          *)
AtSignBit(i, b) == IDX_HALF <= i /\ (i + Needed(i, b)) - BLK_CNT < IDX_HALF

(* A queue that the consumer has drained refuses a record of at most half  *)
(* the ring there and nowhere else, for whatever cached read_idx and       *)
(* through every wrap-around; since a refusal moves no index, it then      *)
(* refuses that record for ever.                                           *)
DrainedRefusal ==
  [][ppc = "refresh" /\ ppc' # "refresh" /\ read_idx = written_idx
       /\ 2 * BlkSz(len) <= BLK_CNT
       => (ppc' = "idle" <=> AtSignBit(write_idx, BlkSz(len)))]_vars

-----------------------------------------------------------------------------
(* The inductive invariant behind these properties.                        *)

(* try_alloc compares indices as signed integers.  The comparison means    *)
(* what it should as long as no index it computes reaches the sign bit.    *)
BelowSignBit == \A l \in PayloadLens : LastIdx + BlkSz(l) <= IDX_HALF

(* How far the producer is: the record goes where the last one ended, or,  *)
(* behind a marker there, to the start of the ring.                        *)
Behind ==
  \/ write_idx = written_idx
  \/ /\ write_idx = written_idx + Pad(written_idx)
     /\ size[Slot(written_idx)] = 0

ProducerInv ==
  /\ read_idx_cache <= read_idx
  /\ ppc # "idle" => len \in PayloadLens /\ written_idx < LastIdx
  /\ ppc \in {"idle", "refresh", "rewind"} => writing_idx = written_idx
  /\ ppc \in {"refresh", "rewind"} => write_idx = written_idx
  /\ ppc = "rewind" =>
       /\ Rewind(write_idx, BlkSz(len))
       /\ write_idx + Pad(write_idx) + BlkSz(len) - read_idx <= BLK_CNT
  /\ ppc = "reserve" =>
       /\ writing_idx = write_idx /\ Behind
       /\ write_idx + BlkSz(len) - read_idx <= BLK_CNT
       /\ BlkSz(len) <= Pad(write_idx)
  /\ Writing =>
       /\ writing_idx = write_idx + BlkSz(len) /\ Behind
       /\ BlkSz(len) <= Pad(write_idx)
       /\ id = published + 1
  /\ ppc \in {"payload", "commit", "publish"} => meta[Slot(write_idx)] = id
  /\ ppc \in {"commit", "publish"} => \A s \in Reserved : body[s] = id
  /\ ppc = "publish" => size[Slot(write_idx)] = TotalBytes(len)
  /\ accepted = IF Writing THEN published + 1 ELSE published

(* A published frame at index p: padding up to the start of the ring with  *)
(* a record behind it, or a record.                                        *)
PaddingAt(p) ==
  /\ size[Slot(p)] = 0
  /\ p + Pad(p) \in DOMAIN frames \ {written_idx}
  /\ frames[p + Pad(p)] = frames[p]
  /\ size[0] # 0

RecordAt(p) ==
  LET b == Blocks(size[Slot(p)]) IN
  /\ size[Slot(p)] # 0
  /\ p + b \in DOMAIN frames
  /\ frames[p + b] = frames[p] + 1
  /\ Slot(p) + b <= BLK_CNT
  /\ meta[Slot(p)] = frames[p] + 1
  /\ \A s \in Slot(p) .. Slot(p) + b - 1 : body[s] = frames[p] + 1

FramesInv ==
  /\ {read_idx, written_idx} \subseteq DOMAIN frames
  /\ DOMAIN frames \subseteq read_idx .. written_idx
  /\ frames[written_idx] = published
  /\ \A p, q \in DOMAIN frames : p <= q => frames[p] <= frames[q]
  /\ \A p \in DOMAIN frames \ {written_idx} : PaddingAt(p) \/ RecordAt(p)

ConsumerInv ==
  /\ frames[read_idx] = IF cpc = "pop" THEN delivered - 1 ELSE delivered
  /\ cpc = "scan" => end_idx \in DOMAIN frames /\ frames[end_idx] > delivered
  /\ cpc \in {"record", "pop"} =>
       read_idx # written_idx /\ size[Slot(read_idx)] # 0
  /\ cpc = "pop" => seen = delivered

IndInv == TypeOK /\ NoOverrun /\ ProducerInv /\ FramesInv /\ ConsumerInv

-----------------------------------------------------------------------------
(* The queue implements the channel: what the back end has not seen yet is *)
(* the range of record numbers between delivered and published.            *)
Channel ==
  INSTANCE LogChannel WITH
    queue <- [i \in 1 .. published - delivered |-> delivered + i]

(* Every step of the ring is a step of the abstract channel or leaves it   *)
(* alone: records published are seen once each, whole and in order.        *)
ImplementsChannel == Channel!Spec

(* ... and, since both threads keep running, every record published is     *)
(* eventually seen by the sink.                                            *)
ImplementsLiveChannel == Channel!LiveSpec

(* publish_args always returns, whatever the consumer does: a full queue   *)
(* drops the record instead of waiting.                                    *)
PublishReturns == ppc # "idle" ~> ppc = "idle"
=============================================================================
