---------------------------- MODULE LoggerProofs ----------------------------
(***************************************************************************)
(* Proofs about Logger: the whole way of a record from publish_args to     *)
(* stdout, for every ring, every set of record and text sizes, every       *)
(* threshold of the sink and every number of calls that keeps the indices  *)
(* below the sign bit (Ring!BelowSignBit).  What is needed of the ring is  *)
(* taken from SpscVarQueueProofs.                                          *)
(***************************************************************************)
EXTENDS Logger, SequenceTheorems, TLAPS

RP == INSTANCE SpscVarQueueProofs

-----------------------------------------------------------------------------
(* The ring: Ring and RP instantiate the same definitions.                 *)

LEMMA SameRing ==
  /\ Ring!Init <=> RP!Init
  /\ Ring!BelowSignBit <=> RP!BelowSignBit
  /\ Ring!TypeOK <=> RP!TypeOK
  /\ Ring!IndInv <=> RP!IndInv
  /\ Ring!FrontContent = RP!FrontContent
BY DEF Ring!IDX_MOD, RP!IDX_MOD, Ring!Slots, RP!Slots, Ring!Idx, RP!Idx,
       Ring!BLOCK_SIZE, RP!BLOCK_SIZE, Ring!MSG_HEADER_SIZE, RP!MSG_HEADER_SIZE,
       Ring!div_ceil, RP!div_ceil, Ring!Blocks, RP!Blocks,
       Ring!TotalBytes, RP!TotalBytes, Ring!BlkSz, RP!BlkSz, Ring!Slot, RP!Slot,
       Ring!Pad, RP!Pad, Ring!Rewind, RP!Rewind, Ring!Reserved, RP!Reserved,
       Ring!FrontBlocks, RP!FrontBlocks, Ring!FrontContent, RP!FrontContent,
       Ring!TypeOK, RP!TypeOK, Ring!NoOverrun, RP!NoOverrun,
       Ring!ProducerInv, RP!ProducerInv, Ring!Behind, RP!Behind,
       Ring!Writing, RP!Writing, Ring!FramesInv, RP!FramesInv,
       Ring!PaddingAt, RP!PaddingAt, Ring!RecordAt, RP!RecordAt,
       Ring!ConsumerInv, RP!ConsumerInv, Ring!IndInv, RP!IndInv,
       Ring!BelowSignBit, RP!BelowSignBit, Ring!Init, RP!Init

LEMMA SameSteps ==
  /\ \A l : Ring!TryAlloc(l) <=> RP!TryAlloc(l)
  /\ Ring!RefreshCache <=> RP!RefreshCache
  /\ Ring!WriteRewindMarker <=> RP!WriteRewindMarker
  /\ Ring!Reserve <=> RP!Reserve
  /\ Ring!WriteHeader <=> RP!WriteHeader
  /\ Ring!CopyPayload <=> RP!CopyPayload
  /\ Ring!CommitSize <=> RP!CommitSize
  /\ Ring!CommitPublish <=> RP!CommitPublish
  /\ Ring!FrontLoad <=> RP!FrontLoad
  /\ Ring!FrontRewind <=> RP!FrontRewind
  /\ Ring!FrontRecord <=> RP!FrontRecord
  /\ Ring!OnRecord <=> RP!OnRecord
  /\ Ring!Pop <=> RP!Pop
BY DEF Ring!IDX_MOD, RP!IDX_MOD, Ring!Slots, RP!Slots, Ring!Idx, RP!Idx,
       Ring!BLOCK_SIZE, RP!BLOCK_SIZE, Ring!MSG_HEADER_SIZE, RP!MSG_HEADER_SIZE,
       Ring!div_ceil, RP!div_ceil, Ring!Blocks, RP!Blocks,
       Ring!TotalBytes, RP!TotalBytes, Ring!BlkSz, RP!BlkSz, Ring!Slot, RP!Slot,
       Ring!Pad, RP!Pad, Ring!wrapping_add, RP!wrapping_add,
       Ring!wrapping_sub, RP!wrapping_sub, Ring!as_i32, RP!as_i32,
       Ring!Rewind, RP!Rewind, Ring!Needed, RP!Needed, Ring!MinReadIdx, RP!MinReadIdx,
       Ring!HasRoom, RP!HasRoom, Ring!AfterRoom, RP!AfterRoom,
       Ring!Reserved, RP!Reserved, Ring!Unreleased, RP!Unreleased,
       Ring!FrontBlocks, RP!FrontBlocks, Ring!FrontContent, RP!FrontContent,
       Ring!ring, RP!ring, Ring!indices, RP!indices, Ring!producer, RP!producer,
       Ring!consumer, RP!consumer, Ring!history, RP!history, Ring!vars, RP!vars,
       Ring!TryAlloc, RP!TryAlloc, Ring!RefreshCache, RP!RefreshCache,
       Ring!WriteRewindMarker, RP!WriteRewindMarker, Ring!Reserve, RP!Reserve,
       Ring!WriteHeader, RP!WriteHeader, Ring!CopyPayload, RP!CopyPayload,
       Ring!CommitSize, RP!CommitSize, Ring!CommitPublish, RP!CommitPublish,
       Ring!FrontLoad, RP!FrontLoad, Ring!FrontRewind, RP!FrontRewind,
       Ring!FrontRecord, RP!FrontRecord, Ring!OnRecord, RP!OnRecord, Ring!Pop, RP!Pop

LEMMA SameInvNext == Ring!IndInv' <=> RP!IndInv'
<1>1. Ring!IndInv <=> RP!IndInv
  BY SameRing
<1>. QED BY <1>1, PTL

LEMMA RingInit == Ring!Init => Ring!IndInv
<1>1. RP!Init => RP!IndInv
  BY RP!InitInv, RingAssumption
<1>. QED BY <1>1, SameRing

(* The steps of the two threads on the ring preserve its invariant. *)
LEMMA RingNext ==
  ASSUME Ring!BelowSignBit, Ring!IndInv,
         \/ \E l \in PayloadLens : Ring!TryAlloc(l)
         \/ Ring!RefreshCache \/ Ring!WriteRewindMarker \/ Ring!Reserve \/ Ring!WriteHeader
         \/ Ring!CopyPayload \/ Ring!CommitSize \/ Ring!CommitPublish
         \/ Ring!FrontLoad \/ Ring!FrontRewind \/ Ring!FrontRecord \/ Ring!OnRecord \/ Ring!Pop
         \/ UNCHANGED ringVars
  PROVE  Ring!IndInv'
<1>1. RP!BelowSignBit /\ RP!IndInv
  BY SameRing
<1>2. RP!Next \/ UNCHANGED RP!vars
  BY SameSteps DEF RP!Next, RP!ProducerStep, RP!ConsumerStep, ringVars,
     RP!vars, RP!ring, RP!indices, RP!producer, RP!consumer, RP!history
<1>3. RP!IndInv'
  BY <1>1, <1>2, RP!NextInv, RingAssumption
<1>. QED BY <1>3, SameInvNext

(* What the invariant of the ring says about the channel. *)
LEMMA RingFacts ==
  ASSUME Ring!IndInv
  PROVE  /\ Ring!TypeOK
         /\ delivered \in Nat /\ published \in Nat /\ delivered <= published
         /\ cpc = "record" => Ring!FrontContent = delivered + 1 /\ delivered + 1 <= published
         /\ cpc = "front" /\ read_idx = written_idx => delivered = published
<1>1. RP!IndInv
  BY SameRing
<1>2. delivered \in Nat /\ published \in Nat /\ delivered <= published
  BY <1>1, RP!DeliveredPublished, RingAssumption
<1>3. ASSUME cpc = "record"
      PROVE  Ring!FrontContent = delivered + 1 /\ delivered + 1 <= published
  <2>1. frames[read_idx] = delivered
    BY <1>1, <1>3 DEF RP!IndInv, RP!ConsumerInv
  <2>2. RP!FrontContent = frames[read_idx] + 1 /\ frames[read_idx] + 1 <= published
    BY <1>1, <1>3, RP!RecordFacts, RingAssumption
  <2>. QED BY <2>1, <2>2, SameRing
<1>4. cpc = "front" /\ read_idx = written_idx => delivered = published
  BY <1>1 DEF RP!IndInv, RP!ConsumerInv, RP!FramesInv
<1>. QED BY <1>2, <1>3, <1>4 DEF Ring!IndInv

-----------------------------------------------------------------------------
(* Sequences of record numbers.                                            *)

LEMMA NumbersFacts ==
  ASSUME NEW n \in Nat
  PROVE  /\ Numbers(n) \in Seq(Nat) /\ Len(Numbers(n)) = n
         /\ \A i \in 1 .. n : Numbers(n)[i] = i
BY DEF Numbers

(* A sequence is Numbers(n) when each entry is its own place. *)
LEMMA IsNumbers ==
  ASSUME NEW s \in Seq(Nat), \A i \in 1 .. Len(s) : s[i] = i
  PROVE  s = Numbers(Len(s))
<1>1. Len(s) \in Nat /\ DOMAIN s = 1 .. Len(s) /\ s = [i \in 1 .. Len(s) |-> s[i]]
  OBVIOUS
<1>. QED BY <1>1 DEF Numbers

(* Two sequences that make up Numbers(n): as a whole, and entry by entry. *)
MakeUp(s, t, n) == s \o t = Numbers(n)
InPlace(s, t, n) ==
  /\ Len(s) + Len(t) = n
  /\ \A i \in 1 .. Len(s) : s[i] = i
  /\ \A i \in 1 .. Len(t) : t[i] = Len(s) + i

LEMMA SplitNumbers ==
  ASSUME NEW s \in Seq(Nat), NEW t \in Seq(Nat), NEW n \in Nat, MakeUp(s, t, n)
  PROVE  InPlace(s, t, n)
<1>. DEFINE c == s \o t
<1>1. /\ Len(c) = Len(s) + Len(t) /\ Len(s) \in Nat /\ Len(t) \in Nat
      /\ \A i \in 1 .. Len(s) : c[i] = s[i]
      /\ \A i \in 1 .. Len(t) : c[Len(s) + i] = t[i]
  OBVIOUS
<1>2. c = Numbers(n)
  BY DEF MakeUp
<1>. HIDE DEF c
<1>3. Len(s) + Len(t) = n
  BY <1>1, <1>2, NumbersFacts
<1>4. \A i \in 1 .. n : c[i] = i
  BY <1>2, NumbersFacts
<1>5. \A i \in 1 .. Len(s) : s[i] = i
  BY <1>1, <1>3, <1>4
<1>6. \A i \in 1 .. Len(t) : t[i] = Len(s) + i
  <2>. SUFFICES ASSUME NEW i \in 1 .. Len(t) PROVE t[i] = Len(s) + i
    OBVIOUS
  <2>1. Len(s) + i \in 1 .. n
    BY <1>1, <1>3
  <2>. QED BY <1>1, <1>4, <2>1
<1>. QED BY <1>3, <1>5, <1>6 DEF InPlace

(* ... and put together again. *)
LEMMA JoinNumbers ==
  ASSUME NEW s \in Seq(Nat), NEW t \in Seq(Nat),
         \A i \in 1 .. Len(s) : s[i] = i, \A i \in 1 .. Len(t) : t[i] = Len(s) + i
  PROVE  s \o t = Numbers(Len(s) + Len(t))
<1>. DEFINE c == s \o t
<1>1. /\ c \in Seq(Nat) /\ Len(c) = Len(s) + Len(t) /\ Len(s) \in Nat /\ Len(t) \in Nat
      /\ \A i \in 1 .. Len(s) : c[i] = s[i]
      /\ \A i \in 1 .. Len(t) : c[Len(s) + i] = t[i]
  OBVIOUS
<1>. HIDE DEF c
<1>2. ASSUME NEW i \in 1 .. Len(c) PROVE c[i] = i
  <2>1. CASE i <= Len(s)
    <3>1. i \in 1 .. Len(s)
      BY <1>1, <2>1
    <3>. QED BY <1>1, <3>1
  <2>2. CASE i > Len(s)
    <3>1. i - Len(s) \in 1 .. Len(t) /\ Len(s) + (i - Len(s)) = i
      BY <1>1, <2>2
    <3>. QED BY <1>1, <3>1
  <2>. QED BY <1>1, <2>1, <2>2
<1>3. c = Numbers(Len(c))
  BY <1>1, <1>2, IsNumbers
<1>. QED BY <1>1, <1>3 DEF c

-----------------------------------------------------------------------------
(* The invariant.                                                          *)

(* What the steps below need of types and constants. *)
LEMMA NumFacts ==
  ASSUME IndInv
  PROVE  /\ delivered \in Nat /\ published \in Nat /\ delivered <= published
         /\ batch_len \in Nat /\ scratch_pos \in Nat /\ age \in Nat /\ tsc \in Nat
         /\ tsc <= age /\ age <= FlushInterval /\ calls \in Nat /\ num_droped \in Nat
         /\ no_data \in {0, 1} /\ num_loop \in Nat /\ num_loop <= IdleLoops
         /\ FlushInterval \in Nat \ {0} /\ FlushBytes \in Nat \ {0} /\ ScratchLen \in Nat
         /\ PrefixLen \in Nat /\ IdleLoops \in Nat \ {0} /\ TextLens \subseteq Nat
<1>1. delivered \in Nat /\ published \in Nat /\ delivered <= published
  BY RingFacts DEF IndInv
<1>2. /\ batch_len \in Nat /\ scratch_pos \in Nat /\ calls \in Nat /\ num_droped \in Nat
      /\ tsc \in 0 .. FlushInterval /\ age \in 0 .. FlushInterval
      /\ no_data \in {0, 1} /\ num_loop \in 0 .. IdleLoops
  BY DEF IndInv, TypeOK, SinkTypeOK
<1>3. tsc <= age
  BY DEF IndInv, ChannelInv
<1>. QED BY <1>1, <1>2, <1>3, SizesAssumption

LEMMA SeqFacts ==
  ASSUME IndInv
  PROVE  /\ text \in Seq(TextLens) /\ stamp \in Seq(0 .. FlushInterval)
         /\ batch \in Seq(Nat) /\ out \in Seq(Nat) /\ Len(out) \in Nat /\ Len(batch) \in Nat
BY DEF IndInv, TypeOK, SinkTypeOK

LEMMA InitInv == Init => IndInv
<1>. SUFFICES ASSUME Init PROVE IndInv
  OBVIOUS
<1>1. Ring!IndInv /\ Ring!TypeOK
  BY RingInit, RingFacts DEF Init
<1>2. published = 0 /\ delivered = 0 /\ ppc = "idle"
  BY DEF Init, Ring!Init
<1>3. TypeOK
  BY <1>1, SizesAssumption DEF Init, SinkInit, TypeOK, SinkTypeOK
<1>4. << >> \o << >> = Numbers(0) /\ << >> = Numbers(0)
  BY DEF Numbers
<1>5. LinesInOrder /\ OutputInv
  BY <1>2, <1>4 DEF Init, SinkInit, LinesInOrder, OutputInv
<1>6. ChannelInv
  BY <1>2 DEF Init, SinkInit, ChannelInv
<1>7. SinkInv
  BY SizesAssumption DEF Init, SinkInit, SinkInv, ScratchInBounds, BatchBounded
<1>8. CallsCounted
  BY <1>2 DEF Init, CallsCounted
<1>. QED BY <1>1, <1>3, <1>5, <1>6, <1>7, <1>8 DEF IndInv

(* Steps on the ring that neither publish nor deliver a record. *)
LEMMA QuietInv ==
  ASSUME IndInv, Ring!IndInv', CallsCounted',
         UNCHANGED <<published, delivered, queue, sinkVars>>,
         tsc' \in {tsc, age}, calls' \in Nat, num_droped' \in Nat
  PROVE  IndInv'
<1>1. UNCHANGED <<published, delivered, queue, text, stamp, rpc, no_data, num_loop,
                  scratch_pos, batch, batch_len, age, out>>
  BY DEF sinkVars, records, loop
<1>2. tsc' \in 0 .. FlushInterval /\ tsc' <= age
  <2>1. /\ tsc \in Nat /\ age \in Nat /\ FlushInterval \in Nat
        /\ tsc <= age /\ age <= FlushInterval
    BY NumFacts
  <2>2. CASE tsc' = tsc
    BY <2>1, <2>2
  <2>3. CASE tsc' = age
    BY <2>1, <2>3
  <2>. QED BY <2>2, <2>3
<1>3. Ring!TypeOK'
  BY DEF Ring!IndInv
<1>4. TypeOK'
  BY <1>1, <1>2, <1>3 DEF IndInv, TypeOK, SinkTypeOK
<1>5. LinesInOrder' /\ OutputInv' /\ SinkInv'
  BY <1>1 DEF IndInv, LinesInOrder, OutputInv, SinkInv, ScratchInBounds, BatchBounded
<1>6. ChannelInv'
  BY <1>1, <1>2 DEF IndInv, ChannelInv
<1>. QED BY <1>4, <1>5, <1>6 DEF IndInv

LEMMA LogCallInv ==
  ASSUME Ring!BelowSignBit, IndInv, LogCall
  PROVE  IndInv'
<1>1. PICK l \in PayloadLens : Ring!TryAlloc(l)
  BY DEF LogCall
<1>2. Ring!IndInv'
  BY <1>1, RingNext DEF IndInv
<1>3. /\ ppc = "idle" /\ ppc' # "idle" /\ UNCHANGED <<published, delivered>>
      /\ calls' = calls + 1 /\ UNCHANGED <<queue, sinkVars, tsc, num_droped>>
  BY <1>1 DEF LogCall, Ring!TryAlloc, Ring!AfterRoom, Ring!history
<1>4. CallsCounted'
  BY <1>3, NumFacts DEF IndInv, CallsCounted
<1>. QED BY <1>2, <1>3, <1>4, NumFacts, QuietInv

LEMMA LookAgainInv ==
  ASSUME Ring!BelowSignBit, IndInv, LookAgain
  PROVE  IndInv'
<1>1. Ring!IndInv'
  BY RingNext DEF IndInv, LookAgain
<1>2. /\ ppc # "idle" /\ UNCHANGED <<published, delivered>>
      /\ num_droped' = IF ppc' = "idle" THEN num_droped + 1 ELSE num_droped
      /\ UNCHANGED <<queue, sinkVars, tsc, calls>>
  BY DEF LookAgain, Ring!RefreshCache, Ring!history
<1>3. CallsCounted'
  BY <1>2, NumFacts DEF IndInv, CallsCounted
<1>4. num_droped' \in Nat
  BY <1>2, NumFacts
<1>. QED BY <1>1, <1>2, <1>3, <1>4, NumFacts, QuietInv

LEMMA WriteRecordInv ==
  ASSUME Ring!BelowSignBit, IndInv, WriteRecord
  PROVE  IndInv'
<1>1. Ring!IndInv'
  BY RingNext DEF IndInv, WriteRecord
<1>2. UNCHANGED <<queue, sinkVars, tsc, calls, num_droped>>
  BY DEF WriteRecord, caller
<1>3. ppc # "idle" /\ ppc' # "idle" /\ UNCHANGED <<published, delivered>>
  BY DEF WriteRecord, Ring!WriteRewindMarker, Ring!Reserve, Ring!CopyPayload,
         Ring!CommitSize, Ring!history
<1>4. CallsCounted'
  BY <1>2, <1>3 DEF IndInv, CallsCounted
<1>. QED BY <1>1, <1>2, <1>3, <1>4, NumFacts, QuietInv

LEMMA WriteHeaderInv ==
  ASSUME Ring!BelowSignBit, IndInv, WriteHeader
  PROVE  IndInv'
<1>1. Ring!IndInv'
  BY RingNext DEF IndInv, WriteHeader
<1>2. /\ ppc # "idle" /\ ppc' # "idle" /\ UNCHANGED <<published, delivered>>
      /\ tsc' = age /\ UNCHANGED <<queue, sinkVars, calls, num_droped>>
  BY DEF WriteHeader, Ring!WriteHeader, Ring!history
<1>3. CallsCounted'
  BY <1>2 DEF IndInv, CallsCounted
<1>. QED BY <1>1, <1>2, <1>3, NumFacts, QuietInv

LEMMA RunFrontInv ==
  ASSUME Ring!BelowSignBit, IndInv, RunFront \/ RunPop
  PROVE  IndInv'
<1>1. Ring!IndInv'
  BY RingNext DEF IndInv, RunFront, RunPop
<1>2. UNCHANGED <<queue, sinkVars, tsc, calls, num_droped>>
  BY DEF RunFront, RunPop, caller
<1>3. UNCHANGED <<ppc, published, delivered>>
  BY DEF RunFront, RunPop, Ring!FrontLoad, Ring!FrontRewind, Ring!FrontRecord, Ring!Pop,
         Ring!producer, Ring!history
<1>4. CallsCounted'
  BY <1>2, <1>3 DEF IndInv, CallsCounted
<1>. QED BY <1>1, <1>2, <1>3, <1>4, NumFacts, QuietInv

(* The queue of the channel gains the number of a published record and     *)
(* loses that of a delivered one.                                          *)
LEMMA QueueFacts ==
  ASSUME NEW d \in Nat, NEW p \in Nat, d <= p
  PROVE  /\ Append(RP!Numbers(d, p), p + 1) = RP!Numbers(d, p + 1)
         /\ d < p => /\ RP!Numbers(d, p) # << >> /\ Head(RP!Numbers(d, p)) = d + 1
                     /\ SubSeq(RP!Numbers(d, p), 2, Len(RP!Numbers(d, p))) = RP!Numbers(d + 1, p)
                     /\ Tail(RP!Numbers(d, p)) = RP!Numbers(d + 1, p)
         /\ d = p => RP!Numbers(d, p) = << >>
<1>. DEFINE q == RP!Numbers(d, p)
<1>1. /\ q \in Seq(Nat) /\ Len(q) = p - d /\ Append(q, p + 1) = RP!Numbers(d, p + 1)
      /\ d < p => q # << >> /\ Head(q) = d + 1 /\ Tail(q) = RP!Numbers(d + 1, p)
      /\ d = p => q = << >>
  BY RP!NumbersFacts, RingAssumption
<1>2. d < p => SubSeq(q, 2, Len(q)) = Tail(q)
  <2>. HIDE DEF q
  <2>. QED BY <1>1, TailIsSubSeq
<1>. QED BY <1>1, <1>2

LEMMA QueueIs == ChannelInv => queue = RP!Numbers(delivered, published)
BY DEF ChannelInv, RP!Numbers

LEMMA PublishInv ==
  ASSUME Ring!BelowSignBit, IndInv, Publish
  PROVE  IndInv'
<1>1. Ring!IndInv'
  BY RingNext DEF IndInv, Publish
<1>2. /\ published' = published + 1 /\ delivered' = delivered
      /\ ppc # "idle" /\ ppc' = "idle" /\ UNCHANGED <<tsc, calls, num_droped>>
  BY DEF Publish, Ring!CommitPublish, caller
<1>3. PICK n \in TextLens : text' = Append(text, n) /\ stamp' = Append(stamp, tsc)
  BY DEF Publish, Record
<1>4. UNCHANGED <<rpc, no_data, num_loop, scratch_pos, batch, batch_len, age, out>>
  BY DEF Publish, Record, loop
<1>5. /\ text' \in Seq(TextLens) /\ Len(text') = Len(text) + 1
      /\ stamp' \in Seq(0 .. FlushInterval) /\ Len(stamp') = Len(stamp) + 1
  <2>1. tsc \in 0 .. FlushInterval
    BY NumFacts
  <2>. QED BY <1>3, <2>1, SeqFacts
<1>6. TypeOK'
  <2>1. Ring!TypeOK'
    BY <1>1 DEF Ring!IndInv
  <2>. QED BY <1>2, <1>4, <1>5, <2>1 DEF IndInv, TypeOK, SinkTypeOK
<1>7. LinesInOrder' /\ OutputInv' /\ SinkInv'
  BY <1>2, <1>4 DEF IndInv, LinesInOrder, OutputInv, SinkInv, ScratchInBounds, BatchBounded
<1>8. ChannelInv'
  <2>1. queue' = Append(queue, published + 1)
    BY <1>2 DEF Publish
  <2>2. delivered \in Nat /\ published \in Nat /\ delivered <= published
    BY NumFacts
  <2>3. queue = RP!Numbers(delivered, published)
    BY QueueIs DEF IndInv
  <2>4. queue' = RP!Numbers(delivered, published + 1)
    BY <2>1, <2>2, <2>3, QueueFacts
  <2>5. queue' = [i \in 1 .. (published + 1) - delivered |-> delivered + i]
    BY <2>4 DEF RP!Numbers
  <2>. QED BY <1>2, <1>4, <1>5, <2>5 DEF IndInv, ChannelInv
<1>9. CallsCounted'
  BY <1>2, NumFacts DEF IndInv, CallsCounted
<1>. QED BY <1>1, <1>6, <1>7, <1>8, <1>9 DEF IndInv

(* The record that the sink gets, and what that does to the channel. *)
LEMMA DeliverFacts ==
  ASSUME Ring!BelowSignBit, IndInv, RunRecord
  PROVE  /\ Ring!IndInv' /\ CallsCounted' /\ seen' = delivered + 1
         /\ delivered' = delivered + 1 /\ delivered < published /\ published' = published
         /\ queue # << >> /\ seen' = Head(queue) /\ queue' = Tail(queue)
         /\ queue' = RP!Numbers(delivered + 1, published)
         /\ UNCHANGED <<tsc, calls, num_droped>>
<1>1. Ring!IndInv'
  BY RingNext DEF IndInv, RunRecord
<1>2. /\ cpc = "record" /\ seen' = Ring!FrontContent /\ delivered' = delivered + 1
      /\ UNCHANGED <<ppc, published, tsc, calls, num_droped>>
  BY DEF RunRecord, Ring!OnRecord, Ring!producer, caller
<1>3. seen' = delivered + 1 /\ delivered < published
  <2>1. Ring!FrontContent = delivered + 1 /\ delivered + 1 <= published
    BY <1>2, RingFacts DEF IndInv
  <2>. QED BY <1>2, <2>1, NumFacts
<1>4. queue' = SubSeq(queue, 2, Len(queue))
  BY DEF RunRecord
<1>5. /\ queue # << >> /\ Head(queue) = delivered + 1
      /\ SubSeq(queue, 2, Len(queue)) = RP!Numbers(delivered + 1, published)
      /\ Tail(queue) = RP!Numbers(delivered + 1, published)
  <2>1. delivered \in Nat /\ published \in Nat /\ delivered <= published
    BY NumFacts
  <2>2. queue = RP!Numbers(delivered, published)
    BY QueueIs DEF IndInv
  <2>. QED BY <1>3, <2>1, <2>2, QueueFacts
<1>6. CallsCounted'
  BY <1>2 DEF IndInv, CallsCounted
<1>. QED BY <1>1, <1>2, <1>3, <1>4, <1>5, <1>6

LEMMA RunRecordInv ==
  ASSUME Ring!BelowSignBit, IndInv, RunRecord
  PROVE  IndInv'
<1>. DEFINE r == delivered + 1
<1>1. Ring!IndInv' /\ CallsCounted' /\ Ring!TypeOK'
  BY DeliverFacts DEF Ring!IndInv
<1>2. /\ rpc = "front" /\ UNCHANGED <<text, stamp, num_loop, age, out>>
      /\ Format(r) \/ FormatPanics(r)
  <2>1. Format(r) \/ FormatPanics(r)
    BY DeliverFacts DEF RunRecord
  <2>. QED BY <2>1 DEF Format, FormatPanics, records, loop
<1>3. ChannelInv'
  BY <1>2, DeliverFacts DEF IndInv, ChannelInv, RP!Numbers
<1>4. r \in 1 .. Len(text) /\ text[r] \in Nat /\ LineLen(r) \in Nat
  <2>0. Len(text) = published /\ delivered \in Nat /\ published \in Nat /\ delivered < published
    BY NumFacts, DeliverFacts DEF IndInv, ChannelInv
  <2>1. r \in 1 .. Len(text)
    BY <2>0
  <2>2. text[r] \in TextLens
    BY <2>1, SeqFacts
  <2>3. text[r] \in Nat /\ PrefixLen \in Nat
    BY <2>2, SizesAssumption
  <2>4. LineLen(r) \in Nat
    BY <2>3 DEF LineLen
  <2>. QED BY <2>1, <2>3, <2>4
<1>5. /\ Len(out) + Len(batch) = delivered
      /\ \A i \in 1 .. Len(out) : out[i] = i
      /\ \A i \in 1 .. Len(batch) : batch[i] = Len(out) + i
  <2>1. MakeUp(out, batch, delivered)
    BY <1>2 DEF IndInv, LinesInOrder, MakeUp
  <2>2. out \in Seq(Nat) /\ batch \in Seq(Nat)
    BY SeqFacts
  <2>3. delivered \in Nat
    BY NumFacts
  <2>4. InPlace(out, batch, delivered)
    BY <2>1, <2>2, <2>3, SplitNumbers
  <2>. QED BY <2>4 DEF InPlace
<1>6. OutputInv'
  <2>1. Len(out) <= delivered + 1
    <3>1. Len(out) <= delivered
      BY DEF IndInv, OutputInv
    <3>2. Len(out) \in Nat
      BY SeqFacts
    <3>3. delivered \in Nat
      BY NumFacts
    <3>. QED BY <3>1, <3>2, <3>3
  <2>. QED BY <1>2, <2>1, DeliverFacts DEF IndInv, OutputInv
<1>9. delivered' = r
  BY DeliverFacts
<1>. r \in Nat /\ r = delivered + 1 /\ delivered' = r
  <2>1. delivered \in Nat
    BY NumFacts
  <2>. QED BY <1>9, <2>1
<1>. HIDE DEF r
<1>7. CASE Format(r)
  <2>1. /\ LineLen(r) < ScratchLen /\ scratch_pos' = LineLen(r) + 1
        /\ batch' = Append(batch, r) /\ batch_len' = batch_len + (LineLen(r) + 1)
        /\ rpc' = IF ShouldFlush(batch_len', stamp[r]) THEN "flush" ELSE "front"
        /\ no_data' = 0
    BY <1>7 DEF Format, Fits
  <2>2. /\ batch' \in Seq(Nat) /\ Len(batch') = Len(batch) + 1
        /\ \A i \in 1 .. Len(batch) : batch'[i] = batch[i]
        /\ batch'[Len(batch) + 1] = r
    BY <2>1, NumFacts, SeqFacts
  <2>3. scratch_pos' \in Nat /\ batch_len' \in Nat /\ scratch_pos' <= ScratchLen
        /\ batch_len' <= batch_len + ScratchLen
    <3>1. /\ scratch_pos' = LineLen(r) + 1 /\ batch_len' = batch_len + (LineLen(r) + 1)
          /\ LineLen(r) < ScratchLen /\ LineLen(r) \in Nat
          /\ batch_len \in Nat /\ ScratchLen \in Nat
      BY <1>4, <2>1, NumFacts
    <3>. HIDE DEF LineLen
    <3>. QED BY <3>1
  <2>4. TypeOK'
    BY <1>1, <1>2, <2>1, <2>2, <2>3, DeliverFacts DEF IndInv, TypeOK, SinkTypeOK
  <2>5. LinesInOrder'
    <3>1. Len(out) + Len(batch') = r
      BY <1>5, <2>2, NumFacts, SeqFacts
    <3>2. \A i \in 1 .. Len(batch') : batch'[i] = Len(out) + i
      <4>. SUFFICES ASSUME NEW i \in 1 .. Len(batch') PROVE batch'[i] = Len(out) + i
        OBVIOUS
      <4>1. i \in 1 .. Len(batch) \/ i = Len(batch) + 1
        BY <2>2, SeqFacts
      <4>2. CASE i \in 1 .. Len(batch)
        BY <4>2, <1>5, <2>2
      <4>3. CASE i = Len(batch) + 1
        BY <4>3, <2>2, <3>1, SeqFacts, NumFacts
      <4>. QED BY <4>1, <4>2, <4>3
    <3>3. out \o batch' = Numbers(r)
      <4>1. out \in Seq(Nat) /\ batch' \in Seq(Nat)
        BY <2>2, SeqFacts
      <4>2. out \o batch' = Numbers(Len(out) + Len(batch'))
        BY <1>5, <3>2, <4>1, JoinNumbers
      <4>. QED BY <3>1, <4>2
    <3>. QED BY <1>2, <3>3, DeliverFacts DEF LinesInOrder
  <2>6. SinkInv'
    <3>1. batch_len < FlushBytes
      BY <1>2 DEF IndInv, SinkInv, BatchBounded
    <3>2. batch_len' < FlushBytes + ScratchLen
      BY <2>3, <3>1, NumFacts
    <3>3. rpc' = "front" => batch_len' < FlushBytes
      <4>1. rpc' = "front" => ~(batch_len' >= FlushBytes)
        BY <2>1 DEF ShouldFlush
      <4>2. batch_len' \in Nat /\ FlushBytes \in Nat
        BY <2>3, NumFacts
      <4>. QED BY <4>1, <4>2
    <3>4. rpc' \in {"flush", "front"}
      BY <2>1
    <3>. QED BY <2>3, <3>2, <3>3, <3>4 DEF SinkInv, ScratchInBounds, BatchBounded
  <2>. QED BY <1>1, <1>3, <1>6, <2>4, <2>5, <2>6 DEF IndInv
<1>8. CASE FormatPanics(r)
  <2>1. rpc' = "dead" /\ UNCHANGED <<no_data, scratch_pos, batch, batch_len>>
    BY <1>8 DEF FormatPanics, loop
  <2>2. TypeOK'
    BY <1>1, <1>2, <2>1, DeliverFacts DEF IndInv, TypeOK, SinkTypeOK
  <2>3. LinesInOrder' /\ SinkInv'
    BY <2>1 DEF IndInv, LinesInOrder, SinkInv, ScratchInBounds, BatchBounded
  <2>. QED BY <1>1, <1>3, <1>6, <2>2, <2>3 DEF IndInv
<1>. QED BY <1>2, <1>7, <1>8

(* A beginning of a batch goes to stdout. *)
LEMMA PartOfBatch ==
  ASSUME NEW s \in Seq(Nat), NEW t \in Seq(Nat), NEW n \in Nat, MakeUp(s, t, n),
         NEW k \in 0 .. Len(t)
  PROVE  /\ s \o SubSeq(t, 1, k) \in Seq(Nat)
         /\ s \o SubSeq(t, 1, k) = Numbers(Len(s) + k)
         /\ Len(s \o SubSeq(t, 1, k)) = Len(s) + k /\ Len(s) + k <= n
<1>1. /\ Len(s) + Len(t) = n
      /\ \A i \in 1 .. Len(s) : s[i] = i
      /\ \A i \in 1 .. Len(t) : t[i] = Len(s) + i
  <2>1. InPlace(s, t, n)
    BY SplitNumbers
  <2>. QED BY <2>1 DEF InPlace
<1>0. Len(s) \in Nat /\ Len(t) \in Nat /\ k \in Nat /\ k <= Len(t)
  OBVIOUS
<1>. DEFINE u == SubSeq(t, 1, k)
<1>2. /\ u \in Seq(Nat) /\ Len(u) = IF 1 <= k THEN k - 1 + 1 ELSE 0
      /\ \A i \in 1 .. k - 1 + 1 : u[i] = t[1 + i - 1]
  <2>1. \A i \in 1 .. k : t[i] \in Nat
    BY <1>0
  <2>. QED BY <1>0, <2>1, SubSeqProperties
<1>. HIDE DEF u
<1>3. Len(u) = k /\ \A i \in 1 .. k : u[i] = t[i]
  BY <1>0, <1>2
<1>4. \A i \in 1 .. k : u[i] = Len(s) + i
  <2>. SUFFICES ASSUME NEW i \in 1 .. k PROVE u[i] = Len(s) + i
    OBVIOUS
  <2>1. i \in 1 .. Len(t)
    BY <1>0
  <2>. QED BY <1>1, <1>3, <2>1
<1>5. Len(s) + k \in Nat
  BY <1>0
<1>6. s \o u = Numbers(Len(s) + k)
  <2>1. \A i \in 1 .. Len(u) : u[i] = Len(s) + i
    BY <1>3, <1>4
  <2>2. s \o u = Numbers(Len(s) + Len(u))
    BY <1>1, <1>2, <2>1, JoinNumbers
  <2>. QED BY <1>3, <2>2
<1>7. s \o u \in Seq(Nat) /\ Len(s \o u) = Len(s) + k
  BY <1>5, <1>6, NumbersFacts
<1>8. Len(s) + k <= n
  BY <1>0, <1>1
<1>. QED BY <1>6, <1>7, <1>8 DEF u

LEMMA RunFlushInv ==
  ASSUME Ring!BelowSignBit, IndInv, RunFlush
  PROVE  IndInv'
<1>1. /\ rpc = "flush" /\ UNCHANGED ringVars
      /\ UNCHANGED <<queue, calls, num_droped, text, no_data, num_loop, scratch_pos>>
      /\ UNCHANGED <<published, delivered, ppc>>
  BY DEF RunFlush, Flush, loop, ringVars
<1>2. Ring!IndInv' /\ Ring!TypeOK'
  BY <1>1, RingNext DEF IndInv, Ring!IndInv
<1>3. CallsCounted'
  BY <1>1 DEF IndInv, CallsCounted
<1>4. out \in Seq(Nat) /\ batch \in Seq(Nat) /\ delivered \in Nat /\ out \o batch = Numbers(delivered)
  BY <1>1, NumFacts, SeqFacts DEF IndInv, LinesInOrder
<1>5. CASE FlushNow /\ rpc' = "front"
  <2>1. /\ out' = out \o batch /\ batch' = << >> /\ batch_len' = 0 /\ age' = 0 /\ tsc' = 0
        /\ rpc' = "front" /\ stamp' = [r \in DOMAIN stamp |-> 0]
    BY <1>5 DEF RunFlush, FlushNow
  <2>2. stamp' \in Seq(0 .. FlushInterval) /\ Len(stamp') = Len(stamp)
    <3>1. 0 \in 0 .. FlushInterval
      BY NumFacts
    <3>2. DOMAIN stamp = 1 .. Len(stamp) /\ Len(stamp) \in Nat
      BY SeqFacts
    <3>. QED BY <2>1, <3>1, <3>2
  <2>3. out' \in Seq(Nat) /\ out' = Numbers(delivered) /\ Len(out') = delivered
    <3>1. out' = Numbers(delivered)
      BY <1>4, <2>1
    <3>. QED BY <1>4, <3>1, NumbersFacts
  <2>4. TypeOK'
    <3>1. age' \in 0 .. FlushInterval /\ tsc' \in 0 .. FlushInterval
      BY <2>1, NumFacts
    <3>2. batch' \in Seq(Nat)
      BY <2>1
    <3>. QED BY <1>1, <1>2, <2>1, <2>2, <2>3, <3>1, <3>2 DEF IndInv, TypeOK, SinkTypeOK
  <2>5. LinesInOrder'
    <3>1. out' \o << >> = out'
      BY <2>3
    <3>. QED BY <1>1, <2>1, <2>3, <3>1 DEF LinesInOrder
  <2>6. OutputInv'
    <3>1. out' = Numbers(Len(out')) /\ Len(out') = delivered' /\ delivered' \in Nat
      BY <1>1, <1>4, <2>3
    <3>. QED BY <3>1 DEF OutputInv
  <2>7. ChannelInv'
    BY <1>1, <2>1, <2>2 DEF IndInv, ChannelInv
  <2>8. SinkInv'
    <3>1. 0 < FlushBytes + ScratchLen /\ 0 < FlushBytes
      BY NumFacts
    <3>. QED BY <1>1, <2>1, <3>1 DEF IndInv, SinkInv, ScratchInBounds, BatchBounded
  <2>. QED BY <1>2, <1>3, <2>4, <2>5, <2>6, <2>7, <2>8 DEF IndInv
<1>6. CASE FlushFails
  <2>1. rpc' = "dead" /\ UNCHANGED <<batch, batch_len, age, stamp, tsc>>
    BY <1>6 DEF RunFlush, FlushFails
  <2>2. PICK k \in 0 .. Len(batch) : out' = out \o SubSeq(batch, 1, k)
    BY <1>6 DEF FlushFails
  <2>3. /\ out' \in Seq(Nat) /\ out' = Numbers(Len(out) + k) /\ Len(out') = Len(out) + k
        /\ Len(out) + k <= delivered
    <3>1. MakeUp(out, batch, delivered)
      BY <1>4 DEF MakeUp
    <3>. QED BY <1>4, <2>2, <3>1, PartOfBatch
  <2>4. TypeOK'
    BY <1>1, <1>2, <2>1, <2>3 DEF IndInv, TypeOK, SinkTypeOK
  <2>5. LinesInOrder' /\ OutputInv'
    BY <1>1, <2>1, <2>3 DEF LinesInOrder, OutputInv
  <2>6. ChannelInv' /\ SinkInv'
    BY <1>1, <2>1 DEF IndInv, ChannelInv, SinkInv, ScratchInBounds, BatchBounded
  <2>. QED BY <1>2, <1>3, <2>4, <2>5, <2>6 DEF IndInv
<1>. QED BY <1>5, <1>6 DEF RunFlush, Flush

(* The rounds of run, and time. *)
LEMMA RoundInv ==
  ASSUME Ring!BelowSignBit, IndInv, UNCHANGED <<ringVars, queue, caller>>,
         StartRun \/ OnIdle \/ EndRound \/ Tick
  PROVE  IndInv'
<1>1. UNCHANGED <<queue, tsc, calls, num_droped, published, delivered, ppc>>
  BY DEF ringVars, caller
<1>2. Ring!IndInv' /\ Ring!TypeOK'
  BY RingNext DEF IndInv, Ring!IndInv
<1>3. /\ UNCHANGED <<text, stamp, scratch_pos, batch, batch_len, out>>
      /\ rpc' \in {"new", "front", "flush", "idle", "dead"}
      /\ rpc' = "new" => rpc = "new"
      /\ rpc' # "dead" => rpc # "dead"
      /\ rpc' \in {"front", "idle"} => rpc \in {"front", "idle", "new"}
  BY DEF StartRun, OnIdle, EndRound, Tick, records, loop, IndInv, TypeOK, SinkTypeOK
<1>4. no_data' \in {0, 1} /\ num_loop' \in 0 .. IdleLoops
  <2>1. CASE EndRound
    <3>1. Saturate(num_loop + no_data) \in 0 .. IdleLoops
      BY NumFacts DEF Saturate
    <3>. QED BY <2>1, <3>1 DEF EndRound
  <2>2. CASE StartRun \/ OnIdle \/ Tick
    BY <2>2 DEF StartRun, OnIdle, Tick, loop, IndInv, TypeOK, SinkTypeOK
  <2>. QED BY <2>1, <2>2
<1>5. age' \in 0 .. FlushInterval /\ age <= age'
  <2>1. CASE Tick
    BY <2>1, NumFacts DEF Tick
  <2>2. CASE StartRun \/ OnIdle \/ EndRound
    BY <2>2, NumFacts DEF StartRun, OnIdle, EndRound
  <2>. QED BY <2>1, <2>2
<1>6. TypeOK'
  BY <1>1, <1>2, <1>3, <1>4, <1>5 DEF IndInv, TypeOK, SinkTypeOK
<1>7. LinesInOrder' /\ OutputInv'
  BY <1>1, <1>3 DEF IndInv, LinesInOrder, OutputInv
<1>8. ChannelInv'
  <2>1. tsc <= age'
    BY <1>5, NumFacts
  <2>. QED BY <1>1, <1>3, <2>1 DEF IndInv, ChannelInv
<1>9. SinkInv'
  BY <1>3, NumFacts DEF IndInv, SinkInv, ScratchInBounds, BatchBounded
<1>10. CallsCounted'
  BY <1>1 DEF IndInv, CallsCounted
<1>. QED BY <1>2, <1>6, <1>7, <1>8, <1>9, <1>10 DEF IndInv

LEMMA NextInv ==
  ASSUME Ring!BelowSignBit, IndInv, [Next]_vars
  PROVE  IndInv'
<1>1. CASE LogCall \/ CallerStep
  BY <1>1, LogCallInv, LookAgainInv, WriteRecordInv, WriteHeaderInv, PublishInv DEF CallerStep
<1>2. CASE RunStep
  BY <1>2, RunFrontInv, RunRecordInv, RunFlushInv, RoundInv DEF RunStep, RunEmpty
<1>3. CASE Time
  BY <1>3, RoundInv DEF Time
<1>4. CASE UNCHANGED vars
  <2>1. /\ UNCHANGED <<ringVars, published, delivered, queue, sinkVars, tsc, calls, num_droped, ppc>>
    BY <1>4 DEF vars, caller, ringVars
  <2>2. Ring!IndInv'
    BY <2>1, RingNext DEF IndInv
  <2>3. CallsCounted'
    BY <2>1 DEF IndInv, CallsCounted
  <2>. QED BY <2>1, <2>2, <2>3, NumFacts, QuietInv
<1>. QED BY <1>1, <1>2, <1>3, <1>4 DEF Next

-----------------------------------------------------------------------------
(* The theorems.                                                           *)

(* The inductive invariant holds in every state of the logger, wherever    *)
(* the caller, the ring and the back end are, and whether or not the back  *)
(* end has panicked.                                                       *)
THEOREM Invariance ==
  ASSUME Ring!BelowSignBit
  PROVE  Spec => []IndInv
<1>1. Init => IndInv
  BY InitInv
<1>2. IndInv /\ [Next]_vars => IndInv'
  BY NextInv
<1>. QED BY <1>1, <1>2, PTL DEF Spec

(* Every variable of the caller, the ring and the sink keeps its type. *)
THEOREM TypeCorrect ==
  ASSUME Ring!BelowSignBit
  PROVE  Spec => []TypeOK
<1>1. IndInv => TypeOK
  BY DEF IndInv
<1>. QED BY <1>1, Invariance, PTL

(* Between front and write_all no record is lost, repeated or reordered,   *)
(* as long as the back end lives.                                          *)
THEOREM NothingLost ==
  ASSUME Ring!BelowSignBit
  PROVE  Spec => []LinesInOrder
<1>1. IndInv => LinesInOrder
  BY DEF IndInv
<1>. QED BY <1>1, Invariance, PTL

(* What stdout has taken is a beginning of what was published, also after  *)
(* a panic of run or a write that stopped half-way.                        *)
THEOREM PrefixOnStdout ==
  ASSUME Ring!BelowSignBit
  PROVE  Spec => []OutputIsPrefix
<1>1. IndInv => OutputIsPrefix
  <2>. SUFFICES ASSUME IndInv PROVE OutputIsPrefix
    OBVIOUS
  <2>1. Len(out) \in Nat /\ delivered \in Nat /\ published \in Nat /\ delivered <= published
    BY NumFacts, SeqFacts
  <2>. QED BY <2>1 DEF IndInv, OutputInv, OutputIsPrefix
<1>. QED BY <1>1, Invariance, PTL

(* The newline that on_record pushes without a check is inside scratch. *)
THEOREM NewlineInBounds ==
  ASSUME Ring!BelowSignBit
  PROVE  Spec => []ScratchInBounds
<1>1. IndInv => ScratchInBounds
  BY DEF IndInv, SinkInv
<1>. QED BY <1>1, Invariance, PTL

(* The batch outgrows flush_bytes by less than a line, and only until the  *)
(* flush that follows.                                                     *)
THEOREM BatchStaysBounded ==
  ASSUME Ring!BelowSignBit
  PROVE  Spec => []BatchBounded
<1>1. IndInv => BatchBounded
  BY DEF IndInv, SinkInv
<1>. QED BY <1>1, Invariance, PTL

(* publish_args returned true for every record published and false for     *)
(* every one the caller counts as dropped; no call is missed or counted    *)
(* twice.                                                                  *)
THEOREM EveryCallCounted ==
  ASSUME Ring!BelowSignBit
  PROVE  Spec => []CallsCounted
<1>1. IndInv => CallsCounted
  BY DEF IndInv
<1>. QED BY <1>1, Invariance, PTL

-----------------------------------------------------------------------------
(* The back end on the ring implements the back end on the channel.        *)

(* OnChannel instantiates the sink that Logger extends. *)
LEMMA SameSink ==
  /\ SinkInit <=> OnChannel!SinkInit
  /\ sinkVars = OnChannel!sinkVars
  /\ \A n, t : Record(n, t) <=> OnChannel!Record(n, t)
  /\ \A r : Format(r) <=> OnChannel!Format(r)
  /\ \A r : FormatPanics(r) <=> OnChannel!FormatPanics(r)
  /\ StartRun <=> OnChannel!StartRun
  /\ Flush <=> OnChannel!Flush
  /\ EndRound <=> OnChannel!EndRound
  /\ OnIdle <=> OnChannel!OnIdle
  /\ Tick <=> OnChannel!Tick
BY DEF SinkInit, OnChannel!SinkInit, sinkVars, OnChannel!sinkVars, records, OnChannel!records,
       loop, OnChannel!loop, Record, OnChannel!Record, Format, OnChannel!Format,
       Fits, OnChannel!Fits, LineLen, OnChannel!LineLen, ShouldFlush, OnChannel!ShouldFlush,
       FormatPanics, OnChannel!FormatPanics, StartRun, OnChannel!StartRun,
       Flush, OnChannel!Flush, FlushNow, OnChannel!FlushNow, FlushFails, OnChannel!FlushFails,
       EndRound, OnChannel!EndRound, Saturate, OnChannel!Saturate,
       OnIdle, OnChannel!OnIdle, Tick, OnChannel!Tick

(* commit with the text and the stamp of its record is a Publish of the    *)
(* abstract back end, on_record its OnRecord, an empty ring an empty       *)
(* channel, and the other accesses to the ring do not show.                *)
THEOREM Refinement ==
  ASSUME Ring!BelowSignBit
  PROVE  Spec => OnChannel!Spec
<1>1. Init => OnChannel!Init
  BY SameSink DEF Init, Ring!Init, OnChannel!Init, OnChannel!Chan!Init
<1>2. IndInv /\ [Next]_vars => [OnChannel!Next]_(OnChannel!vars)
  <2>. SUFFICES ASSUME IndInv, [Next]_vars
                PROVE  OnChannel!Next \/ UNCHANGED OnChannel!vars
    OBVIOUS
  <2>1. ASSUME UNCHANGED <<published, seen, queue, sinkVars>>
        PROVE  UNCHANGED OnChannel!vars
    BY <2>1 DEF OnChannel!vars, OnChannel!channel, sinkVars, records, loop,
                OnChannel!sinkVars, OnChannel!records, OnChannel!loop
  <2>2. CASE LogCall \/ LookAgain \/ WriteRecord \/ WriteHeader \/ RunFront \/ RunPop
    <3>1. UNCHANGED <<published, seen, queue, sinkVars>>
      BY <2>2 DEF LogCall, LookAgain, WriteRecord, WriteHeader, RunFront, RunPop,
         Ring!TryAlloc, Ring!RefreshCache, Ring!WriteRewindMarker, Ring!Reserve,
         Ring!WriteHeader, Ring!CopyPayload, Ring!CommitSize, Ring!FrontLoad,
         Ring!FrontRewind, Ring!FrontRecord, Ring!Pop, Ring!history
    <3>. QED BY <2>1, <3>1
  <2>3. CASE Publish
    <3>1. published' = published + 1 /\ queue' = Append(queue, published + 1) /\ seen' = seen
      BY <2>3 DEF Publish, Ring!CommitPublish
    <3>2. \E n \in TextLens : Record(n, tsc)
      BY <2>3 DEF Publish
    <3>3. tsc \in 0 .. age
      BY NumFacts
    <3>4. \E n \in TextLens, t \in 0 .. age : OnChannel!Record(n, t)
      BY <3>2, <3>3, SameSink
    <3>. QED BY <3>1, <3>4 DEF OnChannel!Next, OnChannel!Publish, OnChannel!Chan!Publish
  <2>4. CASE RunRecord
    <3>1. queue # << >> /\ seen' = Head(queue) /\ queue' = Tail(queue) /\ published' = published
      BY <2>4, DeliverFacts
    <3>2. OnChannel!Format(seen') \/ OnChannel!FormatPanics(seen')
      BY <2>4, SameSink DEF RunRecord
    <3>. QED BY <3>1, <3>2 DEF OnChannel!Next, OnChannel!Run, OnChannel!OnRecord,
                               OnChannel!Chan!Deliver
  <2>5. CASE RunEmpty
    <3>1. queue = << >>
      <4>1. delivered = published /\ delivered \in Nat /\ published \in Nat
        BY <2>5, RingFacts DEF IndInv, RunEmpty
      <4>2. queue = RP!Numbers(delivered, published)
        BY QueueIs DEF IndInv
      <4>. QED BY <4>1, <4>2, QueueFacts
    <3>2. UNCHANGED <<queue, published, seen>> /\ EndRound
      BY <2>5 DEF RunEmpty, ringVars
    <3>. QED BY <3>1, <3>2, SameSink
             DEF OnChannel!Next, OnChannel!Run, OnChannel!FrontEmpty, OnChannel!channel
  <2>6. ASSUME UNCHANGED <<queue, published, seen>>, StartRun \/ Flush \/ OnIdle \/ Tick
        PROVE  OnChannel!Next
    BY <2>6, SameSink DEF OnChannel!Next, OnChannel!Run, OnChannel!Time, OnChannel!channel
  <2>7. CASE RunFlush \/ Time \/ ((StartRun \/ OnIdle) /\ UNCHANGED <<ringVars, queue, caller>>)
    BY <2>6, <2>7 DEF RunFlush, Time, ringVars
  <2>8. CASE UNCHANGED vars
    BY <2>1, <2>8 DEF vars, ringVars
  <2>9. \/ LogCall \/ LookAgain \/ WriteRecord \/ WriteHeader \/ RunFront \/ RunPop
        \/ Publish \/ RunRecord \/ RunEmpty
        \/ RunFlush \/ Time \/ ((StartRun \/ OnIdle) /\ UNCHANGED <<ringVars, queue, caller>>)
        \/ UNCHANGED vars
    BY DEF Next, CallerStep, RunStep
  <2>. QED BY <2>2, <2>3, <2>4, <2>5, <2>7, <2>8, <2>9
<1>. QED BY <1>1, <1>2, Invariance, PTL DEF Spec, OnChannel!Spec
=============================================================================
