------------------------------ MODULE SpscRing ------------------------------
(***************************************************************************)
(* The fixed-size ring (spsc.rs) between a LoggerHandle of run_log.rs and  *)
(* its LoggerThread.  Producer and consumer each keep their own index and  *)
(* a cached copy of the other's, refreshed only when the cache says full   *)
(* or empty.  LoggerHandle::push retries until there is room, push_write   *)
(* drops the entry; the thread receives the consumer end through a         *)
(* channel, drains the ring, and parks for a while.                        *)
(*                                                                         *)
(* One action is one access to memory that the other thread can observe,   *)
(* in program order (sequential consistency).  An entry is abstracted to   *)
(* the index at which it was pushed, so that indices may wrap for ever     *)
(* without making the model infinite.                                      *)
(***************************************************************************)
EXTENDS Integers

CONSTANTS
  capacity,  \* as asked for
  IDX_MOD    \* the range of an index (2^64: indices are usize)

Pow2 == {2 ^ k : k \in 0 .. 20}

(* ring_buffer rounds the capacity up to a power of two. *)
Capacity == CHOOSE p \in Pow2 : p >= capacity /\ \A q \in Pow2 : q >= capacity => p <= q
mask == Capacity - 1

ASSUME CapacityAssumption == capacity \in 1 .. 2 ^ 20
ASSUME IdxModAssumption == IDX_MOD \in Nat /\ Capacity < IDX_MOD /\ IDX_MOD % Capacity = 0

VARIABLES
  buffer,                   \* per slot, the entry in it (-1: not initialised)
  tail, head,               \* shared
  local_tail, cached_head,  \* the producer's
  local_head, cached_tail,  \* the consumer's
  ppc,                      \* where push or push_write is
  retry,                    \* TRUE in push, FALSE in push_write
  sent,                     \* whether init_logger has sent the consumer end
  registered,               \* whether the thread has received it
  cpc                       \* where LoggerThread::run is

producer == <<local_tail, cached_head, ppc, retry>>
consumer == <<local_head, cached_tail, registered, cpc>>
vars == <<buffer, tail, head, producer, consumer, sent>>

Slots == 0 .. mask
Idx == 0 .. IDX_MOD - 1
wrapping_add(x, y) == (x + y) % IDX_MOD
wrapping_sub(x, y) == (x - y) % IDX_MOD
Slot(i) == i % Capacity

Init ==
  /\ buffer = [s \in Slots |-> -1]
  /\ tail = 0 /\ head = 0
  /\ local_tail = 0 /\ cached_head = 0 /\ ppc = "idle" /\ retry = FALSE
  /\ local_head = 0 /\ cached_tail = 0 /\ registered = FALSE /\ cpc = "recv"
  /\ sent = FALSE

-----------------------------------------------------------------------------
(* The front end.                                                          *)

(* init_logger spawns the thread first and sends the consumer end after. *)
SendRegMsg ==
  /\ ~sent
  /\ sent' = TRUE
  /\ UNCHANGED <<buffer, tail, head, producer, consumer>>

(* Mutant: one entry too many. *)
Full_OffByOne(t, h) == wrapping_sub(t, h) > mask + 1

Full(t, h) == wrapping_sub(t, h) > mask

(* LoggerHandle::push (retries) and push_write (does not), up to the look  *)
(* at the cached head.  The handle exists once init_logger has returned.   *)
Push(r) ==
  /\ sent
  /\ ppc = "idle"
  /\ retry' = r
  /\ ppc' = IF Full(local_tail, cached_head) THEN "refresh" ELSE "write"
  /\ UNCHANGED <<buffer, tail, head, local_tail, cached_head, consumer, sent>>

(* Still full: push calls itself again, which takes it here once more. *)
RefreshHead ==
  /\ ppc = "refresh"
  /\ cached_head' = head
  /\ ppc' = IF ~Full(local_tail, head) THEN "write" ELSE IF retry THEN "refresh" ELSE "idle"
  /\ UNCHANGED <<buffer, tail, head, local_tail, retry, consumer, sent>>

WriteSlot ==
  /\ ppc = "write"
  /\ buffer' = [buffer EXCEPT ![Slot(local_tail)] = local_tail]
  /\ ppc' = "publish"
  /\ UNCHANGED <<tail, head, local_tail, cached_head, retry, consumer, sent>>

(* Mutant: no wrap-around. *)
PublishTail_NoWrap ==
  /\ ppc = "publish"
  /\ tail' = local_tail + 1
  /\ local_tail' = tail'
  /\ ppc' = "idle"
  /\ UNCHANGED <<buffer, head, cached_head, retry, consumer, sent>>

PublishTail ==
  /\ ppc = "publish"
  /\ tail' = wrapping_add(local_tail, 1)
  /\ local_tail' = tail'
  /\ ppc' = "idle"
  /\ UNCHANGED <<buffer, head, cached_head, retry, consumer, sent>>

ProducerStep == RefreshHead \/ WriteSlot \/ PublishTail

-----------------------------------------------------------------------------
(* LoggerThread::run.                                                      *)

RecvRegMsg ==
  /\ cpc = "recv"
  /\ registered' = (registered \/ sent)
  /\ cpc' = IF registered' THEN "pop" ELSE "park"
  /\ UNCHANGED <<buffer, tail, head, producer, local_head, cached_tail, sent>>

(* pop up to the decision that there is an entry; run's inner loop ends    *)
(* when there is none. *)
PopLook ==
  /\ cpc = "pop"
  /\ cached_tail' = IF local_head = cached_tail THEN tail ELSE cached_tail
  /\ cpc' = IF local_head = cached_tail' THEN "park" ELSE "take"
  /\ UNCHANGED <<buffer, tail, head, producer, local_head, registered, sent>>

(* Mutant: the shared head is not stored. *)
PopTake_KeepsHead ==
  /\ cpc = "take"
  /\ local_head' = wrapping_add(local_head, 1)
  /\ cpc' = "pop"
  /\ UNCHANGED <<buffer, tail, head, producer, cached_tail, registered, sent>>

(* The slot is released; its entry is not read: pop returns Some(0). *)
PopTake ==
  /\ cpc = "take"
  /\ head' = wrapping_add(local_head, 1)
  /\ local_head' = head'
  /\ cpc' = "pop"
  /\ UNCHANGED <<buffer, tail, producer, cached_tail, registered, sent>>

(* Mutant: parked without a timeout, and nobody unparks. *)
ParkTimeout_Never == cpc = "park" /\ UNCHANGED vars

ParkTimeout ==
  /\ cpc = "park"
  /\ cpc' = "recv"
  /\ UNCHANGED <<buffer, tail, head, producer, local_head, cached_tail, registered, sent>>

ConsumerStep == RecvRegMsg \/ PopLook \/ PopTake \/ ParkTimeout

-----------------------------------------------------------------------------
Next ==
  \/ SendRegMsg
  \/ \E r \in BOOLEAN : Push(r)
  \/ ProducerStep
  \/ ConsumerStep

Spec == Init /\ [][Next]_vars

(* Both threads keep running and a park ends; nobody is obliged to log. *)
FairSpec == Spec /\ WF_vars(ProducerStep) /\ WF_vars(ConsumerStep)

-----------------------------------------------------------------------------
(* Properties.                                                             *)

TypeOK ==
  /\ buffer \in [Slots -> Idx \union {-1}]
  /\ tail \in Idx /\ head \in Idx
  /\ local_tail \in Idx /\ cached_head \in Idx
  /\ local_head \in Idx /\ cached_tail \in Idx
  /\ ppc \in {"idle", "refresh", "write", "publish"} /\ retry \in BOOLEAN
  /\ sent \in BOOLEAN /\ registered \in BOOLEAN
  /\ cpc \in {"recv", "pop", "take", "park"}

(* The indices between head and tail, in order. *)
Pending == {wrapping_add(head, k) : k \in 0 .. wrapping_sub(tail, head) - 1}

(* Every entry pushed and not popped is still in its slot, also after the  *)
(* indices have wrapped: the stale copies of head and tail never let the   *)
(* producer write to a slot that is not released, nor the consumer release *)
(* one that is not filled.                                                 *)
EntriesHeld ==
  /\ \A i \in Pending : buffer[Slot(i)] = i
  /\ cpc = "take" => local_head \in Pending

(* LoggerHandle::push returns: the back end makes room, however late it    *)
(* registered the ring.                                                    *)
PushReturns == ppc # "idle" ~> ppc = "idle"

(* Every entry pushed is popped. *)
EventuallyPopped == \A i \in Idx : (tail = i /\ head # i) ~> head = i

-----------------------------------------------------------------------------
(* The inductive invariant behind EntriesHeld.                             *)

(* How far index i is ahead of the producer's copy of head. *)
Ahead(i) == wrapping_sub(i, cached_head)

(* Seen from the producer's copy of head, the head, the consumer's copy of *)
(* the tail and the tail follow in this order, at most a ring ahead.       *)
Order ==
  /\ local_tail = tail /\ local_head = head
  /\ Ahead(head) <= Ahead(cached_tail)
  /\ Ahead(cached_tail) <= Ahead(tail)
  /\ Ahead(tail) <= Capacity
  /\ cpc = "take" => head # cached_tail

(* The producer writes only where there is room, and every entry from head *)
(* to tail is in its slot.                                                 *)
Held ==
  /\ ppc \in {"write", "publish"} => Ahead(tail) < Capacity
  /\ ppc = "publish" => buffer[Slot(tail)] = tail
  /\ \A i \in Idx : Ahead(head) <= Ahead(i) /\ Ahead(i) < Ahead(tail) => buffer[Slot(i)] = i

IndInv == TypeOK /\ Order /\ Held
=============================================================================
