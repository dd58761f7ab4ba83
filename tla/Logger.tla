------------------------------- MODULE Logger -------------------------------
(***************************************************************************)
(* The logger as a program uses it: a thread that calls hft_info!, the     *)
(* staging buffer access by access (SpscVarQueue), and the back end thread *)
(* with its sink (ConsoleSink), which init_logger has spawned and which    *)
(* may start late or die.  The caller counts the calls that were refused,  *)
(* as the benchmark does.                                                  *)
(***************************************************************************)
EXTENDS ConsoleSink

CONSTANTS
  BLK_CNT, IDX_HALF, PayloadLens, StraySizes, LastIdx,  \* of the staging buffer
  MaxCalls   \* bound of the model: how many calls are made

ASSUME MaxCallsAssumption == MaxCalls \in Nat

(* What SpscVarQueue assumes of its constants. *)
ASSUME RingAssumption ==
  /\ BLK_CNT \in Nat \ {0} /\ \E k \in 0 .. 31 : BLK_CNT = 2 ^ k
  /\ IDX_HALF \in Nat /\ BLK_CNT <= IDX_HALF
  /\ PayloadLens \subseteq Nat /\ StraySizes \subseteq Nat
  /\ LastIdx \in Nat

VARIABLES
  \* the staging buffer, see SpscVarQueue
  size, meta, body, writing_idx, written_idx, read_idx, read_idx_cache,
  ppc, len, write_idx, id, cpc, end_idx,
  accepted, published, delivered, seen, frames,
  queue,      \* history: the records published and not yet seen, see LogChannel
  \* the thread that logs
  tsc,        \* the stamp in the header being written, as stamp
  calls,      \* history: how many calls it has made
  num_droped  \* how many of them returned false

Ring == INSTANCE SpscVarQueue

ringVars ==
  <<size, meta, body, writing_idx, written_idx, read_idx, read_idx_cache,
    ppc, len, write_idx, id, cpc, end_idx,
    accepted, published, delivered, seen, frames>>
caller == <<tsc, calls, num_droped>>
vars == <<ringVars, queue, sinkVars, caller>>

Init ==
  /\ Ring!Init /\ queue = << >>
  /\ SinkInit
  /\ tsc = 0 /\ calls = 0 /\ num_droped = 0

-----------------------------------------------------------------------------
(* The thread that logs: hft_info! packs its arguments and calls           *)
(* publish_args.                                                           *)

LogCall ==
  /\ calls < MaxCalls
  /\ calls' = calls + 1
  /\ \E l \in PayloadLens : Ring!TryAlloc(l)
  /\ UNCHANGED <<queue, sinkVars, tsc, num_droped>>

(* Mutant: a refused call passes for a successful one. *)
LookAgain_NotCounted ==
  /\ Ring!RefreshCache
  /\ UNCHANGED <<queue, sinkVars, caller>>

(* The second look at read_idx.  When it finds no room, publish_args       *)
(* returns false, and the caller counts the record as dropped.             *)
LookAgain ==
  /\ Ring!RefreshCache
  /\ num_droped' = IF ppc' = "idle" THEN num_droped + 1 ELSE num_droped
  /\ UNCHANGED <<queue, sinkVars, tsc, calls>>

WriteRecord ==
  /\ \/ Ring!WriteRewindMarker \/ Ring!Reserve
     \/ Ring!CopyPayload \/ Ring!CommitSize
  /\ UNCHANGED <<queue, sinkVars, caller>>

(* The header gets its time stamp. *)
WriteHeader ==
  /\ Ring!WriteHeader
  /\ tsc' = age
  /\ UNCHANGED <<queue, sinkVars, calls, num_droped>>

(* publish_args returns true. *)
Publish ==
  /\ Ring!CommitPublish
  /\ queue' = Append(queue, published')
  /\ \E n \in TextLens : Record(n, tsc)
  /\ UNCHANGED caller

CallerStep == LookAgain \/ WriteRecord \/ WriteHeader \/ Publish

-----------------------------------------------------------------------------
(* The back end thread.                                                    *)

(* front, once run has returned from the sink. *)
RunFront ==
  /\ rpc = "front"
  /\ Ring!FrontLoad \/ Ring!FrontRewind \/ Ring!FrontRecord
  /\ UNCHANGED <<queue, sinkVars, caller>>

(* The sink gets what front returned; a panic leaves it unreleased. *)
RunRecord ==
  /\ Ring!OnRecord
  /\ queue' = SubSeq(queue, 2, Len(queue))
  /\ Format(seen') \/ FormatPanics(seen')
  /\ UNCHANGED caller

(* flush_now, called by on_record before pop or by on_idle.  A header      *)
(* stamped before is as old as the flush or older.                         *)
RunFlush ==
  /\ Flush
  /\ tsc' = IF rpc' = "front" THEN 0 ELSE tsc
  /\ UNCHANGED <<ringVars, queue, calls, num_droped>>

(* Mutant: the record is not released. *)
RunPop_Forgotten ==
  /\ rpc = "front"
  /\ cpc = "pop" /\ cpc' = "front"
  /\ UNCHANGED <<size, meta, body, writing_idx, written_idx, read_idx, read_idx_cache,
                 ppc, len, write_idx, id, end_idx, accepted, published, delivered,
                 seen, frames, queue, sinkVars, caller>>

RunPop ==
  /\ rpc = "front"
  /\ Ring!Pop
  /\ UNCHANGED <<queue, sinkVars, caller>>

(* front returns None. *)
RunEmpty ==
  /\ cpc = "front"
  /\ read_idx = written_idx
  /\ EndRound
  /\ UNCHANGED <<ringVars, queue, caller>>

RunStep ==
  \/ RunFront \/ RunRecord \/ RunFlush \/ RunPop \/ RunEmpty
  \/ (StartRun \/ OnIdle) /\ UNCHANGED <<ringVars, queue, caller>>

-----------------------------------------------------------------------------
Time == Tick /\ UNCHANGED <<ringVars, queue, caller>>

Next == LogCall \/ CallerStep \/ RunStep \/ Time

Spec == Init /\ [][Next]_vars

(* Both threads are scheduled, neither waits for the other, and time       *)
(* passes.  Nobody is obliged to log.                                      *)
FairSpec ==
  Spec /\ WF_vars(CallerStep) /\ WF_vars(RunStep) /\ WF_vars(Time)

-----------------------------------------------------------------------------
(* Properties.                                                             *)

TypeOK ==
  /\ Ring!TypeOK
  /\ SinkTypeOK
  /\ tsc \in 0 .. FlushInterval /\ calls \in Nat /\ num_droped \in Nat

Numbers(n) == [i \in 1 .. n |-> i]

(* Every record taken from the ring is on stdout or in the batch, once and *)
(* in order, however rewinds, flushes and rounds fall: nothing is lost     *)
(* between front and write_all while the thread lives.                     *)
LinesInOrder == rpc # "dead" => out \o batch = Numbers(delivered)

(* What stdout gets, even from a thread that panics, is a beginning of the *)
(* stream of records.                                                      *)
OutputIsPrefix == out = Numbers(Len(out)) /\ Len(out) <= published

(* Every call has published its record, was told that it is dropped, or is *)
(* under way: the benchmark's count of dropped records misses none.        *)
CallsCounted == calls = published + num_droped + (IF ppc = "idle" THEN 0 ELSE 1)

OnChannel == INSTANCE Backend

(* The back end on the staging buffer behaves as the back end on the       *)
(* channel the buffer promises, and is as live: the step of the ring that  *)
(* hands a record to the sink is the delivery, and pop, rewinds and the    *)
(* stores of publish_args do not show.                                     *)
ImplementsBackend == OnChannel!FairSpec

(* Every call is accounted for: its record is printed in the end, or the   *)
(* caller was told that it is dropped, unless the back end panics.  Above  *)
(* all, no record stays in the batch when no other follows.                *)
AllAccounted ==
  \A n \in 1 .. MaxCalls :
    calls >= n ~> Len(out) + num_droped >= n \/ rpc = "dead"

(* publish_args returns whatever becomes of the back end: when it is dead  *)
(* or has not started, a full ring makes calls fail, never wait.           *)
CallsReturn == ppc # "idle" ~> ppc = "idle"

-----------------------------------------------------------------------------
(* The inductive invariant behind these properties.                        *)

(* The channel holds what is published and not delivered, every published  *)
(* record has a text and a stamp, and no header is stamped after now.      *)
ChannelInv ==
  /\ queue = [i \in 1 .. published - delivered |-> delivered + i]
  /\ Len(text) = published /\ Len(stamp) = published
  /\ tsc <= age

(* Also a thread that died on a record had taken it from the ring. *)
OutputInv == out = Numbers(Len(out)) /\ Len(out) <= delivered

SinkInv == ScratchInBounds /\ BatchBounded /\ (rpc = "new" => batch_len = 0)

IndInv ==
  /\ Ring!IndInv /\ TypeOK
  /\ LinesInOrder /\ OutputInv /\ ChannelInv /\ SinkInv /\ CallsCounted
=============================================================================
