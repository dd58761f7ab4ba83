----------------------------- MODULE ConsoleSink -----------------------------
(***************************************************************************)
(* The back end thread (run_log2::run) and its ConsoleBatchSink, apart     *)
(* from the queue that feeds them: each record becomes a line in a scratch *)
(* buffer (MyBytesMut), lines are collected in a batch, and the batch goes *)
(* to stdout when it is large enough or old enough.                        *)
(*                                                                         *)
(* Everything here but the clock and the records' texts and stamps belongs *)
(* to one thread, so one action is one pass through on_record, flush_now   *)
(* or on_idle.  Backend feeds the sink from the abstract channel, Logger   *)
(* from the staging buffer.                                                *)
(*                                                                         *)
(* A line is abstracted to the number of its record and its length.  The   *)
(* clock appears only as a difference to last_flush_cycles, capped at      *)
(* FlushInterval: beyond that no test distinguishes the values.            *)
(***************************************************************************)
EXTENDS Integers, Sequences

CONSTANTS
  ScratchLen,      \* bytes in scratch (512)
  PrefixLen,       \* bytes of a line before the text: time, thread and level
  FlushBytes,      \* flush_bytes (256 KiB)
  FlushInterval,   \* flush_interval_cycles (1,500,000)
  IdleLoops,       \* empty rounds of run before on_idle is called (1024)
  TextLens,        \* how many bytes the log function of a record may write
  StdoutOutcomes   \* what a write to stdout may come to: "ok", "err"

ASSUME SizesAssumption ==
  /\ ScratchLen \in Nat /\ PrefixLen \in Nat /\ PrefixLen < ScratchLen
  /\ FlushBytes \in Nat \ {0} /\ FlushInterval \in Nat \ {0} /\ IdleLoops \in Nat \ {0}
  /\ TextLens \subseteq Nat /\ StdoutOutcomes \subseteq {"ok", "err"}

VARIABLES
  text,        \* per record published: bytes its log function writes
  stamp,       \* per record published: its tsc, relative to last_flush_cycles
  rpc,         \* where run is; "new" before it starts, "dead" after a panic
  no_data, num_loop,
  scratch_pos, \* scratch.pos
  batch,       \* the records whose lines are in the batch
  batch_len,   \* batch.len()
  age,         \* the clock, relative to last_flush_cycles
  out          \* the records whose lines stdout has taken

records == <<text, stamp>>
loop == <<no_data, num_loop>>
sinkVars == <<records, rpc, loop, scratch_pos, batch, batch_len, age, out>>

SinkInit ==
  /\ text = << >> /\ stamp = << >>
  /\ rpc = "new" /\ no_data = 0 /\ num_loop = 0
  /\ scratch_pos = 0 /\ batch = << >> /\ batch_len = 0 /\ age = 0
  /\ out = << >>

-----------------------------------------------------------------------------
(* The surroundings: threads that log, and time.                           *)

(* A record of n bytes of text, stamped at t, is handed to the queue. *)
Record(n, t) ==
  /\ text' = Append(text, n)
  /\ stamp' = Append(stamp, t)
  /\ UNCHANGED <<rpc, loop, scratch_pos, batch, batch_len, age, out>>

(* Time counts from the first last_flush_cycles, which new reads. *)
Tick ==
  /\ rpc # "new"
  /\ age < FlushInterval
  /\ age' = age + 1
  /\ UNCHANGED <<records, rpc, loop, scratch_pos, batch, batch_len, out>>

(* The thread that init_logger spawned begins, perhaps long after the      *)
(* first records.                                                          *)
StartRun ==
  /\ rpc = "new"
  /\ rpc' = "front" /\ no_data' = 1
  /\ UNCHANGED <<records, num_loop, scratch_pos, batch, batch_len, age, out>>

-----------------------------------------------------------------------------
(* The sink.                                                               *)

(* What is in scratch before the newline: time, thread and level, then     *)
(* what the log function writes, source location and message.              *)
LineLen(r) == PrefixLen + text[r]

(* Mutant: the last byte may be taken too. *)
Fits_Exactly(n) == n <= ScratchLen

(* The assertion of MyBytesMut::extend_from_slice, for the whole line.     *)
Fits(n) == n < ScratchLen

(* Mutant: one line too many. *)
ShouldFlush_OneMore(n, t) == n > FlushBytes \/ t >= FlushInterval

ShouldFlush(n, t) == n >= FlushBytes \/ t >= FlushInterval

(* Mutant: no_data counts records. *)
Format_Counts(r) ==
  /\ rpc = "front"
  /\ Fits(LineLen(r))
  /\ scratch_pos' = LineLen(r) + 1
  /\ batch' = Append(batch, r)
  /\ batch_len' = batch_len + scratch_pos'
  /\ rpc' = IF ShouldFlush(batch_len', stamp[r]) THEN "flush" ELSE "front"
  /\ no_data' = no_data + 1
  /\ UNCHANGED <<records, num_loop, age, out>>

(* on_record formats record r: the line ends with a newline that is pushed *)
(* without a check.                                                        *)
Format(r) ==
  /\ rpc = "front"
  /\ Fits(LineLen(r))
  /\ scratch_pos' = LineLen(r) + 1
  /\ batch' = Append(batch, r)
  /\ batch_len' = batch_len + scratch_pos'
  /\ rpc' = IF ShouldFlush(batch_len', stamp[r]) THEN "flush" ELSE "front"
  /\ no_data' = 0
  /\ UNCHANGED <<records, num_loop, age, out>>

(* A line too long for scratch: the assertion ends the thread, as would an *)
(* error of the log function, which run unwraps.                           *)
FormatPanics(r) ==
  /\ rpc = "front"
  /\ ~Fits(LineLen(r))
  /\ rpc' = "dead"
  /\ UNCHANGED <<records, loop, scratch_pos, batch, batch_len, age, out>>

(* Mutant: the batch is not cleared. *)
FlushNow_KeepsBatch ==
  /\ out' = out \o batch
  /\ age' = 0 /\ stamp' = [r \in DOMAIN stamp |-> 0]
  /\ UNCHANGED <<batch, batch_len>>

(* flush_now, when stdout takes the batch.  Records stamped before are     *)
(* now as old as the flush or older.                                       *)
FlushNow ==
  /\ out' = out \o batch
  /\ batch' = << >> /\ batch_len' = 0
  /\ age' = 0 /\ stamp' = [r \in DOMAIN stamp |-> 0]

(* An error is unwrapped by run; what stdout took of the batch is unknown. *)
FlushFails ==
  /\ rpc' = "dead"
  /\ \E k \in 0 .. Len(batch) : out' = out \o SubSeq(batch, 1, k)
  /\ UNCHANGED <<batch, batch_len, age, stamp>>

Flush ==
  /\ rpc = "flush"
  /\ \/ "ok" \in StdoutOutcomes /\ FlushNow /\ rpc' = "front"
     \/ "err" \in StdoutOutcomes /\ FlushFails
  /\ UNCHANGED <<text, loop, scratch_pos>>

-----------------------------------------------------------------------------
(* The rounds of run.                                                      *)

(* Bound of the model: beyond IdleLoops the count makes no difference. *)
Saturate(n) == IF n > IdleLoops THEN IdleLoops ELSE n

(* front found nothing: the end of a round.  num_loop is never reset. *)
EndRound ==
  /\ rpc = "front"
  /\ num_loop' = Saturate(num_loop + no_data)
  /\ no_data' = 1
  /\ rpc' = IF num_loop' >= IdleLoops THEN "idle" ELSE "front"
  /\ UNCHANGED <<records, scratch_pos, batch, batch_len, age, out>>

(* Mutant: on_idle waits for a full batch. *)
OnIdle_SizeOnly ==
  /\ rpc = "idle"
  /\ rpc' = IF batch # << >> /\ batch_len >= FlushBytes THEN "flush" ELSE "front"
  /\ UNCHANGED <<records, loop, scratch_pos, batch, batch_len, age, out>>

(* on_idle, and on to the next round. *)
OnIdle ==
  /\ rpc = "idle"
  /\ rpc' = IF batch # << >> /\ age >= FlushInterval THEN "flush" ELSE "front"
  /\ UNCHANGED <<records, loop, scratch_pos, batch, batch_len, age, out>>

-----------------------------------------------------------------------------
(* Properties of the sink alone.                                           *)

SinkTypeOK ==
  /\ text \in Seq(TextLens) /\ stamp \in Seq(0 .. FlushInterval)
  /\ rpc \in {"new", "front", "flush", "idle", "dead"}
  /\ no_data \in {0, 1} /\ num_loop \in 0 .. IdleLoops
  /\ scratch_pos \in Nat /\ batch \in Seq(Nat) /\ batch_len \in Nat
  /\ age \in 0 .. FlushInterval /\ out \in Seq(Nat)

(* The unchecked push of the newline stays inside scratch, because         *)
(* extend_from_slice leaves at least one byte free.                        *)
ScratchInBounds == scratch_pos <= ScratchLen

(* The batch stays below flush_bytes except for the line that triggers the *)
(* flush, so the capacity of batch is exceeded by less than a line.        *)
BatchBounded ==
  /\ rpc \in {"front", "idle"} => batch_len < FlushBytes
  /\ batch_len < FlushBytes + ScratchLen
=============================================================================
