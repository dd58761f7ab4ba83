# A verification project for nanolog-rs

nanolog-rs is a low-latency logger: the thread that logs copies the raw
arguments of a call into a ring of blocks, and a back end thread decodes,
formats and prints them.  This directory holds TLA+ models of its parts, the
TLC configurations that check them on small instances, and proofs of the main
results that TLAPS checks for every value of the constants.

## The system

| part | source | state | operations |
|---|---|---|---|
| staging buffer | `spsc_var_queue_opt.rs` | blocks with headers, `writing_idx`, `written_idx`, `read_idx`, the producer's `read_idx_cache` | `try_alloc`, `commit`, `front`, `pop` |
| logger handle, back end loop | `run_log2.rs` | `no_data`, `num_loop` | `publish_args`, `run`, `init_logger` |
| clock | `tscns.rs` | `BASE_TSC`, `BASE_NS`, `NS_PER_TSC`, `NEXT_CALIBRATE_TSC` and the optimistic lock `PARAM_SEQ` | `init`, `sync_time`, `calibrate` / `save_param`, `tsc2ns` |
| console sink | `console_sink.rs`, `my_bytes_mut.rs` | `scratch`, `batch`, `last_flush_cycles` | `on_record`, `flush_now`, `on_idle` |
| date and time | `format.rs` | `TimeCache` | `refresh_dt`, `split_utc`, `civil_from_days` |
| arguments | `args2.rs` | none | `args2`, `decode` |
| caller | `log.rs`, `main.rs` | `num_droped` | `hft_info!` and what it returns |
| first logger | `spsc.rs`, `run_log.rs` | a ring of fixed-size entries, local indices and cached copies of the other end's | `push`, `push_write`, `pop`, `LoggerThread::run` |

How they interact.  `publish_args` reserves blocks (`try_alloc`), writes header
and payload and publishes them (`commit`).  The thread started by `init_logger`
polls `front`, passes each record to the sink, which converts its time stamp
with `tsc2ns`, lets the log function decode the arguments into `scratch`,
appends the line to `batch` and now and then writes the batch to stdout; then
it calls `pop`.  A third thread calls `calibrate` once a second.  The first
logger (`run_log.rs`) is an older design beside this one.

What is hard.  Four pairs of threads share memory without locks: producer and
consumer of each ring, the calibrating thread and whoever converts, and two
threads that share one handle.  Indices wrap, and are compared as signed
numbers.  A record that does not fit before the end of the ring leaves a marker
whose meaning depends on what is published when.  A full queue drops the record
half-way through `try_alloc`.  The back end may start late, and may panic
between `front` and `pop`.  Lines must not wait for ever in the batch.  The
clock corrects itself from samples that a preemption may spoil, and a second
`init_logger` call gives it a second writer.  `PROJECT.json` lists these hazards
at their lines, each with the properties that would catch it.

What makes the parts correct:

* staging buffer: every record published is delivered once, whole, in order and
  eventually; no unread block is handed out; logging never blocks;
* clock: a conversion uses the parameters of one calibration, a recent one, and
  returns; calibrations keep its error small;
* sink: every record taken becomes one line, in order, eventually; unchecked
  writes stay in their buffers;
* the whole: each call returns, and its record is printed or counted as dropped;
* date and time: the fields are those of the record's instant;
* arguments: the decoder finds what the encoder stored;
* first ring: an entry stays in its slot until popped; a push ends.

## Modules

| module | what it is |
|---|---|
| `LogChannel` | what the staging buffer promises: a first-in first-out channel of numbered records |
| `SpscVarQueue` | the staging buffer with `publish_args` and `run` around it |
| `SharedHandle` | two threads that log through one handle: `SpscVarQueue` with a second instance of the producer |
| `Tscns` | how the clock's parameters are replaced and read |
| `TwoCalibrators` | a second `init_logger` call: `Tscns` with a second writer |
| `Calibration` | what the calibration computes: `sync_time`, `init` and the correction of the rate |
| `ConsoleSink` | the loop of `run` and the console sink, without a queue |
| `Backend` | `ConsoleSink` on top of `LogChannel` |
| `Logger` | `ConsoleSink` on top of `SpscVarQueue`, with a caller: the logger as a program uses it |
| `TimeFormat` | `TimeCache` and the date arithmetic, beside a calendar |
| `Args2` | layout and decoding of the arguments |
| `SpscRing` | the ring of the first logger with its thread |
| `SpscVarQueueProofs`, `LoggerProofs`, `TscnsProofs`, `CalibrationProofs`, `Args2Proofs`, `TimeFormatProofs`, `SpscRingProofs` | the proofs about the module of that name |
| `ModLemmas` | lemmas about remainders: slots and wrap-around |

Composition: `SpscVarQueue` implements `LogChannel`.  `Logger` puts the sink on
the real ring, access by access, `Backend` puts the same sink on the channel,
and `Logger` implements `Backend`, liveness included (`ImplementsBackend`): the
sink cannot tell the ring from what the ring promises.

### Correspondence with the code

*Grain.*  Where threads share memory (`SpscVarQueue`, `SharedHandle`, `Tscns`,
`TwoCalibrators`, `Logger`, `SpscRing`), an action is one access that another
thread can observe, with the local computation before it; a program counter
(`ppc`, `cpc`, `wpc`, `rpc`) says where a thread is.  In `ConsoleSink`, where
everything belongs to one thread, an action is a whole pass through
`on_record`, `flush_now` or `on_idle`.

*SpscVarQueue.*  `size`, `meta` and `body` are `header.size`, the other header
fields and the payload bytes of each block; the last two are abstracted to the
number of the record they belong to, so that a torn or misplaced record shows.
Lengths and block counts are the code's (64-byte blocks, 24-byte header).
Payload that covers the header fields of later blocks leaves an arbitrary value
there (`StraySizes`).  `try_alloc` is `TryAlloc`, `RefreshCache`,
`WriteRewindMarker` and `Reserve`; `publish_args` adds `WriteHeader` and
`CopyPayload`; `commit` is `CommitSize` and `CommitPublish`; `front` is
`FrontLoad`, `FrontRewind` and `FrontRecord`.  The initial load of `read_idx`
in `front` and `pop` is of the consumer's own variable.  `frames` is a history
variable that the proofs need: where the published frames begin and how many
records precede each.

*Tscns.*  What a calibration stores is abstracted to the counter value at which
it sampled the clocks, so that values of different calibrations differ and
later ones are larger; the error term is its negative.

*TwoCalibrators.*  The second call takes the steps of `Tscns`'s writer with
locals of its own, after the sample and the wait of `init`.  Reading
`PARAM_SEQ` and making it odd is one step, as in `Tscns`; in the code these are
two, which allows only more.

*Calibration.*  The state holds errors instead of times: how far the conversion
is ahead of the system clock at `BASE_TSC`, and how much it gains from there;
the second is a fraction with the denominator `InitTicks * Interval`, so that
the rate of `init` and its corrections are exact for any two durations.  This is the first order of the code's arithmetic; what it neglects
is far below a nanosecond for errors far below an interval.  The
thread's sleeps are exact intervals, and a call of `calibrate` before
`NEXT_CALIBRATE_TSC` returns.  A sample is three pairs of reads, each read of
any length up to `LongestRead`.

*ConsoleSink, Backend, Logger.*  A line is its record's number and length.  The
clock is a difference to `last_flush_cycles`; beyond `FlushInterval` it no
longer matters.  A record is stamped when its header is written, and may be
published, or formatted, after a flush that is younger than its stamp.  The
thread that `init_logger` spawns begins at some later moment (`StartRun`).  A
line that does not fit, or an error of stdout, ends the thread
(`rpc = "dead"`), as the panic does; the record it was formatting is then never
popped.  The caller counts refused calls as `main.rs` does.

*SpscRing.*  An entry is the index at which it was pushed, so the model is
finite although indices wrap for ever.

*TimeFormat.*  A second is kept as day and second of the day, because seconds
since 1970 leave TLC's 32-bit integers in 2038; these are the two values
`split_utc` computes first.

*Args2.*  An argument is its size; the bytes are the places of the parts.  The
padding of `UserPodSnap` and the truncation of its tag to a byte are modelled; a
size whose tag would overflow does not compile.

Memory model: interleavings of the accesses in program order (sequential
consistency).  The effect of a wrong `Ordering` is out of reach of these
models.  The one relaxed store that looks suspicious, of `read_idx` in `front`,
depends on the volatile read of the marker before it, so it cannot be seen
earlier than that read.

## Runs

Bounds are named in the configurations.  Where a module has an inductive
invariant (`IndInv`), its run checks that too.

| run | shows | bounds |
|---|---|---|
| `staging_buffer` | all properties of the queue, the inductive invariant, the refinement of `LogChannel` with its liveness | 4 blocks; records of 1, 2 and 3 blocks (one byte more than a block; three blocks filled to the last byte, more than half the ring); calls start below index 10, so the ring is passed three times; the sign bit, at 16, is not reached |
| `staging_buffer_sign_bit` | **violation**: indices are compared as signed numbers, and a full ring passes for a free one | the sign bit is at 8 |
| `staging_buffer_drained` | **violation**: at the sign bit a drained ring refuses a record | the sign bit is at 8 |
| `shared_handle` | **violation**: two threads through one handle | records of one block |
| `clock` | conversions are consistent but for the error term, recent, and return | one reader (readers share nothing they write), four calibrations |
| `clock_torn` | **violation**: the error term is visible | one calibration |
| `two_calibrators` | **violation**: the lock does not exclude a second writer | one reader, a counter of up to 4 with a calibration every 2 |
| `calibration` | a sample is as good as its fastest pair; the first correction undoes the error of `init`'s rate; later ones bring it back (`ErrorComesBack`) | an interval of 10 and a wait of 3 (1 s and 0.3 s in the code); reads of up to 3 units, so a sample is off by up to one; 3 calibrations |
| `logger` | lines once, in order, eventually; refused calls counted (`CallsCounted`); calls return; buffers in bounds; what a late start and a panic leave; the refinement of `Backend` with its liveness | 3 calls; 4 blocks, records of 1 and 2 blocks, so the ring fills, rewinds and refuses; lines that fill scratch to the last byte, and lines that do not fit; two lines fill a batch; flush interval 1; two idle rounds; stdout may fail |
| `first_ring` | entries are held; pushes end; entries are popped | capacity 3 rounded to 4, indices of 4 bits wrapping for ever |
| `arguments` | **violation**: after a padded struct the second argument is missed | numbers, structs of 12 and of 16 bytes |
| `date_and_time` | date and time are right | every day of 400 years, a period of the calendar |

Why the bounds are enough: the ring's behaviour depends on positions modulo its
size and on which of a few distances are zero, and four blocks with three
record sizes reach every case of `try_alloc` and `front` (rewind with and
without refresh, refusal, a record ending exactly at the end).  The proofs then
remove the bounds of every passing run for safety.  The sink's decisions are
threshold tests, each of which the bounds put on both sides.  The correction of
the rate is linear, so larger errors of the samples scale what is seen with
small ones; the third calibration is the first at which the error returns.
The arguments need two: the first misplaces the second.

`CHECK_DEADLOCK FALSE` is used where the model may stop: nobody is obliged to
log, the bound on the indices or records ends the supply, and a dead back end
does nothing.

### What the violations say

1. Sign bit (`spsc_var_queue_opt.rs:110`): a program that logs more than 2^31
   blocks meets a moment at which a full ring passes for a free one.
2. Drained ring (`spsc_var_queue_opt.rs:113`): if the ring is drained when the
   indices stand at 2^31, or less than a ring behind it, `read_idx` is negative
   as an `i32` and the least `read_idx` that leaves room positive.  The record is
   refused, no index moves, and so it and all that are no larger are refused for
   ever.  The comment at line 106 gives the condition with the inequality the
   wrong way round; the code means `read_idx >= write_idx + needed - BLK_CNT`.
3. Shared handle (`run_log2.rs:15`): `&self` and `Sync` allow two producers,
   the queue is for one.
4. Clock (`tscns.rs:179`): `BASE_NS` holds an error term for a moment outside
   the lock; a time stamp converted then is decades off, perhaps negative.
5. Two calibrators (`run_log2.rs:39`): a handle is for one thread, so a program
   with two logging threads calls `init_logger` twice.  With two writers
   `PARAM_SEQ` can be even while one of them is half-way, and a conversion
   mixes two calibrations.
6. Padded arguments (`args2.rs:115`): the tag of a struct is its size without
   the padding to whole words that `repr(C)` gives `UserPodSnap`.  After a first
   struct of 12 bytes `decode` takes the second argument 4 bytes early, with the
   address of its decode function if it is a struct.

### What a passing run says against the code

`ErrorComesBack` (`tscns.rs:112`): `BASE_NS_ERR`, "used to reduce the error"
(`tscns.rs:45`), is never written; `save_param` stores the error in `BASE_NS`.
The slope of the error is therefore taken from 0, and each correction leads to
the error of the calibration before with the opposite sign: the error `e` that
`init`'s rate leaves becomes 0 at the second calibration, `-e` at the third, 0,
`e`, and so on.

`DrainedRefusal` names the indices at which a drained ring refuses
(`AtSignBit`).  The run `staging_buffer` stays below them, where it says that a
drained ring refuses no record of up to half the ring; the theorem is about all
indices, and `staging_buffer_drained` shows the refusal.

### Observations without a run

Met while reading; each is local, and no sequence of steps is needed to see it.

* `run_log2.rs:77`: `total` counts the header and the pointer is behind it, so
  the slice handed to the log function is 24 bytes too long, and for a record
  that ends with the ring reaches behind it.  `decode` goes by the tags and
  ends inside the payload for all types (theorem `Decodes`), so nothing reads
  them.
* `spsc.rs:262`: `pop` returns `Some(0)` for every entry, where the example in
  its documentation (`spsc.rs:54`) shows the entry.
* `tscns.rs:11` says three seconds where the interval is one.
* The Windows branch of `sync_time` assigns to a variable that is not `mut`.

### Fairness

Threads are scheduled: weak fairness of the steps inside an operation
(`ProducerStep`, `ConsumerStep`, `CallerStep`, `RunStep`, `WriterStep`,
`ReaderStep`).  The code justifies it: none of these steps waits for a lock;
`run` polls without blocking, `LoggerThread::run` parks with a timeout.
Starting an operation (`TryAlloc`, `LogCall`, `Push`, `Tsc2ns`, `Calibrate`) has
no fairness.  In `Logger` time passes (`WF(Time)`).  `Tsc2nsReturns` uses that
calibrations are a second apart: the model has finitely many.
`TwoCalibrators` and `Calibration` are about safety and state no fairness.

## Proofs

TLAPS proves every invariant that a run checks, every action property, and the
safety part of both refinements, for every value of the constants.

| module | theorems | beyond the named assumptions on the constants |
|---|---|---|
| `SpscVarQueueProofs` | the safety properties of `staging_buffer`; `Spec => ImplementsChannel` | `BelowSignBit` |
| | `DrainedRefusal` | |
| `LoggerProofs` | the invariants of `logger`; `Spec => OnChannel!Spec` | `Ring!BelowSignBit` |
| `TscnsProofs` | the invariants of `clock` | |
| `CalibrationProofs` | the invariants of `calibration`, `ErrorComesBack` | |
| `Args2Proofs` | `DecodesWholeWords` | |
| `TimeFormatProofs` | `ShowsDate`, `ShowsTime` | |
| `SpscRingProofs` | the invariants of `first_ring` | |

`BelowSignBit` says that no index reaches half its range; the runs
`staging_buffer_sign_bit` and `staging_buffer_drained` show that it is needed,
and `DrainedRefusal`, which holds without it, says where the second can happen.

*SpscVarQueue.*  The inductive invariant `IndInv` has, besides the types, four
parts: `NoOverrun`; `ProducerInv` (what the producer knows at each point, in
particular that the room it found stays, because `read_idx` only grows, and
that a marker stands at `written_idx` when the record goes behind it);
`FramesInv` (the published, unreleased frames form a chain from `read_idx` to
`written_idx`, each a record, whole, or padding with a record behind it);
`ConsumerInv` (the consumer stands at a frame, and has delivered as many
records as precede it).  `RecordIntact` alone is not inductive: that the next
record is whole follows only from all later ones being so, which is what
`FramesInv` states.  The refinement maps the channel's queue to the numbers
from `delivered + 1` to `published`: `CommitPublish` is `Publish`, `OnRecord`
is `Deliver`, everything else stutters.  `DrainedRefusal` does not rest on
`IndInv`, which fails at the sign bit: it needs only that the producer's indices
are its own (`OwnIndices`), and what the signed comparison of two indices less
than a ring apart amounts to (`DrainedRoom`).

*Logger.*  The proof is modular: `LoggerProofs` instantiates
`SpscVarQueueProofs` and takes from it that each access preserves the ring's
invariant and that the record handed to the sink is `delivered + 1`.  What the
ring does inside is not looked at again.  To the ring's invariant `IndInv` adds:
the channel's queue is the range between `delivered` and `published`, and every
published record has a text and a stamp no younger than now (`ChannelInv`);
stdout holds a beginning of what was *delivered* (`OutputInv`; `OutputIsPrefix`,
which speaks of what was published, is too weak to survive a flush that fails);
the batch is empty before `run` starts (`SinkInv`; without it nothing bounds the
batch that `StartRun` finds); and every call is published, dropped or under way
(`CallsCounted`).  `LinesInOrder` is broken up entry by entry
(`SplitNumbers`, `JoinNumbers`), and so survives appending a line, flushing all and flushing a
part.  In the refinement `Publish`, `RunRecord`, `RunEmpty`, `RunFlush` and the
rounds are steps of `Backend`; that an empty ring means an empty channel is the
one place where it needs the chain of frames.

*Tscns.*  For any number of readers and any interval, conversions neither mix
calibrations nor use stale ones.  The invariant says what the parameters are at
each point of `save_param`, and of each reader that, as long as `PARAM_SEQ` is
what it read first, what it has read is still the last complete calibration.

*Calibration.*  For every length of a read, every interval I and every wait T of
`init` that is shorter, the code's 1 s and 0.3 s among them.  `SampleClose` holds
because the pair kept has the smallest gap, and the read of the system clock
lies inside it.  For `FirstCorrection` the invariant follows the errors of the
three samples from `init` on: the rate that `init` leaves is off by a difference
of two of them in each T (`InitialRate`), and the correction, which divides by
T + I, cancels all but
`(T + I) * Error = I * n0 - (T + 2I) * n2 - f - r`, with sample errors n0 and n2
and the remainders f and r of two divisions, by T and by T + I, hence the bound
(`CorrectedRate`).  For `ErrorComesBack`
it needs that calibrations are an interval apart from the second on; the
extrapolation then doubles the error exactly.

*Args2.*  For structs of every size that compiles, decoding finds both arguments
exactly if the first is whole words and the tag of the second counts it, and
ends inside the payload: a tag never leads further than the argument reaches
(the invariant says what each decoded part is, computed from its tag).

*TimeFormat.*  The run passes through 400 years; the theorems are about every
day.  The invariant counts the calendar's date from 1 March of the year 0
(`CalendarInv`), as `civil_from_days` does, so that the leap day ends a year and
the days before a month do not depend on the year.  Going to the next day keeps
the count; the divisions of `civil_from_days` undo it, year by year within an
era of 400.  `CacheInv` says that the cache holds the text of the second it
names.

*SpscRing.*  Indices wrap, so none is larger than another: the invariant
measures how far each is ahead of the producer's copy of the head, `Ahead`, and
says that head, the consumer's copy of the tail, and tail follow in this order
within one ring (`Order`), with every entry from head to tail in its slot
(`Held`).  Refreshing the copy moves the point of view (`AheadShift`), writing a
slot meets no pending entry because entries less than a ring apart have
different slots (`SlotsDiffer`).  That an index keeps its slot when it wraps
needs the range of the indices to be a number of whole rings
(`IdxModAssumption`; both are powers of two in the code).

Only model-checked: all liveness (`ImplementsLiveChannel`, `PublishReturns`,
`Tsc2nsReturns`, `ImplementsBackend` as far as it states fairness,
`AllAccounted`, `CallsReturn`, `PushReturns`, `EventuallyPopped`), since the
prover handles neither fairness nor ENABLED.

## Not modelled

* Floating-point rounding in `tsc2ns` and `calibrate`, and a system clock that
  is stepped by a good part of an interval (listed as a hazard without a
  property): `Calibration` is linear in small errors.
* The digit tables, levels and thread names of a line: constant tables.
* `log.rs` beyond a call with two arguments: the other arities expand to macros
  that do not exist.  A `LogEntry` of the first logger is copied whole.
* `args.rs`: no decoder, used by nothing but an example.
* In `run_log.rs`, `TscClock` and `PrefixCache`: constructed, and used only by
  code that is commented out.
* Methods nothing calls (`MyBytesMut::rollback`, `slice`,
  `safe_extend_from_slice`) and the dropping of the rings, whose ends are held
  by threads that never return.
* The benchmark's statistics and the examples.
* Memory orderings weaker than program order.

## Plan

Done: the staging buffer with its promise; the clock, a second writer, and what
the calibration computes; the sink, and the whole logger composed of ring, sink
and caller; the arguments; date and time; the first ring; all of these with
proofs of their safety properties.

Left:

1. Step properties worth a theorem of their own: `read_idx` and `written_idx`
   only grow, what stdout has taken is never taken back.
2. For the shared handle and the two calibrators, what remains true although
   the intended property fails.
