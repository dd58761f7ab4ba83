----------------------------- MODULE Calibration -----------------------------
(***************************************************************************)
(* What the clock's calibration computes (tscns.rs): sync_time reads both  *)
(* clocks in turn and takes the pair that was read fastest, init derives a *)
(* first rate from two such samples, and the calibrating thread corrects   *)
(* the rate once per interval from the error it measures.  How the results *)
(* reach other threads is the subject of Tscns.                            *)
(*                                                                         *)
(* Cycles and nanoseconds are the same unit here, and the state holds      *)
(* errors instead of times: base_err is how far tsc2ns(BASE_TSC) is ahead  *)
(* of the system clock, drift what NS_PER_TSC adds to that in InitTicks    *)
(* times an Interval (the f64 rate is a fraction of this denominator).     *)
(* Replacing NS_PER_TSC by NS_PER_TSC * (1 - x / Interval) then changes    *)
(* drift by -x * InitTicks, but for a term of the order of its product     *)
(* with x / Interval, far below a nanosecond.  The duration of a sample is *)
(* nothing beside an Interval.                                             *)
(***************************************************************************)
EXTENDS Integers

CONSTANTS
  InitTicks,       \* init_calibrate_ns
  Interval,        \* calibrate_interval_ns, in the same unit
  LongestRead,     \* the longest a read of a clock may take, preemption included
  MaxCalibrations  \* bound of the model

ASSUME TicksAssumption ==
  /\ InitTicks \in Nat \ {0} /\ Interval \in Nat \ {0}
  /\ InitTicks < Interval
ASSUME ReadAssumption == LongestRead \in Nat \ {0}
ASSUME MaxAssumption == MaxCalibrations \in Nat

VARIABLES
  pc,           \* where the thread is
  reads,        \* the last samples of sync_time, see Reads
  since,        \* time since BASE_TSC
  base_err,     \* error of the conversion at BASE_TSC
  drift,        \* error it gains in InitTicks * Interval
  calibrations  \* how many calibrations were made

vars == <<pc, reads, since, base_err, drift, calibrations>>

-----------------------------------------------------------------------------
(* sync_time.                                                              *)

N == 3

(* ns[i] is read lag after tsc[i - 1] and lead before tsc[i]. *)
Reads == [lag : 1 .. LongestRead, lead : 1 .. LongestRead]
gap(i) == reads[i].lag + reads[i].lead

(* Mutant: the slowest pair. *)
best_Slowest == CHOOSE i \in 1 .. N : \A k \in 1 .. N : gap(k) <= gap(i)

(* The first of the fastest pairs. *)
best ==
  CHOOSE i \in 1 .. N :
    \A k \in 1 .. N : gap(i) < gap(k) \/ (gap(i) = gap(k) /\ i <= k)

(* tsc_out - ns_out: the middle of the pair against the time ns was read. *)
noise == gap(best) \div 2 - reads[best].lag

sync_time == reads' \in [1 .. N -> Reads]

-----------------------------------------------------------------------------
(* The error term save_param was to keep; no statement ever writes it. *)
BASE_NS_ERR == 0

(* i64 division rounds towards zero. *)
i64_div(a, b) == IF a >= 0 THEN a \div b ELSE -((-a) \div b)

(* The error of the conversion now. *)
Error == base_err + (drift * since) \div (InitTicks * Interval)

(* Mutant: the error is not extrapolated. *)
expected_err_at_next_calibration_Now(ns_err) == ns_err

expected_err_at_next_calibration(ns_err) ==
  ns_err + i64_div((ns_err - BASE_NS_ERR) * Interval, since + BASE_NS_ERR)

-----------------------------------------------------------------------------
Init ==
  /\ pc = "init"
  /\ reads = [i \in 1 .. N |-> [lag |-> 1, lead |-> 1]]
  /\ since = 0 /\ base_err = 0 /\ drift = 0 /\ calibrations = 0

(* init: the first sample becomes the base ... *)
InitBase ==
  /\ pc = "init"
  /\ sync_time
  /\ base_err' = -noise'
  /\ pc' = "spin"
  /\ UNCHANGED <<since, drift, calibrations>>

(* ... and the second, after the wait, gives the rate. *)
InitRate ==
  /\ pc = "spin"
  /\ since' = InitTicks
  /\ sync_time
  /\ drift' = (-noise' - base_err) * Interval
  /\ pc' = "call"
  /\ UNCHANGED <<base_err, calibrations>>

(* calibrate before NEXT_CALIBRATE_TSC, a little less than an Interval     *)
(* after the base, returns at once.                                        *)
NotDue ==
  /\ pc = "call"
  /\ since < Interval
  /\ pc' = "sleep"
  /\ UNCHANGED <<reads, since, base_err, drift, calibrations>>

(* calibrate takes a sample ... *)
CalibrateSample ==
  /\ pc = "call"
  /\ since >= Interval
  /\ calibrations < MaxCalibrations
  /\ sync_time
  /\ pc' = "adjust"
  /\ UNCHANGED <<since, base_err, drift, calibrations>>

(* ... and corrects the rate; the conversion goes on from where it is. *)
CalibrateAdjust ==
  /\ pc = "adjust"
  /\ drift' = drift - InitTicks * expected_err_at_next_calibration(Error + noise)
  /\ base_err' = Error
  /\ since' = 0
  /\ calibrations' = calibrations + 1
  /\ pc' = "sleep"
  /\ UNCHANGED reads

(* The thread that init_logger started sleeps between its calls. *)
Sleep ==
  /\ pc = "sleep"
  /\ since' = since + Interval
  /\ pc' = "call"
  /\ UNCHANGED <<reads, base_err, drift, calibrations>>

Next ==
  InitBase \/ InitRate \/ NotDue \/ CalibrateSample \/ CalibrateAdjust \/ Sleep

Spec == Init /\ [][Next]_vars

-----------------------------------------------------------------------------
(* Properties.                                                             *)

Abs(x) == IF x < 0 THEN -x ELSE x

(* A sample is as good as the fastest of its pairs, however long the other *)
(* reads of sync_time were interrupted: it is off by less than half of any *)
(* of the gaps between two reads of the counter.                           *)
SampleClose == \A i \in 1 .. N : 2 * Abs(noise) < gap(i)

(* The largest error of a sample. *)
MaxNoise == LongestRead \div 2

SmallError == Abs(Error) <= 3 * MaxNoise + 1

(* The first correction undoes the error of init's rate, which is          *)
(* Interval / InitTicks times the error of a sample: when the next         *)
(* calibration measures, little more than the errors of the samples is     *)
(* left.                                                                   *)
FirstCorrection == pc = "adjust" /\ calibrations = 1 => SmallError

(* The error that the parameters lead to an Interval after BASE_TSC. *)
NextError == base_err + drift \div InitTicks

(* From the second calibration on, the correction leads to the error that  *)
(* the last calibration had, with the opposite sign and twice the error of *)
(* the sample.  The error term that would stop this is never written, so   *)
(* what init left, e, is not reduced: after 0 at the second calibration it *)
(* is back as -e at the third, then 0, e and so on.                        *)
ErrorComesBack ==
  [][pc = "adjust" /\ calibrations >= 1
       => NextError' = -base_err - 2 * noise]_vars

-----------------------------------------------------------------------------
(* The inductive invariant behind these properties.                        *)

TypeInv ==
  /\ pc \in {"init", "spin", "call", "adjust", "sleep"}
  /\ reads \in [1 .. N -> Reads]
  /\ since \in Nat /\ base_err \in Int /\ drift \in Int /\ calibrations \in Nat

(* What init leaves: a base and a rate off by no more than the errors of   *)
(* its samples make them.                                                  *)
InitialRate ==
  /\ Abs(base_err) <= MaxNoise
  /\ \E n \in -MaxNoise .. MaxNoise : drift = (-n - base_err) * Interval
  /\ since = IF pc = "sleep" THEN InitTicks
             ELSE IF pc = "adjust" \/ since >= Interval THEN InitTicks + Interval
             ELSE InitTicks

(* What the first correction leaves: a small error one Interval later. *)
CorrectedRate == Abs(NextError) <= 3 * MaxNoise + 1

(* What is known of the conversion at each point of init, and from there   *)
(* to the calibration after the first one; the times of all later ones.    *)
IndInv ==
  /\ TypeInv
  /\ pc \in {"init", "spin"} => since = 0 /\ calibrations = 0
  /\ pc = "spin" => Abs(base_err) <= MaxNoise
  /\ pc = "adjust" => since >= Interval
  /\ pc \notin {"init", "spin"} /\ calibrations = 0 => InitialRate
  /\ calibrations = 1 => CorrectedRate
  /\ calibrations >= 1 => since = IF pc = "sleep" THEN 0 ELSE Interval
=============================================================================
