------------------------------- MODULE Tscns -------------------------------
(***************************************************************************)
(* The clock of the logger (tscns.rs): one thread calibrates the           *)
(* parameters that turn a time stamp counter value into nanoseconds, and   *)
(* any thread converts with them (tsc2ns; the back end does so for every   *)
(* record).  The parameters are plain statics guarded by an optimistic     *)
(* lock: PARAM_SEQ is odd while save_param replaces them, and a reader     *)
(* that saw it odd or changing starts over.                                *)
(*                                                                         *)
(* One action is one access to a static that another thread can observe,   *)
(* in program order (sequential consistency).  The value a parameter gets  *)
(* from a calibration is abstracted to the counter value at which that     *)
(* calibration sampled the clocks (base_tsc); the error term that          *)
(* save_param computes, base_ns - sys_ns, is the negative of it.           *)
(***************************************************************************)
EXTENDS Integers

CONSTANTS
  Readers,   \* the threads that call tsc2ns
  Interval,  \* CALIBATE_INTERVAL_NS - 1000 in counter cycles
  MaxTsc     \* bound of the model: the last value of the counter

ASSUME IntervalAssumption == Interval \in Nat \ {0}
ASSUME MaxTscAssumption == MaxTsc \in Nat \ {0}

VARIABLES
  tsc,                 \* the time stamp counter
  PARAM_SEQ, NS_PER_TSC, BASE_TSC, BASE_NS, NEXT_CALIBRATE_TSC,
  \* the calibrating thread, inside calibrate
  wpc,                 \* where it is
  base_tsc,            \* what sync_time sampled
  seq,                 \* save_param's copy of PARAM_SEQ
  saved,               \* history: the last calibration that is complete
  \* the readers, inside tsc2ns
  rpc,                 \* where each is
  before_seq,          \* PARAM_SEQ & !1 as read first
  got_tsc, got_per, got_ns,  \* the parameters as read
  floor                \* history: the value of saved when the call began

params == <<PARAM_SEQ, NS_PER_TSC, BASE_TSC, BASE_NS, NEXT_CALIBRATE_TSC>>
writer == <<wpc, base_tsc, seq, saved>>
readers == <<rpc, before_seq, got_tsc, got_per, got_ns, floor>>
vars == <<tsc, params, writer, readers>>

-----------------------------------------------------------------------------
(* init has run, at counter value 1, before any other thread is spawned. *)
Init ==
  /\ tsc = 1
  /\ PARAM_SEQ = 2 /\ NS_PER_TSC = 1 /\ BASE_TSC = 1 /\ BASE_NS = 1
  /\ NEXT_CALIBRATE_TSC = 1 + Interval
  /\ wpc = "idle" /\ base_tsc = 1 /\ seq = 0 /\ saved = 1
  /\ rpc = [r \in Readers |-> "idle"]
  /\ before_seq = [r \in Readers |-> 0]
  /\ got_tsc = [r \in Readers |-> 0]
  /\ got_per = [r \in Readers |-> 0]
  /\ got_ns = [r \in Readers |-> 0]
  /\ floor = [r \in Readers |-> 0]

Tick ==
  /\ tsc < MaxTsc
  /\ tsc' = tsc + 1
  /\ UNCHANGED <<params, writer, readers>>

-----------------------------------------------------------------------------
(* The calibrating thread.                                                 *)

(* calibrate up to save_param: it returns early unless a calibration is    *)
(* due.  All it reads besides the clocks is written by itself only.        *)
Calibrate ==
  /\ wpc = "idle"
  /\ tsc >= NEXT_CALIBRATE_TSC
  /\ base_tsc' = tsc
  /\ wpc' = "error"
  /\ UNCHANGED <<tsc, params, seq, saved, readers>>

(* save_param: the error term goes to BASE_NS ... *)
SaveError ==
  /\ wpc = "error"
  /\ BASE_NS' = -base_tsc
  /\ wpc' = "lock"
  /\ UNCHANGED <<tsc, PARAM_SEQ, NS_PER_TSC, BASE_TSC, NEXT_CALIBRATE_TSC,
                 base_tsc, seq, saved, readers>>

(* ... then the lock is taken ... *)
SaveLock ==
  /\ wpc = "lock"
  /\ NEXT_CALIBRATE_TSC' = base_tsc + Interval
  /\ seq' = PARAM_SEQ
  /\ PARAM_SEQ' = PARAM_SEQ + 1
  /\ wpc' = "tsc"
  /\ UNCHANGED <<tsc, NS_PER_TSC, BASE_TSC, BASE_NS, base_tsc, saved, readers>>

(* Mutant: BASE_TSC is forgotten. *)
SaveTsc_Forgotten ==
  /\ wpc = "tsc"
  /\ wpc' = "ns"
  /\ UNCHANGED <<tsc, params, base_tsc, seq, saved, readers>>

(* ... for the three parameters ... *)
SaveTsc ==
  /\ wpc = "tsc"
  /\ BASE_TSC' = base_tsc
  /\ wpc' = "ns"
  /\ UNCHANGED <<tsc, PARAM_SEQ, NS_PER_TSC, BASE_NS, NEXT_CALIBRATE_TSC,
                 base_tsc, seq, saved, readers>>

SaveNs ==
  /\ wpc = "ns"
  /\ BASE_NS' = base_tsc
  /\ wpc' = "per"
  /\ UNCHANGED <<tsc, PARAM_SEQ, NS_PER_TSC, BASE_TSC, NEXT_CALIBRATE_TSC,
                 base_tsc, seq, saved, readers>>

SavePer ==
  /\ wpc = "per"
  /\ NS_PER_TSC' = base_tsc
  /\ wpc' = "unlock"
  /\ UNCHANGED <<tsc, PARAM_SEQ, BASE_TSC, BASE_NS, NEXT_CALIBRATE_TSC,
                 base_tsc, seq, saved, readers>>

(* Mutant: the sequence stays odd. *)
SaveUnlock_StaysOdd ==
  /\ wpc = "unlock"
  /\ PARAM_SEQ' = seq + 1
  /\ saved' = base_tsc
  /\ wpc' = "idle"
  /\ UNCHANGED <<tsc, NS_PER_TSC, BASE_TSC, BASE_NS, NEXT_CALIBRATE_TSC,
                 base_tsc, seq, readers>>

(* ... and released. *)
SaveUnlock ==
  /\ wpc = "unlock"
  /\ PARAM_SEQ' = seq + 2
  /\ saved' = base_tsc
  /\ wpc' = "idle"
  /\ UNCHANGED <<tsc, NS_PER_TSC, BASE_TSC, BASE_NS, NEXT_CALIBRATE_TSC,
                 base_tsc, seq, readers>>

WriterStep ==
  SaveError \/ SaveLock \/ SaveTsc \/ SaveNs \/ SavePer \/ SaveUnlock

-----------------------------------------------------------------------------
(* tsc2ns on a reading thread.                                             *)

Tsc2ns(r) ==
  /\ rpc[r] \in {"idle", "done"}
  /\ rpc' = [rpc EXCEPT ![r] = "before"]
  /\ floor' = [floor EXCEPT ![r] = saved]
  /\ UNCHANGED <<tsc, params, writer, before_seq, got_tsc, got_per, got_ns>>

(* x & !1 *)
ClearBit0(x) == x - (x % 2)

(* Mutant: the odd bit is kept. *)
ReadSeqBefore_Unmasked(r) ==
  /\ rpc[r] = "before"
  /\ before_seq' = [before_seq EXCEPT ![r] = PARAM_SEQ]
  /\ rpc' = [rpc EXCEPT ![r] = "tsc"]
  /\ UNCHANGED <<tsc, params, writer, got_tsc, got_per, got_ns, floor>>

ReadSeqBefore(r) ==
  /\ rpc[r] = "before"
  /\ before_seq' = [before_seq EXCEPT ![r] = ClearBit0(PARAM_SEQ)]
  /\ rpc' = [rpc EXCEPT ![r] = "tsc"]
  /\ UNCHANGED <<tsc, params, writer, got_tsc, got_per, got_ns, floor>>

ReadBaseTsc(r) ==
  /\ rpc[r] = "tsc"
  /\ got_tsc' = [got_tsc EXCEPT ![r] = BASE_TSC]
  /\ rpc' = [rpc EXCEPT ![r] = "per"]
  /\ UNCHANGED <<tsc, params, writer, before_seq, got_per, got_ns, floor>>

ReadNsPerTsc(r) ==
  /\ rpc[r] = "per"
  /\ got_per' = [got_per EXCEPT ![r] = NS_PER_TSC]
  /\ rpc' = [rpc EXCEPT ![r] = "ns"]
  /\ UNCHANGED <<tsc, params, writer, before_seq, got_tsc, got_ns, floor>>

ReadBaseNs(r) ==
  /\ rpc[r] = "ns"
  /\ got_ns' = [got_ns EXCEPT ![r] = BASE_NS]
  /\ rpc' = [rpc EXCEPT ![r] = "after"]
  /\ UNCHANGED <<tsc, params, writer, before_seq, got_tsc, got_per, floor>>

(* Mutant: only a sequence that went back is noticed. *)
ReadSeqAfter_NotBack(r) ==
  /\ rpc[r] = "after"
  /\ rpc' = [rpc EXCEPT ![r] = IF before_seq[r] <= PARAM_SEQ THEN "done" ELSE "before"]
  /\ UNCHANGED <<tsc, params, writer, before_seq, got_tsc, got_per, got_ns, floor>>

ReadSeqAfter(r) ==
  /\ rpc[r] = "after"
  /\ rpc' = [rpc EXCEPT ![r] = IF before_seq[r] = PARAM_SEQ THEN "done" ELSE "before"]
  /\ UNCHANGED <<tsc, params, writer, before_seq, got_tsc, got_per, got_ns, floor>>

ReaderStep(r) ==
  \/ ReadSeqBefore(r) \/ ReadBaseTsc(r) \/ ReadNsPerTsc(r)
  \/ ReadBaseNs(r) \/ ReadSeqAfter(r)

-----------------------------------------------------------------------------
Next ==
  \/ Tick
  \/ Calibrate
  \/ WriterStep
  \/ \E r \in Readers : Tsc2ns(r) \/ ReaderStep(r)

Spec == Init /\ [][Next]_vars

(* Threads are scheduled; the calibrating thread never blocks inside       *)
(* save_param.  Nobody is obliged to call tsc2ns or calibrate.             *)
FairSpec == Spec /\ WF_vars(WriterStep) /\ \A r \in Readers : WF_vars(ReaderStep(r))

-----------------------------------------------------------------------------
(* Properties.                                                             *)

Even(x) == x % 2 = 0

TypeOK ==
  /\ tsc \in Nat /\ PARAM_SEQ \in Nat
  /\ NS_PER_TSC \in Nat /\ BASE_TSC \in Nat /\ BASE_NS \in Int
  /\ NEXT_CALIBRATE_TSC \in Nat
  /\ wpc \in {"idle", "error", "lock", "tsc", "ns", "per", "unlock"}
  /\ base_tsc \in Nat /\ seq \in Nat /\ saved \in Nat
  /\ rpc \in [Readers -> {"idle", "before", "tsc", "per", "ns", "after", "done"}]
  /\ before_seq \in [Readers -> {n \in Nat : Even(n)}]
  /\ got_tsc \in [Readers -> Nat] /\ got_per \in [Readers -> Nat]
  /\ got_ns \in [Readers -> Int] /\ floor \in [Readers -> Nat]

(* tsc2ns never combines the parameters of two calibrations under the      *)
(* lock: BASE_TSC and NS_PER_TSC are of one calibration, and BASE_NS is    *)
(* that calibration's or the error term of a later one, which save_param   *)
(* stores outside the lock.                                                *)
SnapshotPair ==
  \A r \in Readers : rpc[r] = "done" =>
    /\ got_per[r] = got_tsc[r]
    /\ got_ns[r] = got_tsc[r] \/ -got_ns[r] > got_tsc[r]

(* tsc2ns converts with a complete calibration that is at least as recent  *)
(* as the last one completed before the call.                              *)
SnapshotCurrent ==
  \A r \in Readers : rpc[r] = "done" =>
    floor[r] <= got_tsc[r] /\ got_tsc[r] <= saved

-----------------------------------------------------------------------------
(* The inductive invariant behind these two properties.                    *)

Unlocked == wpc \in {"idle", "error", "lock"}

(* Outside the lock the parameters are those of the last complete          *)
(* calibration, but for an error term in BASE_NS; inside it they become    *)
(* those of the next, one by one.                                          *)
WriterInv ==
  /\ Unlocked =>
       /\ Even(PARAM_SEQ) /\ BASE_TSC = saved /\ NS_PER_TSC = saved
       /\ BASE_NS = IF wpc = "lock" THEN -base_tsc ELSE saved
       /\ NEXT_CALIBRATE_TSC > saved
  /\ ~Unlocked =>
       /\ PARAM_SEQ = seq + 1 /\ Even(seq)
       /\ NEXT_CALIBRATE_TSC > base_tsc
  /\ wpc # "idle" => saved < base_tsc
  /\ wpc \in {"ns", "per", "unlock"} => BASE_TSC = base_tsc
  /\ wpc \in {"per", "unlock"} => BASE_NS = base_tsc
  /\ wpc = "unlock" => NS_PER_TSC = base_tsc

(* As long as PARAM_SEQ is what a reader read first, nothing it has read   *)
(* since has changed, except for the error term.                           *)
ReaderInv(r) ==
  /\ floor[r] <= saved
  /\ before_seq[r] <= PARAM_SEQ
  /\ before_seq[r] = PARAM_SEQ =>
       /\ rpc[r] \in {"per", "ns", "after"} => got_tsc[r] = saved
       /\ rpc[r] \in {"ns", "after"} => got_per[r] = saved
       /\ rpc[r] = "after" => got_ns[r] = saved \/ -got_ns[r] > saved
  /\ rpc[r] = "done" =>
       /\ got_per[r] = got_tsc[r]
       /\ got_ns[r] = got_tsc[r] \/ -got_ns[r] > got_tsc[r]
       /\ floor[r] <= got_tsc[r] /\ got_tsc[r] <= saved

IndInv == TypeOK /\ WriterInv /\ \A r \in Readers : ReaderInv(r)

-----------------------------------------------------------------------------
(* What PARAM_SEQ is documented to detect: a conversion with parameters of *)
(* which another thread has modified any, BASE_NS included.                *)
SnapshotConsistent ==
  \A r \in Readers : rpc[r] = "done" =>
    got_per[r] = got_tsc[r] /\ got_ns[r] = got_tsc[r]

(* tsc2ns returns: its loop ends once no calibration overlaps an attempt.  *)
Tsc2nsReturns == \A r \in Readers : rpc[r] = "before" ~> rpc[r] = "done"
=============================================================================
