----------------------------- MODULE TscnsProofs -----------------------------
(***************************************************************************)
(* Proofs about Tscns for any number of readers, any interval and any      *)
(* number of calibrations.                                                 *)
(***************************************************************************)
EXTENDS Tscns, TLAPS

(* Parity of the sequence. *)
LEMMA Parity ==
  ASSUME NEW n \in Nat
  PROVE  /\ Even(n) => ~Even(n + 1) /\ Even(n + 2)
         /\ ClearBit0(n) \in Nat /\ Even(ClearBit0(n)) /\ ClearBit0(n) <= n
BY DEF Even, ClearBit0

LEMMA InitInv == Init => IndInv
<1>. SUFFICES ASSUME Init PROVE IndInv
  OBVIOUS
<1>. USE DEF Init
<1>1. Even(0) /\ Even(2)
  BY DEF Even
<1>2. TypeOK
  BY <1>1, IntervalAssumption DEF TypeOK
<1>3. WriterInv
  BY <1>1, IntervalAssumption DEF WriterInv, Unlocked
<1>4. ASSUME NEW r \in Readers PROVE ReaderInv(r)
  BY DEF ReaderInv
<1>. QED BY <1>2, <1>3, <1>4 DEF IndInv

(* A reader is undisturbed by steps that leave the sequence, the last      *)
(* complete calibration and its own locals alone.                          *)
LEMMA ReadersStable ==
  ASSUME IndInv, UNCHANGED <<PARAM_SEQ, saved, readers>>
  PROVE  \A r \in Readers : ReaderInv(r)'
BY DEF IndInv, ReaderInv, readers

(* A step that moves the sequence on makes every open attempt fail. *)
LEMMA ReadersOutdated ==
  ASSUME IndInv, UNCHANGED readers, PARAM_SEQ' \in Nat, PARAM_SEQ < PARAM_SEQ',
         saved' \in Nat, saved <= saved'
  PROVE  \A r \in Readers : ReaderInv(r)'
<1>. SUFFICES ASSUME NEW r \in Readers PROVE ReaderInv(r)'
  OBVIOUS
<1>1. /\ floor[r] \in Nat /\ before_seq[r] \in Nat /\ got_tsc[r] \in Nat
      /\ PARAM_SEQ \in Nat /\ saved \in Nat
  BY DEF IndInv, TypeOK
<1>2. floor[r] <= saved /\ before_seq[r] <= PARAM_SEQ /\ ReaderInv(r)
  BY DEF IndInv, ReaderInv
<1>3. floor[r] <= saved' /\ before_seq[r] < PARAM_SEQ'
  BY <1>1, <1>2
<1>. QED BY <1>1, <1>2, <1>3 DEF ReaderInv, readers

LEMMA WriterStepInv ==
  ASSUME IndInv, WriterStep
  PROVE  IndInv'
<1>. USE DEF IndInv
<1>1. CASE SaveError
  <2>. USE <1>1 DEF SaveError
  <2>1. TypeOK'
    BY DEF TypeOK, readers
  <2>2. WriterInv'
    BY DEF WriterInv, Unlocked
  <2>. QED BY <2>1, <2>2, ReadersStable
<1>2. CASE SaveLock
  <2>. USE <1>2 DEF SaveLock
  <2>1. TypeOK'
    BY IntervalAssumption DEF TypeOK, readers
  <2>2. WriterInv'
    BY IntervalAssumption DEF WriterInv, Unlocked, TypeOK
  <2>3. \A r \in Readers : ReaderInv(r)'
    BY ReadersOutdated DEF TypeOK
  <2>. QED BY <2>1, <2>2, <2>3
<1>3. CASE SaveTsc \/ SaveNs \/ SavePer
  <2>. USE <1>3 DEF SaveTsc, SaveNs, SavePer
  <2>1. TypeOK'
    BY DEF TypeOK, readers
  <2>2. WriterInv'
    BY DEF WriterInv, Unlocked
  <2>. QED BY <2>1, <2>2, ReadersStable
<1>4. CASE SaveUnlock
  <2>. USE <1>4 DEF SaveUnlock
  <2>1. TypeOK'
    BY DEF TypeOK, readers
  <2>2. /\ PARAM_SEQ = seq + 1 /\ Even(seq) /\ saved < base_tsc
        /\ seq \in Nat /\ saved \in Nat /\ base_tsc \in Nat
    BY DEF WriterInv, Unlocked, TypeOK
  <2>3. WriterInv'
    BY <2>2, Parity DEF WriterInv, Unlocked
  <2>4. PARAM_SEQ' \in Nat /\ PARAM_SEQ < PARAM_SEQ' /\ saved' \in Nat /\ saved <= saved'
    BY <2>2
  <2>. QED BY <2>1, <2>3, <2>4, ReadersOutdated
<1>. QED BY <1>1, <1>2, <1>3, <1>4 DEF WriterStep

(* While the sequence is what the reader read first, no calibration is     *)
(* under way and the parameters are those of the last one.                 *)
LEMMA StillUnlocked ==
  ASSUME IndInv, NEW r \in Readers, before_seq[r] = PARAM_SEQ
  PROVE  /\ BASE_TSC = saved /\ NS_PER_TSC = saved
         /\ BASE_NS = saved \/ -BASE_NS > saved
<1>1. Even(PARAM_SEQ)
  BY DEF IndInv, TypeOK
<1>2. Unlocked
  BY <1>1, Parity DEF IndInv, TypeOK, WriterInv
<1>. QED BY <1>2 DEF IndInv, TypeOK, WriterInv, Unlocked

LEMMA ReaderStepInv ==
  ASSUME IndInv, NEW r \in Readers, Tsc2ns(r) \/ ReaderStep(r)
  PROVE  IndInv'
<1>. USE DEF IndInv
<1>1. UNCHANGED <<tsc, params, writer>>
  BY DEF Tsc2ns, ReaderStep, ReadSeqBefore, ReadBaseTsc, ReadNsPerTsc, ReadBaseNs, ReadSeqAfter
<1>2. WriterInv'
  BY <1>1 DEF WriterInv, Unlocked, params, writer
<1>3. TypeOK'
  <2>1. ClearBit0(PARAM_SEQ) \in {n \in Nat : Even(n)}
    BY Parity DEF TypeOK
  <2>. QED BY <1>1, <2>1
           DEF TypeOK, params, writer, Tsc2ns, ReaderStep, ReadSeqBefore, ReadBaseTsc,
               ReadNsPerTsc, ReadBaseNs, ReadSeqAfter
<1>4. ASSUME NEW q \in Readers, q # r PROVE ReaderInv(q)'
  <2>1. UNCHANGED <<rpc[q], before_seq[q], got_tsc[q], got_per[q], got_ns[q], floor[q]>>
    BY <1>4 DEF TypeOK, Tsc2ns, ReaderStep, ReadSeqBefore, ReadBaseTsc, ReadNsPerTsc,
               ReadBaseNs, ReadSeqAfter
  <2>. QED BY <1>1, <2>1 DEF ReaderInv, params, writer
<1>5. ReaderInv(r)'
  <2>1. CASE Tsc2ns(r)
    BY <2>1 DEF Tsc2ns, ReaderInv, TypeOK, params, writer
  <2>2. CASE ReadSeqBefore(r)
    BY <2>2, Parity DEF ReadSeqBefore, ReaderInv, TypeOK, params, writer
  <2>3. CASE ReadBaseTsc(r)
    BY <2>3, StillUnlocked DEF ReadBaseTsc, ReaderInv, TypeOK, params, writer
  <2>4. CASE ReadNsPerTsc(r)
    BY <2>4, StillUnlocked DEF ReadNsPerTsc, ReaderInv, TypeOK, params, writer
  <2>5. CASE ReadBaseNs(r)
    BY <2>5, StillUnlocked DEF ReadBaseNs, ReaderInv, TypeOK, params, writer
  <2>6. CASE ReadSeqAfter(r)
    BY <2>6 DEF ReadSeqAfter, ReaderInv, TypeOK, params, writer
  <2>. QED BY <2>1, <2>2, <2>3, <2>4, <2>5, <2>6 DEF ReaderStep
<1>. QED BY <1>2, <1>3, <1>4, <1>5

LEMMA NextInv == IndInv /\ [Next]_vars => IndInv'
<1>. SUFFICES ASSUME IndInv, [Next]_vars PROVE IndInv'
  OBVIOUS
<1>. USE DEF IndInv
<1>1. CASE UNCHANGED vars \/ Tick
  <2>1. tsc' \in Nat /\ UNCHANGED <<params, writer, readers>>
    BY <1>1 DEF vars, Tick, TypeOK
  <2>2. TypeOK'
    BY <2>1 DEF TypeOK, params, writer, readers
  <2>3. WriterInv'
    BY <2>1 DEF WriterInv, Unlocked, params, writer
  <2>. QED BY <2>1, <2>2, <2>3, ReadersStable DEF params, writer
<1>2. CASE Calibrate
  <2>. USE <1>2 DEF Calibrate
  <2>1. TypeOK'
    BY DEF TypeOK, params, readers
  <2>2. WriterInv'
    BY DEF WriterInv, Unlocked, TypeOK, params
  <2>. QED BY <2>1, <2>2, ReadersStable DEF params
<1>. QED BY <1>1, <1>2, WriterStepInv, ReaderStepInv DEF Next

-----------------------------------------------------------------------------
(* The invariant that relates the calibrating thread to every reader       *)
(* holds throughout.                                                       *)
THEOREM Invariance == Spec => []IndInv
<1>. QED BY InitInv, NextInv, PTL DEF Spec

(* The parameters, the sequence and the locals of every reader stay in     *)
(* their types; above all PARAM_SEQ, and what tsc2ns makes of it, never    *)
(* leave the naturals.                                                     *)
THEOREM TypeCorrect == Spec => []TypeOK
<1>1. IndInv => TypeOK
  BY DEF IndInv
<1>. QED BY <1>1, Invariance, PTL

(* tsc2ns never mixes the counter base and the rate of two calibrations,   *)
(* whatever the number of readers and calibrations.                        *)
THEOREM NeverMixes == Spec => []SnapshotPair
<1>1. IndInv => SnapshotPair
  BY DEF IndInv, ReaderInv, SnapshotPair
<1>. QED BY <1>1, Invariance, PTL

(* tsc2ns never converts with an outdated or an unfinished calibration.    *)
THEOREM NeverStale == Spec => []SnapshotCurrent
<1>1. IndInv => SnapshotCurrent
  BY DEF IndInv, ReaderInv, SnapshotCurrent
<1>. QED BY <1>1, Invariance, PTL
=============================================================================
