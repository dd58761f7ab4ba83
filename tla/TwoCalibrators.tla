--------------------------- MODULE TwoCalibrators ---------------------------
(***************************************************************************)
(* A second call of init_logger.  A handle is for one thread, so a program *)
(* that logs from two threads calls init_logger twice.  The second call    *)
(* runs tscns::init over parameters that are in use and then starts a      *)
(* calibrating thread of its own.  The first calibrating thread and the    *)
(* readers are those of Tscns; what the second call starts takes the same  *)
(* steps on the same parameters, with locals of its own.  As in Tscns,     *)
(* save_param reads PARAM_SEQ and makes it odd in one step; even so the    *)
(* two writers disturb each other.                                         *)
(***************************************************************************)
EXTENDS Tscns

VARIABLES wpc2, base_tsc2, seq2  \* the second call of init_logger

writer2 == <<wpc2, base_tsc2, seq2>>
allVars == <<vars, writer2>>

Second == INSTANCE Tscns WITH wpc <- wpc2, base_tsc <- base_tsc2, seq <- seq2

TwoInit == Init /\ wpc2 = "call" /\ base_tsc2 = 0 /\ seq2 = 0

(* init samples the clocks and then spins for INIT_CALIBRATE_NANOS ... *)
InitSample ==
  /\ wpc2 = "call"
  /\ base_tsc2' = tsc
  /\ wpc2' = "spin"
  /\ UNCHANGED <<vars, seq2>>

(* ... before save_param, whose first store is 0: init has no error yet. *)
InitSaveError ==
  /\ wpc2 = "spin"
  /\ tsc > base_tsc2
  /\ BASE_NS' = 0
  /\ wpc2' = "lock"
  /\ UNCHANGED <<tsc, PARAM_SEQ, NS_PER_TSC, BASE_TSC, NEXT_CALIBRATE_TSC, writer,
                 readers, base_tsc2, seq2>>

(* The rest of save_param, and the calls of calibrate that follow. *)
SecondStep ==
  /\ Second!Calibrate \/ Second!WriterStep
  /\ UNCHANGED <<wpc, base_tsc, seq>>

TwoNext ==
  \/ Next /\ UNCHANGED writer2
  \/ InitSample \/ InitSaveError \/ SecondStep

TwoSpec == TwoInit /\ [][TwoNext]_allVars

(* Parameters that another thread has modified during a conversion are     *)
(* detected, whoever that thread is: BASE_TSC and NS_PER_TSC as tsc2ns     *)
(* uses them are of one calibration.                                       *)
OneCalibration ==
  \A r \in Readers : rpc[r] = "done" => got_per[r] = got_tsc[r]
=============================================================================
