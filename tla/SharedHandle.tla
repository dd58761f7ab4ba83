---------------------------- MODULE SharedHandle ----------------------------
(***************************************************************************)
(* Two threads that log through one LoggerHandle.  publish_args takes      *)
(* &self and makes a Producer of the one staging buffer in every call, and *)
(* the queue is declared Sync, so safe code may share the handle; the      *)
(* queue itself is written for a Producer that stays on one thread.  The   *)
(* first thread and the back end are those of SpscVarQueue; the second     *)
(* thread takes the same steps on the same ring and indices, with locals   *)
(* of its own.                                                             *)
(***************************************************************************)
EXTENDS SpscVarQueue

VARIABLES ppc2, len2, write_idx2, id2  \* publish_args on the second thread

producer2 == <<ppc2, len2, write_idx2, id2>>
sharedVars == <<vars, producer2>>

Second ==
  INSTANCE SpscVarQueue WITH
    ppc <- ppc2, len <- len2, write_idx <- write_idx2, id <- id2

SharedInit == Init /\ Second!Init

SecondStep == (\E l \in PayloadLens : Second!TryAlloc(l)) \/ Second!ProducerStep

SharedNext ==
  \/ Next /\ UNCHANGED producer2
  \/ SecondStep /\ UNCHANGED producer

SharedSpec == SharedInit /\ [][SharedNext]_sharedVars

(* commit publishes a record after its header fields and payload were      *)
(* written, whichever thread publishes: what front returns is a record     *)
(* that its own publish_args call has committed, whole and in order.       *)
PublishedAfterWritten == RecordIntact
=============================================================================
