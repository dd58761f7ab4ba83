------------------------------- MODULE Backend -------------------------------
(***************************************************************************)
(* The back end thread and its sink on top of what the staging buffer      *)
(* promises, LogChannel: front finds the next record of the channel.       *)
(***************************************************************************)
EXTENDS ConsoleSink

VARIABLES queue, published, seen  \* the channel

channel == <<queue, published, seen>>
vars == <<channel, sinkVars>>

Chan == INSTANCE LogChannel

Init == Chan!Init /\ SinkInit

(* A record is stamped before it is published, perhaps before the last     *)
(* flush. *)
Publish ==
  /\ Chan!Publish
  /\ \E n \in TextLens, t \in 0 .. age : Record(n, t)

(* front returns a record, and on_record gets it. *)
OnRecord == Chan!Deliver /\ (Format(seen') \/ FormatPanics(seen'))

(* front returns None. *)
FrontEmpty == queue = << >> /\ EndRound /\ UNCHANGED channel

Run ==
  \/ OnRecord
  \/ FrontEmpty
  \/ (StartRun \/ Flush \/ OnIdle) /\ UNCHANGED channel

Time == Tick /\ UNCHANGED channel

Next == Publish \/ Run \/ Time

Spec == Init /\ [][Next]_vars

(* The thread polls in an endless loop, and time passes. *)
FairSpec == Spec /\ WF_vars(Run) /\ WF_vars(Time)
=============================================================================
