----------------------------- MODULE LogChannel -----------------------------
(***************************************************************************)
(* What the staging buffer of the logger promises to its two ends: the     *)
(* records the front end publishes are numbered 1, 2, 3, ... in the order  *)
(* of the publish_args calls that returned true, and the back end sees     *)
(* exactly those records, once each, in that order.                        *)
(***************************************************************************)
EXTENDS Naturals, Sequences

VARIABLES
  queue,      \* the records published and not yet seen by the back end
  published,  \* how many records were ever published
  seen        \* the record the back end saw last (0: none yet)

vars == <<queue, published, seen>>

Init ==
  /\ queue = << >>
  /\ published = 0
  /\ seen = 0

Publish ==
  /\ published' = published + 1
  /\ queue' = Append(queue, published + 1)
  /\ UNCHANGED seen

Deliver ==
  /\ queue # << >>
  /\ seen' = Head(queue)
  /\ queue' = Tail(queue)
  /\ UNCHANGED published

Next == Publish \/ Deliver

Spec == Init /\ [][Next]_vars

(* The back end is obliged to drain the channel; nobody is obliged to log. *)
LiveSpec == Spec /\ WF_vars(Deliver)
=============================================================================
