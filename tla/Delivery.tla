-------------------------------- MODULE Delivery --------------------------------
(***************************************************************************)
(* What one run of SendEmail promises its caller, in the terms of the        *)
(* caller: copies are handed to the server, then the outcome is fixed, then  *)
(* files are moved by it, then the outcome is told.  An outcome "sent" is    *)
(* the server's word for the last copy.  A run may be killed and repeated.   *)
(***************************************************************************)
EXTENDS Naturals

CONSTANT Files

VARIABLES phase,    \* "sending", "filing", "told" or "dead"
          outcome,  \* "none" until it is fixed
          copies,   \* copies the server took from this run
          moved     \* input files that were moved or deleted

vars == <<phase, outcome, copies, moved>>

Init == phase = "sending" /\ outcome = "none" /\ copies = 0 /\ moved = {}

\* The server took a copy and the sender does not know.
LoseReply ==
  /\ phase = "sending"
  /\ copies' = copies + 1
  /\ UNCHANGED <<phase, outcome, moved>>

\* The server took a copy and said so.
Acknowledge ==
  /\ phase = "sending"
  /\ copies' = copies + 1 /\ outcome' = "sent" /\ phase' = "filing"
  /\ UNCHANGED moved

GiveUp ==
  /\ phase = "sending"
  /\ outcome' = "failed" /\ phase' = "filing"
  /\ UNCHANGED <<copies, moved>>

Rehearse ==
  /\ phase = "sending" /\ copies = 0
  /\ outcome' = "rehearsed" /\ phase' = "filing"
  /\ UNCHANGED <<copies, moved>>

Refuse ==
  /\ phase = "sending" /\ copies = 0
  /\ outcome' = "rejected" /\ phase' = "told"
  /\ UNCHANGED <<copies, moved>>

Move(f) ==
  /\ phase = "filing" /\ outcome \in {"sent", "failed"}
  /\ moved' = moved \cup {f}
  /\ UNCHANGED <<phase, outcome, copies>>

Tell ==
  /\ phase = "filing"
  /\ phase' = "told"
  /\ UNCHANGED <<outcome, copies, moved>>

Kill ==
  /\ phase \in {"sending", "filing"}
  /\ phase' = "dead" /\ outcome' = "none"
  /\ UNCHANGED <<copies, moved>>

Rerun ==
  /\ phase = "dead"
  /\ phase' = "sending" /\ copies' = 0
  /\ UNCHANGED <<outcome, moved>>

Settle == Acknowledge \/ GiveUp \/ Rehearse \/ Refuse

Next == LoseReply \/ Settle \/ (\E f \in Files : Move(f)) \/ Tell \/ Kill \/ Rerun

SafeSpec == Init /\ [][Next]_vars

Spec == SafeSpec /\ WF_vars(Settle) /\ WF_vars(Tell)

=============================================================================
