---------------------------- MODULE ApprovalGate ----------------------------
(***************************************************************************)
(* What the backend promises about Administration's approval: technicians  *)
(* are shown an appointment that Scheduling filed only once Administration *)
(* has cleared it, and a recall takes both the clearance and the showing   *)
(* away.  Appointments that predate the approval workflow are shown        *)
(* without clearance until they are recalled.                              *)
(***************************************************************************)
CONSTANTS Appt, Legacy

VARIABLES filed,    \* appointments on file
          cleared,  \* appointments Administration has cleared
          shown     \* appointments technicians may see

gate == <<filed, cleared, shown>>

GateInit ==
  /\ filed = Legacy
  /\ cleared = {}
  /\ shown = Legacy

\* Filed by Scheduling: neither cleared nor shown.
File(a) ==
  /\ a \notin filed
  /\ filed' = filed \cup {a}
  /\ UNCHANGED <<cleared, shown>>

\* Filed by Administration: cleared and shown at once.
FileCleared(a) ==
  /\ a \notin filed
  /\ filed' = filed \cup {a}
  /\ cleared' = cleared \cup {a}
  /\ shown' = shown \cup {a}

\* Administration clears an appointment, and may show it in the same step.
Clear(a) ==
  /\ a \in filed
  /\ cleared' = cleared \cup {a}
  /\ shown' \in {shown, shown \cup {a}}
  /\ UNCHANGED filed

\* Scheduling asks for a new approval.
Recall(a) ==
  /\ a \in filed
  /\ cleared' = cleared \ {a}
  /\ shown' = shown \ {a}
  /\ UNCHANGED filed

\* Appointments are deleted.
Remove(as) ==
  /\ filed' = filed \ as
  /\ cleared' = cleared \ as
  /\ shown' = shown \ as

GateNext ==
  \/ \E a \in Appt : File(a) \/ FileCleared(a) \/ Clear(a) \/ Recall(a)
  \/ \E as \in SUBSET filed : Remove(as)

GateSpec == GateInit /\ [][GateNext]_gate
=============================================================================
