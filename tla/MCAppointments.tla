--------------------------- MODULE MCAppointments ---------------------------
(* Instances of Appointments for TLC: which endpoints a run exercises. *)
EXTENDS Appointments, TLC

CONSTANTS t1, t2, a1, a2, c1, r1, r2

\* Request slots are interchangeable, and technicians where both take part.
SlotSymmetry == Permutations({r1, r2})
Symmetry == Permutations({t1, t2}) \cup SlotSymmetry

WorkOps == {"create", "start", "complete", "postpone", "confirmOperation", "approveExport"}
ApprovalOps == {"create", "update", "approveVisibility", "exportToTechnicians", "approveExport"}
RecordOps == {"create", "start", "complete", "status", "delete", "deleteCustomer"}
AnswerOps == {"create", "dashboardUpdate", "urgentVisit", "deleteCustomer",
              "deleteAllCustomers"}
=============================================================================
