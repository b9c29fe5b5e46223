------------------------- MODULE AppointmentsProofs -------------------------
(***************************************************************************)
(* Theorems about Appointments, for any number of appointments,            *)
(* technicians, customers and requests in flight.                          *)
(***************************************************************************)
EXTENDS Appointments, TLAPS

-----------------------------------------------------------------------------
(* Type correctness.  TypeOK is not inductive by itself: /start writes the   *)
(* caller's id into technicianId, which is a technician's only because       *)
(* Scheduling cannot reach that endpoint.                                    *)

WorkersWork ==
  \A r \in Req : req[r].op = "start" => req[r].user # "SCHEDULING"

TypeInv == TypeOK /\ WorkersWork

\* The local copies of a request in flight are typed.
LEMMA InFlight ==
  ASSUME TypeOK, NEW r \in Req, req[r].pc # "idle"
  PROVE  /\ req[r] \in Request
         /\ req[r].id \in Appt
         /\ req[r].user \in Users
         /\ req[r].op \in AppointmentOps
         /\ req[r].row \in Row
         /\ Current(r) \in Row
BY DEF TypeOK, Request, Idle, Current

LEMMA FreeIsRow == Free \in Row
BY DEF Free, Row, Status, WorkStatus

\* A read keeps the invariant when its caller is allowed to make it.
LEMMA AcceptKeepsTypes ==
  ASSUME TypeInv, NEW r \in Req, NEW u \in Users, NEW op \in AppointmentOps,
         NEW a \in Appt, NEW versioned \in BOOLEAN,
         Accept(r, u, op, a, versioned),
         op = "start" => u # "SCHEDULING"
  PROVE  TypeInv'
<1>1. req' = [req EXCEPT ![r] =
         [pc |-> "write", op |-> op, user |-> u, id |-> a, versioned |-> versioned,
          newCustomer |-> FALSE, row |-> appt[a]]]
  BY DEF Accept
<1>2. req' \in [Req -> Request \cup {Idle}]
  BY <1>1 DEF TypeInv, TypeOK, Request
<1>3. UNCHANGED <<appt, customers, purge, reached, gone>>
  BY DEF Accept, tables, sockets
<1>4. WorkersWork'
  BY <1>1 DEF TypeInv, TypeOK, WorkersWork
<1> QED BY <1>2, <1>3, <1>4 DEF TypeInv, TypeOK

\* An update keeps the invariant when it stores a row.
LEMMA CommitKeepsTypes ==
  ASSUME TypeInv, NEW r \in Req, NEW op, NEW row \in Row, Commit(r, op, row)
  PROVE  TypeInv'
<1> DEFINE now == [row EXCEPT !.version = @ + 1]
<1>1. req[r].pc = "write" /\ req[r].pc # "idle"
  BY DEF Commit
<1>2. now \in Row
  BY DEF Row
<1>3. appt' = [appt EXCEPT ![req[r].id] = now]
  BY DEF Commit
<1>4. req' = [req EXCEPT ![r] = [req[r] EXCEPT !.pc = AfterWrite(op, now), !.row = now]]
  BY DEF Commit, TypeInv, TypeOK
<1>5. AfterWrite(op, now) \in {"touch", "audit", "emit"}
  BY DEF AfterWrite
<1>6. req[r] \in Request
  BY <1>1, InFlight DEF TypeInv
<1> HIDE DEF now
<1>7. [req[r] EXCEPT !.pc = AfterWrite(op, now), !.row = now] \in Request
  BY <1>2, <1>5, <1>6 DEF Request
<1>8. req' \in [Req -> Request \cup {Idle}] /\ appt' \in [Appt -> Row]
  BY <1>2, <1>3, <1>4, <1>7 DEF TypeInv, TypeOK
<1>9. WorkersWork'
  BY <1>4, <1>6 DEF TypeInv, TypeOK, WorkersWork, Request
<1>10. UNCHANGED <<customers, purge, reached, gone>>
  BY DEF Commit, sockets
<1> QED BY <1>8, <1>9, <1>10 DEF TypeInv, TypeOK

\* A step that only moves a request in flight on, and what it emits, keeps it.
LEMMA AdvanceKeepsTypes ==
  ASSUME TypeInv, NEW r \in Req, req[r].pc # "idle",
         UNCHANGED <<appt, customers, purge>>,
         reached' \in [Appt -> SUBSET Users], gone' \in SUBSET Appt,
         \/ req' = [req EXCEPT ![r] = Idle]
         \/ \E pc \in {"write", "customer", "customerEvent", "audit", "event", "emit"} :
              req' = [req EXCEPT ![r].pc = pc]
  PROVE  TypeInv'
<1>1. req[r] \in Request
  BY InFlight DEF TypeInv
<1>2. CASE req' = [req EXCEPT ![r] = Idle]
  <2>1. req' \in [Req -> Request \cup {Idle}]
    BY <1>2 DEF TypeInv, TypeOK
  <2>2. WorkersWork'
    BY <1>2 DEF TypeInv, TypeOK, WorkersWork, Idle
  <2> QED BY <2>1, <2>2 DEF TypeInv, TypeOK
<1>3. ASSUME NEW pc \in {"write", "customer", "customerEvent", "audit", "event", "emit"},
             req' = [req EXCEPT ![r].pc = pc]
      PROVE  TypeInv'
  <2>1. req' = [req EXCEPT ![r] = [req[r] EXCEPT !.pc = pc]]
    BY <1>3 DEF TypeInv, TypeOK
  <2>2. [req[r] EXCEPT !.pc = pc] \in Request
    BY <1>1, <1>3 DEF Request
  <2>3. req' \in [Req -> Request \cup {Idle}]
    BY <2>1, <2>2 DEF TypeInv, TypeOK
  <2>4. WorkersWork'
    BY <1>1, <2>1 DEF TypeInv, TypeOK, WorkersWork, Request
  <2> QED BY <2>3, <2>4 DEF TypeInv, TypeOK
<1> QED BY <1>2, <1>3

LEMMA AudienceIsUsers ==
  ASSUME NEW op, NEW row \in Row
  PROVE  AudienceOf(op, row) \subseteq Users
<1>1. TechnicianRoom(row) \subseteq Technician /\ OwnerRoom(row) \subseteq Technician
  BY DEF TechnicianRoom, OwnerRoom, Row
<1> QED BY <1>1 DEF AudienceOf, Users

LEMMA ArriveKeepsTypes ==
  ASSUME TypeInv, NEW r \in Req, Arrive(r)
  PROVE  TypeInv'
<1>1. PICK a \in Appt :
        \/ \E u \in Users : \/ Create(r, u, a) \/ Update(r, u, a) \/ DashboardUpdate(r, u, a)
                            \/ SetStatus(r, u, a) \/ Start(r, u, a) \/ Complete(r, u, a)
                            \/ Postpone(r, u, a)
        \/ ApproveVisibility(r, a) \/ ExportToTechnicians(r, a) \/ ApproveExport(r, a)
        \/ ConfirmOperation(r, a) \/ Delete(r, a)
        \/ \E t \in Technician : UrgentVisit(r, t, a)
  BY DEF Arrive
<1>2. ASSUME NEW u \in Users, Create(r, u, a) PROVE TypeInv'
  <2>1. PICK urgent \in BOOLEAN, shown \in BOOLEAN, t \in Technician \cup {NoTech},
             c \in Customer : Insert(r, u, a, urgent, shown, t, c)
    BY <1>2, Zenon DEF Create
  <2>2. NewRow(u, urgent, shown, t, c) \in Row
    BY DEF NewRow, Free, Row, Status, WorkStatus
  <2>3. [pc |-> "touch", op |-> "create", user |-> u, id |-> a,
         versioned |-> FALSE, newCustomer |-> c \notin customers,
         row |-> NewRow(u, urgent, shown, t, c)] \in Request
    BY <2>2 DEF Request, AppointmentOps
  <2>4. WorkersWork'
    BY <2>1 DEF Insert, TypeInv, TypeOK, WorkersWork
  <2> QED BY <2>1, <2>2, <2>3, <2>4 DEF Insert, sockets, TypeInv, TypeOK
<1>3. ASSUME NEW u \in Users,
             \/ Update(r, u, a) \/ DashboardUpdate(r, u, a) \/ SetStatus(r, u, a)
             \/ Start(r, u, a) \/ Complete(r, u, a) \/ Postpone(r, u, a)
      PROVE  TypeInv'
  <2>1. PICK op \in AppointmentOps, versioned \in BOOLEAN :
          Accept(r, u, op, a, versioned) /\ (op = "start" => u # "SCHEDULING")
    <3>1. CASE Update(r, u, a) BY <3>1 DEF Update, AppointmentOps
    <3>2. CASE DashboardUpdate(r, u, a) BY <3>2 DEF DashboardUpdate, AppointmentOps
    <3>3. CASE SetStatus(r, u, a) BY <3>3 DEF SetStatus, AppointmentOps
    <3>4. CASE Start(r, u, a)
      BY <3>4, UsersAssumption DEF Start, InWorkScope, AppointmentOps
    <3>5. CASE Complete(r, u, a) BY <3>5 DEF Complete, AppointmentOps
    <3>6. CASE Postpone(r, u, a) BY <3>6 DEF Postpone, AppointmentOps
    <3> QED BY <1>3, <3>1, <3>2, <3>3, <3>4, <3>5, <3>6
  <2> QED BY <2>1, AcceptKeepsTypes
<1>4. ASSUME \/ ApproveVisibility(r, a) \/ ExportToTechnicians(r, a) \/ ApproveExport(r, a)
             \/ ConfirmOperation(r, a) \/ Delete(r, a)
      PROVE  TypeInv'
  <2>1. PICK u \in Users, op \in AppointmentOps :
          Accept(r, u, op, a, FALSE) /\ op # "start"
    BY <1>4 DEF ApproveVisibility, ExportToTechnicians, ApproveExport, ConfirmOperation,
                Delete, Users, AppointmentOps
  <2> QED BY <2>1, AcceptKeepsTypes
<1>5. ASSUME NEW t \in Technician, UrgentVisit(r, t, a) PROVE TypeInv'
  <2> DEFINE q == [pc |-> "check", op |-> "urgentVisit", user |-> t, id |-> a,
                   versioned |-> FALSE, newCustomer |-> FALSE, row |-> appt[a]]
  <2>1. req' = [req EXCEPT ![r] = q] /\ UNCHANGED <<appt, customers, purge, reached, gone>>
    BY <1>5 DEF UrgentVisit, tables, sockets
  <2>2. q \in Request
    BY DEF Request, AppointmentOps, Users, TypeInv, TypeOK
  <2>3. WorkersWork'
    BY <2>1 DEF TypeInv, TypeOK, WorkersWork
  <2> QED BY <2>1, <2>2, <2>3 DEF TypeInv, TypeOK
<1> QED BY <1>1, <1>2, <1>3, <1>4, <1>5

\* The row each endpoint stores is a row.
LEMMA WriteKeepsTypes ==
  ASSUME TypeInv, NEW r \in Req, Write(r)
  PROVE  TypeInv'
<1>1. req[r].pc = "write" /\ req[r].pc # "idle"
  BY DEF Write, Commit, UpdateWrite, DashboardUpdateWrite, ApproveVisibilityWrite,
         ExportToTechniciansWrite, ApproveExportWrite, SetStatusWrite, StartWrite,
         CompleteWrite, PostponeWrite, ConfirmOperationWrite, DeleteWrite, UrgentVisitWrite
<1>2. Current(r) \in Row /\ req[r] \in Request /\ req[r].id \in Appt /\ req[r].user \in Users
  BY <1>1, InFlight DEF TypeInv
<1>3. CASE UpdateWrite(r)
  <2>1. PICK rescheduled \in BOOLEAN, shown \in BOOLEAN :
          Commit(r, "update",
            [Current(r) EXCEPT !.status = IF rescheduled THEN "RESCHEDULED" ELSE @,
                               !.visibleToScheduling = shown])
    BY <1>3 DEF UpdateWrite
  <2>2. [Current(r) EXCEPT !.status = IF rescheduled THEN "RESCHEDULED" ELSE @,
                           !.visibleToScheduling = shown] \in Row
    BY <1>2 DEF Row, Status
  <2> QED BY <2>1, <2>2, CommitKeepsTypes
<1>4. CASE DashboardUpdateWrite(r)
  <2>1. PICK s \in BodyStatus :
          Commit(r, "dashboardUpdate", [Current(r) EXCEPT !.status = s])
    BY <1>4 DEF DashboardUpdateWrite
  <2>2. [Current(r) EXCEPT !.status = s] \in Row
    BY <1>2, StatusAssumption DEF Row
  <2> QED BY <2>1, <2>2, CommitKeepsTypes
<1>5. CASE ApproveVisibilityWrite(r)
  <2>1. [Current(r) EXCEPT !.visibleToScheduling = TRUE, !.adminApproved = TRUE] \in Row
    BY <1>2 DEF Row
  <2> QED BY <1>5, <2>1, CommitKeepsTypes DEF ApproveVisibilityWrite
<1>6. CASE ExportToTechniciansWrite(r)
  <2>1. [Current(r) EXCEPT !.visibleToTechnician = FALSE, !.adminApproved = FALSE] \in Row
    BY <1>2 DEF Row
  <2> QED BY <1>6, <2>1, CommitKeepsTypes DEF ExportToTechniciansWrite
<1>7. CASE ApproveExportWrite(r)
  <2>1. [Current(r) EXCEPT !.visibleToTechnician = TRUE, !.adminApproved = TRUE] \in Row
    BY <1>2 DEF Row
  <2> QED BY <1>7, <2>1, CommitKeepsTypes DEF ApproveExportWrite
<1>8. CASE SetStatusWrite(r)
  <2>1. PICK s \in BodyStatus : Commit(r, "status", [Current(r) EXCEPT !.status = s])
    BY <1>8 DEF SetStatusWrite
  <2>2. [Current(r) EXCEPT !.status = s] \in Row
    BY <1>2, StatusAssumption DEF Row
  <2> QED BY <2>1, <2>2, CommitKeepsTypes
<1>9. CASE StartWrite(r)
  <2> DEFINE claims == req[r].row.technicianId = NoTech /\ req[r].user # "ADMIN"
             tech == IF claims THEN req[r].user ELSE Current(r).technicianId
             new == [Current(r) EXCEPT !.workStatus = "IN_PROGRESS", !.startedAt = TRUE,
                                       !.technicianId = tech]
  <2>1. req[r].op = "start" /\ Commit(r, "start", new)
    BY <1>9, <1>2 DEF StartWrite, Commit
  <2>2. tech \in Technician \cup {NoTech}
    BY <1>2, <2>1 DEF TypeInv, WorkersWork, Users, Row
  <2>3. new \in Row
    BY <1>2, <2>2 DEF Row, WorkStatus
  <2> QED BY <2>1, <2>3, CommitKeepsTypes
<1>10. CASE CompleteWrite(r)
  <2>1. [Current(r) EXCEPT !.workStatus = "COMPLETED", !.completedAt = TRUE,
                           !.maintenanceConfirmed = FALSE] \in Row
    BY <1>2 DEF Row, WorkStatus
  <2> QED BY <1>10, <2>1, CommitKeepsTypes DEF CompleteWrite
<1>11. CASE PostponeWrite(r)
  <2>1. [Current(r) EXCEPT !.workStatus = "POSTPONED", !.postponements = TRUE] \in Row
    BY <1>2 DEF Row, WorkStatus
  <2> QED BY <1>11, <2>1, CommitKeepsTypes DEF PostponeWrite
<1>12. CASE ConfirmOperationWrite(r)
  <2>1. [Current(r) EXCEPT !.maintenanceConfirmed = TRUE] \in Row
    BY <1>2 DEF Row
  <2> QED BY <1>12, <2>1, CommitKeepsTypes DEF ConfirmOperationWrite
<1>13. CASE DeleteWrite(r) \/ UrgentVisitWrite(r)
  <2>1. /\ req' = [req EXCEPT ![r] = [req[r] EXCEPT !.pc = "audit"]]
        /\ UNCHANGED <<customers, purge, reached, gone>>
    BY <1>13 DEF DeleteWrite, UrgentVisitWrite, sockets, TypeInv, TypeOK
  <2>2. [req[r] EXCEPT !.pc = "audit"] \in Request
    BY <1>2 DEF Request
  <2>3. /\ [Current(r) EXCEPT !.life = "deleted"] \in Row
        /\ [Current(r) EXCEPT !.urgentVisitRecord = TRUE] \in Row
    BY <1>2 DEF Row
  <2>4. \/ appt' = [appt EXCEPT ![req[r].id] = [Current(r) EXCEPT !.life = "deleted"]]
        \/ appt' = [appt EXCEPT ![req[r].id] = [Current(r) EXCEPT !.urgentVisitRecord = TRUE]]
    BY <1>2, <1>13 DEF DeleteWrite, UrgentVisitWrite, Current, TypeInv, TypeOK
  <2>5. appt' \in [Appt -> Row]
    BY <2>3, <2>4 DEF TypeInv, TypeOK
  <2>6. req' \in [Req -> Request \cup {Idle}]
    BY <2>1, <2>2 DEF TypeInv, TypeOK
  <2>7. WorkersWork'
    BY <1>2, <2>1 DEF TypeInv, TypeOK, WorkersWork, Request
  <2> QED BY <2>1, <2>5, <2>6, <2>7 DEF TypeInv, TypeOK
<1> QED BY <1>3, <1>4, <1>5, <1>6, <1>7, <1>8, <1>9, <1>10, <1>11, <1>12, <1>13 DEF Write

LEMMA ServeKeepsTypes ==
  ASSUME TypeInv, NEW r \in Req, Serve(r)
  PROVE  TypeInv'
<1>1. CASE Write(r) BY <1>1, WriteKeepsTypes
<1>2. CASE UrgentVisitCheck(r) \/ WriteFails(r) \/ TouchCustomer(r) \/ AuditNewCustomer(r)
           \/ LogNewCustomer(r) \/ WriteAudit(r) \/ EmitEvent(r)
  <2>1. req[r].pc # "idle" /\ UNCHANGED <<appt, customers, purge, reached, gone>>
    BY <1>2 DEF UrgentVisitCheck, WriteFails, TouchCustomer, AuditNewCustomer, LogNewCustomer, WriteAudit,
                EmitEvent, tables, sockets
  <2>2. \/ req' = [req EXCEPT ![r] = Idle]
        \/ \E pc \in {"write", "customer", "customerEvent", "audit", "event", "emit"} :
             req' = [req EXCEPT ![r].pc = pc]
    BY <1>2 DEF UrgentVisitCheck, WriteFails, TouchCustomer, AuditNewCustomer, LogNewCustomer, WriteAudit,
                EmitEvent, AfterTouch
  <2> QED BY <2>1, <2>2, AdvanceKeepsTypes DEF TypeInv, TypeOK
<1>3. CASE Emit(r)
  <2>1. req[r].pc # "idle" /\ UNCHANGED <<appt, customers, purge>>
    BY <1>3 DEF Emit, tables
  <2>2. req[r].id \in Appt /\ req[r].row \in Row
    BY <2>1, InFlight DEF TypeInv
  <2>3. reached' \in [Appt -> SUBSET Users]
    BY <1>3, <2>2, AudienceIsUsers DEF Emit, TypeInv, TypeOK
  <2>4. gone' \in SUBSET Appt
    BY <1>3, <2>2 DEF Emit, News, TypeInv, TypeOK
  <2>5. req' = [req EXCEPT ![r] = Idle]
    BY <1>3 DEF Emit
  <2> QED BY <2>1, <2>3, <2>4, <2>5, AdvanceKeepsTypes
<1> QED BY <1>1, <1>2, <1>3 DEF Serve

\* Customer deletions and crashes.
LEMMA PurgeKeepsTypes ==
  ASSUME TypeInv, (\E c \in Customer : PurgeRead(c)) \/ PurgeAll \/ ServePurge \/ Crash
  PROVE  TypeInv'
<1>1. ASSUME NEW as, NEW cs PROVE Without(as, cs) \in [Appt -> Row]
  <2> SUFFICES ASSUME NEW a \in Appt
               PROVE /\ appt[a] \in Row
                     /\ [appt[a] EXCEPT !.life = "deleted"] \in Row
                     /\ [appt[a] EXCEPT !.customerId = NoCustomer] \in Row
    BY DEF Without
  <2>1. appt[a] \in Row
    BY DEF TypeInv, TypeOK
  <2> QED BY <2>1 DEF Row
<1>2. CASE \E c \in Customer : PurgeRead(c)
  <2>1. /\ UNCHANGED <<appt, customers, req, reached, gone>>
        /\ purge' \in Purge
    BY <1>2 DEF PurgeRead, OperationalOf, Purge, tables, sockets
  <2> QED BY <2>1 DEF TypeInv, TypeOK, WorkersWork
<1>3. CASE PurgeAll
  <2>1. /\ UNCHANGED <<req, reached, gone>>
        /\ appt' = Without({}, customers) /\ customers' = {}
        /\ purge' \in Purge
    BY <1>3 DEF PurgeAll, Purge, sockets, TypeInv, TypeOK
  <2> QED BY <1>1, <2>1 DEF TypeInv, TypeOK, WorkersWork
<1>4. CASE PurgeCommit
  <2>1. /\ UNCHANGED <<req, reached, gone>>
        /\ appt' = Without(purge.cards, purge.victims) /\ customers' \in SUBSET Customer
        /\ purge' \in Purge
    BY <1>4 DEF PurgeCommit, Purge, sockets, TypeInv, TypeOK
  <2> QED BY <1>1, <2>1 DEF TypeInv, TypeOK, WorkersWork
<1>5. CASE PurgeAudit \/ PurgeEvent \/ PurgeEmit
  <2>1. UNCHANGED <<appt, customers, req, reached>>
    BY <1>5 DEF PurgeAudit, PurgeEvent, PurgeEmit, tables, sockets
  <2>2. purge' \in Purge /\ gone' \in SUBSET Appt
    BY <1>5 DEF PurgeAudit, PurgeEvent, PurgeEmit, Purge, NoPurge, sockets, TypeInv, TypeOK
  <2> QED BY <2>1, <2>2 DEF TypeInv, TypeOK, WorkersWork
<1>6. CASE Crash
  <2>1. /\ UNCHANGED <<appt, customers, reached, gone>>
        /\ req' = [r \in Req |-> Idle] /\ purge' \in Purge
    BY <1>6 DEF Crash, NoPurge, Purge, tables, sockets
  <2>2. WorkersWork'
    BY <2>1 DEF WorkersWork, Idle
  <2> QED BY <2>1, <2>2 DEF TypeInv, TypeOK
<1> QED BY <1>2, <1>3, <1>4, <1>5, <1>6 DEF ServePurge

LEMMA TypeInvInit == Init => TypeInv
<1> SUFFICES ASSUME Init PROVE TypeInv
  OBVIOUS
<1>1. LegacyRow \in Row
  BY DEF LegacyRow, Free, Row, Status, WorkStatus
<1>2. TypeOK
  BY <1>1, FreeIsRow DEF Init, TypeOK, NoPurge, Purge
<1>3. WorkersWork
  BY DEF Init, WorkersWork, Idle
<1> QED BY <1>2, <1>3 DEF TypeInv

LEMMA TypeInvNext == TypeInv /\ [Next]_vars => TypeInv'
<1> SUFFICES ASSUME TypeInv, [Next]_vars PROVE TypeInv'
  OBVIOUS
<1>1. CASE \E r \in Req : Arrive(r)
  BY <1>1, ArriveKeepsTypes
<1>2. CASE \E r \in Req : Serve(r)
  BY <1>2, ServeKeepsTypes
<1>3. CASE (\E c \in Customer : PurgeRead(c)) \/ PurgeAll \/ ServePurge \/ Crash
  BY <1>3, PurgeKeepsTypes
<1>4. CASE UNCHANGED vars
  BY <1>4 DEF vars, TypeInv, TypeOK, WorkersWork
<1> QED BY <1>1, <1>2, <1>3, <1>4 DEF Next

\* Every variable keeps its type, whatever requests interleave: no endpoint
\* stores a caller that is not a technician as the technician of a job.
THEOREM TypeCorrect == Spec => []TypeOK
<1>1. TypeInv => TypeOK
  BY DEF TypeInv
<1>2. Spec => []TypeInv
  BY TypeInvInit, TypeInvNext, PTL DEF Spec
<1> QED BY <1>1, <1>2, PTL

-----------------------------------------------------------------------------
(* What one write does to its row, whichever endpoint it belongs to. *)

Kept(old, new) ==
  /\ old.startedAt => new.startedAt
  /\ old.completedAt => new.completedAt
  /\ old.postponements => new.postponements
  /\ old.urgentVisitRecord => new.urgentVisitRecord
  /\ old.version <= new.version

WorkChange(op, old, new) ==
  \/ /\ new.workStatus = old.workStatus
     /\ new.startedAt = old.startedAt /\ new.completedAt = old.completedAt
     /\ op = "confirmOperation" \/ new.maintenanceConfirmed = old.maintenanceConfirmed
  \/ /\ op = "start" /\ new.workStatus = "IN_PROGRESS" /\ new.startedAt
     /\ new.completedAt = old.completedAt
     /\ new.maintenanceConfirmed = old.maintenanceConfirmed
  \/ /\ op = "complete" /\ new.workStatus = "COMPLETED" /\ new.completedAt
     /\ new.startedAt = old.startedAt /\ ~new.maintenanceConfirmed
  \/ /\ op = "postpone" /\ new.workStatus = "POSTPONED"
     /\ new.startedAt = old.startedAt /\ new.completedAt = old.completedAt
     /\ new.maintenanceConfirmed = old.maintenanceConfirmed

GateChange(old, new) ==
  \/ /\ new.visibleToTechnician = old.visibleToTechnician
     /\ new.adminApproved \in {old.adminApproved, TRUE}
  \/ new.visibleToTechnician /\ new.adminApproved
  \/ ~new.visibleToTechnician /\ ~new.adminApproved

\* A stored row changes as its endpoint says, and the request leaves the
\* writing stage.
Written(r, new) ==
  /\ appt' = [appt EXCEPT ![req[r].id] = new]
  /\ new \in Row
  /\ new.life \in {"live", "deleted"}
  /\ Kept(appt[req[r].id], new)
  /\ WorkChange(req[r].op, appt[req[r].id], new)
  /\ GateChange(appt[req[r].id], new)
  /\ \E q \in Request : /\ req' = [req EXCEPT ![r] = q]
                        /\ q.id = req[r].id /\ q.pc \notin {"check", "write"}

LEMMA CommitEffect ==
  ASSUME TypeInv, NEW r \in Req, NEW op, NEW row \in Row, Commit(r, op, row),
         row.life = "live", Kept(Current(r), row), WorkChange(op, Current(r), row),
         GateChange(Current(r), row)
  PROVE  \E new : Written(r, new)
<1> DEFINE new == [row EXCEPT !.version = @ + 1]
           q == [req[r] EXCEPT !.pc = AfterWrite(op, new), !.row = new]
<1>1. req[r].pc = "write" /\ req[r].pc # "idle" /\ req[r].op = op
  BY DEF Commit
<1>2. Current(r) = appt[req[r].id] /\ Current(r) \in Row /\ req[r] \in Request
  BY <1>1, InFlight DEF Current, TypeInv
<1>3. new \in Row /\ new.life = "live"
  BY DEF Row
<1>4. Kept(Current(r), new)
  BY <1>2 DEF Kept, Row
<1>5. WorkChange(op, Current(r), new)
  BY DEF WorkChange, Row
<1>6. GateChange(Current(r), new)
  BY DEF GateChange, Row
<1>7. appt' = [appt EXCEPT ![req[r].id] = new]
  BY DEF Commit
<1>8. req' = [req EXCEPT ![r] = q]
  BY DEF Commit, TypeInv, TypeOK
<1>9. AfterWrite(op, new) \in {"touch", "audit", "emit"}
  BY DEF AfterWrite
<1> HIDE DEF new
<1>10. q \in Request /\ q.id = req[r].id /\ q.pc \notin {"check", "write"}
  BY <1>2, <1>3, <1>9 DEF Request
<1> QED BY <1>1, <1>2, <1>3, <1>4, <1>5, <1>6, <1>7, <1>8, <1>10 DEF Written

LEMMA WriteEffect ==
  ASSUME TypeInv, NEW r \in Req, Write(r)
  PROVE  /\ req[r].pc = "write" /\ req[r].id \in Appt
         /\ appt[req[r].id].life = "live"
         /\ \E new : Written(r, new)
<1>1. req[r].pc = "write" /\ req[r].pc # "idle" /\ appt[req[r].id].life = "live"
  BY DEF Write, Commit, UpdateWrite, DashboardUpdateWrite, ApproveVisibilityWrite,
         ExportToTechniciansWrite, ApproveExportWrite, SetStatusWrite, StartWrite,
         CompleteWrite, PostponeWrite, ConfirmOperationWrite, DeleteWrite, UrgentVisitWrite,
         Current
<1>2. /\ Current(r) \in Row /\ req[r] \in Request /\ req[r].id \in Appt
      /\ req[r].user \in Users /\ req[r].row \in Row
      /\ Current(r).life = "live" /\ Current(r) = appt[req[r].id]
  BY <1>1, InFlight DEF TypeInv, Current
<1> SUFFICES \E new : Written(r, new)
  BY <1>1, <1>2
<1>3. ASSUME NEW op, NEW row \in Row, Commit(r, op, row), row.life = "live",
             Kept(Current(r), row), WorkChange(op, Current(r), row),
             GateChange(Current(r), row)
      PROVE  \E new : Written(r, new)
  BY <1>3, CommitEffect
<1>4. CASE UpdateWrite(r)
  <2>1. PICK rescheduled \in BOOLEAN, shown \in BOOLEAN :
          Commit(r, "update",
            [Current(r) EXCEPT !.status = IF rescheduled THEN "RESCHEDULED" ELSE @,
                               !.visibleToScheduling = shown])
    BY <1>4 DEF UpdateWrite
  <2> DEFINE row == [Current(r) EXCEPT !.status = IF rescheduled THEN "RESCHEDULED" ELSE @,
                                       !.visibleToScheduling = shown]
  <2>2. row \in Row /\ row.life = "live"
    BY <1>2 DEF Row, Status
  <2>3. Kept(Current(r), row) /\ WorkChange("update", Current(r), row)
        /\ GateChange(Current(r), row)
    BY <1>2 DEF Kept, WorkChange, GateChange, Row
  <2>4. Commit(r, "update", row)
    BY <2>1
  <2> HIDE DEF row
  <2> QED BY <1>3, <2>2, <2>3, <2>4
<1>5. ASSUME NEW op \in {"dashboardUpdate", "status"}, NEW s \in BodyStatus,
             Commit(r, op, [Current(r) EXCEPT !.status = s])
      PROVE  \E new : Written(r, new)
  <2> DEFINE row == [Current(r) EXCEPT !.status = s]
  <2>1. row \in Row /\ row.life = "live"
    BY <1>2, StatusAssumption DEF Row
  <2>2. Kept(Current(r), row) /\ WorkChange(op, Current(r), row)
        /\ GateChange(Current(r), row)
    BY <1>2 DEF Kept, WorkChange, GateChange, Row
  <2>3. Commit(r, op, row)
    BY <1>5
  <2> HIDE DEF row
  <2> QED BY <1>3, <2>1, <2>2, <2>3
<1>6. CASE ApproveVisibilityWrite(r)
  <2> DEFINE row == [Current(r) EXCEPT !.visibleToScheduling = TRUE, !.adminApproved = TRUE]
  <2>1. row \in Row /\ row.life = "live"
    BY <1>2 DEF Row
  <2>2. Kept(Current(r), row) /\ WorkChange("approveVisibility", Current(r), row)
        /\ GateChange(Current(r), row)
    BY <1>2 DEF Kept, WorkChange, GateChange, Row
  <2>3. Commit(r, "approveVisibility", row)
    BY <1>6 DEF ApproveVisibilityWrite
  <2> HIDE DEF row
  <2> QED BY <1>3, <2>1, <2>2, <2>3
<1>7. CASE ExportToTechniciansWrite(r)
  <2> DEFINE row == [Current(r) EXCEPT !.visibleToTechnician = FALSE, !.adminApproved = FALSE]
  <2>1. row \in Row /\ row.life = "live"
    BY <1>2 DEF Row
  <2>2. Kept(Current(r), row) /\ WorkChange("exportToTechnicians", Current(r), row)
        /\ GateChange(Current(r), row)
    BY <1>2 DEF Kept, WorkChange, GateChange, Row
  <2>3. Commit(r, "exportToTechnicians", row)
    BY <1>7 DEF ExportToTechniciansWrite
  <2> HIDE DEF row
  <2> QED BY <1>3, <2>1, <2>2, <2>3
<1>8. CASE ApproveExportWrite(r)
  <2> DEFINE row == [Current(r) EXCEPT !.visibleToTechnician = TRUE, !.adminApproved = TRUE]
  <2>1. row \in Row /\ row.life = "live"
    BY <1>2 DEF Row
  <2>2. Kept(Current(r), row) /\ WorkChange("approveExport", Current(r), row)
        /\ GateChange(Current(r), row)
    BY <1>2 DEF Kept, WorkChange, GateChange, Row
  <2>3. Commit(r, "approveExport", row)
    BY <1>8 DEF ApproveExportWrite
  <2> HIDE DEF row
  <2> QED BY <1>3, <2>1, <2>2, <2>3
<1>9. CASE StartWrite(r)
  <2> DEFINE claims == req[r].row.technicianId = NoTech /\ req[r].user # "ADMIN"
             tech == IF claims THEN req[r].user ELSE Current(r).technicianId
             row == [Current(r) EXCEPT !.workStatus = "IN_PROGRESS", !.startedAt = TRUE,
                                       !.technicianId = tech]
  <2>1. req[r].op = "start" /\ Commit(r, "start", row)
    BY <1>2, <1>9 DEF StartWrite, Commit
  <2>2. tech \in Technician \cup {NoTech}
    BY <1>2, <2>1 DEF TypeInv, WorkersWork, Users, Row
  <2>3. row \in Row /\ row.life = "live"
    BY <1>2, <2>2 DEF Row, WorkStatus
  <2>4. Kept(Current(r), row) /\ WorkChange("start", Current(r), row)
        /\ GateChange(Current(r), row)
    BY <1>2 DEF Kept, WorkChange, GateChange, Row
  <2>5. Commit(r, "start", row)
    BY <2>1
  <2> HIDE DEF row
  <2> QED BY <1>3, <2>3, <2>4, <2>5
<1>10. CASE CompleteWrite(r)
  <2> DEFINE row == [Current(r) EXCEPT !.workStatus = "COMPLETED", !.completedAt = TRUE,
                                       !.maintenanceConfirmed = FALSE]
  <2>1. row \in Row /\ row.life = "live"
    BY <1>2 DEF Row, WorkStatus
  <2>2. Kept(Current(r), row) /\ WorkChange("complete", Current(r), row)
        /\ GateChange(Current(r), row)
    BY <1>2 DEF Kept, WorkChange, GateChange, Row
  <2>3. Commit(r, "complete", row)
    BY <1>10 DEF CompleteWrite
  <2> HIDE DEF row
  <2> QED BY <1>3, <2>1, <2>2, <2>3
<1>11. CASE PostponeWrite(r)
  <2> DEFINE row == [Current(r) EXCEPT !.workStatus = "POSTPONED", !.postponements = TRUE]
  <2>1. row \in Row /\ row.life = "live"
    BY <1>2 DEF Row, WorkStatus
  <2>2. Kept(Current(r), row) /\ WorkChange("postpone", Current(r), row)
        /\ GateChange(Current(r), row)
    BY <1>2 DEF Kept, WorkChange, GateChange, Row
  <2>3. Commit(r, "postpone", row)
    BY <1>11 DEF PostponeWrite
  <2> HIDE DEF row
  <2> QED BY <1>3, <2>1, <2>2, <2>3
<1>12. CASE ConfirmOperationWrite(r)
  <2> DEFINE row == [Current(r) EXCEPT !.maintenanceConfirmed = TRUE]
  <2>1. row \in Row /\ row.life = "live"
    BY <1>2 DEF Row
  <2>2. Kept(Current(r), row) /\ WorkChange("confirmOperation", Current(r), row)
        /\ GateChange(Current(r), row)
    BY <1>2 DEF Kept, WorkChange, GateChange, Row
  <2>3. Commit(r, "confirmOperation", row)
    BY <1>12 DEF ConfirmOperationWrite
  <2> HIDE DEF row
  <2> QED BY <1>3, <2>1, <2>2, <2>3
<1>13. CASE DeleteWrite(r) \/ UrgentVisitWrite(r)
  <2> DEFINE q == [req[r] EXCEPT !.pc = "audit"]
  <2>1. req' = [req EXCEPT ![r] = q]
    BY <1>13 DEF DeleteWrite, UrgentVisitWrite, TypeInv, TypeOK
  <2>2. q \in Request /\ q.id = req[r].id /\ q.pc \notin {"check", "write"}
    BY <1>2 DEF Request
  <2>3. ASSUME NEW row \in Row, row.life \in {"live", "deleted"},
               appt' = [appt EXCEPT ![req[r].id] = row],
               Kept(Current(r), row), WorkChange(req[r].op, Current(r), row),
               GateChange(Current(r), row)
        PROVE  \E new : Written(r, new)
    BY <1>2, <2>1, <2>2, <2>3 DEF Written
  <2>4. CASE DeleteWrite(r)
    <3> DEFINE row == [Current(r) EXCEPT !.life = "deleted"]
    <3>1. appt' = [appt EXCEPT ![req[r].id] = row]
      BY <1>2, <2>4 DEF DeleteWrite, TypeInv, TypeOK
    <3>2. row \in Row /\ row.life = "deleted"
      BY <1>2 DEF Row
    <3>3. Kept(Current(r), row) /\ WorkChange(req[r].op, Current(r), row)
          /\ GateChange(Current(r), row)
      BY <1>2 DEF Kept, WorkChange, GateChange, Row
    <3> HIDE DEF row
    <3> QED BY <2>3, <3>1, <3>2, <3>3
  <2>5. CASE UrgentVisitWrite(r)
    <3> DEFINE row == [Current(r) EXCEPT !.urgentVisitRecord = TRUE]
    <3>1. appt' = [appt EXCEPT ![req[r].id] = row]
      BY <1>2, <2>5 DEF UrgentVisitWrite, TypeInv, TypeOK
    <3>2. row \in Row /\ row.life = "live"
      BY <1>2 DEF Row
    <3>3. Kept(Current(r), row) /\ WorkChange(req[r].op, Current(r), row)
          /\ GateChange(Current(r), row)
      BY <1>2 DEF Kept, WorkChange, GateChange, Row
    <3> HIDE DEF row
    <3> QED BY <2>3, <3>1, <3>2, <3>3
  <2> QED BY <1>13, <2>4, <2>5
<1> QED
  BY <1>1, <1>2, <1>4, <1>5, <1>6, <1>7, <1>8, <1>9, <1>10, <1>11, <1>12, <1>13
  DEF Write, DashboardUpdateWrite, SetStatusWrite

-----------------------------------------------------------------------------
(* What a step does to the tables and to the requests that may still write.  *)

\* A read: the request remembers a live row whose work allows its endpoint.
Taken(r, q) ==
  /\ q.id \in Appt
  /\ appt[q.id].life = "live"
  /\ q.op = "complete" => appt[q.id].workStatus = "IN_PROGRESS"
  /\ q.op = "confirmOperation" => appt[q.id].workStatus = "COMPLETED"
  /\ req' = [req EXCEPT ![r] = q]

\* A creation fills a free row.
Filed(r, a) ==
  \E q \in Request, u \in {"ADMIN", "SCHEDULING"}, urgent \in BOOLEAN, shown \in BOOLEAN,
     t \in Technician \cup {NoTech}, c \in Customer :
    /\ appt[a].life = "free"
    /\ appt' = [appt EXCEPT ![a] = NewRow(u, urgent, shown, t, c)]
    /\ req' = [req EXCEPT ![r] = q] /\ q.pc = "touch"

\* A customer deletion deletes rows or takes the customer off them.
Purged(a) ==
  \/ appt'[a] = appt[a]
  \/ appt'[a] = [appt[a] EXCEPT !.life = "deleted"]
  \/ /\ appt[a].life = "live"
     /\ appt'[a] = [appt[a] EXCEPT !.customerId = NoCustomer]

LEMMA ArriveEffect ==
  ASSUME TypeInv, NEW r \in Req, Arrive(r)
  PROVE  \/ \E a \in Appt : Filed(r, a)
         \/ UNCHANGED appt /\ \E q \in Request : Taken(r, q)
<1>1. PICK a \in Appt :
        \/ \E u \in Users : \/ Create(r, u, a) \/ Update(r, u, a) \/ DashboardUpdate(r, u, a)
                            \/ SetStatus(r, u, a) \/ Start(r, u, a) \/ Complete(r, u, a)
                            \/ Postpone(r, u, a)
        \/ ApproveVisibility(r, a) \/ ExportToTechnicians(r, a) \/ ApproveExport(r, a)
        \/ ConfirmOperation(r, a) \/ Delete(r, a)
        \/ \E t \in Technician : UrgentVisit(r, t, a)
  BY DEF Arrive
<1>2. ASSUME NEW u \in Users, NEW op \in AppointmentOps, NEW versioned \in BOOLEAN,
             Accept(r, u, op, a, versioned),
             op = "complete" => appt[a].workStatus = "IN_PROGRESS",
             op = "confirmOperation" => appt[a].workStatus = "COMPLETED"
      PROVE  UNCHANGED appt /\ \E q \in Request : Taken(r, q)
  <2> DEFINE q == [pc |-> "write", op |-> op, user |-> u, id |-> a, versioned |-> versioned,
                   newCustomer |-> FALSE, row |-> appt[a]]
  <2>1. q \in Request
    BY DEF Request, TypeInv, TypeOK
  <2>2. Taken(r, q)
    BY <1>2 DEF Accept, Taken
  <2> QED BY <1>2, <2>1, <2>2 DEF Accept, tables
<1>3. ASSUME NEW u \in Users, Create(r, u, a) PROVE Filed(r, a)
  <2>1. PICK urgent \in BOOLEAN, shown \in BOOLEAN, t \in Technician \cup {NoTech},
             c \in Customer : Insert(r, u, a, urgent, shown, t, c)
    BY <1>3, Zenon DEF Create
  <2> DEFINE q == [pc |-> "touch", op |-> "create", user |-> u, id |-> a,
                   versioned |-> FALSE, newCustomer |-> c \notin customers,
                   row |-> NewRow(u, urgent, shown, t, c)]
  <2>2. NewRow(u, urgent, shown, t, c) \in Row
    BY DEF NewRow, Free, Row, Status, WorkStatus
  <2>3. q \in Request /\ q.pc = "touch"
    BY <2>2 DEF Request, AppointmentOps
  <2>4. /\ u \in {"ADMIN", "SCHEDULING"} /\ appt[a].life = "free"
        /\ appt' = [appt EXCEPT ![a] = NewRow(u, urgent, shown, t, c)]
        /\ req' = [req EXCEPT ![r] = q]
    BY <2>1 DEF Insert
  <2> HIDE DEF q
  <2> QED BY <2>3, <2>4, Zenon DEF Filed
<1>4. ASSUME NEW u \in Users,
             \/ Update(r, u, a) \/ DashboardUpdate(r, u, a) \/ SetStatus(r, u, a)
             \/ Start(r, u, a) \/ Complete(r, u, a) \/ Postpone(r, u, a)
      PROVE  UNCHANGED appt /\ \E q \in Request : Taken(r, q)
  <2>1. PICK op \in AppointmentOps, versioned \in BOOLEAN :
          /\ Accept(r, u, op, a, versioned) /\ op # "confirmOperation"
          /\ op = "complete" => appt[a].workStatus = "IN_PROGRESS"
    <3>1. CASE Update(r, u, a) BY <3>1 DEF Update, AppointmentOps
    <3>2. CASE DashboardUpdate(r, u, a) BY <3>2 DEF DashboardUpdate, AppointmentOps
    <3>3. CASE SetStatus(r, u, a) BY <3>3 DEF SetStatus, AppointmentOps
    <3>4. CASE Start(r, u, a) BY <3>4 DEF Start, AppointmentOps
    <3>5. CASE Complete(r, u, a) BY <3>5 DEF Complete, AppointmentOps
    <3>6. CASE Postpone(r, u, a) BY <3>6 DEF Postpone, AppointmentOps
    <3> QED BY <1>4, <3>1, <3>2, <3>3, <3>4, <3>5, <3>6
  <2> QED BY <1>2, <2>1
<1>5. ASSUME \/ ApproveVisibility(r, a) \/ ExportToTechnicians(r, a) \/ ApproveExport(r, a)
             \/ ConfirmOperation(r, a) \/ Delete(r, a)
      PROVE  UNCHANGED appt /\ \E q \in Request : Taken(r, q)
  <2>1. PICK u \in Users, op \in AppointmentOps :
          /\ Accept(r, u, op, a, FALSE) /\ op # "complete"
          /\ op = "confirmOperation" => appt[a].workStatus = "COMPLETED"
    BY <1>5 DEF ApproveVisibility, ExportToTechnicians, ApproveExport, ConfirmOperation,
                Delete, Users, AppointmentOps
  <2> QED BY <1>2, <2>1
<1>6. ASSUME NEW t \in Technician, UrgentVisit(r, t, a)
      PROVE  UNCHANGED appt /\ \E q \in Request : Taken(r, q)
  <2> DEFINE q == [pc |-> "check", op |-> "urgentVisit", user |-> t, id |-> a,
                   versioned |-> FALSE, newCustomer |-> FALSE, row |-> appt[a]]
  <2>1. q \in Request
    BY DEF Request, AppointmentOps, Users, TypeInv, TypeOK
  <2>2. Taken(r, q) /\ UNCHANGED appt
    BY <1>6 DEF UrgentVisit, Taken, tables
  <2> QED BY <2>1, <2>2
<1> QED BY <1>1, <1>3, <1>4, <1>5, <1>6

\* A step of the server other than a write leaves the table alone and gives no
\* request a write it did not have.
Advanced(r) ==
  \E q \in Request \cup {Idle} :
    /\ req' = [req EXCEPT ![r] = q]
    /\ q.pc \in {"check", "write"} => q.op = req[r].op /\ q.id = req[r].id
                                      /\ req[r].pc \in {"check", "write"}

LEMMA ServeEffect ==
  ASSUME TypeInv, NEW r \in Req, Serve(r)
  PROVE  Write(r) \/ (UNCHANGED appt /\ Advanced(r))
<1>1. CASE Write(r) BY <1>1
<1>2. CASE UrgentVisitCheck(r) \/ WriteFails(r) \/ TouchCustomer(r) \/ AuditNewCustomer(r)
           \/ LogNewCustomer(r) \/ WriteAudit(r) \/ EmitEvent(r) \/ Emit(r)
  <2>1. req[r].pc # "idle" /\ UNCHANGED appt
    BY <1>2 DEF UrgentVisitCheck, WriteFails, TouchCustomer, AuditNewCustomer, LogNewCustomer,
                WriteAudit, EmitEvent, Emit, tables
  <2>2. \/ req' = [req EXCEPT ![r] = Idle]
        \/ \E pc \in {"write", "customer", "customerEvent", "audit", "event", "emit"} :
             /\ req' = [req EXCEPT ![r].pc = pc]
             /\ pc = "write" => req[r].pc = "check"
    BY <1>2 DEF UrgentVisitCheck, WriteFails, TouchCustomer, AuditNewCustomer, LogNewCustomer,
                WriteAudit, EmitEvent, Emit, AfterTouch
  <2>3. CASE req' = [req EXCEPT ![r] = Idle]
    <3>1. Idle.pc \notin {"check", "write"}
      BY DEF Idle
    <3> QED BY <2>1, <2>3, <3>1 DEF Advanced
  <2>4. ASSUME NEW pc \in {"write", "customer", "customerEvent", "audit", "event", "emit"},
               req' = [req EXCEPT ![r].pc = pc], pc = "write" => req[r].pc = "check"
        PROVE  Advanced(r)
    <3> DEFINE q == [req[r] EXCEPT !.pc = pc]
    <3>1. req' = [req EXCEPT ![r] = q]
      BY <2>4 DEF TypeInv, TypeOK
    <3>2. q \in Request /\ q.pc = pc /\ q.op = req[r].op /\ q.id = req[r].id
      BY <2>1, InFlight DEF Request, TypeInv
    <3> HIDE DEF q
    <3> QED BY <2>4, <3>1, <3>2 DEF Advanced
  <2> QED BY <2>1, <2>2, <2>3, <2>4
<1> QED BY <1>1, <1>2 DEF Serve

LEMMA PurgeEffect ==
  ASSUME TypeInv, (\E c \in Customer : PurgeRead(c)) \/ PurgeAll \/ ServePurge \/ Crash
  PROVE  /\ \A a \in Appt : Purged(a)
         /\ req' = req \/ req' = [r \in Req |-> Idle]
<1>1. ASSUME NEW as, NEW cs, appt' = Without(as, cs) PROVE \A a \in Appt : Purged(a)
  BY <1>1 DEF Without, Purged
<1>2. CASE \E c \in Customer : PurgeRead(c)
  BY <1>2 DEF PurgeRead, Purged, tables
<1>3. CASE PurgeAll
  BY <1>1, <1>3 DEF PurgeAll
<1>4. CASE PurgeCommit
  BY <1>1, <1>4 DEF PurgeCommit
<1>5. CASE PurgeAudit \/ PurgeEvent \/ PurgeEmit
  BY <1>5 DEF PurgeAudit, PurgeEvent, PurgeEmit, Purged, tables
<1>6. CASE Crash
  BY <1>6 DEF Crash, Purged, tables
<1> QED BY <1>2, <1>3, <1>4, <1>5, <1>6 DEF ServePurge

-----------------------------------------------------------------------------
(* The technician's work.  The guards of /complete and /confirm-operation    *)
(* look at a row read earlier.  They still mean something when the write     *)
(* lands because nothing takes the start or the report of a row back, and    *)
(* because the row of a request in flight is never filed anew.               *)

WorkOK(row) ==
  /\ row.workStatus = "IN_PROGRESS" => row.startedAt
  /\ row.workStatus = "COMPLETED" => row.completedAt
  /\ row.completedAt => row.startedAt
  /\ row.maintenanceConfirmed => row.completedAt

Grounded(q, row) ==
  q.pc \in {"check", "write"} =>
    /\ row.life # "free"
    /\ q.op = "complete" => row.startedAt
    /\ q.op = "confirmOperation" => row.completedAt

WorkInv ==
  /\ TypeInv
  /\ \A a \in Appt : WorkOK(appt[a])
  /\ \A r \in Req : Grounded(req[r], appt[req[r].id])

LEMMA WorkInvInit == Init => WorkInv
<1> SUFFICES ASSUME Init PROVE WorkInv
  OBVIOUS
<1>1. WorkOK(Free) /\ WorkOK(LegacyRow)
  BY DEF WorkOK, Free, LegacyRow
<1>2. \A a \in Appt : WorkOK(appt[a])
  BY <1>1 DEF Init
<1>3. \A r \in Req : Grounded(req[r], appt[req[r].id])
  BY DEF Init, Idle, Grounded
<1> QED BY <1>2, <1>3, TypeInvInit DEF WorkInv

\* A request stays grounded while its row keeps its history.
LEMMA StaysGrounded ==
  ASSUME NEW q, NEW old, NEW new, Grounded(q, old), Kept(old, new), new.life # "free"
  PROVE  Grounded(q, new)
BY DEF Grounded, Kept

LEMMA WrittenKeepsWork ==
  ASSUME WorkInv, NEW r \in Req, Write(r)
  PROVE  /\ \A a \in Appt : WorkOK(appt'[a])
         /\ \A s \in Req : Grounded(req'[s], appt'[req'[s].id])
<1> DEFINE id == req[r].id
<1>1. req[r].pc = "write" /\ id \in Appt
  BY WriteEffect DEF WorkInv
<1>2. PICK new : Written(r, new)
  BY WriteEffect DEF WorkInv
<1>3. PICK q \in Request : req' = [req EXCEPT ![r] = q] /\ q.pc \notin {"check", "write"}
  BY <1>2 DEF Written
<1>4. appt' = [appt EXCEPT ![id] = new] /\ appt \in [Appt -> Row] /\ new \in Row
  BY <1>2 DEF Written, WorkInv, TypeInv, TypeOK
<1>5. WorkOK(new)
  <2>1. WorkOK(appt[id]) /\ Grounded(req[r], appt[id]) /\ WorkChange(req[r].op, appt[id], new)
    BY <1>1, <1>2 DEF WorkInv, Written
  <2>2. appt[id] \in Row
    BY <1>1, <1>4
  <2> HIDE DEF id
  <2> QED BY <1>1, <1>4, <2>1, <2>2 DEF WorkOK, Grounded, WorkChange, Row
<1>6. \A a \in Appt : WorkOK(appt'[a])
  BY <1>1, <1>4, <1>5 DEF WorkInv
<1>7. ASSUME NEW s \in Req PROVE Grounded(req'[s], appt'[req'[s].id])
  <2>1. CASE s = r
    BY <1>3, <2>1 DEF Grounded, WorkInv, TypeInv, TypeOK
  <2>2. CASE s # r
    <3>1. req'[s] = req[s] /\ Grounded(req[s], appt[req[s].id])
      BY <1>3, <2>2 DEF WorkInv, TypeInv, TypeOK
    <3>2. CASE req[s].id = id
      <4>1. Grounded(req[s], appt[id]) /\ Kept(appt[id], new) /\ new.life # "free"
        BY <1>2, <3>1, <3>2 DEF Written
      <4>2. appt'[id] = new
        BY <1>1, <1>4
      <4> QED BY <3>1, <3>2, <4>1, <4>2, StaysGrounded
    <3>3. CASE req[s].id # id
      BY <1>1, <1>4, <3>1, <3>3
    <3> QED BY <3>2, <3>3
  <2> QED BY <2>1, <2>2
<1> QED BY <1>6, <1>7

LEMMA WorkInvNext == WorkInv /\ [Next]_vars => WorkInv'
<1> SUFFICES ASSUME WorkInv, [Next]_vars PROVE WorkInv'
  OBVIOUS
<1> USE DEF WorkInv
<1>0. TypeInv' /\ appt \in [Appt -> Row] /\ req \in [Req -> Request \cup {Idle}]
  BY TypeInvNext DEF TypeInv, TypeOK
<1>1. ASSUME NEW r \in Req, NEW a \in Appt, Filed(r, a) PROVE WorkInv'
  <2>1. PICK q \in Request, u \in {"ADMIN", "SCHEDULING"}, urgent \in BOOLEAN,
             shown \in BOOLEAN, t \in Technician \cup {NoTech}, c \in Customer :
          /\ appt[a].life = "free"
          /\ appt' = [appt EXCEPT ![a] = NewRow(u, urgent, shown, t, c)]
          /\ req' = [req EXCEPT ![r] = q] /\ q.pc = "touch"
    BY <1>1, Zenon DEF Filed
  <2>2. WorkOK(NewRow(u, urgent, shown, t, c))
    BY DEF WorkOK, NewRow, Free
  <2>3. \A b \in Appt : WorkOK(appt'[b])
    BY <1>0, <2>1, <2>2
  <2>4. ASSUME NEW s \in Req PROVE Grounded(req'[s], appt'[req'[s].id])
    <3>1. CASE s = r
      BY <1>0, <2>1, <3>1 DEF Grounded
    <3>2. CASE s # r
      <4>1. req'[s] = req[s] /\ Grounded(req[s], appt[req[s].id])
        BY <1>0, <2>1, <3>2
      <4>2. CASE req[s].id = a
        BY <2>1, <4>1, <4>2 DEF Grounded
      <4>3. CASE req[s].id # a
        BY <1>0, <2>1, <4>1, <4>3
      <4> QED BY <4>2, <4>3
    <3> QED BY <3>1, <3>2
  <2> QED BY <1>0, <2>3, <2>4
<1>2. ASSUME NEW r \in Req, UNCHANGED appt, NEW q \in Request, Taken(r, q) PROVE WorkInv'
  <2>1. ASSUME NEW s \in Req PROVE Grounded(req'[s], appt'[req'[s].id])
    <3>1. CASE s = r
      <4>1. req'[s] = q /\ WorkOK(appt[q.id])
        BY <1>0, <1>2, <3>1 DEF Taken
      <4> QED BY <1>2, <4>1 DEF Taken, Grounded, WorkOK
    <3>2. CASE s # r
      BY <1>0, <1>2, <3>2 DEF Taken
    <3> QED BY <3>1, <3>2
  <2> QED BY <1>0, <1>2, <2>1
<1>3. ASSUME NEW r \in Req, Write(r) PROVE WorkInv'
  BY <1>0, <1>3, WrittenKeepsWork
<1>4. ASSUME NEW r \in Req, UNCHANGED appt, Advanced(r) PROVE WorkInv'
  <2>1. PICK q \in Request \cup {Idle} :
          /\ req' = [req EXCEPT ![r] = q]
          /\ q.pc \in {"check", "write"} => q.op = req[r].op /\ q.id = req[r].id
                                            /\ req[r].pc \in {"check", "write"}
    BY <1>4 DEF Advanced
  <2>2. ASSUME NEW s \in Req PROVE Grounded(req'[s], appt'[req'[s].id])
    <3>1. CASE s = r
      <4>1. req'[s] = q /\ Grounded(req[r], appt[req[r].id])
        BY <1>0, <2>1, <3>1
      <4> QED BY <1>4, <2>1, <4>1 DEF Grounded
    <3>2. CASE s # r
      BY <1>0, <1>4, <2>1, <3>2
    <3> QED BY <3>1, <3>2
  <2> QED BY <1>0, <1>4, <2>2
<1>5. CASE (\E c \in Customer : PurgeRead(c)) \/ PurgeAll \/ ServePurge \/ Crash
  <2>1. /\ \A a \in Appt : Purged(a)
        /\ req' = req \/ req' = [r \in Req |-> Idle]
    BY <1>5, PurgeEffect
  <2>2. ASSUME NEW a \in Appt
        PROVE  /\ WorkOK(appt'[a]) /\ Kept(appt[a], appt'[a])
               /\ appt[a].life # "free" => appt'[a].life # "free"
    <3>1. Purged(a) /\ WorkOK(appt[a]) /\ appt[a] \in Row
      BY <1>0, <2>1
    <3> QED BY <3>1 DEF Purged, WorkOK, Kept, Row
  <2>3. ASSUME NEW s \in Req PROVE Grounded(req'[s], appt'[req'[s].id])
    <3>1. CASE req' = req
      <4>1. Grounded(req[s], appt[req[s].id])
        OBVIOUS
      <4>2. CASE req[s].pc # "idle"
        <5>1. req[s].id \in Appt
          BY <4>2, InFlight DEF TypeInv
        <5> QED BY <2>2, <3>1, <4>1, <5>1 DEF Grounded, Kept
      <4> QED BY <3>1, <4>2 DEF Grounded
    <3>2. CASE req' = [r \in Req |-> Idle]
      BY <3>2 DEF Grounded, Idle
    <3> QED BY <2>1, <3>1, <3>2
  <2> QED BY <1>0, <2>2, <2>3
<1>6. CASE UNCHANGED vars
  BY <1>0, <1>6 DEF vars
<1>7. CASE \E r \in Req : Arrive(r)
  BY <1>1, <1>2, <1>7, ArriveEffect
<1>8. CASE \E r \in Req : Serve(r)
  BY <1>3, <1>4, <1>8, ServeEffect
<1> QED BY <1>5, <1>6, <1>7, <1>8 DEF Next

\* A completion report exists only for work that was started, whatever /start,
\* /complete and /postpone interleave with, and /confirm-operation never
\* confirms what nobody completed.
THEOREM WorkIsInOrder == Spec => []WorkInOrder
<1>1. WorkInv => ReportFollowsStart
  BY DEF WorkInv, WorkOK, ReportFollowsStart
<1>2. WorkInv => ConfirmedHasReport
  BY DEF WorkInv, WorkOK, ConfirmedHasReport
<1>3. Spec => []WorkInv
  BY WorkInvInit, WorkInvNext, PTL DEF Spec
<1> QED BY <1>1, <1>2, <1>3, PTL DEF WorkInOrder

-----------------------------------------------------------------------------
(* What no write takes back. *)

LEMMA HistoryStep ==
  ASSUME TypeInv, [Next]_vars, NEW a \in Appt, appt[a].life = "live"
  PROVE  Kept(appt[a], appt'[a])
<1>0. appt \in [Appt -> Row] /\ appt[a] \in Row
  BY DEF TypeInv, TypeOK
<1>1. Kept(appt[a], appt[a])
  BY <1>0 DEF Kept, Row
<1>2. ASSUME NEW r \in Req, NEW b \in Appt, Filed(r, b) PROVE Kept(appt[a], appt'[a])
  <2>1. appt'[a] = appt[a]
    BY <1>0, <1>2 DEF Filed
  <2> QED BY <1>1, <2>1
<1>3. ASSUME NEW r \in Req, Write(r) PROVE Kept(appt[a], appt'[a])
  <2>1. PICK new : Written(r, new)
    BY <1>3, WriteEffect
  <2>2. CASE req[r].id = a
    BY <1>0, <2>1, <2>2 DEF Written
  <2>3. CASE req[r].id # a
    BY <1>0, <1>1, <2>1, <2>3 DEF Written
  <2> QED BY <2>2, <2>3
<1>4. CASE (\E c \in Customer : PurgeRead(c)) \/ PurgeAll \/ ServePurge \/ Crash
  <2>1. Purged(a)
    BY <1>4, PurgeEffect
  <2> QED BY <1>0, <2>1 DEF Purged, Kept, Row
<1>5. CASE UNCHANGED appt
  BY <1>1, <1>5
<1>6. CASE \E r \in Req : Arrive(r)
  BY <1>2, <1>5, <1>6, ArriveEffect
<1>7. CASE \E r \in Req : Serve(r)
  BY <1>3, <1>5, <1>7, ServeEffect
<1> QED BY <1>4, <1>5, <1>6, <1>7 DEF Next, vars

\* No write of a stale handler erases the start, the report, the postponements
\* or the visit record of an appointment, or turns its version back.
THEOREM HistoryIsKept == Spec => HistoryKept
<1>1. TypeInv /\ [Next]_vars =>
        [\A a \in Appt : appt[a].life = "live" =>
           /\ appt[a].startedAt => appt'[a].startedAt
           /\ appt[a].completedAt => appt'[a].completedAt
           /\ appt[a].postponements => appt'[a].postponements
           /\ appt[a].urgentVisitRecord => appt'[a].urgentVisitRecord
           /\ appt[a].version <= appt'[a].version]_vars
  BY HistoryStep DEF Kept
<1>2. Spec => []TypeInv
  BY TypeInvInit, TypeInvNext, PTL DEF Spec
<1> QED BY <1>1, <1>2, PTL DEF Spec, HistoryKept

-----------------------------------------------------------------------------
(* The approval gate.  Every write changes the two flags of its row together *)
(* or marks it as approved, on the row as it is stored: so the endpoints     *)
(* implement the gate step by step, and the gate is what keeps unapproved    *)
(* appointments from the technicians.                                        *)

LEMMA GateInitially == Init => Gate!GateInit
<1> SUFFICES ASSUME Init PROVE Gate!GateInit
  OBVIOUS
<1>1. /\ Free.life = "free" /\ LegacyRow.life = "live"
      /\ ~LegacyRow.adminApproved /\ LegacyRow.visibleToTechnician
  BY DEF LegacyRow, Free
<1> QED BY <1>1, LegacyAssumption DEF Init, Gate!GateInit

\* A step that changes one live row as a write does is a step of the gate.
LEMMA WriteIsGateStep ==
  ASSUME TypeInv, NEW r \in Req, Write(r)
  PROVE  [Gate!GateNext]_(Gate!gate)
<1> DEFINE id == req[r].id
           filed == {a \in Appt : appt[a].life = "live"}
           cleared == {a \in Appt : appt[a].life = "live" /\ appt[a].adminApproved}
           shown == {a \in Appt : appt[a].life = "live" /\ appt[a].visibleToTechnician}
           Filed1 == {a \in Appt : appt'[a].life = "live"}
           Cleared1 == {a \in Appt : appt'[a].life = "live" /\ appt'[a].adminApproved}
           Shown1 == {a \in Appt : appt'[a].life = "live" /\ appt'[a].visibleToTechnician}
<1>1. id \in Appt /\ appt[id].life = "live"
  BY WriteEffect
<1>2. PICK new : Written(r, new)
  BY WriteEffect
<1>3. /\ appt \in [Appt -> Row] /\ appt' = [appt EXCEPT ![id] = new] /\ new \in Row
      /\ appt[id] \in Row
      /\ new.life \in {"live", "deleted"} /\ GateChange(appt[id], new)
  BY <1>1, <1>2 DEF Written, TypeInv, TypeOK
<1>4. appt'[id] = new /\ \A a \in Appt \ {id} : appt'[a] = appt[a]
  BY <1>1, <1>3
<1> HIDE DEF id
<1>5. CASE new.life = "deleted"
  <2>1. /\ Filed1 = filed \ {id} /\ Cleared1 = cleared \ {id} /\ Shown1 = shown \ {id}
        /\ {id} \in SUBSET filed
    BY <1>1, <1>4, <1>5
  <2> QED BY <2>1 DEF Gate!GateNext, Gate!Remove
<1>6. CASE new.life = "live"
  <2>0. Filed1 = filed
    BY <1>1, <1>4, <1>6
  <2>1. CASE ~new.visibleToTechnician /\ ~new.adminApproved
    <3>1. Cleared1 = cleared \ {id} /\ Shown1 = shown \ {id}
      BY <1>1, <1>4, <1>6, <2>1
    <3> QED BY <1>1, <2>0, <3>1 DEF Gate!GateNext, Gate!Recall
  <2>2. CASE new.visibleToTechnician /\ new.adminApproved
    <3>1. Cleared1 = cleared \cup {id} /\ Shown1 = shown \cup {id}
      BY <1>1, <1>4, <1>6, <2>2
    <3> QED BY <1>1, <2>0, <3>1 DEF Gate!GateNext, Gate!Clear
  <2>3. CASE /\ new.visibleToTechnician = appt[id].visibleToTechnician
             /\ new.adminApproved = appt[id].adminApproved
    <3>1. Cleared1 = cleared /\ Shown1 = shown
      BY <1>1, <1>4, <1>6, <2>3
    <3> QED BY <2>0, <3>1 DEF Gate!gate
  <2>4. CASE /\ new.visibleToTechnician = appt[id].visibleToTechnician
             /\ new.adminApproved
    <3>1. Cleared1 = cleared \cup {id} /\ Shown1 = shown
      BY <1>1, <1>4, <1>6, <2>4
    <3> QED BY <1>1, <2>0, <3>1 DEF Gate!GateNext, Gate!Clear
  <2> QED BY <1>3, <2>1, <2>2, <2>3, <2>4 DEF GateChange
<1> QED BY <1>3, <1>5, <1>6

LEMMA FiledIsGateStep ==
  ASSUME TypeInv, NEW r \in Req, NEW a \in Appt, Filed(r, a)
  PROVE  [Gate!GateNext]_(Gate!gate)
<1>1. PICK q \in Request, u \in {"ADMIN", "SCHEDULING"}, urgent \in BOOLEAN,
           shown \in BOOLEAN, t \in Technician \cup {NoTech}, c \in Customer :
        /\ appt[a].life = "free"
        /\ appt' = [appt EXCEPT ![a] = NewRow(u, urgent, shown, t, c)]
        /\ req' = [req EXCEPT ![r] = q] /\ q.pc = "touch"
  BY Zenon DEF Filed
<1> DEFINE new == NewRow(u, urgent, shown, t, c)
<1>2. /\ new.life = "live"
      /\ new.visibleToTechnician = (u = "ADMIN") /\ new.adminApproved = (u = "ADMIN")
  BY DEF NewRow, Free
<1>3. /\ appt[a].life = "free" /\ appt'[a] = new
      /\ \A b \in Appt \ {a} : appt'[b] = appt[b]
  BY <1>1 DEF TypeInv, TypeOK
<1> HIDE DEF new
<1>4. CASE u = "ADMIN"
  <2>0. new.life = "live" /\ new.visibleToTechnician /\ new.adminApproved
    BY <1>2, <1>4
  <2>1. a \notin {b \in Appt : appt[b].life = "live"}
    BY <1>3
  <2>2. {b \in Appt : appt'[b].life = "live"} = {b \in Appt : appt[b].life = "live"} \cup {a}
    BY <1>2, <1>3
  <2>3. {b \in Appt : appt'[b].life = "live" /\ appt'[b].adminApproved}
          = {b \in Appt : appt[b].life = "live" /\ appt[b].adminApproved} \cup {a}
    BY <2>0, <1>3
  <2>4. {b \in Appt : appt'[b].life = "live" /\ appt'[b].visibleToTechnician}
          = {b \in Appt : appt[b].life = "live" /\ appt[b].visibleToTechnician} \cup {a}
    BY <2>0, <1>3
  <2>5. Gate!FileCleared(a)
    BY <2>1, <2>2, <2>3, <2>4 DEF Gate!FileCleared
  <2> QED BY <2>5 DEF Gate!GateNext
<1>5. CASE u # "ADMIN"
  <2>0. new.life = "live" /\ ~new.visibleToTechnician /\ ~new.adminApproved
    BY <1>2, <1>5
  <2>1. Gate!File(a)
    BY <2>0, <1>3 DEF Gate!File
  <2> QED BY <2>1 DEF Gate!GateNext
<1> QED BY <1>4, <1>5

LEMMA PurgeIsGateStep ==
  ASSUME TypeInv, \A a \in Appt : Purged(a)
  PROVE  [Gate!GateNext]_(Gate!gate)
<1>1. PICK as \in SUBSET {a \in Appt : appt[a].life = "live"} :
        as = {a \in Appt : appt[a].life = "live" /\ appt'[a].life # "live"}
  OBVIOUS
<1>2. ASSUME NEW a \in Appt
      PROVE  /\ appt'[a].life = "live" <=> appt[a].life = "live" /\ a \notin as
             /\ appt'[a].adminApproved = appt[a].adminApproved
             /\ appt'[a].visibleToTechnician = appt[a].visibleToTechnician
  <2>1. appt[a] \in Row /\ Purged(a)
    BY DEF TypeInv, TypeOK
  <2> QED BY <1>1, <2>1 DEF Purged, Row
<1>3. Gate!Remove(as)
  BY <1>2 DEF Gate!Remove
<1> QED BY <1>3 DEF Gate!GateNext

LEMMA NextIsGateStep == TypeInv /\ [Next]_vars => [Gate!GateNext]_(Gate!gate)
<1> SUFFICES ASSUME TypeInv, [Next]_vars PROVE [Gate!GateNext]_(Gate!gate)
  OBVIOUS
<1>1. CASE UNCHANGED appt
  BY <1>1 DEF Gate!gate
<1>2. CASE (\E c \in Customer : PurgeRead(c)) \/ PurgeAll \/ ServePurge \/ Crash
  BY <1>2, PurgeEffect, PurgeIsGateStep
<1>3. CASE \E r \in Req : Arrive(r)
  BY <1>1, <1>3, ArriveEffect, FiledIsGateStep
<1>4. CASE \E r \in Req : Serve(r)
  BY <1>1, <1>4, ServeEffect, WriteIsGateStep
<1> QED BY <1>1, <1>2, <1>3, <1>4 DEF Next, vars

\* The endpoints implement the approval gate, however their requests interleave.
THEOREM EndpointsImplementGate == Spec => ImplementsGate
<1>1. Spec => []TypeInv
  BY TypeInvInit, TypeInvNext, PTL DEF Spec
<1> QED
  BY <1>1, GateInitially, NextIsGateStep, PTL DEF Spec, ImplementsGate, Gate!GateSpec

LEMMA ShownIsApprovedNext == TypeInv /\ ShownIsApproved /\ [Next]_vars => ShownIsApproved'
<1> SUFFICES ASSUME TypeInv, ShownIsApproved, [Next]_vars,
                    NEW a \in Appt, appt'[a].visibleToTechnician, ~appt'[a].adminApproved
             PROVE  a \in Legacy
  BY DEF ShownIsApproved
<1>0. appt \in [Appt -> Row] /\ appt[a] \in Row
  BY DEF TypeInv, TypeOK
<1>1. CASE appt'[a] = appt[a]
  BY <1>1 DEF ShownIsApproved
<1>2. ASSUME NEW r \in Req, NEW b \in Appt, Filed(r, b) PROVE a \in Legacy
  <2>1. PICK q \in Request, u \in {"ADMIN", "SCHEDULING"}, urgent \in BOOLEAN,
             shown \in BOOLEAN, t \in Technician \cup {NoTech}, c \in Customer :
          /\ appt[b].life = "free"
          /\ appt' = [appt EXCEPT ![b] = NewRow(u, urgent, shown, t, c)]
          /\ req' = [req EXCEPT ![r] = q] /\ q.pc = "touch"
    BY <1>2, Zenon DEF Filed
  <2>2. NewRow(u, urgent, shown, t, c).visibleToTechnician
          = NewRow(u, urgent, shown, t, c).adminApproved
    BY DEF NewRow, Free
  <2>3. a # b
    BY <1>0, <2>1, <2>2
  <2> QED BY <1>0, <1>1, <2>1, <2>3
<1>3. ASSUME NEW r \in Req, Write(r) PROVE a \in Legacy
  <2>1. PICK new : Written(r, new)
    BY <1>3, WriteEffect
  <2>2. CASE req[r].id = a
    <3>1. appt'[a] = new /\ GateChange(appt[a], new) /\ new \in Row
      BY <1>0, <2>1, <2>2 DEF Written
    <3> QED BY <1>0, <3>1 DEF GateChange, ShownIsApproved
  <2>3. CASE req[r].id # a
    BY <1>0, <1>1, <2>1, <2>3 DEF Written
  <2> QED BY <2>2, <2>3
<1>4. CASE (\E c \in Customer : PurgeRead(c)) \/ PurgeAll \/ ServePurge \/ Crash
  <2>1. Purged(a)
    BY <1>4, PurgeEffect
  <2>2. /\ appt'[a].visibleToTechnician = appt[a].visibleToTechnician
        /\ appt'[a].adminApproved = appt[a].adminApproved
    BY <1>0, <2>1 DEF Purged, Row
  <2> QED BY <2>2 DEF ShownIsApproved
<1>5. CASE UNCHANGED appt
  BY <1>1, <1>5
<1>6. CASE \E r \in Req : Arrive(r)
  BY <1>2, <1>5, <1>6, ArriveEffect
<1>7. CASE \E r \in Req : Serve(r)
  BY <1>3, <1>5, <1>7, ServeEffect
<1> QED BY <1>4, <1>5, <1>6, <1>7 DEF Next, vars

\* Technicians may see an appointment only if Administration approved it or it
\* predates the approval workflow.
THEOREM ShownIsAlwaysApproved == Spec => []ShownIsApproved
<1>1. Init => ShownIsApproved
  BY DEF Init, Free, ShownIsApproved
<1>2. Spec => []TypeInv
  BY TypeInvInit, TypeInvNext, PTL DEF Spec
<1> QED BY <1>1, <1>2, ShownIsApprovedNext, PTL DEF Spec

-----------------------------------------------------------------------------
(* The logs: what a request or a deletion is about to report as an event has *)
(* its audit row by then, and rows are never taken out of the log.           *)

AuditedFirst(q) ==
  /\ q.pc = "event" =>
       \E action \in {"CREATE", "UPDATE", "DELETE"} : <<action, q.id, q.row.version>> \in audit
  /\ q.pc = "customerEvent" => <<"CREATE", q.row.customerId, 1>> \in audit

LogInv ==
  /\ TypeInv
  /\ EventsAreAudited
  /\ \A r \in Req : AuditedFirst(req[r])
  /\ purge.pc = "event" => \A c \in purge.victims : <<"DELETE", c, 0>> \in audit

LEMMA LogInvInit == Init => LogInv
BY TypeInvInit DEF Init, LogInv, EventsAreAudited, AuditedFirst, Idle, NoPurge

LEMMA NewEventsAudited ==
  ASSUME EventsAreAudited, audit \subseteq audit',
         \A e \in eventLog' \ eventLog :
           \E action \in {"CREATE", "UPDATE", "DELETE"} : <<action, e[1], e[2]>> \in audit
  PROVE  EventsAreAudited'
BY DEF EventsAreAudited

\* A step that writes no event, takes no audit row away and brings nobody to
\* the point of reporting one.
LEMMA LogKept ==
  ASSUME LogInv, TypeInv', audit \subseteq audit', eventLog' = eventLog,
         \A r \in Req : req'[r] = req[r] \/ req'[r].pc \notin {"event", "customerEvent"},
         purge' = purge \/ purge'.pc # "event"
  PROVE  LogInv'
<1>1. EventsAreAudited' BY DEF LogInv, EventsAreAudited
<1>2. ASSUME NEW r \in Req PROVE AuditedFirst(req[r])'
  BY DEF LogInv, AuditedFirst
<1>3. purge'.pc = "event" => \A c \in purge'.victims : <<"DELETE", c, 0>> \in audit'
  BY DEF LogInv
<1> QED BY <1>1, <1>2, <1>3 DEF LogInv

LEMMA LogInvNext == LogInv /\ [Next]_vars => LogInv'
<1> SUFFICES ASSUME LogInv, [Next]_vars PROVE LogInv' OBVIOUS
<1>0. TypeInv' /\ req \in [Req -> Request \cup {Idle}] /\ Idle.pc = "idle"
  BY TypeInvNext DEF LogInv, TypeInv, TypeOK, Idle
<1>1. CASE UNCHANGED vars BY <1>0, <1>1, LogKept DEF vars
<1>2. ASSUME NEW r \in Req, Arrive(r) PROVE LogInv'
  <2>1. UNCHANGED <<purge, audit, eventLog>>
    BY <1>2 DEF Arrive, Create, Insert, Update, DashboardUpdate, SetStatus, Start, Complete, Postpone,
                ApproveVisibility, ExportToTechnicians, ApproveExport, ConfirmOperation, Delete,
                UrgentVisit, Accept, logs
  <2>2. PICK q : req' = [req EXCEPT ![r] = q] /\ q.pc \in {"check", "write", "touch"}
    <3>1. ASSUME NEW u, NEW a, Create(r, u, a)
          PROVE  \E q : req' = [req EXCEPT ![r] = q] /\ q.pc \in {"check", "write", "touch"}
      <4>1. PICK urgent, shown, t, c : Insert(r, u, a, urgent, shown, t, c)
        BY <3>1, Zenon DEF Create
      <4> DEFINE q == [pc |-> "touch", op |-> "create", user |-> u, id |-> a,
                       versioned |-> FALSE, newCustomer |-> c \notin customers,
                       row |-> NewRow(u, urgent, shown, t, c)]
      <4>2. req' = [req EXCEPT ![r] = q] BY <4>1 DEF Insert
      <4>3. q.pc = "touch" OBVIOUS
      <4> HIDE DEF q
      <4> QED BY <4>2, <4>3
    <3>2. ASSUME NEW u, NEW op, NEW a, NEW versioned, Accept(r, u, op, a, versioned)
          PROVE  \E q : req' = [req EXCEPT ![r] = q] /\ q.pc \in {"check", "write", "touch"}
      <4> DEFINE q == [pc |-> "write", op |-> op, user |-> u, id |-> a, versioned |-> versioned,
                       newCustomer |-> FALSE, row |-> appt[a]]
      <4>1. req' = [req EXCEPT ![r] = q] /\ q.pc = "write" BY <3>2 DEF Accept
      <4> HIDE DEF q
      <4> QED BY <4>1
    <3>3. ASSUME NEW t, NEW a, UrgentVisit(r, t, a)
          PROVE  \E q : req' = [req EXCEPT ![r] = q] /\ q.pc \in {"check", "write", "touch"}
      <4> DEFINE q == [pc |-> "check", op |-> "urgentVisit", user |-> t, id |-> a,
                       versioned |-> FALSE, newCustomer |-> FALSE, row |-> appt[a]]
      <4>1. req' = [req EXCEPT ![r] = q] /\ q.pc = "check" BY <3>3 DEF UrgentVisit
      <4> HIDE DEF q
      <4> QED BY <4>1
    <3> QED
      BY <1>2, <3>1, <3>2, <3>3
      DEF Arrive, Update, DashboardUpdate, SetStatus, Start, Complete, Postpone, ApproveVisibility,
          ExportToTechnicians, ApproveExport, ConfirmOperation, Delete
  <2>3. \A s \in Req : req'[s] = req[s] \/ req'[s].pc \notin {"event", "customerEvent"}
    BY <1>0, <2>2
  <2> QED BY <1>0, <2>1, <2>3, LogKept
<1>3. ASSUME NEW r \in Req, Write(r) PROVE LogInv'
  <2>1. UNCHANGED <<purge, audit, eventLog>>
    BY <1>3 DEF Write, Commit, UpdateWrite, DashboardUpdateWrite, ApproveVisibilityWrite,
                ExportToTechniciansWrite, ApproveExportWrite, SetStatusWrite, StartWrite, CompleteWrite,
                PostponeWrite, ConfirmOperationWrite, DeleteWrite, UrgentVisitWrite, logs
  <2>2. PICK pc \in {"touch", "audit", "emit"} :
          \/ req' = [req EXCEPT ![r].pc = pc]
          \/ \E row : req' = [req EXCEPT ![r].pc = pc, ![r].row = row]
    <3>1. ASSUME NEW op, NEW row, Commit(r, op, row)
          PROVE  \E pc \in {"touch", "audit", "emit"} : \E now :
                   req' = [req EXCEPT ![r].pc = pc, ![r].row = now]
      <4>1. \A now : AfterWrite(op, now) \in {"touch", "audit", "emit"} BY DEF AfterWrite
      <4> QED BY <3>1, <4>1 DEF Commit
    <3>2. CASE DeleteWrite(r) \/ UrgentVisitWrite(r)
      BY <3>2 DEF DeleteWrite, UrgentVisitWrite
    <3> QED
      BY <1>3, <3>1, <3>2
      DEF Write, UpdateWrite, DashboardUpdateWrite, ApproveVisibilityWrite, ExportToTechniciansWrite,
          ApproveExportWrite, SetStatusWrite, StartWrite, CompleteWrite, PostponeWrite,
          ConfirmOperationWrite
  <2>3. req[r] \in Request
    BY <1>3, WriteEffect, InFlight DEF LogInv, TypeInv
  <2>4. \A s \in Req : req'[s] = req[s] \/ req'[s].pc \notin {"event", "customerEvent"}
    BY <1>0, <2>2, <2>3 DEF Request
  <2> QED BY <1>0, <2>1, <2>4, LogKept
<1>4. ASSUME NEW r \in Req,
             \/ UrgentVisitCheck(r) \/ WriteFails(r) \/ TouchCustomer(r) \/ LogNewCustomer(r)
             \/ WriteAudit(r) \/ AuditNewCustomer(r) \/ EmitEvent(r) \/ Emit(r)
      PROVE  LogInv'
  <2>0. req[r].pc # "idle" /\ req[r] \in Request /\ UNCHANGED purge
    BY <1>0, <1>4
    DEF UrgentVisitCheck, WriteFails, TouchCustomer, AuditNewCustomer, LogNewCustomer, WriteAudit,
        EmitEvent, Emit
  <2>1. CASE UrgentVisitCheck(r) \/ WriteFails(r) \/ TouchCustomer(r) \/ Emit(r)
    <3>1. UNCHANGED <<audit, eventLog>>
      BY <2>1 DEF UrgentVisitCheck, WriteFails, TouchCustomer, Emit, logs
    <3>2. \/ req' = [req EXCEPT ![r] = Idle]
          \/ \E pc \in {"write", "customer", "audit"} : req' = [req EXCEPT ![r].pc = pc]
      BY <2>1 DEF UrgentVisitCheck, WriteFails, TouchCustomer, Emit, AfterTouch
    <3>3. \A s \in Req : req'[s] = req[s] \/ req'[s].pc \notin {"event", "customerEvent"}
      BY <1>0, <2>0, <3>2 DEF Request
    <3> QED BY <1>0, <2>0, <3>1, <3>3, LogKept
  <2>2. CASE AuditNewCustomer(r)
    <3>1. /\ audit' = audit \cup {<<"CREATE", req[r].row.customerId, 1>>}
          /\ UNCHANGED eventLog /\ req' = [req EXCEPT ![r].pc = "customerEvent"]
      BY <2>2 DEF AuditNewCustomer
    <3>2. EventsAreAudited' BY <3>1 DEF LogInv, EventsAreAudited
    <3>3. ASSUME NEW s \in Req PROVE AuditedFirst(req[s])'
      <4>1. CASE s = r
        <5>1. req'[r].pc = "customerEvent" /\ req'[r].row = req[r].row
          BY <1>0, <2>0, <3>1 DEF Request
        <5> QED BY <3>1, <4>1, <5>1 DEF AuditedFirst
      <4>2. CASE s # r
        <5>1. req'[s] = req[s] BY <1>0, <3>1, <4>2
        <5> QED BY <3>1, <5>1 DEF LogInv, AuditedFirst
      <4> QED BY <4>1, <4>2
    <3> QED BY <1>0, <2>0, <3>1, <3>2, <3>3 DEF LogInv
  <2>3. CASE WriteAudit(r)
    <3> DEFINE q == req[r]
    <3>1. /\ \E entity : audit' = audit \cup {<<AuditAction(q.op), entity, q.row.version>>}
                         /\ (q.op # "urgentVisit" => entity = q.id)
          /\ req' = [req EXCEPT ![r].pc = IF q.op \in Logged THEN "event" ELSE "emit"]
          /\ UNCHANGED eventLog
      BY <2>3 DEF WriteAudit
    <3>2. EventsAreAudited' BY <3>1 DEF LogInv, EventsAreAudited
    <3>3. ASSUME NEW s \in Req PROVE AuditedFirst(req[s])'
      <4>1. CASE s = r
        <5>1. /\ req'[r].row = q.row /\ req'[r].id = q.id
              /\ req'[r].pc = IF q.op \in Logged THEN "event" ELSE "emit"
          BY <1>0, <2>0, <3>1 DEF Request
        <5>2. q.op \in Logged => q.op # "urgentVisit" BY DEF Logged
        <5>3. AuditAction(q.op) \in {"CREATE", "UPDATE", "DELETE"} BY DEF AuditAction
        <5> QED BY <3>1, <4>1, <5>1, <5>2, <5>3 DEF AuditedFirst
      <4>2. CASE s # r
        <5>1. req'[s] = req[s] /\ audit \subseteq audit' BY <1>0, <3>1, <4>2
        <5> QED BY <5>1 DEF LogInv, AuditedFirst
      <4> QED BY <4>1, <4>2
    <3> QED BY <1>0, <2>0, <3>1, <3>2, <3>3 DEF LogInv
  <2>4. CASE LogNewCustomer(r) \/ EmitEvent(r)
    <3>1. UNCHANGED audit BY <2>4 DEF LogNewCustomer, EmitEvent
    <3>2. /\ LogNewCustomer(r) => eventLog' = eventLog \cup {<<req[r].row.customerId, 1>>}
          /\ EmitEvent(r) => eventLog' = eventLog \cup {<<req[r].id, req[r].row.version>>}
          /\ \E pc \in {"audit", "emit"} : req' = [req EXCEPT ![r].pc = pc]
      BY <2>4 DEF LogNewCustomer, EmitEvent
    <3>3. AuditedFirst(req[r]) BY DEF LogInv
    <3>4. EventsAreAudited'
      <4>1. CASE LogNewCustomer(r)
        <5>1. <<"CREATE", req[r].row.customerId, 1>> \in audit
          BY <3>3, <4>1 DEF AuditedFirst, LogNewCustomer
        <5>2. \A e \in eventLog' \ eventLog : e = <<req[r].row.customerId, 1>>
          BY <3>2, <4>1
        <5> QED BY <3>1, <5>1, <5>2, NewEventsAudited DEF LogInv
      <4>2. CASE EmitEvent(r)
        <5>1. \E action \in {"CREATE", "UPDATE", "DELETE"} :
                <<action, req[r].id, req[r].row.version>> \in audit
          BY <3>3, <4>2 DEF AuditedFirst, EmitEvent
        <5>2. \A e \in eventLog' \ eventLog : e = <<req[r].id, req[r].row.version>>
          BY <3>2, <4>2
        <5> QED BY <3>1, <5>1, <5>2, NewEventsAudited DEF LogInv
      <4> QED BY <2>4, <4>1, <4>2
    <3>5. ASSUME NEW s \in Req PROVE AuditedFirst(req[s])'
      <4>1. req'[s] = req[s] \/ req'[s].pc \notin {"event", "customerEvent"}
        BY <1>0, <2>0, <3>2 DEF Request
      <4> QED BY <3>1, <4>1 DEF LogInv, AuditedFirst
    <3> QED BY <1>0, <2>0, <3>1, <3>4, <3>5 DEF LogInv
  <2> QED BY <1>4, <2>1, <2>2, <2>3, <2>4
<1>5. CASE (\E c \in Customer : PurgeRead(c)) \/ PurgeAll \/ PurgeCommit \/ PurgeEmit \/ Crash
  <2>1. UNCHANGED <<audit, eventLog>>
    BY <1>5 DEF PurgeRead, PurgeAll, PurgeCommit, PurgeEmit, Crash, logs
  <2>2. purge'.pc # "event"
    BY <1>5 DEF PurgeRead, PurgeAll, PurgeCommit, PurgeEmit, Crash, NoPurge, LogInv, TypeInv, TypeOK, Purge
  <2>3. \A s \in Req : req'[s] = req[s] \/ req'[s].pc \notin {"event", "customerEvent"}
    BY <1>0, <1>5 DEF PurgeRead, PurgeAll, PurgeCommit, PurgeEmit, Crash
  <2> QED BY <1>0, <2>1, <2>2, <2>3, LogKept
<1>6. CASE PurgeAudit \/ PurgeEvent
  <2>1. UNCHANGED req /\ audit \subseteq audit' /\ purge \in Purge
    BY <1>6 DEF PurgeAudit, PurgeEvent, LogInv, TypeInv, TypeOK
  <2>2. purge'.pc = "event" => \A c \in purge'.victims : <<"DELETE", c, 0>> \in audit'
    BY <1>6, <2>1 DEF PurgeAudit, PurgeEvent, Purge
  <2>3. EventsAreAudited'
    <3>1. CASE PurgeAudit BY <2>1, <3>1 DEF PurgeAudit, LogInv, EventsAreAudited
    <3>2. CASE PurgeEvent
      <4>1. eventLog' = eventLog \cup {<<c, 0>> : c \in purge.victims} /\ UNCHANGED audit
        BY <3>2 DEF PurgeEvent
      <4>2. \A c \in purge.victims : <<"DELETE", c, 0>> \in audit BY <3>2 DEF PurgeEvent, LogInv
      <4>3. \A e \in eventLog' \ eventLog : \E c \in purge.victims : e = <<c, 0>> BY <4>1
      <4> QED BY <4>1, <4>2, <4>3, NewEventsAudited DEF LogInv
    <3> QED BY <1>6, <3>1, <3>2
  <2>4. \A s \in Req : AuditedFirst(req[s])' BY <2>1 DEF LogInv, AuditedFirst
  <2> QED BY <1>0, <2>2, <2>3, <2>4 DEF LogInv
<1> QED BY <1>1, <1>2, <1>3, <1>4, <1>5, <1>6 DEF Next, Serve, ServePurge

\* No event row without an audit row of the same change, for any number of
\* requests, with crashes at every point (writeAudit, emitEvent).
THEOREM EventsStayAudited == Spec => []EventsAreAudited
<1>1. LogInv => EventsAreAudited BY DEF LogInv
<1> QED BY <1>1, LogInvInit, LogInvNext, PTL DEF Spec

-----------------------------------------------------------------------------
(* Whose job it is.  A technician is written to a row only together with its *)
(* start, so until then every copy a handler holds names the technician the  *)
(* row names, whoever overtook it, and rooms were chosen by that name.       *)

WorkOps == {"start", "postpone", "complete"}

\* What may happen to a row: it is started, or its technician stays.
SameOwner(old, new) ==
  /\ new.life = "free" => old.life = "free" /\ new.startedAt = old.startedAt
  /\ \/ new.startedAt
     \/ new.technicianId = old.technicianId /\ new.startedAt = old.startedAt

Fits(q, row) ==
  q.pc # "idle" =>
    /\ row.life # "free"
    /\ q.pc = "check" => q.op = "urgentVisit"
    /\ ~row.startedAt =>
         /\ q.row.technicianId = row.technicianId
         /\ q.pc = "write" /\ q.op \in WorkOps /\ row.technicianId # NoTech
              => q.user \in {"ADMIN", row.technicianId}

Discreet(row, audience) ==
  /\ row.life = "free" => ~row.startedAt /\ audience = {}
  /\ row.technicianId # NoTech /\ ~row.startedAt
       => audience \cap Technician \subseteq {row.technicianId}

OwnerInv ==
  /\ TypeInv
  /\ \A a \in Appt : Discreet(appt[a], reached[a])
  /\ \A r \in Req : Fits(req[r], appt[req[r].id])

LEMMA OwnerInvInit == Init => OwnerInv
<1> SUFFICES ASSUME Init PROVE OwnerInv OBVIOUS
<1>1. ~Free.startedAt /\ ~LegacyRow.startedAt /\ LegacyRow.technicianId = NoTech
  BY DEF Free, LegacyRow
<1>2. \A a \in Appt : Discreet(appt[a], reached[a]) BY <1>1 DEF Init, Discreet
<1>3. \A r \in Req : Fits(req[r], appt[req[r].id]) BY DEF Init, Idle, Fits
<1> QED BY <1>2, <1>3, TypeInvInit DEF OwnerInv

LEMMA OwnerKept ==
  ASSUME NEW q, NEW audience, NEW old, NEW new, SameOwner(old, new)
  PROVE  /\ Fits(q, old) /\ new.life # "free" => Fits(q, new)
         /\ Discreet(old, audience) => Discreet(new, audience)
BY DEF SameOwner, Fits, Discreet

\* What a write does to the owner of its row.  A stale copy matters in one
\* place: /start claims the job if the copy says that nobody has it.
OwnerWrite(r, new) ==
  /\ appt' = [appt EXCEPT ![req[r].id] = new]
  /\ new.life # "free" /\ SameOwner(appt[req[r].id], new)
  /\ new.technicianId = appt[req[r].id].technicianId \/ req[r].row.technicianId = NoTech
  /\ \E q \in Request : /\ req' = [req EXCEPT ![r] = q]
                        /\ q.id = req[r].id /\ q.pc \notin {"check", "write"}
                        /\ ~new.startedAt => \/ q.row.technicianId = new.technicianId
                                             \/ q.row = req[r].row
  /\ UNCHANGED reached

LEMMA CommitOwner ==
  ASSUME TypeInv, NEW r \in Req, NEW op, NEW row \in Row, Commit(r, op, row),
         row.life = "live", SameOwner(Current(r), row),
         row.technicianId = Current(r).technicianId \/ req[r].row.technicianId = NoTech
  PROVE  \E new : OwnerWrite(r, new)
<1> DEFINE new == [row EXCEPT !.version = @ + 1]
           q == [req[r] EXCEPT !.pc = AfterWrite(op, new), !.row = new]
<1>1. req[r].pc = "write" /\ req[r].pc # "idle" BY DEF Commit
<1>2. Current(r) = appt[req[r].id] /\ Current(r) \in Row /\ req[r] \in Request
  BY <1>1, InFlight DEF Current, TypeInv
<1>3. /\ new \in Row /\ new.life = "live" /\ new.technicianId = row.technicianId
      /\ new.startedAt = row.startedAt
  BY DEF Row
<1>4. appt' = [appt EXCEPT ![req[r].id] = new] /\ req' = [req EXCEPT ![r] = q] /\ UNCHANGED reached
  BY DEF Commit, TypeInv, TypeOK, sockets
<1>5. AfterWrite(op, new) \in {"touch", "audit", "emit"} BY DEF AfterWrite
<1> HIDE DEF new
<1>6. q \in Request /\ q.id = req[r].id /\ q.pc \notin {"check", "write"} /\ q.row = new
  BY <1>2, <1>3, <1>5 DEF Request
<1> HIDE DEF q
<1>7. SameOwner(appt[req[r].id], new) BY <1>2, <1>3 DEF SameOwner
<1> QED BY <1>2, <1>3, <1>4, <1>6, <1>7 DEF OwnerWrite

LEMMA WriteOwner ==
  ASSUME TypeInv, NEW r \in Req, Write(r)
  PROVE  \E new : OwnerWrite(r, new)
<1>1. req[r].pc = "write" /\ req[r].id \in Appt /\ Current(r).life = "live"
  BY WriteEffect DEF Current
<1>2. /\ Current(r) \in Row /\ req[r] \in Request /\ Current(r) = appt[req[r].id]
      /\ req[r].user \in Users
  BY <1>1, InFlight DEF Current, TypeInv
<1>3. ASSUME NEW op, NEW row \in Row, Commit(r, op, row), row.life = Current(r).life,
             row.technicianId = Current(r).technicianId,
             row.startedAt = Current(r).startedAt
      PROVE  \E new : OwnerWrite(r, new)
  <2>1. SameOwner(Current(r), row) BY <1>3 DEF SameOwner
  <2> QED BY <1>1, <1>3, <2>1, CommitOwner
<1>4. CASE UpdateWrite(r)
  <2>1. PICK rescheduled \in BOOLEAN, shown \in BOOLEAN :
          Commit(r, "update",
            [Current(r) EXCEPT !.status = IF rescheduled THEN "RESCHEDULED" ELSE @,
                               !.visibleToScheduling = shown])
    BY <1>4 DEF UpdateWrite
  <2> DEFINE row == [Current(r) EXCEPT !.status = IF rescheduled THEN "RESCHEDULED" ELSE @,
                                       !.visibleToScheduling = shown]
  <2>2. /\ row \in Row /\ row.life = Current(r).life
        /\ row.technicianId = Current(r).technicianId /\ row.startedAt = Current(r).startedAt
    BY <1>2 DEF Row, Status
  <2> QED BY <1>3, <2>1, <2>2
<1>5. CASE DashboardUpdateWrite(r) \/ SetStatusWrite(r)
  <2>1. PICK op \in {"dashboardUpdate", "status"}, st \in BodyStatus :
          Commit(r, op, [Current(r) EXCEPT !.status = st])
    BY <1>5 DEF DashboardUpdateWrite, SetStatusWrite
  <2> DEFINE row == [Current(r) EXCEPT !.status = st]
  <2>2. /\ row \in Row /\ row.life = Current(r).life
        /\ row.technicianId = Current(r).technicianId /\ row.startedAt = Current(r).startedAt
    BY <1>2, StatusAssumption DEF Row
  <2> QED BY <1>3, <2>1, <2>2
<1>6. CASE \/ ApproveVisibilityWrite(r) \/ ExportToTechniciansWrite(r) \/ ApproveExportWrite(r)
           \/ ConfirmOperationWrite(r)
  <2> DEFINE approved == [Current(r) EXCEPT !.visibleToScheduling = TRUE, !.adminApproved = TRUE]
             exported == [Current(r) EXCEPT !.visibleToTechnician = FALSE, !.adminApproved = FALSE]
             shown == [Current(r) EXCEPT !.visibleToTechnician = TRUE, !.adminApproved = TRUE]
             confirmed == [Current(r) EXCEPT !.maintenanceConfirmed = TRUE]
  <2>1. \A row \in {approved, exported, shown, confirmed} :
          /\ row \in Row /\ row.life = Current(r).life
          /\ row.technicianId = Current(r).technicianId /\ row.startedAt = Current(r).startedAt
    BY <1>2 DEF Row
  <2>2. PICK op \in AppointmentOps, row \in {approved, exported, shown, confirmed} : Commit(r, op, row)
    BY <1>6 DEF ApproveVisibilityWrite, ExportToTechniciansWrite, ApproveExportWrite,
                ConfirmOperationWrite, AppointmentOps
  <2> HIDE DEF approved, exported, shown, confirmed
  <2> QED BY <1>3, <2>1, <2>2
<1>7. CASE CompleteWrite(r) \/ PostponeWrite(r)
  <2> DEFINE completed == [Current(r) EXCEPT !.workStatus = "COMPLETED", !.completedAt = TRUE,
                                             !.maintenanceConfirmed = FALSE]
             postponed == [Current(r) EXCEPT !.workStatus = "POSTPONED", !.postponements = TRUE]
  <2>1. \A row \in {completed, postponed} :
          /\ row \in Row /\ row.life = Current(r).life
          /\ row.technicianId = Current(r).technicianId /\ row.startedAt = Current(r).startedAt
    BY <1>2 DEF Row, WorkStatus
  <2>2. PICK op \in AppointmentOps, row \in {completed, postponed} : Commit(r, op, row)
    BY <1>7 DEF CompleteWrite, PostponeWrite, AppointmentOps
  <2> HIDE DEF completed, postponed
  <2> QED BY <1>3, <2>1, <2>2
<1>8. CASE StartWrite(r)
  <2> DEFINE claims == req[r].row.technicianId = NoTech /\ req[r].user # "ADMIN"
             tech == IF claims THEN req[r].user ELSE Current(r).technicianId
             row == [Current(r) EXCEPT !.workStatus = "IN_PROGRESS", !.startedAt = TRUE,
                                       !.technicianId = tech]
  <2>1. req[r].op = "start" /\ Commit(r, "start", row)
    BY <1>8, <1>2 DEF StartWrite, Commit
  <2>2. tech \in Technician \cup {NoTech}
    BY <1>2, <2>1 DEF TypeInv, WorkersWork, Users, Row
  <2>3. row \in Row /\ row.life = Current(r).life /\ row.startedAt /\ row.technicianId = tech
    BY <1>2, <2>2 DEF Row, WorkStatus
  <2>4. row.technicianId = Current(r).technicianId \/ req[r].row.technicianId = NoTech
    BY <2>3
  <2> HIDE DEF row
  <2>5. SameOwner(Current(r), row) BY <1>1, <2>3 DEF SameOwner
  <2> QED BY <1>1, <2>1, <2>3, <2>4, <2>5, CommitOwner
<1>9. CASE DeleteWrite(r) \/ UrgentVisitWrite(r)
  <2> DEFINE q == [req[r] EXCEPT !.pc = "audit"]
  <2>1. req' = [req EXCEPT ![r] = q] /\ UNCHANGED reached
    BY <1>9 DEF DeleteWrite, UrgentVisitWrite, sockets, TypeInv, TypeOK
  <2>2. q \in Request /\ q.id = req[r].id /\ q.pc = "audit" /\ q.row = req[r].row
    BY <1>2 DEF Request
  <2>3. PICK new \in {[Current(r) EXCEPT !.life = "deleted"], [Current(r) EXCEPT !.urgentVisitRecord = TRUE]} :
          appt' = [appt EXCEPT ![req[r].id] = new]
    BY <1>2, <1>9 DEF DeleteWrite, UrgentVisitWrite, TypeInv, TypeOK
  <2>4. /\ new.life # "free" /\ new.technicianId = Current(r).technicianId
        /\ new.startedAt = Current(r).startedAt
    BY <1>1, <1>2, <2>3 DEF Row
  <2>5. SameOwner(appt[req[r].id], new) BY <1>1, <1>2, <2>4 DEF SameOwner
  <2> HIDE DEF q
  <2> QED BY <1>2, <2>1, <2>2, <2>3, <2>4, <2>5 DEF OwnerWrite
<1> QED BY <1>4, <1>5, <1>6, <1>7, <1>8, <1>9 DEF Write

\* A read, for work, of a row the caller has in its scope.
LEMMA AcceptFits ==
  ASSUME TypeInv, NEW r \in Req, NEW u \in Users, NEW op, NEW a \in Appt, NEW versioned,
         Accept(r, u, op, a, versioned),
         op \in WorkOps => InWorkScope(u, appt[a])
  PROVE  /\ UNCHANGED <<appt, reached>>
         /\ \E q : req' = [req EXCEPT ![r] = q] /\ q.id = a /\ Fits(q, appt[a])
<1> DEFINE q == [pc |-> "write", op |-> op, user |-> u, id |-> a, versioned |-> versioned,
                 newCustomer |-> FALSE, row |-> appt[a]]
<1>1. req' = [req EXCEPT ![r] = q] /\ UNCHANGED <<appt, reached>> /\ appt[a].life = "live"
  BY DEF Accept, tables, sockets
<1>2. op \in WorkOps /\ appt[a].technicianId # NoTech => u \in {"ADMIN", appt[a].technicianId}
  BY DEF InWorkScope
<1>3. Fits(q, appt[a]) BY <1>1, <1>2 DEF Fits
<1>4. q.id = a OBVIOUS
<1> HIDE DEF q
<1> QED BY <1>1, <1>3, <1>4

LEMMA ArriveOwner ==
  ASSUME TypeInv, NEW r \in Req, Arrive(r)
  PROVE  \/ /\ UNCHANGED <<appt, reached>>
            /\ \E a \in Appt : \E q : req' = [req EXCEPT ![r] = q] /\ q.id = a /\ Fits(q, appt[a])
         \/ /\ UNCHANGED reached
            /\ \E a \in Appt : \E q, new :
                 /\ appt[a].life = "free"
                 /\ appt' = [appt EXCEPT ![a] = new] /\ new.life # "free" /\ ~new.startedAt
                 /\ req' = [req EXCEPT ![r] = q] /\ q.id = a /\ Fits(q, new)
<1>1. PICK a \in Appt :
        \/ \E u \in Users : \/ Create(r, u, a) \/ Update(r, u, a) \/ DashboardUpdate(r, u, a)
                            \/ SetStatus(r, u, a) \/ Start(r, u, a) \/ Complete(r, u, a)
                            \/ Postpone(r, u, a)
        \/ ApproveVisibility(r, a) \/ ExportToTechnicians(r, a) \/ ApproveExport(r, a)
        \/ ConfirmOperation(r, a) \/ Delete(r, a)
        \/ \E t \in Technician : UrgentVisit(r, t, a)
  BY DEF Arrive
<1>2. ASSUME NEW u \in Users, Create(r, u, a)
      PROVE  /\ UNCHANGED reached
             /\ \E q, new :
                  /\ appt[a].life = "free"
                  /\ appt' = [appt EXCEPT ![a] = new] /\ new.life # "free" /\ ~new.startedAt
                  /\ req' = [req EXCEPT ![r] = q] /\ q.id = a /\ Fits(q, new)
  <2>1. PICK urgent \in BOOLEAN, shown \in BOOLEAN, t \in Technician \cup {NoTech},
             c \in Customer : Insert(r, u, a, urgent, shown, t, c)
    BY <1>2, Zenon DEF Create
  <2> DEFINE new == NewRow(u, urgent, shown, t, c)
             q == [pc |-> "touch", op |-> "create", user |-> u, id |-> a,
                   versioned |-> FALSE, newCustomer |-> c \notin customers, row |-> new]
  <2>2. /\ appt[a].life = "free" /\ appt' = [appt EXCEPT ![a] = new] /\ UNCHANGED reached
        /\ req' = [req EXCEPT ![r] = q]
    BY <2>1 DEF Insert, sockets
  <2>3. new.life = "live" /\ ~new.startedAt BY DEF NewRow, Free
  <2> HIDE DEF new
  <2>4. q.id = a /\ Fits(q, new) BY <2>3 DEF Fits
  <2> HIDE DEF q
  <2> QED BY <2>2, <2>3, <2>4
<1>3. ASSUME NEW u \in Users, NEW op, NEW versioned, Accept(r, u, op, a, versioned),
             op \in WorkOps => InWorkScope(u, appt[a])
      PROVE  /\ UNCHANGED <<appt, reached>>
             /\ \E q : req' = [req EXCEPT ![r] = q] /\ q.id = a /\ Fits(q, appt[a])
  BY <1>3, AcceptFits
<1>4. ASSUME NEW u \in Users,
             \/ Update(r, u, a) \/ DashboardUpdate(r, u, a) \/ SetStatus(r, u, a)
             \/ Start(r, u, a) \/ Complete(r, u, a) \/ Postpone(r, u, a)
      PROVE  /\ UNCHANGED <<appt, reached>>
             /\ \E q : req' = [req EXCEPT ![r] = q] /\ q.id = a /\ Fits(q, appt[a])
  <2>1. PICK op \in AppointmentOps, versioned \in BOOLEAN :
          Accept(r, u, op, a, versioned) /\ (op \in WorkOps => InWorkScope(u, appt[a]))
    <3>1. CASE Update(r, u, a) \/ DashboardUpdate(r, u, a) \/ SetStatus(r, u, a)
      BY <3>1 DEF Update, DashboardUpdate, SetStatus, AppointmentOps, WorkOps
    <3>2. CASE Start(r, u, a) \/ Complete(r, u, a) \/ Postpone(r, u, a)
      BY <3>2 DEF Start, Complete, Postpone, AppointmentOps
    <3> QED BY <1>4, <3>1, <3>2
  <2> QED BY <1>3, <2>1
<1>5. ASSUME \/ ApproveVisibility(r, a) \/ ExportToTechnicians(r, a) \/ ApproveExport(r, a)
             \/ ConfirmOperation(r, a) \/ Delete(r, a)
      PROVE  /\ UNCHANGED <<appt, reached>>
             /\ \E q : req' = [req EXCEPT ![r] = q] /\ q.id = a /\ Fits(q, appt[a])
  <2>1. PICK u \in Users, op \in AppointmentOps : Accept(r, u, op, a, FALSE) /\ op \notin WorkOps
    BY <1>5 DEF ApproveVisibility, ExportToTechnicians, ApproveExport, ConfirmOperation, Delete,
                Users, AppointmentOps, WorkOps
  <2> QED BY <1>3, <2>1
<1>6. ASSUME NEW t \in Technician, UrgentVisit(r, t, a)
      PROVE  /\ UNCHANGED <<appt, reached>>
             /\ \E q : req' = [req EXCEPT ![r] = q] /\ q.id = a /\ Fits(q, appt[a])
  <2> DEFINE q == [pc |-> "check", op |-> "urgentVisit", user |-> t, id |-> a,
                   versioned |-> FALSE, newCustomer |-> FALSE, row |-> appt[a]]
  <2>1. req' = [req EXCEPT ![r] = q] /\ UNCHANGED <<appt, reached>> /\ appt[a].life = "live"
    BY <1>6 DEF UrgentVisit, tables, sockets
  <2>2. q.id = a /\ Fits(q, appt[a]) BY <2>1 DEF Fits
  <2> HIDE DEF q
  <2> QED BY <2>1, <2>2
<1> QED BY <1>1, <1>2, <1>4, <1>5, <1>6

\* The other steps of a request keep its copy; Emit sends it to the rooms the
\* copy names.
LEMMA ServedOwner ==
  ASSUME OwnerInv, NEW r \in Req,
         \/ UrgentVisitCheck(r) \/ WriteFails(r) \/ TouchCustomer(r) \/ AuditNewCustomer(r)
         \/ LogNewCustomer(r) \/ WriteAudit(r) \/ EmitEvent(r) \/ Emit(r)
  PROVE  /\ UNCHANGED appt
         /\ \E q : req' = [req EXCEPT ![r] = q] /\ (q.pc # "idle" => q.id = req[r].id)
                   /\ Fits(q, appt[q.id])
         /\ \A a \in Appt : Discreet(appt[a], reached'[a])
<1>0. /\ req[r].pc # "idle" /\ req[r] \in Request /\ UNCHANGED appt
      /\ Fits(req[r], appt[req[r].id]) /\ req[r].id \in Appt /\ req[r].row \in Row
  <2>1. req[r].pc # "idle" /\ UNCHANGED appt
    BY DEF UrgentVisitCheck, WriteFails, TouchCustomer, AuditNewCustomer, LogNewCustomer, WriteAudit,
           EmitEvent, Emit, tables
  <2> QED BY <2>1, InFlight DEF OwnerInv, TypeInv
<1>1. \E q : req' = [req EXCEPT ![r] = q] /\ (q.pc # "idle" => q.id = req[r].id)
             /\ Fits(q, appt[q.id])
  <2>1. CASE req' = [req EXCEPT ![r] = Idle]
    <3>1. Idle.pc = "idle" /\ Fits(Idle, appt[Idle.id]) BY DEF Idle, Fits
    <3> QED BY <2>1, <3>1
  <2>2. ASSUME NEW pc \in {"write", "customer", "customerEvent", "audit", "event", "emit"},
               req' = [req EXCEPT ![r].pc = pc],
               pc = "write" => req[r].pc = "check"
        PROVE  \E q : req' = [req EXCEPT ![r] = q] /\ (q.pc # "idle" => q.id = req[r].id)
                      /\ Fits(q, appt[q.id])
    <3> DEFINE q == [req[r] EXCEPT !.pc = pc]
    <3>1. req' = [req EXCEPT ![r] = q] BY <2>2 DEF OwnerInv, TypeInv, TypeOK
    <3>2. /\ q.pc = pc /\ q.op = req[r].op /\ q.id = req[r].id /\ q.row = req[r].row
          /\ q.user = req[r].user
      BY <1>0 DEF Request
    <3> HIDE DEF q
    <3>3. Fits(q, appt[q.id]) BY <1>0, <2>2, <3>2 DEF Fits, WorkOps
    <3> QED BY <3>1, <3>2, <3>3
  <2>3. \/ req' = [req EXCEPT ![r] = Idle]
        \/ \E pc \in {"write", "customer", "customerEvent", "audit", "event", "emit"} :
             req' = [req EXCEPT ![r].pc = pc] /\ (pc = "write" => req[r].pc = "check")
    BY DEF UrgentVisitCheck, WriteFails, TouchCustomer, AuditNewCustomer, LogNewCustomer, WriteAudit,
           EmitEvent, Emit, AfterTouch
  <2> QED BY <2>1, <2>2, <2>3
<1>2. ASSUME NEW a \in Appt PROVE Discreet(appt[a], reached'[a])
  <2>1. CASE UNCHANGED reached BY <2>1 DEF OwnerInv
  <2>2. CASE Emit(r)
    <3> DEFINE id == req[r].id
               row == req[r].row
    <3>1. reached' = [reached EXCEPT ![id] = @ \cup AudienceOf(req[r].op, row)]
      BY <2>2 DEF Emit
    <3>2. Discreet(appt[id], reached[id]) /\ appt[id].life # "free"
          /\ (~appt[id].startedAt => row.technicianId = appt[id].technicianId)
      BY <1>0 DEF OwnerInv, Fits
    <3>3. row.technicianId # NoTech => AudienceOf(req[r].op, row) \cap Technician \subseteq {row.technicianId}
      BY UsersAssumption DEF AudienceOf, TechnicianRoom, OwnerRoom
    <3>4. reached'[id] = reached[id] \cup AudienceOf(req[r].op, row)
      BY <1>0, <3>1 DEF OwnerInv, TypeInv, TypeOK
    <3>5. Discreet(appt[id], reached'[id]) BY <3>2, <3>3, <3>4 DEF Discreet
    <3>6. a # id => reached'[a] = reached[a] BY <3>1 DEF OwnerInv, TypeInv, TypeOK
    <3> QED BY <3>5, <3>6 DEF OwnerInv
  <2>3. Emit(r) \/ UNCHANGED reached
    BY DEF UrgentVisitCheck, WriteFails, TouchCustomer, AuditNewCustomer, LogNewCustomer, WriteAudit,
           EmitEvent, sockets
  <2> QED BY <2>1, <2>2, <2>3
<1> QED BY <1>0, <1>1, <1>2
LEMMA WriteKeepsOwners ==
  ASSUME OwnerInv, NEW r \in Req, Write(r)
  PROVE  /\ \A a \in Appt : Discreet(appt'[a], reached'[a])
         /\ \A s \in Req : Fits(req'[s], appt'[req'[s].id])
<1> DEFINE id == req[r].id
<1>1. TypeInv /\ req[r].pc = "write" /\ id \in Appt
  BY WriteEffect DEF OwnerInv
<1>2. PICK new : OwnerWrite(r, new) BY <1>1, WriteOwner
<1>3. PICK q \in Request :
        /\ req' = [req EXCEPT ![r] = q]
        /\ q.id = id /\ q.pc \notin {"check", "write"}
        /\ ~new.startedAt => q.row.technicianId = new.technicianId \/ q.row = req[r].row
  BY <1>2 DEF OwnerWrite
<1>4. /\ appt' = [appt EXCEPT ![id] = new] /\ new.life # "free" /\ SameOwner(appt[id], new)
      /\ UNCHANGED reached
  BY <1>2 DEF OwnerWrite
<1>5. appt \in [Appt -> Row] /\ req \in [Req -> Request \cup {Idle}]
  BY <1>1 DEF TypeInv, TypeOK
<1>6. Fits(req[r], appt[id]) BY DEF OwnerInv
<1>7. Fits(q, new) BY <1>1, <1>3, <1>4, <1>6 DEF Fits, SameOwner
<1> HIDE DEF id
<1>8. ASSUME NEW a \in Appt PROVE Discreet(appt'[a], reached'[a])
  <2>1. Discreet(appt[a], reached[a]) BY DEF OwnerInv
  <2>2. CASE a = id
    <3>1. appt'[a] = new /\ reached'[a] = reached[a] BY <1>4, <1>5, <2>2
    <3>2. Discreet(new, reached[a]) BY <1>4, <2>1, <2>2, OwnerKept
    <3> QED BY <3>1, <3>2
  <2>3. CASE a # id
    <3>1. appt'[a] = appt[a] /\ reached'[a] = reached[a] BY <1>4, <1>5, <2>3
    <3> QED BY <2>1, <3>1
  <2> QED BY <2>2, <2>3
<1>9. ASSUME NEW s \in Req PROVE Fits(req'[s], appt'[req'[s].id])
  <2>1. CASE s = r
    <3>1. req'[s] = q /\ appt'[q.id] = new BY <1>1, <1>3, <1>4, <1>5, <2>1
    <3> QED BY <1>7, <3>1
  <2>2. CASE s # r
    <3>1. req'[s] = req[s] /\ Fits(req[s], appt[req[s].id])
      BY <1>3, <1>5, <2>2 DEF OwnerInv
    <3>2. CASE req[s].id = id
      <4>1. appt'[id] = new BY <1>1, <1>4, <1>5
      <4>2. Fits(req[s], new) BY <1>4, <3>1, <3>2, OwnerKept
      <4> QED BY <3>1, <3>2, <4>1, <4>2
    <3>3. CASE req[s].id # id
      <4>1. appt'[req[s].id] = appt[req[s].id] BY <1>1, <1>4, <1>5, <3>3
      <4> QED BY <3>1, <4>1
    <3> QED BY <3>2, <3>3
  <2> QED BY <2>1, <2>2
<1> QED BY <1>8, <1>9

LEMMA ArriveKeepsOwners ==
  ASSUME OwnerInv, NEW r \in Req, Arrive(r)
  PROVE  /\ \A a \in Appt : Discreet(appt'[a], reached'[a])
         /\ \A s \in Req : Fits(req'[s], appt'[req'[s].id])
<1>1. TypeInv /\ appt \in [Appt -> Row] /\ req \in [Req -> Request \cup {Idle}]
  BY DEF OwnerInv, TypeInv, TypeOK
<1>2. ASSUME UNCHANGED <<appt, reached>>, NEW a \in Appt, NEW q,
             req' = [req EXCEPT ![r] = q], q.id = a, Fits(q, appt[a])
      PROVE  /\ \A b \in Appt : Discreet(appt'[b], reached'[b])
             /\ \A s \in Req : Fits(req'[s], appt'[req'[s].id])
  <2>1. ASSUME NEW s \in Req PROVE Fits(req'[s], appt'[req'[s].id])
    <3>1. CASE s = r BY <1>1, <1>2, <3>1
    <3>2. CASE s # r
      <4>1. req'[s] = req[s] BY <1>1, <1>2, <3>2
      <4> QED BY <1>2, <4>1 DEF OwnerInv
    <3> QED BY <3>1, <3>2
  <2> QED BY <1>2, <2>1 DEF OwnerInv
<1>3. ASSUME UNCHANGED reached, NEW a \in Appt, NEW q, NEW new,
             appt[a].life = "free", appt' = [appt EXCEPT ![a] = new],
             new.life # "free", ~new.startedAt,
             req' = [req EXCEPT ![r] = q], q.id = a, Fits(q, new)
      PROVE  /\ \A b \in Appt : Discreet(appt'[b], reached'[b])
             /\ \A s \in Req : Fits(req'[s], appt'[req'[s].id])
  <2>1. ASSUME NEW b \in Appt PROVE Discreet(appt'[b], reached'[b])
    <3>1. Discreet(appt[b], reached[b]) BY DEF OwnerInv
    <3>2. CASE b = a
      <4>1. appt'[b] = new /\ reached'[b] = {} BY <1>1, <1>3, <3>1, <3>2 DEF Discreet
      <4> QED BY <1>3, <4>1 DEF Discreet
    <3>3. CASE b # a
      <4>1. appt'[b] = appt[b] /\ reached'[b] = reached[b] BY <1>1, <1>3, <3>3
      <4> QED BY <3>1, <4>1
    <3> QED BY <3>2, <3>3
  <2>2. ASSUME NEW s \in Req PROVE Fits(req'[s], appt'[req'[s].id])
    <3>1. CASE s = r
      <4>1. req'[s] = q /\ appt'[a] = new BY <1>1, <1>3, <3>1
      <4> QED BY <1>3, <4>1
    <3>2. CASE s # r
      <4>1. req'[s] = req[s] /\ Fits(req[s], appt[req[s].id])
        BY <1>1, <1>3, <3>2 DEF OwnerInv
      <4>2. CASE req[s].id = a
        <5>1. req[s].pc = "idle" BY <1>3, <4>1, <4>2 DEF Fits
        <5> QED BY <4>1, <5>1 DEF Fits
      <4>3. CASE req[s].id # a
        <5>1. appt'[req[s].id] = appt[req[s].id] BY <1>1, <1>3, <4>3
        <5> QED BY <4>1, <5>1
      <4> QED BY <4>2, <4>3
    <3> QED BY <3>1, <3>2
  <2> QED BY <2>1, <2>2
<1> QED BY <1>1, <1>2, <1>3, ArriveOwner

LEMMA PurgeKeepsOwners ==
  ASSUME OwnerInv, (\E c \in Customer : PurgeRead(c)) \/ PurgeAll \/ ServePurge \/ Crash
  PROVE  /\ \A a \in Appt : Discreet(appt'[a], reached'[a])
         /\ \A s \in Req : Fits(req'[s], appt'[req'[s].id])
<1>1. /\ \A a \in Appt : Purged(a)
      /\ req' = req \/ req' = [r \in Req |-> Idle]
  BY PurgeEffect DEF OwnerInv
<1>2. UNCHANGED reached
  BY DEF PurgeRead, PurgeAll, ServePurge, PurgeCommit, PurgeAudit, PurgeEvent, PurgeEmit, Crash,
         sockets
<1>3. ASSUME NEW a \in Appt
      PROVE  /\ SameOwner(appt[a], appt'[a])
             /\ appt[a].life # "free" => appt'[a].life # "free"
  <2>1. Purged(a) /\ appt[a] \in Row BY <1>1 DEF OwnerInv, TypeInv, TypeOK
  <2> QED BY <2>1 DEF Purged, SameOwner, Row
<1>4. ASSUME NEW a \in Appt PROVE Discreet(appt'[a], reached'[a])
  <2>1. Discreet(appt[a], reached[a]) BY DEF OwnerInv
  <2> QED BY <1>2, <1>3, <2>1, OwnerKept
<1>5. ASSUME NEW s \in Req PROVE Fits(req'[s], appt'[req'[s].id])
  <2>1. CASE req' = req
    <3>1. Fits(req[s], appt[req[s].id]) BY DEF OwnerInv
    <3>2. CASE req[s].pc # "idle"
      <4>1. req[s].id \in Appt BY <3>2, InFlight DEF OwnerInv, TypeInv
      <4>2. appt'[req[s].id].life # "free" BY <1>3, <3>1, <3>2, <4>1 DEF Fits
      <4>3. Fits(req[s], appt'[req[s].id]) BY <1>3, <3>1, <4>1, <4>2, OwnerKept
      <4> QED BY <2>1, <4>3
    <3> QED BY <2>1, <3>2 DEF Fits
  <2>2. CASE req' = [r \in Req |-> Idle]
    BY <2>2 DEF Fits, Idle
  <2> QED BY <1>1, <2>1, <2>2
<1> QED BY <1>4, <1>5

LEMMA OwnerInvNext == OwnerInv /\ [Next]_vars => OwnerInv'
<1> SUFFICES ASSUME OwnerInv, [Next]_vars PROVE OwnerInv'
  OBVIOUS
<1>0. TypeInv' /\ TypeInv /\ req \in [Req -> Request \cup {Idle}]
  BY TypeInvNext DEF OwnerInv, TypeInv, TypeOK
<1> SUFFICES /\ \A a \in Appt : Discreet(appt'[a], reached'[a])
             /\ \A s \in Req : Fits(req'[s], appt'[req'[s].id])
  BY <1>0 DEF OwnerInv
<1>1. CASE \E r \in Req : Arrive(r) BY <1>1, ArriveKeepsOwners
<1>2. CASE \E r \in Req : Write(r) BY <1>2, WriteKeepsOwners
<1>3. ASSUME NEW r \in Req,
             \/ UrgentVisitCheck(r) \/ WriteFails(r) \/ TouchCustomer(r) \/ AuditNewCustomer(r)
             \/ LogNewCustomer(r) \/ WriteAudit(r) \/ EmitEvent(r) \/ Emit(r)
      PROVE  /\ \A a \in Appt : Discreet(appt'[a], reached'[a])
             /\ \A s \in Req : Fits(req'[s], appt'[req'[s].id])
  <2>1. UNCHANGED appt /\ \A a \in Appt : Discreet(appt[a], reached'[a])
    BY <1>3, ServedOwner
  <2>2. PICK q : req' = [req EXCEPT ![r] = q] /\ Fits(q, appt[q.id])
    BY <1>3, ServedOwner
  <2>3. ASSUME NEW s \in Req PROVE Fits(req'[s], appt'[req'[s].id])
    <3>1. CASE s = r BY <1>0, <2>1, <2>2, <3>1
    <3>2. CASE s # r
      <4>1. req'[s] = req[s] BY <1>0, <2>2, <3>2
      <4> QED BY <2>1, <4>1 DEF OwnerInv
    <3> QED BY <3>1, <3>2
  <2> QED BY <2>1, <2>3
<1>4. CASE (\E c \in Customer : PurgeRead(c)) \/ PurgeAll \/ ServePurge \/ Crash
  BY <1>4, PurgeKeepsOwners
<1>5. CASE UNCHANGED vars
  BY <1>5 DEF vars, OwnerInv
<1> QED BY <1>1, <1>2, <1>3, <1>4, <1>5 DEF Next, Serve

LEMMA OwnersHold == Spec => []OwnerInv
BY OwnerInvInit, OwnerInvNext, PTL DEF Spec

\* The payload of a job assigned when it was created never reaches another
\* technician's room, whatever the requests that emit it interleave with.
THEOREM AssignedJobsStayPrivate == Spec => []AssignedJobStaysPrivate
<1>1. OwnerInv => AssignedJobStaysPrivate
  BY DEF OwnerInv, Discreet, AssignedJobStaysPrivate
<1> QED BY <1>1, OwnersHold, PTL

\* A job assigned when it was created is started, postponed and completed by
\* its technician or by Administration, and stays theirs, although the scope is
\* checked on a row read before the write.
THEOREM AssignedJobsAreTheirs == Spec => AssignedJobIsTheirs
<1> DEFINE Theirs(q, next) ==
      (/\ q.pc = "write" /\ q.op \in {"start", "postpone", "complete"}
       /\ appt' # appt /\ next # q
       /\ appt[q.id].technicianId # NoTech /\ ~appt[q.id].startedAt)
      => /\ q.user \in {"ADMIN", appt[q.id].technicianId}
         /\ appt'[q.id].technicianId = appt[q.id].technicianId
<1>1. ASSUME OwnerInv, [Next]_vars, NEW s \in Req PROVE Theirs(req[s], req'[s])
  <2> SUFFICES ASSUME req[s].pc = "write", req[s].op \in WorkOps, appt' # appt, req'[s] # req[s],
                      appt[req[s].id].technicianId # NoTech, ~appt[req[s].id].startedAt
               PROVE  /\ req[s].user \in {"ADMIN", appt[req[s].id].technicianId}
                      /\ appt'[req[s].id].technicianId = appt[req[s].id].technicianId
    BY DEF WorkOps
  <2>0. TypeInv /\ req \in [Req -> Request \cup {Idle}] /\ appt \in [Appt -> Row]
    BY <1>1 DEF OwnerInv, TypeInv, TypeOK
  <2>1. req[s].id \in Appt
    BY <2>0, InFlight DEF TypeInv
  <2>2. Fits(req[s], appt[req[s].id])
    BY <1>1 DEF OwnerInv
  <2>3. /\ req[s].user \in {"ADMIN", appt[req[s].id].technicianId}
        /\ req[s].row.technicianId = appt[req[s].id].technicianId
    BY <2>2 DEF Fits
  <2>4. CASE Write(s)
    <3>1. PICK new : OwnerWrite(s, new) BY <2>0, <2>4, WriteOwner
    <3>2. appt'[req[s].id] = new /\ new.technicianId = appt[req[s].id].technicianId
      BY <2>0, <2>1, <2>3, <3>1 DEF OwnerWrite
    <3> QED BY <2>3, <3>2
  <2>5. ASSUME NEW r \in Req, r # s, Write(r) PROVE FALSE
    <3>1. PICK new : OwnerWrite(r, new) BY <2>0, <2>5, WriteOwner
    <3> QED BY <2>0, <2>5, <3>1 DEF OwnerWrite
  <2>6. ASSUME NEW r \in Req, Arrive(r) PROVE FALSE
    <3>1. \E q : req' = [req EXCEPT ![r] = q] /\ req[r].pc = "idle"
      <4>1. \E q : req' = [req EXCEPT ![r] = q]
        BY <2>0, <2>6, ArriveOwner
      <4>2. req[r].pc = "idle"
        BY <2>6 DEF Arrive, Create, Insert, Update, DashboardUpdate, SetStatus, Start, Complete,
                    Postpone, ApproveVisibility, ExportToTechnicians, ApproveExport,
                    ConfirmOperation, Delete, UrgentVisit, Accept
      <4> QED BY <4>1, <4>2
    <3> QED BY <2>0, <3>1
  <2>7. ASSUME NEW r \in Req, Serve(r), ~Write(r) PROVE FALSE
    BY <2>0, <2>7, ServeEffect
  <2>8. CASE (\E c \in Customer : PurgeRead(c)) \/ PurgeAll \/ ServePurge \/ Crash
    <3>1. UNCHANGED req \/ UNCHANGED appt
      BY <2>8 DEF PurgeRead, PurgeAll, ServePurge, PurgeCommit, PurgeAudit, PurgeEvent, PurgeEmit,
                  Crash, tables
    <3> QED BY <3>1
  <2>9. Next
    BY <1>1 DEF vars
  <2> QED BY <2>4, <2>5, <2>6, <2>7, <2>8, <2>9 DEF Next, Serve
<1>2. OwnerInv /\ [Next]_vars => [\A r \in Req : Theirs(req[r], req'[r])]_vars
  BY <1>1
<1> QED BY <1>2, OwnersHold, PTL DEF Spec, AssignedJobIsTheirs

-----------------------------------------------------------------------------
(* What a write leaves to be done: the request keeps the row it stored and   *)
(* goes on to the step its endpoint has next.                                *)

StoredBy(r, new) ==
  /\ new \in Row /\ new.life = "live"
  /\ new.customerId = Current(r).customerId
  /\ new.version = Current(r).version + 1
  /\ req[r].op \notin {"create", "delete", "urgentVisit"}
  /\ appt' = [appt EXCEPT ![req[r].id] = new]
  /\ \E q \in Request :
       /\ req' = [req EXCEPT ![r] = q]
       /\ q.pc = AfterWrite(req[r].op, new) /\ q.op = req[r].op
       /\ q.id = req[r].id /\ q.row = new

LEMMA CommitStores ==
  ASSUME TypeInv, NEW r \in Req, NEW op, NEW row \in Row, Commit(r, op, row),
         row.life = Current(r).life, row.customerId = Current(r).customerId,
         row.version = Current(r).version, op \notin {"create", "delete", "urgentVisit"}
  PROVE  \E new : StoredBy(r, new)
<1> DEFINE new == [row EXCEPT !.version = @ + 1]
           q == [req[r] EXCEPT !.pc = AfterWrite(op, new), !.row = new]
<1>1. req[r].pc = "write" /\ req[r].pc # "idle" /\ req[r].op = op /\ Current(r).life = "live"
  BY DEF Commit, Current
<1>2. req[r] \in Request
  BY <1>1, InFlight DEF TypeInv
<1>3. /\ new \in Row /\ new.life = "live" /\ new.customerId = row.customerId
      /\ new.version = row.version + 1
  BY <1>1 DEF Row
<1>4. appt' = [appt EXCEPT ![req[r].id] = new] /\ req' = [req EXCEPT ![r] = q]
  BY DEF Commit, TypeInv, TypeOK
<1>5. AfterWrite(op, new) \in {"touch", "audit", "emit"}
  BY DEF AfterWrite
<1> HIDE DEF new
<1>6. /\ q \in Request /\ q.pc = AfterWrite(op, new) /\ q.op = op /\ q.id = req[r].id
      /\ q.row = new
  BY <1>1, <1>2, <1>3, <1>5 DEF Request
<1> HIDE DEF q
<1> QED BY <1>1, <1>3, <1>4, <1>6 DEF StoredBy

\* A write updates its row, deletes it, or adds the visit record; nothing else
\* changes but the request.
LEMMA WriteStores ==
  ASSUME TypeInv, NEW r \in Req, Write(r)
  PROVE  /\ UNCHANGED <<customers, purge, logs, sockets>>
         /\ (\E new : StoredBy(r, new)) \/ DeleteWrite(r) \/ UrgentVisitWrite(r)
<1>0. UNCHANGED <<customers, purge, logs, sockets>>
  BY DEF Write, Commit, UpdateWrite, DashboardUpdateWrite, ApproveVisibilityWrite,
         ExportToTechniciansWrite, ApproveExportWrite, SetStatusWrite, StartWrite,
         CompleteWrite, PostponeWrite, ConfirmOperationWrite, DeleteWrite, UrgentVisitWrite
<1> SUFFICES (\E new : StoredBy(r, new)) \/ DeleteWrite(r) \/ UrgentVisitWrite(r)
  BY <1>0
<1>1. req[r].pc = "write" /\ req[r].pc # "idle"
  BY WriteEffect
<1>2. Current(r) \in Row /\ req[r].user \in Users /\ req[r].op \in AppointmentOps
  BY <1>1, InFlight DEF TypeInv
<1>3. ASSUME NEW op, NEW row \in Row, Commit(r, op, row), row.life = Current(r).life,
             row.customerId = Current(r).customerId,
             row.version = Current(r).version, op \notin {"create", "delete", "urgentVisit"}
      PROVE  \E new : StoredBy(r, new)
  BY <1>3, CommitStores
<1>4. CASE UpdateWrite(r)
  <2>1. PICK rescheduled \in BOOLEAN, shown \in BOOLEAN :
          Commit(r, "update",
            [Current(r) EXCEPT !.status = IF rescheduled THEN "RESCHEDULED" ELSE @,
                               !.visibleToScheduling = shown])
    BY <1>4 DEF UpdateWrite
  <2> DEFINE row == [Current(r) EXCEPT !.status = IF rescheduled THEN "RESCHEDULED" ELSE @,
                                       !.visibleToScheduling = shown]
  <2>2. /\ row \in Row /\ row.life = Current(r).life /\ row.customerId = Current(r).customerId
        /\ row.version = Current(r).version
    BY <1>2 DEF Row, Status
  <2>3. Commit(r, "update", row) BY <2>1
  <2> HIDE DEF row
  <2> QED BY <1>3, <2>2, <2>3 DEF Commit
<1>5. ASSUME NEW op \in {"dashboardUpdate", "status"}, NEW s \in BodyStatus,
             Commit(r, op, [Current(r) EXCEPT !.status = s])
      PROVE  \E new : StoredBy(r, new)
  <2> DEFINE row == [Current(r) EXCEPT !.status = s]
  <2>1. /\ row \in Row /\ row.life = Current(r).life /\ row.customerId = Current(r).customerId
        /\ row.version = Current(r).version
    BY <1>2, StatusAssumption DEF Row
  <2>2. Commit(r, op, row) BY <1>5
  <2> HIDE DEF row
  <2> QED BY <1>3, <2>1, <2>2
<1>6. ASSUME NEW op \in {"approveVisibility", "exportToTechnicians", "approveExport",
                         "complete", "postpone", "confirmOperation"},
             NEW row,
             Commit(r, op, row),
             \/ row = [Current(r) EXCEPT !.visibleToScheduling = TRUE, !.adminApproved = TRUE]
             \/ row = [Current(r) EXCEPT !.visibleToTechnician = FALSE, !.adminApproved = FALSE]
             \/ row = [Current(r) EXCEPT !.visibleToTechnician = TRUE, !.adminApproved = TRUE]
             \/ row = [Current(r) EXCEPT !.workStatus = "COMPLETED", !.completedAt = TRUE,
                                         !.maintenanceConfirmed = FALSE]
             \/ row = [Current(r) EXCEPT !.workStatus = "POSTPONED", !.postponements = TRUE]
             \/ row = [Current(r) EXCEPT !.maintenanceConfirmed = TRUE]
      PROVE  \E new : StoredBy(r, new)
  <2>1. /\ row \in Row /\ row.life = Current(r).life /\ row.customerId = Current(r).customerId
        /\ row.version = Current(r).version
    BY <1>2, <1>6 DEF Row, WorkStatus
  <2> QED BY <1>3, <1>6, <2>1
<1>7. CASE StartWrite(r)
  <2> DEFINE claims == req[r].row.technicianId = NoTech /\ req[r].user # "ADMIN"
             tech == IF claims THEN req[r].user ELSE Current(r).technicianId
             row == [Current(r) EXCEPT !.workStatus = "IN_PROGRESS", !.startedAt = TRUE,
                                       !.technicianId = tech]
  <2>1. req[r].op = "start" /\ Commit(r, "start", row)
    BY <1>2, <1>7 DEF StartWrite, Commit
  <2>2. tech \in Technician \cup {NoTech}
    BY <1>2, <2>1 DEF TypeInv, WorkersWork, Users, Row
  <2>3. /\ row \in Row /\ row.life = Current(r).life /\ row.customerId = Current(r).customerId
        /\ row.version = Current(r).version
    BY <1>2, <2>2 DEF Row, WorkStatus
  <2> HIDE DEF row
  <2> QED BY <1>3, <2>1, <2>3
<1>8. CASE \/ ApproveVisibilityWrite(r) \/ ExportToTechniciansWrite(r) \/ ApproveExportWrite(r)
           \/ CompleteWrite(r) \/ PostponeWrite(r) \/ ConfirmOperationWrite(r)
  BY <1>6, <1>8 DEF ApproveVisibilityWrite, ExportToTechniciansWrite, ApproveExportWrite,
                    CompleteWrite, PostponeWrite, ConfirmOperationWrite
<1> QED BY <1>4, <1>5, <1>7, <1>8 DEF Write, DashboardUpdateWrite, SetStatusWrite

\* An arrival takes an idle slot: it reads a live row, or files a free one for
\* a customer that is there from then on.
LEMMA ArrivalEffect ==
  ASSUME TypeInv, NEW r \in Req, Arrive(r)
  PROVE  /\ req[r].pc = "idle" /\ UNCHANGED <<purge, logs, sockets>>
         /\ \E a \in Appt : \E q :
              /\ req' = [req EXCEPT ![r] = q] /\ q.id = a /\ q.op \in Ops
              /\ \/ /\ UNCHANGED <<appt, customers>> /\ appt[a].life = "live"
                    /\ q.pc = "write" \/ (q.pc = "check" /\ q.op = "urgentVisit")
                 \/ /\ q.pc = "touch" /\ q.op = "create"
                    /\ appt[a].life = "free" /\ appt' = [appt EXCEPT ![a] = q.row]
                    /\ q.row.life = "live" /\ q.row.version = 1
                    /\ customers' = customers \cup {q.row.customerId}
<1> DEFINE Effect(a) ==
      /\ req[r].pc = "idle" /\ UNCHANGED <<purge, logs, sockets>>
      /\ \E q :
           /\ req' = [req EXCEPT ![r] = q] /\ q.id = a /\ q.op \in Ops
           /\ \/ /\ UNCHANGED <<appt, customers>> /\ appt[a].life = "live"
                 /\ q.pc = "write" \/ (q.pc = "check" /\ q.op = "urgentVisit")
              \/ /\ q.pc = "touch" /\ q.op = "create"
                 /\ appt[a].life = "free" /\ appt' = [appt EXCEPT ![a] = q.row]
                 /\ q.row.life = "live" /\ q.row.version = 1
                 /\ customers' = customers \cup {q.row.customerId}
<1> SUFFICES \E a \in Appt : Effect(a) OBVIOUS
<1>1. PICK a \in Appt :
        \/ \E u \in Users : \/ Create(r, u, a) \/ Update(r, u, a) \/ DashboardUpdate(r, u, a)
                            \/ SetStatus(r, u, a) \/ Start(r, u, a) \/ Complete(r, u, a)
                            \/ Postpone(r, u, a)
        \/ ApproveVisibility(r, a) \/ ExportToTechnicians(r, a) \/ ApproveExport(r, a)
        \/ ConfirmOperation(r, a) \/ Delete(r, a)
        \/ \E t \in Technician : UrgentVisit(r, t, a)
  BY DEF Arrive
<1>2. ASSUME NEW u \in Users, Create(r, u, a) PROVE Effect(a)
  <2>1. PICK urgent \in BOOLEAN, shown \in BOOLEAN, t \in Technician \cup {NoTech},
             c \in Customer : Insert(r, u, a, urgent, shown, t, c)
    BY <1>2, Zenon DEF Create
  <2> DEFINE new == NewRow(u, urgent, shown, t, c)
             q == [pc |-> "touch", op |-> "create", user |-> u, id |-> a,
                   versioned |-> FALSE, newCustomer |-> c \notin customers, row |-> new]
  <2>2. /\ req[r].pc = "idle" /\ UNCHANGED <<purge, logs, sockets>> /\ "create" \in Ops
        /\ appt[a].life = "free" /\ appt' = [appt EXCEPT ![a] = new]
        /\ customers' = customers \cup {c} /\ req' = [req EXCEPT ![r] = q]
    BY <2>1 DEF Insert
  <2>3. new.life = "live" /\ new.version = 1 /\ new.customerId = c BY DEF NewRow, Free
  <2> HIDE DEF new
  <2>4. q.id = a /\ q.op = "create" /\ q.pc = "touch" /\ q.row = new OBVIOUS
  <2> HIDE DEF q
  <2> QED BY <2>2, <2>3, <2>4
<1>3. ASSUME NEW u, NEW op, NEW versioned, Accept(r, u, op, a, versioned) PROVE Effect(a)
  <2> DEFINE q == [pc |-> "write", op |-> op, user |-> u, id |-> a, versioned |-> versioned,
                   newCustomer |-> FALSE, row |-> appt[a]]
  <2>1. /\ req[r].pc = "idle" /\ UNCHANGED <<appt, customers, purge, logs, sockets>>
        /\ op \in Ops /\ appt[a].life = "live" /\ req' = [req EXCEPT ![r] = q]
    BY <1>3 DEF Accept, tables
  <2>2. q.id = a /\ q.op = op /\ q.pc = "write" OBVIOUS
  <2> HIDE DEF q
  <2> QED BY <2>1, <2>2
<1>4. ASSUME NEW u \in Users,
             \/ Update(r, u, a) \/ DashboardUpdate(r, u, a) \/ SetStatus(r, u, a)
             \/ Start(r, u, a) \/ Complete(r, u, a) \/ Postpone(r, u, a)
      PROVE  Effect(a)
  <2>1. \E op, versioned : Accept(r, u, op, a, versioned)
    BY <1>4 DEF Update, DashboardUpdate, SetStatus, Start, Complete, Postpone
  <2> QED BY <1>3, <2>1
<1>5. ASSUME \/ ApproveVisibility(r, a) \/ ExportToTechnicians(r, a) \/ ApproveExport(r, a)
             \/ ConfirmOperation(r, a) \/ Delete(r, a)
      PROVE  Effect(a)
  <2>1. \E u, op : Accept(r, u, op, a, FALSE)
    BY <1>5 DEF ApproveVisibility, ExportToTechnicians, ApproveExport, ConfirmOperation, Delete
  <2> QED BY <1>3, <2>1
<1>6. ASSUME NEW t \in Technician, UrgentVisit(r, t, a) PROVE Effect(a)
  <2> DEFINE q == [pc |-> "check", op |-> "urgentVisit", user |-> t, id |-> a,
                   versioned |-> FALSE, newCustomer |-> FALSE, row |-> appt[a]]
  <2>1. /\ req[r].pc = "idle" /\ UNCHANGED <<appt, customers, purge, logs, sockets>>
        /\ "urgentVisit" \in Ops /\ appt[a].life = "live" /\ req' = [req EXCEPT ![r] = q]
    BY <1>6 DEF UrgentVisit, tables
  <2>2. q.id = a /\ q.op = "urgentVisit" /\ q.pc = "check" OBVIOUS
  <2> HIDE DEF q
  <2> QED BY <2>1, <2>2
<1> QED BY <1>1, <1>2, <1>4, <1>5, <1>6

-----------------------------------------------------------------------------
(* The audit log is complete.  Until its audit row is written a version is in *)
(* the hands of the request that stored it; that request is stopped on its    *)
(* way only if the customer it marks as active is gone, and then the          *)
(* appointment has lost its customer in the same transaction.                 *)

Reports(q) ==
  /\ q.pc \in {"touch", "customer", "customerEvent", "audit"}
  /\ q.op \notin {"delete", "urgentVisit"}

AuditedAt(a, v) == \E action \in {"CREATE", "UPDATE"} : <<action, a, v>> \in audit
ToReport(a, v) == \E r \in Req : Reports(req[r]) /\ req[r].id = a /\ req[r].row.version = v

\* The row of a request in flight was filed, and keeps its customer or loses it.
Traced(q, row) ==
  q.pc # "idle" =>
    /\ q.op \in Ops /\ row.life # "free"
    /\ Reports(q) => row.customerId \in {NoCustomer, q.row.customerId}

AuditInv ==
  /\ TypeInv
  /\ \A a \in Appt : appt[a].life = "live" => appt[a].customerId \in customers \cup {NoCustomer}
  /\ \A r \in Req : Traced(req[r], appt[req[r].id])
  /\ \A a \in Appt : appt[a].life = "live" /\ appt[a].customerId # NoCustomer =>
       \A v \in 1 .. appt[a].version : AuditedAt(a, v) \/ ToReport(a, v)

LEMMA AuditInvInit == Init => AuditInv
<1> SUFFICES ASSUME Init PROVE AuditInv OBVIOUS
<1>1. \A a \in Appt : appt[a] = LegacyRow \/ appt[a] = Free
  BY DEF Init
<1>2. LegacyRow.customerId = NoCustomer /\ Free.life = "free"
  BY DEF LegacyRow, Free
<1>3. \A r \in Req : Traced(req[r], appt[req[r].id])
  BY DEF Init, Idle, Traced
<1> QED BY <1>1, <1>2, <1>3, TypeInvInit DEF AuditInv

\* What the audit log, or a request, knows of a version stays known unless the
\* request that moves drops it.
LEMMA StaysKnown ==
  ASSUME TypeInv, NEW r \in Req, NEW q, req' = [req EXCEPT ![r] = q], audit \subseteq audit',
         NEW a, NEW v, AuditedAt(a, v) \/ ToReport(a, v),
         Reports(req[r]) /\ req[r].id = a /\ req[r].row.version = v =>
           (Reports(q) /\ q.id = a /\ q.row.version = v) \/ AuditedAt(a, v)'
  PROVE  AuditedAt(a, v)' \/ ToReport(a, v)'
<1>1. req \in [Req -> Request \cup {Idle}] BY DEF TypeInv, TypeOK
<1>2. CASE AuditedAt(a, v) BY <1>2 DEF AuditedAt
<1>3. ASSUME NEW s \in Req, Reports(req[s]), req[s].id = a, req[s].row.version = v
      PROVE  AuditedAt(a, v)' \/ ToReport(a, v)'
  <2>1. CASE s = r
    <3>1. req'[r] = q BY <1>1
    <3> QED BY <1>3, <2>1, <3>1 DEF ToReport
  <2>2. CASE s # r
    <3>1. req'[s] = req[s] BY <1>1, <2>2
    <3> QED BY <1>3, <3>1 DEF ToReport
  <2> QED BY <2>1, <2>2
<1> QED BY <1>2, <1>3 DEF ToReport

\* A request stays traced while its row stays filed and keeps or loses its
\* customer.
LEMMA StaysTraced ==
  ASSUME NEW q, NEW old, NEW new, Traced(q, old), old.life # "free" => new.life # "free",
         new.customerId \in {NoCustomer, old.customerId}
  PROVE  Traced(q, new)
BY DEF Traced

LEMMA ArriveKeepsAudit ==
  ASSUME AuditInv, TypeInv', NEW r \in Req, Arrive(r)
  PROVE  AuditInv'
<1> USE DEF AuditInv
<1>0. appt \in [Appt -> Row] /\ req \in [Req -> Request \cup {Idle}] BY DEF TypeInv, TypeOK
<1>1. PICK a, q :
        /\ a \in Appt
        /\ req' = [req EXCEPT ![r] = q] /\ q.id = a /\ q.op \in Ops
        /\ \/ /\ UNCHANGED <<appt, customers>> /\ appt[a].life = "live"
              /\ q.pc = "write" \/ (q.pc = "check" /\ q.op = "urgentVisit")
           \/ /\ q.pc = "touch" /\ q.op = "create"
              /\ appt[a].life = "free" /\ appt' = [appt EXCEPT ![a] = q.row]
              /\ q.row.life = "live" /\ q.row.version = 1
              /\ customers' = customers \cup {q.row.customerId}
  BY ArrivalEffect
<1>2. req[r].pc = "idle" /\ UNCHANGED audit
  BY ArrivalEffect DEF logs
<1>3. ASSUME NEW b, NEW v, AuditedAt(b, v) \/ ToReport(b, v)
      PROVE  AuditedAt(b, v)' \/ ToReport(b, v)'
  BY <1>1, <1>2, <1>3, StaysKnown DEF Reports
<1>4. CASE UNCHANGED <<appt, customers>> /\ appt[a].life = "live" /\ q.pc \in {"write", "check"}
  <2>1. ASSUME NEW s \in Req PROVE Traced(req'[s], appt'[req'[s].id])
    <3>1. CASE s = r
      <4>1. req'[s] = q BY <1>0, <1>1, <3>1
      <4> QED BY <1>1, <1>4, <4>1 DEF Traced, Reports
    <3>2. CASE s # r
      <4>1. req'[s] = req[s] BY <1>0, <1>1, <3>2
      <4> QED BY <1>4, <4>1
    <3> QED BY <3>1, <3>2
  <2> QED BY <1>3, <1>4, <2>1
<1>5. CASE /\ q.pc = "touch" /\ q.op = "create"
           /\ appt[a].life = "free" /\ appt' = [appt EXCEPT ![a] = q.row]
           /\ q.row.life = "live" /\ q.row.version = 1
           /\ customers' = customers \cup {q.row.customerId}
  <2>1. appt'[a] = q.row /\ req'[r] = q BY <1>0, <1>1, <1>5
  <2>2. \A b \in Appt : b # a => appt'[b] = appt[b] BY <1>0, <1>5
  <2>3. ASSUME NEW s \in Req PROVE Traced(req'[s], appt'[req'[s].id])
    <3>1. CASE s = r BY <1>1, <1>5, <2>1, <3>1 DEF Traced, Reports
    <3>2. CASE s # r
      <4>1. req'[s] = req[s] /\ Traced(req[s], appt[req[s].id]) BY <1>0, <1>1, <3>2
      <4>2. CASE req[s].pc = "idle" BY <4>1, <4>2 DEF Traced
      <4>3. CASE req[s].pc # "idle"
        <5>1. req[s].id \in Appt BY <4>3, InFlight DEF TypeInv
        <5>2. req[s].id # a BY <1>5, <4>1, <4>3 DEF Traced
        <5> QED BY <2>2, <4>1, <5>1, <5>2
      <4> QED BY <4>2, <4>3
    <3> QED BY <3>1, <3>2
  <2>4. ASSUME NEW b \in Appt, appt'[b].life = "live"
        PROVE  appt'[b].customerId \in customers' \cup {NoCustomer}
    BY <1>5, <2>1, <2>2, <2>4
  <2>5. ASSUME NEW b \in Appt, appt'[b].life = "live", appt'[b].customerId # NoCustomer,
               NEW v \in 1 .. appt'[b].version
        PROVE  AuditedAt(b, v)' \/ ToReport(b, v)'
    <3>1. CASE b = a
      <4>1. v = 1 BY <1>5, <2>1, <2>5, <3>1
      <4> QED BY <1>1, <1>5, <2>1, <3>1, <4>1 DEF ToReport, Reports
    <3>2. CASE b # a BY <1>3, <2>2, <2>5, <3>2
    <3> QED BY <3>1, <3>2
  <2> QED BY <2>3, <2>4, <2>5
<1> QED BY <1>1, <1>4, <1>5

LEMMA WriteKeepsAudit ==
  ASSUME AuditInv, TypeInv', Ops \cap {"approveVisibility", "dashboardUpdate"} = {},
         NEW r \in Req, Write(r)
  PROVE  AuditInv'
<1> USE DEF AuditInv
<1> DEFINE id == req[r].id
<1>0. appt \in [Appt -> Row] /\ req \in [Req -> Request \cup {Idle}] BY DEF TypeInv, TypeOK
<1>1. /\ req[r].pc = "write" /\ id \in Appt /\ appt[id].life = "live"
      /\ req[r] \in Request /\ appt[id] \in Row /\ Current(r) = appt[id]
  <2>1. req[r].pc = "write" /\ id \in Appt /\ appt[id].life = "live" BY WriteEffect
  <2> QED BY <1>0, <2>1, InFlight DEF Current, TypeInv
<1>2. req[r].op \in Ops /\ ~Reports(req[r]) BY <1>1 DEF Traced, Reports
<1>3. UNCHANGED <<customers, audit>> BY WriteStores DEF logs
<1>4. PICK q, new :
        /\ req' = [req EXCEPT ![r] = q] /\ appt' = [appt EXCEPT ![id] = new]
        /\ q.id = id /\ q.op = req[r].op /\ q.pc # "idle"
        /\ new.life # "free" /\ new.customerId = appt[id].customerId
        /\ Reports(q) => q.row.customerId = new.customerId
        /\ \/ new.life = "deleted"
           \/ new.version = appt[id].version
           \/ /\ new.version = appt[id].version + 1
              /\ new.customerId # NoCustomer => Reports(q) /\ q.row.version = new.version
  <2>1. ASSUME NEW new, StoredBy(r, new)
        PROVE  \E q :
          /\ req' = [req EXCEPT ![r] = q] /\ appt' = [appt EXCEPT ![id] = new]
          /\ q.id = id /\ q.op = req[r].op /\ q.pc # "idle"
          /\ new.life # "free" /\ new.customerId = appt[id].customerId
          /\ Reports(q) => q.row.customerId = new.customerId
          /\ new.version = appt[id].version + 1
          /\ new.customerId # NoCustomer => Reports(q) /\ q.row.version = new.version
    <3>1. PICK q \in Request : /\ req' = [req EXCEPT ![r] = q]
                               /\ q.pc = AfterWrite(req[r].op, new) /\ q.op = req[r].op
                               /\ q.id = req[r].id /\ q.row = new
      BY <2>1 DEF StoredBy
    <3>2. req[r].op \in Audited \ {"delete", "urgentVisit"}
      BY <1>1, <1>2, <2>1 DEF Audited, StoredBy, Request
    <3>3. q.pc # "idle" /\ (new.customerId # NoCustomer => Reports(q))
      BY <3>1, <3>2 DEF AfterWrite, Reports
    <3>4. new.life # "free" /\ new.customerId = appt[id].customerId
          /\ new.version = appt[id].version + 1 /\ appt' = [appt EXCEPT ![id] = new]
      BY <1>1, <2>1 DEF StoredBy
    <3> QED BY <3>1, <3>3, <3>4
  <2>2. CASE DeleteWrite(r)
    <3> DEFINE q == [req[r] EXCEPT !.pc = "audit"]
               new == [appt[id] EXCEPT !.life = "deleted"]
    <3>1. req' = [req EXCEPT ![r] = q] /\ appt' = [appt EXCEPT ![id] = new] /\ req[r].op = "delete"
      BY <1>0, <1>1, <2>2 DEF DeleteWrite
    <3>2. q.id = id /\ q.op = "delete" /\ q.pc = "audit" /\ ~Reports(q)
      BY <1>1, <3>1 DEF Request, Reports
    <3>3. new.life = "deleted" /\ new.customerId = appt[id].customerId BY <1>1 DEF Row
    <3> HIDE DEF q, new, id
    <3> QED BY <3>1, <3>2, <3>3
  <2>3. CASE UrgentVisitWrite(r)
    <3> DEFINE q == [req[r] EXCEPT !.pc = "audit"]
               new == [appt[id] EXCEPT !.urgentVisitRecord = TRUE]
    <3>1. /\ req' = [req EXCEPT ![r] = q] /\ appt' = [appt EXCEPT ![id] = new]
          /\ req[r].op = "urgentVisit"
      BY <1>0, <1>1, <2>3 DEF UrgentVisitWrite
    <3>2. q.id = id /\ q.op = "urgentVisit" /\ q.pc = "audit" /\ ~Reports(q)
      BY <1>1, <3>1 DEF Request, Reports
    <3>3. new.life = "live" /\ new.customerId = appt[id].customerId /\ new.version = appt[id].version
      BY <1>1 DEF Row
    <3> HIDE DEF q, new, id
    <3> QED BY <3>1, <3>2, <3>3
  <2> QED BY <2>1, <2>2, <2>3, WriteStores
<1> HIDE DEF id
<1>5. appt'[id] = new /\ req'[r] = q BY <1>0, <1>1, <1>4
<1>6. \A b \in Appt : b # id => appt'[b] = appt[b] BY <1>0, <1>4
<1>7. ASSUME NEW b, NEW v, AuditedAt(b, v) \/ ToReport(b, v)
      PROVE  AuditedAt(b, v)' \/ ToReport(b, v)'
  BY <1>2, <1>3, <1>4, <1>7, StaysKnown
<1>8. ASSUME NEW s \in Req PROVE Traced(req'[s], appt'[req'[s].id])
  <2>1. CASE s = r BY <1>2, <1>4, <1>5, <2>1 DEF Traced
  <2>2. CASE s # r
    <3>1. req'[s] = req[s] /\ Traced(req[s], appt[req[s].id]) BY <1>0, <1>4, <2>2
    <3>2. CASE req[s].pc = "idle" BY <3>1, <3>2 DEF Traced
    <3>3. CASE req[s].pc # "idle"
      <4>1. req[s].id \in Appt BY <3>3, InFlight DEF TypeInv
      <4>2. CASE req[s].id = id BY <1>4, <1>5, <3>1, <4>2, StaysTraced
      <4>3. CASE req[s].id # id BY <1>6, <3>1, <4>1, <4>3
      <4> QED BY <4>2, <4>3
    <3> QED BY <3>2, <3>3
  <2> QED BY <2>1, <2>2
<1>9. ASSUME NEW b \in Appt, appt'[b].life = "live"
      PROVE  appt'[b].customerId \in customers' \cup {NoCustomer}
  BY <1>1, <1>3, <1>4, <1>5, <1>6, <1>9
<1>10. ASSUME NEW b \in Appt, appt'[b].life = "live", appt'[b].customerId # NoCustomer,
              NEW v \in 1 .. appt'[b].version
       PROVE  AuditedAt(b, v)' \/ ToReport(b, v)'
  <2>1. CASE b = id
    <3>1. CASE v \in 1 .. appt[id].version
      <4>1. appt[id].customerId # NoCustomer BY <1>4, <1>5, <1>10, <2>1
      <4> QED BY <1>1, <1>7, <2>1, <3>1, <4>1
    <3>2. CASE v \notin 1 .. appt[id].version
      <4>1. appt[id].version \in Nat BY <1>1 DEF Row
      <4>2. v = new.version /\ new.version = appt[id].version + 1
        BY <1>4, <1>5, <1>10, <2>1, <3>2, <4>1
      <4>3. Reports(q) /\ q.row.version = v /\ q.id = b
        BY <1>4, <1>5, <1>10, <2>1, <4>1, <4>2
      <4> QED BY <1>5, <4>3 DEF ToReport
    <3> QED BY <3>1, <3>2
  <2>2. CASE b # id BY <1>6, <1>7, <1>10, <2>2
  <2> QED BY <2>1, <2>2
<1> QED BY <1>8, <1>9, <1>10

\* Of the other steps of a request only two end a report: the audit row that is
\* written, and the customer that is gone.
LEMMA ServeKeepsAudit ==
  ASSUME AuditInv, TypeInv', NEW r \in Req,
         \/ UrgentVisitCheck(r) \/ WriteFails(r) \/ TouchCustomer(r) \/ AuditNewCustomer(r)
         \/ LogNewCustomer(r) \/ WriteAudit(r) \/ EmitEvent(r) \/ Emit(r)
  PROVE  AuditInv'
<1> USE DEF AuditInv
<1>0. appt \in [Appt -> Row] /\ req \in [Req -> Request \cup {Idle}] BY DEF TypeInv, TypeOK
<1>1. /\ req[r].pc # "idle" /\ UNCHANGED <<appt, customers>> /\ audit \subseteq audit'
  BY DEF UrgentVisitCheck, WriteFails, TouchCustomer, AuditNewCustomer, LogNewCustomer, WriteAudit,
         EmitEvent, Emit, tables, logs
<1>2. req[r] \in Request /\ req[r].id \in Appt BY <1>1, InFlight DEF TypeInv
<1>3. PICK q : /\ req' = [req EXCEPT ![r] = q]
               /\ q = Idle \/ \E pc : q = [req[r] EXCEPT !.pc = pc] /\ pc # "idle"
               /\ Reports(q) => Reports(req[r])
  <2>1. CASE req' = [req EXCEPT ![r] = Idle]
    <3>1. ~Reports(Idle) BY DEF Reports, Idle
    <3> QED BY <2>1, <3>1
  <2>2. ASSUME NEW pc, req' = [req EXCEPT ![r].pc = pc], pc # "idle",
               \/ pc \notin {"touch", "customer", "customerEvent", "audit"}
               \/ req[r].pc \in {"touch", "customer", "customerEvent"}
        PROVE  \E q : /\ req' = [req EXCEPT ![r] = q]
                      /\ q = Idle \/ \E p : q = [req[r] EXCEPT !.pc = p] /\ p # "idle"
                      /\ Reports(q) => Reports(req[r])
    <3> DEFINE q == [req[r] EXCEPT !.pc = pc]
    <3>1. req' = [req EXCEPT ![r] = q] BY <1>0, <2>2
    <3>2. q.pc = pc /\ q.op = req[r].op BY <1>2 DEF Request
    <3>3. Reports(q) => Reports(req[r]) BY <2>2, <3>2 DEF Reports
    <3> QED BY <2>2, <3>1, <3>3
  <2>3. \/ req' = [req EXCEPT ![r] = Idle]
        \/ \E pc : /\ req' = [req EXCEPT ![r].pc = pc] /\ pc # "idle"
                   /\ \/ pc \notin {"touch", "customer", "customerEvent", "audit"}
                      \/ req[r].pc \in {"touch", "customer", "customerEvent"}
    BY DEF UrgentVisitCheck, WriteFails, TouchCustomer, AuditNewCustomer, LogNewCustomer, WriteAudit,
           EmitEvent, Emit, AfterTouch
  <2> QED BY <2>1, <2>2, <2>3
<1>4. q = Idle \/ (q.op = req[r].op /\ q.id = req[r].id /\ q.row = req[r].row)
  BY <1>2, <1>3 DEF Request
<1>5. ASSUME NEW s \in Req PROVE Traced(req'[s], appt'[req'[s].id])
  <2>1. CASE s = r
    <3>1. req'[s] = q BY <1>0, <1>3, <2>1
    <3>2. Traced(req[r], appt[req[r].id]) OBVIOUS
    <3> QED BY <1>1, <1>3, <1>4, <3>1, <3>2 DEF Traced, Idle
  <2>2. CASE s # r BY <1>0, <1>1, <1>3, <2>2
  <2> QED BY <2>1, <2>2
<1>6. ASSUME NEW b \in Appt, appt[b].life = "live", appt[b].customerId # NoCustomer,
             NEW v \in 1 .. appt[b].version
      PROVE  AuditedAt(b, v)' \/ ToReport(b, v)'
  <2>1. AuditedAt(b, v) \/ ToReport(b, v) BY <1>6
  <2>2. SUFFICES ASSUME Reports(req[r]), req[r].id = b, req[r].row.version = v
                 PROVE  (Reports(q) /\ q.id = b /\ q.row.version = v) \/ AuditedAt(b, v)'
    BY <1>1, <1>3, <2>1, StaysKnown
  <2>3. req[r].row.customerId \in customers
    <3>1. Traced(req[r], appt[b]) BY <2>2
    <3> QED BY <1>1, <1>6, <2>2, <3>1 DEF Traced
  <2>4. CASE WriteAudit(r)
    <3>1. req[r].op \notin {"delete", "urgentVisit"} BY <2>2 DEF Reports
    <3>2. AuditAction(req[r].op) \in {"CREATE", "UPDATE"} BY <3>1 DEF AuditAction
    <3>3. <<AuditAction(req[r].op), b, v>> \in audit'
      BY <2>2, <2>4, <3>1 DEF WriteAudit
    <3> QED BY <3>2, <3>3 DEF AuditedAt
  <2>5. ASSUME NEW pc \in {"customer", "customerEvent", "audit"}, req' = [req EXCEPT ![r].pc = pc]
        PROVE  Reports(q) /\ q.id = b /\ q.row.version = v
    <3>1. q = [req[r] EXCEPT !.pc = pc] BY <1>0, <1>3, <2>5
    <3>2. q.pc = pc /\ q.op = req[r].op /\ q.id = req[r].id /\ q.row = req[r].row
      BY <1>2, <3>1 DEF Request
    <3> QED BY <2>2, <2>5, <3>2 DEF Reports
  <2>6. CASE TouchCustomer(r) \/ AuditNewCustomer(r) \/ LogNewCustomer(r)
    <3>1. \E pc \in {"customer", "customerEvent", "audit"} : req' = [req EXCEPT ![r].pc = pc]
      BY <2>3, <2>6 DEF TouchCustomer, AuditNewCustomer, LogNewCustomer, AfterTouch
    <3> QED BY <2>5, <3>1
  <2>7. ~(UrgentVisitCheck(r) \/ WriteFails(r) \/ EmitEvent(r) \/ Emit(r))
    BY <2>2 DEF UrgentVisitCheck, WriteFails, EmitEvent, Emit, Reports
  <2> QED BY <2>4, <2>6, <2>7
<1> QED BY <1>1, <1>5, <1>6

\* The transaction that removes a customer takes it off its appointments.
LEMMA PurgeKeepsAudit ==
  ASSUME AuditInv, TypeInv',
         (\E c \in Customer : PurgeRead(c)) \/ PurgeAll \/ ServePurge
  PROVE  AuditInv'
<1> USE DEF AuditInv
<1>1. UNCHANGED req /\ audit \subseteq audit'
  BY DEF PurgeRead, PurgeAll, ServePurge, PurgeCommit, PurgeAudit, PurgeEvent, PurgeEmit, logs
<1>2. \A a \in Appt : Purged(a) BY PurgeEffect
<1>3. ASSUME NEW a \in Appt
      PROVE  /\ appt[a].life # "free" => appt'[a].life # "free"
             /\ appt'[a].customerId \in {NoCustomer, appt[a].customerId}
             /\ appt'[a].version = appt[a].version
             /\ appt'[a].life = "live" => appt[a].life = "live"
  <2>1. Purged(a) /\ appt[a] \in Row BY <1>2 DEF TypeInv, TypeOK
  <2> QED BY <2>1 DEF Purged, Row
<1>4. ASSUME NEW s \in Req PROVE Traced(req'[s], appt'[req'[s].id])
  <2>1. CASE req[s].pc = "idle" BY <1>1, <2>1 DEF Traced
  <2>2. CASE req[s].pc # "idle"
    <3>1. req[s].id \in Appt BY <2>2, InFlight DEF TypeInv
    <3>2. Traced(req[s], appt[req[s].id]) OBVIOUS
    <3>3. Traced(req[s], appt'[req[s].id]) BY <1>3, <3>1, <3>2, StaysTraced
    <3> QED BY <1>1, <3>3
  <2> QED BY <2>1, <2>2
<1>5. ASSUME NEW as, NEW cs, appt' = Without(as, cs), customers' = customers \ cs,
             NEW a \in Appt, appt'[a].life = "live"
      PROVE  appt'[a].customerId \in customers' \cup {NoCustomer}
  <2>1. appt[a] \in Row BY DEF TypeInv, TypeOK
  <2>2. a \notin as BY <1>5, <2>1 DEF Without, Row
  <2>3. appt[a].life = "live" /\ appt[a].customerId \in customers \cup {NoCustomer} BY <1>3, <1>5
  <2>4. CASE appt[a].customerId \in cs
    <3>1. appt'[a] = [appt[a] EXCEPT !.customerId = NoCustomer]
      BY <1>5, <2>2, <2>3, <2>4 DEF Without
    <3> QED BY <2>1, <3>1 DEF Row
  <2>5. CASE appt[a].customerId \notin cs
    <3>1. appt'[a] = appt[a] BY <1>5, <2>2, <2>3, <2>5 DEF Without
    <3> QED BY <1>5, <2>3, <2>5, <3>1
  <2> QED BY <2>4, <2>5
<1>6. ASSUME NEW a \in Appt, appt'[a].life = "live"
      PROVE  appt'[a].customerId \in customers' \cup {NoCustomer}
  <2>1. CASE PurgeCommit BY <1>5, <1>6, <2>1 DEF PurgeCommit
  <2>2. CASE PurgeAll
    <3>1. appt' = Without({}, customers) /\ customers' = customers \ customers
      BY <2>2 DEF PurgeAll
    <3> QED BY <1>5, <1>6, <3>1
  <2>3. CASE UNCHANGED tables BY <1>6, <2>3 DEF tables
  <2>4. PurgeCommit \/ PurgeAll \/ UNCHANGED tables
    BY DEF PurgeRead, ServePurge, PurgeAudit, PurgeEvent, PurgeEmit
  <2> QED BY <2>1, <2>2, <2>3, <2>4
<1>7. ASSUME NEW a \in Appt, appt'[a].life = "live", appt'[a].customerId # NoCustomer,
             NEW v \in 1 .. appt'[a].version
      PROVE  AuditedAt(a, v)' \/ ToReport(a, v)'
  <2>1. AuditedAt(a, v) \/ ToReport(a, v) BY <1>3, <1>7
  <2> QED BY <1>1, <2>1 DEF AuditedAt, ToReport
<1> QED BY <1>4, <1>6, <1>7

\* Without crashes, and without the endpoints that write no audit row, no
\* version of an appointment whose customer exists goes unrecorded once the
\* requests are done (writeAudit after every write).
THEOREM AuditIsComplete ==
  ~MayCrash /\ Ops \cap {"approveVisibility", "dashboardUpdate"} = {}
    => (Spec => []AuditComplete)
<1> SUFFICES ASSUME ~MayCrash, Ops \cap {"approveVisibility", "dashboardUpdate"} = {}
             PROVE  Spec => []AuditComplete
  OBVIOUS
<1>1. ASSUME AuditInv, [Next]_vars PROVE AuditInv'
  <2>1. TypeInv' BY <1>1, TypeInvNext DEF AuditInv
  <2>2. CASE UNCHANGED vars
    BY <1>1, <2>1, <2>2 DEF vars, AuditInv, AuditedAt, ToReport
  <2>3. CASE Next
    <3>1. CASE \E r \in Req : Arrive(r) BY <1>1, <2>1, <3>1, ArriveKeepsAudit
    <3>2. CASE \E r \in Req : Write(r) BY <1>1, <2>1, <3>2, WriteKeepsAudit
    <3>3. ASSUME NEW r \in Req, Serve(r), ~Write(r) PROVE AuditInv'
      BY <1>1, <2>1, <3>3, ServeKeepsAudit DEF Serve
    <3>4. CASE (\E c \in Customer : PurgeRead(c)) \/ PurgeAll \/ ServePurge
      BY <1>1, <2>1, <3>4, PurgeKeepsAudit
    <3>5. ~Crash BY DEF Crash
    <3> QED BY <2>3, <3>1, <3>2, <3>3, <3>4, <3>5 DEF Next
  <2> QED BY <1>1, <2>2, <2>3
<1>2. AuditInv => AuditComplete
  BY DEF AuditInv, AuditComplete, AtRest, ToReport, AuditedAt, Reports
<1>3. Spec => []AuditInv BY <1>1, AuditInvInit, PTL DEF Spec
<1> QED BY <1>2, <1>3, PTL

-----------------------------------------------------------------------------
(* Deletions and their news.  A deleted row stays deleted, so a list drawn up *)
(* before a deletion is still right when it is announced.                     *)

LEMMA Deletions ==
  ASSUME TypeInv, [Next]_vars, NEW a \in Appt
  PROVE  /\ appt[a].life = "deleted" => appt'[a].life = "deleted"
         /\ appt[a].life # "free" => appt'[a].life # "free"
         /\ appt'[a].life = "deleted" =>
              \/ appt[a].life = "deleted"
              \/ \E r \in Req : DeleteWrite(r) /\ req[r].id = a
              \/ PurgeCommit /\ a \in purge.cards
<1>0. appt \in [Appt -> Row] BY DEF TypeInv, TypeOK
<1>1. CASE UNCHANGED appt BY <1>1
<1>2. ASSUME NEW r \in Req, Arrive(r), appt' # appt
      PROVE  (appt'[a].life = "live" /\ appt[a].life = "free") \/ appt'[a] = appt[a]
  <2>1. PICK b, q : /\ b \in Appt /\ appt[b].life = "free"
                    /\ appt' = [appt EXCEPT ![b] = q.row] /\ q.row.life = "live"
    BY <1>2, ArrivalEffect
  <2> QED BY <1>0, <2>1
<1>3. ASSUME NEW r \in Req, Write(r)
      PROVE  \/ appt'[a] = appt[a]
             \/ appt[a].life = "live" /\ appt'[a].life = "live"
             \/ appt[a].life = "live" /\ DeleteWrite(r) /\ req[r].id = a /\ appt'[a].life = "deleted"
  <2>1. req[r].pc # "idle" /\ req[r].id \in Appt /\ appt[req[r].id].life = "live"
    BY <1>3, WriteEffect
  <2>2. ASSUME NEW new, StoredBy(r, new)
        PROVE  appt'[a] = appt[a] \/ (appt[a].life = "live" /\ appt'[a].life = "live")
    BY <1>0, <2>1, <2>2 DEF StoredBy
  <2>3. CASE DeleteWrite(r) BY <1>0, <2>1, <2>3 DEF DeleteWrite, Row
  <2>4. CASE UrgentVisitWrite(r) BY <1>0, <2>1, <2>4 DEF UrgentVisitWrite, Row
  <2> QED BY <1>3, <2>2, <2>3, <2>4, WriteStores
<1>4. CASE (\E c \in Customer : PurgeRead(c)) \/ PurgeAll \/ ServePurge \/ Crash
  <2>1. Purged(a) BY <1>4, PurgeEffect
  <2>2. CASE PurgeCommit
    <3>1. a \notin purge.cards => appt'[a].life = appt[a].life
      BY <1>0, <2>2 DEF PurgeCommit, Without, Row
    <3> QED BY <1>0, <2>1, <2>2, <3>1 DEF Purged, Row
  <2>3. CASE PurgeAll
    <3>1. appt'[a].life = appt[a].life BY <1>0, <2>3 DEF PurgeAll, Without, Row
    <3> QED BY <3>1
  <2>4. CASE UNCHANGED appt BY <2>4
  <2>5. PurgeCommit \/ PurgeAll \/ UNCHANGED appt
    BY <1>4 DEF PurgeRead, ServePurge, PurgeAudit, PurgeEvent, PurgeEmit, Crash, tables
  <2> QED BY <2>2, <2>3, <2>4, <2>5
<1>5. ASSUME NEW r \in Req, Serve(r), ~Write(r) PROVE UNCHANGED appt
  BY <1>5, ServeEffect
<1> QED BY <1>1, <1>2, <1>3, <1>4, <1>5 DEF Next, Serve, vars

\* A deletion is announced by a handler that has deleted its row.
DeletedFirst(q, row) ==
  q.pc # "idle" =>
    /\ row.life # "free"
    /\ q.op = "delete" => \/ q.pc = "write"
                          \/ q.pc \in {"audit", "emit"} /\ row.life = "deleted"

NewsInv ==
  /\ TypeInv
  /\ DeletionNewsIsTrue
  /\ \A r \in Req : DeletedFirst(req[r], appt[req[r].id])
  /\ purge.pc \in {"audit", "event", "emit"} => \A a \in purge.cards : appt[a].life = "deleted"

LEMMA NewsInvInit == Init => NewsInv
BY TypeInvInit DEF Init, NewsInv, DeletionNewsIsTrue, DeletedFirst, Idle, NoPurge

\* A request that moves alone keeps the invariant if its own part holds.
LEMMA NewsKept ==
  ASSUME NewsInv, TypeInv', [Next]_vars, NEW r \in Req, NEW q, req' = [req EXCEPT ![r] = q],
         UNCHANGED purge, q.pc # "idle" => q.id \in Appt, DeletedFirst(q, appt'[q.id]),
         gone' = gone \/ (gone' = gone \cup {req[r].id} /\ appt[req[r].id].life = "deleted")
  PROVE  NewsInv'
<1> USE DEF NewsInv
<1>1. req \in [Req -> Request \cup {Idle}] /\ gone \subseteq Appt /\ purge \in Purge
      /\ gone' \subseteq Appt
  BY DEF TypeInv, TypeOK
<1>2. ASSUME NEW s \in Req PROVE DeletedFirst(req'[s], appt'[req'[s].id])
  <2>1. CASE s = r BY <1>1, <2>1
  <2>2. CASE s # r
    <3>1. req'[s] = req[s] /\ DeletedFirst(req[s], appt[req[s].id]) BY <1>1, <2>2
    <3>2. CASE req[s].pc = "idle" BY <3>1, <3>2 DEF DeletedFirst
    <3>3. CASE req[s].pc # "idle"
      <4>1. req[s].id \in Appt BY <3>3, InFlight DEF TypeInv
      <4> QED BY <3>1, <4>1, Deletions DEF DeletedFirst
    <3> QED BY <3>2, <3>3
  <2> QED BY <2>1, <2>2
<1>3. DeletionNewsIsTrue' BY <1>1, Deletions DEF DeletionNewsIsTrue
<1>4. purge'.pc \in {"audit", "event", "emit"} => \A a \in purge'.cards : appt'[a].life = "deleted"
  BY <1>1, Deletions DEF Purge
<1> QED BY <1>2, <1>3, <1>4

LEMMA NewsInvNext ==
  ASSUME "deleteAllCustomers" \notin Ops
  PROVE  NewsInv /\ [Next]_vars => NewsInv'
<1> SUFFICES ASSUME NewsInv, [Next]_vars PROVE NewsInv' OBVIOUS
<1> USE DEF NewsInv
<1>0. /\ TypeInv' /\ appt \in [Appt -> Row] /\ req \in [Req -> Request \cup {Idle}]
      /\ purge \in Purge
  BY TypeInvNext DEF TypeInv, TypeOK
<1>1. CASE UNCHANGED vars BY <1>0, <1>1 DEF vars, DeletionNewsIsTrue
<1>2. ASSUME NEW r \in Req, Arrive(r) PROVE NewsInv'
  <2>1. PICK a, q :
          /\ a \in Appt
          /\ req' = [req EXCEPT ![r] = q] /\ q.id = a
          /\ \/ /\ UNCHANGED appt /\ appt[a].life = "live"
                /\ q.pc = "write" \/ (q.pc = "check" /\ q.op = "urgentVisit")
             \/ /\ q.pc = "touch" /\ q.op = "create"
                /\ appt' = [appt EXCEPT ![a] = q.row] /\ q.row.life = "live"
    BY <1>2, ArrivalEffect
  <2>2. UNCHANGED purge /\ gone' = gone BY <1>2, ArrivalEffect DEF sockets
  <2>3. appt'[a].life = "live" BY <1>0, <2>1
  <2>4. DeletedFirst(q, appt'[q.id]) BY <2>1, <2>3 DEF DeletedFirst
  <2> QED BY <1>0, <2>1, <2>2, <2>4, NewsKept
<1>3. ASSUME NEW r \in Req, Write(r) PROVE NewsInv'
  <2>1. /\ req[r].pc # "idle" /\ req[r].id \in Appt /\ appt[req[r].id].life = "live"
        /\ req[r] \in Request
    BY <1>3, WriteEffect, InFlight DEF TypeInv
  <2>2. UNCHANGED purge /\ gone' = gone BY <1>3, WriteStores DEF sockets
  <2>3. ASSUME NEW new, StoredBy(r, new)
        PROVE  \E q : req' = [req EXCEPT ![r] = q] /\ q.id \in Appt /\ DeletedFirst(q, appt'[q.id])
    <3>1. PICK q : /\ req' = [req EXCEPT ![r] = q] /\ q.op = req[r].op /\ q.id = req[r].id
      BY <2>3 DEF StoredBy
    <3>2. q.op # "delete" /\ appt'[q.id].life = "live" BY <1>0, <2>1, <2>3, <3>1 DEF StoredBy
    <3> QED BY <2>1, <3>1, <3>2 DEF DeletedFirst
  <2>4. CASE DeleteWrite(r) \/ UrgentVisitWrite(r)
    <3> DEFINE q == [req[r] EXCEPT !.pc = "audit"]
    <3>1. req' = [req EXCEPT ![r] = q] BY <1>0, <2>4 DEF DeleteWrite, UrgentVisitWrite
    <3>2. q.id = req[r].id /\ q.op = req[r].op /\ q.pc = "audit" BY <2>1 DEF Request
    <3>3. CASE DeleteWrite(r)
      <4>1. appt'[q.id].life = "deleted" BY <1>0, <2>1, <3>2, <3>3 DEF DeleteWrite, Row
      <4>2. DeletedFirst(q, appt'[q.id]) BY <3>2, <4>1 DEF DeletedFirst
      <4> QED BY <1>0, <2>1, <2>2, <3>1, <3>2, <4>2, NewsKept
    <3>4. CASE UrgentVisitWrite(r)
      <4>1. appt'[q.id].life # "free" BY <2>1, <3>2, Deletions
      <4>2. q.op = "urgentVisit" BY <3>2, <3>4 DEF UrgentVisitWrite
      <4>3. DeletedFirst(q, appt'[q.id]) BY <4>1, <4>2 DEF DeletedFirst
      <4> QED BY <1>0, <2>1, <2>2, <3>1, <3>2, <4>3, NewsKept
    <3> QED BY <2>4, <3>3, <3>4
  <2> QED BY <1>0, <1>3, <2>2, <2>3, <2>4, NewsKept, WriteStores
<1>4. ASSUME NEW r \in Req,
             \/ UrgentVisitCheck(r) \/ WriteFails(r) \/ TouchCustomer(r) \/ AuditNewCustomer(r)
             \/ LogNewCustomer(r) \/ WriteAudit(r) \/ EmitEvent(r) \/ Emit(r)
      PROVE  NewsInv'
  <2>1. req[r].pc # "idle" /\ UNCHANGED <<appt, purge>>
    BY <1>4 DEF UrgentVisitCheck, WriteFails, TouchCustomer, AuditNewCustomer, LogNewCustomer,
                WriteAudit, EmitEvent, Emit, tables
  <2>2. req[r] \in Request /\ req[r].id \in Appt BY <2>1, InFlight DEF TypeInv
  <2>3. DeletedFirst(req[r], appt[req[r].id]) OBVIOUS
  <2>4. gone' = gone \/ (gone' = gone \cup {req[r].id} /\ appt[req[r].id].life = "deleted")
    <3>1. CASE Emit(r) BY <2>1, <2>3, <3>1 DEF Emit, News, DeletedFirst
    <3>2. Emit(r) \/ gone' = gone
      BY <1>4 DEF UrgentVisitCheck, WriteFails, TouchCustomer, AuditNewCustomer, LogNewCustomer,
                  WriteAudit, EmitEvent, sockets
    <3> QED BY <3>1, <3>2
  <2>5. CASE req' = [req EXCEPT ![r] = Idle]
    <3>1. Idle.pc = "idle" BY DEF Idle
    <3> QED BY <1>0, <2>1, <2>4, <2>5, <3>1, NewsKept DEF DeletedFirst
  <2>6. ASSUME NEW pc, req' = [req EXCEPT ![r].pc = pc],
               req[r].op = "delete" => req[r].pc = "audit" /\ pc = "emit"
        PROVE  NewsInv'
    <3> DEFINE q == [req[r] EXCEPT !.pc = pc]
    <3>1. req' = [req EXCEPT ![r] = q] BY <1>0, <2>6
    <3>2. q.pc = pc /\ q.op = req[r].op /\ q.id = req[r].id BY <2>2 DEF Request
    <3> HIDE DEF q
    <3>3. DeletedFirst(q, appt'[q.id]) BY <2>1, <2>3, <2>6, <3>2 DEF DeletedFirst
    <3> QED BY <1>0, <2>1, <2>2, <2>4, <3>1, <3>2, <3>3, NewsKept
  <2>7. \/ req' = [req EXCEPT ![r] = Idle]
        \/ \E pc : /\ req' = [req EXCEPT ![r].pc = pc]
                   /\ req[r].op = "delete" => req[r].pc = "audit" /\ pc = "emit"
    BY <1>4, <2>1, <2>3 DEF UrgentVisitCheck, WriteFails, TouchCustomer, AuditNewCustomer,
         LogNewCustomer, WriteAudit, EmitEvent, Emit, AfterTouch, DeletedFirst, Logged
  <2> QED BY <2>5, <2>6, <2>7
<1>5. CASE (\E c \in Customer : PurgeRead(c)) \/ PurgeAll \/ ServePurge \/ Crash
  <2>1. req' = req \/ req' = [r \in Req |-> Idle] BY <1>5, PurgeEffect
  <2>2. ASSUME NEW s \in Req PROVE DeletedFirst(req'[s], appt'[req'[s].id])
    <3>1. CASE req'[s].pc = "idle" BY <3>1 DEF DeletedFirst
    <3>2. CASE req'[s].pc # "idle"
      <4>1. req'[s] = req[s] BY <2>1, <3>2 DEF Idle
      <4>2. req[s].id \in Appt BY <3>2, <4>1, InFlight DEF TypeInv
      <4> QED BY <4>1, <4>2, Deletions DEF DeletedFirst
    <3> QED BY <3>1, <3>2
  <2>3. ~PurgeAll BY DEF PurgeAll
  <2>4. purge'.pc \in {"audit", "event", "emit"} => \A a \in purge'.cards : appt'[a].life = "deleted"
    <3>1. CASE PurgeCommit
      <4>1. purge'.cards = purge.cards /\ purge.cards \subseteq Appt
        BY <1>0, <3>1 DEF PurgeCommit, Purge
      <4> QED BY <1>0, <3>1, <4>1 DEF PurgeCommit, Without, Row
    <3>2. CASE PurgeAudit \/ PurgeEvent
      BY <1>0, <3>2 DEF PurgeAudit, PurgeEvent, tables, Purge
    <3>3. CASE (\E c \in Customer : PurgeRead(c)) \/ PurgeEmit \/ Crash
      BY <1>0, <3>3 DEF PurgeRead, PurgeEmit, Crash, NoPurge
    <3> QED BY <1>5, <2>3, <3>1, <3>2, <3>3 DEF ServePurge
  <2>5. gone' \subseteq gone \cup {a \in Appt : appt[a].life = "deleted"}
    <3>1. CASE PurgeEmit
      <4>1. purge.cards \subseteq Appt BY <1>0 DEF Purge
      <4> QED BY <3>1, <4>1 DEF PurgeEmit
    <3>2. PurgeEmit \/ gone' = gone
      BY <1>5, <2>3 DEF PurgeRead, ServePurge, PurgeCommit, PurgeAudit, PurgeEvent, Crash, sockets
    <3> QED BY <3>1, <3>2
  <2>6. DeletionNewsIsTrue'
    <3>1. gone \subseteq Appt BY DEF TypeInv, TypeOK
    <3> QED BY <2>5, <3>1, Deletions DEF DeletionNewsIsTrue
  <2> QED BY <1>0, <2>2, <2>4, <2>6
<1> QED BY <1>1, <1>2, <1>3, <1>4, <1>5 DEF Next, Serve

-----------------------------------------------------------------------------
(* The other direction needs that no handler is cut off: what is deleted was *)
(* announced or is in the hands of the handler that deleted it.              *)

Announces(r, a) == req[r].op = "delete" /\ req[r].pc \in {"audit", "emit"} /\ req[r].id = a
PurgeAnnounces(a) == purge.pc \in {"audit", "event", "emit"} /\ a \in purge.cards

ToldInv ==
  /\ TypeInv
  /\ \A a \in Appt : appt[a].life = "deleted" =>
       a \in gone \/ PurgeAnnounces(a) \/ \E r \in Req : Announces(r, a)

\* A handler that announces a deletion goes on to do so.
LEMMA AnnouncesOn ==
  ASSUME TypeInv, Next, ~MayCrash, NEW r \in Req, NEW a \in Appt, Announces(r, a)
  PROVE  a \in gone' \/ Announces(r, a)'
<1>1. req \in [Req -> Request \cup {Idle}] /\ req[r] \in Request
  <2>1. req[r].pc # "idle" BY DEF Announces
  <2> QED BY <2>1, InFlight DEF TypeInv, TypeOK
<1>2. ASSUME NEW s \in Req, NEW q, req' = [req EXCEPT ![s] = q], s # r PROVE Announces(r, a)'
  BY <1>1, <1>2 DEF Announces
<1>3. ASSUME NEW s \in Req, Arrive(s) PROVE Announces(r, a)'
  <2>1. req[s].pc = "idle" /\ \E q : req' = [req EXCEPT ![s] = q]
    BY <1>3, ArrivalEffect
  <2> QED BY <1>2, <2>1 DEF Announces
<1>4. ASSUME NEW s \in Req, Serve(s), s # r PROVE Announces(r, a)'
  <2>1. \E q : req' = [req EXCEPT ![s] = q]
    <3>1. CASE Write(s) BY <3>1, WriteEffect DEF Written
    <3>2. CASE ~Write(s) BY <1>4, <3>2, ServeEffect DEF Advanced
    <3> QED BY <3>1, <3>2
  <2> QED BY <1>2, <1>4, <2>1
<1>5. CASE Serve(r)
  <2>1. WriteAudit(r) \/ Emit(r)
    <3>1. ~Write(r) BY WriteEffect DEF Announces
    <3> QED BY <1>5, <3>1 DEF Serve, UrgentVisitCheck, WriteFails, TouchCustomer, AuditNewCustomer,
               LogNewCustomer, EmitEvent, Announces
  <2>2. CASE WriteAudit(r)
    <3>1. req' = [req EXCEPT ![r] = [req[r] EXCEPT !.pc = "emit"]]
      BY <1>1, <2>2 DEF WriteAudit, Announces, Logged
    <3> QED BY <1>1, <3>1 DEF Announces, Request
  <2>3. CASE Emit(r) BY <2>3 DEF Emit, News, Announces
  <2> QED BY <2>1, <2>2, <2>3
<1>6. CASE (\E c \in Customer : PurgeRead(c)) \/ PurgeAll \/ ServePurge
  <2>1. UNCHANGED req
    BY <1>6 DEF PurgeRead, PurgeAll, ServePurge, PurgeCommit, PurgeAudit, PurgeEvent, PurgeEmit
  <2> QED BY <2>1 DEF Announces
<1> QED BY <1>3, <1>4, <1>5, <1>6 DEF Next, Crash

LEMMA PurgeAnnouncesOn ==
  ASSUME TypeInv, Next, ~MayCrash, NEW a \in Appt, PurgeAnnounces(a)
  PROVE  a \in gone' \/ PurgeAnnounces(a)'
<1>1. purge \in Purge BY DEF TypeInv, TypeOK
<1>2. ASSUME NEW r \in Req, Arrive(r) \/ Serve(r) PROVE UNCHANGED purge
  <2>1. CASE Arrive(r) BY <2>1, ArrivalEffect
  <2>2. CASE Write(r) BY <2>2, WriteStores
  <2>3. CASE Serve(r) /\ ~Write(r)
    BY <2>3 DEF Serve, UrgentVisitCheck, WriteFails, TouchCustomer, AuditNewCustomer,
                LogNewCustomer, WriteAudit, EmitEvent, Emit
  <2> QED BY <1>2, <2>1, <2>2, <2>3
<1>3. ~(PurgeAll \/ PurgeCommit \/ Crash \/ \E c \in Customer : PurgeRead(c))
  BY DEF PurgeAll, PurgeCommit, Crash, PurgeRead, PurgeAnnounces
<1>4. CASE PurgeAudit \/ PurgeEvent
  BY <1>1, <1>4 DEF PurgeAudit, PurgeEvent, PurgeAnnounces, Purge
<1>5. CASE PurgeEmit BY <1>5 DEF PurgeEmit, PurgeAnnounces
<1> QED BY <1>2, <1>3, <1>4, <1>5 DEF Next, ServePurge, PurgeAnnounces

LEMMA GoneGrows ==
  ASSUME TypeInv, [Next]_vars PROVE gone \subseteq gone'
<1>1. ASSUME NEW r \in Req, Arrive(r) \/ Write(r) PROVE UNCHANGED gone
  BY <1>1, ArrivalEffect, WriteStores DEF sockets
<1>2. ASSUME NEW r \in Req, Serve(r), ~Write(r) PROVE gone \subseteq gone'
  BY <1>2 DEF Serve, UrgentVisitCheck, WriteFails, TouchCustomer, AuditNewCustomer,
              LogNewCustomer, WriteAudit, EmitEvent, Emit, sockets
<1>3. CASE (\E c \in Customer : PurgeRead(c)) \/ PurgeAll \/ ServePurge \/ Crash
  BY <1>3 DEF PurgeRead, PurgeAll, ServePurge, PurgeCommit, PurgeAudit, PurgeEvent, PurgeEmit,
              Crash, sockets
<1> QED BY <1>1, <1>2, <1>3 DEF Next, Serve, vars

LEMMA ToldInvNext ==
  ASSUME ~MayCrash
  PROVE  ToldInv /\ [Next]_vars => ToldInv'
<1> SUFFICES ASSUME ToldInv, [Next]_vars PROVE ToldInv' OBVIOUS
<1>0. TypeInv /\ TypeInv' BY TypeInvNext DEF ToldInv
<1>1. CASE UNCHANGED vars BY <1>0, <1>1 DEF vars, ToldInv, Announces, PurgeAnnounces
<1>2. CASE Next
  <2> SUFFICES ASSUME NEW a \in Appt, appt'[a].life = "deleted"
               PROVE  a \in gone' \/ PurgeAnnounces(a)' \/ \E r \in Req : Announces(r, a)'
    BY <1>0 DEF ToldInv
  <2>1. CASE appt[a].life = "deleted"
    <3>1. a \in gone \/ PurgeAnnounces(a) \/ \E r \in Req : Announces(r, a)
      BY <2>1 DEF ToldInv
    <3> QED BY <1>0, <1>2, <3>1, GoneGrows, AnnouncesOn, PurgeAnnouncesOn
  <2>2. ASSUME NEW r \in Req, DeleteWrite(r), req[r].id = a PROVE Announces(r, a)'
    <3>1. req[r].pc # "idle" BY <2>2 DEF DeleteWrite
    <3>2. req[r] \in Request /\ req \in [Req -> Request \cup {Idle}]
      BY <1>0, <3>1, InFlight DEF TypeInv, TypeOK
    <3> QED BY <2>2, <3>2 DEF DeleteWrite, Announces, Request
  <2>3. CASE PurgeCommit /\ a \in purge.cards
    <3>1. purge \in Purge BY <1>0 DEF TypeInv, TypeOK
    <3> QED BY <2>3, <3>1 DEF PurgeCommit, PurgeAnnounces, Purge
  <2> QED BY <1>0, <2>1, <2>2, <2>3, Deletions
<1> QED BY <1>1, <1>2

\* What clients are told is deleted is deleted, also with crashes, unless the
\* deletion of all customers is called: that one announces cards it keeps.
THEOREM DeletionNewsIsAlwaysTrue ==
  "deleteAllCustomers" \notin Ops => (Spec => []DeletionNewsIsTrue)
<1> SUFFICES ASSUME "deleteAllCustomers" \notin Ops PROVE Spec => []DeletionNewsIsTrue OBVIOUS
<1>1. NewsInv => DeletionNewsIsTrue BY DEF NewsInv
<1> QED BY <1>1, NewsInvInit, NewsInvNext, PTL DEF Spec

\* As long as the process lives, clients are told exactly what was deleted once
\* the requests are done, for the deletion of appointments and of customers.
THEOREM NewsAlwaysMatches ==
  ~MayCrash /\ "deleteAllCustomers" \notin Ops => (Spec => []NewsMatchesDeletions)
<1> SUFFICES ASSUME ~MayCrash, "deleteAllCustomers" \notin Ops
             PROVE  Spec => []NewsMatchesDeletions
  OBVIOUS
<1>1. Init => ToldInv
  <2>1. Free.life = "free" /\ LegacyRow.life = "live" BY DEF Free, LegacyRow
  <2> QED BY <2>1, TypeInvInit DEF Init, ToldInv
<1>2. NewsInv /\ ToldInv => NewsMatchesDeletions
  BY DEF NewsInv, ToldInv, NewsMatchesDeletions, DeletionIsNews, AtRest, Announces, PurgeAnnounces
<1>3. Spec => []NewsInv BY NewsInvInit, NewsInvNext, PTL DEF Spec
<1>4. Spec => []ToldInv BY <1>1, ToldInvNext, PTL DEF Spec
<1> QED BY <1>2, <1>3, <1>4, PTL
=============================================================================
