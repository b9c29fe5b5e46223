---------------------------- MODULE Appointments ----------------------------
(***************************************************************************)
(* The appointment workflow of the backend: every endpoint that changes an *)
(* appointment (routes/appointments.ts, routes/urgent-visits.ts, the two   *)
(* appointment endpoints of routes/dashboard.ts) and the customer          *)
(* deletions that reach into appointments (routes/customers.ts,            *)
(* services/customerDeletion.service.ts).                                  *)
(*                                                                         *)
(* A handler is a sequence of awaited calls to Postgres, each atomic, and  *)
(* the handlers of different requests interleave between them.  A request  *)
(* in flight is one slot of req: it reads a row and checks its guards,     *)
(* writes the row, marks the customer as active, writes the audit row and  *)
(* the event row, and emits to the socket rooms.  Its field row holds the  *)
(* handler's local copy: the row as read, then the row as written.  A      *)
(* request that a guard rejects (400, 403, 404, 409) changes nothing and   *)
(* has no action.                                                          *)
(***************************************************************************)
EXTENDS Integers, FiniteSets

CONSTANTS
  Appt,          \* ids of appointments
  Technician,    \* user ids of technicians
  NoTech,        \* technicianId = null: the shared pool
  Customer,      \* customers, one per phone number
  NoCustomer,    \* customerId = null
  Req,           \* slots for requests in flight
  Ops,           \* the endpoints that clients call
  BodyStatus,    \* the status values they send
  Legacy,        \* appointments older than the visibleToTechnician column
  MayCrash,      \* whether the process may die
  MaxVersion     \* bound: rows of this version receive no new request

ASSUME UsersAssumption ==
  /\ NoTech \notin Technician
  /\ {"ADMIN", "SCHEDULING", "none"} \cap Technician = {}
  /\ NoTech \notin {"ADMIN", "SCHEDULING"}
ASSUME CustomersAssumption == NoCustomer \notin Customer
ASSUME LegacyAssumption == Legacy \subseteq Appt
ASSUME BoundAssumption == MaxVersion \in Nat
ASSUME CrashAssumption == MayCrash \in BOOLEAN

Users == {"ADMIN", "SCHEDULING"} \cup Technician

Status == {"SCHEDULED", "RESCHEDULED", "CANCELLED", "PENDING"}
WorkStatus == {"WAITING", "IN_PROGRESS", "POSTPONED", "COMPLETED"}
ASSUME StatusAssumption == BodyStatus \subseteq Status
OperationalWorkStatuses == {"WAITING", "IN_PROGRESS", "POSTPONED"}

\* An appointment.  completedAt stands for the whole completion report,
\* postponements for the postponement records, urgentVisitRecord for the
\* visit record: whether they exist.
Row ==
  [life : {"free", "live", "deleted"},
   isUrgent : BOOLEAN, adminApproved : BOOLEAN,
   visibleToScheduling : BOOLEAN, visibleToTechnician : BOOLEAN,
   technicianId : Technician \cup {NoTech},
   customerId : Customer \cup {NoCustomer},
   status : Status, workStatus : WorkStatus,
   startedAt : BOOLEAN, completedAt : BOOLEAN, maintenanceConfirmed : BOOLEAN,
   postponements : BOOLEAN, urgentVisitRecord : BOOLEAN,
   version : Nat]

Free ==
  [life |-> "free", isUrgent |-> FALSE, adminApproved |-> FALSE,
   visibleToScheduling |-> FALSE, visibleToTechnician |-> FALSE,
   technicianId |-> NoTech, customerId |-> NoCustomer,
   status |-> "SCHEDULED", workStatus |-> "WAITING",
   startedAt |-> FALSE, completedAt |-> FALSE, maintenanceConfirmed |-> FALSE,
   postponements |-> FALSE, urgentVisitRecord |-> FALSE, version |-> 0]

\* A row that predates the export workflow: the migration that adds
\* visibleToTechnician gives it TRUE, and adminApproved was never set on what
\* Scheduling created.
LegacyRow == [Free EXCEPT !.life = "live", !.visibleToScheduling = TRUE,
                          !.visibleToTechnician = TRUE, !.version = 1]

\* Operations by what follows their write: the customer is marked active, an
\* audit row is written, an event row is written.
AppointmentOps ==
  {"create", "update", "approveVisibility", "exportToTechnicians",
   "approveExport", "status", "start", "complete", "confirmOperation",
   "postpone", "delete", "dashboardUpdate", "urgentVisit"}
AuditedButStatus ==    \* fault: the audit call is forgotten on /status
  AppointmentOps \ {"approveVisibility", "dashboardUpdate", "status"}
Touches == {"create", "start", "complete", "postpone"}
Audited == AppointmentOps \ {"approveVisibility", "dashboardUpdate"}
Logged == {"create", "status", "start", "complete", "postpone"}

Request ==
  [pc : {"check", "write", "touch", "customer", "customerEvent",
         "audit", "event", "emit"},
   op : AppointmentOps, user : Users, id : Appt,
   versioned : BOOLEAN, newCustomer : BOOLEAN, row : Row]

Idle == [pc |-> "idle", op |-> "none", user |-> "none", id |-> "none",
         versioned |-> FALSE, newCustomer |-> FALSE, row |-> Free]

\* A customer deletion in flight: the customers it removes and the appointments
\* whose removal it will announce.
Purge == [pc : {"idle", "delete", "audit", "event", "emit"},
          victims : SUBSET Customer, cards : SUBSET Appt]
NoPurge == [pc |-> "idle", victims |-> {}, cards |-> {}]

VARIABLES
  appt,       \* the appointments table
  customers,  \* the customers table
  req,        \* requests in flight
  purge,      \* the customer deletion in flight
  audit,      \* audit_logs: <<action, entity, version>>
  eventLog,   \* event_logs: <<entity, version>>
  reached,    \* audience each appointment's payload was emitted to
  gone        \* appointments announced as deleted

vars == <<appt, customers, req, purge, audit, eventLog, reached, gone>>
tables == <<appt, customers>>
logs == <<audit, eventLog>>
sockets == <<reached, gone>>

Init ==
  /\ appt = [a \in Appt |-> IF a \in Legacy THEN LegacyRow ELSE Free]
  /\ customers \in SUBSET Customer
  /\ req = [r \in Req |-> Idle]
  /\ purge = NoPurge
  /\ audit = {<<"CREATE", a, 1>> : a \in Legacy}
  /\ eventLog = {}
  /\ reached = [a \in Appt |-> {}]
  /\ gone = {}

-----------------------------------------------------------------------------
(* The steps every handler is made of. *)

\* The handler's read: the caller may see the row, the guards have passed.
Accept(r, u, op, a, versioned) ==
  /\ op \in Ops
  /\ req[r].pc = "idle"
  /\ appt[a].life = "live"
  /\ appt[a].version < MaxVersion
  /\ req' = [req EXCEPT ![r] =
       [pc |-> "write", op |-> op, user |-> u, id |-> a,
        versioned |-> versioned, newCustomer |-> FALSE, row |-> appt[a]]]
  /\ UNCHANGED <<tables, purge, logs, sockets>>

\* Scheduling reaches only the rows shown to it, Administration every row.
InOfficeScope(u, row) ==
  \/ u = "ADMIN"
  \/ u = "SCHEDULING" /\ row.visibleToScheduling

\* Fault: the ownership condition is missing.
UnownedWorkScope(u, row) == ~row.isUrgent /\ u # "SCHEDULING"

\* A technician works its own jobs and the shared pool, never urgent ones.
InWorkScope(u, row) ==
  /\ ~row.isUrgent
  /\ \/ u = "ADMIN"
     \/ u \in Technician /\ row.technicianId \in {u, NoTech}

\* Fault: the handler writes its whole copy back instead of the columns it sets.
StaleCopy(r) == req[r].row

\* The row as it is stored when the handler's write executes.
Current(r) == appt[req[r].id]

\* Fault: the event row comes first and the audit row is forgotten.
AfterTouchUnaudited(q) == IF q.newCustomer THEN "customer" ELSE "event"

AfterTouch(q) == IF q.newCustomer THEN "customer" ELSE "audit"
AfterWrite(op, row) ==
  IF op \in Touches /\ row.customerId # NoCustomer THEN "touch"
  ELSE IF op \in Audited THEN "audit" ELSE "emit"

\* prisma.appointment.update by id, with version: { increment: 1 }.
Commit(r, op, row) ==
  LET a == req[r].id
      now == [row EXCEPT !.version = @ + 1]
  IN /\ req[r].pc = "write"
     /\ req[r].op = op
     /\ appt[a].life = "live"
     /\ appt' = [appt EXCEPT ![a] = now]
     /\ req' = [req EXCEPT ![r].pc = AfterWrite(op, now), ![r].row = now]
     /\ UNCHANGED <<customers, purge, logs, sockets>>

\* The row was deleted since it was read (P2025), or the visit record exists
\* already (P2002): the handler answers 500.
WriteFails(r) ==
  /\ req[r].pc = "write"
  /\ \/ Current(r).life # "live"
     \/ req[r].op = "urgentVisit" /\ Current(r).urgentVisitRecord
  /\ req' = [req EXCEPT ![r] = Idle]
  /\ UNCHANGED <<tables, purge, logs, sockets>>

\* Fault: no answer when the customer is gone.
TouchLivingCustomer(r) ==
  /\ req[r].pc = "touch"
  /\ req[r].row.customerId \in customers
  /\ req' = [req EXCEPT ![r].pc = AfterTouch(req[r])]
  /\ UNCHANGED <<tables, purge, logs, sockets>>

\* customer.update({ activityDismissed: false }): a 500 if the customer is gone.
TouchCustomer(r) ==
  /\ req[r].pc = "touch"
  /\ req' = IF req[r].row.customerId \in customers
              THEN [req EXCEPT ![r].pc = AfterTouch(req[r])]
              ELSE [req EXCEPT ![r] = Idle]
  /\ UNCHANGED <<tables, purge, logs, sockets>>

\* A customer created by an urgent appointment gets an audit and an event row
\* of its own first.
AuditNewCustomer(r) ==
  /\ req[r].pc = "customer"
  /\ audit' = audit \cup {<<"CREATE", req[r].row.customerId, 1>>}
  /\ req' = [req EXCEPT ![r].pc = "customerEvent"]
  /\ UNCHANGED <<tables, purge, eventLog, sockets>>

LogNewCustomer(r) ==
  /\ req[r].pc = "customerEvent"
  /\ eventLog' = eventLog \cup {<<req[r].row.customerId, 1>>}
  /\ req' = [req EXCEPT ![r].pc = "audit"]
  /\ UNCHANGED <<tables, purge, audit, sockets>>

AuditAction(op) ==
  CASE op \in {"create", "urgentVisit"} -> "CREATE"
    [] op = "delete" -> "DELETE"
    [] OTHER -> "UPDATE"

\* writeAudit; a visit record is an entity of its own.
WriteAudit(r) ==
  LET q == req[r]
      entity == IF q.op = "urgentVisit" THEN <<"visit", q.id>> ELSE q.id
  IN /\ q.pc = "audit"
     /\ audit' = audit \cup {<<AuditAction(q.op), entity, q.row.version>>}
     /\ req' = [req EXCEPT ![r].pc = IF q.op \in Logged THEN "event" ELSE "emit"]
     /\ UNCHANGED <<tables, purge, eventLog, sockets>>

EmitEvent(r) ==
  /\ req[r].pc = "event"
  /\ eventLog' = eventLog \cup {<<req[r].id, req[r].row.version>>}
  /\ req' = [req EXCEPT ![r].pc = "emit"]
  /\ UNCHANGED <<tables, purge, audit, sockets>>

\* Fault: every payload goes to the room of all technicians.
SharedRoom(row) == Technician

\* Rooms: the assigned technician's, or every technician's for the pool.
TechnicianRoom(row) ==
  IF row.technicianId = NoTech THEN Technician ELSE {row.technicianId}
OwnerRoom(row) == {row.technicianId} \ {NoTech}

AudienceOf(op, row) ==
  CASE op = "create" ->
         {"ADMIN"} \cup (IF row.visibleToScheduling THEN {"SCHEDULING"} ELSE {})
                   \cup (IF row.visibleToTechnician THEN TechnicianRoom(row) ELSE {})
    [] op \in {"update", "approveVisibility", "exportToTechnicians", "status",
               "confirmOperation", "dashboardUpdate"} -> {"ADMIN", "SCHEDULING"}
    [] op = "approveExport" -> {"ADMIN", "SCHEDULING"} \cup TechnicianRoom(row)
    [] op = "start" -> {"ADMIN"} \cup OwnerRoom(row)
    [] op \in {"complete", "postpone"} -> {"ADMIN", "SCHEDULING"} \cup OwnerRoom(row)
    [] op = "urgentVisit" -> {"ADMIN"}
    [] OTHER -> {}

\* Fault: a deletion is not announced.
NoNews(q) == {}

\* The deletions a handler announces.
News(q) == IF q.op = "delete" THEN {q.id} ELSE {}

\* The emits and the response, from the handler's own copy of the row.
Emit(r) ==
  LET q == req[r]
  IN /\ q.pc = "emit"
     /\ reached' = [reached EXCEPT ![q.id] = @ \cup AudienceOf(q.op, q.row)]
     /\ gone' = gone \cup News(q)
     /\ req' = [req EXCEPT ![r] = Idle]
     /\ UNCHANGED <<tables, purge, logs>>

-----------------------------------------------------------------------------
(* POST /appointments.  The customer of an urgent appointment is found by its *)
(* phone or created in the same transaction; any other must exist.            *)

\* Fault: what Scheduling files is shown to technicians at once.
ShownRow(u, urgent, shown, t, c) ==
  [Free EXCEPT !.life = "live", !.isUrgent = urgent, !.adminApproved = u = "ADMIN",
               !.visibleToScheduling = ~urgent /\ shown, !.visibleToTechnician = TRUE,
               !.technicianId = t, !.customerId = c, !.version = 1]

\* shown is the body's visibleToScheduling, t its technicianId.
NewRow(u, urgent, shown, t, c) ==
  [Free EXCEPT !.life = "live", !.isUrgent = urgent, !.adminApproved = u = "ADMIN",
               !.visibleToScheduling = ~urgent /\ shown,
               !.visibleToTechnician = u = "ADMIN",
               !.technicianId = t, !.customerId = c, !.version = 1]

Insert(r, u, a, urgent, shown, t, c) ==
  /\ "create" \in Ops
  /\ u \in {"ADMIN", "SCHEDULING"}
  /\ u = "SCHEDULING" => ~urgent /\ shown
  /\ urgent \/ c \in customers
  /\ req[r].pc = "idle"
  /\ appt[a].life = "free"
  /\ appt' = [appt EXCEPT ![a] = NewRow(u, urgent, shown, t, c)]
  /\ customers' = customers \cup {c}
  /\ req' = [req EXCEPT ![r] =
       [pc |-> "touch", op |-> "create", user |-> u, id |-> a, versioned |-> FALSE,
        newCustomer |-> c \notin customers, row |-> NewRow(u, urgent, shown, t, c)]]
  /\ UNCHANGED <<purge, logs, sockets>>

Create(r, u, a) ==
  \E urgent, shown \in BOOLEAN, t \in Technician \cup {NoTech}, c \in Customer :
    Insert(r, u, a, urgent, shown, t, c)

(* PUT /appointments/:id and PUT /dashboard/appointment/:id. *)
Update(r, u, a) ==
  /\ InOfficeScope(u, appt[a])
  /\ Accept(r, u, "update", a, FALSE)

UpdateWrite(r) ==
  \E rescheduled, shown \in BOOLEAN :
    Commit(r, "update",
      [Current(r) EXCEPT
         !.status = IF rescheduled THEN "RESCHEDULED" ELSE @,
         !.visibleToScheduling = shown])

DashboardUpdate(r, u, a) ==
  /\ InOfficeScope(u, appt[a])
  /\ Accept(r, u, "dashboardUpdate", a, FALSE)

DashboardUpdateWrite(r) ==
  \E s \in BodyStatus :
    Commit(r, "dashboardUpdate", [Current(r) EXCEPT !.status = s])

(* The three steps of the visibility workflow. *)
ApproveVisibility(r, a) == Accept(r, "ADMIN", "approveVisibility", a, FALSE)

ApproveVisibilityWrite(r) ==
  Commit(r, "approveVisibility",
    [Current(r) EXCEPT !.visibleToScheduling = TRUE, !.adminApproved = TRUE])

ExportToTechnicians(r, a) ==
  /\ appt[a].visibleToScheduling /\ ~appt[a].isUrgent
  /\ appt[a].visibleToTechnician # appt[a].adminApproved
  /\ Accept(r, "SCHEDULING", "exportToTechnicians", a, FALSE)

ExportToTechniciansWrite(r) ==
  Commit(r, "exportToTechnicians",
    [Current(r) EXCEPT !.visibleToTechnician = FALSE, !.adminApproved = FALSE])

ApproveExport(r, a) ==
  /\ ~appt[a].visibleToTechnician /\ ~appt[a].adminApproved
  /\ Accept(r, "ADMIN", "approveExport", a, FALSE)

\* Fault: the row is shown but not marked as approved.
RevealWrite(r) ==
  Commit(r, "approveExport", [Current(r) EXCEPT !.visibleToTechnician = TRUE])

ApproveExportWrite(r) ==
  Commit(r, "approveExport",
    [Current(r) EXCEPT !.visibleToTechnician = TRUE, !.adminApproved = TRUE])

(* PATCH /status.  versioned: the body carries the version the client saw,   *)
(* which the check found equal to the row's.                                 *)
SetStatus(r, u, a) ==
  /\ InOfficeScope(u, appt[a])
  /\ \E versioned \in BOOLEAN : Accept(r, u, "status", a, versioned)

SetStatusWrite(r) ==
  \E s \in BodyStatus : Commit(r, "status", [Current(r) EXCEPT !.status = s])

(* The technician's work: start, complete, postpone. *)
Start(r, u, a) ==
  /\ InWorkScope(u, appt[a])
  /\ appt[a].workStatus = "WAITING"
  /\ \E versioned \in BOOLEAN : Accept(r, u, "start", a, versioned)

\* Fault: Administration claims the job it starts.
AnyoneClaimsWrite(r) ==
  LET claims == req[r].row.technicianId = NoTech
  IN Commit(r, "start",
       [Current(r) EXCEPT
          !.workStatus = "IN_PROGRESS", !.startedAt = TRUE,
          !.technicianId = IF claims THEN req[r].user ELSE @])

\* A pool job is claimed by the technician who starts it.
StartWrite(r) ==
  LET claims == req[r].row.technicianId = NoTech /\ req[r].user # "ADMIN"
  IN Commit(r, "start",
       [Current(r) EXCEPT
          !.workStatus = "IN_PROGRESS", !.startedAt = TRUE,
          !.technicianId = IF claims THEN req[r].user ELSE @])

\* Fault: the work status is not checked.
CompleteAnytime(r, u, a) ==
  /\ InWorkScope(u, appt[a])
  /\ \E versioned \in BOOLEAN : Accept(r, u, "complete", a, versioned)

Complete(r, u, a) ==
  /\ InWorkScope(u, appt[a])
  /\ appt[a].workStatus = "IN_PROGRESS"
  /\ \E versioned \in BOOLEAN : Accept(r, u, "complete", a, versioned)

CompleteWrite(r) ==
  Commit(r, "complete",
    [Current(r) EXCEPT !.workStatus = "COMPLETED", !.completedAt = TRUE,
                            !.maintenanceConfirmed = FALSE])

Postpone(r, u, a) ==
  /\ InWorkScope(u, appt[a])
  /\ appt[a].workStatus \in {"WAITING", "IN_PROGRESS"}
  /\ \E versioned \in BOOLEAN : Accept(r, u, "postpone", a, versioned)

PostponeWrite(r) ==
  Commit(r, "postpone",
    [Current(r) EXCEPT !.workStatus = "POSTPONED", !.postponements = TRUE])

\* Fault: the work status is not checked.
ConfirmAnytime(r, a) ==
  /\ appt[a].visibleToScheduling
  /\ ~appt[a].maintenanceConfirmed
  /\ Accept(r, "SCHEDULING", "confirmOperation", a, FALSE)

(* PATCH /confirm-operation: Scheduling reviews the completion report. *)
ConfirmOperation(r, a) ==
  /\ appt[a].visibleToScheduling
  /\ appt[a].workStatus = "COMPLETED"
  /\ ~appt[a].maintenanceConfirmed
  /\ Accept(r, "SCHEDULING", "confirmOperation", a, FALSE)

ConfirmOperationWrite(r) ==
  Commit(r, "confirmOperation", [Current(r) EXCEPT !.maintenanceConfirmed = TRUE])

(* DELETE /appointments/:id and DELETE /dashboard/appointment/:id. *)
Delete(r, a) == Accept(r, "ADMIN", "delete", a, FALSE)

DeleteWrite(r) ==
  /\ req[r].pc = "write" /\ req[r].op = "delete"
  /\ Current(r).life = "live"
  /\ appt' = [appt EXCEPT ![req[r].id].life = "deleted"]
  /\ req' = [req EXCEPT ![r].pc = "audit"]
  /\ UNCHANGED <<customers, purge, logs, sockets>>

(* POST /urgent-visits: the appointment is read, then its visit record. *)
UrgentVisit(r, t, a) ==
  /\ appt[a].isUrgent
  /\ appt[a].technicianId \in {t, NoTech}
  /\ "urgentVisit" \in Ops
  /\ req[r].pc = "idle"
  /\ appt[a].life = "live"
  /\ req' = [req EXCEPT ![r] =
       [pc |-> "check", op |-> "urgentVisit", user |-> t, id |-> a,
        versioned |-> FALSE, newCustomer |-> FALSE, row |-> appt[a]]]
  /\ UNCHANGED <<tables, purge, logs, sockets>>

UrgentVisitCheck(r) ==
  /\ req[r].pc = "check"
  /\ req' = IF Current(r).urgentVisitRecord
              THEN [req EXCEPT ![r] = Idle]
              ELSE [req EXCEPT ![r].pc = "write"]
  /\ UNCHANGED <<tables, purge, logs, sockets>>

UrgentVisitWrite(r) ==
  /\ req[r].pc = "write" /\ req[r].op = "urgentVisit"
  /\ Current(r).life = "live"
  /\ ~Current(r).urgentVisitRecord    \* unique index on appointmentId
  /\ appt' = [appt EXCEPT ![req[r].id].urgentVisitRecord = TRUE]
  /\ req' = [req EXCEPT ![r].pc = "audit"]
  /\ UNCHANGED <<customers, purge, logs, sockets>>

-----------------------------------------------------------------------------
(* DELETE /customers/:id and DELETE /dashboard/customer/:id: one transaction *)
(* that reads the customer with its appointments, then deletes the           *)
(* operational ones by id and the customer; the foreign key sets customerId  *)
(* to null on the rest.                                                      *)

\* The customer's live work.
OperationalOf(c) ==
  {a \in Appt : /\ appt[a].life = "live"
               /\ appt[a].customerId = c
               /\ ~appt[a].isUrgent
               /\ appt[a].workStatus \in OperationalWorkStatuses}

PurgeRead(c) ==
  /\ "deleteCustomer" \in Ops
  /\ purge.pc = "idle"
  /\ c \in customers
  /\ purge' = [pc |-> "delete", victims |-> {c}, cards |-> OperationalOf(c)]
  /\ UNCHANGED <<tables, req, logs, sockets>>

\* Fault: the work status is checked again, but the announcement is not redrawn.
WithoutIdle(as, cs) ==
  [a \in Appt |->
     IF a \in as /\ appt[a].workStatus # "COMPLETED"
       THEN [appt[a] EXCEPT !.life = "deleted"]
     ELSE IF appt[a].life = "live" /\ appt[a].customerId \in cs
       THEN [appt[a] EXCEPT !.customerId = NoCustomer]
       ELSE appt[a]]

\* The table after deleting the customers cs and the appointments as.
Without(as, cs) ==
  [a \in Appt |->
     IF a \in as THEN [appt[a] EXCEPT !.life = "deleted"]
     ELSE IF appt[a].life = "live" /\ appt[a].customerId \in cs
       THEN [appt[a] EXCEPT !.customerId = NoCustomer]
       ELSE appt[a]]

PurgeCommit ==
  /\ purge.pc = "delete"
  /\ appt' = Without(purge.cards, purge.victims)
  /\ customers' = customers \ purge.victims
  /\ purge' = [purge EXCEPT !.pc = "audit"]
  /\ UNCHANGED <<req, logs, sockets>>

(* DELETE /customers: all of them, in one serializable transaction that keeps *)
(* every appointment.                                                         *)
PurgeAll ==
  /\ "deleteAllCustomers" \in Ops
  /\ purge.pc = "idle"
  /\ customers # {}
  /\ appt' = Without({}, customers)
  /\ customers' = {}
  /\ purge' = [pc |-> "audit", victims |-> customers,
               cards |-> {a \in Appt : appt[a].life = "live" /\ appt[a].customerId \in customers}]
  /\ UNCHANGED <<req, logs, sockets>>

\* The dashboard's route writes no event row.
PurgeAudit ==
  /\ purge.pc = "audit"
  /\ audit' = audit \cup {<<"DELETE", c, 0>> : c \in purge.victims}
  /\ \E next \in {"event", "emit"} : purge' = [purge EXCEPT !.pc = next]
  /\ UNCHANGED <<tables, req, eventLog, sockets>>

PurgeEvent ==
  /\ purge.pc = "event"
  /\ eventLog' = eventLog \cup {<<c, 0>> : c \in purge.victims}
  /\ purge' = [purge EXCEPT !.pc = "emit"]
  /\ UNCHANGED <<tables, req, audit, sockets>>

PurgeEmit ==
  /\ purge.pc = "emit"
  /\ gone' = gone \cup purge.cards
  /\ purge' = NoPurge
  /\ UNCHANGED <<tables, req, logs, reached>>

\* The process dies: every request in flight is lost, an open transaction is
\* rolled back, what was committed stays.
Crash ==
  /\ MayCrash
  /\ (\E r \in Req : req[r] # Idle) \/ purge # NoPurge
  /\ req' = [r \in Req |-> Idle]
  /\ purge' = NoPurge
  /\ UNCHANGED <<tables, logs, sockets>>

-----------------------------------------------------------------------------
\* A user sends a request.
Arrive(r) ==
  \E a \in Appt :
    \/ \E u \in Users : \/ Create(r, u, a) \/ Update(r, u, a) \/ DashboardUpdate(r, u, a)
                        \/ SetStatus(r, u, a) \/ Start(r, u, a) \/ Complete(r, u, a)
                        \/ Postpone(r, u, a)
    \/ ApproveVisibility(r, a) \/ ExportToTechnicians(r, a) \/ ApproveExport(r, a)
    \/ ConfirmOperation(r, a) \/ Delete(r, a)
    \/ \E t \in Technician : UrgentVisit(r, t, a)

\* The handler's write.
Write(r) ==
  \/ UpdateWrite(r) \/ DashboardUpdateWrite(r) \/ ApproveVisibilityWrite(r)
  \/ ExportToTechniciansWrite(r) \/ ApproveExportWrite(r) \/ SetStatusWrite(r)
  \/ StartWrite(r) \/ CompleteWrite(r) \/ PostponeWrite(r)
  \/ ConfirmOperationWrite(r) \/ DeleteWrite(r) \/ UrgentVisitWrite(r)

\* The server carries a request on.
Serve(r) ==
  \/ UrgentVisitCheck(r) \/ Write(r) \/ WriteFails(r) \/ TouchCustomer(r)
  \/ AuditNewCustomer(r) \/ LogNewCustomer(r) \/ WriteAudit(r) \/ EmitEvent(r) \/ Emit(r)

ServePurge == PurgeCommit \/ PurgeAudit \/ PurgeEvent \/ PurgeEmit

Next ==
  \/ \E r \in Req : Arrive(r) \/ Serve(r)
  \/ \E c \in Customer : PurgeRead(c)
  \/ PurgeAll
  \/ ServePurge
  \/ Crash

Spec == Init /\ [][Next]_vars

\* Node runs the continuation of every settled await; users promise nothing.
Fairness == (\A r \in Req : WF_vars(Serve(r))) /\ WF_vars(ServePurge)
FairSpec == Spec /\ Fairness

-----------------------------------------------------------------------------
(* Properties that hold. *)

TypeOK ==
  /\ appt \in [Appt -> Row]
  /\ customers \in SUBSET Customer
  /\ req \in [Req -> Request \cup {Idle}]
  /\ purge \in Purge
  /\ reached \in [Appt -> SUBSET Users]
  /\ gone \in SUBSET Appt

\* A completion report exists only for work that was started, and a job in
\* progress was started: the guards of /start and /complete, which are checked
\* on a row read earlier, keep their meaning when the write lands late.
ReportFollowsStart ==
  \A a \in Appt :
    /\ appt[a].workStatus = "IN_PROGRESS" => appt[a].startedAt
    /\ appt[a].workStatus = "COMPLETED" => appt[a].completedAt
    /\ appt[a].completedAt => appt[a].startedAt

\* What Scheduling has confirmed is a report: /confirm-operation never confirms
\* an appointment nobody completed, whatever is written between its read and
\* its write.
ConfirmedHasReport ==
  \A a \in Appt : appt[a].maintenanceConfirmed => appt[a].completedAt

\* Work keeps its order: started, reported, confirmed.
WorkInOrder == ReportFollowsStart /\ ConfirmedHasReport

\* No write of a stale handler erases the start, the report, the postponements
\* or the visit record of an appointment, or turns its version back: updates
\* name the columns they change.
HistoryKept ==
  [][\A a \in Appt : appt[a].life = "live" =>
       /\ appt[a].startedAt => appt'[a].startedAt
       /\ appt[a].completedAt => appt'[a].completedAt
       /\ appt[a].postponements => appt'[a].postponements
       /\ appt[a].urgentVisitRecord => appt'[a].urgentVisitRecord
       /\ appt[a].version <= appt'[a].version]_vars

\* A job assigned to a technician when it was created is started, postponed or
\* completed by that technician or by Administration, and stays assigned to
\* them: the scope of the read in /start, /postpone and /complete.
AssignedJobIsTheirs ==
  [][\A r \in Req :
       LET q == req[r]
           row == appt[q.id]
       IN (/\ q.pc = "write" /\ q.op \in {"start", "postpone", "complete"}
           /\ appt' # appt /\ req'[r] # q
           /\ row.technicianId # NoTech /\ ~row.startedAt)
          => /\ q.user \in {"ADMIN", row.technicianId}
             /\ appt'[q.id].technicianId = row.technicianId]_vars

\* The payload of a job assigned when it was created never reaches another
\* technician's room (broadcastAppointmentCreated and /approve-export).
AssignedJobStaysPrivate ==
  \A a \in Appt :
    appt[a].technicianId # NoTech /\ ~appt[a].startedAt
      => reached[a] \cap Technician \subseteq {appt[a].technicianId}

\* An event row is never written for a change that has no audit row, also when
\* the process dies between the two.
EventsAreAudited ==
  \A e \in eventLog : \E action \in {"CREATE", "UPDATE", "DELETE"} :
    <<action, e[1], e[2]>> \in audit

AtRest == purge.pc = "idle" /\ \A r \in Req : req[r].pc = "idle"

\* When no request is in flight, every version of every appointment whose
\* customer still exists has its audit row (of the audited endpoints: see
\* Audited).  If the customer went while a handler was about to mark it active,
\* the write stays without one.
AuditComplete ==
  AtRest => \A a \in Appt : appt[a].life = "live" /\ appt[a].customerId # NoCustomer =>
    \A v \in 1 .. appt[a].version :
      \E action \in {"CREATE", "UPDATE"} : <<action, a, v>> \in audit

\* Every appointment that clients were told is deleted is deleted, although the
\* list was drawn up before the rows were removed.
DeletionNewsIsTrue == \A a \in gone : appt[a].life = "deleted"

\* When no request is in flight, the clients were told of every deletion.
DeletionIsNews == AtRest => \A a \in Appt : appt[a].life = "deleted" => a \in gone

\* What clients were told is deleted, and what is deleted, are the same.
NewsMatchesDeletions == DeletionNewsIsTrue /\ DeletionIsNews

\* Technicians may see an appointment only if Administration approved it, or if
\* it predates the approval workflow: under every interleaving of exports,
\* approvals and edits.
ShownIsApproved ==
  \A a \in Appt : appt[a].visibleToTechnician /\ ~appt[a].adminApproved => a \in Legacy

Gate == INSTANCE ApprovalGate WITH
  filed <- {a \in Appt : appt[a].life = "live"},
  cleared <- {a \in Appt : appt[a].life = "live" /\ appt[a].adminApproved},
  shown <- {a \in Appt : appt[a].life = "live" /\ appt[a].visibleToTechnician}

\* The endpoints implement the approval gate.
ImplementsGate == Gate!GateSpec

\* Every request is answered, and every customer deletion ends, also when the
\* row or the customer it works on has gone.
RequestsAreAnswered ==
  /\ \A r \in Req : req[r].pc # "idle" ~> req[r].pc = "idle"
  /\ purge.pc # "idle" ~> purge.pc = "idle"

-----------------------------------------------------------------------------
(* What the repository says and the code does not keep. *)

\* README: "Optimistic locking prevents two users from unknowingly overwriting
\* the same record."  A request that sent the version it had seen writes only
\* over that version.
VersionedWriteSeesItsVersion ==
  [][\A r \in Req :
       req[r].pc = "write" /\ req[r].versioned /\ req'[r].pc \notin {"idle", "write"}
         => appt[req[r].id].version = req[r].row.version]_vars

\* customerDeletion.service.ts: completed appointments carry data "that must
\* survive a customer deletion".
CompletedOutlivesCustomer ==
  [][\A a \in Appt : appt[a].workStatus = "COMPLETED" /\ appt[a].life = "live"
                     /\ appt'[a].life = "deleted"
       => \E r \in Req : req[r].op = "delete" /\ req[r].id = a /\ req'[r].pc = "audit"]_vars
=============================================================================
