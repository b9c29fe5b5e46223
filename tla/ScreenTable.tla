------------------------------ MODULE ScreenTable ------------------------------
(***************************************************************************)
(* What the screens of the unified client are wired to: the operations of  *)
(* the backend with what they write and the events they emit to the room   *)
(* of each role, and the components of the client with the queries they    *)
(* read, the events that make them refetch a query, and the operations     *)
(* they offer with the queries each refreshes when it succeeds.            *)
(*                                                                         *)
(* Data are topics: "customers" (which exist), "customer" (their fields),  *)
(* "visit" (appointments), "started" (work begun), "outcome" (the note of  *)
(* a finished visit), "gate" (visibility and approval flags), "report",    *)
(* "urgentRecord", "log", "dismissed", "notification", "message" and       *)
(* "expense".  An operation writes what it may change; a role not shown a  *)
(* row is not counted as reading it.                                       *)
(***************************************************************************)
Role == {"ADMIN", "SCHEDULING", "TECHNICIAN"}

-----------------------------------------------------------------------------
(* Operations. *)

Operation(name, writes, admin, scheduling, technician) ==
  [name |-> name, writes |-> writes,
   tells |-> [ADMIN |-> admin, SCHEDULING |-> scheduling, TECHNICIAN |-> technician]]
ToAll(name, writes, events) == Operation(name, writes, events, events, events)
ToOffices(name, writes, events) == Operation(name, writes, events, events, {})
Silent(name, writes) == Operation(name, writes, {}, {}, {})

Status == {"appointment:status"}
BookingOperations ==
  {ToAll("CreateAppointment", {"visit"}, {"appointment:created"}),
   Operation("CreateForNewCustomer", {"visit", "customers"},
             {"appointment:created", "customer:created"},
             {"appointment:created", "customer:created"}, {"appointment:created"}),
   ToOffices("UpdateAppointment", {"visit"}, Status),
   Operation("ApproveVisibility", {"gate"}, Status,
             Status \cup {"appointment:created", "customer:created"}, {})}
ApprovalOperations ==
  {ToOffices("ExportToTechnicians", {"gate"}, Status),
   Operation("ApproveExport", {"gate"}, Status, Status, {"appointment:created"}),
   ToOffices("ChangeStatus", {"visit"}, Status)}
WorkOperations ==
  {Operation("Start", {"started"}, {"appointment:started"}, {}, {"appointment:started"}),
   ToAll("Complete", {"visit", "started", "outcome"}, {"appointment:completed"})}
AfterWorkOperations ==
  {ToOffices("ConfirmOperation", {"gate"}, Status),
   ToAll("Postpone", {"visit", "started"}, {"appointment:postponed"}),
   ToAll("DeleteAppointment", {"visit", "gate", "outcome"}, {"appointment:deleted"})}

CustomerOperations ==
  {ToOffices("CreateCustomer", {"customers"}, {"customer:created"}),
   ToOffices("UpdateCustomer", {"customer"}, {"customer:updated"}),
   ToOffices("ToggleActive", {"customer"}, {"customer:updated"}),
   ToAll("DeleteCustomer", {"customers", "visit"}, {"customer:deleted", "appointment:deleted"})}
DeleteAllOperation ==
  ToAll("DeleteAllCustomers", {"customers", "visit"}, {"customers:bulk-deleted", "appointment:deleted"})

DashboardOperations ==
  {Silent("DismissActivity", {"dismissed"}),
   ToAll("DeleteCustomerFromDashboard", {"customers", "visit"},
         {"customer:deleted", "appointment:deleted"}),
   ToAll("DeleteAppointmentFromDashboard", {"visit", "gate", "outcome"}, {"appointment:deleted"}),
   ToOffices("EditFromDashboard", {"visit"}, Status)}

UrgentOperation ==
  Operation("SubmitUrgentVisit", {"urgentRecord"}, {"urgent_visit:submitted"}, {}, {})

ReportOperations ==
  {ToOffices("CreateCallReport", {"report"}, {"call_report:new"}),
   ToOffices("DeleteCallReports", {"report"}, {"call_report:deleted"})}

ExpenseOperations ==
  {Operation("CreateExpense", {"expense"}, {"expense:new"}, {}, {}),
   Silent("SetExpenseStatus", {"expense"}), Silent("DeleteExpense", {"expense"}),
   Silent("MarkInvoice", {"expense"})}

MessageOperations ==
  {ToAll("SendMessage", {"message"}, {"dm:new"}), Silent("ReadMessage", {"message"}),
   ToAll("DeleteConversation", {"message"}, {"dm:deleted"}),
   Silent("DeleteAllMessages", {"message"})}

WriteAudit == ToAll("WriteAudit", {"log"}, {"audit:new"})
LogOperations ==
  {ToAll("DeleteLogRow", {"log"}, {"audit:deleted"}), ToAll("WipeLog", {"log"}, {"audit:deleted"})}
CreateReminders == ToAll("CreateReminders", {"notification"}, {"notification:new"})
ReadNotifications == Silent("ReadNotifications", {"notification"})

Operations ==
  BookingOperations \cup ApprovalOperations \cup WorkOperations \cup AfterWorkOperations
  \cup CustomerOperations \cup {DeleteAllOperation} \cup DashboardOperations
  \cup {UrgentOperation} \cup ReportOperations \cup ExpenseOperations \cup MessageOperations
  \cup {WriteAudit, CreateReminders, ReadNotifications} \cup LogOperations
Op == {o.name : o \in Operations}
OpNamed == [n \in Op |-> CHOOSE o \in Operations : o.name = n]

-----------------------------------------------------------------------------
(* Queries: what the endpoint of each answers with. *)

Shown == {"customers", "customer", "visit", "started", "gate"}
Reads ==
  [dashboard_stats |-> {"customers", "visit"},
   dashboard_activity |-> {"customers", "customer", "visit", "started", "dismissed"},
   dashboard_drill |-> Shown,
   sched_dashboard_stats |-> {"customers", "visit", "gate"},
   sched_dashboard_activity |-> Shown \cup {"dismissed"},
   sched_drill |-> Shown,
   appointments |-> Shown \ {"customers"},
   pending_visibility |-> {"visit", "gate"},
   pending_export |-> {"gate"},
   export_requests |-> {"gate", "customer"},
   customers_select |-> {"customers", "customer"},
   customers_select_form |-> {"customers", "customer"},
   maintenance_note |-> {"outcome"},
   urgent_appointments |-> {"visit", "gate", "urgentRecord"},
   urgent_visit_records |-> {"urgentRecord"},
   technicians_detail |-> {"visit"},
   admin_expenses |-> {"expense"},
   customers |-> {"customers", "customer", "visit"},
   customers_sched |-> {"customers", "customer", "visit", "gate"},
   customer |-> Shown,
   customer_sched_detail |-> Shown,
   call_reports |-> {"report"},
   activity_feed |-> {"log"},
   activity_feed_sched |-> {"log"},
   notifications |-> {"notification"},
   notif_unread |-> {"notification"},
   dm_unread |-> {"message"},
   dm_conversations |-> {"message"},
   work_queue |-> Shown \ {"customers"},
   appointment |-> Shown \ {"customers"},
   tech_urgent_appointments |-> {"visit", "gate", "urgentRecord"},
   tech_expenses |-> {"expense"},
   urgent_unresolved |-> {"visit", "gate", "urgentRecord"},
   reports_customers |-> {"customers", "customer", "visit"},
   reports_appointments |-> Shown \ {"customers"}]
Query == DOMAIN Reads
WritesTo(o, q) == OpNamed[o].writes \cap Reads[q] # {}

-----------------------------------------------------------------------------
(* Components of the client.  "hears" and "patches" relate events to the   *)
(* queries they refetch, or whose cached copy they edit; "does" relates an *)
(* operation to the queries its success refetches; "within" is what else   *)
(* is on the screen.                                                       *)

On(events, queries) == events \X queries
Does(operations, queries) == {<<o, queries>> : o \in operations}
Component(name, role, within, reads, hears, does) ==
  [name |-> name, role |-> role, within |-> within, reads |-> reads, hears |-> hears,
   does |-> does, polls |-> {}, primed |-> {}, patches |-> {}]

Moves ==
  {"appointment:created", "appointment:deleted", "appointment:status", "appointment:completed",
   "appointment:postponed", "customer:created", "customer:deleted", "customers:bulk-deleted"}
AdminDashboard ==
  Component("AdminDashboard", "ADMIN", {}, {"dashboard_stats", "dashboard_activity"},
    On(Moves, {"dashboard_stats", "dashboard_activity", "dashboard_drill"}),
    Does({"DismissActivity"}, {"dashboard_activity"}))
AdminDrillModal ==
  Component("AdminDrillModal", "ADMIN", {"AdminDashboard"}, {"dashboard_drill"}, {},
    Does({"DeleteCustomerFromDashboard", "DeleteAppointmentFromDashboard", "EditFromDashboard",
          "CreateAppointment"}, {"dashboard_drill", "dashboard_stats"}))
AdminQuickSchedule ==
  Component("AdminQuickSchedule", "ADMIN", {"AdminDashboard", "AdminDrillModal"},
    {"maintenance_note"}, {}, {})
SchedDashboard ==
  Component("SchedDashboard", "SCHEDULING", {},
    {"sched_dashboard_stats", "sched_dashboard_activity"},
    On(Moves, {"sched_dashboard_stats", "sched_dashboard_activity", "sched_drill"}), {})
SchedDrillModal ==
  Component("SchedDrillModal", "SCHEDULING", {"SchedDashboard"}, {"sched_drill"}, {},
    Does({"EditFromDashboard", "CreateAppointment"}, {"sched_drill", "sched_dashboard_stats"}))
SchedQuickSchedule ==
  Component("SchedQuickSchedule", "SCHEDULING", {"SchedDashboard", "SchedDrillModal"},
    {"maintenance_note"}, {}, {})

AppointmentQueries == {"appointments", "pending_visibility", "pending_export"}
AdminAppointments ==
  Component("AdminAppointments", "ADMIN", {},
    AppointmentQueries \cup {"customers_select", "maintenance_note"},
    On({"appointment:deleted", "customer:deleted", "customers:bulk-deleted"},
       AppointmentQueries \cup {"dashboard_stats"}),
    Does({"CreateAppointment", "UpdateAppointment", "ChangeStatus", "ApproveVisibility",
          "ApproveExport"}, AppointmentQueries)
    \cup Does({"DeleteAppointment"}, AppointmentQueries \cup {"dashboard_stats"}))
AppointmentAcceptance ==
  Component("AppointmentAcceptance", "ADMIN", {}, {"export_requests"},
    On({"appointment:status", "appointment:created", "appointment:deleted"}, {"export_requests"}),
    Does({"ApproveExport"}, {"export_requests"})
    \cup Does({"DeleteAppointment"}, {"export_requests", "appointments"}))
AdminUrgentAppointments ==
  Component("AdminUrgentAppointments", "ADMIN", {},
    {"urgent_appointments", "urgent_visit_records"},
    On({"appointment:deleted", "appointment:created"}, {"urgent_appointments", "dashboard_stats"}),
    Does({"CreateForNewCustomer", "CreateAppointment", "DeleteAppointment"},
         {"urgent_appointments", "dashboard_stats"})
    \cup Does({"ApproveVisibility"}, {"urgent_appointments"}))
Technicians == Component("Technicians", "ADMIN", {}, {"technicians_detail"}, {}, {})
\* Fault: a deleted expense is not refetched.
ExpensesLeft ==
  Component("AdminExpenses", "ADMIN", {}, {"admin_expenses"}, {},
    Does({"SetExpenseStatus", "MarkInvoice"}, {"admin_expenses"}) \cup Does({"DeleteExpense"}, {}))
AdminExpenses ==
  Component("AdminExpenses", "ADMIN", {}, {"admin_expenses"}, {},
    Does({"SetExpenseStatus", "DeleteExpense", "MarkInvoice"}, {"admin_expenses"}))

AdminCustomers ==
  Component("AdminCustomers", "ADMIN", {}, {"customers"},
    On({"customer:created", "customer:updated", "customers:bulk-deleted", "customer:deleted"},
       {"customers", "dashboard_stats"}),
    Does({"ToggleActive"}, {"customers"})
    \cup Does({"DeleteCustomer", "DeleteAllCustomers"},
              {"customers", "dashboard_stats", "dashboard_activity"}))
AdminAddCustomer ==
  Component("AdminAddCustomer", "ADMIN", {}, {}, {}, Does({"CreateCustomer", "UpdateCustomer"}, {}))
CustomerDetail(role) ==
  Component("CustomerDetail", role, {}, {"customer"}, {}, {})
CustomerList ==
  Component("CustomerList", "SCHEDULING", {}, {"customers_sched"},
    On({"customer:created", "customer:updated", "customer:deleted"}, {"customers_sched"}), {})
ScheduleModal ==
  Component("ScheduleModal", "SCHEDULING", {"CustomerList"}, {"maintenance_note"}, {},
    Does({"CreateAppointment"}, {"customers_sched"}))
HistoryModal(role, list) ==
  Component("HistoryModal", role, {list}, {"customer_sched_detail"}, {},
    Does({"ChangeStatus"}, {"customer_sched_detail"}))
SchedAddCustomer ==
  Component("SchedAddCustomer", "SCHEDULING", {}, {}, {},
    Does({"CreateCustomer", "UpdateCustomer"}, {}))

CallReports(role) ==
  Component("CallReports", role, {}, {"call_reports"},
    On({"call_report:new", "call_report:deleted"}, {"call_reports"}),
    Does({"DeleteCallReports"}, {"call_reports"}))
AdminCallReports == CallReports("ADMIN")
SchedCallReports == CallReports("SCHEDULING")
CallReportForm(role) ==
  Component("CallReportForm", role, {"CallReports"}, {"customers_select_form"}, {},
    Does({"CreateCallReport"}, {"call_reports"}))
AdminCallReportForm == CallReportForm("ADMIN")
SchedCallReportForm == CallReportForm("SCHEDULING")

AdminMessages ==
  [Component("AdminMessages", "ADMIN", {}, {"activity_feed"}, On({"audit:new"}, {"activity_feed"}),
     Does({"DeleteLogRow", "WipeLog"}, {}))
   EXCEPT !.patches = On({"audit:deleted", "DeleteLogRow", "WipeLog"}, {"activity_feed"})]
SchedMessages ==
  [Component("SchedMessages", "SCHEDULING", {}, {"activity_feed_sched"},
     On({"audit:new"}, {"activity_feed_sched"}), {})
   EXCEPT !.patches = On({"audit:deleted"}, {"activity_feed_sched"})]
Notifications(role) ==
  Component("Notifications", role, {}, {"notifications"},
    On({"notification:new"}, {"notifications"}),
    Does({"ReadNotifications"}, {"notifications", "notif_unread"}))
AdminNotifications == Notifications("ADMIN")
SchedNotifications == Notifications("SCHEDULING")
TechNotifications == Notifications("TECHNICIAN")
DirectMessages(role) ==
  [Component("DirectMessages", role, {}, {"dm_conversations"}, {},
     Does({"ReadMessage", "SendMessage", "DeleteConversation", "DeleteAllMessages"},
          {"dm_conversations"}))
   EXCEPT !.polls = {"dm_conversations"}]

WorkQueue ==
  Component("WorkQueue", "TECHNICIAN", {}, {"work_queue"},
    On({"appointment:created", "appointment:started", "appointment:completed",
        "appointment:postponed", "appointment:deleted", "customer:deleted",
        "customers:bulk-deleted"}, {"work_queue"}), {})
TaskDetail ==
  Component("TaskDetail", "TECHNICIAN", {}, {"appointment"}, {},
    Does({"Start"}, {"work_queue", "appointment"}) \cup Does({"Complete", "Postpone"}, {}))
TechUrgentAppointments ==
  Component("TechUrgentAppointments", "TECHNICIAN", {}, {"tech_urgent_appointments"},
    On({"appointment:created", "appointment:deleted", "customer:deleted"},
       {"tech_urgent_appointments"}),
    Does({"SubmitUrgentVisit"}, {"tech_urgent_appointments", "urgent_unresolved"}))
TechExpenses ==
  Component("TechExpenses", "TECHNICIAN", {}, {"tech_expenses"}, {},
    Does({"CreateExpense"}, {"tech_expenses"}))
Reports ==
  Component("Reports", "ADMIN", {}, {"reports_customers", "reports_appointments"}, {}, {})

Badges == {"notif_unread", "dm_unread"}
UrgentNews == {"appointment:created", "appointment:deleted", "urgent_visit:submitted"}
Sidebar(role, feed, hears) ==
  LET counted == Badges \cup {h[2] : h \in hears}
  IN [Component("Sidebar", role, {}, counted \cup feed, hears, {})
      EXCEPT !.polls = counted, !.primed = counted \cup feed]
AdminSidebar == Sidebar("ADMIN", {"activity_feed"}, On(UrgentNews, {"urgent_unresolved"}))
SchedSidebar == Sidebar("SCHEDULING", {"activity_feed_sched"}, {})
TechSidebar == Sidebar("TECHNICIAN", {}, On(UrgentNews, {"urgent_unresolved"}))

Components ==
  {AdminDashboard, AdminDrillModal, AdminQuickSchedule, SchedDashboard, SchedDrillModal,
   SchedQuickSchedule, AdminAppointments, AppointmentAcceptance, AdminUrgentAppointments,
   Technicians, AdminExpenses, AdminCustomers, AdminAddCustomer, CustomerDetail("ADMIN"),
   CustomerDetail("SCHEDULING"), CustomerList, ScheduleModal,
   HistoryModal("SCHEDULING", "CustomerList"), HistoryModal("ADMIN", "AdminCustomers"),
   SchedAddCustomer, AdminCallReports, SchedCallReports, AdminCallReportForm,
   SchedCallReportForm, AdminMessages, SchedMessages, AdminNotifications, SchedNotifications,
   TechNotifications, DirectMessages("ADMIN"), DirectMessages("SCHEDULING"),
   DirectMessages("TECHNICIAN"), WorkQueue, TaskDetail, TechUrgentAppointments, TechExpenses,
   Reports, AdminSidebar, SchedSidebar, TechSidebar}

\* What matters for query q on the screens of one role: the places the user
\* can be at, which components read or poll q, which events make them refetch
\* or patch it, and the operations they offer that write what q reads.
Wiring(role, q) ==
  LET all == {c \in Components : c.role = role}
      Touches(c) ==
        \/ q \in c.reads
        \/ \E pair \in c.hears \cup c.patches : pair[2] = q
        \/ \E pair \in c.does : q \in pair[2]
      relevant == {c \in all : Touches(c)}
      names == {c.name : c \in relevant}
  IN [places |-> {(c.within \cup {c.name, "Sidebar"}) \cap names : c \in all},
      observers |-> {c.name : c \in {d \in relevant : q \in d.reads}},
      pollers |-> {c.name : c \in {d \in relevant : q \in d.polls}},
      listeners |-> {c.name : c \in {d \in relevant : \E pair \in d.hears \cup d.patches : pair[2] = q}},
      primed |-> \E c \in relevant : q \in c.primed,
      hears |-> UNION {{c.name} \X {pair[1] : pair \in {h \in c.hears : h[2] = q}} : c \in relevant},
      patches |-> UNION {{c.name} \X {pair[1] : pair \in {h \in c.patches : h[2] = q}} : c \in relevant},
      offers |-> UNION {{<<c.name, pair[1], q \in pair[2]>> :
                           pair \in {d \in c.does : WritesTo(d[1], q)}} : c \in relevant},
      writers |-> {o \in Op : WritesTo(o, q)},
      tells |-> [o \in {p \in Op : WritesTo(p, q)} |-> OpNamed[o].tells[role]]]
=============================================================================
