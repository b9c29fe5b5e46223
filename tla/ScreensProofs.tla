----------------------------- MODULE ScreensProofs -----------------------------
(***************************************************************************)
(* Proofs about Screens, for every set of queries and every bound: what is *)
(* meant to follow on its own is up to date whenever the client is at      *)
(* rest, and what a user changes where it is shown is shown there.         *)
(*                                                                         *)
(* Neither holds of any wiring.  The first part establishes the four facts *)
(* about the table they rest on, component by component and operation by   *)
(* operation; the second shows that with them the cache keeps up.          *)
(***************************************************************************)
EXTENDS Screens, TLAPS

-----------------------------------------------------------------------------
(* What the components of the table read and edit.                           *)

\* What may be on the screen with a component.
Around(c) == c.within \cup {c.name, "Sidebar"}

TechQueries ==
  {"notifications", "dm_conversations", "work_queue", "appointment", "tech_urgent_appointments",
   "tech_expenses", "urgent_unresolved", "notif_unread", "dm_unread"}

OnlyBy(c, q, name) == q \in c.reads => c.name = name
Apart(c, a, b) == ~(a \in Around(c) /\ b \in Around(c))

\* Technicians read their own queries; the queries that some page leaves out
\* of date are read by one page each, never on the screen with it; only the
\* feeds are edited.
Card(c) ==
  /\ c.role # "TECHNICIAN" => "work_queue" \notin c.reads
  /\ c.role = "TECHNICIAN" => c.reads \subseteq TechQueries
  /\ OnlyBy(c, "dashboard_stats", "AdminDashboard")
  /\ OnlyBy(c, "dashboard_activity", "AdminDashboard")
  /\ OnlyBy(c, "appointments", "AdminAppointments")
  /\ OnlyBy(c, "work_queue", "WorkQueue")
  /\ Apart(c, "AdminDashboard", "AdminAppointments")
  /\ Apart(c, "AdminDashboard", "AdminCustomers")
  /\ Apart(c, "AdminAppointments", "AppointmentAcceptance")
  /\ Apart(c, "WorkQueue", "TaskDetail")
  /\ \A h \in c.patches :
       \/ c = AdminMessages /\ h[2] = "activity_feed"
       \/ c = SchedMessages /\ h[2] = "activity_feed_sched"
  /\ c.name = "AdminMessages" => c.role = "ADMIN"

LEMMA Cards == ASSUME NEW c \in Components PROVE Card(c)
<1> USE DEF Card, Around, TechQueries, OnlyBy, Apart, Component, On, Does
<1>1. CASE c \in {AdminDashboard, AdminDrillModal, AdminQuickSchedule, SchedDashboard,
                    SchedDrillModal, SchedQuickSchedule}
  BY <1>1 DEF AdminDashboard, AdminDrillModal, AdminQuickSchedule, SchedDashboard,
     SchedDrillModal, SchedQuickSchedule
<1>2. CASE c \in {AdminAppointments, AppointmentAcceptance, AdminUrgentAppointments,
                    Technicians, AdminExpenses}
  BY <1>2 DEF AdminAppointments, AppointmentQueries, AppointmentAcceptance,
     AdminUrgentAppointments, Technicians, AdminExpenses
<1>3. CASE c \in {AdminCustomers, AdminAddCustomer, CustomerDetail("ADMIN"),
                    CustomerDetail("SCHEDULING"), CustomerList, ScheduleModal}
  BY <1>3 DEF AdminCustomers, AdminAddCustomer, CustomerDetail, CustomerList, ScheduleModal
<1>4. CASE c \in {HistoryModal("SCHEDULING", "CustomerList"), HistoryModal("ADMIN",
                    "AdminCustomers"), SchedAddCustomer, AdminCallReports, SchedCallReports,
                    AdminCallReportForm, SchedCallReportForm}
  BY <1>4 DEF HistoryModal, SchedAddCustomer, AdminCallReports, SchedCallReports, CallReports,
     AdminCallReportForm, SchedCallReportForm, CallReportForm
<1>5. CASE c = AdminMessages BY <1>5 DEF AdminMessages
<1>6. CASE c = SchedMessages BY <1>6 DEF SchedMessages
<1>7. CASE c \in {AdminNotifications, SchedNotifications, TechNotifications}
  BY <1>7 DEF AdminNotifications, SchedNotifications, TechNotifications, Notifications
<1>8. CASE c = DirectMessages("ADMIN") BY <1>8 DEF DirectMessages
<1>9. CASE c = DirectMessages("SCHEDULING") BY <1>9 DEF DirectMessages
<1>10. CASE c = DirectMessages("TECHNICIAN") BY <1>10 DEF DirectMessages
<1>11. CASE c \in {WorkQueue, TaskDetail, TechUrgentAppointments, TechExpenses, Reports}
  BY <1>11 DEF WorkQueue, TaskDetail, TechUrgentAppointments, TechExpenses, Reports
<1>12. CASE c = AdminSidebar BY <1>12 DEF AdminSidebar, Sidebar, Badges, UrgentNews
<1>13. CASE c = SchedSidebar BY <1>13 DEF SchedSidebar, Sidebar, Badges
<1>14. CASE c = TechSidebar BY <1>14 DEF TechSidebar, Sidebar, Badges, UrgentNews
<1> QED BY <1>1, <1>2, <1>3, <1>4, <1>5, <1>6, <1>7, <1>8, <1>9, <1>10, <1>11, <1>12, <1>13,
       <1>14 DEF Components

-----------------------------------------------------------------------------
(* The operations: whom they tell, and what they write.                      *)

Stats == {"dashboard_stats", "sched_dashboard_stats", "call_reports"}
Overviews ==
  {"dashboard_activity", "sched_dashboard_activity", "dashboard_drill", "sched_drill",
   "export_requests"}
\* What every role is told of.
Booked == Creations \cup Deletions \cup {"ApproveExport", "Complete", "Postpone", "CreateReminders"}

\* What is meant to follow what.
LEMMA LiveCases ==
  ASSUME NEW q, NEW o \in Live(q)
  PROVE  \/ q \in Stats
         \/ q \in Overviews /\ o \notin InPlace
         \/ o \in Booked
         \/ q = "work_queue" /\ o = "Start"
         \/ /\ q \in {"customers", "customers_sched"}
            /\ o \in CustomerChanges \cup {"DeleteAllCustomers"}
<1>1. CASE q \in Stats BY <1>1
<1>2. CASE q \in Overviews BY <1>2 DEF Live, Overviews
<1>3. CASE q \in {"appointments", "pending_visibility", "pending_export"}
  BY <1>3 DEF Live, Booked
<1>4. CASE q \in {"urgent_appointments", "tech_urgent_appointments", "urgent_unresolved"}
  BY <1>4 DEF Live, Booked
<1>5. CASE q \in {"customers", "customers_sched"} BY <1>5 DEF Live
<1>6. CASE q = "work_queue" BY <1>6 DEF Live, Booked
<1>7. CASE q = "notifications" BY <1>7 DEF Live, Booked
<1> QED BY <1>1, <1>2, <1>3, <1>4, <1>5, <1>6, <1>7 DEF Live, Stats, Overviews

LEMMA StatsRead ==
  ASSUME NEW q \in Stats PROVE Reads[q] \subseteq {"customers", "visit", "gate", "report"}
BY DEF Stats, Reads
LEMMA OverviewsRead ==
  ASSUME NEW q \in Overviews PROVE Reads[q] \subseteq Shown \cup {"dismissed"}
BY DEF Overviews, Reads, Shown

\* A role whose screens are meant to follow an operation is told of it.
Announced(p) ==
  \A q : p.name \in Live(q) /\ p.writes \cap Reads[q] # {} =>
    /\ p.tells["ADMIN"] # {}
    /\ q # "work_queue" => p.tells["SCHEDULING"] # {}
    /\ q \in TechQueries => p.tells["TECHNICIAN"] # {}

LEMMA AnnouncedToAll ==
  ASSUME NEW n, NEW w, NEW a, NEW s, NEW t, a # {}, s # {}, t # {}
  PROVE  Announced(Operation(n, w, a, s, t))
BY DEF Announced, Operation

\* What is only told to the offices no technician's screen follows.
LEMMA AnnouncedToOffices ==
  ASSUME NEW n, NEW w, NEW a, NEW s, NEW t, a # {}, s # {}, n \notin Booked \cup {"Start"}
  PROVE  Announced(Operation(n, w, a, s, t))
<1> DEFINE p == Operation(n, w, a, s, t)
<1>1. p.name = n /\ p.tells["ADMIN"] = a /\ p.tells["SCHEDULING"] = s BY DEF Operation
<1>2. \A q \in TechQueries : n \notin Live(q) BY LiveCases DEF TechQueries, Stats, Overviews
<1> QED BY <1>1, <1>2 DEF Announced

\* What is not told to both offices changes nothing they follow.
LEMMA NotFollowed ==
  ASSUME NEW n, NEW w, NEW a, NEW s, NEW t,
         n \notin Booked \cup CustomerChanges \cup {"DeleteAllCustomers", "Start"},
         \/ w \subseteq {"expense", "message", "notification", "urgentRecord", "log"}
         \/ n \in InPlace /\ w \subseteq {"dismissed"}
  PROVE  Announced(Operation(n, w, a, s, t))
<1> DEFINE p == Operation(n, w, a, s, t)
<1>1. p.name = n /\ p.writes = w BY DEF Operation
<1> SUFFICES ASSUME NEW q, n \in Live(q), w \cap Reads[q] # {} PROVE FALSE
  BY <1>1 DEF Announced
<1>2. CASE q \in Stats BY <1>2, StatsRead
<1>3. CASE q \in Overviews /\ n \notin InPlace BY <1>3, OverviewsRead DEF Shown
<1> QED BY <1>2, <1>3, LiveCases

LEMMA StartIsAnnounced ==
  ASSUME NEW a, NEW s, NEW t, a # {}, t # {}
  PROVE  Announced(Operation("Start", {"started"}, a, s, t))
<1> DEFINE p == Operation("Start", {"started"}, a, s, t)
<1>1. /\ p.name = "Start" /\ p.writes = {"started"}
      /\ p.tells["ADMIN"] = a /\ p.tells["TECHNICIAN"] = t
  BY DEF Operation
<1> SUFFICES ASSUME NEW q, "Start" \in Live(q), {"started"} \cap Reads[q] # {}, q # "work_queue"
             PROVE  FALSE
  BY <1>1 DEF Announced
<1>2. CASE q \in Stats BY <1>2, StatsRead
<1> QED
  BY <1>2, LiveCases DEF InPlace, Booked, Creations, Deletions, CustomerChanges

\* The operations, one group of the table after another.
LEMMA AllAnnounced == ASSUME NEW p \in Operations PROVE Announced(p)
<1> USE DEF ToAll, ToOffices, Silent, Status
<1>1. CASE p \in BookingOperations
  BY <1>1, AnnouncedToAll, AnnouncedToOffices
  DEF BookingOperations, Booked, Creations, Deletions
<1>2. CASE p \in ApprovalOperations
  BY <1>2, AnnouncedToAll, AnnouncedToOffices
  DEF ApprovalOperations, Booked, Creations, Deletions
<1>3. CASE p \in WorkOperations BY <1>3, AnnouncedToAll, StartIsAnnounced DEF WorkOperations
<1>4. CASE p \in AfterWorkOperations
  BY <1>4, AnnouncedToAll, AnnouncedToOffices
  DEF AfterWorkOperations, Booked, Creations, Deletions
<1>5. CASE p \in CustomerOperations \cup {DeleteAllOperation}
  BY <1>5, AnnouncedToAll, AnnouncedToOffices
  DEF CustomerOperations, DeleteAllOperation, Booked, Creations, Deletions
<1>6. CASE p \in DashboardOperations
  BY <1>6, AnnouncedToAll, AnnouncedToOffices, NotFollowed
  DEF DashboardOperations, Booked, Creations, Deletions, CustomerChanges, InPlace
<1>7. CASE p \in {UrgentOperation} \cup ReportOperations
  BY <1>7, AnnouncedToOffices, NotFollowed
  DEF UrgentOperation, ReportOperations, Booked, Creations, Deletions, CustomerChanges, InPlace
<1>8. CASE p \in ExpenseOperations \cup MessageOperations \cup {ReadNotifications}
  BY <1>8, AnnouncedToAll, NotFollowed
  DEF ExpenseOperations, MessageOperations, ReadNotifications, Booked, Creations, Deletions,
      CustomerChanges, InPlace
<1>9. CASE p \in {WriteAudit, CreateReminders} \cup LogOperations
  BY <1>9, AnnouncedToAll DEF WriteAudit, CreateReminders, LogOperations
<1> QED BY <1>1, <1>2, <1>3, <1>4, <1>5, <1>6, <1>7, <1>8, <1>9 DEF Operations

LEMMA Named == ASSUME NEW n \in Op PROVE OpNamed[n] \in Operations /\ OpNamed[n].name = n
<1>1. \E o \in Operations : o.name = n BY DEF Op
<1> QED BY <1>1 DEF OpNamed

Touches(c, q) ==
  \/ q \in c.reads
  \/ \E pair \in c.hears \cup c.patches : pair[2] = q
  \/ \E pair \in c.does : q \in pair[2]

\* The components that offer an operation, know a query it changes, and do
\* not refresh it.
Gaps ==
  ({"AdminAppointments"} \X {"CreateAppointment", "UpdateAppointment", "ChangeStatus"}
     \X {"dashboard_stats"})
  \cup {<<"AdminCustomers", "ToggleActive", "dashboard_activity">>,
        <<"AppointmentAcceptance", "ApproveExport", "appointments">>,
        <<"AdminAppointments", "DeleteAppointment", "maintenance_note">>}
  \cup ({"AdminMessages"} \X {"DeleteLogRow", "WipeLog"} \X {"activity_feed"})
  \cup ({"TaskDetail"} \X {"Complete", "Postpone"} \X {"work_queue", "appointment"})

HasGaps(c) ==
  \A q : \A pair \in c.does :
    Touches(c, q) /\ q \notin pair[2] /\ WritesTo(pair[1], q) => <<c.name, pair[1], q>> \in Gaps

\* What the operations behind the gaps, or beside them, write.
Written(p) ==
  /\ p.name \in {"CreateAppointment", "UpdateAppointment", "ChangeStatus"} => p.writes = {"visit"}
  /\ p.name = "CreateForNewCustomer" => p.writes = {"visit", "customers"}
  /\ p.name \in {"ApproveVisibility", "ApproveExport"} => p.writes = {"gate"}
  /\ p.name = "DeleteAppointment" => p.writes = {"visit", "gate", "outcome"}
  /\ p.name = "ToggleActive" => p.writes = {"customer"}
  /\ p.name = "CreateCallReport" => p.writes = {"report"}
  /\ p.name = "DismissActivity" => p.writes = {"dismissed"}

LEMMA AllWritten == ASSUME NEW p \in Operations PROVE Written(p)
<1> USE DEF ToAll, ToOffices, Silent, Operation, Written
<1>1. CASE p \in BookingOperations BY <1>1 DEF BookingOperations
<1>2. CASE p \in ApprovalOperations BY <1>2 DEF ApprovalOperations
<1>3. CASE p \in WorkOperations BY <1>3 DEF WorkOperations
<1>4. CASE p \in AfterWorkOperations BY <1>4 DEF AfterWorkOperations
<1>5. CASE p \in CustomerOperations \cup {DeleteAllOperation}
  BY <1>5 DEF CustomerOperations, DeleteAllOperation
<1>6. CASE p \in DashboardOperations BY <1>6 DEF DashboardOperations
<1>7. CASE p \in {UrgentOperation} \cup ReportOperations
  BY <1>7 DEF UrgentOperation, ReportOperations
<1>8. CASE p \in ExpenseOperations \cup MessageOperations \cup {ReadNotifications}
  BY <1>8 DEF ExpenseOperations, MessageOperations, ReadNotifications
<1>9. CASE p \in {WriteAudit, CreateReminders} \cup LogOperations
  BY <1>9 DEF WriteAudit, CreateReminders, LogOperations
<1> QED BY <1>1, <1>2, <1>3, <1>4, <1>5, <1>6, <1>7, <1>8, <1>9 DEF Operations

NamedWrites ==
  /\ \A n \in {"CreateAppointment", "UpdateAppointment", "ChangeStatus"} :
       OpNamed[n].writes = {"visit"}
  /\ OpNamed["CreateForNewCustomer"].writes = {"visit", "customers"}
  /\ \A n \in {"ApproveVisibility", "ApproveExport"} : OpNamed[n].writes = {"gate"}
  /\ OpNamed["DeleteAppointment"].writes = {"visit", "gate", "outcome"}
  /\ OpNamed["ToggleActive"].writes = {"customer"}
  /\ OpNamed["CreateCallReport"].writes = {"report"}
  /\ OpNamed["DismissActivity"].writes = {"dismissed"}

LEMMA TheyExist ==
  {"CreateAppointment", "CreateForNewCustomer", "UpdateAppointment", "ChangeStatus",
   "ApproveVisibility", "ApproveExport", "DeleteAppointment", "ToggleActive",
   "CreateCallReport", "DismissActivity"} \subseteq Op
<1> USE DEF ToAll, ToOffices, Silent, Operation
<1>1. {"CreateAppointment", "CreateForNewCustomer", "UpdateAppointment", "ApproveVisibility"}
        \subseteq {o.name : o \in BookingOperations}
  BY DEF BookingOperations
<1>2. {"ChangeStatus", "ApproveExport"} \subseteq {o.name : o \in ApprovalOperations}
  BY DEF ApprovalOperations
<1>3. "DeleteAppointment" \in {o.name : o \in AfterWorkOperations} BY DEF AfterWorkOperations
<1>4. "ToggleActive" \in {o.name : o \in CustomerOperations} BY DEF CustomerOperations
<1>5. "CreateCallReport" \in {o.name : o \in ReportOperations} BY DEF ReportOperations
<1>6. "DismissActivity" \in {o.name : o \in DashboardOperations} BY DEF DashboardOperations
<1>7. \A ops \in {BookingOperations, ApprovalOperations, AfterWorkOperations,
                  CustomerOperations, ReportOperations, DashboardOperations} :
        {o.name : o \in ops} \subseteq Op
  BY DEF Op, Operations
<1> QED BY <1>1, <1>2, <1>3, <1>4, <1>5, <1>6, <1>7

LEMMA WritesOf == NamedWrites
BY TheyExist, Named, AllWritten DEF NamedWrites, Written

\* There are no others.
LEMMA AllGaps == ASSUME NEW c \in Components PROVE HasGaps(c)
<1> USE DEF HasGaps, Touches, Component, Does, On
<1>1. CASE c = AdminDashboard
  BY <1>1, WritesOf DEF AdminDashboard, Moves, NamedWrites, WritesTo, Gaps, Reads, Shown
<1>2. CASE c \in {AdminDrillModal, AdminQuickSchedule, SchedDashboard, SchedDrillModal,
                    SchedQuickSchedule}
  BY <1>2 DEF AdminDrillModal, AdminQuickSchedule, SchedDashboard, SchedDrillModal,
     SchedQuickSchedule
<1>3. CASE c = AdminAppointments
  BY <1>3, WritesOf DEF AdminAppointments, AppointmentQueries, NamedWrites, WritesTo, Gaps,
     Reads, Shown
<1>4. CASE c = AppointmentAcceptance
  BY <1>4, WritesOf DEF AppointmentAcceptance, NamedWrites, WritesTo, Gaps, Reads, Shown
<1>5. CASE c = AdminUrgentAppointments
  <2>1. \A q : Touches(c, q) =>
          q \in {"urgent_appointments", "urgent_visit_records", "dashboard_stats"}
    BY <1>5 DEF AdminUrgentAppointments
  <2>2. \A pair \in c.does :
          \/ {"urgent_appointments", "dashboard_stats"} \subseteq pair[2]
             /\ pair[1] \in {"CreateForNewCustomer", "CreateAppointment", "DeleteAppointment"}
          \/ pair[1] = "ApproveVisibility" /\ "urgent_appointments" \in pair[2]
    BY <1>5 DEF AdminUrgentAppointments
  <2>3. /\ ~WritesTo("ApproveVisibility", "dashboard_stats")
        /\ \A o \in {"CreateForNewCustomer", "CreateAppointment", "DeleteAppointment",
                     "ApproveVisibility"} : ~WritesTo(o, "urgent_visit_records")
    BY WritesOf DEF NamedWrites, WritesTo, Reads
  <2> QED BY <2>1, <2>2, <2>3
<1>6. CASE c \in {Technicians, AdminExpenses, AdminAddCustomer, CustomerDetail("ADMIN"),
                    CustomerDetail("SCHEDULING"), CustomerList}
  BY <1>6 DEF Technicians, AdminExpenses, AdminAddCustomer, CustomerDetail, CustomerList
<1>7. CASE c = AdminCustomers
  BY <1>7, WritesOf DEF AdminCustomers, NamedWrites, WritesTo, Gaps, Reads, Shown
<1>8. CASE c = ScheduleModal
  BY <1>8, WritesOf DEF ScheduleModal, NamedWrites, WritesTo, Gaps, Reads, Shown
<1>9. CASE c \in {HistoryModal("SCHEDULING", "CustomerList"), HistoryModal("ADMIN",
                    "AdminCustomers"), SchedAddCustomer, AdminCallReports, SchedCallReports}
  BY <1>9 DEF HistoryModal, SchedAddCustomer, AdminCallReports, SchedCallReports, CallReports
<1>10. CASE c \in {AdminCallReportForm, SchedCallReportForm}
  BY <1>10, WritesOf DEF AdminCallReportForm, SchedCallReportForm, CallReportForm, NamedWrites,
     WritesTo, Gaps, Reads, Shown
<1>11. CASE c = AdminMessages
  BY <1>11, WritesOf DEF AdminMessages, NamedWrites, WritesTo, Gaps, Reads, Shown
<1>12. CASE c \in {SchedMessages, AdminNotifications, SchedNotifications, TechNotifications}
  BY <1>12 DEF SchedMessages, AdminNotifications, SchedNotifications, TechNotifications,
     Notifications
<1>13. CASE c = TaskDetail
  BY <1>13, WritesOf DEF TaskDetail, NamedWrites, WritesTo, Gaps, Reads, Shown
<1>14. CASE c \in {WorkQueue, TechUrgentAppointments, TechExpenses, Reports}
  BY <1>14 DEF WorkQueue, TechUrgentAppointments, TechExpenses, Reports
<1>15. CASE c \in {AdminSidebar, SchedSidebar, TechSidebar}
  BY <1>15 DEF AdminSidebar, SchedSidebar, TechSidebar, Sidebar
<1>16. CASE c = DirectMessages("ADMIN") BY <1>16 DEF DirectMessages
<1>17. CASE c = DirectMessages("SCHEDULING") BY <1>17 DEF DirectMessages
<1>18. CASE c = DirectMessages("TECHNICIAN") BY <1>18 DEF DirectMessages
<1> QED BY <1>1, <1>2, <1>3, <1>4, <1>5, <1>6, <1>7, <1>8, <1>9, <1>10, <1>11, <1>12, <1>13,
       <1>14, <1>15, <1>16, <1>17, <1>18 DEF Components

-----------------------------------------------------------------------------
(* The wiring of a query.                                                    *)

LEMMA WiringOf ==
  ASSUME NEW r, NEW q
  PROVE  LET w == Wiring(r, q)
             all == {c \in Components : c.role = r}
             relevant == {d \in all : Touches(d, q)}
         IN /\ w.places = {Around(c) \cap {d.name : d \in relevant} : c \in all}
            /\ w.observers = {c.name : c \in {d \in all : q \in d.reads}}
            /\ w.patches = UNION {{c.name} \X {h[1] : h \in {g \in c.patches : g[2] = q}} :
                                     c \in relevant}
            /\ w.offers = UNION {{<<c.name, pair[1], q \in pair[2]>> :
                                     pair \in {d \in c.does : WritesTo(d[1], q)}} : c \in relevant}
            /\ w.writers = {o \in Op : WritesTo(o, q)}
            /\ \A o \in w.writers : w.tells[o] = OpNamed[o].tells[r]
<1> DEFINE all == {c \in Components : c.role = r}
           relevant == {d \in all : Touches(d, q)}
<1>1. Wiring(r, q).observers = {c.name : c \in {d \in relevant : q \in d.reads}}
  BY DEF Wiring, Touches
<1>2. Wiring(r, q).places = {Around(c) \cap {d.name : d \in relevant} : c \in all}
  BY DEF Wiring, Touches, Around
<1>3. {d \in relevant : q \in d.reads} = {d \in all : q \in d.reads} BY DEF Touches
<1>4. Wiring(r, q).patches =
        UNION {{c.name} \X {h[1] : h \in {g \in c.patches : g[2] = q}} : c \in relevant}
  BY DEF Wiring, Touches
<1>5. Wiring(r, q).offers =
        UNION {{<<c.name, pair[1], q \in pair[2]>> :
                  pair \in {d \in c.does : WritesTo(d[1], q)}} : c \in relevant}
  BY DEF Wiring, Touches
<1>6. /\ Wiring(r, q).writers = {o \in Op : WritesTo(o, q)}
      /\ Wiring(r, q).tells = [o \in {p \in Op : WritesTo(p, q)} |-> OpNamed[o].tells[r]]
  BY DEF Wiring
<1> QED BY <1>1, <1>2, <1>3, <1>4, <1>5, <1>6

\* An operation that a screen is meant to follow is announced to its role.
LiveIsTold == \A o \in Live(query) \cap wiring.writers : Tells(o) # {}

\* A query that is meant to follow is never edited in place.
LiveIsNotPatched == Live(query) # {} => wiring.patches = {}

FirstPlace == {"Sidebar"} \cap UNION wiring.places

\* A query that is edited in place is on the screen wherever the user is.
PatchedIsShown ==
  wiring.patches # {} =>
    \A place \in wiring.places \cup {FirstPlace} : place \cap wiring.observers # {}

\* Where an operation is offered beside the query it changes, its success
\* refreshes or edits the copy.
OffersShow ==
  \A offer \in wiring.offers, place \in wiring.places \cup {FirstPlace} :
    offer[1] \in place /\ place \cap wiring.observers # {} /\ ~offer[3] =>
      <<offer[1], offer[2]>> \in wiring.patches \/ offer[2] \in LeftBehind(query)

TableFacts == LiveIsTold /\ LiveIsNotPatched /\ PatchedIsShown /\ OffersShow


\* The wiring of a query that some component of the role reads.
Wired(r, q) == r \in Role /\ q \in Query /\ wiring = Wiring(r, q) /\ wiring.observers # {}

LEMMA Reader ==
  ASSUME NEW r, NEW q, Wired(r, q)
  PROVE  \E c \in Components : c.role = r /\ q \in c.reads
<1>1. wiring.observers = {c.name : c \in {d \in {e \in Components : e.role = r} : q \in d.reads}}
  BY WiringOf DEF Wired
<1> QED BY <1>1 DEF Wired

LEMMA ToldIfLive == ASSUME Wired(role, query) PROVE LiveIsTold
<1> SUFFICES ASSUME NEW o \in Live(query), o \in wiring.writers PROVE Tells(o) # {}
  BY DEF LiveIsTold
<1>1. wiring = Wiring(role, query) /\ role \in Role BY DEF Wired
<1>2. wiring.writers = {p \in Op : WritesTo(p, query)} /\ wiring.tells[o] = OpNamed[o].tells[role]
  BY <1>1, WiringOf
<1>3. o \in Op /\ OpNamed[o].writes \cap Reads[query] # {} BY <1>2 DEF WritesTo
<1>4. /\ OpNamed[o].tells["ADMIN"] # {}
      /\ query # "work_queue" => OpNamed[o].tells["SCHEDULING"] # {}
      /\ query \in TechQueries => OpNamed[o].tells["TECHNICIAN"] # {}
  BY <1>3, Named, AllAnnounced DEF Announced
<1>5. PICK c \in Components : c.role = role /\ query \in c.reads BY Reader
<1>6. /\ role # "TECHNICIAN" => query # "work_queue"
      /\ role = "TECHNICIAN" => query \in TechQueries
  BY <1>5, Cards DEF Card
<1> QED BY <1>1, <1>2, <1>4, <1>6 DEF Role, Tells

LEMMA NotPatchedIfLive == ASSUME Wired(role, query) PROVE LiveIsNotPatched
<1> SUFFICES ASSUME wiring.patches # {} PROVE Live(query) = {}
  BY DEF LiveIsNotPatched
<1>1. wiring.patches = UNION {{c.name} \X {h[1] : h \in {g \in c.patches : g[2] = query}} :
                                c \in {d \in {e \in Components : e.role = role} : Touches(d, query)}}
  BY WiringOf DEF Wired
<1>2. PICK c \in Components : \E h \in c.patches : h[2] = query BY <1>1
<1>3. query \in {"activity_feed", "activity_feed_sched"} BY <1>2, Cards DEF Card
<1> QED BY <1>3 DEF Live

\* The sidebars of the offices read the feeds.
LEMMA Feeds ==
  /\ \A c \in {AdminSidebar, SchedSidebar} : c \in Components /\ c.name = "Sidebar"
  /\ AdminSidebar.role = "ADMIN" /\ "activity_feed" \in AdminSidebar.reads
  /\ SchedSidebar.role = "SCHEDULING" /\ "activity_feed_sched" \in SchedSidebar.reads
  /\ AdminMessages.role = "ADMIN" /\ SchedMessages.role = "SCHEDULING"
BY DEF AdminSidebar, SchedSidebar, AdminMessages, SchedMessages, Sidebar, Component, Components

LEMMA ShownIfPatched == ASSUME Wired(role, query) PROVE PatchedIsShown
<1> SUFFICES ASSUME wiring.patches # {}, NEW place \in wiring.places \cup {FirstPlace}
             PROVE  place \cap wiring.observers # {}
  BY DEF PatchedIsShown
<1> DEFINE all == {c \in Components : c.role = role}
           names == {c.name : c \in {d \in all : Touches(d, query)}}
<1>1. /\ wiring.places = {Around(c) \cap names : c \in all}
      /\ wiring.observers = {c.name : c \in {d \in all : query \in d.reads}}
      /\ wiring.patches = UNION {{c.name} \X {h[1] : h \in {g \in c.patches : g[2] = query}} :
                                   c \in {d \in all : Touches(d, query)}}
  BY WiringOf DEF Wired
<1>2. PICK c \in all : \E h \in c.patches : h[2] = query BY <1>1
<1>3. \/ c = AdminMessages /\ query = "activity_feed"
      \/ c = SchedMessages /\ query = "activity_feed_sched"
  BY <1>2, Cards DEF Card
<1>4. \E d \in all : d.name = "Sidebar" /\ query \in d.reads BY <1>2, <1>3, Feeds
<1>5. "Sidebar" \in names BY <1>4 DEF Touches
<1>6. "Sidebar" \in wiring.observers BY <1>1, <1>4
<1>7. \A p \in wiring.places : "Sidebar" \in p BY <1>1, <1>5 DEF Around
<1>8. Around(c) \cap names \in wiring.places BY <1>1, <1>2
<1>9. "Sidebar" \in FirstPlace BY <1>7, <1>8 DEF FirstPlace
<1> QED BY <1>6, <1>7, <1>9

LEMMA ShowsIfOffered == ASSUME Wired(role, query) PROVE OffersShow
<1> DEFINE all == {c \in Components : c.role = role}
           relevant == {d \in all : Touches(d, query)}
<1> SUFFICES ASSUME NEW offer \in wiring.offers, NEW place \in wiring.places \cup {FirstPlace},
                    offer[1] \in place, place \cap wiring.observers # {}, ~offer[3],
                    offer[2] \notin LeftBehind(query)
             PROVE  <<offer[1], offer[2]>> \in wiring.patches
  BY DEF OffersShow
<1>1. /\ wiring.places = {Around(c) \cap {d.name : d \in relevant} : c \in all}
      /\ wiring.observers = {c.name : c \in {d \in all : query \in d.reads}}
      /\ wiring.patches = UNION {{c.name} \X {h[1] : h \in {g \in c.patches : g[2] = query}} :
                                   c \in relevant}
      /\ wiring.offers = UNION {{<<c.name, pair[1], query \in pair[2]>> :
                                   pair \in {d \in c.does : WritesTo(d[1], query)}} : c \in relevant}
  BY WiringOf DEF Wired
<1>2. PICK c \in relevant :
        \E pair \in c.does : offer = <<c.name, pair[1], query \in pair[2]>> /\ WritesTo(pair[1], query)
  BY <1>1
<1>3. PICK pair \in c.does :
         offer = <<c.name, pair[1], query \in pair[2]>> /\ WritesTo(pair[1], query)
  BY <1>2
<1>4. offer[1] = c.name /\ offer[2] = pair[1] /\ query \notin pair[2] BY <1>3
<1>5. <<c.name, pair[1], query>> \in Gaps BY <1>2, <1>3, <1>4, AllGaps DEF HasGaps
<1>6. PICK d \in Components : c.name \in Around(d) /\ place \subseteq Around(d)
  <2>1. FirstPlace \subseteq {"Sidebar"} BY DEF FirstPlace
  <2>2. CASE place = FirstPlace BY <1>4, <2>1, <2>2 DEF Around
  <2>3. CASE place \in wiring.places BY <1>1, <1>4, <2>3
  <2> QED BY <2>2, <2>3
<1>7. PICK n \in place : \E e \in Components : e.name = n /\ query \in e.reads BY <1>1
<1>8. n \in Around(d) BY <1>6, <1>7
<1>9. CASE query = "dashboard_stats"
  BY <1>5, <1>6, <1>7, <1>8, <1>9, Cards DEF Card, Gaps, OnlyBy, Apart
<1>10. CASE query = "dashboard_activity"
  BY <1>5, <1>6, <1>7, <1>8, <1>10, Cards DEF Card, Gaps, OnlyBy, Apart
<1>11. CASE query = "appointments"
  BY <1>5, <1>6, <1>7, <1>8, <1>11, Cards DEF Card, Gaps, OnlyBy, Apart
<1>12. CASE query = "work_queue"
  BY <1>5, <1>6, <1>7, <1>8, <1>12, Cards DEF Card, Gaps, OnlyBy, Apart
<1>13. CASE query \in {"maintenance_note", "appointment"}
  BY <1>4, <1>5, <1>13 DEF Gaps, LeftBehind
<1>14. CASE query = "activity_feed" 
  <2>1. c.name = "AdminMessages" /\ pair[1] \in {"DeleteLogRow", "WipeLog"} BY <1>5, <1>14 DEF Gaps
  <2>2. c.role = "ADMIN" /\ role = c.role BY <1>2, <2>1, Cards DEF Card
  <2>3. AdminMessages \in relevant /\ AdminMessages.name = "AdminMessages"
        /\ <<pair[1], query>> \in AdminMessages.patches
    BY <1>14, <2>1, <2>2 DEF AdminMessages, Component, Components, Touches, On
  <2>4. <<"AdminMessages", pair[1]>> \in
          {AdminMessages.name} \X {h[1] : h \in {g \in AdminMessages.patches : g[2] = query}}
    BY <2>3
  <2> QED BY <1>1, <1>4, <2>1, <2>3, <2>4
<1> QED BY <1>5, <1>9, <1>10, <1>11, <1>12, <1>13, <1>14 DEF Gaps

LEMMA FactsHold == ASSUME Wired(role, query) PROVE TableFacts
BY ToldIfLive, NotPatchedIfLive, ShownIfPatched, ShowsIfOffered DEF TableFacts


-----------------------------------------------------------------------------
(* The cache.  Of the operations in "owed" the copy will show those that are *)
(* not in "known", once its fetch is over: at rest it lacks only known ones, *)
(* unless it is marked and nobody looks at it; an answer under way lacks     *)
(* only known ones or raced ones.                                            *)

Cached(ops) ==
  [has : BOOLEAN, unseen : SUBSET ops, invalid : BOOLEAN, fetch : {"idle", "asked", "read"},
   late : SUBSET ops, raced : SUBSET ops]

WellCached(c, ops) ==
  /\ c \in Cached(ops)
  /\ ~c.has => c.unseen = {}
  /\ c.fetch # "read" => c.late = {}

ShowsOwed(c, watched, owed, known) ==
  /\ c.fetch = "idle" =>
       c.unseen \cap owed \subseteq known \cup c.raced \/ (c.invalid /\ ~watched)
  /\ c.fetch = "read" => c.late \cap owed \subseteq known \cup c.raced

\* What is owed may shrink and what is known grow, as far as the copy lacks it.
LEMMA ShowsOwedMonotone ==
  ASSUME NEW c, NEW watched, NEW owed, NEW known, NEW owed2, NEW known2,
         ShowsOwed(c, watched, owed, known),
         \A o \in c.unseen \cup c.late : o \in owed2 =>
           (o \in owed \/ o \in known2) /\ (o \in known => o \in known2)
  PROVE  ShowsOwed(c, watched, owed2, known2)
BY DEF ShowsOwed

LEMMA AskKeeps ==
  ASSUME NEW ops, NEW c, WellCached(c, ops)
  PROVE  /\ WellCached(Ask(c), ops)
         /\ \A watched, watched2, owed, known :
              ShowsOwed(c, watched, owed, known) => ShowsOwed(Ask(c), watched2, owed, known)
<1>1. CASE c.fetch = "idle"
  <2>1. Ask(c) = [c EXCEPT !.fetch = "asked", !.late = {}] BY <1>1 DEF Ask
  <2> DEFINE d == Ask(c)
  <2>2. /\ d.fetch = "asked" /\ d.late = {} /\ d.has = c.has /\ d.unseen = c.unseen
        /\ d \in Cached(ops)
    BY <2>1 DEF WellCached, Cached
  <2> QED BY <2>2 DEF WellCached, ShowsOwed
<1>2. CASE c.fetch # "idle"
  <2>1. Ask(c) = c BY <1>2 DEF Ask
  <2> QED BY <1>2, <2>1 DEF ShowsOwed
<1> QED BY <1>1, <1>2

\* An invalidated copy is fetched again, marked, or has its answer raced:
\* whatever was owed, it owes nothing more.
LEMMA InvalidatedKeeps ==
  ASSUME NEW ops, NEW c, WellCached(c, ops)
  PROVE  /\ WellCached(Invalidated(c), ops)
         /\ \A owed, known : ShowsOwed(Invalidated(c), Observed, owed, known)
<1> DEFINE d == Invalidated(c)
<1>0. c \in Cached(ops) BY DEF WellCached
<1>1. CASE Observed /\ (c.has \/ c.fetch = "idle")
  <2>1. d = [c EXCEPT !.fetch = "asked", !.late = {}, !.invalid = TRUE] BY <1>1 DEF Invalidated
  <2>2. /\ d.fetch = "asked" /\ d.late = {} /\ d.has = c.has /\ d.unseen = c.unseen
        /\ d \in Cached(ops)
    BY <1>0, <2>1 DEF Cached
  <2> QED BY <2>2 DEF WellCached, ShowsOwed
<1>2. CASE ~(Observed /\ (c.has \/ c.fetch = "idle"))
  <2>1. d = [c EXCEPT !.invalid = TRUE, !.raced = @ \cup c.late] BY <1>2 DEF Invalidated
  <2>2. /\ d.fetch = c.fetch /\ d.late = c.late /\ d.has = c.has /\ d.unseen = c.unseen
        /\ d.invalid = TRUE /\ d.raced = c.raced \cup c.late
        /\ d \in Cached(ops)
    BY <1>0, <2>1 DEF Cached
  <2>3. d.fetch = "idle" => ~Observed BY <1>2, <2>2
  <2> HIDE DEF d
  <2>4. \A owed, known : ShowsOwed(d, Observed, owed, known) BY <2>2, <2>3 DEF ShowsOwed
  <2>5. WellCached(d, ops) BY <2>2 DEF WellCached
  <2> QED BY <2>4, <2>5 DEF d
<1> QED BY <1>1, <1>2

\* A copy edited on the screen lacks no more than before, less what it now shows.
LEMMA PatchedKeeps ==
  ASSUME NEW ops, NEW c, WellCached(c, ops), NEW shown
  PROVE  /\ WellCached(Patched(c, shown), ops)
         /\ \A owed, known :
              ShowsOwed(c, TRUE, owed \ shown, known) =>
                ShowsOwed(Patched(c, shown), TRUE, owed, known)
<1> DEFINE d == Patched(c, shown)
<1>0. c \in Cached(ops) BY DEF WellCached
<1>1. d = [c EXCEPT !.has = TRUE, !.unseen = (IF c.has THEN @ ELSE {}) \ shown, !.invalid = FALSE,
                    !.raced = @ \cup c.late]
  BY DEF Patched
<1> DEFINE left == (IF c.has THEN c.unseen ELSE {}) \ shown
<1>2. left \subseteq c.unseen \ shown /\ left \in SUBSET ops BY <1>0 DEF Cached
<1>3. d = [c EXCEPT !.has = TRUE, !.unseen = left, !.invalid = FALSE, !.raced = c.raced \cup c.late]
  BY <1>0, <1>1 DEF Cached
<1> HIDE DEF d, left
<1>4. /\ d.fetch = c.fetch /\ d.late = c.late /\ d.has = TRUE /\ d.unseen = left
      /\ d.raced = c.raced \cup c.late /\ d \in Cached(ops)
  BY <1>0, <1>2, <1>3 DEF Cached
<1>5. ASSUME NEW owed, NEW known, ShowsOwed(c, TRUE, owed \ shown, known)
      PROVE  ShowsOwed(d, TRUE, owed, known)
  BY <1>2, <1>4, <1>5 DEF ShowsOwed
<1>6. WellCached(d, ops) BY <1>4 DEF WellCached
<1> QED BY <1>5, <1>6 DEF d

\* The copy after an operation that changes what it shows.
Outdated(c, o) ==
  [c EXCEPT !.unseen = IF c.has THEN @ \cup {o} ELSE @,
            !.late = IF c.fetch = "read" THEN @ \cup {o} ELSE @]

LEMMA OutdatedKeeps ==
  ASSUME NEW ops, NEW c, WellCached(c, ops), NEW o \in ops
  PROVE  /\ WellCached(Outdated(c, o), ops)
         /\ \A watched, owed, known :
              ShowsOwed(c, watched, owed \ {o}, known) /\ (o \in owed => o \in known)
              => ShowsOwed(Outdated(c, o), watched, owed, known)
<1> DEFINE d == Outdated(c, o)
<1>0. c \in Cached(ops) BY DEF WellCached
<1>1. /\ d.has = c.has /\ d.invalid = c.invalid /\ d.fetch = c.fetch /\ d.raced = c.raced
      /\ d.unseen = (IF c.has THEN c.unseen \cup {o} ELSE c.unseen)
      /\ d.late = (IF c.fetch = "read" THEN c.late \cup {o} ELSE c.late)
      /\ d \in Cached(ops)
  BY <1>0 DEF Outdated, Cached
<1> HIDE DEF d
<1>2. ASSUME NEW watched, NEW owed, NEW known,
             ShowsOwed(c, watched, owed \ {o}, known), o \in owed => o \in known
      PROVE  ShowsOwed(d, watched, owed, known)
  BY <1>1, <1>2 DEF ShowsOwed
<1>3. WellCached(d, ops) BY <1>1 DEF WellCached
<1> QED BY <1>2, <1>3 DEF d

\* The steps of a fetch.
LEMMA FetchKeeps ==
  ASSUME WellCached(cache, wiring.writers), ServerReads \/ Answer \/ FetchFails \/ Poll \/ Refocus
  PROVE  /\ WellCached(cache', wiring.writers)
         /\ \A owed, known :
              ShowsOwed(cache, Observed, owed, known) => ShowsOwed(cache', Observed, owed, known)
<1> DEFINE c == cache
           d == cache'
<1>0. c \in Cached(wiring.writers) BY DEF WellCached
<1>1. CASE ServerReads
  <2>1. c.fetch = "asked" /\ d = [c EXCEPT !.fetch = "read"] BY <1>1 DEF ServerReads
  <2>2. /\ d.fetch = "read" /\ d.late = {} /\ d.has = c.has /\ d.unseen = c.unseen
        /\ d \in Cached(wiring.writers)
    BY <1>0, <2>1 DEF Cached, WellCached
  <2> QED BY <2>2 DEF WellCached, ShowsOwed
<1>2. CASE Answer
  <2>1. /\ c.fetch = "read"
        /\ d = [c EXCEPT !.has = TRUE, !.unseen = c.late, !.late = {}, !.fetch = "idle",
                         !.invalid = FALSE, !.raced = @ \cap c.late]
    BY <1>2 DEF Answer
  <2>2. /\ d.fetch = "idle" /\ d.late = {} /\ d.has = TRUE /\ d.unseen = c.late
        /\ d.raced = c.raced \cap c.late /\ d \in Cached(wiring.writers)
    BY <1>0, <2>1 DEF Cached
  <2>3. \A owed, known :
          ShowsOwed(c, Observed, owed, known) => ShowsOwed(d, Observed, owed, known)
    BY <2>1, <2>2 DEF ShowsOwed
  <2> QED BY <2>2, <2>3 DEF WellCached
<1>3. CASE FetchFails
  <2>1. c.has /\ d = [c EXCEPT !.fetch = "idle", !.late = {}, !.raced = c.unseen]
    BY <1>3 DEF FetchFails
  <2>2. /\ d.fetch = "idle" /\ d.late = {} /\ d.has = c.has /\ d.unseen = c.unseen
        /\ d.raced = c.unseen /\ d \in Cached(wiring.writers)
    BY <1>0, <2>1 DEF Cached
  <2>3. \A owed, known : ShowsOwed(d, Observed, owed, known) BY <2>2 DEF ShowsOwed
  <2> QED BY <2>1, <2>2, <2>3 DEF WellCached
<1>4. CASE Poll \/ Refocus
  <2>1. d = Ask(c) BY <1>4 DEF Poll, Refocus
  <2>2. WellCached(Ask(c), wiring.writers)
        /\ \A owed, known :
             ShowsOwed(c, Observed, owed, known) => ShowsOwed(Ask(c), Observed, owed, known)
    BY AskKeeps
  <2> QED BY <2>1, <2>2
<1> QED BY <1>1, <1>2, <1>3, <1>4

\* Going elsewhere: what is opened asks for a copy that is marked.
LEMMA GoKeeps ==
  ASSUME WellCached(cache, wiring.writers), Go
  PROVE  /\ WellCached(cache', wiring.writers) /\ mounted' \in wiring.places
         /\ \A owed, known :
              ShowsOwed(cache, Observed, owed, known) => ShowsOwed(cache', Observed', owed, known)
<1>1. PICK place \in wiring.places \ {mounted}, aged \in BOOLEAN :
        /\ mounted' = place /\ wiring' = wiring
        /\ cache' = IF (place \ mounted) \cap wiring.observers # {}
                       /\ (~cache.has \/ cache.invalid \/ aged) THEN Ask(cache) ELSE cache
  BY DEF Go, who
<1>2. CASE cache' = Ask(cache)
  <2>1. /\ WellCached(Ask(cache), wiring.writers)
        /\ \A owed, known :
             ShowsOwed(cache, Observed, owed, known) =>
               ShowsOwed(Ask(cache), Observed', owed, known)
    BY AskKeeps
  <2> QED BY <1>1, <1>2, <2>1
<1>3. CASE cache' = cache /\ ~((place \ mounted) \cap wiring.observers # {} /\ cache.invalid)
  <2>1. cache.invalid /\ ~Observed => ~Observed' BY <1>1, <1>3 DEF Observed
  <2>2. ASSUME NEW owed, NEW known, ShowsOwed(cache, Observed, owed, known)
        PROVE  ShowsOwed(cache, Observed', owed, known)
    BY <2>1, <2>2 DEF ShowsOwed
  <2> QED BY <1>1, <1>3, <2>2
<1> QED BY <1>1, <1>2, <1>3
-----------------------------------------------------------------------------
(* The invariant.  What a screen follows it shows, or there is an excuse,    *)
(* news of it on the way, or the answer of the operation to come; what its   *)
(* user changes in front of it it shows, but for what is left behind.        *)

Expected ==
  excused \cup {o \in wiring.writers : Tells(o) \cap news # {}}
          \cup {o \in wiring.writers : own.step = "done" /\ own.op = o /\ own.refreshes}

LiveOwed == ShowsOwed(cache, Observed, Live(query), Expected)
MineOwed == ShowsOwed(cache, Observed, mine, LeftBehind(query))

\* What the operation under way will do to the copy was decided where it was
\* offered.
OwnIsKnown ==
  \/ own = Nothing
  \/ /\ own = [step |-> own.step, op |-> own.op, refreshes |-> own.refreshes,
               patches |-> own.patches, here |-> own.here]
     /\ own.step \in {"sent", "done"}
     /\ own.patches => wiring.patches # {}
     /\ own.here /\ ~own.refreshes /\ ~own.patches => own.op \in LeftBehind(query)

ScreenInv ==
  /\ TableFacts
  /\ WellCached(cache, wiring.writers)
  /\ mounted \in wiring.places \cup {FirstPlace}
  /\ OwnIsKnown /\ LiveOwed /\ MineOwed

LEMMA NothingIsLast == own = Nothing => own.step = "none" BY DEF Nothing

\* An edited query is not one that is meant to follow.
LEMMA PatchedOwesNothing ==
  ASSUME TableFacts, wiring.patches # {}, NEW c, NEW watched, NEW known
  PROVE  ShowsOwed(c, watched, Live(query), known)
BY DEF TableFacts, LiveIsNotPatched, ShowsOwed

\* A step that leaves the table, the places and the operation under way alone.
LEMMA FactsStay ==
  ASSUME ScreenInv, UNCHANGED who
  PROVE  TableFacts' /\ (UNCHANGED mounted => mounted' \in wiring'.places \cup {FirstPlace'})
         /\ (UNCHANGED own => OwnIsKnown')
<1>1. UNCHANGED <<role, query, wiring>> BY DEF who
<1>2. TableFacts'
  BY <1>1 DEF ScreenInv, TableFacts, LiveIsTold, LiveIsNotPatched, PatchedIsShown, OffersShow,
              FirstPlace, Tells
<1>3. UNCHANGED mounted => mounted' \in wiring'.places \cup {FirstPlace'}
  BY <1>1 DEF ScreenInv, FirstPlace
<1>4. UNCHANGED own => OwnIsKnown' BY <1>1 DEF ScreenInv, OwnIsKnown
<1> QED BY <1>2, <1>3, <1>4

LEMMA FetchInv ==
  ASSUME ScreenInv, ServerReads \/ Answer \/ FetchFails \/ Poll \/ Refocus PROVE ScreenInv'
<1>1. UNCHANGED <<who, mounted, news, own, excused, mine>>
  BY DEF ServerReads, Answer, FetchFails, Poll, Refocus
<1>2. UNCHANGED <<query, wiring, Observed>> BY <1>1 DEF who, Observed
<1>3. /\ WellCached(cache', wiring.writers)
      /\ \A owed, known :
           ShowsOwed(cache, Observed, owed, known) => ShowsOwed(cache', Observed, owed, known)
  BY FetchKeeps DEF ScreenInv
<1>4. LiveOwed' /\ MineOwed' BY <1>1, <1>2, <1>3 DEF ScreenInv, LiveOwed, MineOwed, Expected, Tells
<1> QED BY <1>1, <1>2, <1>3, <1>4, FactsStay DEF ScreenInv

LEMMA GoInv == ASSUME ScreenInv, Go PROVE ScreenInv'
<1>1. UNCHANGED <<who, news, own, excused, mine>> BY DEF Go
<1>2. UNCHANGED <<query, wiring>> BY <1>1 DEF who
<1>3. /\ WellCached(cache', wiring.writers) /\ mounted' \in wiring.places
      /\ \A owed, known :
           ShowsOwed(cache, Observed, owed, known) => ShowsOwed(cache', Observed', owed, known)
  BY GoKeeps DEF ScreenInv
<1>4. LiveOwed' /\ MineOwed' BY <1>1, <1>2, <1>3 DEF ScreenInv, LiveOwed, MineOwed, Expected, Tells
<1> QED BY <1>1, <1>2, <1>3, <1>4, FactsStay DEF ScreenInv

\* An operation: its news is on the way, its own answer is to come, or there is
\* an excuse.
LEMMA PerformInv ==
  ASSUME ScreenInv, NEW o, NEW refreshes, Perform(o, refreshes), UNCHANGED <<who, mounted>>,
         mine' = mine \ {o}, OwnIsKnown',
         \A p \in wiring.writers :
           own.step = "done" /\ own.op = p /\ own.refreshes =>
             own'.step = "done" /\ own'.op = p /\ own'.refreshes,
         Live(query) # {} /\ refreshes => own'.step = "done" /\ own'.op = o /\ own'.refreshes
  PROVE  ScreenInv'
<1>1. UNCHANGED <<query, wiring, Observed>> BY DEF who, Observed
<1>2. o \in wiring.writers /\ cache' = Outdated(cache, o) BY DEF Perform, Outdated
<1>3. PICK connected \in BOOLEAN :
        /\ news' = IF connected THEN news \cup Tells(o) ELSE news
        /\ excused' = IF refreshes \/ (connected /\ (Reaches(o) \/ Attached)) THEN excused
                      ELSE excused \cup {o}
  BY DEF Perform
<1>4. /\ WellCached(cache', wiring.writers)
      /\ \A watched, owed, known :
           ShowsOwed(cache, watched, owed \ {o}, known) /\ (o \in owed => o \in known)
           => ShowsOwed(cache', watched, owed, known)
  BY <1>2, OutdatedKeeps DEF ScreenInv
<1>5. Expected \subseteq Expected' BY <1>1, <1>3 DEF Expected, Tells
<1>6. o \in Live(query) => o \in Expected'
  <2> SUFFICES ASSUME o \in Live(query) PROVE o \in Expected' OBVIOUS
  <2>1. CASE refreshes BY <1>1, <1>2, <2>1 DEF Expected
  <2>2. CASE ~refreshes /\ ~connected BY <1>3, <2>2 DEF Expected
  <2>3. CASE connected
    <3>1. Tells(o) # {} BY <1>2 DEF ScreenInv, TableFacts, LiveIsTold
    <3>2. Tells(o)' = Tells(o) /\ Tells(o) \subseteq news' BY <1>1, <1>3, <2>3 DEF Tells
    <3> QED BY <1>1, <1>2, <3>1, <3>2 DEF Expected
  <2> QED BY <2>1, <2>2, <2>3
<1>7. LiveOwed'
  <2>1. ShowsOwed(cache, Observed, Live(query) \ {o}, Expected')
    BY <1>5, ShowsOwedMonotone DEF ScreenInv, LiveOwed
  <2> QED BY <1>1, <1>4, <1>6, <2>1 DEF LiveOwed
<1>8. MineOwed'
  <2>1. (mine \ {o}) \ {o} = mine \ {o} OBVIOUS
  <2>2. ShowsOwed(cache, Observed, mine \ {o}, LeftBehind(query))
    BY ShowsOwedMonotone DEF ScreenInv, MineOwed
  <2> QED BY <1>1, <1>4, <2>1, <2>2 DEF MineOwed
<1> QED BY <1>1, <1>4, <1>7, <1>8, FactsStay DEF ScreenInv
LEMMA OthersPerformInv == ASSUME ScreenInv, NEW o, OthersPerform(o) PROVE ScreenInv'
<1>1. Perform(o, FALSE) /\ mine' = mine \ {o} /\ UNCHANGED <<who, mounted, own>>
  BY DEF OthersPerform
<1>2. OwnIsKnown' BY <1>1, FactsStay
<1> QED BY <1>1, <1>2, PerformInv

LEMMA SendInv == ASSUME ScreenInv, NEW o, Send(o) PROVE ScreenInv'
<1>1. UNCHANGED <<who, mounted, cache, news, excused, mine>> /\ own = Nothing BY DEF Send
<1>2. UNCHANGED <<query, wiring, Observed>> BY <1>1 DEF who, Observed
<1>3. PICK n \in mounted, refreshes \in BOOLEAN :
        /\ <<n, o, refreshes>> \in wiring.offers
        /\ own' = [step |-> "sent", op |-> o, refreshes |-> refreshes,
                   patches |-> PatchedBy(o, {n}), here |-> Observed]
  BY DEF Send
<1>4. /\ own'.step = "sent" /\ own'.op = o /\ own'.refreshes = refreshes
      /\ own'.patches = PatchedBy(o, {n}) /\ own'.here = Observed
  BY <1>3
<1>5. own'.patches => wiring.patches # {} BY <1>4 DEF PatchedBy
<1>6. own'.here /\ ~own'.refreshes /\ ~own'.patches => o \in LeftBehind(query)
  <2> SUFFICES ASSUME Observed, ~refreshes, ~PatchedBy(o, {n}) PROVE o \in LeftBehind(query)
    BY <1>4
  <2> DEFINE offer == <<n, o, refreshes>>
  <2>1. offer \in wiring.offers /\ offer[1] \in mounted /\ ~offer[3] BY <1>3
  <2>2. mounted \cap wiring.observers # {} BY DEF Observed
  <2>3. <<offer[1], offer[2]>> \in wiring.patches \/ offer[2] \in LeftBehind(query)
    BY <2>1, <2>2 DEF ScreenInv, TableFacts, OffersShow
  <2>4. offer[1] = n /\ offer[2] = o OBVIOUS
  <2> QED BY <2>3, <2>4 DEF PatchedBy
<1>7. OwnIsKnown' BY <1>2, <1>3, <1>4, <1>5, <1>6 DEF OwnIsKnown
<1>8. Expected \subseteq Expected'
  <2>1. own.step # "done" BY <1>1, NothingIsLast
  <2> QED BY <1>1, <1>2, <2>1 DEF Expected, Tells
<1>9. LiveOwed' /\ MineOwed'
  <2>1. ShowsOwed(cache, Observed, Live(query), Expected')
    BY <1>8, ShowsOwedMonotone DEF ScreenInv, LiveOwed
  <2> QED BY <1>1, <1>2, <2>1 DEF ScreenInv, LiveOwed, MineOwed
<1> QED BY <1>1, <1>2, <1>7, <1>9, FactsStay DEF ScreenInv

LEMMA OwnPerformedInv == ASSUME ScreenInv, OwnPerformed PROVE ScreenInv'
<1>1. /\ own.step = "sent" /\ own' = [own EXCEPT !.step = "done"]
      /\ Perform(own.op, own.refreshes \/ own.patches) /\ mine' = mine \ {own.op}
      /\ UNCHANGED <<who, mounted>>
  BY DEF OwnPerformed
<1>2. own # Nothing BY <1>1, NothingIsLast
<1>3. own = [step |-> own.step, op |-> own.op, refreshes |-> own.refreshes,
             patches |-> own.patches, here |-> own.here]
  BY <1>2 DEF ScreenInv, OwnIsKnown
<1>4. own' = [step |-> "done", op |-> own.op, refreshes |-> own.refreshes,
              patches |-> own.patches, here |-> own.here]
  BY <1>1, <1>3
<1>5. UNCHANGED <<query, wiring>> BY <1>1 DEF who
<1>6. OwnIsKnown' BY <1>2, <1>4, <1>5 DEF ScreenInv, OwnIsKnown
<1>7. Live(query) # {} /\ (own.refreshes \/ own.patches) =>
        own'.step = "done" /\ own'.op = own.op /\ own'.refreshes
  BY <1>2, <1>4 DEF ScreenInv, OwnIsKnown, TableFacts, LiveIsNotPatched
<1> QED BY <1>1, <1>6, <1>7, PerformInv

LEMMA OwnAnsweredInv == ASSUME ScreenInv, OwnAnswered PROVE ScreenInv'
<1>1. /\ own.step = "done" /\ own' = Nothing /\ UNCHANGED <<who, mounted, news, excused>>
      /\ mine' = IF own.here THEN mine \cup {own.op} ELSE mine
  BY DEF OwnAnswered
<1>2. UNCHANGED <<query, wiring, Observed>> BY <1>1 DEF who, Observed
<1>3. own # Nothing BY <1>1, NothingIsLast
<1>4. OwnIsKnown' BY <1>1 DEF OwnIsKnown
<1>5. ASSUME WellCached(cache', wiring.writers),
             ShowsOwed(cache', Observed, Live(query), Expected'),
             ShowsOwed(cache', Observed, mine', LeftBehind(query))
      PROVE  ScreenInv'
  <2>1. LiveOwed' /\ MineOwed' BY <1>2, <1>5 DEF LiveOwed, MineOwed
  <2> QED BY <1>1, <1>2, <1>4, <1>5, <2>1, FactsStay DEF ScreenInv
<1>6. CASE own.refreshes
  <2>1. cache' = Invalidated(cache) BY <1>6 DEF OwnAnswered
  <2> QED BY <1>5, <2>1, InvalidatedKeeps DEF ScreenInv
<1>7. CASE ~own.refreshes /\ own.patches
  <2>1. cache' = Patched(cache, {own.op}) BY <1>7 DEF OwnAnswered
  <2>2. wiring.patches # {} /\ Observed = TRUE
    BY <1>3, <1>7 DEF ScreenInv, OwnIsKnown, TableFacts, PatchedIsShown, Observed
  <2>3. ShowsOwed(cache, TRUE, mine' \ {own.op}, LeftBehind(query))
    <3>1. ShowsOwed(cache, TRUE, mine, LeftBehind(query)) BY <2>2 DEF ScreenInv, MineOwed
    <3> DEFINE rest == mine' \ {own.op}
    <3>2. rest \subseteq mine BY <1>1
    <3> HIDE DEF rest
    <3>3. ShowsOwed(cache, TRUE, rest, LeftBehind(query)) BY <3>1, <3>2, ShowsOwedMonotone
    <3> QED BY <3>3 DEF rest
  <2>4. /\ WellCached(Patched(cache, {own.op}), wiring.writers)
        /\ ShowsOwed(Patched(cache, {own.op}), TRUE, mine', LeftBehind(query))
    BY <2>3, PatchedKeeps DEF ScreenInv
  <2>5. ShowsOwed(cache', Observed, Live(query), Expected')
    BY <2>2, PatchedOwesNothing DEF ScreenInv
  <2> QED BY <1>5, <2>1, <2>2, <2>4, <2>5
<1>8. CASE ~own.refreshes /\ ~own.patches
  <2>1. cache' = cache BY <1>8 DEF OwnAnswered
  <2>2. Expected \subseteq Expected' BY <1>1, <1>2, <1>8 DEF Expected, Tells
  <2>3. ShowsOwed(cache, Observed, Live(query), Expected')
    BY <2>2, ShowsOwedMonotone DEF ScreenInv, LiveOwed
  <2>4. own.here => own.op \in LeftBehind(query) BY <1>3, <1>8 DEF ScreenInv, OwnIsKnown
  <2>5. \A o \in mine' : o \in mine \/ o \in LeftBehind(query) BY <1>1, <2>4
  <2>6. ShowsOwed(cache, Observed, mine', LeftBehind(query))
    BY <2>5, ShowsOwedMonotone DEF ScreenInv, MineOwed
  <2> QED BY <1>5, <2>1, <2>3, <2>6 DEF ScreenInv
<1> QED BY <1>6, <1>7, <1>8

LEMMA AnswerLostInv == ASSUME ScreenInv, AnswerLost PROVE ScreenInv'
<1>1. /\ own.step = "done" /\ own' = Nothing /\ UNCHANGED <<who, mounted, cache, news, mine>>
      /\ excused' = excused \cup {own.op}
  BY DEF AnswerLost
<1>2. UNCHANGED <<query, wiring, Observed>> BY <1>1 DEF who, Observed
<1>3. OwnIsKnown' BY <1>1 DEF OwnIsKnown
<1>4. Expected \subseteq Expected' BY <1>1, <1>2 DEF Expected, Tells
<1>5. ShowsOwed(cache, Observed, Live(query), Expected')
  BY <1>4, ShowsOwedMonotone DEF ScreenInv, LiveOwed
<1>6. LiveOwed' /\ MineOwed' BY <1>1, <1>2, <1>5 DEF ScreenInv, LiveOwed, MineOwed
<1> QED BY <1>1, <1>2, <1>3, <1>6, FactsStay DEF ScreenInv

LEMMA HearInv == ASSUME ScreenInv, NEW e \in news, Hear(e) PROVE ScreenInv'
<1> DEFINE told == {o \in wiring.writers : e \in Tells(o)}
<1>1. /\ UNCHANGED <<who, mounted, own, mine>> /\ news' = news \ {e}
      /\ excused' = IF Heard(e) \/ PatchedBy(e, listening) THEN excused
                    ELSE excused \cup (told \cap (cache.unseen \cup cache.late))
  BY DEF Hear
<1>2. UNCHANGED <<query, wiring, Observed>> BY <1>1 DEF who, Observed
<1>3. ASSUME WellCached(cache', wiring.writers),
             ShowsOwed(cache', Observed, Live(query), Expected'),
             ShowsOwed(cache', Observed, mine, LeftBehind(query))
      PROVE  ScreenInv'
  <2>1. LiveOwed' /\ MineOwed' BY <1>1, <1>2, <1>3 DEF LiveOwed, MineOwed
  <2> QED BY <1>1, <1>2, <1>3, <2>1, FactsStay DEF ScreenInv
<1>4. CASE Heard(e)
  <2>1. cache' = Invalidated(cache) BY <1>4 DEF Hear
  <2> QED BY <1>3, <2>1, InvalidatedKeeps DEF ScreenInv
<1>5. CASE ~Heard(e) /\ PatchedBy(e, listening)
  <2>1. cache' = Patched(cache, told) BY <1>5 DEF Hear
  <2>2. wiring.patches # {} /\ Observed = TRUE
    BY <1>5 DEF PatchedBy, ScreenInv, TableFacts, PatchedIsShown, Observed
  <2>3. ShowsOwed(cache, TRUE, mine \ told, LeftBehind(query))
    <3>1. ShowsOwed(cache, TRUE, mine, LeftBehind(query)) BY <2>2 DEF ScreenInv, MineOwed
    <3> HIDE DEF told
    <3> QED BY <3>1, ShowsOwedMonotone
  <2>4. /\ WellCached(Patched(cache, told), wiring.writers)
        /\ ShowsOwed(Patched(cache, told), TRUE, mine, LeftBehind(query))
    <3> HIDE DEF told
    <3> QED BY <2>3, PatchedKeeps DEF ScreenInv
  <2>5. ShowsOwed(cache', Observed, Live(query), Expected')
    BY <2>2, PatchedOwesNothing DEF ScreenInv
  <2> QED BY <1>3, <2>1, <2>2, <2>4, <2>5
<1>6. CASE ~Heard(e) /\ ~PatchedBy(e, listening)
  <2>1. cache' = cache BY <1>6 DEF Hear
  <2>2. ASSUME NEW o \in cache.unseen \cup cache.late, o \in Expected PROVE o \in Expected'
    <3>1. o \in wiring.writers BY <2>2 DEF ScreenInv, WellCached, Cached
    <3>2. CASE e \in Tells(o) BY <1>1, <1>6, <2>2, <3>1, <3>2 DEF Expected
    <3>3. CASE e \notin Tells(o) BY <1>1, <1>2, <1>6, <2>2, <3>3 DEF Expected, Tells
    <3> QED BY <3>2, <3>3
  <2>3. ShowsOwed(cache, Observed, Live(query), Expected')
    BY <2>2, ShowsOwedMonotone DEF ScreenInv, LiveOwed
  <2> QED BY <1>3, <2>1, <2>3 DEF ScreenInv, MineOwed
<1> QED BY <1>4, <1>5, <1>6

LEMMA DisconnectInv == ASSUME ScreenInv, Disconnect PROVE ScreenInv'
<1>1. /\ UNCHANGED <<who, mounted, cache, own, mine>> /\ news' = {}
      /\ excused' = excused \cup {o \in wiring.writers : Tells(o) \cap news # {}}
  BY DEF Disconnect
<1>2. UNCHANGED <<query, wiring, Observed>> BY <1>1 DEF who, Observed
<1>3. Expected \subseteq Expected' BY <1>1, <1>2 DEF Expected, Tells
<1>4. ShowsOwed(cache, Observed, Live(query), Expected')
  BY <1>3, ShowsOwedMonotone DEF ScreenInv, LiveOwed
<1>5. LiveOwed' /\ MineOwed' BY <1>1, <1>2, <1>4 DEF ScreenInv, LiveOwed, MineOwed
<1> QED BY <1>1, <1>2, <1>5, FactsStay DEF ScreenInv

LEMMA ScreenNextInv == ScreenInv /\ [ScreensNext]_screenVars => ScreenInv'
<1> SUFFICES ASSUME ScreenInv, [ScreensNext]_screenVars PROVE ScreenInv' OBVIOUS
<1>1. ASSUME UNCHANGED <<who, mounted, cache, news, own, excused, mine>> PROVE ScreenInv'
  <2>1. UNCHANGED <<query, wiring, Observed>> BY <1>1 DEF who, Observed
  <2>2. LiveOwed' /\ MineOwed' BY <1>1, <2>1 DEF ScreenInv, LiveOwed, MineOwed, Expected, Tells
  <2> QED BY <1>1, <2>1, <2>2, FactsStay DEF ScreenInv
<1>2. ASSUME NEW n, Render(n) PROVE ScreenInv' BY <1>1, <1>2 DEF Render
<1>3. CASE UNCHANGED screenVars BY <1>1, <1>3 DEF screenVars, who
<1>4. CASE ServerReads \/ Answer \/ FetchFails \/ Poll \/ Refocus BY <1>4, FetchInv
<1>5. CASE Go BY <1>5, GoInv
<1>6. CASE OwnPerformed BY <1>6, OwnPerformedInv
<1>7. CASE OwnAnswered BY <1>7, OwnAnsweredInv
<1>8. CASE AnswerLost BY <1>8, AnswerLostInv
<1>9. CASE Disconnect BY <1>9, DisconnectInv
<1>10. ASSUME NEW o, OthersPerform(o) PROVE ScreenInv' BY <1>10, OthersPerformInv
<1>11. ASSUME NEW o, Send(o) PROVE ScreenInv' BY <1>11, SendInv
<1>12. ASSUME NEW e \in news, Hear(e) PROVE ScreenInv' BY <1>12, HearInv
<1> QED
  BY <1>2, <1>3, <1>4, <1>5, <1>6, <1>7, <1>8, <1>9, <1>10, <1>11, <1>12 DEF ScreensNext

LEMMA ScreenInitInv == ScreensInit => ScreenInv
<1> SUFFICES ASSUME ScreensInit PROVE ScreenInv OBVIOUS
<1>1. Wired(role, query) BY WatchedAssumption DEF ScreensInit, Wired
<1>2. TableFacts BY <1>1, FactsHold
<1>3. wiring.primed \in BOOLEAN
  <2>1. wiring = Wiring(role, query) BY DEF ScreensInit
  <2>2. Wiring(role, query).primed \in BOOLEAN BY DEF Wiring
  <2> QED BY <2>1, <2>2
<1>4. WellCached(cache, wiring.writers) BY <1>3 DEF ScreensInit, WellCached, Cached
<1>5. mounted = FirstPlace /\ own = Nothing BY DEF ScreensInit, FirstPlace
<1>6. \A watched, owed, known : ShowsOwed(cache, watched, owed, known) BY DEF ScreensInit, ShowsOwed
<1> QED BY <1>2, <1>4, <1>5, <1>6 DEF ScreenInv, OwnIsKnown, LiveOwed, MineOwed

\* The invariant holds in every state of every client.
THEOREM ScreensKeepUp == ScreensSpec => []ScreenInv
BY ScreenInitInv, ScreenNextInv, PTL DEF ScreensSpec

\* A screen at rest lacks none of the changes it follows, unless it was not
\* listening or not connected when they were announced, or its fetch raced
\* with the announcement (the listeners of the pages).
THEOREM LiveScreensStayCurrent == ScreensSpec => []LiveScreensFollow
<1>1. ScreenInv => LiveScreensFollow
  BY NothingIsLast DEF ScreenInv, LiveOwed, ShowsOwed, Expected, LiveScreensFollow, Quiet
<1> QED BY <1>1, ScreensKeepUp, PTL

\* Every other change a user makes where it is shown is shown, once the answer
\* is in, unless the fetch raced (the onSuccess of the mutations).
THEOREM OwnChangesAreShown == ScreensSpec => []OwnChangesShow
<1>1. ScreenInv => OwnChangesShow
  BY DEF ScreenInv, MineOwed, ShowsOwed, OwnChangesShow, Quiet
<1> QED BY <1>1, ScreensKeepUp, PTL
=============================================================================
