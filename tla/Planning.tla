------------------------------- MODULE Planning -------------------------------
(***************************************************************************)
(* What the backend computes from one customer's appointments: the next    *)
(* maintenance (services/maintenanceSchedule.service.ts), the six boxes of *)
(* the dashboard (services/dashboardCategorization.service.ts and          *)
(* routes/dashboard.ts) and the alerts of the customer lists               *)
(* (routes/customers.ts, routes/reports.ts).  Appointments are booked,     *)
(* worked on and deleted while the days go by.                             *)
(*                                                                         *)
(* An instant is counted in half days from the first of a January of a     *)
(* leap year, in a century with one every four years: half days because a  *)
(* daily or weekly cycle may have a frequency of one and a half.           *)
(***************************************************************************)
EXTENDS Integers, FiniteSets, FiniteSetsExt

CONSTANTS
  Visit,        \* appointments of the customer
  BookingDays,  \* days appointments are booked for
  Cycle,        \* DAILY, WEEKLY, MONTHLY: the cycles considered
  HalfSteps,    \* twice the frequencies considered
  PreviousDays, \* previousServiceDate: instants considered, and None
  LastMonth,    \* bounds: the calendar,
  FirstDay,     \* and the days
  LastDay       \* that the model looks at

None == -1
Month == 0 .. LastMonth
MonthLength(m) ==
  LET of == m % 12
  IN IF of = 1 THEN (IF (m \div 12) % 4 = 0 THEN 29 ELSE 28)
     ELSE IF of \in {3, 5, 8, 10} THEN 30 ELSE 31
DaysBefore == <<0, 31, 59, 90, 120, 151, 181, 212, 243, 273, 304, 334>>
MonthStart[m \in Month] ==
  LET year == m \div 12
      of == m % 12
  IN 365 * year + (year + 3) \div 4 + DaysBefore[of + 1]
     + (IF year % 4 = 0 /\ of >= 2 THEN 1 ELSE 0)
MonthOf(day) == CHOOSE m \in Month : MonthStart[m] <= day /\ day < MonthStart[m] + MonthLength(m)
CalendarDays == 0 .. MonthStart[LastMonth] + MonthLength(LastMonth) - 1

\* The days, the month after them and the months of a cycle are in the calendar.
ASSUME CalendarAssumption ==
  /\ LastMonth \in Nat /\ FirstDay \in Nat /\ LastDay \in Nat /\ FirstDay <= LastDay
  /\ LastDay < MonthStart[LastMonth]
  /\ BookingDays \subseteq CalendarDays
  /\ \A steps \in HalfSteps : steps \in Nat /\ MonthOf(LastDay) + steps \div 2 \in Month
ASSUME CycleAssumption == Cycle \subseteq {"DAILY", "WEEKLY", "MONTHLY"}

VARIABLES
  now,       \* the current instant
  visits,    \* the appointments table, of this customer
  customer   \* cycle, frequency and previous service

planningVars == <<now, visits, customer>>

DayOf(instant) == instant \div 2
At(day) == 2 * day

Visits ==
  [isUrgent : BOOLEAN, cancelled : BOOLEAN,
   workStatus : {"WAITING", "IN_PROGRESS", "POSTPONED", "COMPLETED"},
   scheduledDate : {At(day) : day \in BookingDays},
   serviced : (0 .. At(LastDay) + 1) \cup {None}]
Absent == [workStatus |-> "none"]
Booked == {v \in Visit : visits[v] # Absent}

-----------------------------------------------------------------------------
(* Next maintenance. *)

\* Fault: the day of the month is not clamped: 31 January + 1 is in March.
AddMonthsRolling(instant, months) ==
  LET month == MonthOf(DayOf(instant))
  IN instant + At(MonthStart[month + months] - MonthStart[month])

AddMonths(instant, months) ==
  LET month == MonthOf(DayOf(instant))
      dayOfMonth == DayOf(instant) - MonthStart[month]
      target == month + months
  IN At(MonthStart[target] + Min({dayOfMonth, MonthLength(target) - 1})) + (instant % 2)

AddDays(instant, halfDays) == instant + halfDays

\* calculateNextMaintenanceDate: a half month is 15 days.
NextAfter(instant, c) ==
  CASE c.cycle = "DAILY" -> AddDays(instant, c.halfSteps)
    [] c.cycle = "WEEKLY" -> AddDays(instant, 7 * c.halfSteps)
    [] c.cycle = "MONTHLY" ->
         AddDays(AddMonths(instant, c.halfSteps \div 2), IF c.halfSteps % 2 = 1 THEN 30 ELSE 0)

Completions(among) ==
  {visits[v].serviced :
     v \in {w \in among : ~visits[w].isUrgent /\ visits[w].workStatus = "COMPLETED"}}

\* computeNextMaintenanceDate over the appointments it is given.
NextMaintenance(among) ==
  LET baseline == IF Completions(among) # {} THEN Max(Completions(among)) ELSE customer.previous
  IN IF baseline = None THEN None ELSE NextAfter(baseline, customer)

\* Fault: only appointments nobody began are late.
OverdueWaiting == {v \in Booked : visits[v].scheduledDate < now /\ ~visits[v].cancelled
                                   /\ visits[v].workStatus = "WAITING"}

OverdueVisits == {v \in Booked : visits[v].scheduledDate < now /\ ~visits[v].cancelled
                                   /\ visits[v].workStatus # "COMPLETED"}

\* Math.ceil of the days left.
DaysUntil(instant) == -((now - instant) \div 2)

AlertLevel ==
  LET next == NextMaintenance(Booked)
  IN CASE OverdueVisits # {} -> "overdue"
       [] OverdueVisits = {} /\ next # None /\ DaysUntil(next) <= 10 -> "soon"
       [] OTHER -> "ok"

-----------------------------------------------------------------------------
(* Dashboard. *)
Categories == {"completed", "postponed", "overdue", "today", "thisMonth", "nextMonth"}

NonUrgent(v) == v \in Booked /\ ~visits[v].isUrgent
Active(v) ==
  NonUrgent(v) /\ ~visits[v].cancelled /\ visits[v].workStatus \in {"WAITING", "IN_PROGRESS"}

\* Fault: this month begins today, not tomorrow.
CategoriesFromToday(v) ==
  LET today == DayOf(now)
      nextMonth == MonthOf(today) + 1
      date == DayOf(visits[v].scheduledDate)
  IN {k \in Categories :
        CASE k = "completed" -> NonUrgent(v) /\ visits[v].workStatus = "COMPLETED"
          [] k = "postponed" -> NonUrgent(v) /\ visits[v].workStatus = "POSTPONED"
          [] k = "overdue" -> Active(v) /\ date < today
          [] k = "today" -> Active(v) /\ date = today
          [] k = "thisMonth" -> Active(v) /\ today <= date /\ date < MonthStart[nextMonth]
          [] k = "nextMonth" -> Active(v) /\ MonthOf(date) = nextMonth}

\* getDashboardCategoryWheres.
CategoriesOf(v) ==
  LET today == DayOf(now)
      nextMonth == MonthOf(today) + 1
      date == DayOf(visits[v].scheduledDate)
  IN {k \in Categories :
        CASE k = "completed" -> NonUrgent(v) /\ visits[v].workStatus = "COMPLETED"
          [] k = "postponed" -> NonUrgent(v) /\ visits[v].workStatus = "POSTPONED"
          [] k = "overdue" -> Active(v) /\ date < today
          [] k = "today" -> Active(v) /\ date = today
          [] k = "thisMonth" -> Active(v) /\ today < date /\ date < MonthStart[nextMonth]
          [] k = "nextMonth" -> Active(v) /\ MonthOf(date) = nextMonth}

\* What GET /dashboard/stats counts for a box.
Tile(category) == {v \in Booked : category \in CategoriesOf(v)}

\* computeMaintenanceStatus of the customer report: by the latest date.
StatusOf(a) ==
  CASE a.workStatus # "WAITING" -> a.workStatus
    [] a.workStatus = "WAITING" /\ a.cancelled -> "CANCELLED"
    [] a.workStatus = "WAITING" /\ ~a.cancelled /\ a.scheduledDate < now -> "OVERDUE"
    [] OTHER -> "SCHEDULED"
ReportStatuses ==
  IF Booked = {} THEN {"NO_APPOINTMENTS"}
  ELSE {StatusOf(visits[v]) :
          v \in {w \in Booked : \A x \in Booked : visits[x].scheduledDate <= visits[w].scheduledDate}}

-----------------------------------------------------------------------------
Customers == [cycle : Cycle, halfSteps : HalfSteps, previous : PreviousDays]

PlanningInit ==
  /\ now = At(FirstDay)
  /\ visits = [v \in Visit |-> Absent]
  /\ customer \in Customers

\* Appointments come and go as in module Appointments.
Book(v) ==
  /\ visits[v] = Absent
  /\ \E day \in BookingDays, urgent \in BOOLEAN :
       visits' = [visits EXCEPT ![v] =
                    [isUrgent |-> urgent, cancelled |-> FALSE, workStatus |-> "WAITING",
                     scheduledDate |-> At(day), serviced |-> None]]
  /\ UNCHANGED <<now, customer>>

Start(v) ==
  /\ v \in Booked /\ ~visits[v].isUrgent /\ visits[v].workStatus = "WAITING"
  /\ visits' = [visits EXCEPT ![v].workStatus = "IN_PROGRESS"]
  /\ UNCHANGED <<now, customer>>

\* The report gives the day of the work, before the appointment's or not but
\* never in the future; without it (Administration) the moment of the report
\* counts.
Complete(v) ==
  /\ v \in Booked /\ ~visits[v].isUrgent /\ visits[v].workStatus = "IN_PROGRESS"
  /\ \E serviced \in {At(day) : day \in BookingDays} \cup {now} :
       /\ DayOf(serviced) <= DayOf(now)
       /\ visits' = [visits EXCEPT ![v].workStatus = "COMPLETED", ![v].serviced = serviced]
  /\ UNCHANGED <<now, customer>>

Postpone(v) ==
  /\ v \in Booked /\ ~visits[v].isUrgent /\ visits[v].workStatus \in {"WAITING", "IN_PROGRESS"}
  /\ visits' = [visits EXCEPT ![v].workStatus = "POSTPONED"]
  /\ UNCHANGED <<now, customer>>

\* PATCH /:id/status.
SetStatus(v) ==
  /\ v \in Booked
  /\ visits' = [visits EXCEPT ![v].cancelled = ~@]
  /\ UNCHANGED <<now, customer>>

\* PUT /appointments/:id, and PUT /dashboard/appointment/:id.
Reschedule(v) ==
  /\ v \in Booked
  /\ \E day \in BookingDays : visits' = [visits EXCEPT ![v].scheduledDate = At(day)]
  /\ UNCHANGED <<now, customer>>

Unbook(v) ==
  /\ v \in Booked
  /\ visits' = [visits EXCEPT ![v] = Absent]
  /\ UNCHANGED <<now, customer>>

\* PUT /customers/:id.
EditCustomer == customer' \in Customers /\ UNCHANGED <<now, visits>>

Tick ==
  /\ now < At(LastDay) + 1
  /\ now' = now + 1
  /\ UNCHANGED <<visits, customer>>

PlanningNext ==
  \/ \E v \in Visit :
       \/ Book(v) \/ Start(v) \/ Complete(v) \/ Postpone(v)
       \/ SetStatus(v) \/ Reschedule(v) \/ Unbook(v)
  \/ EditCustomer \/ Tick

PlanningSpec == PlanningInit /\ [][PlanningNext]_planningVars

-----------------------------------------------------------------------------
\* An appointment is in one box of the dashboard at most, and an active one
\* dated up to the end of next month is in one at all hours
\* (getDashboardCategoryWheres).
OneBoxEach ==
  \A v \in Booked :
    /\ Cardinality(CategoriesOf(v)) <= 1
    /\ Active(v) /\ MonthOf(DayOf(visits[v].scheduledDate)) <= MonthOf(DayOf(now)) + 1
       => CategoriesOf(v) # {}

\* A report of work brings the next maintenance no closer once the customer
\* has been serviced before, in whatever order reports come in: later work
\* never has an earlier successor, though months are clamped.
ReportsNeverBringForward ==
  [][\A v \in Visit :
       /\ v \in Booked /\ visits[v].workStatus # "COMPLETED"
       /\ visits'[v].workStatus = "COMPLETED"
       /\ Completions(Booked) # {}
       => DayOf(NextMaintenance(Booked)') >= DayOf(NextMaintenance(Booked))]_planningVars

\* The rules of the dashboard, of the customer lists and of the report are
\* written apart but agree on what is late: an appointment in the overdue box,
\* and a report that says OVERDUE, come with the alert.
LateEverywhere ==
  (Tile("overdue") # {} \/ "OVERDUE" \in ReportStatuses) => AlertLevel = "overdue"

\* The boxes agree with each other and with the other lists.
BoxesAgree == OneBoxEach /\ LateEverywhere
=============================================================================
