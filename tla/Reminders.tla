------------------------------ MODULE Reminders ------------------------------
(***************************************************************************)
(* The maintenance reminders: services/notification.service.ts.            *)
(*                                                                         *)
(* generateReminders is started by the hourly cron tick and once shortly   *)
(* after boot, so two invocations of one process may meet.  An invocation  *)
(* works through six lists, one per kind of reminder; of each              *)
(* appointment on a list it asks the database for today's reminder and,    *)
(* finding none, creates it.  Every database call is awaited: the day may  *)
(* turn, appointments may be moved, cancelled or completed, a call may     *)
(* fail and the process may restart in between.  A reminder is the group   *)
(* of notifications that one createMany stores for all active users.       *)
(***************************************************************************)
EXTENDS Integers, Sequences, FiniteSets

CONSTANTS
  Appt,       \* appointments
  NoAppt,     \* none of them
  Process,    \* backend processes with background jobs enabled
  Slot,       \* invocations one process may have in flight
  Dates,      \* days an appointment may be scheduled for
  LastDay     \* bound: the calendar ends on this day

ASSUME DatesAssumption == Dates \subseteq Int /\ LastDay \in Nat \ {0}
ASSUME ApptAssumption == NoAppt \notin Appt

Day == 1 .. LastDay
OverdueDays == 30

\* What an invocation looks for, in its order: REMINDER_DAYS, then due today,
\* then overdue.
Kinds ==
  <<[kind |-> "upcoming", days |-> 10], [kind |-> "upcoming", days |-> 7],
    [kind |-> "upcoming", days |-> 3], [kind |-> "upcoming", days |-> 1],
    [kind |-> "today", days |-> 0], [kind |-> "overdue", days |-> 0]>>
Phase == 1 .. Len(Kinds)

Invocation ==
  [step : {"list", "check", "insert"}, phase : Phase, today : Day,
   todo : SUBSET Appt, at : Appt \cup {NoAppt}]
Resting == [step |-> "idle"]

VARIABLES
  day,        \* the calendar
  date,       \* scheduledDate of each appointment
  open,       \* appointments with status other than CANCELLED
  done,       \* appointments with workStatus COMPLETED
  sent,       \* reminders created for each appointment, kind and day
  run,        \* invocations
  isRunning   \* the flag of each process

vars == <<day, date, open, done, sent, run, isRunning>>
appointments == <<date, open, done>>

Init ==
  /\ day = 1
  /\ date \in [Appt -> Dates]
  /\ open = Appt
  /\ done \in SUBSET Appt
  /\ sent = [k \in Appt \X Phase \X Day |-> 0]
  /\ run = [i \in Process \X Slot |-> Resting]
  /\ isRunning = [p \in Process |-> FALSE]

-----------------------------------------------------------------------------
Started == [step |-> "list", phase |-> 1, today |-> day, todo |-> {}, at |-> NoAppt]

\* Fault: the flag is set but not looked at.
BeginAnyway(p, s) ==
  /\ run[<<p, s>>] = Resting
  /\ isRunning' = [isRunning EXCEPT ![p] = TRUE]
  /\ run' = [run EXCEPT ![<<p, s>>] = Started]
  /\ UNCHANGED <<day, appointments, sent>>

\* A tick, or the timer after boot.  A tick that finds the flag set is skipped.
Begin(p, s) ==
  /\ run[<<p, s>>] = Resting
  /\ ~isRunning[p]
  /\ isRunning' = [isRunning EXCEPT ![p] = TRUE]
  /\ run' = [run EXCEPT ![<<p, s>>] = Started]
  /\ UNCHANGED <<day, appointments, sent>>

\* The appointments a kind of reminder is for, counted from the day the
\* invocation began.
Listed(phase, today) ==
  LET k == Kinds[phase]
  IN {a \in open :
        CASE k.kind = "upcoming" -> date[a] = today + k.days
          [] k.kind = "today" -> date[a] = today
          [] OTHER -> today - OverdueDays <= date[a] /\ date[a] < today /\ a \notin done}

\* The query for one list.  The thirtieth day counts by the hour.
List(p, s) ==
  /\ run[<<p, s>>].step = "list"
  /\ LET i == run[<<p, s>>]
     IN \E expired \in SUBSET {a \in Appt : date[a] = i.today - OverdueDays} :
          run' = [run EXCEPT ![<<p, s>>].step = "check",
                             ![<<p, s>>].todo = Listed(i.phase, i.today) \ expired]
  /\ UNCHANGED <<day, appointments, sent, isRunning>>

\* The search is for notifications whose body contains the key, and the key
\* "upcoming:<id>:1" is contained in "upcoming:<id>:10".
Contains(phase, key) ==
  /\ Kinds[phase].kind = Kinds[key].kind
  /\ Kinds[key].days \in {Kinds[phase].days, Kinds[phase].days \div 10}

\* Fault: reminders of earlier days count as well.
FoundEver(a, phase, today) ==
  \E other \in Phase, d \in Day : Contains(other, phase) /\ sent[a, other, d] > 0

Found(a, phase, today) ==
  \E other \in Phase, d \in Day :
    d >= today /\ Contains(other, phase) /\ sent[a, other, d] > 0

\* findFirst for an appointment of the list.
Check(p, s) ==
  LET i == run[<<p, s>>]
  IN /\ i.step = "check"
     /\ \E a \in i.todo :
          run' = [run EXCEPT ![<<p, s>>] =
                    IF Found(a, i.phase, i.today)
                      THEN [i EXCEPT !.todo = @ \ {a}]
                      ELSE [i EXCEPT !.step = "insert", !.at = a]]
     /\ UNCHANGED <<day, appointments, sent, isRunning>>

\* createMany; createdAt is the moment of the insertion.
Insert(p, s) ==
  LET i == run[<<p, s>>]
  IN /\ i.step = "insert"
     /\ sent' = [sent EXCEPT ![<<i.at, i.phase, day>>] = @ + 1]
     /\ run' = [run EXCEPT ![<<p, s>>] =
                   [i EXCEPT !.step = "check", !.todo = @ \ {i.at}, !.at = NoAppt]]
     /\ UNCHANGED <<day, appointments, isRunning>>

NextList(p, s) ==
  /\ run[<<p, s>>].step = "check" /\ run[<<p, s>>].todo = {}
  /\ run[<<p, s>>].phase < Len(Kinds)
  /\ run' = [run EXCEPT ![<<p, s>>].step = "list", ![<<p, s>>].phase = @ + 1]
  /\ UNCHANGED <<day, appointments, sent, isRunning>>

\* The end of the last list: finally resets the flag.
Finish(p, s) ==
  /\ run[<<p, s>>].step = "check" /\ run[<<p, s>>].todo = {}
  /\ run[<<p, s>>].phase = Len(Kinds)
  /\ run' = [run EXCEPT ![<<p, s>>] = Resting]
  /\ isRunning' = [isRunning EXCEPT ![p] = FALSE]
  /\ UNCHANGED <<day, appointments, sent>>

\* Fault: the flag is reset at the end of the try block, not in finally.
FailHolding(p, s) ==
  /\ run[<<p, s>>] # Resting
  /\ run' = [run EXCEPT ![<<p, s>>] = Resting]
  /\ UNCHANGED <<day, appointments, sent, isRunning>>

\* A database call throws, or there is no active user: finally resets the flag.
Fail(p, s) ==
  /\ run[<<p, s>>] # Resting
  /\ run' = [run EXCEPT ![<<p, s>>] = Resting]
  /\ isRunning' = [isRunning EXCEPT ![p] = FALSE]
  /\ UNCHANGED <<day, appointments, sent>>

\* The process is killed and started again.
Restart(p) ==
  /\ isRunning[p]
  /\ run' = [i \in Process \X Slot |-> IF i[1] = p THEN Resting ELSE run[i]]
  /\ isRunning' = [isRunning EXCEPT ![p] = FALSE]
  /\ UNCHANGED <<day, appointments, sent>>

Midnight ==
  /\ day < LastDay
  /\ day' = day + 1
  /\ UNCHANGED <<appointments, sent, run, isRunning>>

\* What the appointment endpoints do to the columns the lists look at.
Reschedule(a) ==
  /\ \E d \in Dates \ {date[a]} : date' = [date EXCEPT ![a] = d]
  /\ UNCHANGED <<day, open, done, sent, run, isRunning>>

Cancel(a) ==
  /\ a \in open
  /\ open' = open \ {a}
  /\ UNCHANGED <<day, date, done, sent, run, isRunning>>

CompleteWork(a) ==
  /\ a \notin done
  /\ done' = done \cup {a}
  /\ UNCHANGED <<day, date, open, sent, run, isRunning>>

Work(p, s) ==
  List(p, s) \/ Check(p, s) \/ Insert(p, s) \/ NextList(p, s) \/ Finish(p, s) \/ Fail(p, s)

Next ==
  \/ \E p \in Process, s \in Slot : Begin(p, s) \/ Work(p, s)
  \/ \E p \in Process : Restart(p)
  \/ Midnight
  \/ \E a \in Appt : Reschedule(a) \/ Cancel(a) \/ CompleteWork(a)

Spec == Init /\ [][Next]_vars

\* Every awaited call settles, by an answer or an error.
Fairness == \A p \in Process, s \in Slot : WF_vars(Work(p, s))
FairSpec == Spec /\ Fairness

-----------------------------------------------------------------------------
TypeOK ==
  /\ day \in Day
  /\ date \in [Appt -> Dates]
  /\ open \in SUBSET Appt /\ done \in SUBSET Appt
  /\ sent \in [Appt \X Phase \X Day -> Nat]
  /\ run \in [Process \X Slot -> Invocation \cup {Resting}]
  /\ isRunning \in [Process -> BOOLEAN]

\* No user is reminded twice on one day of the same appointment for the same
\* reason: however the tick and the timer after boot meet, also across
\* midnight, failed calls and restarts.  The check and the insertion are two
\* calls; only the flag keeps them together, so this is a promise of one
\* process.
NeverRemindedTwice ==
  \A k \in Appt \X Phase \X Day : sent[k] <= 1

Reminded(a, phase, since) == \E d \in Day : d >= since /\ sent[a, phase, d] > 0

\* The invocations that are done with an appointment in a step.
PassesOver(i, a) ==
  /\ run[i] # Resting /\ run[i].step # "list" /\ a \in run[i].todo
  /\ run'[i] # Resting /\ a \notin run'[i].todo

\* An invocation is done with an appointment on its list only when the users
\* are reminded of it since the day the invocation began: by a reminder of that
\* very kind, for every kind but the one whose key is contained in another's.
ListedIsReminded ==
  [][\A i \in DOMAIN run, a \in Appt :
       PassesOver(i, a) /\ Kinds[run[i].phase].days # 1
         => Reminded(a, run[i].phase, run[i].today)']_vars

\* The flag is always reset: a failed call or a restart does not end the
\* reminders of a process for good.
FlagIsReset == \A p \in Process : isRunning[p] ~> ~isRunning[p]

\* notification.service.ts: "Upcoming reminders: 10, 7, 3, 1 days ahead".  An
\* appointment on the list for one day ahead is no exception.
DayAheadIsReminded ==
  [][\A i \in DOMAIN run, a \in Appt :
       PassesOver(i, a) /\ Kinds[run[i].phase].days = 1
         => Reminded(a, run[i].phase, run[i].today)']_vars
=============================================================================
