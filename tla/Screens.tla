-------------------------------- MODULE Screens --------------------------------
(***************************************************************************)
(* One client of the unified app follows one query of its cache: fetched   *)
(* when a component that reads it is mounted, considered fresh for thirty  *)
(* seconds, refetched on the events its mounted components listen to and   *)
(* after its own operations, while other clients change the data and the   *)
(* user moves between the pages.  The wiring is in ScreenTable.            *)
(*                                                                         *)
(* The fetch and invalidation rules are those of the query library the     *)
(* client configures in main.tsx: invalidating a mounted query restarts    *)
(* its fetch, unless its first answer is still under way; an unmounted one *)
(* is only marked.  A component first renders without a socket             *)
(* (useSocket returns a ref), so it listens from its next render on.       *)
(***************************************************************************)
EXTENDS ScreenTable, Naturals, FiniteSets

CONSTANTS
  Watched,   \* queries considered
  MaxWrites(_) \* bound: operations that succeed in a behaviour, for a query

ASSUME WatchedAssumption == Watched \subseteq Query

VARIABLES
  role, query, \* whose client, and the query followed
  wiring,      \* what the table says of that query
  mounted,     \* the components on the screen, of those that matter for it
  listening,   \* the mounted components whose listeners are attached
  \* the cached copy: has one arrived, the operations it does not show (unseen),
  \* is it marked as invalid; the request under way (fetch), the operations its
  \* answer will not show (late); the operations whose news came while a fetch
  \* could not be restarted, or whose refetch failed (raced):
  cache,
  news,        \* events under way to this client
  own,         \* this client's operation under way
  writes,      \* operations so far
  excused,     \* for the properties: operations whose news could not be heard
  mine         \* for the properties: operations performed where the query was shown

screenVars == <<role, query, wiring, mounted, listening, cache, news, own, writes, excused, mine>>
who == <<role, query, wiring>>

Nothing == [step |-> "none"]

Observed == mounted \cap wiring.observers # {}

-----------------------------------------------------------------------------
(* The cache. *)

\* Fault: only what is marked as invalid is fetched.
AskIfMarked(cached) == IF cached.invalid THEN [cached EXCEPT !.fetch = "asked", !.late = {}] ELSE cached

\* A fetch starts, unless one is under way.
Ask(cached) == IF cached.fetch = "idle" THEN [cached EXCEPT !.fetch = "asked", !.late = {}] ELSE cached

\* Fault: a mounted query is only marked.
Marked(cached) == [cached EXCEPT !.invalid = TRUE]

\* invalidateQueries.
Invalidated(cached) ==
  LET restarted == [cached EXCEPT !.fetch = "asked", !.late = {}, !.invalid = TRUE]
      joined == [cached EXCEPT !.invalid = TRUE, !.raced = @ \cup cached.late]
  IN IF Observed /\ (cached.has \/ cached.fetch = "idle") THEN restarted ELSE joined

\* setQueryData: the copy is edited and counts as fresh.
Patched(cached, shown) ==
  [cached EXCEPT !.has = TRUE, !.unseen = (IF cached.has THEN @ ELSE {}) \ shown, !.invalid = FALSE,
                  !.raced = @ \cup cached.late]

Heard(e) == \E n \in listening : <<n, e>> \in wiring.hears
PatchedBy(e, by) == \E n \in by : <<n, e>> \in wiring.patches

ScreensInit ==
  /\ role \in Role /\ query \in Watched /\ wiring = Wiring(role, query)
  /\ wiring.observers # {}
  /\ mounted = {"Sidebar"} \cap UNION wiring.places
  /\ listening = {}
  /\ cache = [has |-> wiring.primed, unseen |-> {},
              invalid |-> FALSE, fetch |-> "idle", late |-> {}, raced |-> {}]
  /\ news = {} /\ own = Nothing /\ writes = 0 /\ excused = {} /\ mine = {}

\* The cleanup of the effects detaches the listeners.
StillListening(place) == listening \cap place

\* Another page or modal.  What is newly mounted fetches, unless the copy is fresh.
Go ==
  \E place \in wiring.places \ {mounted}, aged \in BOOLEAN :
    /\ mounted' = place
    /\ listening' = StillListening(place)
    /\ LET opened == (place \ mounted) \cap wiring.observers
       IN cache' = IF opened # {} /\ (~cache.has \/ cache.invalid \/ aged) THEN Ask(cache) ELSE cache
    /\ UNCHANGED <<who, news, own, writes, excused, mine>>

\* A component renders again: it has the socket now.
Render(n) ==
  /\ n \in (mounted \cap wiring.listeners) \ listening
  /\ listening' = listening \cup {n}
  /\ UNCHANGED <<who, mounted, cache, news, own, writes, excused, mine>>

ServerReads ==
  /\ cache.fetch = "asked"
  /\ cache' = [cache EXCEPT !.fetch = "read"]
  /\ UNCHANGED <<who, mounted, listening, news, own, writes, excused, mine>>

\* The observers of a copy that changes render again.
Answer ==
  /\ cache.fetch = "read"
  /\ cache' = [cache EXCEPT !.has = TRUE, !.unseen = cache.late, !.late = {}, !.fetch = "idle",
                            !.invalid = FALSE, !.raced = @ \cap cache.late]
  /\ listening' = IF ~cache.has \/ cache.unseen # cache.late
                  THEN listening \cup (mounted \cap wiring.observers \cap wiring.listeners) ELSE listening
  /\ UNCHANGED <<who, mounted, news, own, writes, excused, mine>>

\* Retried once; the copy stays.
FetchFails ==
  /\ cache.fetch = "asked" /\ cache.has
  /\ cache.raced = {}  \* bound: once until the next answer
  /\ cache.unseen # {}
  /\ cache' = [cache EXCEPT !.fetch = "idle", !.late = {}, !.raced = cache.unseen]
  /\ UNCHANGED <<who, mounted, listening, news, own, writes, excused, mine>>

\* refetchInterval.
Poll ==
  /\ mounted \cap wiring.pollers # {}
  /\ cache.fetch = "idle"
  /\ cache' = Ask(cache)
  /\ UNCHANGED <<who, mounted, listening, news, own, writes, excused, mine>>

\* The window is focused again: a query that is marked or thirty seconds old is fetched.
Refocus ==
  /\ Observed /\ cache.fetch = "idle" /\ cache.unseen # {}
  /\ cache' = Ask(cache)
  /\ UNCHANGED <<who, mounted, listening, news, own, writes, excused, mine>>

-----------------------------------------------------------------------------
(* Operations and events. *)

Tells(o) == wiring.tells[o]
Reaches(o) == \E e \in Tells(o) : Heard(e) \/ PatchedBy(e, listening)

Attached == Observed /\ mounted \cap wiring.listeners \subseteq listening

\* The backend performs o and emits its events; a client whose socket is
\* disconnected is not sent them again.  Does its own answer refresh the copy?
Perform(o, refreshes) ==
  /\ o \in wiring.writers
  /\ writes < MaxWrites(query)
  /\ writes' = writes + 1
  /\ cache' = [cache EXCEPT !.unseen = IF cache.has THEN @ \cup {o} ELSE @,
                            !.late = IF cache.fetch = "read" THEN @ \cup {o} ELSE @]
  /\ \E connected \in BOOLEAN :
       /\ news' = IF connected THEN news \cup Tells(o) ELSE news
       /\ excused' = IF refreshes \/ (connected /\ (Reaches(o) \/ Attached)) THEN excused ELSE excused \cup {o}

OthersPerform(o) ==
  /\ Perform(o, FALSE)
  /\ mine' = mine \ {o}
  /\ UNCHANGED <<who, mounted, listening, own>>

\* The user performs o on a component that offers it.
Send(o) ==
  /\ own = Nothing
  /\ \E n \in mounted, refreshes \in BOOLEAN :
       /\ <<n, o, refreshes>> \in wiring.offers
       /\ own' = [step |-> "sent", op |-> o, refreshes |-> refreshes,
                  patches |-> PatchedBy(o, {n}), here |-> Observed]
  /\ UNCHANGED <<who, mounted, listening, cache, news, writes, excused, mine>>

OwnPerformed ==
  /\ own.step = "sent"
  /\ Perform(own.op, own.refreshes \/ own.patches)
  /\ own' = [own EXCEPT !.step = "done"]
  /\ mine' = mine \ {own.op}
  /\ UNCHANGED <<who, mounted, listening>>

\* onSuccess runs, on whatever page the user is by now.
OwnAnswered ==
  /\ own.step = "done"
  /\ own' = Nothing
  /\ mine' = IF own.here THEN mine \cup {own.op} ELSE mine
  /\ cache' = CASE own.refreshes -> Invalidated(cache)
                [] own.patches /\ ~own.refreshes -> Patched(cache, {own.op})
                [] OTHER -> cache
  /\ UNCHANGED <<who, mounted, listening, news, writes, excused>>

\* The answer of a performed operation is lost: onError.
AnswerLost ==
  /\ own.step = "done"
  /\ own' = Nothing
  /\ excused' = excused \cup {own.op}
  /\ UNCHANGED <<who, mounted, listening, cache, news, writes, mine>>

Hear(e) ==
  /\ e \in news
  /\ news' = news \ {e}
  /\ LET told == {o \in wiring.writers : e \in Tells(o)}
     IN /\ cache' = CASE Heard(e) -> Invalidated(cache)
                      [] PatchedBy(e, listening) /\ ~Heard(e) -> Patched(cache, told)
                      [] OTHER -> cache
        /\ excused' = IF Heard(e) \/ PatchedBy(e, listening) THEN excused
                      ELSE excused \cup (told \cap (cache.unseen \cup cache.late))
  /\ UNCHANGED <<who, mounted, listening, own, writes, mine>>

\* The socket is disconnected: events under way are lost.
Disconnect ==
  /\ news # {}
  /\ news' = {}
  /\ excused' = excused \cup {o \in wiring.writers : Tells(o) \cap news # {}}
  /\ UNCHANGED <<who, mounted, listening, cache, own, writes, mine>>

ScreensNext ==
  \/ Go \/ ServerReads \/ Answer \/ FetchFails \/ Poll \/ Refocus
  \/ OwnPerformed \/ OwnAnswered \/ AnswerLost \/ Disconnect
  \/ \E n \in mounted : Render(n)
  \/ \E o \in wiring.writers : OthersPerform(o) \/ Send(o)
  \/ \E e \in news : Hear(e)
ScreensSpec == ScreensInit /\ [][ScreensNext]_screenVars

-----------------------------------------------------------------------------
\* Fairness: requests are answered and the timers of the polled queries run
\* (the window is visible); nothing is assumed of users or other clients.
FairScreens ==
  ScreensSpec /\ WF_screenVars(ServerReads) /\ WF_screenVars(Answer) /\ WF_screenVars(Poll)

Quiet == cache.fetch = "idle" /\ news = {} /\ own = Nothing

\* What each screen is meant to follow on its own.
Deletions ==
  {"DeleteAppointment", "DeleteAppointmentFromDashboard", "DeleteCustomer",
   "DeleteCustomerFromDashboard", "DeleteAllCustomers"}
Creations == {"CreateAppointment", "CreateForNewCustomer"}
CustomerChanges ==
  {"CreateForNewCustomer", "CreateCustomer", "UpdateCustomer", "ToggleActive",
   "DeleteCustomer", "DeleteCustomerFromDashboard"}
InPlace == {"Start", "UpdateCustomer", "ToggleActive", "DismissActivity"}
Live(q) ==
  CASE q \in {"dashboard_stats", "sched_dashboard_stats", "call_reports"} -> Op
    [] q \in {"dashboard_activity", "sched_dashboard_activity", "dashboard_drill", "sched_drill",
              "export_requests"} -> Op \ InPlace
    [] q \in {"appointments", "pending_visibility", "pending_export"} -> Deletions
    [] q \in {"urgent_appointments", "tech_urgent_appointments", "urgent_unresolved"} ->
         Creations \cup Deletions
    [] q = "customers" -> CustomerChanges \cup {"DeleteAllCustomers"}
    [] q = "customers_sched" -> CustomerChanges
    [] q = "work_queue" -> Creations \cup Deletions \cup {"ApproveExport", "Start", "Complete", "Postpone"}
    [] q = "notifications" -> {"CreateReminders"}
    [] OTHER -> {}

\* A screen at rest lacks none of the changes it follows, unless it was not
\* listening or not connected when they were announced, or its fetch raced
\* with the announcement (the listeners of the pages).
LiveScreensFollow ==
  Quiet /\ Observed => cache.unseen \cap Live(query) \subseteq excused \cup cache.raced

\* Changes a page does not show where they are made: TaskDetail keeps its own
\* copy when a task is completed or postponed, and the note beside an open
\* form stays when the visit it came from is deleted below it.
LeftBehind(q) ==
  CASE q = "appointment" -> {"Complete", "Postpone"}
    [] q = "maintenance_note" -> {"DeleteAppointment", "DeleteAppointmentFromDashboard"}
    [] OTHER -> {}

\* Every other change a user makes where it is shown is shown, once the answer
\* is in, unless the fetch raced (the onSuccess of the mutations).
OwnChangesShow ==
  Quiet /\ Observed => cache.unseen \cap mine \subseteq cache.raced \cup LeftBehind(query)

\* A badge that is polled shows every change in the end, whatever was lost
\* (refetchInterval of the sidebars and the conversations).
PolledRecover ==
  (cache.unseen # {} /\ mounted \cap wiring.pollers # {})
    ~> (cache.unseen = {} \/ mounted \cap wiring.pollers = {})
=============================================================================
