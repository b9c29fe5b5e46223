------------------------------ MODULE Shutdown ------------------------------
(***************************************************************************)
(* The graceful shutdown: shutdown.ts, as index.ts wires it.               *)
(*                                                                         *)
(* Each signal calls the handler.  The first call closes Socket.IO, the    *)
(* HTTP server and the database client, each when the one before has       *)
(* called back, and races this sequence against a force timer.  Clients    *)
(* and requests come and go meanwhile, and what is waited for may never    *)
(* come.  onExit is a parameter of the handler and may return, as it does  *)
(* in the tests: the loser of the race then runs on.                       *)
(***************************************************************************)
EXTENDS Naturals, Sequences

CONSTANTS
  Call,      \* bound: signals received
  Client,    \* Socket.IO clients
  Request    \* HTTP requests

Service == {"io", "http", "db"}
Stuckable == Service \cup {"answer"}

VARIABLES
  alive,         \* the process runs
  services,      \* services not closed
  sockets,       \* connected clients
  requests,      \* requests in flight
  stuck,         \* what never comes back: a close, or the answers to requests
  shuttingDown,  \* the flag in the closure
  stage,         \* what the sequence of each call waits for
  timer,         \* the force timer of each call
  codes          \* what onExit was called with

stopVars == <<alive, services, sockets, requests, stuck, shuttingDown, stage, timer, codes>>
net == <<sockets, requests, stuck>>
race == <<alive, timer, codes>>

StopInit ==
  /\ alive = TRUE /\ shuttingDown = FALSE
  /\ services = Service /\ stuck \in SUBSET Stuckable
  /\ sockets = {} /\ requests = {}
  /\ stage = [c \in Call |-> "none"]
  /\ timer = [c \in Call |-> "off"]
  /\ codes = <<>>

-----------------------------------------------------------------------------
(* Clients and requests. *)
Connect(k) == "io" \in services /\ sockets' = sockets \cup {k} /\ UNCHANGED requests
Leave(k) == sockets' = sockets \ {k} /\ UNCHANGED requests
Accept(r) == "http" \in services /\ requests' = requests \cup {r} /\ UNCHANGED sockets
Answer(r) == "answer" \notin stuck /\ requests' = requests \ {r} /\ UNCHANGED sockets

Traffic ==
  /\ alive
  /\ \/ \E k \in Client : Connect(k) \/ Leave(k)
     \/ \E r \in Request : Accept(r) \/ Answer(r)
  /\ UNCHANGED <<services, stuck, shuttingDown, stage, race>>

-----------------------------------------------------------------------------
(* The handler. *)
OnExit(code) ==
  /\ codes' = Append(codes, code)
  /\ alive' \in BOOLEAN

\* Fault: the sequence exits although the timer was faster.
SettlesRegardless(c, code) ==
  timer' = [timer EXCEPT ![c] = "cleared"] /\ OnExit(code)

\* The sequence of a call brings its code to the race.
Settles(c, code) ==
  \/ timer[c] = "armed" /\ timer' = [timer EXCEPT ![c] = "cleared"] /\ OnExit(code)
  \/ timer[c] = "fired" /\ UNCHANGED race

\* A call that finds the flag set returns.
Begins(c, next) ==
  /\ alive /\ stage[c] = "none" /\ ~shuttingDown
  /\ shuttingDown' = TRUE
  /\ stage' = [stage EXCEPT ![c] = next]

\* Fault: the clients stay connected.
BeginConnected(c) ==
  /\ Begins(c, "io")
  /\ timer' = [timer EXCEPT ![c] = "armed"]
  /\ services' = services \ {"io"}
  /\ UNCHANGED <<net, alive, codes>>

\* Up to the first await: io.close disconnects every client.
BeginStop(c) ==
  /\ Begins(c, "io")
  /\ timer' = [timer EXCEPT ![c] = "armed"]
  /\ services' = services \ {"io"} /\ sockets' = {}
  /\ UNCHANGED <<alive, requests, stuck, codes>>

\* stopCron, the first call of the sequence, throws.
BeginThrows(c) ==
  /\ Begins(c, "over")
  /\ timer' = [timer EXCEPT ![c] = "cleared"] /\ OnExit(1)
  /\ UNCHANGED <<net, services>>

Returns(c, service, next) ==
  /\ alive /\ stage[c] = service /\ service \notin stuck
  /\ stage' = [stage EXCEPT ![c] = next]
  /\ UNCHANGED <<net, shuttingDown>>

\* io.close calls back; httpServer.close stops listening.
IoCloses(c) == Returns(c, "io", "http") /\ services' = services \ {"http"} /\ UNCHANGED race

\* Fault: the callback of httpServer.close is not awaited.
HttpClosesAtOnce(c) == Returns(c, "http", "db") /\ UNCHANGED <<services, race>>

\* httpServer.close calls back when the last connection has ended.
HttpCloses(c) ==
  /\ Returns(c, "http", "db")
  /\ sockets = {} /\ requests = {}
  /\ UNCHANGED <<services, race>>

Disconnects(c) == Returns(c, "db", "over") /\ services' = services \ {"db"} /\ Settles(c, 0)

\* Fault: the error is logged and the code is that of success.
DisconnectFailsWell(c) == Returns(c, "db", "over") /\ Settles(c, 0) /\ UNCHANGED services

DisconnectFails(c) == Returns(c, "db", "over") /\ Settles(c, 1) /\ UNCHANGED services

\* The grace period is over; the sequence goes on if onExit returns.
ForceExit(c) ==
  /\ alive /\ timer[c] = "armed"
  /\ timer' = [timer EXCEPT ![c] = "fired"] /\ OnExit(1)
  /\ UNCHANGED <<net, services, shuttingDown, stage>>

\* The timer is unref'ed: with no connection left the event loop may end first.
LoopEnds ==
  /\ alive /\ shuttingDown
  /\ "http" \notin services /\ sockets = {} /\ requests = {}
  /\ alive' = FALSE
  /\ UNCHANGED <<net, services, shuttingDown, stage, timer, codes>>

Sequence(c) == IoCloses(c) \/ HttpCloses(c) \/ Disconnects(c) \/ DisconnectFails(c)

StopNext ==
  \/ Traffic
  \/ \E c \in Call : BeginStop(c) \/ BeginThrows(c) \/ Sequence(c) \/ ForceExit(c)
  \/ LoopEnds

StopSpec == StopInit /\ [][StopNext]_stopVars

\* What is not stuck comes back.  The timer is relied on only where something
\* is stuck: else the sequence has to end by itself.
StopFairness ==
  /\ \A c \in Call : WF_stopVars(Sequence(c)) /\ WF_stopVars(stuck # {} /\ ForceExit(c))
  /\ \A r \in Request : WF_stopVars(Traffic /\ Answer(r))
FairStop == StopSpec /\ StopFairness

-----------------------------------------------------------------------------
StopTypeOK ==
  /\ alive \in BOOLEAN /\ shuttingDown \in BOOLEAN
  /\ services \in SUBSET Service /\ stuck \in SUBSET Stuckable
  /\ sockets \in SUBSET Client /\ requests \in SUBSET Request
  /\ stage \in [Call -> {"none", "io", "http", "db", "over"}]
  /\ timer \in [Call -> {"off", "armed", "cleared", "fired"}]
  /\ codes \in Seq({0, 1})

\* onExit is called at most once, however many signals come and whoever wins
\* the race, also when it returns and the sequence ends after the timer.
ExitsOnce == Len(codes) <= 1

\* Exit code 0 says what it means: everything is closed, no client is
\* connected and no request was cut off.
CleanExit ==
  \A i \in DOMAIN codes : codes[i] = 0 => services = {} /\ sockets = {} /\ requests = {}

\* No request in flight loses the database, also when the timer was faster
\* than the sequence.
RequestsKeepDatabase == "db" \in services \/ requests = {}

\* A stop cuts nothing off and does not claim to be clean when it is not.
StopsCleanly == CleanExit /\ RequestsKeepDatabase

\* A shutdown ends.  With nothing stuck it does so without the timer, though
\* the clients themselves would stay connected for ever.
ShutdownEnds == shuttingDown ~> codes # <<>> \/ ~alive
=============================================================================
