---------------------------- MODULE LifecycleProofs ----------------------------
(***************************************************************************)
(* Theorems about the parts whose subject is when things begin and end:    *)
(* the shutdown of the backend, for any signals, clients and requests; the *)
(* session of a client and its socket, for any number of logins, expiries  *)
(* and failures; the banner of the connection; the update of the desktop   *)
(* shell, for any number of messages, reloads and launches.                *)
(***************************************************************************)
EXTENDS Shutdown, Sessions, ConnectionBanner, Updater, TLAPS

-----------------------------------------------------------------------------
(* The shutdown: type correctness. *)

LEMMA AppendTypes ==
  ASSUME NEW code \in {0, 1}, codes \in Seq({0, 1})
  PROVE  Append(codes, code) \in Seq({0, 1})
OBVIOUS

LEMMA SettlesTypes ==
  ASSUME StopTypeOK, NEW c \in Call, NEW code \in {0, 1}, Settles(c, code)
  PROVE  /\ alive' \in BOOLEAN /\ codes' \in Seq({0, 1})
         /\ timer' \in [Call -> {"off", "armed", "cleared", "fired"}]
BY AppendTypes DEF Settles, OnExit, race, StopTypeOK

LEMMA StepTypes ==
  ASSUME StopTypeOK, [StopNext]_stopVars
  PROVE  StopTypeOK'
<1> USE DEF net, race
<1>1. CASE Traffic
  BY <1>1 DEF Traffic, Connect, Leave, Accept, Answer, StopTypeOK
<1>2. ASSUME NEW c \in Call, BeginStop(c)
      PROVE  StopTypeOK'
  BY <1>2 DEF BeginStop, Begins, StopTypeOK
<1>3. ASSUME NEW c \in Call, BeginThrows(c)
      PROVE  StopTypeOK'
  BY <1>3, AppendTypes DEF BeginThrows, Begins, OnExit, StopTypeOK
<1>4. ASSUME NEW c \in Call, ForceExit(c)
      PROVE  StopTypeOK'
  BY <1>4, AppendTypes DEF ForceExit, OnExit, StopTypeOK
<1>5. ASSUME NEW c \in Call, IoCloses(c) \/ HttpCloses(c)
      PROVE  StopTypeOK'
  BY <1>5 DEF IoCloses, HttpCloses, Returns, StopTypeOK
<1>6. ASSUME NEW c \in Call, Disconnects(c)
      PROVE  StopTypeOK'
  <2>1. Settles(c, 0)
    BY <1>6 DEF Disconnects
  <2> QED BY <1>6, <2>1, SettlesTypes DEF Disconnects, Returns, StopTypeOK
<1>7. ASSUME NEW c \in Call, DisconnectFails(c)
      PROVE  StopTypeOK'
  <2>1. Settles(c, 1)
    BY <1>7 DEF DisconnectFails
  <2> QED BY <1>7, <2>1, SettlesTypes DEF DisconnectFails, Returns, StopTypeOK
<1>8. CASE LoopEnds
  BY <1>8 DEF LoopEnds, StopTypeOK
<1>9. CASE UNCHANGED stopVars
  BY <1>9 DEF stopVars, StopTypeOK
<1> QED BY <1>1, <1>2, <1>3, <1>4, <1>5, <1>6, <1>7, <1>8, <1>9 DEF StopNext, Sequence

LEMMA InitTypes == StopInit => StopTypeOK
<1> SUFFICES ASSUME StopInit PROVE StopTypeOK
  OBVIOUS
<1>1. alive \in BOOLEAN /\ shuttingDown \in BOOLEAN
  BY Zenon DEF StopInit
<1>2. codes \in Seq({0, 1})
  BY DEF StopInit
<1> QED BY <1>1, <1>2 DEF StopInit, StopTypeOK

\* Every variable of the shutdown keeps its type; in particular onExit is only
\* called with 0 or 1.
THEOREM ShutdownTypeCorrect == StopSpec => []StopTypeOK
<1>1. StopTypeOK /\ [StopNext]_stopVars => StopTypeOK' BY StepTypes
<1> QED BY <1>1, InitTypes, PTL DEF StopSpec

-----------------------------------------------------------------------------
(* One race, one exit. *)

\* Before the first signal nothing has happened.
Untouched == ~shuttingDown => codes = <<>> /\ \A c \in Call : timer[c] = "off"

\* Only one call ever raced.
OneRace == \A c, d \in Call : timer[c] # "off" /\ timer[d] # "off" => c = d

\* Once onExit was called no race is services.
RaceDecided == codes # <<>> => \A c \in Call : timer[c] # "armed"

ExitInv == StopTypeOK /\ Untouched /\ OneRace /\ RaceDecided /\ ExitsOnce

\* A step that decides the one services race.
LEMMA RaceEnds ==
  ASSUME ExitInv, NEW c \in Call, timer[c] = "armed", NEW code \in {0, 1},
         NEW mark \in {"cleared", "fired"},
         timer' = [timer EXCEPT ![c] = mark], codes' = Append(codes, code),
         shuttingDown' = shuttingDown
  PROVE  Untouched' /\ OneRace' /\ RaceDecided' /\ ExitsOnce'
<1> USE DEF ExitInv
<1>1. codes = <<>>
  BY DEF RaceDecided
<1>2. Len(codes') = 1 /\ codes' # <<>>
  BY <1>1
<1>3. shuttingDown
  BY DEF Untouched
<1>4. \A d \in Call : d # c => timer'[d] = "off"
  BY DEF OneRace, StopTypeOK
<1>5. timer'[c] = mark
  BY DEF StopTypeOK
<1> QED BY <1>2, <1>3, <1>4, <1>5 DEF Untouched, OneRace, RaceDecided, ExitsOnce

LEMMA SettlesExits ==
  ASSUME ExitInv, NEW c \in Call, NEW code \in {0, 1}, Settles(c, code),
         shuttingDown' = shuttingDown
  PROVE  Untouched' /\ OneRace' /\ RaceDecided' /\ ExitsOnce'
<1>1. CASE timer[c] = "armed"
  <2>1. timer' = [timer EXCEPT ![c] = "cleared"] /\ codes' = Append(codes, code)
    BY <1>1 DEF Settles, OnExit
  <2> QED BY <1>1, <2>1, RaceEnds
<1>2. CASE timer[c] # "armed"
  BY <1>2 DEF Settles, race, ExitInv, Untouched, OneRace, RaceDecided, ExitsOnce
<1> QED BY <1>1, <1>2

LEMMA StepExits ==
  ASSUME ExitInv, [StopNext]_stopVars
  PROVE  ExitInv'
<1> USE DEF ExitInv, net, race
<1>1. StopTypeOK'
  BY StepTypes
<1>2. CASE UNCHANGED <<shuttingDown, timer, codes>>
  BY <1>1, <1>2 DEF Untouched, OneRace, RaceDecided, ExitsOnce
<1>3. ASSUME NEW c \in Call, BeginStop(c)
      PROVE  ExitInv'
  <2>1. codes' = <<>> /\ \A d \in Call : d # c => timer'[d] = "off"
    BY <1>3 DEF BeginStop, Begins, Untouched, StopTypeOK
  <2>2. shuttingDown'
    BY <1>3 DEF BeginStop, Begins
  <2> QED BY <1>1, <2>1, <2>2 DEF Untouched, OneRace, RaceDecided, ExitsOnce
<1>4. ASSUME NEW c \in Call, BeginThrows(c)
      PROVE  ExitInv'
  <2>1. codes = <<>> /\ codes' = Append(codes, 1)
    BY <1>4 DEF BeginThrows, Begins, OnExit, Untouched
  <2>2. shuttingDown' /\ Len(codes') = 1
    BY <1>4, <2>1 DEF BeginThrows, Begins
  <2>3. timer'[c] = "cleared" /\ \A d \in Call : d # c => timer'[d] = "off"
    BY <1>4 DEF BeginThrows, Begins, Untouched, StopTypeOK
  <2> QED BY <1>1, <2>2, <2>3 DEF Untouched, OneRace, RaceDecided, ExitsOnce
<1>5. ASSUME NEW c \in Call, Disconnects(c)
      PROVE  ExitInv'
  <2>1. Settles(c, 0) /\ shuttingDown' = shuttingDown
    BY <1>5 DEF Disconnects, Returns
  <2> QED BY <1>1, <2>1, SettlesExits
<1>6. ASSUME NEW c \in Call, DisconnectFails(c)
      PROVE  ExitInv'
  <2>1. Settles(c, 1) /\ shuttingDown' = shuttingDown
    BY <1>6 DEF DisconnectFails, Returns
  <2> QED BY <1>1, <2>1, SettlesExits
<1>7. ASSUME NEW c \in Call, ForceExit(c)
      PROVE  ExitInv'
  <2>1. /\ timer[c] = "armed" /\ timer' = [timer EXCEPT ![c] = "fired"]
        /\ codes' = Append(codes, 1) /\ shuttingDown' = shuttingDown
    BY <1>7 DEF ForceExit, OnExit
  <2> QED BY <1>1, <2>1, RaceEnds
<1>8. CASE Traffic
  BY <1>2, <1>8 DEF Traffic
<1>9. ASSUME NEW c \in Call, IoCloses(c) \/ HttpCloses(c)
      PROVE  ExitInv'
  BY <1>2, <1>9 DEF IoCloses, HttpCloses, Returns
<1>10. CASE LoopEnds \/ UNCHANGED stopVars
  BY <1>2, <1>10 DEF LoopEnds, stopVars
<1> QED BY <1>3, <1>4, <1>5, <1>6, <1>7, <1>8, <1>9, <1>10 DEF StopNext, Sequence

\* onExit is called at most once, for any number of signals and whoever wins
\* the race between the sequence and the force timer.
THEOREM OneExit == StopSpec => []ExitsOnce
<1>1. StopInit => ExitInv
  BY InitTypes DEF StopInit, ExitInv, Untouched, OneRace, RaceDecided, ExitsOnce
<1>2. ExitInv /\ [StopNext]_stopVars => ExitInv'
  BY StepExits
<1>3. ExitInv => ExitsOnce
  BY DEF ExitInv
<1> QED BY <1>1, <1>2, <1>3, PTL DEF StopSpec

-----------------------------------------------------------------------------
(* Everything is closed in order. *)

\* How far a sequence is tells what is closed.
ClosedInOrder ==
  \A c \in Call :
    /\ stage[c] \in {"io", "http", "db"} => "io" \notin services
    /\ stage[c] \in {"http", "db"} => "http" \notin services
    /\ stage[c] = "db" => requests = {}

\* What is closed stays without clients, and the database goes last.
ClosedIsEmpty ==
  /\ "io" \notin services => sockets = {}
  /\ "db" \notin services => services = {} /\ requests = {}

ZeroIsClosed == \A i \in DOMAIN codes : codes[i] = 0 => "db" \notin services

CloseInv == StopTypeOK /\ ClosedInOrder /\ ClosedIsEmpty /\ ZeroIsClosed

LEMMA AppendZero ==
  ASSUME codes \in Seq({0, 1}), ZeroIsClosed, services' \in SUBSET services,
         \/ codes' = codes
         \/ codes' = Append(codes, 1)
         \/ codes' = Append(codes, 0) /\ "db" \notin services'
  PROVE  ZeroIsClosed'
<1> SUFFICES ASSUME NEW i \in DOMAIN codes', codes'[i] = 0
             PROVE  "db" \notin services'
  BY DEF ZeroIsClosed
<1>1. CASE codes' = codes
  BY <1>1 DEF ZeroIsClosed
<1>2. CASE codes' = Append(codes, 1)
  <2>1. i \in DOMAIN codes /\ codes[i] = 0
    BY <1>2
  <2> QED BY <2>1 DEF ZeroIsClosed
<1> QED BY <1>1, <1>2

LEMMA SettlesCodes ==
  ASSUME NEW c \in Call, NEW code \in {0, 1}, Settles(c, code)
  PROVE  codes' = codes \/ codes' = Append(codes, code)
BY DEF Settles, OnExit, race

LEMMA StepCloses ==
  ASSUME CloseInv, [StopNext]_stopVars
  PROVE  CloseInv'
<1> USE DEF CloseInv, net, race
<1>1. StopTypeOK'
  BY StepTypes
<1>2. CASE Traffic
  BY <1>1, <1>2
     DEF Traffic, Connect, Leave, Accept, Answer, ClosedInOrder, ClosedIsEmpty, ZeroIsClosed
<1>3. ASSUME NEW c \in Call, BeginStop(c)
      PROVE  CloseInv'
  BY <1>1, <1>3 DEF BeginStop, Begins, StopTypeOK, ClosedInOrder, ClosedIsEmpty, ZeroIsClosed
<1>4. ASSUME NEW c \in Call, BeginThrows(c)
      PROVE  CloseInv'
  <2>1. ClosedInOrder' /\ ClosedIsEmpty'
    BY <1>4 DEF BeginThrows, Begins, StopTypeOK, ClosedInOrder, ClosedIsEmpty
  <2>2. codes' = Append(codes, 1) /\ services' = services
    BY <1>4 DEF BeginThrows, OnExit
  <2> QED BY <1>1, <2>1, <2>2, AppendZero DEF StopTypeOK
<1>5. ASSUME NEW c \in Call, IoCloses(c)
      PROVE  CloseInv'
  BY <1>1, <1>5 DEF IoCloses, Returns, StopTypeOK, ClosedInOrder, ClosedIsEmpty, ZeroIsClosed
<1>6. ASSUME NEW c \in Call, HttpCloses(c)
      PROVE  CloseInv'
  BY <1>1, <1>6 DEF HttpCloses, Returns, StopTypeOK, ClosedInOrder, ClosedIsEmpty, ZeroIsClosed
<1>7. ASSUME NEW c \in Call, Disconnects(c)
      PROVE  CloseInv'
  <2>1. services' = {} /\ requests' = {} /\ sockets' = {}
    BY <1>7 DEF Disconnects, Returns, StopTypeOK, Service, ClosedInOrder, ClosedIsEmpty
  <2>2. ClosedInOrder' /\ ClosedIsEmpty'
    BY <2>1 DEF ClosedInOrder, ClosedIsEmpty
  <2>3. codes' = codes \/ codes' = Append(codes, 0)
    BY <1>7, SettlesCodes DEF Disconnects
  <2> QED BY <1>1, <2>1, <2>2, <2>3, AppendZero DEF StopTypeOK
<1>8. ASSUME NEW c \in Call, DisconnectFails(c)
      PROVE  CloseInv'
  <2>1. ClosedInOrder' /\ ClosedIsEmpty'
    BY <1>8 DEF DisconnectFails, Returns, StopTypeOK, ClosedInOrder, ClosedIsEmpty
  <2>2. codes' = codes \/ codes' = Append(codes, 1)
    BY <1>8, SettlesCodes DEF DisconnectFails
  <2>3. services' = services
    BY <1>8 DEF DisconnectFails
  <2> QED BY <1>1, <2>1, <2>2, <2>3, AppendZero DEF StopTypeOK
<1>9. ASSUME NEW c \in Call, ForceExit(c)
      PROVE  CloseInv'
  <2>1. ClosedInOrder' /\ ClosedIsEmpty'
    BY <1>9 DEF ForceExit, ClosedInOrder, ClosedIsEmpty
  <2>2. codes' = Append(codes, 1) /\ services' = services
    BY <1>9 DEF ForceExit, OnExit
  <2> QED BY <1>1, <2>1, <2>2, AppendZero DEF StopTypeOK
<1>10. CASE LoopEnds \/ UNCHANGED stopVars
  BY <1>1, <1>10 DEF LoopEnds, stopVars, ClosedInOrder, ClosedIsEmpty, ZeroIsClosed
<1> QED BY <1>2, <1>3, <1>4, <1>5, <1>6, <1>7, <1>8, <1>9, <1>10 DEF StopNext, Sequence

LEMMA Closes == StopSpec => []CloseInv
<1>1. StopInit => CloseInv
  BY InitTypes DEF StopInit, Service, CloseInv, ClosedInOrder, ClosedIsEmpty, ZeroIsClosed
<1>2. CloseInv /\ [StopNext]_stopVars => CloseInv'
  BY StepCloses
<1> QED BY <1>1, <1>2, PTL DEF StopSpec

\* Exit code 0 is given only when everything is closed, no client is connected
\* and no request is in flight, and no request in flight loses the database,
\* also when a forced shutdown's sequence runs on.
THEOREM StopsAreClean == StopSpec => []StopsCleanly
<1>1. CloseInv => CleanExit
  BY DEF CloseInv, CleanExit, ClosedIsEmpty, ZeroIsClosed
<1>2. CloseInv => RequestsKeepDatabase
  BY DEF CloseInv, RequestsKeepDatabase, ClosedIsEmpty
<1> QED BY <1>1, <1>2, Closes, PTL DEF StopsCleanly

-----------------------------------------------------------------------------
(* Whose socket it is.  The token the socket offers is the one it was last   *)
(* used with; that one is the token of the session unless an effect is due;  *)
(* and the backend knows the socket by it unless it changed while it was     *)
(* being verified.                                                           *)

OffersToken == offered = usedToken
UsesSession == auth # NoToken /\ ~due => usedToken = auth
BackendKnows == socket \in {"greeting", "open"} /\ ~overtaken => bound = usedToken

SessionInv ==
  /\ due \in BOOLEAN /\ overtaken \in BOOLEAN
  /\ OffersToken /\ UsesSession /\ BackendKnows

LEMMA SessionInitInv == SessionInit => SessionInv
<1> SUFFICES ASSUME SessionInit PROVE SessionInv OBVIOUS
<1>1. due \in BOOLEAN /\ overtaken \in BOOLEAN BY Zenon DEF SessionInit
<1> QED BY <1>1 DEF SessionInit, SessionInv, OffersToken, UsesSession, BackendKnows

LEMMA UseSocketInv == ASSUME SessionInv, UseSocket PROVE SessionInv'
<1> USE DEF SessionInv
<1>1. /\ usedToken' = auth /\ auth' = auth /\ due' = FALSE
      /\ offered' = Reoffered
  BY DEF UseSocket, sessionOnly
<1>2. offered' = usedToken' BY <1>1 DEF Reoffered, OffersToken
<1>3. overtaken' \in BOOLEAN BY DEF UseSocket
<1>4. CASE usedToken = auth
  <2>1. bound' = bound /\ overtaken' = overtaken BY <1>4 DEF UseSocket
  <2>2. socket' \in {"greeting", "open"} => socket \in {"greeting", "open"}
    BY <1>4 DEF UseSocket, Reconnected
  <2> QED BY <1>1, <1>2, <1>3, <1>4, <2>1, <2>2 DEF OffersToken, UsesSession, BackendKnows
<1>5. CASE usedToken # auth
  <2>1. socket' # "open" /\ (socket' = "greeting" => socket = "greeting")
    BY <1>5 DEF UseSocket, Reconnected
  <2>2. socket = "greeting" => overtaken' = TRUE BY <1>5 DEF UseSocket
  <2> QED BY <1>1, <1>2, <1>3, <2>1, <2>2 DEF OffersToken, UsesSession, BackendKnows
<1> QED BY <1>4, <1>5

LEMMA SessionNextInv == SessionInv /\ [SessionNext]_sessionVars => SessionInv'
<1> SUFFICES ASSUME SessionInv, [SessionNext]_sessionVars PROVE SessionInv' OBVIOUS
<1> USE DEF SessionInv, OffersToken, UsesSession, BackendKnows
<1>1. CASE UNCHANGED sessionVars BY <1>1 DEF sessionVars
<1>2. CASE SignIn \/ SignInFails \/ CallApi \/ Settle \/ \E r \in calls : Serve(r)
  BY <1>2 DEF SignIn, SignInFails, CallApi, Settle, Serve, socketOnly
<1>3. CASE SignedIn BY <1>3 DEF SignedIn, socketOnly
<1>4. CASE LogOut BY <1>4 DEF LogOut, socketOnly
<1>5. ASSUME NEW r \in calls, Refused(r) PROVE SessionInv'
  <2>1. UNCHANGED socketOnly /\ ((auth' = NoToken /\ due' = FALSE) \/ UNCHANGED <<auth, due>>)
    BY <1>5 DEF Refused
  <2> QED BY <2>1 DEF socketOnly
<1>6. ASSUME NEW t \in Token, Expire(t) PROVE SessionInv'
  BY <1>6 DEF Expire, sessionOnly, socketOnly
<1>7. CASE UseSocket BY <1>7, UseSocketInv
<1>8. CASE Greet BY <1>8 DEF Greet, sessionOnly
<1>9. CASE Welcome BY <1>9 DEF Welcome, sessionOnly
<1>10. CASE Drop \/ GiveUp BY <1>10 DEF Drop, GiveUp, sessionOnly
<1> QED
  BY <1>1, <1>2, <1>3, <1>4, <1>5, <1>6, <1>7, <1>8, <1>9, <1>10 DEF SessionNext

\* The backend knows an open socket by the token of the session, for any number
\* of logins, expiries and failures; a login during a handshake is the exception
\* the invariant names (getOrCreateSocket, socketConnection.ts).
THEOREM SocketIsOfSession == SessionSpec => []SocketSpeaksForSession
<1>1. SessionInv => SocketSpeaksForSession
  BY DEF SessionInv, UsesSession, BackendKnows, SocketSpeaksForSession
<1> QED BY <1>1, SessionInitInv, SessionNextInv, PTL DEF SessionSpec

-----------------------------------------------------------------------------
(* The banner of the connection.  Its good news run only while it listens,   *)
(* over a live link or one that has gone down since; it listens only to a    *)
(* socket that exists.                                                       *)

BannerInv ==
  /\ link \in {"none", "up", "down"} /\ heard \in BOOLEAN /\ restore \in BOOLEAN
  /\ flapped \in BOOLEAN
  /\ restore => heard /\ (link = "up" \/ flapped)
  /\ BannerMatchesLink

LEMMA BannerNextInv == BannerInv /\ [BannerNext]_bannerVars => BannerInv'
<1> SUFFICES ASSUME BannerInv, [BannerNext]_bannerVars PROVE BannerInv' OBVIOUS
<1> USE DEF BannerInv, BannerMatchesLink
<1>1. CASE UNCHANGED bannerVars BY <1>1 DEF bannerVars
<1>2. CASE MountBanner \/ CreateSocket BY <1>2 DEF MountBanner, CreateSocket
<1>3. CASE AttachBanner BY <1>3 DEF AttachBanner, StatusFound
<1>4. CASE Connected BY <1>4 DEF Connected
<1>5. CASE Disconnected BY <1>5 DEF Disconnected
<1>6. CASE RestoreOver BY <1>6 DEF RestoreOver
<1>7. CASE UnmountBanner BY <1>7 DEF UnmountBanner
<1> QED BY <1>1, <1>2, <1>3, <1>4, <1>5, <1>6, <1>7 DEF BannerNext

\* The banner tells the truth about the link, however often it is mounted and
\* the link goes up and down (ConnectionBanner.tsx); the timer that outlives a
\* disconnect is the exception the invariant names.
THEOREM BannerIsTrue == BannerSpec => []BannerMatchesLink
<1>1. BannerInit => BannerInv
  <2> SUFFICES ASSUME BannerInit PROVE BannerInv OBVIOUS
  <2>1. heard \in BOOLEAN /\ restore \in BOOLEAN /\ flapped \in BOOLEAN
    BY Zenon DEF BannerInit
  <2> QED BY <2>1 DEF BannerInit, BannerInv, BannerMatchesLink
<1>2. BannerInv => BannerMatchesLink BY DEF BannerInv
<1> QED BY <1>1, <1>2, BannerNextInv, PTL DEF BannerSpec

-----------------------------------------------------------------------------
(* The update.  Once it is downloaded, the news of it is under way to the    *)
(* page or has made its phase "ready" (place 0), and nothing that comes      *)
(* after the news starts the page over.                                      *)

Event == {"available", "progress", "downloaded", "error"}

UpdaterTypeOK ==
  /\ toPage \in Seq(Event) /\ dismissed \in BOOLEAN /\ effect \in BOOLEAN /\ missed \in BOOLEAN

ToldAt(i) ==
  /\ IF i = 0 THEN phase = "ready" ELSE toPage[i] = "downloaded"
  /\ \A j \in DOMAIN toPage : j > i => toPage[j] # "available"

NewsOnItsWay ==
  updater = "downloaded" /\ ~missed => \E i \in {0} \cup DOMAIN toPage : ToldAt(i)

ReadyIsShown == phase = "ready" /\ dismissed => effect

UpdaterInv == UpdaterTypeOK /\ NewsOnItsWay /\ ReadyIsShown

LEMMA UpdaterInitInv == UpdaterInit => UpdaterInv
<1> SUFFICES ASSUME UpdaterInit PROVE UpdaterInv OBVIOUS
<1>1. dismissed \in BOOLEAN /\ effect \in BOOLEAN /\ missed \in BOOLEAN BY Zenon DEF UpdaterInit
<1>2. toPage \in Seq(Event) BY DEF UpdaterInit
<1> QED BY <1>1, <1>2 DEF UpdaterInit, UpdaterInv, UpdaterTypeOK, NewsOnItsWay, ReadyIsShown

\* What is sent later leaves the news where it is.
LEMMA SentAfterNews ==
  ASSUME UpdaterTypeOK, NewsOnItsWay, NEW e \in Event \ {"available"}, Send(<<e>>),
         UNCHANGED <<updater, phase, missed>>
  PROVE  NewsOnItsWay'
<1> SUFFICES ASSUME updater = "downloaded", ~missed
             PROVE  \E i \in {0} \cup DOMAIN toPage' : ToldAt(i)'
  BY DEF NewsOnItsWay
<1>1. PICK i \in {0} \cup DOMAIN toPage : ToldAt(i) BY DEF NewsOnItsWay
<1>2. toPage \in Seq(Event) /\ toPage' = toPage \o <<e>> BY DEF UpdaterTypeOK, Send
<1>3. /\ DOMAIN toPage = 1 .. Len(toPage) /\ DOMAIN toPage' = 1 .. Len(toPage) + 1
      /\ Len(toPage) \in Nat
      /\ \A j \in DOMAIN toPage : toPage'[j] = toPage[j]
      /\ toPage'[Len(toPage) + 1] = e
  BY <1>2
<1>4. i \in {0} \cup DOMAIN toPage' BY <1>3
<1>5. IF i = 0 THEN phase' = "ready" ELSE toPage'[i] = "downloaded" BY <1>1, <1>3 DEF ToldAt
<1>6. ASSUME NEW j \in DOMAIN toPage', j > i PROVE toPage'[j] # "available"
  <2>1. CASE j \in DOMAIN toPage BY <1>1, <1>3, <1>6, <2>1 DEF ToldAt
  <2>2. CASE j = Len(toPage) + 1 BY <1>3, <2>2
  <2> QED BY <1>3, <2>1, <2>2
<1>7. ToldAt(i)' BY <1>5, <1>6 DEF ToldAt
<1> QED BY <1>4, <1>7

\* News that is sent is on its way.
LEMMA NewsIsSent ==
  ASSUME UpdaterTypeOK, Send(<<"downloaded">>)
  PROVE  \E i \in {0} \cup DOMAIN toPage' : ToldAt(i)'
<1>1. toPage \in Seq(Event) /\ toPage' = toPage \o <<"downloaded">> BY DEF UpdaterTypeOK, Send
<1>2. /\ DOMAIN toPage' = 1 .. Len(toPage) + 1 /\ Len(toPage) \in Nat
      /\ toPage'[Len(toPage) + 1] = "downloaded"
  BY <1>1
<1>3. PICK n \in DOMAIN toPage' : n = Len(toPage) + 1 BY <1>2
<1>4. ToldAt(n)' BY <1>2, <1>3 DEF ToldAt
<1> QED BY <1>4

LEMMA SendTypes ==
  ASSUME UpdaterTypeOK, NEW messages \in Seq(Event), Send(messages)
  PROVE  toPage' \in Seq(Event)
BY DEF UpdaterTypeOK, Send

\* A message that the page receives moves the news one place on.
LEMMA ReceiveKeepsNews ==
  ASSUME UpdaterInv, Receive
  PROVE  NewsOnItsWay'
<1> SUFFICES ASSUME updater' = "downloaded", ~missed'
             PROVE  \E i \in {0} \cup DOMAIN toPage' : ToldAt(i)'
  BY DEF NewsOnItsWay
<1> USE DEF UpdaterInv, UpdaterTypeOK
<1>1. /\ listening /\ phase' = PhaseAfter(Head(toPage)) /\ ~missed /\ Head(toPage) # "error"
      /\ updater = "downloaded" /\ toPage # <<>> /\ toPage' = Tail(toPage)
  BY DEF Receive
<1>2. PICK i \in {0} \cup DOMAIN toPage : ToldAt(i) BY <1>1 DEF NewsOnItsWay
<1>3. /\ DOMAIN toPage = 1 .. Len(toPage) /\ Len(toPage) \in Nat /\ Len(toPage) > 0
      /\ Head(toPage) = toPage[1] /\ Head(toPage) \in Event
      /\ DOMAIN toPage' = 1 .. Len(toPage) - 1
      /\ \A j \in DOMAIN toPage' : toPage'[j] = toPage[j + 1]
  BY <1>1
<1>4. CASE i \in {0, 1}
  <2>1. phase' = "ready"
    <3>1. CASE i = 0
      <4>1. phase = "ready" /\ Head(toPage) # "available" BY <1>2, <1>3, <3>1 DEF ToldAt
      <4>2. Head(toPage) \in {"progress", "downloaded"} BY <1>1, <1>3, <4>1 DEF Event
      <4> QED BY <1>1, <4>1, <4>2 DEF PhaseAfter
    <3>2. CASE i = 1
      <4>1. Head(toPage) = "downloaded" BY <1>2, <1>3, <3>2 DEF ToldAt
      <4> QED BY <1>1, <4>1 DEF PhaseAfter
    <3> QED BY <1>4, <3>1, <3>2
  <2>2. ASSUME NEW j \in DOMAIN toPage' PROVE toPage'[j] # "available"
    <3>1. j + 1 \in DOMAIN toPage /\ j + 1 > i BY <1>3, <1>4
    <3> QED BY <1>2, <1>3, <3>1 DEF ToldAt
  <2>3. ToldAt(0)' BY <2>1, <2>2 DEF ToldAt
  <2> QED BY <2>3
<1>5. CASE i \notin {0, 1}
  <2>1. i \in Nat /\ i - 1 \in DOMAIN toPage' /\ i - 1 # 0 BY <1>3, <1>5
  <2>2. toPage'[i - 1] = "downloaded" BY <1>2, <1>3, <1>5, <2>1 DEF ToldAt
  <2>3. ASSUME NEW j \in DOMAIN toPage', j > i - 1 PROVE toPage'[j] # "available"
    <3>1. j + 1 \in DOMAIN toPage /\ j + 1 > i BY <1>3, <2>1, <2>3
    <3> QED BY <1>2, <1>3, <3>1 DEF ToldAt
  <2>4. ToldAt(i - 1)' BY <2>1, <2>2, <2>3 DEF ToldAt
  <2> QED BY <2>1, <2>4
<1> QED BY <1>4, <1>5

LEMMA UpdaterNextInv == UpdaterInv /\ [UpdaterNext]_updaterVars => UpdaterInv'
<1> SUFFICES ASSUME UpdaterInv, [UpdaterNext]_updaterVars PROVE UpdaterInv' OBVIOUS
<1> USE DEF UpdaterInv, page
<1>t. UpdaterTypeOK OBVIOUS
<1>1. CASE UNCHANGED <<updater, toPage, phase, dismissed, effect, missed>>
  BY <1>1 DEF UpdaterTypeOK, NewsOnItsWay, ToldAt, ReadyIsShown
<1>2. CASE CheckForUpdates
  <2>1. updater' # "downloaded" /\ UNCHANGED <<page, missed>> BY <1>2 DEF CheckForUpdates
  <2>2. toPage' \in Seq(Event)
    <3>1. <<"available">> \in Seq(Event) BY DEF Event
    <3>2. \A n \in {1, 2} : [i \in 1 .. n |-> "error"] \in Seq(Event) BY DEF Event
    <3> QED BY <1>2, <3>1, <3>2, SendTypes DEF CheckForUpdates, UpdaterTypeOK
  <2> QED BY <2>1, <2>2 DEF UpdaterTypeOK, NewsOnItsWay, ReadyIsShown
<1>3. CASE DownloadProgress
  <2>1. Send(<<"progress">>) /\ UNCHANGED <<page, updater, missed>> BY <1>3 DEF DownloadProgress
  <2>2. "progress" \in Event \ {"available"} /\ <<"progress">> \in Seq(Event) BY DEF Event
  <2>3. NewsOnItsWay' BY <2>1, <2>2, SentAfterNews
  <2>4. toPage' \in Seq(Event) BY <2>1, <2>2, SendTypes
  <2> QED BY <2>1, <2>3, <2>4 DEF UpdaterTypeOK, ReadyIsShown
<1>4. CASE DownloadEnds
  <2>1. /\ UNCHANGED <<page, missed>>
        /\ \/ updater' = "downloaded" /\ Send(<<"downloaded">>)
           \/ updater' = "checked" /\ Send(<<"error">>)
    BY <1>4 DEF DownloadEnds
  <2>2. <<"downloaded">> \in Seq(Event) /\ <<"error">> \in Seq(Event) BY DEF Event
  <2>3. NewsOnItsWay' BY <2>1, NewsIsSent DEF NewsOnItsWay
  <2>4. toPage' \in Seq(Event) BY <2>1, <2>2, SendTypes
  <2> QED BY <2>1, <2>3, <2>4 DEF UpdaterTypeOK, ReadyIsShown
<1>5. CASE QuitAndInstall
  <2>1. /\ UNCHANGED <<page, missed>>
        /\ \/ updater' = "quitting" /\ UNCHANGED toPage
           \/ Send(<<"error">>) /\ UNCHANGED updater
    BY <1>5 DEF QuitAndInstall
  <2>2. "error" \in Event \ {"available"} /\ <<"error">> \in Seq(Event) BY DEF Event
  <2>3. NewsOnItsWay' BY <2>1, <2>2, SentAfterNews DEF NewsOnItsWay
  <2>4. toPage' \in Seq(Event) BY <2>1, <2>2, SendTypes DEF UpdaterTypeOK
  <2> QED BY <2>1, <2>3, <2>4 DEF UpdaterTypeOK, ReadyIsShown
<1>6. CASE CloseWindow
  BY <1>6 DEF CloseWindow, UpdaterTypeOK, NewsOnItsWay, ReadyIsShown
<1>7. CASE ReloadPage
  <2>1. UNCHANGED toPage /\ dismissed' = FALSE /\ effect' = FALSE /\ missed' = TRUE
    BY <1>7 DEF ReloadPage
  <2> QED BY <2>1 DEF UpdaterTypeOK, NewsOnItsWay, ReadyIsShown
<1>8. CASE Receive
  <2>1. NewsOnItsWay' BY <1>8, ReceiveKeepsNews
  <2>2. toPage' \in Seq(Event)
    <3>1. toPage # <<>> /\ toPage' = Tail(toPage) BY <1>8 DEF Receive
    <3> QED BY <3>1 DEF UpdaterTypeOK
  <2>3. dismissed' = dismissed BY <1>8 DEF Receive
  <2>4. effect' \in BOOLEAN /\ missed' \in BOOLEAN
    BY <1>8, Zenon DEF Receive, UpdaterTypeOK
  <2>5. ReadyIsShown'
    <3>1. phase' = phase \/ effect' BY <1>8 DEF Receive
    <3>2. effect => effect' BY <1>8 DEF Receive
    <3> QED BY <2>3, <3>1, <3>2 DEF ReadyIsShown
  <2> QED BY <2>1, <2>2, <2>3, <2>4, <2>5 DEF UpdaterTypeOK
<1>9. CASE PhaseEffect
  <2>1. /\ UNCHANGED <<updater, toPage, phase, missed>>
        /\ dismissed' = (dismissed /\ phase # "ready") /\ effect' = FALSE
    BY <1>9 DEF PhaseEffect, Dismissal
  <2> QED BY <2>1 DEF UpdaterTypeOK, NewsOnItsWay, ToldAt, ReadyIsShown
<1>10. CASE Dismiss
  BY <1>10 DEF Dismiss, UpdaterTypeOK, NewsOnItsWay, ToldAt, ReadyIsShown
<1>11. CASE MountPage \/ Install \/ UNCHANGED updaterVars
  BY <1>1, <1>11 DEF MountPage, Install, updaterVars
<1>12. CASE Relaunch
  <2>1. /\ toPage' = <<>> /\ dismissed' = FALSE /\ effect' = FALSE /\ missed' = FALSE
        /\ updater' = "waiting"
    BY <1>12 DEF Relaunch
  <2>2. toPage' \in Seq(Event) BY <2>1
  <2> QED BY <2>1, <2>2 DEF UpdaterTypeOK, NewsOnItsWay, ReadyIsShown
<1> QED
  BY <1>2, <1>3, <1>4, <1>5, <1>6, <1>7, <1>8, <1>9, <1>10, <1>11, <1>12
  DEF UpdaterNext, InApplication

\* A downloaded update that the page has heard of is offered, for any number of
\* messages, reloads and launches (UpdateBanner.tsx).
THEOREM UpdatesAreOffered == UpdaterSpec => []DownloadedIsOffered
<1>1. UpdaterInv => DownloadedIsOffered
  <2> SUFFICES ASSUME UpdaterInv, updater = "downloaded", toPage = <<>>, ~effect, ~missed
               PROVE  phase = "ready" /\ ~dismissed
    BY DEF DownloadedIsOffered
  <2>1. PICK i \in {0} \cup DOMAIN toPage : ToldAt(i) BY DEF UpdaterInv, NewsOnItsWay
  <2>2. i = 0 OBVIOUS
  <2>3. phase = "ready" BY <2>1, <2>2 DEF ToldAt
  <2> QED BY <2>3 DEF UpdaterInv, ReadyIsShown
<1> QED BY <1>1, UpdaterInitInv, UpdaterNextInv, PTL DEF UpdaterSpec
===============================================================================
