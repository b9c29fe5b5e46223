-------------------------------- MODULE Sessions --------------------------------
(***************************************************************************)
(* The session of a department in one client, and its socket: the store of *)
(* tokens (store/appStore.ts), the interceptor that ends a session on a    *)
(* 401 (api/client.ts), the login page (pages/CodeEntry.tsx), the shared   *)
(* socket (hooks/socketConnection.ts) and the handshake of the backend     *)
(* (socket.ts, middleware/auth.ts).                                        *)
(*                                                                         *)
(* Tokens are numbered by login.  A token expires after eight hours.       *)
(***************************************************************************)
EXTENDS Naturals, FiniteSets

CONSTANTS
  MaxLogins,          \* bound: logins in a behaviour
  MaxFailures,        \* bound: times the connection fails or drops
  ActiveWhenGivenUp   \* is a socket "active" when its attempts are exhausted?

ASSUME SessionAssumption == MaxLogins \in Nat /\ MaxFailures \in Nat /\ ActiveWhenGivenUp \in BOOLEAN

VARIABLES
  auth,      \* the token in the store, or NoToken
  recent,    \* is the last login less than 15 seconds ago?
  logins,    \* tokens issued
  expired,   \* tokens that have expired
  signingIn, \* the login request under way
  calls,     \* calls under way: their token and whether it was refused
  socket,    \* the shared socket
  bound,     \* the token the backend knows the socket by
  offered,   \* socket.auth
  usedToken, \* the token getOrCreateSocket was last called with
  due,       \* does a component still have to run its effect?
  failures,  \* failures so far
  overtaken  \* for the property: did the token change while the backend had the old one?

sessionVars ==
  <<auth, recent, logins, expired, signingIn, calls, socket, bound, offered, usedToken, due,
    failures, overtaken>>
sessionOnly == <<auth, recent, logins, signingIn, calls>>
socketOnly == <<socket, bound, offered, usedToken, overtaken>>

NoToken == 0
Token == 1 .. MaxLogins
\* "closed": refused by the backend; "givenUp": ten attempts have failed.
SocketState == {"none", "opening", "greeting", "open", "closed", "givenUp"}

SessionInit ==
  /\ auth = NoToken /\ recent = FALSE /\ logins = 0 /\ expired = {}
  /\ signingIn = FALSE /\ calls = {}
  /\ socket = "none" /\ bound = NoToken /\ offered = NoToken /\ usedToken = NoToken
  /\ due = FALSE /\ failures = 0 /\ overtaken = FALSE

-----------------------------------------------------------------------------
(* The session. *)

\* handleSubmit of the login page, which shows while there is no session.
SignIn ==
  /\ auth = NoToken /\ ~signingIn /\ logins < MaxLogins
  /\ signingIn' = TRUE
  /\ UNCHANGED <<auth, recent, logins, expired, calls, due, failures, socketOnly>>

\* POST /code-login answers with a token; the page of the department is mounted.
SignedIn ==
  /\ signingIn
  /\ signingIn' = FALSE
  /\ logins' = logins + 1 /\ auth' = logins + 1 /\ recent' = TRUE /\ due' = TRUE
  /\ UNCHANGED <<expired, calls, failures, socketOnly>>

SignInFails ==
  /\ signingIn
  /\ signingIn' = FALSE
  /\ UNCHANGED <<auth, recent, logins, expired, calls, due, failures, socketOnly>>

\* logout: the store forgets the token; the socket is left alone.
LogOut ==
  /\ auth # NoToken
  /\ auth' = NoToken /\ due' = FALSE
  /\ UNCHANGED <<recent, logins, expired, signingIn, calls, failures, socketOnly>>

\* A page calls the API.
CallApi ==
  /\ auth # NoToken
  /\ calls' = calls \cup {[token |-> auth, refused |-> FALSE]}
  /\ UNCHANGED <<auth, recent, logins, expired, signingIn, due, failures, socketOnly>>

\* authenticate.
Serve(r) ==
  /\ r \in calls /\ ~r.refused
  /\ calls' = (calls \ {r}) \cup
                 (IF r.token \in expired THEN {[r EXCEPT !.refused = TRUE]} ELSE {})
  /\ UNCHANGED <<auth, recent, logins, expired, signingIn, due, failures, socketOnly>>

\* The interceptor lets a new session be.
EndsSession == ~recent

Refused(r) ==
  /\ r \in calls /\ r.refused
  /\ calls' = calls \ {r}
  /\ IF EndsSession THEN auth' = NoToken /\ due' = FALSE ELSE UNCHANGED <<auth, due>>
  /\ UNCHANGED <<recent, logins, expired, signingIn, failures, socketOnly>>

\* Fifteen seconds after the login.  Requests of the session before it are older
\* and, unless the backend was slow, answered.
Settle ==
  /\ recent
  /\ recent' = FALSE
  /\ UNCHANGED <<auth, logins, expired, signingIn, calls, due, failures, socketOnly>>

Expire(t) ==
  /\ t \in (1 .. logins) \ expired
  /\ ~(t = auth /\ recent)
  /\ expired' = expired \cup {t}
  /\ UNCHANGED <<sessionOnly, due, failures, socketOnly>>

-----------------------------------------------------------------------------
(* The socket. *)

Active == socket \in {"opening", "greeting", "open"} \/ (socket = "givenUp" /\ ActiveWhenGivenUp)

\* Fault: a socket that was refused or gave up is kept as it is.
Revived == socket

\* The last branches of getOrCreateSocket.
Reconnected == IF socket # "open" /\ ~Active THEN "opening" ELSE socket

\* Fault: the token is given to the socket only when it is created.
FirstToken == IF socket = "none" THEN auth ELSE offered

Reoffered == IF usedToken # auth THEN auth ELSE offered

\* getOrCreateSocket, by the effect of a component that is mounted or sees
\* another token.
UseSocket ==
  /\ auth # NoToken
  /\ due' = FALSE
  /\ usedToken' = auth
  /\ offered' = Reoffered
  /\ socket' = CASE socket = "none" -> "opening"
                 [] usedToken # auth /\ socket = "open" -> "opening"
                 [] OTHER -> Reconnected
  /\ bound' = IF usedToken # auth /\ socket = "open" THEN NoToken ELSE bound
  /\ overtaken' = IF usedToken # auth THEN socket = "greeting" ELSE overtaken
  /\ UNCHANGED <<sessionOnly, expired, failures>>

\* The transport is open: the token of the moment is sent.
Greet ==
  /\ socket = "opening"
  /\ socket' = "greeting"
  /\ bound' = offered
  /\ overtaken' = FALSE
  /\ UNCHANGED <<sessionOnly, expired, due, failures, offered, usedToken>>

\* The backend verifies the token; a refusal ends the attempts.
Welcome ==
  /\ socket = "greeting"
  /\ IF bound \in expired THEN socket' = "closed" /\ bound' = NoToken
                          ELSE socket' = "open" /\ UNCHANGED bound
  /\ UNCHANGED <<sessionOnly, expired, due, failures, offered, usedToken, overtaken>>

\* The network fails or the backend restarts: the client tries again.
Drop ==
  /\ socket \in {"greeting", "open"}
  /\ failures < MaxFailures
  /\ failures' = failures + 1
  /\ socket' = "opening" /\ bound' = NoToken
  /\ UNCHANGED <<sessionOnly, expired, due, offered, usedToken, overtaken>>

\* Ten attempts have failed.
GiveUp ==
  /\ socket = "opening"
  /\ failures < MaxFailures
  /\ failures' = failures + 1
  /\ socket' = "givenUp"
  /\ UNCHANGED <<sessionOnly, expired, due, bound, offered, usedToken, overtaken>>

SessionNext ==
  \/ SignIn \/ SignedIn \/ SignInFails \/ LogOut \/ CallApi \/ Settle
  \/ \E r \in calls : Serve(r) \/ Refused(r)
  \/ \E t \in Token : Expire(t)
  \/ UseSocket \/ Greet \/ Welcome \/ Drop \/ GiveUp

SessionSpec == SessionInit /\ [][SessionNext]_sessionVars

\* Effects run, the handshake goes on, and the user moves between pages, whose
\* components call useSocket.
SessionFairness ==
  WF_sessionVars(UseSocket) /\ WF_sessionVars(Greet) /\ WF_sessionVars(Welcome)
FairSessions == SessionSpec /\ SessionFairness

-----------------------------------------------------------------------------
\* The backend knows the socket by the token of the session, once the effects
\* of the page have run, however logins, expiries, drops and handshakes
\* interleave; only a login during a handshake is left with the token before
\* (getOrCreateSocket).
SocketSpeaksForSession ==
  socket = "open" /\ auth # NoToken /\ ~due /\ ~overtaken => bound = auth

\* A session that lasts gets its socket, though the connection may fail and the
\* client may give up meanwhile, as long as the user moves about.
SessionGetsSocket ==
  \A t \in Token :
    (auth = t /\ t \notin expired) ~> (socket = "open" \/ auth # t \/ t \in expired)
=============================================================================
