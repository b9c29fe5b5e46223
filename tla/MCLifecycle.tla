------------------------------ MODULE MCLifecycle ------------------------------
(***************************************************************************)
(* Lifecycles that share no state, side by side: a behaviour is one of the *)
(* reminder job, of a backend that is told to stop (SIGTERM and SIGINT,    *)
(* two clients, two requests), of a client's session and its socket, or of *)
(* one of the three banners of a window.                                   *)
(***************************************************************************)
EXTENDS MCReminders, Shutdown, Sessions, NotificationBar, ConnectionBanner, Updater

CONSTANTS sigterm, sigint, k1, k2, r1, r2

VARIABLE part

LifeInit ==
  /\ part \in {"reminders", "stop", "session", "bar", "link", "update"}
  /\ Init /\ (part # "reminders" => done = {} /\ date = [a \in Appt |-> 1])
  /\ StopInit /\ (part # "stop" => stuck = {})
  /\ SessionInit
  /\ BarInit /\ BannerInit /\ UpdaterInit

windowVars == <<barVars, bannerVars, updaterVars>>
LifeNext ==
  \/ part = "reminders" /\ Next /\ UNCHANGED <<part, stopVars, sessionVars, windowVars>>
  \/ part = "stop" /\ StopNext /\ UNCHANGED <<part, vars, sessionVars, windowVars>>
  \/ part = "session" /\ SessionNext /\ UNCHANGED <<part, vars, stopVars, windowVars>>
  \/ /\ UNCHANGED <<part, vars, stopVars, sessionVars>>
     /\ \/ part = "bar" /\ BarNext /\ UNCHANGED <<bannerVars, updaterVars>>
        \/ part = "link" /\ BannerNext /\ UNCHANGED <<barVars, updaterVars>>
        \/ part = "update" /\ UpdaterNext /\ UNCHANGED <<barVars, bannerVars>>

\* A part that does not move has nothing to be fair about: none of the actions
\* its fairness is about is enabled at the start.
LifeSpec ==
  LifeInit /\ [][LifeNext]_<<part, vars, stopVars, sessionVars, windowVars>>
    /\ Fairness /\ StopFairness /\ SessionFairness /\ BarFairness
===============================================================================
