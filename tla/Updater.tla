-------------------------------- MODULE Updater --------------------------------
(***************************************************************************)
(* The desktop shell's updates: the main process (electron/main/index.ts)  *)
(* around electron-updater, the page's banner (components/UpdateBanner.tsx)*)
(* and the messages between them, which a page that is loading misses.     *)
(***************************************************************************)
EXTENDS Integers, Sequences

CONSTANT MaxMessages   \* bound: download-progress events, and messages under way at a click on install

ASSUME MessageBound == MaxMessages \in Nat

VARIABLES
  updater,    \* "waiting" (5 s), "checked", "downloading", "downloaded", "quitting"
  progress,   \* progress events so far
  toPage,     \* messages under way to the page
  listening,  \* the page is loaded and its banner mounted
  phase,      \* the banner's phase
  dismissed,  \* the banner is dismissed
  effect,     \* the effect on a change of phase is to run
  installs,   \* install requests: "none", "asked", "done"
  missed      \* for the property: the page reloaded, was late or heard of an
              \* error since the launch

updaterVars == <<updater, progress, toPage, listening, phase, dismissed, effect, installs, missed>>

UpdaterInit ==
  /\ updater = "waiting" /\ progress = 0 /\ toPage = <<>>
  /\ listening = FALSE /\ phase = "idle" /\ dismissed = FALSE /\ effect = FALSE
  /\ installs = "none" /\ missed = FALSE

page == <<listening, phase, dismissed, effect>>
Send(messages) == toPage' = toPage \o messages

-----------------------------------------------------------------------------
(* The main process. *)

\* checkForUpdates, once: an error is sent by the handler and by the catch.
CheckForUpdates ==
  /\ updater = "waiting"
  /\ \/ updater' = "downloading" /\ Send(<<"available">>)
     \/ updater' = "checked" /\ UNCHANGED toPage
     \/ updater' = "checked" /\ \E n \in {1, 2} : Send([i \in 1 .. n |-> "error"])
  /\ UNCHANGED <<page, progress, installs, missed>>

DownloadProgress ==
  /\ updater = "downloading" /\ progress < MaxMessages
  /\ progress' = progress + 1
  /\ Send(<<"progress">>)
  /\ UNCHANGED <<page, updater, installs, missed>>

DownloadEnds ==
  /\ updater = "downloading"
  /\ \/ updater' = "downloaded" /\ Send(<<"downloaded">>)
     \/ updater' = "checked" /\ Send(<<"error">>)
  /\ UNCHANGED <<page, progress, installs, missed>>

\* quitAndInstall, which may fail.
QuitAndInstall ==
  /\ installs = "asked" /\ updater = "downloaded"
  /\ \/ installs' = "done" /\ updater' = "quitting" /\ UNCHANGED toPage
     \/ installs' = "none" /\ Send(<<"error">>) /\ UNCHANGED updater
  /\ UNCHANGED <<page, progress, missed>>

\* The window is closed, with it the application: autoInstallOnAppQuit is off.
CloseWindow ==
  /\ updater' = "quitting"
  /\ UNCHANGED <<page, progress, toPage, installs, missed>>

Relaunch ==
  /\ updater = "quitting" /\ updater' = "waiting"
  /\ progress' = 0 /\ toPage' = <<>>
  /\ listening' = FALSE /\ phase' = "idle" /\ dismissed' = FALSE /\ effect' = FALSE
  /\ installs' = "none" /\ missed' = FALSE

-----------------------------------------------------------------------------
(* The page. *)

MountPage ==
  /\ ~listening /\ listening' = TRUE
  /\ UNCHANGED <<updater, progress, toPage, phase, dismissed, effect, installs, missed>>

\* handleReload of the error boundary: the page starts again.
ReloadPage ==
  /\ listening /\ listening' = FALSE
  /\ phase' = "idle" /\ dismissed' = FALSE /\ effect' = FALSE
  /\ missed' = TRUE
  /\ UNCHANGED <<updater, progress, toPage, installs>>

PhaseAfter(message) ==
  CASE message = "available" -> "available"
    [] message = "progress" -> IF phase \in {"available", "downloading"} THEN "downloading" ELSE phase
    [] message = "downloaded" -> "ready"
    [] message = "error" -> "error"

Receive ==
  /\ toPage # <<>> /\ toPage' = Tail(toPage)
  /\ IF listening
     THEN /\ phase' = PhaseAfter(Head(toPage))
          /\ effect' = (effect \/ phase' # phase)
          /\ missed' = (missed \/ Head(toPage) = "error")
          /\ UNCHANGED dismissed
     ELSE /\ missed' = TRUE
          /\ UNCHANGED <<phase, dismissed, effect>>
  /\ UNCHANGED <<updater, progress, listening, installs>>

\* Fault: the effect is forgotten.
StaysDismissed == dismissed
Dismissal == dismissed /\ phase # "ready"

PhaseEffect ==
  /\ effect /\ effect' = FALSE
  /\ dismissed' = Dismissal
  /\ UNCHANGED <<updater, progress, toPage, listening, phase, installs, missed>>

\* Only these strips have a close button.
Dismiss ==
  /\ ~dismissed /\ phase \in {"available", "error"}
  /\ dismissed' = TRUE
  /\ UNCHANGED <<updater, progress, toPage, listening, phase, effect, installs, missed>>

\* "Restart & Update".
Install ==
  /\ phase = "ready" /\ ~dismissed /\ installs = "none" /\ Len(toPage) < MaxMessages
  /\ installs' = "asked"
  /\ UNCHANGED <<page, updater, progress, toPage, missed>>

InApplication ==
  \/ CheckForUpdates \/ DownloadProgress \/ DownloadEnds \/ QuitAndInstall \/ CloseWindow
  \/ MountPage \/ ReloadPage \/ Receive \/ PhaseEffect \/ Dismiss \/ Install
UpdaterNext == (updater # "quitting" /\ InApplication) \/ Relaunch

UpdaterSpec == UpdaterInit /\ [][UpdaterNext]_updaterVars

-----------------------------------------------------------------------------
\* Once an update is downloaded and the page has been told, the button that
\* installs it is there, whatever was dismissed before, unless the page was
\* reloaded, was late, or heard of an error (UpdateBanner.tsx:86-93).
DownloadedIsOffered ==
  updater = "downloaded" /\ toPage = <<>> /\ ~effect /\ ~missed
  => phase = "ready" /\ ~dismissed
===============================================================================
