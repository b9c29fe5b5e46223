--------------------------- MODULE ConnectionBanner ---------------------------
(***************************************************************************)
(* The banner that tells whether the server is reached                     *)
(* (components/ConnectionBanner.tsx): it follows connect and disconnect of *)
(* a socket that another component creates, and says for 2.5 s that the    *)
(* connection is restored.  Its handler of reconnect_attempt is never      *)
(* called: that event is one of the client's manager, not of its socket.   *)
(***************************************************************************)
EXTENDS Naturals

VARIABLES
  link,      \* "none" before the socket is created, "up", "down"
  mounted,   \* the layout with the banner is mounted
  heard,     \* the banner listens to the socket
  status,    \* the banner's status
  restore,   \* restoreTimer is running
  flapped    \* for the property: the link went down while it was running

bannerVars == <<link, mounted, heard, status, restore, flapped>>

BannerInit ==
  /\ link = "none" /\ mounted = FALSE /\ heard = FALSE
  /\ status = "connected" /\ restore = FALSE /\ flapped = FALSE

MountBanner ==
  /\ ~mounted /\ mounted' = TRUE
  /\ UNCHANGED <<link, heard, status, restore, flapped>>

CreateSocket ==
  /\ link = "none" /\ mounted /\ link' = "down"
  /\ UNCHANGED <<mounted, heard, status, restore, flapped>>

\* Fault: a banner that begins to listen trusts the connection.
StatusTrusted == "connected"
StatusFound == IF link = "up" THEN "connected" ELSE "disconnected"

\* tryAttach, now or from the poll.
AttachBanner ==
  /\ mounted /\ ~heard /\ link # "none"
  /\ heard' = TRUE
  /\ status' = StatusFound
  /\ UNCHANGED <<link, mounted, restore, flapped>>

\* onConnect.
Connected ==
  /\ link = "down" /\ link' = "up"
  /\ IF heard THEN status' = "restored" /\ restore' = TRUE /\ flapped' = FALSE
     ELSE UNCHANGED <<status, restore, flapped>>
  /\ UNCHANGED <<mounted, heard>>

\* onDisconnect.
Disconnected ==
  /\ link = "up" /\ link' = "down"
  /\ IF heard THEN status' = "disconnected" /\ flapped' = restore
     ELSE UNCHANGED <<status, flapped>>
  /\ UNCHANGED <<mounted, heard, restore>>

RestoreOver ==
  /\ restore /\ restore' = FALSE
  /\ status' = "connected"
  /\ UNCHANGED <<link, mounted, heard, flapped>>

UnmountBanner ==
  /\ mounted /\ mounted' = FALSE
  /\ heard' = FALSE /\ status' = "connected" /\ restore' = FALSE /\ flapped' = FALSE
  /\ UNCHANGED link

BannerNext ==
  \/ MountBanner \/ CreateSocket \/ AttachBanner \/ Connected
  \/ Disconnected \/ RestoreOver \/ UnmountBanner

BannerSpec == BannerInit /\ [][BannerNext]_bannerVars

-----------------------------------------------------------------------------
\* A listening banner is silent only over a live connection, alarms only over a
\* dead one, and ends its good news by itself.  The exception is the code's: the
\* timer of the good news is not stopped by the next disconnect, and then takes
\* the alarm back.
BannerMatchesLink ==
  heard =>
    /\ status = "connected" => link = "up" \/ flapped
    /\ status = "disconnected" => link = "down"
    /\ status = "restored" => link = "up" /\ restore
===============================================================================
