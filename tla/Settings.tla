-------------------------------- MODULE Settings --------------------------------
(***************************************************************************)
(* The settings of one user on several devices: the page                   *)
(* (components/SettingsPage.tsx), the store it edits                       *)
(* (store/settingsStore.ts) and the row of user_settings with the routes   *)
(* that read and update it (routes/settings.ts).                           *)
(*                                                                         *)
(* A choice is shown at once and sent 600 ms later, by one timer for all   *)
(* options.  The page of a department is given the socket its first render *)
(* saw, none, and is not rendered again: it listens only if the store of   *)
(* the application happens to change.                                      *)
(***************************************************************************)
EXTENDS Naturals, Sequences, FiniteSets

CONSTANTS
  Device,     \* devices of the user
  Option,     \* options of the page
  Value,      \* values of an option
  Default,    \* the value of an option nobody has chosen
  MaxChoices  \* bound: choices in a behaviour

ASSUME SettingsAssumption == Default \in Value /\ "unset" \notin Value /\ MaxChoices \in Nat

VARIABLES
  row,       \* the user_settings row
  applied,   \* per device: the settings of its store
  opened,    \* per device: is the page open?
  hearing,   \* per device: does it have its listener?
  load,      \* per device: the GET under way
  timer,     \* per device: the patch to be sent
  puts,      \* per device: the PUTs under way
  updates,   \* per device: settings:updated events under way
  choices,   \* choices so far
  \* what the properties compare with:
  latest,    \* the last value chosen for each option
  lost,      \* options with a choice that was replaced in the timer, or not stored
  crossed,   \* have two PUTs been under way, or two devices waited with one option, together?
  behind     \* per device: "missed" an event, loaded "aged" settings or none, or "no"

settingsVars ==
  <<row, applied, opened, hearing, load, timer, puts, updates, choices, latest, lost,
    crossed, behind>>
history == <<latest, lost, crossed, behind>>

NoRequest == [step |-> "none"]
Only(option, value) == [o \in Option |-> IF o = option THEN value ELSE "unset"]
Carried(patch) == {o \in Option : patch[o] # "unset"}

SettingsInit ==
  /\ row = [o \in Option |-> Default]
  /\ applied = [d \in Device |-> row]
  /\ opened = [d \in Device |-> FALSE]
  /\ hearing = [d \in Device |-> FALSE]
  /\ load = [d \in Device |-> NoRequest]
  /\ timer = [d \in Device |-> NoRequest]
  /\ puts = [d \in Device |-> {}]
  /\ updates = [d \in Device |-> <<>>]
  /\ choices = 0
  /\ latest = row /\ lost = {} /\ crossed = FALSE
  /\ behind = [d \in Device |-> "aged"]

\* loadFromServer.
Replaced(d, settings) == applied' = [applied EXCEPT ![d] = settings]

-----------------------------------------------------------------------------
(* The page. *)

\* The page is mounted: it asks for the settings.
Open(d) ==
  /\ ~opened[d]
  /\ opened' = [opened EXCEPT ![d] = TRUE]
  /\ load' = [load EXCEPT ![d] = [step |-> "asked"]]
  /\ behind' = [behind EXCEPT ![d] = "aged"]
  /\ UNCHANGED <<row, applied, hearing, timer, puts, updates, choices, latest, lost, crossed>>

\* GET /.
Read(d) ==
  /\ load[d].step = "asked"
  /\ load' = [load EXCEPT ![d] = [step |-> "read", settings |-> row]]
  /\ UNCHANGED <<row, applied, opened, hearing, timer, puts, updates, choices, history>>

\* Has the device chosen what is not stored yet?
Saving(d) == timer[d] # NoRequest \/ \E p \in puts[d] : p.step = "sent"

\* The answer replaces the settings of the store, also after the page is left.
Loaded(d) ==
  /\ load[d].step = "read"
  /\ load' = [load EXCEPT ![d] = NoRequest]
  /\ Replaced(d, load[d].settings)
  /\ behind' = [behind EXCEPT ![d] = IF load[d].settings # row \/ Saving(d) THEN "aged" ELSE "no"]
  /\ UNCHANGED <<row, opened, hearing, timer, puts, updates, choices, latest, lost, crossed>>

LoadFails(d) ==
  /\ load[d].step = "asked"
  /\ load' = [load EXCEPT ![d] = NoRequest]
  /\ UNCHANGED <<row, applied, opened, hearing, timer, puts, updates, choices, history>>

\* The page is left; the timer runs on.
Leave(d) ==
  /\ opened[d]
  /\ opened' = [opened EXCEPT ![d] = FALSE]
  /\ hearing' = [hearing EXCEPT ![d] = FALSE]
  /\ behind' = [behind EXCEPT ![d] = "aged"]
  /\ UNCHANGED <<row, applied, load, timer, puts, updates, choices, latest, lost, crossed>>

\* The store of the application changes: the page is rendered with the socket.
RenderAgain(d) ==
  /\ opened[d] /\ ~hearing[d]
  /\ hearing' = [hearing EXCEPT ![d] = TRUE]
  /\ UNCHANGED <<row, applied, opened, load, timer, puts, updates, choices, history>>

\* Fault: the timer is not set again.
KeepsFirst(d, patch) == IF timer[d] = NoRequest THEN [step |-> "set", patch |-> patch] ELSE timer[d]

\* save: a patch that was waiting is forgotten.
Rearmed(d, patch) == [step |-> "set", patch |-> patch]

Waiting(d, option) == timer[d] # NoRequest /\ option \in Carried(timer[d].patch)

\* change: setSettings and save.
Choose(d, option, value) ==
  /\ opened[d]
  /\ applied[d][option] # value
  /\ choices < MaxChoices
  /\ choices' = choices + 1
  /\ applied' = [applied EXCEPT ![d][option] = value]
  /\ timer' = [timer EXCEPT ![d] = Rearmed(d, Only(option, value))]
  /\ latest' = [latest EXCEPT ![option] = value]
  /\ lost' = (lost \ {option})
             \cup (IF timer[d] = NoRequest THEN {} ELSE Carried(timer[d].patch) \ {option})
  /\ crossed' = (crossed \/ \E e \in Device \ {d} : Waiting(e, option))
  /\ UNCHANGED <<row, opened, hearing, load, puts, updates, behind>>

\* 600 ms have passed.
Save(d) ==
  /\ timer[d] # NoRequest
  /\ timer' = [timer EXCEPT ![d] = NoRequest]
  /\ puts' = [puts EXCEPT ![d] = @ \cup {[step |-> "sent", patch |-> timer[d].patch]}]
  /\ crossed' = (crossed \/ \E e \in Device : puts[e] # {})
  /\ UNCHANGED <<row, applied, opened, hearing, load, updates, choices, latest, lost, behind>>

\* settings:updated, heard or not.
HearUpdate(d) ==
  /\ updates[d] # <<>>
  /\ updates' = [updates EXCEPT ![d] = Tail(@)]
  /\ IF hearing[d] THEN Replaced(d, Head(updates[d])) ELSE UNCHANGED applied
  /\ behind' = [behind EXCEPT ![d] = IF hearing[d] THEN "no" ELSE IF @ = "no" THEN "missed" ELSE @]
  /\ UNCHANGED <<row, opened, hearing, load, timer, puts, choices, latest, lost, crossed>>

-----------------------------------------------------------------------------
(* PUT /. *)

\* Fault: what the patch leaves out is reset.
WithDefaults(patch) == [o \in Option |-> IF patch[o] = "unset" THEN Default ELSE patch[o]]

\* ON CONFLICT: COALESCE of the patch and the row.
Coalesced(patch) == [o \in Option |-> IF patch[o] = "unset" THEN row[o] ELSE patch[o]]

\* The upsert.
Put(d, p) ==
  /\ p \in puts[d] /\ p.step = "sent"
  /\ row' = Coalesced(p.patch)
  /\ puts' = [puts EXCEPT ![d] = (@ \ {p}) \cup {[p EXCEPT !.step = "stored"]}]
  /\ UNCHANGED <<applied, opened, hearing, load, timer, updates, choices, latest, lost, crossed, behind>>

\* Fault: only the patch is announced.
PatchAlone(p) == WithDefaults(p.patch)

\* The row is read again.
Announced(p) == row

ReadBack(d, p) ==
  /\ p \in puts[d] /\ p.step = "stored"
  /\ puts' = [puts EXCEPT ![d] = (@ \ {p}) \cup
                 {[step |-> "read", patch |-> p.patch, settings |-> Announced(p)]}]
  /\ UNCHANGED <<row, applied, opened, hearing, load, timer, updates, choices, history>>

\* emitToUser: every device of the user is told.
Emit(d, p) ==
  /\ p \in puts[d] /\ p.step = "read"
  /\ puts' = [puts EXCEPT ![d] = @ \ {p}]
  /\ updates' = [e \in Device |-> Append(updates[e], p.settings)]
  /\ UNCHANGED <<row, applied, opened, hearing, load, timer, choices, history>>

\* The request is lost: the page says so and keeps showing the choice.
PutFails(d, p) ==
  /\ p \in puts[d] /\ p.step = "sent"
  /\ puts' = [puts EXCEPT ![d] = @ \ {p}]
  /\ lost' = lost \cup Carried(p.patch)
  /\ UNCHANGED <<row, applied, opened, hearing, load, timer, updates, choices, latest, crossed, behind>>

SettingsNext ==
  \E d \in Device :
    \/ Open(d) \/ Read(d) \/ Loaded(d) \/ LoadFails(d) \/ Leave(d) \/ RenderAgain(d)
    \/ \E option \in Option, value \in Value : Choose(d, option, value)
    \/ Save(d) \/ HearUpdate(d)
    \/ \E p \in puts[d] : Put(d, p) \/ ReadBack(d, p) \/ Emit(d, p) \/ PutFails(d, p)

SettingsSpec == SettingsInit /\ [][SettingsNext]_settingsVars

-----------------------------------------------------------------------------
AtRest ==
  \A d \in Device : timer[d] = NoRequest /\ puts[d] = {} /\ updates[d] = <<>> /\ load[d] = NoRequest

\* A page that listens shows the stored settings once everything is delivered,
\* whichever device they came from, unless a save of its own was lost, events
\* were missed, or two saves crossed (onUpdated, emitToUser).
ListenersConverge ==
  AtRest /\ ~crossed =>
    \A d \in Device : opened[d] /\ hearing[d] /\ behind[d] = "no" =>
      \A o \in Option \ lost : applied[d][o] = row[o]

\* The last choice anyone made for an option is the one stored, whatever pages
\* are left meanwhile, unless it was lost or two saves crossed (save).
LastChoiceIsStored ==
  AtRest /\ ~crossed => \A o \in Option \ lost : row[o] = latest[o]

\* Once the traffic is over, what was chosen, what is stored and what is shown
\* are the same.
SettingsSettle == ListenersConverge /\ LastChoiceIsStored
=============================================================================
