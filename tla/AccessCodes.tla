------------------------------- MODULE AccessCodes -------------------------------
(***************************************************************************)
(* The access code of a department: the row and the environment it is      *)
(* resolved from (services/accessCode.service.ts), the route that changes  *)
(* it (routes/config.ts) and the page administrators change it on          *)
(* (admin/pages/AccessCodes.tsx).                                          *)
(*                                                                         *)
(* The page's three fields are the code in force, the new code and its     *)
(* confirmation; the latter two agree when the form is sent.               *)
(***************************************************************************)
EXTENDS Naturals, FiniteSets

CONSTANTS
  AdminPage,       \* pages of administrators
  Code,            \* four-digit codes
  NoCode,
  EnvCode,         \* the code of the environment, or NoCode
  MaxCodeChanges,  \* bound: changes that are sent
  MaxBlind         \* bound: lookups that fail

ASSUME CodeAssumption ==
  NoCode \notin Code /\ EnvCode \in Code \cup {NoCode} /\ MaxCodeChanges \in Nat /\ MaxBlind \in Nat

VARIABLES
  codeRow,   \* the row of system_configs, or NoCode
  codeForm,  \* per page: what is typed
  change,    \* per page: the PUT under way
  emptying,  \* per page: is the timer of an earlier success running?
  told,      \* per page: config:updated events under way
  changesSent, blind,  \* changes sent and lookups failed so far
  crossedBy  \* for the properties: pages with a change stored, by another, during theirs

codeVars == <<codeRow, codeForm, change, emptying, told, changesSent, blind, crossedBy>>

Blank == [current |-> NoCode, new |-> NoCode, success |-> FALSE]
NoChange == [step |-> "none"]

CodesInit ==
  /\ codeRow \in {NoCode, CHOOSE c \in Code : c # EnvCode}
  /\ codeForm = [p \in AdminPage |-> Blank]
  /\ change = [p \in AdminPage |-> NoChange]
  /\ emptying = [p \in AdminPage |-> FALSE] /\ told = [p \in AdminPage |-> 0]
  /\ changesSent = 0 /\ blind = 0 /\ crossedBy = {}

\* resolveAccessCode: the row, or else the environment.
Resolved(row) == IF row # NoCode THEN row ELSE EnvCode

InForce == IF codeRow # NoCode THEN codeRow ELSE EnvCode

\* What a lookup finds: the row, or nothing when the database does not answer.
Lookup(code) ==
  \/ code = Resolved(codeRow) /\ UNCHANGED blind
  \/ blind < MaxBlind /\ blind' = blind + 1 /\ code = Resolved(NoCode)

-----------------------------------------------------------------------------
(* The page. *)

\* setField of the fields; or the button that empties them.
TypeCode(p) ==
  /\ \/ \E current, new \in Code :
          codeForm' = [codeForm EXCEPT ![p] = [current |-> current, new |-> new, success |-> FALSE]]
     \/ codeForm' = [codeForm EXCEPT ![p] = Blank]
  /\ UNCHANGED <<codeRow, change, emptying, told, changesSent, blind, crossedBy>>

\* handleSubmit.
SendChange(p) ==
  /\ codeForm[p].current # NoCode /\ codeForm[p].new # NoCode
  /\ change[p] = NoChange /\ changesSent < MaxCodeChanges
  /\ changesSent' = changesSent + 1
  /\ change' = [change EXCEPT ![p] =
                  [step |-> "sent", current |-> codeForm[p].current, new |-> codeForm[p].new]]
  /\ crossedBy' = crossedBy \ {p}
  /\ UNCHANGED <<codeRow, codeForm, emptying, told, blind>>

\* onSuccess.
ChangeSaved(p) ==
  /\ change[p].step = "answered"
  /\ change' = [change EXCEPT ![p] = NoChange]
  /\ codeForm' = [codeForm EXCEPT ![p] = [Blank EXCEPT !.success = TRUE]]
  /\ emptying' = [emptying EXCEPT ![p] = TRUE]
  /\ UNCHANGED <<codeRow, told, changesSent, blind, crossedBy>>

\* onError; a wrong code is taken out of the form.
ChangeRefused(p) ==
  /\ change[p].step \in {"wrong", "unconfigured", "lost"}
  /\ change' = [change EXCEPT ![p] = NoChange]
  /\ LET kept == IF change[p].step = "wrong" THEN NoCode ELSE codeForm[p].current
     IN  codeForm' = [codeForm EXCEPT ![p].success = FALSE, ![p].current = kept]
  /\ UNCHANGED <<codeRow, emptying, told, changesSent, blind, crossedBy>>

\* 3.5 seconds after a success, whatever is typed by then.
EmptyForm(p) ==
  /\ emptying[p]
  /\ emptying' = [emptying EXCEPT ![p] = FALSE]
  /\ codeForm' = [codeForm EXCEPT ![p] = Blank]
  /\ UNCHANGED <<codeRow, change, told, changesSent, blind, crossedBy>>

\* onConfigUpdated.
HearChange(p) ==
  /\ told[p] > 0
  /\ told' = [told EXCEPT ![p] = @ - 1]
  /\ codeForm' = [codeForm EXCEPT ![p] = Blank]
  /\ UNCHANGED <<codeRow, change, emptying, changesSent, blind, crossedBy>>

-----------------------------------------------------------------------------
(* PUT /config/access-codes. *)

\* Fault: the code that is named is not compared.
AnyNamed(named, found) == TRUE

IsCurrent(named, found) == named = found

CheckChange(p) ==
  /\ change[p].step = "sent"
  /\ \E found \in Code \cup {NoCode} :
       /\ Lookup(found)
       /\ change' = [change EXCEPT ![p].step =
            CASE found = NoCode -> "unconfigured"
              [] found # NoCode /\ ~IsCurrent(change[p].current, found) -> "wrong"
              [] OTHER -> "checked"]
  /\ UNCHANGED <<codeRow, codeForm, emptying, told, changesSent, crossedBy>>

\* upsertCode, after which the audit, the event and the announcement follow.
StoreCode(p) ==
  /\ change[p].step = "checked"
  /\ codeRow' = change[p].new
  /\ change' = [change EXCEPT ![p].step = "stored"]
  /\ crossedBy' = crossedBy \cup {q \in AdminPage \ {p} : change[q] # NoChange}
  /\ UNCHANGED <<codeForm, emptying, told, changesSent, blind>>

AnnounceChange(p) ==
  /\ change[p].step = "stored"
  /\ change' = [change EXCEPT ![p].step = "answered"]
  /\ told' = [q \in AdminPage |-> told[q] + 1]
  /\ UNCHANGED <<codeRow, codeForm, emptying, changesSent, blind, crossedBy>>

\* The request fails on the way, or between two of its steps.
LoseChange(p) ==
  /\ change[p].step \in {"sent", "checked", "stored", "answered"}
  /\ change' = [change EXCEPT ![p].step = "lost"]
  /\ UNCHANGED <<codeRow, codeForm, emptying, told, changesSent, blind, crossedBy>>

CodesNext ==
  \/ \E p \in AdminPage :
       \/ TypeCode(p) \/ SendChange(p) \/ ChangeSaved(p) \/ ChangeRefused(p) \/ EmptyForm(p)
       \/ HearChange(p) \/ CheckChange(p) \/ StoreCode(p) \/ AnnounceChange(p) \/ LoseChange(p)

CodesSpec == CodesInit /\ [][CodesNext]_codeVars

-----------------------------------------------------------------------------
\* A stored change replaces the code its administrator named: only a change
\* stored between the check and the upsert, or a lookup the database did not
\* answer, can make two changes of the same code both succeed (PUT
\* /access-codes).
ChangeReplacesNamedCode ==
  [][\A p \in AdminPage : StoreCode(p) /\ p \notin crossedBy /\ blind = 0 => change[p].current = InForce]_codeVars

=============================================================================
