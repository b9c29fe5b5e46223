----------------------------- MODULE BulkDeletion -----------------------------
(***************************************************************************)
(* Deleting what a list shows: the call reports of both offices            *)
(* (routes/call-reports.ts, pages/CallReports.tsx) and the audit log       *)
(* (routes/messages.ts, pages/Messages.tsx), under the server-side checks  *)
(* of services/bulkDelete.service.ts.  The list is a copy that ages while  *)
(* a dialog is open: by ids all of them must still be there, without ids   *)
(* there must be as many rows as the list said.                            *)
(***************************************************************************)
EXTENDS Integers, FiniteSets

CONSTANTS
  Report,   \* ids of call reports
  Office,   \* clients with the page open
  MaxLog    \* bound: rows of the audit log

ASSUME BulkBound == MaxLog \in Nat

VARIABLES
  reports,   \* the call_reports table
  used,      \* ids given out
  listed,    \* per office: the reports listed and their total
  selected,  \* per office: the ticked reports
  news,      \* per office: events under way to it
  deletion,  \* per office: the bulk deletion under way
  auditLog,  \* the audit_logs table, ids of rows
  wipe,      \* the wipe under way
  trace      \* for the property: the row that documents the last wipe, NoAudit
             \* after the wipe, NoWipe before any, Removed when it is deleted

reportVars == <<reports, used, listed, selected, news, deletion>>
bulkVars == <<reportVars, auditLog, wipe, trace>>

NoAudit == 0
NoWipe == -1
Removed == -2
Waiting == [step |-> "none"]
BulkInit ==
  /\ reports = {} /\ used = {}
  /\ listed = [o \in Office |-> [ids |-> {}, total |-> 0]]
  /\ selected = [o \in Office |-> {}]
  /\ news = [o \in Office |-> {}]
  /\ deletion = [o \in Office |-> Waiting]
  /\ auditLog = {} /\ trace = NoWipe /\ wipe = Waiting

Tell(what) == news' = [o \in Office |-> news[o] \cup {what}]

-----------------------------------------------------------------------------
(* Call reports. *)

\* POST /.
AddReport(c) ==
  /\ c \notin used
  /\ used' = used \cup {c}
  /\ reports' = reports \cup {c}
  /\ Tell("new")
  /\ UNCHANGED <<listed, selected, deletion, auditLog, trace, wipe>>

\* GET /: the list, and how many there are (the bound keeps the table on one page).
Listing == [ids |-> reports, total |-> Cardinality(reports)]

\* Fault: the selection survives the news of a deletion.
SelectionKept(o, what) == selected[o]

\* onNew, onDeleted.
SelectionAfter(o, what) == IF what = "deleted" THEN {} ELSE selected[o]

\* An event arrives and the list is fetched again.
Hear(o, what) ==
  /\ what \in news[o]
  /\ news' = [news EXCEPT ![o] = @ \ {what}]
  /\ selected' = [selected EXCEPT ![o] = SelectionAfter(o, what)]
  /\ listed' = [listed EXCEPT ![o] = Listing]
  /\ UNCHANGED <<reports, used, deletion, auditLog, trace, wipe>>

\* toggleOne, toggleAll.
TickReport(o) ==
  /\ deletion[o] = Waiting
  /\ \E ids \in SUBSET listed[o].ids : selected' = [selected EXCEPT ![o] = ids]
  /\ UNCHANGED <<reports, used, listed, news, deletion, auditLog, trace, wipe>>

\* DELETE /:id, of other clients.
DeleteReport(c) ==
  /\ c \in reports
  /\ reports' = reports \ {c}
  /\ Tell("deleted")
  /\ UNCHANGED <<used, listed, selected, deletion, auditLog, trace, wipe>>

\* The dialog is confirmed, for the ticked reports or for all of them.
Confirm(o) ==
  /\ deletion[o] = Waiting
  /\ \E all \in BOOLEAN :
       LET ids == IF all THEN {} ELSE selected[o]
       IN /\ all \/ ids # {}
          /\ deletion' = [deletion EXCEPT ![o] =
               [step |-> "sent", ids |-> ids, all |-> all, toDelete |-> {},
                expectedCount |-> IF all THEN listed[o].total ELSE Cardinality(ids)]]
  /\ UNCHANGED <<reports, used, listed, selected, news, auditLog, trace, wipe>>

\* Fault: what is left of the selection is deleted.
WhatIsLeft(d) == TRUE

\* deleteMany must hit every submitted id; count must be the expected one.
CountIsExpected(d) ==
  IF d.all THEN Cardinality(reports) = d.expectedCount ELSE d.ids \subseteq reports

\* DELETE /bulk, DELETE /all: the transaction begins, or 409 and a new list.
BeginDeletion(o) ==
  LET d == deletion[o]
      target == IF d.all THEN reports ELSE d.ids \cap reports
  IN /\ d.step = "sent"
     /\ \/ /\ CountIsExpected(d) /\ target # {}
           /\ deletion' = [deletion EXCEPT ![o].step = "snapshot", ![o].toDelete = target]
           /\ UNCHANGED listed
        \/ /\ ~(CountIsExpected(d) /\ target # {})
           /\ deletion' = [deletion EXCEPT ![o] = Waiting]
           /\ listed' = [listed EXCEPT ![o] = Listing]
     /\ UNCHANGED <<reports, used, selected, news, auditLog, trace, wipe>>

\* It commits, unless another one has deleted a row of its snapshot (P2034).
CommitDeletion(o) ==
  LET d == deletion[o]
  IN /\ d.step = "snapshot"
     /\ \/ /\ d.toDelete \subseteq reports
           /\ reports' = reports \ d.toDelete
           /\ deletion' = [deletion EXCEPT ![o].step = "log"]
           /\ UNCHANGED listed
        \/ /\ deletion' = [deletion EXCEPT ![o] = Waiting]
           /\ listed' = [listed EXCEPT ![o] = Listing]
           /\ UNCHANGED reports
     /\ UNCHANGED <<used, selected, news, auditLog, trace, wipe>>

FreeRow == CHOOSE n \in 1 .. MaxLog : n \notin auditLog

\* writeAudit, emit, and the answer: the selection is dropped.
LogDeletion(o) ==
  /\ deletion[o].step = "log"
  /\ Cardinality(auditLog) < MaxLog
  /\ auditLog' = auditLog \cup {FreeRow}
  /\ Tell("deleted")
  /\ deletion' = [deletion EXCEPT ![o] = Waiting]
  /\ selected' = [selected EXCEPT ![o] = {}]
  /\ UNCHANGED <<reports, used, listed, trace, wipe>>

-----------------------------------------------------------------------------
(* The audit log. *)

\* Every endpoint writes rows.
Audited ==
  /\ Cardinality(auditLog) < MaxLog
  /\ auditLog' = auditLog \cup {FreeRow}
  /\ UNCHANGED <<reportVars, trace, wipe>>

\* DELETE /:id.
DeleteOne ==
  /\ \E row \in auditLog :
       /\ auditLog' = auditLog \ {row}
       /\ trace' = IF row = trace THEN Removed ELSE trace
  /\ UNCHANGED <<reportVars, wipe>>

\* DELETE /: the transaction of a request whose count is right begins.
BeginWipe ==
  /\ wipe = Waiting
  /\ auditLog # {}
  /\ wipe' = [step |-> "snapshot", toDelete |-> auditLog]
  /\ UNCHANGED <<reportVars, auditLog, trace>>

\* Fault: the row that documents the wipe is forgotten.
CommitSilently ==
  /\ wipe # Waiting /\ wipe.step = "snapshot"
  /\ auditLog' = auditLog \ wipe.toDelete
  /\ wipe' = Waiting
  /\ trace' = NoAudit
  /\ UNCHANGED reportVars

CommitWipe ==
  /\ wipe # Waiting /\ wipe.step = "snapshot"
  /\ \/ /\ wipe.toDelete \subseteq auditLog
        /\ auditLog' = auditLog \ wipe.toDelete
        /\ wipe' = [wipe EXCEPT !.step = "log"]
        /\ trace' = NoAudit
     \/ wipe' = Waiting /\ UNCHANGED <<auditLog, trace>>
  /\ UNCHANGED reportVars

\* The row that documents it is written to the emptied table.
LogWipe ==
  /\ wipe # Waiting /\ wipe.step = "log"
  /\ Cardinality(auditLog) < MaxLog
  /\ auditLog' = auditLog \cup {FreeRow}
  /\ trace' = FreeRow
  /\ wipe' = Waiting
  /\ UNCHANGED reportVars

BulkNext ==
  \/ \E c \in Report : AddReport(c) \/ DeleteReport(c)
  \/ \E o \in Office :
       \/ \E what \in {"new", "deleted"} : Hear(o, what)
       \/ TickReport(o) \/ Confirm(o)
       \/ BeginDeletion(o) \/ CommitDeletion(o) \/ LogDeletion(o)
  \/ Audited \/ DeleteOne \/ BeginWipe \/ CommitWipe \/ LogWipe

BulkSpec == BulkInit /\ [][BulkNext]_bulkVars

-----------------------------------------------------------------------------
\* A bulk deletion removes the reports that were ticked, or as many as the list
\* said, or none: whatever other offices add and delete between the list, the
\* dialog, the check and the commit (bulkDelete.service.ts).
DeletedAsReviewed ==
  [][\A o \in Office :
       deletion[o].step = "snapshot" /\ reports' # reports /\ deletion'[o] # deletion[o]
       => LET gone == reports \ reports'
          IN IF deletion[o].all THEN Cardinality(gone) = deletion[o].expectedCount
             ELSE gone = deletion[o].ids]_bulkVars

\* A ticked report is one the page lists, or news of a deletion is on its way:
\* nobody keeps a selection it can no longer see (CallReports.tsx:40).
SelectionIsListed ==
  \A o \in Office :
    \/ selected[o] \subseteq listed[o].ids
    \/ "deleted" \in news[o]
    \/ \E other \in Office : deletion[other].step = "log"

\* The wipe of the audit log stays documented in it until an administrator
\* removes that very row or wipes the log again (messages.ts:66-70).
WipeIsTraced ==
  trace \in {NoWipe, Removed} \cup auditLog \/ (wipe # Waiting /\ wipe.step = "log")
=============================================================================
