------------------------------ MODULE Customers ------------------------------
(***************************************************************************)
(* The customers table: routes/customers.ts, the resolution of an urgent   *)
(* appointment's customer (services/customerResolve.service.ts), what      *)
(* Scheduling may see (services/schedulingCustomerVisibility.service.ts),  *)
(* and the edit form of both departments (pages/AddCustomer.tsx).          *)
(*                                                                         *)
(* Every database call of a handler is a step, and handlers interleave     *)
(* between their steps.  A request that a check turns away changes         *)
(* nothing.  Of a customer the model keeps what the checks are about: the  *)
(* two phone numbers, which of the three previous-service fields are set,  *)
(* the active flag, the version, and what decides whether Scheduling may   *)
(* see it.                                                                 *)
(***************************************************************************)
EXTENDS Integers, FiniteSets

CONSTANTS
  Customer,    \* ids of customers
  NoCustomer,  \* none
  Phone,       \* phone numbers
  NoPhone,     \* secondaryPhone = null, a blank field
  Omitted,     \* a field the request does not carry
  Req,         \* slots for requests in flight
  NewBodies,   \* what clients send to POST /
  Edits,       \* what clients send to PUT /:id
  MaxVersion   \* bound: rows of this version are edited no more, toggled once more

PreviousField == {"type", "date", "note"}

\* A create or update body.  A previous-service field is absent, blank, or
\* carries a value.
Body ==
  [phone : Phone \cup {Omitted}, secondaryPhone : Phone \cup {NoPhone, Omitted},
   previous : [PreviousField -> {"omitted", "blank", "value"}], versioned : BOOLEAN]

ASSUME PhoneAssumption == NoPhone \notin Phone /\ Omitted \notin Phone \cup {NoPhone}
ASSUME NoCustomerAssumption == NoCustomer \notin Customer
ASSUME BodiesAssumption ==
  /\ Edits \subseteq Body
  /\ NewBodies \subseteq {b \in Body : b.phone # Omitted}
ASSUME CustomersBound == MaxVersion \in Nat

\* private: whether the customer is hidden from Scheduling, which it is while an
\* administrator created it and all its appointments, at least one, are urgent
\* and not approved for Scheduling.
Row ==
  [life : {"free", "live", "deleted"}, phone : Phone \cup {NoPhone},
   secondaryPhone : Phone \cup {NoPhone}, previous : SUBSET PreviousField,
   isActive : BOOLEAN, version : Nat, private : {"never", "no", "yes"}]
Free ==
  [life |-> "free", phone |-> NoPhone, secondaryPhone |-> NoPhone, previous |-> {},
   isActive |-> TRUE, version |-> 0, private |-> "no"]

\* A request: version is what the form shows, then what the handler stored;
\* since is the row's version when the request was sent; seen is the row as
\* read; batch and expected belong to the deletion of all customers.
Request ==
  [step : {"form", "read", "write", "find", "count", "delete", "log"},
   op : {"create", "save", "toggle", "urgent", "remove", "removeAll"},
   user : {"ADMIN", "SCHEDULING"}, id : Customer \cup {NoCustomer},
   body : Body, version : Nat, since : Nat, seen : Row,
   batch : SUBSET (Customer \X Nat), expected : Nat]
NoBody ==
  [phone |-> Omitted, secondaryPhone |-> Omitted,
   previous |-> [f \in PreviousField |-> "omitted"], versioned |-> FALSE]
Idle ==
  [step |-> "idle", op |-> "none", user |-> "none", id |-> NoCustomer,
   body |-> NoBody, version |-> 0, since |-> 0, seen |-> Free,
   batch |-> {}, expected |-> 0]

VARIABLES
  row,      \* the customers table
  req,      \* requests in flight and open forms
  logged    \* audit rows: <<customer, version>>, version 0 for its deletion

customerVars == <<row, req, logged>>

Live == {c \in Customer : row[c].life = "live"}
Fresh == {c \in Customer : row[c].life = "free"}

CustomersInit ==
  /\ row = [c \in Customer |-> Free]
  /\ req = [r \in Req |-> Idle]
  /\ logged = {}

-----------------------------------------------------------------------------
(* Checks and merges. *)

\* The record of an earlier service is whole or absent; the note is optional.
Whole(fields) == fields = {} \/ {"type", "date"} \subseteq fields

\* resolvePreviousService: the stored fields overlaid with the submitted ones.
Effective(submitted, stored) ==
  {f \in PreviousField : \/ submitted[f] = "value"
                         \/ submitted[f] = "omitted" /\ f \in stored}
Touches(body) == \E f \in PreviousField : body.previous[f] # "omitted"

\* Fault: the number is compared with the one on file, not the one submitted.
PrimaryOnFile(body, before) == before.phone

EffectivePrimaryPhone(body, before) ==
  IF body.phone # Omitted THEN body.phone ELSE before.phone

\* normalizeSecondaryPhone and resolvePreviousService accept the request.
Acceptable(body, before) ==
  /\ body.secondaryPhone # Omitted => body.secondaryPhone # EffectivePrimaryPhone(body, before)
  /\ Touches(body) => Whole(Effective(body.previous, before.previous))

\* Fault: the submitted fields are overlaid on the row as it is by now.
MergedLate(current, body, before) ==
  [current EXCEPT
     !.phone = IF body.phone # Omitted THEN body.phone ELSE @,
     !.secondaryPhone = IF body.secondaryPhone # Omitted THEN body.secondaryPhone ELSE @,
     !.previous = Effective(body.previous, current.previous),
     !.version = @ + 1]

\* What PUT stores: fields it does not carry stay as they are by now, the
\* previous service is written whole, from the row as read.
Merged(current, body, before) ==
  [current EXCEPT
     !.phone = IF body.phone # Omitted THEN body.phone ELSE @,
     !.secondaryPhone = IF body.secondaryPhone # Omitted THEN body.secondaryPhone ELSE @,
     !.previous = IF Touches(body) THEN Effective(body.previous, before.previous) ELSE @,
     !.version = @ + 1]

NewRow(private, body) ==
  [Free EXCEPT
     !.life = "live", !.phone = body.phone,
     !.secondaryPhone = IF body.secondaryPhone = Omitted THEN NoPhone ELSE body.secondaryPhone,
     !.previous = Effective(body.previous, {}),
     !.version = 1, !.private = private]

\* hiddenUrgentOnlyCustomerForScheduling.
Visible(c, user) == c \in Live /\ (user = "SCHEDULING" => row[c].private # "yes")

-----------------------------------------------------------------------------
\* The fields of the row as read that are used after the next await.
Used(before) ==
  [Free EXCEPT !.previous = before.previous, !.isActive = before.isActive,
               !.version = before.version]

Proceeds(r, q) == req' = [req EXCEPT ![r] = q]
Ends(r) == Proceeds(r, Idle)

\* POST /: one insert, customer and address together.
Create(r, user, body) ==
  /\ req[r] = Idle
  /\ Acceptable(body, Free)
  /\ \E c \in Fresh :
       /\ row' = [row EXCEPT ![c] = NewRow(IF user = "ADMIN" THEN "no" ELSE "never", body)]
       /\ Proceeds(r, [Idle EXCEPT !.step = "log", !.op = "create", !.user = user,
                                !.id = c, !.version = 1])
  /\ UNCHANGED logged

\* The edit form loads the customer and keeps its version.
OpenForm(r, user, c) ==
  /\ req[r] = Idle
  /\ Visible(c, user)
  /\ row[c].version < MaxVersion
  /\ Proceeds(r, [Idle EXCEPT !.step = "form", !.op = "save", !.user = user,
                           !.id = c, !.version = row[c].version])
  /\ UNCHANGED <<row, logged>>

\* The form is sent, or left.
Submit(r, body) ==
  /\ req[r].step = "form"
  /\ \/ Proceeds(r, [req[r] EXCEPT !.step = "read", !.body = body, !.since = row[req[r].id].version])
     \/ Ends(r)
  /\ UNCHANGED <<row, logged>>

\* Fault: the version is not compared.
UpToDateUnasked(q) == TRUE

UpToDate(q) == q.body.versioned => q.version = row[q.id].version

\* PUT /:id up to its write: 404, 409 and 400 end it.
ReadForSave(r) ==
  LET q == req[r]
  IN /\ q.step = "read"
     /\ \/ /\ Visible(q.id, q.user) /\ UpToDate(q) /\ Acceptable(q.body, row[q.id])
           /\ Proceeds(r, [q EXCEPT !.step = "write", !.seen = Used(row[q.id])])
        \/ /\ ~(Visible(q.id, q.user) /\ UpToDate(q) /\ Acceptable(q.body, row[q.id]))
           /\ Ends(r)
     /\ UNCHANGED <<row, logged>>

\* PATCH /:id/toggle-active up to its write.
ReadForToggle(r, c) ==
  /\ req[r] = Idle
  /\ c \in Live
  /\ row[c].version <= MaxVersion
  /\ Proceeds(r, [Idle EXCEPT !.step = "write", !.op = "toggle", !.user = "ADMIN",
                           !.id = c, !.seen = Used(row[c])])
  /\ UNCHANGED <<row, logged>>

Toggled(current, before) == [current EXCEPT !.isActive = ~before.isActive, !.version = @ + 1]

\* The write of both; a row deleted meanwhile makes it fail (P2025).
Write(r) ==
  LET q == req[r]
  IN /\ q.step = "write"
     /\ \/ /\ q.id \in Live
           /\ row' = [row EXCEPT ![q.id] = IF q.op = "save" THEN Merged(@, q.body, q.seen)
                                                            ELSE Toggled(@, q.seen)]
           /\ Proceeds(r, [q EXCEPT !.step = "log", !.version = row[q.id].version + 1])
        \/ q.id \notin Live /\ Ends(r) /\ UNCHANGED row
     /\ UNCHANGED logged

\* DELETE /:id: the transaction of module Appointments.
RemoveCustomer(r, c) ==
  /\ req[r] = Idle
  /\ c \in Live
  /\ row' = [row EXCEPT ![c].life = "deleted"]
  /\ Proceeds(r, [Idle EXCEPT !.step = "log", !.op = "remove", !.user = "ADMIN",
                           !.id = c, !.batch = {<<c, row[c].version>>}])
  /\ UNCHANGED logged

\* Fault: the audit row of an update is forgotten.
DeletionsOnly(q) == {<<m[1], 0>> : m \in q.batch}

Entries(q) ==
  IF q.batch # {} THEN {<<m[1], 0>> : m \in q.batch} ELSE {<<q.id, q.version>>}

\* Audit row, event row and emits that follow every write.
Log(r) ==
  /\ req[r].step = "log"
  /\ logged' = logged \cup Entries(req[r])
  /\ Ends(r)
  /\ UNCHANGED row

-----------------------------------------------------------------------------
(* DELETE /: all customers, if there are as many as the caller was shown. *)

\* The dialog is confirmed; its count is the list's, which may be old by the
\* time the request arrives.
ConfirmRemoveAll(r) ==
  /\ req[r] = Idle
  /\ Live # {}
  /\ Proceeds(r, [Idle EXCEPT !.step = "count", !.op = "removeAll", !.user = "ADMIN",
                           !.expected = Cardinality(Live)])
  /\ UNCHANGED <<row, logged>>

CountMatches(q, found) == Cardinality(found) = q.expected

\* The Serializable transaction begins: what it reads is its snapshot.
CountAll(r) ==
  LET q == req[r]
  IN /\ q.step = "count"
     /\ \/ /\ CountMatches(q, Live) /\ Live # {}
           /\ Proceeds(r, [q EXCEPT !.step = "delete",
                                 !.batch = {<<c, row[c].version>> : c \in Live}])
        \/ ~(CountMatches(q, Live) /\ Live # {}) /\ Ends(r)
     /\ UNCHANGED <<row, logged>>

\* Fault: the statement deletes what is there when it runs.
Listed(q) == Live

Doomed(q) == {m[1] : m \in q.batch}

\* deleteMany deletes the rows of the snapshot; Postgres refuses it (P2034) when
\* one of them, or a row that hangs from one, has been written since.
DeleteAll(r) ==
  LET q == req[r]
  IN /\ q.step = "delete"
     /\ \/ /\ \A m \in q.batch : m[1] \in Live /\ row[m[1]].version = m[2]
           /\ row' = [c \in Customer |->
                        IF c \in Doomed(q) THEN [row[c] EXCEPT !.life = "deleted"] ELSE row[c]]
           /\ Proceeds(r, [q EXCEPT !.step = "log"])
        \/ Ends(r) /\ UNCHANGED row
     /\ UNCHANGED logged

-----------------------------------------------------------------------------
(* POST /appointments with isUrgent: find or create the customer by phone. *)

UrgentFind(r, phone) ==
  /\ req[r] = Idle
  /\ \E c \in {x \in Live : row[x].phone = phone} \cup {NoCustomer} :
       /\ c = NoCustomer => \A x \in Live : row[x].phone # phone
       /\ Proceeds(r, [Idle EXCEPT !.step = "find", !.op = "urgent", !.user = "ADMIN",
                                !.id = c, !.body.phone = phone])
  /\ UNCHANGED <<row, logged>>

\* The transaction commits: the appointment, and the customer if none was found.
\* A customer with no other appointment becomes hidden.
UrgentCommit(r) ==
  LET q == req[r]
  IN /\ q.step = "find"
     /\ \/ /\ q.id = NoCustomer
           /\ \E c \in Fresh :
                /\ row' = [row EXCEPT ![c] = NewRow("yes", q.body)]
                /\ Proceeds(r, [q EXCEPT !.step = "log", !.id = c, !.version = 1])
        \/ /\ q.id \in Live
           /\ row' \in {row, [row EXCEPT ![q.id].private = IF @ = "no" THEN "yes" ELSE @]}
           /\ Ends(r)
        \/ /\ q.id # NoCustomer /\ q.id \notin Live
           /\ Ends(r) /\ UNCHANGED row
     /\ UNCHANGED logged

\* The endpoints of module Appointments create, approve and delete the
\* customer's appointments.
AppointmentsChange(c) ==
  /\ c \in Live
  /\ row[c].private # "never"
  /\ row' = [row EXCEPT ![c].private = IF @ = "yes" THEN "no" ELSE "yes"]
  /\ UNCHANGED <<req, logged>>

CustomersNext ==
  \/ \E r \in Req :
       \/ \E user \in {"ADMIN", "SCHEDULING"} :
            \/ \E body \in NewBodies : Create(r, user, body)
            \/ \E c \in Customer : OpenForm(r, user, c)
       \/ \E body \in Edits : Submit(r, body)
       \/ ReadForSave(r) \/ Write(r) \/ Log(r)
       \/ \E c \in Customer : ReadForToggle(r, c) \/ RemoveCustomer(r, c)
       \/ ConfirmRemoveAll(r) \/ CountAll(r) \/ DeleteAll(r)
       \/ \E phone \in Phone : UrgentFind(r, phone)
       \/ UrgentCommit(r)
  \/ \E c \in Customer : AppointmentsChange(c)

CustomersSpec == CustomersInit /\ [][CustomersNext]_customerVars

-----------------------------------------------------------------------------
CustomersTypeOK ==
  /\ row \in [Customer -> Row]
  /\ req \in [Req -> Request \cup {Idle}]
  /\ logged \subseteq Customer \X Nat

\* A stored record of an earlier service has its type and its date, or nothing,
\* although updates merge what they carry with a row that others have written
\* since (resolvePreviousService).
PreviousServiceWhole ==
  \A c \in Customer : row[c].previous # {} => {"type", "date"} \subseteq row[c].previous

\* The two numbers of a customer differ, whichever of two overlapping edits
\* commits last (normalizeSecondaryPhone and the form, which sends both).
PhonesDiffer == \A c \in Live : row[c].phone # row[c].secondaryPhone

\* No interleaving of updates leaves a row that no single request could have
\* stored: half a previous service, or one number twice.
RowsAreSound == PreviousServiceWhole /\ PhonesDiffer

\* A form overwrites nothing that was stored before it was sent and that it
\* did not show: only an edit still under way at that moment can be lost.
FormSeesEarlierEdits ==
  [][\A r \in Req :
       /\ req[r].step = "write" /\ req[r].op = "save" /\ req[r].body.versioned
       /\ req'[r].step = "log"
       => req[r].since <= req[r].seen.version /\ req[r].version >= req[r].since]_customerVars

\* Deleting all customers deletes as many as the administrator was shown, or
\* none: not those created while the transaction ran.
RemoveAllIsExact ==
  [][\A r \in Req :
       req[r].step = "delete" /\ req'[r].step = "log"
       => Cardinality(Live \ Live') = req[r].expected]_customerVars

\* Every version of a customer, and its deletion, has its audit row or a
\* handler that is about to write it.
ChangesAreLogged ==
  \A c \in Customer, v \in 0 .. MaxVersion + Cardinality(Req) :
    (IF v = 0 THEN row[c].life = "deleted" ELSE v <= row[c].version)
    => \/ <<c, v>> \in logged
       \/ \E r \in Req : req[r].step = "log" /\ <<c, v>> \in Entries(req[r])
=============================================================================
