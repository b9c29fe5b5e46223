---------------------------- MODULE CustomersProofs ----------------------------
(***************************************************************************)
(* Theorems about the customer endpoints, for any customers, phone         *)
(* numbers, request slots and bodies.                                      *)
(*                                                                         *)
(* A write merges what a request carries with two versions of the row: the *)
(* one it read and the one it meets.  The invariant says of every request  *)
(* in flight what its checks established and no other request can undo,    *)
(* and of every row what any such write keeps.                             *)
(***************************************************************************)
EXTENDS Customers, FiniteSetTheorems, TLAPS

\* Edits carry both phone numbers or neither, as the edit forms do.  An update
\* of one number alone is checked against the other as it was.
BothNumbers == \A b \in Edits : b.phone = Omitted <=> b.secondaryPhone = Omitted

GoodRow(x) ==
  /\ x \in Row
  /\ Whole(x.previous)
  /\ BothNumbers /\ x.life = "live" => x.phone # x.secondaryPhone
  /\ x.life = "free" => x.version = 0

\* What the checks of a body established, whatever the row is by now.
Checked(b, before) ==
  /\ Touches(b) => Whole(Effective(b.previous, before.previous))
  /\ BothNumbers /\ b.secondaryPhone # Omitted => b.secondaryPhone # b.phone

\* A request has its type, knows whose row it is about, and its form is no newer
\* than the row.
GoodRequest(q, table) ==
  /\ q \in Request \cup {Idle}
  /\ q.step \in {"form", "read", "write"} => q.id \in Customer
  /\ q.step = "log" => q.batch # {} \/ q.id \in Customer
  /\ q.step = "delete" => q.batch # {}
  /\ q.step = "read" => q.body \in Edits /\ q.since <= table[q.id].version
  /\ q.step = "write" /\ q.op = "save" =>
       /\ q.body \in Edits
       /\ Checked(q.body, q.seen)
       /\ q.since <= q.seen.version
       /\ q.body.versioned => q.version = q.seen.version
  /\ q.step = "find" =>
       /\ q.body.phone # Omitted
       /\ q.body.secondaryPhone = Omitted
       /\ q.body.previous = [f \in PreviousField |-> "omitted"]

Rows(table) == table \in [Customer -> Row] /\ \A c \in Customer : GoodRow(table[c])
Requests(slots, table) ==
  slots \in [Req -> Request \cup {Idle}] /\ \A r \in Req : GoodRequest(slots[r], table)

CustomersInv ==
  /\ Rows(row) /\ IsFiniteSet(Live)
  /\ Requests(req, row)
  /\ logged \subseteq Customer \X Nat

Grown == \A c \in Customer : row[c].version <= row'[c].version

-----------------------------------------------------------------------------
(* What one step changes. *)

USE PhoneAssumption, NoCustomerAssumption

LEMMA FreeIsGood == GoodRow(Free)
BY DEF GoodRow, Row, Whole, PreviousField, Free

LEMMA NoBodyIsBody == NoBody \in Body
BY DEF NoBody, Body, PreviousField

LEMMA IdleIsGood == \A table : GoodRequest(Idle, table)
BY DEF GoodRequest, Idle

LEMMA OneRow ==
  ASSUME Rows(row), NEW c \in Customer, NEW x, GoodRow(x), row[c].version <= x.version,
         row' = [row EXCEPT ![c] = x]
  PROVE  Rows(row') /\ Grown /\ Live' \subseteq Live \cup {c}
BY DEF Rows, Grown, GoodRow, Row, Live

LEMMA StaysFinite ==
  ASSUME IsFiniteSet(Live), NEW c, Live' \subseteq Live \cup {c}
  PROVE  IsFiniteSet(Live')
BY FS_AddElement, FS_Subset

\* Requests that are left alone stay good while rows grow.
LEMMA OldRequest ==
  ASSUME Rows(row), Rows(row'), Grown, NEW q, GoodRequest(q, row)
  PROVE  GoodRequest(q, row')
<1>1. q \in Request \cup {Idle} BY DEF GoodRequest
<1>2. q.step = "read" => q.since <= row'[q.id].version
  <2>1. SUFFICES ASSUME q.step = "read" PROVE q.since <= row'[q.id].version
    OBVIOUS
  <2>2. q.id \in Customer /\ q.since <= row[q.id].version BY <2>1 DEF GoodRequest
  <2>3. q.since \in Nat BY <1>1 DEF Request, Idle
  <2>4. row[q.id].version \in Nat /\ row'[q.id].version \in Nat BY <2>2 DEF Rows, Row
  <2>5. row[q.id].version <= row'[q.id].version BY <2>2 DEF Grown
  <2> QED BY <2>2, <2>3, <2>4, <2>5
<1> QED BY <1>2 DEF GoodRequest

LEMMA OneRequest ==
  ASSUME Rows(row), Rows(row'), Requests(req, row), Grown, NEW r \in Req, NEW q,
         GoodRequest(q, row'), req' = [req EXCEPT ![r] = q]
  PROVE  Requests(req', row')
<1>1. ASSUME NEW s \in Req PROVE GoodRequest(req'[s], row')
  <2>1. CASE s = r BY <2>1 DEF Requests
  <2>2. CASE s # r
    <3>1. req'[s] = req[s] /\ GoodRequest(req[s], row) BY <2>2 DEF Requests
    <3> QED BY <3>1, OldRequest
  <2> QED BY <2>1, <2>2
<1>2. q \in Request \cup {Idle} BY DEF GoodRequest
<1> QED BY <1>1, <1>2 DEF Requests

LEMMA SameRows == Rows(row) /\ row' = row => Rows(row') /\ Grown /\ Live' = Live
BY DEF Rows, Grown, Row, GoodRow, Live

-----------------------------------------------------------------------------
(* What requests carry. *)

LEMMA EffectiveWithin ==
  \A submitted, stored : Effective(submitted, stored) \in SUBSET PreviousField
BY DEF Effective

LEMMA CreatedIsGood ==
  ASSUME NEW b \in Body, b.phone # Omitted, Acceptable(b, Free), NEW p \in {"never", "no", "yes"}
  PROVE  GoodRow(NewRow(p, b)) /\ NewRow(p, b).version = 1
<1> DEFINE x == NewRow(p, b)
<1>1. Effective(b.previous, {}) \in SUBSET PreviousField BY EffectiveWithin
<1>2. b.phone \in Phone BY DEF Body
<1>3. b.secondaryPhone \in Phone \cup {NoPhone, Omitted} BY DEF Body
<1>4. /\ x.life = "live" /\ x.phone = b.phone /\ x.version = 1
      /\ x.secondaryPhone = IF b.secondaryPhone = Omitted THEN NoPhone ELSE b.secondaryPhone
      /\ x.previous = Effective(b.previous, {})
  BY DEF NewRow, Free
<1>5. x \in Row BY <1>1, <1>2, <1>3 DEF NewRow, Row, Free
<1>6. Whole(x.previous)
  <2>1. CASE Touches(b) BY <2>1, <1>4 DEF Acceptable, Free
  <2>2. CASE ~Touches(b)
    <3>1. Effective(b.previous, {}) = {} BY <2>2 DEF Effective, Touches
    <3> QED BY <3>1, <1>4 DEF Whole
  <2> QED BY <2>1, <2>2
<1>7. x.phone # x.secondaryPhone
  <2>1. b.secondaryPhone # Omitted => b.secondaryPhone # b.phone
    BY DEF Acceptable, EffectivePrimaryPhone
  <2> QED BY <1>2, <1>4, <2>1
<1> QED BY <1>4, <1>5, <1>6, <1>7 DEF GoodRow

LEMMA MergedIsGood ==
  ASSUME NEW x, GoodRow(x), x.life = "live", NEW b \in Edits, NEW before, Checked(b, before)
  PROVE  GoodRow(Merged(x, b, before)) /\ Merged(x, b, before).version = x.version + 1
<1> DEFINE y == Merged(x, b, before)
<1>1. x \in Row /\ b \in Body BY BodiesAssumption DEF GoodRow
<1>2. /\ y.life = x.life /\ y.version = x.version + 1
      /\ y.phone = IF b.phone # Omitted THEN b.phone ELSE x.phone
      /\ y.secondaryPhone = IF b.secondaryPhone # Omitted THEN b.secondaryPhone ELSE x.secondaryPhone
      /\ y.previous = IF Touches(b) THEN Effective(b.previous, before.previous) ELSE x.previous
  BY <1>1 DEF Merged, Row
<1>3. y \in Row
  <2>1. Effective(b.previous, before.previous) \in SUBSET PreviousField BY EffectiveWithin
  <2>2. y.previous \in SUBSET PreviousField BY <1>1, <1>2, <2>1 DEF Row
  <2>3. y.phone \in Phone \cup {NoPhone} BY <1>1, <1>2 DEF Row, Body
  <2>4. y.secondaryPhone \in Phone \cup {NoPhone} BY <1>1, <1>2 DEF Row, Body
  <2>5. y.life \in {"free", "live", "deleted"} /\ y.version \in Nat BY <1>1, <1>2 DEF Row
  <2>6. y = [x EXCEPT !.phone = y.phone, !.secondaryPhone = y.secondaryPhone,
                      !.previous = y.previous, !.version = y.version]
    BY <1>1, <1>2 DEF Merged, Row
  <2> HIDE DEF y
  <2> QED BY <1>1, <2>2, <2>3, <2>4, <2>5, <2>6 DEF Row
<1>4. Whole(y.previous) BY <1>2 DEF Checked, GoodRow
<1>5. BothNumbers => y.phone # y.secondaryPhone
  <2>1. CASE b.secondaryPhone = Omitted
    <3>1. BothNumbers => y.phone = x.phone BY <1>2, <2>1 DEF BothNumbers
    <3> QED BY <1>2, <2>1, <3>1 DEF GoodRow
  <2>2. CASE b.secondaryPhone # Omitted
    <3>1. BothNumbers => y.phone = b.phone BY <1>2, <2>2 DEF BothNumbers
    <3> QED BY <1>2, <2>2, <3>1 DEF Checked
  <2> QED BY <2>1, <2>2
<1> QED BY <1>2, <1>3, <1>4, <1>5 DEF GoodRow

-----------------------------------------------------------------------------
(* Every step keeps the invariant. *)

LEMMA KeepsInv ==
  ASSUME CustomersInv, Rows(row'), Grown, IsFiniteSet(Live'), NEW r \in Req, NEW q, GoodRequest(q, row'),
         Proceeds(r, q), UNCHANGED logged
  PROVE  CustomersInv'
BY OneRequest DEF CustomersInv, Proceeds

LEMMA OnlyRequest ==
  ASSUME CustomersInv, row' = row, NEW r \in Req, NEW q, GoodRequest(q, row),
         Proceeds(r, q), UNCHANGED logged
  PROVE  CustomersInv'
<1>1. Rows(row') /\ Grown /\ IsFiniteSet(Live') BY SameRows DEF CustomersInv
<1> QED BY <1>1, KeepsInv

LEMMA OneRowAndRequest ==
  ASSUME CustomersInv, NEW c \in Customer, NEW x, GoodRow(x), row[c].version <= x.version,
         row' = [row EXCEPT ![c] = x], NEW r \in Req, NEW q, GoodRequest(q, row'),
         Proceeds(r, q), UNCHANGED logged
  PROVE  CustomersInv'
<1>1. Rows(row') /\ Grown /\ Live' \subseteq Live \cup {c} BY OneRow DEF CustomersInv
<1>2. IsFiniteSet(Live') BY <1>1, StaysFinite DEF CustomersInv
<1> QED BY <1>1, <1>2, KeepsInv

LEMMA UsedType ==
  ASSUME NEW x \in Row
  PROVE  /\ Used(x) \in Row
         /\ Used(x).previous = x.previous /\ Used(x).version = x.version
BY DEF Used, Row, Free

LEMMA StepForms ==
  ASSUME CustomersInv, NEW r \in Req, NEW user \in {"ADMIN", "SCHEDULING"}, NEW c \in Customer,
         OpenForm(r, user, c)
  PROVE  CustomersInv'
<1> DEFINE q == [Idle EXCEPT !.step = "form", !.op = "save", !.user = user,
                             !.id = c, !.version = row[c].version]
<1>1. row[c].version \in Nat BY DEF CustomersInv, Rows, Row
<1>2. q \in Request BY <1>1, FreeIsGood, NoBodyIsBody DEF Request, Idle, GoodRow
<1>3. q.step = "form" /\ q.id = c BY DEF Idle
<1>4. GoodRequest(q, row) BY <1>2, <1>3 DEF GoodRequest
<1>5. Proceeds(r, q) /\ row' = row /\ UNCHANGED logged BY DEF OpenForm
<1> QED BY <1>4, <1>5, OnlyRequest

LEMMA StepSubmit ==
  ASSUME CustomersInv, NEW r \in Req, NEW body \in Edits, Submit(r, body)
  PROVE  CustomersInv'
<1> DEFINE q == [req[r] EXCEPT !.step = "read", !.body = body, !.since = row[req[r].id].version]
<1>1. GoodRequest(req[r], row) /\ req[r].step = "form" /\ row' = row /\ UNCHANGED logged
  BY DEF Submit, CustomersInv, Requests
<1>2. req[r] \in Request /\ req[r].id \in Customer BY <1>1 DEF GoodRequest, Idle
<1>3. row[req[r].id].version \in Nat BY <1>2 DEF CustomersInv, Rows, Row
<1>4. q \in Request BY <1>2, <1>3, BodiesAssumption DEF Request
<1>5. q.step = "read" /\ q.body = body /\ q.id = req[r].id /\ q.since = row[q.id].version
  BY <1>2 DEF Request
<1>6. GoodRequest(q, row) BY <1>2, <1>3, <1>4, <1>5 DEF GoodRequest
<1>7. CASE Proceeds(r, q) BY <1>1, <1>6, <1>7, OnlyRequest
<1>8. CASE Ends(r) BY <1>1, <1>8, IdleIsGood, OnlyRequest DEF Ends
<1> QED BY <1>7, <1>8 DEF Submit

LEMMA StepReadForSave ==
  ASSUME CustomersInv, NEW r \in Req, ReadForSave(r)
  PROVE  CustomersInv'
<1> DEFINE p == req[r]
           q == [p EXCEPT !.step = "write", !.seen = Used(row[p.id])]
<1>1. GoodRequest(p, row) /\ p.step = "read" /\ row' = row /\ UNCHANGED logged
  BY DEF ReadForSave, CustomersInv, Requests
<1>2. p \in Request /\ p.id \in Customer /\ p.body \in Edits /\ p.since <= row[p.id].version
  BY <1>1 DEF GoodRequest, Idle
<1>3. row[p.id] \in Row BY <1>2 DEF CustomersInv, Rows
<1>4. CASE UpToDate(p) /\ Acceptable(p.body, row[p.id]) /\ Proceeds(r, q)
  <2>1. q \in Request BY <1>2, <1>3, UsedType DEF Request
  <2>2. q.step = "write" /\ q.id = p.id /\ q.body = p.body /\ q.since = p.since
        /\ q.version = p.version /\ q.seen = Used(row[p.id])
    BY <1>2 DEF Request
  <2>3. q.since <= q.seen.version BY <1>2, <1>3, <2>2, UsedType
  <2>4. q.body.versioned => q.version = q.seen.version
    BY <1>3, <1>4, <2>2, UsedType DEF UpToDate
  <2>5. Checked(q.body, q.seen)
    <3>1. Touches(q.body) => Whole(Effective(q.body.previous, q.seen.previous))
      BY <1>3, <1>4, <2>2, UsedType DEF Acceptable
    <3>2. BothNumbers /\ q.body.secondaryPhone # Omitted => q.body.secondaryPhone # q.body.phone
      BY <1>2, <1>4, <2>2 DEF Acceptable, EffectivePrimaryPhone, BothNumbers
    <3> QED BY <3>1, <3>2 DEF Checked
  <2>6. GoodRequest(q, row) BY <1>2, <2>1, <2>2, <2>3, <2>4, <2>5 DEF GoodRequest
  <2> QED BY <1>1, <1>4, <2>6, OnlyRequest
<1>5. CASE Ends(r) BY <1>1, <1>5, IdleIsGood, OnlyRequest DEF Ends
<1> QED BY <1>4, <1>5 DEF ReadForSave

LEMMA StepReadForToggle ==
  ASSUME CustomersInv, NEW r \in Req, NEW c \in Customer, ReadForToggle(r, c)
  PROVE  CustomersInv'
<1> DEFINE q == [Idle EXCEPT !.step = "write", !.op = "toggle", !.user = "ADMIN",
                             !.id = c, !.seen = Used(row[c])]
<1>1. row[c] \in Row BY DEF CustomersInv, Rows
<1>2. q \in Request BY <1>1, UsedType, NoBodyIsBody DEF Request, Idle
<1>3. q.step = "write" /\ q.op = "toggle" /\ q.id = c BY DEF Idle
<1>4. GoodRequest(q, row) BY <1>2, <1>3 DEF GoodRequest
<1>5. Proceeds(r, q) /\ row' = row /\ UNCHANGED logged BY DEF ReadForToggle
<1> QED BY <1>4, <1>5, OnlyRequest


LEMMA StepWrite ==
  ASSUME CustomersInv, NEW r \in Req, Write(r)
  PROVE  CustomersInv'
<1> DEFINE p == req[r]
           x == row[p.id]
           q == [p EXCEPT !.step = "log", !.version = x.version + 1]
           y == IF p.op = "save" THEN Merged(x, p.body, p.seen) ELSE Toggled(x, p.seen)
<1>1. GoodRequest(p, row) /\ p.step = "write" /\ UNCHANGED logged
  BY DEF Write, CustomersInv, Requests
<1>2. p \in Request /\ p.id \in Customer BY <1>1 DEF GoodRequest, Idle
<1>3. CASE p.id \in Live /\ row' = [row EXCEPT ![p.id] = y] /\ Proceeds(r, q)
  <2>1. GoodRow(x) /\ x.life = "live" /\ x.version \in Nat
    BY <1>2, <1>3 DEF CustomersInv, Rows, Live, Row
  <2>2. GoodRow(y) /\ y.version = x.version + 1
    <3>1. CASE p.op = "save"
      <4>1. p.body \in Edits /\ Checked(p.body, p.seen) BY <1>1, <3>1 DEF GoodRequest
      <4> QED BY <2>1, <3>1, <4>1, MergedIsGood
    <3>2. CASE p.op # "save"
      <4>1. p.seen.isActive \in BOOLEAN BY <1>2 DEF Request, Row
      <4>2. x \in Row BY <2>1 DEF GoodRow
      <4>3. Toggled(x, p.seen) \in Row
            /\ Toggled(x, p.seen).version = x.version + 1
            /\ Toggled(x, p.seen).life = x.life /\ Toggled(x, p.seen).phone = x.phone
            /\ Toggled(x, p.seen).secondaryPhone = x.secondaryPhone
            /\ Toggled(x, p.seen).previous = x.previous
        <5>1. x.version + 1 \in Nat BY <2>1
        <5>2. (~p.seen.isActive) \in BOOLEAN OBVIOUS
        <5> HIDE DEF x, p
        <5> QED BY <4>2, <5>1, <5>2 DEF Toggled, Row
      <4> QED BY <2>1, <3>2, <4>3 DEF GoodRow
    <3> QED BY <3>1, <3>2
  <2>3. q \in Request
    <3>1. x.version + 1 \in Nat BY <2>1
    <3> HIDE DEF x, p
    <3> QED BY <1>2, <3>1 DEF Request
  <2>4. q.step = "log" /\ q.id = p.id BY <1>2 DEF Request
  <2>5. GoodRequest(q, row') BY <1>2, <2>3, <2>4 DEF GoodRequest
  <2>6. row[p.id].version <= y.version BY <2>1, <2>2
  <2> HIDE DEF q, y
  <2> QED BY <1>1, <1>2, <1>3, <2>2, <2>5, <2>6, OneRowAndRequest
<1>4. CASE Ends(r) /\ row' = row BY <1>1, <1>4, IdleIsGood, OnlyRequest DEF Ends
<1>5. CASE p.id \in Live /\ row' = [row EXCEPT ![p.id] =
                   IF p.op = "save" THEN Merged(@, p.body, p.seen) ELSE Toggled(@, p.seen)]
           /\ Proceeds(r, q)
  BY <1>3, <1>5
<1> QED BY <1>4, <1>5 DEF Write

LEMMA StepCreate ==
  ASSUME CustomersInv, NEW r \in Req, NEW user \in {"ADMIN", "SCHEDULING"},
         NEW body \in NewBodies, Create(r, user, body)
  PROVE  CustomersInv'
<1> DEFINE p == IF user = "ADMIN" THEN "no" ELSE "never"
<1>1. PICK c \in Fresh :
        /\ row' = [row EXCEPT ![c] = NewRow(p, body)]
        /\ Proceeds(r, [Idle EXCEPT !.step = "log", !.op = "create", !.user = user,
                                    !.id = c, !.version = 1])
  BY DEF Create
<1> DEFINE q == [Idle EXCEPT !.step = "log", !.op = "create", !.user = user,
                             !.id = c, !.version = 1]
<1>2. c \in Customer /\ row[c].version = 0
  BY <1>1 DEF Fresh, CustomersInv, Rows, GoodRow
<1>3. GoodRow(NewRow(p, body)) /\ NewRow(p, body).version = 1
  BY CreatedIsGood, BodiesAssumption DEF Create
<1>4. q \in Request BY <1>2, FreeIsGood, NoBodyIsBody DEF Request, Idle, GoodRow
<1>5. q.step = "log" /\ q.id = c BY DEF Idle
<1>6. GoodRequest(q, row') BY <1>2, <1>4, <1>5 DEF GoodRequest
<1>7. UNCHANGED logged BY DEF Create
<1>8. row' = [row EXCEPT ![c] = NewRow(p, body)] /\ Proceeds(r, q) BY <1>1
<1>9. row[c].version <= NewRow(p, body).version BY <1>2, <1>3
<1> HIDE DEF q, p
<1> QED BY <1>2, <1>3, <1>6, <1>7, <1>8, <1>9, OneRowAndRequest

LEMMA StepRemove ==
  ASSUME CustomersInv, NEW r \in Req, NEW c \in Customer, RemoveCustomer(r, c)
  PROVE  CustomersInv'
<1> DEFINE x == [row[c] EXCEPT !.life = "deleted"]
           q == [Idle EXCEPT !.step = "log", !.op = "remove", !.user = "ADMIN",
                             !.id = c, !.batch = {<<c, row[c].version>>}]
<1>1. GoodRow(row[c]) /\ row[c] \in Row BY DEF CustomersInv, Rows
<1>2. GoodRow(x) /\ x.version = row[c].version BY <1>1 DEF GoodRow, Row
<1>3. row[c].version \in Nat BY <1>1 DEF Row
<1>4. q \in Request
  <2>1. {<<c, row[c].version>>} \in SUBSET (Customer \X Nat) BY <1>3
  <2> QED BY <2>1, FreeIsGood, NoBodyIsBody DEF Request, Idle, GoodRow
<1>5. q.step = "log" /\ q.id = c BY DEF Idle
<1>6. GoodRequest(q, row') BY <1>4, <1>5 DEF GoodRequest
<1>7. row' = [row EXCEPT ![c] = x] /\ Proceeds(r, q) /\ UNCHANGED logged
  BY DEF RemoveCustomer
<1>8. row[c].version <= x.version BY <1>2, <1>3
<1> HIDE DEF q, x
<1> QED BY <1>2, <1>6, <1>7, <1>8, OneRowAndRequest


LEMMA StepLog ==
  ASSUME CustomersInv, NEW r \in Req, Log(r)
  PROVE  CustomersInv'
<1> DEFINE p == req[r]
<1>1. GoodRequest(p, row) /\ p.step = "log" BY DEF Log, CustomersInv, Requests
<1>2. p \in Request /\ (p.batch # {} \/ p.id \in Customer) BY <1>1 DEF GoodRequest, Idle
<1>3. Entries(p) \subseteq Customer \X Nat
  <2>1. p.batch \subseteq Customer \X Nat /\ p.version \in Nat BY <1>2 DEF Request
  <2>2. CASE p.batch # {} BY <2>1, <2>2 DEF Entries
  <2>3. CASE p.batch = {} BY <1>2, <2>1, <2>3 DEF Entries
  <2> QED BY <2>2, <2>3
<1>4. logged' \subseteq Customer \X Nat BY <1>3 DEF Log, CustomersInv
<1>5. Rows(row') /\ Grown /\ IsFiniteSet(Live') BY SameRows DEF CustomersInv, Log
<1>6. Requests(req', row')
  BY <1>5, IdleIsGood, OneRequest DEF CustomersInv, Log, Ends, Proceeds
<1> QED BY <1>4, <1>5, <1>6 DEF CustomersInv

LEMMA StepConfirmRemoveAll ==
  ASSUME CustomersInv, NEW r \in Req, ConfirmRemoveAll(r)
  PROVE  CustomersInv'
<1> DEFINE q == [Idle EXCEPT !.step = "count", !.op = "removeAll", !.user = "ADMIN",
                             !.expected = Cardinality(Live)]
<1>1. Cardinality(Live) \in Nat BY FS_CardinalityType DEF CustomersInv
<1>2. q \in Request BY <1>1, FreeIsGood, NoBodyIsBody DEF Request, Idle, GoodRow
<1>3. q.step = "count" BY DEF Idle
<1>4. GoodRequest(q, row) BY <1>2, <1>3 DEF GoodRequest
<1>5. Proceeds(r, q) /\ row' = row /\ UNCHANGED logged BY DEF ConfirmRemoveAll
<1> QED BY <1>4, <1>5, OnlyRequest

LEMMA StepCountAll ==
  ASSUME CustomersInv, NEW r \in Req, CountAll(r)
  PROVE  CustomersInv'
<1> DEFINE p == req[r]
           q == [p EXCEPT !.step = "delete", !.batch = {<<c, row[c].version>> : c \in Live}]
<1>1. GoodRequest(p, row) /\ p.step = "count" /\ row' = row /\ UNCHANGED logged
  BY DEF CountAll, CustomersInv, Requests
<1>2. p \in Request BY <1>1 DEF GoodRequest, Idle
<1>3. {<<c, row[c].version>> : c \in Live} \in SUBSET (Customer \X Nat)
  BY DEF CustomersInv, Rows, Row, Live
<1>4. CASE Live # {} /\ Proceeds(r, q)
  <2>1. q \in Request /\ q.step = "delete"
        /\ q.batch = {<<c, row[c].version>> : c \in Live}
    BY <1>2, <1>3 DEF Request
  <2>3. q.batch # {} BY <1>4, <2>1
  <2>2. GoodRequest(q, row) BY <2>1, <2>3 DEF GoodRequest
  <2> QED BY <1>1, <1>4, <2>2, OnlyRequest
<1>5. CASE Ends(r) BY <1>1, <1>5, IdleIsGood, OnlyRequest DEF Ends
<1> QED BY <1>4, <1>5 DEF CountAll


LEMMA StepDeleteAll ==
  ASSUME CustomersInv, NEW r \in Req, DeleteAll(r)
  PROVE  CustomersInv'
<1> DEFINE p == req[r]
           q == [p EXCEPT !.step = "log"]
<1>1. GoodRequest(p, row) /\ p.step = "delete" /\ UNCHANGED logged
  BY DEF DeleteAll, CustomersInv, Requests
<1>2. p \in Request /\ p.batch # {} BY <1>1 DEF GoodRequest, Idle
<1>3. CASE /\ row' = [c \in Customer |->
                        IF c \in Doomed(p) THEN [row[c] EXCEPT !.life = "deleted"] ELSE row[c]]
           /\ Proceeds(r, q)
  <2>1. ASSUME NEW c \in Customer
        PROVE  /\ GoodRow(row'[c]) /\ row'[c].version = row[c].version /\ row[c].version \in Nat
               /\ c \in Live' => c \in Live
    <3>1. GoodRow(row[c]) /\ row[c] \in Row BY DEF CustomersInv, Rows
    <3>2. GoodRow([row[c] EXCEPT !.life = "deleted"]) BY <3>1 DEF GoodRow, Row
    <3> QED BY <1>3, <3>1, <3>2 DEF Row, Live
  <2>2. Rows(row') BY <1>3, <2>1 DEF Rows, GoodRow
  <2>3. Grown BY <2>1 DEF Grown
  <2>4. IsFiniteSet(Live')
    <3>1. Live' \in SUBSET Live BY <2>1 DEF Live
    <3> QED BY <3>1, FS_Subset DEF CustomersInv
  <2>5. q \in Request /\ q.step = "log" /\ q.batch # {} BY <1>2 DEF Request
  <2>6. GoodRequest(q, row') BY <2>5 DEF GoodRequest
  <2> QED BY <1>1, <1>3, <2>2, <2>3, <2>4, <2>6, KeepsInv
<1>4. CASE Ends(r) /\ row' = row BY <1>1, <1>4, IdleIsGood, OnlyRequest DEF Ends
<1> QED BY <1>3, <1>4 DEF DeleteAll

LEMMA StepUrgentFind ==
  ASSUME CustomersInv, NEW r \in Req, NEW phone \in Phone, UrgentFind(r, phone)
  PROVE  CustomersInv'
<1>1. PICK c \in {x \in Live : row[x].phone = phone} \cup {NoCustomer} :
        Proceeds(r, [Idle EXCEPT !.step = "find", !.op = "urgent", !.user = "ADMIN",
                                 !.id = c, !.body.phone = phone])
  BY DEF UrgentFind
<1> DEFINE q == [Idle EXCEPT !.step = "find", !.op = "urgent", !.user = "ADMIN",
                             !.id = c, !.body.phone = phone]
<1>2. c \in Customer \cup {NoCustomer} BY DEF Live
<1>3. /\ q.body = [phone |-> phone, secondaryPhone |-> Omitted,
                   previous |-> [f \in PreviousField |-> "omitted"], versioned |-> FALSE]
      /\ q.step = "find"
  BY DEF Idle, NoBody
<1>4. q.body \in Body
  <2>1. [f \in PreviousField |-> "omitted"] \in [PreviousField -> {"omitted", "blank", "value"}]
    OBVIOUS
  <2> HIDE DEF q
  <2> QED BY <1>3, <2>1 DEF Body
<1>5. q \in Request
  <2>1. q = [Idle EXCEPT !.step = "find", !.op = "urgent", !.user = "ADMIN",
                         !.id = c, !.body = q.body]
    BY DEF Idle
  <2> QED BY <1>2, <1>4, <2>1, FreeIsGood DEF Request, Idle, GoodRow
<1>6. GoodRequest(q, row) BY <1>3, <1>5 DEF GoodRequest
<1>7. Proceeds(r, q) /\ row' = row /\ UNCHANGED logged BY <1>1 DEF UrgentFind
<1> QED BY <1>6, <1>7, OnlyRequest

LEMMA StepUrgentCommit ==
  ASSUME CustomersInv, NEW r \in Req, UrgentCommit(r)
  PROVE  CustomersInv'
<1> DEFINE p == req[r]
<1>1. GoodRequest(p, row) /\ p.step = "find" /\ UNCHANGED logged
  BY DEF UrgentCommit, CustomersInv, Requests
<1>2. /\ p \in Request /\ p.body \in Body
      /\ p.body.phone # Omitted /\ p.body.secondaryPhone = Omitted
      /\ p.body.previous = [f \in PreviousField |-> "omitted"]
  BY <1>1 DEF GoodRequest, Idle, Request
<1>3. ASSUME NEW c \in Fresh, row' = [row EXCEPT ![c] = NewRow("yes", p.body)],
             Proceeds(r, [p EXCEPT !.step = "log", !.id = c, !.version = 1])
      PROVE  CustomersInv'
  <2> DEFINE q == [p EXCEPT !.step = "log", !.id = c, !.version = 1]
  <2>1. c \in Customer /\ row[c].version = 0 BY DEF Fresh, CustomersInv, Rows, GoodRow
  <2>2. Acceptable(p.body, Free)
    <3>1. ~Touches(p.body) BY <1>2 DEF Touches
    <3> QED BY <1>2, <3>1 DEF Acceptable
  <2>3. GoodRow(NewRow("yes", p.body)) /\ NewRow("yes", p.body).version = 1
    BY <1>2, <2>2, CreatedIsGood
  <2>4. q \in Request /\ q.step = "log" /\ q.id = c BY <1>2, <2>1 DEF Request
  <2>5. GoodRequest(q, row') BY <2>1, <2>4 DEF GoodRequest
  <2>6. row[c].version <= NewRow("yes", p.body).version BY <2>1, <2>3
  <2> QED BY <1>1, <1>3, <2>1, <2>3, <2>5, <2>6, OneRowAndRequest
<1>4. ASSUME p.id \in Live, Ends(r),
             row' \in {row, [row EXCEPT ![p.id].private = IF @ = "no" THEN "yes" ELSE @]}
      PROVE  CustomersInv'
  <2> DEFINE x == [row[p.id] EXCEPT !.private = IF @ = "no" THEN "yes" ELSE @]
  <2>1. p.id \in Customer /\ GoodRow(row[p.id]) BY <1>4 DEF CustomersInv, Rows, Live
  <2>2. GoodRow(x) /\ x.version = row[p.id].version /\ row[p.id].version <= x.version
    BY <2>1 DEF GoodRow, Row
  <2>3. CASE row' = [row EXCEPT ![p.id] = x]
    <3> HIDE DEF x
    <3> QED BY <1>1, <1>4, <2>1, <2>2, <2>3, IdleIsGood, OneRowAndRequest DEF Ends
  <2>4. CASE row' = row BY <1>1, <1>4, <2>4, IdleIsGood, OnlyRequest DEF Ends
  <2> QED BY <1>4, <2>3, <2>4
<1>5. CASE Ends(r) /\ row' = row BY <1>1, <1>5, IdleIsGood, OnlyRequest DEF Ends
<1> QED BY <1>3, <1>4, <1>5 DEF UrgentCommit

LEMMA StepAppointments ==
  ASSUME CustomersInv, NEW c \in Customer, AppointmentsChange(c)
  PROVE  CustomersInv'
<1> DEFINE x == [row[c] EXCEPT !.private = IF @ = "yes" THEN "no" ELSE "yes"]
<1>1. GoodRow(row[c]) BY DEF CustomersInv, Rows
<1>2. GoodRow(x) /\ row[c].version <= x.version BY <1>1 DEF GoodRow, Row
<1>3. row' = [row EXCEPT ![c] = x] /\ UNCHANGED <<req, logged>> BY DEF AppointmentsChange
<1> HIDE DEF x
<1>4. Rows(row') /\ Grown /\ IsFiniteSet(Live')
  BY <1>2, <1>3, OneRow, StaysFinite DEF CustomersInv
<1>5. Requests(req', row') BY <1>3, <1>4, OldRequest DEF CustomersInv, Requests
<1> QED BY <1>3, <1>4, <1>5 DEF CustomersInv

LEMMA InvInit == CustomersInit => CustomersInv
<1> SUFFICES ASSUME CustomersInit PROVE CustomersInv OBVIOUS
<1>1. Live = {} BY DEF CustomersInit, Live, Free
<1> QED BY <1>1, FreeIsGood, IdleIsGood, FS_EmptySet
        DEF CustomersInit, CustomersInv, Rows, Requests, GoodRow

LEMMA InvNext == CustomersInv /\ [CustomersNext]_customerVars => CustomersInv'
<1> SUFFICES ASSUME CustomersInv, [CustomersNext]_customerVars PROVE CustomersInv' OBVIOUS
<1>1. CASE UNCHANGED customerVars
  <2>1. Rows(row') /\ Live' = Live /\ req' = req /\ logged' = logged /\ row' = row
    BY <1>1, SameRows DEF customerVars, CustomersInv
  <2> QED BY <2>1 DEF CustomersInv
<1>2. ASSUME NEW r \in Req, NEW user \in {"ADMIN", "SCHEDULING"},
             \/ \E body \in NewBodies : Create(r, user, body)
             \/ \E c \in Customer : OpenForm(r, user, c)
      PROVE  CustomersInv'
  BY <1>2, StepCreate, StepForms
<1>3. ASSUME NEW r \in Req, \E body \in Edits : Submit(r, body) PROVE CustomersInv'
  BY <1>3, StepSubmit
<1>4. ASSUME NEW r \in Req, ReadForSave(r) \/ Write(r) \/ Log(r) PROVE CustomersInv'
  BY <1>4, StepReadForSave, StepWrite, StepLog
<1>5. ASSUME NEW r \in Req, \E c \in Customer : ReadForToggle(r, c) \/ RemoveCustomer(r, c)
      PROVE  CustomersInv'
  BY <1>5, StepReadForToggle, StepRemove
<1>6. ASSUME NEW r \in Req, ConfirmRemoveAll(r) \/ CountAll(r) \/ DeleteAll(r)
      PROVE  CustomersInv'
  BY <1>6, StepConfirmRemoveAll, StepCountAll, StepDeleteAll
<1>7. ASSUME NEW r \in Req, (\E phone \in Phone : UrgentFind(r, phone)) \/ UrgentCommit(r)
      PROVE  CustomersInv'
  BY <1>7, StepUrgentFind, StepUrgentCommit
<1> QED
  BY <1>1, <1>2, <1>3, <1>4, <1>5, <1>6, <1>7, StepAppointments DEF CustomersNext

LEMMA AlwaysInv == CustomersSpec => []CustomersInv
BY InvInit, InvNext, PTL DEF CustomersSpec

-----------------------------------------------------------------------------
\* Every variable keeps its type.
THEOREM TypeCorrect == CustomersSpec => []CustomersTypeOK
<1>1. CustomersInv => CustomersTypeOK
  BY DEF CustomersInv, CustomersTypeOK, Rows, Requests
<1> QED BY <1>1, AlwaysInv, PTL

\* No interleaving of updates leaves half a previous service, nor one number
\* twice as long as edits carry both numbers or neither.
THEOREM RowsStaySound == BothNumbers => (CustomersSpec => []RowsAreSound)
<1> SUFFICES ASSUME BothNumbers PROVE CustomersSpec => []RowsAreSound OBVIOUS
<1>1. CustomersInv => PreviousServiceWhole
  BY DEF CustomersInv, Rows, GoodRow, PreviousServiceWhole, Whole
<1>2. CustomersInv => PhonesDiffer
  BY DEF CustomersInv, Rows, GoodRow, PhonesDiffer, Live
<1> QED BY <1>1, <1>2, AlwaysInv, PTL DEF RowsAreSound

\* A form overwrites nothing that was stored before it was sent and that it did
\* not show.
THEOREM FormsSeeEarlierEdits == CustomersSpec => FormSeesEarlierEdits
<1>1. CustomersInv /\ [CustomersNext]_customerVars =>
        [\A r \in Req :
           /\ req[r].step = "write" /\ req[r].op = "save" /\ req[r].body.versioned
           /\ req'[r].step = "log"
           => req[r].since <= req[r].seen.version /\ req[r].version >= req[r].since]_customerVars
  <2>1. ASSUME CustomersInv, NEW r \in Req,
               req[r].step = "write" /\ req[r].op = "save" /\ req[r].body.versioned
        PROVE  req[r].since <= req[r].seen.version /\ req[r].version >= req[r].since
    <3>1. GoodRequest(req[r], row) BY <2>1 DEF CustomersInv, Requests
    <3> QED BY <2>1, <3>1 DEF GoodRequest
  <2> QED BY <2>1
<1> QED BY <1>1, AlwaysInv, PTL DEF CustomersSpec, FormSeesEarlierEdits

-----------------------------------------------------------------------------
(* The audit log and the deletion of all customers.  A handler that has      *)
(* stored a version carries it to its audit row, alone or, for a deletion,   *)
(* as the batch it deleted; the batch of a transaction that will delete all  *)
(* customers is as large as the count the caller was shown.                  *)

Changed(c, v) == IF v = 0 THEN row[c].life = "deleted" ELSE v <= row[c].version
Recorded(c, v) ==
  \/ <<c, v>> \in logged
  \/ \E r \in Req : req[r].step = "log" /\ <<c, v>> \in Entries(req[r])

Batches(q) ==
  /\ q.step \in {"form", "read", "write", "find"} => q.batch = {}
  /\ q.step = "delete" => Cardinality(Doomed(q)) = q.expected

RecordInv ==
  /\ CustomersInv
  /\ \A r \in Req : Batches(req[r])
  /\ \A c \in Customer, v \in Nat : Changed(c, v) => Recorded(c, v)

\* One request moves: it stores at most what it goes on to log, and logs what
\* it leaves with.
LEMMA MovesOn ==
  ASSUME RecordInv, CustomersInv', NEW r \in Req, NEW q, Proceeds(r, q), Batches(q),
         logged \subseteq logged', req[r].step = "log" => Entries(req[r]) \subseteq logged',
         \A c \in Customer, v \in Nat :
           Changed(c, v)' => Changed(c, v) \/ (q.step = "log" /\ <<c, v>> \in Entries(q))
  PROVE  RecordInv'
<1>1. req \in [Req -> Request \cup {Idle}] /\ req' = [req EXCEPT ![r] = q]
  BY DEF RecordInv, CustomersInv, Requests, Proceeds
<1>2. req'[r] = q /\ \A s \in Req : s # r => req'[s] = req[s] BY <1>1
<1>3. \A s \in Req : Batches(req'[s]) BY <1>2 DEF RecordInv
<1>4. ASSUME NEW c \in Customer, NEW v \in Nat, Changed(c, v)' PROVE Recorded(c, v)'
  <2>1. CASE q.step = "log" /\ <<c, v>> \in Entries(q) BY <1>2, <2>1 DEF Recorded
  <2>2. CASE Changed(c, v)
    <3>1. Recorded(c, v) BY <2>2 DEF RecordInv
    <3>2. ASSUME NEW s \in Req, req[s].step = "log", <<c, v>> \in Entries(req[s])
          PROVE  Recorded(c, v)'
      <4>1. CASE s = r BY <3>2, <4>1 DEF Recorded
      <4>2. CASE s # r BY <1>2, <3>2, <4>2 DEF Recorded
      <4> QED BY <4>1, <4>2
    <3> QED BY <3>1, <3>2 DEF Recorded
  <2> QED BY <1>4, <2>1, <2>2
<1> QED BY <1>3, <1>4 DEF RecordInv

LEMMA IdleBatches == Batches(Idle)
BY DEF Batches, Idle

\* The stored row of one customer moves by the version that is logged next.
LEMMA OneVersion ==
  ASSUME RecordInv, CustomersInv', NEW r \in Req, req[r].step # "log", NEW q, Proceeds(r, q),
         UNCHANGED logged, q.step = "log", q.batch = {},
         NEW c \in Customer, NEW x, row' = [row EXCEPT ![c] = x], q.id = c,
         x.version = row[c].version + 1, q.version = x.version, x.life = "live"
  PROVE  RecordInv'
<1>1. row \in [Customer -> Row] /\ row[c].version \in Nat
  BY DEF RecordInv, CustomersInv, Rows, Row
<1>2. Batches(q) BY DEF Batches
<1>3. Entries(q) = {<<c, x.version>>} BY DEF Entries
<1>4. row'[c] = x /\ \A d \in Customer : d # c => row'[d] = row[d] BY <1>1
<1>5. ASSUME NEW d \in Customer, NEW v \in Nat, Changed(d, v)'
      PROVE  Changed(d, v) \/ (q.step = "log" /\ <<d, v>> \in Entries(q))
  <2>1. CASE d = c
    <3>1. v # 0 /\ v <= x.version BY <1>4, <1>5, <2>1 DEF Changed
    <3>2. v <= row[c].version \/ v = x.version BY <1>1, <3>1
    <3> QED BY <1>3, <2>1, <3>1, <3>2 DEF Changed
  <2>2. CASE d # c BY <1>4, <1>5, <2>2 DEF Changed
  <2> QED BY <2>1, <2>2
<1> QED BY <1>2, <1>5, MovesOn

\* A request that stores nothing.
LEMMA StoresNothing ==
  ASSUME RecordInv, CustomersInv', NEW r \in Req, req[r].step # "log", NEW q, Proceeds(r, q),
         UNCHANGED logged, Batches(q),
         \A c \in Customer : row'[c].life = row[c].life /\ row'[c].version = row[c].version
  PROVE  RecordInv'
<1>1. \A c \in Customer, v \in Nat : Changed(c, v)' => Changed(c, v)
  BY DEF Changed
<1> QED BY <1>1, MovesOn

LEMMA RecordInvNext == RecordInv /\ [CustomersNext]_customerVars => RecordInv'
<1> SUFFICES ASSUME RecordInv, [CustomersNext]_customerVars PROVE RecordInv' OBVIOUS
<1>0. CustomersInv /\ CustomersInv' BY InvNext DEF RecordInv
<1>1. CASE UNCHANGED customerVars
  BY <1>0, <1>1 DEF customerVars, RecordInv, Changed, Recorded
<1>2. ASSUME NEW r \in Req
      PROVE  /\ GoodRequest(req[r], row) /\ Batches(req[r])
             /\ req[r] # Idle => req[r] \in Request
             /\ Idle.step = "idle" /\ Idle.batch = {}
  BY <1>0 DEF RecordInv, CustomersInv, Requests, GoodRequest, Idle
<1>3. ASSUME NEW r \in Req, NEW user \in {"ADMIN", "SCHEDULING"}, NEW body \in NewBodies,
             Create(r, user, body)
      PROVE  RecordInv'
  <2> DEFINE x == NewRow(IF user = "ADMIN" THEN "no" ELSE "never", body)
             q(c) == [Idle EXCEPT !.step = "log", !.op = "create", !.user = user,
                                  !.id = c, !.version = 1]
  <2>1. PICK c \in Fresh : row' = [row EXCEPT ![c] = x] /\ Proceeds(r, q(c))
    BY <1>3 DEF Create
  <2>2. x.version = 1 /\ x.life = "live" BY DEF NewRow, Free
  <2>3. c \in Customer /\ row[c].version = 0 BY <1>0 DEF Fresh, CustomersInv, Rows, GoodRow
  <2>4. q(c).step = "log" /\ q(c).batch = {} /\ q(c).id = c /\ q(c).version = 1 BY DEF Idle
  <2>5. UNCHANGED logged /\ req[r].step # "log" BY <1>3 DEF Create, Idle
  <2>6. x.version = row[c].version + 1 /\ q(c).version = x.version BY <2>2, <2>3, <2>4
  <2> HIDE DEF x, q
  <2> QED BY <1>0, <2>1, <2>2, <2>3, <2>4, <2>5, <2>6, OneVersion
<1>4. ASSUME NEW r \in Req, NEW user \in {"ADMIN", "SCHEDULING"}, NEW c \in Customer,
             OpenForm(r, user, c)
      PROVE  RecordInv'
  <2> DEFINE q == [Idle EXCEPT !.step = "form", !.op = "save", !.user = user,
                               !.id = c, !.version = row[c].version]
  <2>1. Batches(q) BY DEF Batches, Idle
  <2>2. Proceeds(r, q) /\ UNCHANGED <<row, logged>> /\ req[r].step # "log"
    BY <1>4 DEF OpenForm, Idle
  <2> HIDE DEF q
  <2> QED BY <1>0, <2>1, <2>2, StoresNothing
<1>5. ASSUME NEW r \in Req, NEW body \in Edits, Submit(r, body) PROVE RecordInv'
  <2> DEFINE q == [req[r] EXCEPT !.step = "read", !.body = body,
                                 !.since = row[req[r].id].version]
  <2>1. req[r].step = "form" /\ UNCHANGED <<row, logged>> /\ (Proceeds(r, q) \/ Proceeds(r, Idle))
    BY <1>5 DEF Submit, Ends
  <2>2. Batches(q)
    <3>1. req[r] \in Request /\ req[r].batch = {} BY <1>2, <2>1 DEF Batches
    <3>2. q.step = "read" /\ q.batch = {} BY <3>1 DEF Request
    <3> QED BY <3>2 DEF Batches
  <2> HIDE DEF q
  <2> QED BY <1>0, <2>1, <2>2, IdleBatches, StoresNothing
<1>6. ASSUME NEW r \in Req, ReadForSave(r) PROVE RecordInv'
  <2> DEFINE q == [req[r] EXCEPT !.step = "write", !.seen = Used(row[req[r].id])]
  <2>1. req[r].step = "read" /\ UNCHANGED <<row, logged>> /\ (Proceeds(r, q) \/ Proceeds(r, Idle))
    BY <1>6 DEF ReadForSave, Ends
  <2>2. Batches(q)
    <3>1. req[r] \in Request /\ req[r].batch = {} BY <1>2, <2>1 DEF Batches
    <3>2. q.step = "write" /\ q.batch = {} BY <3>1 DEF Request
    <3> QED BY <3>2 DEF Batches
  <2> HIDE DEF q
  <2> QED BY <1>0, <2>1, <2>2, IdleBatches, StoresNothing
<1>7. ASSUME NEW r \in Req, NEW c \in Customer, ReadForToggle(r, c) PROVE RecordInv'
  <2> DEFINE q == [Idle EXCEPT !.step = "write", !.op = "toggle", !.user = "ADMIN",
                               !.id = c, !.seen = Used(row[c])]
  <2>1. Batches(q) BY DEF Batches, Idle
  <2>2. Proceeds(r, q) /\ UNCHANGED <<row, logged>> /\ req[r].step # "log"
    BY <1>7 DEF ReadForToggle, Idle
  <2> HIDE DEF q
  <2> QED BY <1>0, <2>1, <2>2, StoresNothing
<1>8. ASSUME NEW r \in Req, Write(r) PROVE RecordInv'
  <2> DEFINE p == req[r]
             x == row[p.id]
             y == IF p.op = "save" THEN Merged(x, p.body, p.seen) ELSE Toggled(x, p.seen)
             q == [p EXCEPT !.step = "log", !.version = x.version + 1]
  <2>1. /\ p.step = "write" /\ UNCHANGED logged
        /\ \/ p.id \in Live /\ row' = [row EXCEPT ![p.id] = y] /\ Proceeds(r, q)
           \/ Ends(r) /\ UNCHANGED row
    BY <1>8 DEF Write
  <2>2. p \in Request /\ p.batch = {} /\ p.id \in Customer
    BY <1>2, <2>1 DEF Batches, GoodRequest
  <2>3. x \in Row BY <1>0, <2>2 DEF CustomersInv, Rows
  <2>4. y.version = x.version + 1 /\ y.life = x.life
    <3> HIDE DEF x, p
    <3> QED BY <2>3 DEF Merged, Toggled, Row
  <2>5. q.step = "log" /\ q.batch = {} /\ q.id = p.id /\ q.version = x.version + 1
    BY <2>2 DEF Request
  <2>6. CASE p.id \in Live /\ row' = [row EXCEPT ![p.id] = y] /\ Proceeds(r, q)
    <3>1. y.life = "live" BY <2>4, <2>6 DEF Live
    <3>2. y.version = row[p.id].version + 1 /\ q.version = y.version /\ req[r].step # "log"
      BY <2>1, <2>4, <2>5
    <3> HIDE DEF x, y, q, p
    <3>3. q.step = "log" /\ q.batch = {} /\ q.id = p.id /\ p.id \in Customer /\ UNCHANGED logged
      BY <2>1, <2>2, <2>5
    <3>4. row' = [row EXCEPT ![p.id] = y] /\ Proceeds(r, q) BY <2>6
    <3> QED BY <1>0, <3>1, <3>2, <3>3, <3>4, OneVersion
  <2>7. CASE Ends(r) /\ UNCHANGED row
    BY <1>0, <2>1, <2>7, IdleBatches, StoresNothing DEF Ends
  <2> QED BY <2>1, <2>6, <2>7
<1>9. ASSUME NEW r \in Req, Log(r) PROVE RecordInv'
  <2>1. Proceeds(r, Idle) /\ logged' = logged \cup Entries(req[r]) /\ UNCHANGED row
    BY <1>9 DEF Log, Ends
  <2>2. \A c \in Customer, v \in Nat : Changed(c, v)' => Changed(c, v) BY <2>1 DEF Changed
  <2> QED BY <1>0, <2>1, <2>2, IdleBatches, MovesOn
<1>10. ASSUME NEW r \in Req, NEW c \in Customer, RemoveCustomer(r, c) PROVE RecordInv'
  <2> DEFINE q == [Idle EXCEPT !.step = "log", !.op = "remove", !.user = "ADMIN",
                               !.id = c, !.batch = {<<c, row[c].version>>}]
  <2>1. /\ Proceeds(r, q) /\ row' = [row EXCEPT ![c].life = "deleted"] /\ UNCHANGED logged
        /\ req[r].step # "log"
    BY <1>10 DEF RemoveCustomer, Idle
  <2>2. Batches(q) BY DEF Batches, Idle
  <2>3. q.step = "log" /\ q.batch = {<<c, row[c].version>>} BY DEF Idle
  <2>4. <<c, 0>> \in Entries(q) BY <2>3 DEF Entries
  <2>5. ASSUME NEW d \in Customer, NEW v \in Nat, Changed(d, v)'
        PROVE  Changed(d, v) \/ (q.step = "log" /\ <<d, v>> \in Entries(q))
    <3>1. row \in [Customer -> Row] BY <1>0 DEF CustomersInv, Rows
    <3>2. row'[d].version = row[d].version /\ (d # c => row'[d] = row[d]) BY <2>1, <3>1 DEF Row
    <3> HIDE DEF q
    <3> QED BY <2>3, <2>4, <2>5, <3>2 DEF Changed
  <2> HIDE DEF q
  <2> QED BY <1>0, <2>1, <2>2, <2>5, MovesOn
<1>11. ASSUME NEW r \in Req, ConfirmRemoveAll(r) PROVE RecordInv'
  <2> DEFINE q == [Idle EXCEPT !.step = "count", !.op = "removeAll", !.user = "ADMIN",
                               !.expected = Cardinality(Live)]
  <2>1. Batches(q) BY DEF Batches, Idle
  <2>2. Proceeds(r, q) /\ UNCHANGED <<row, logged>> /\ req[r].step # "log"
    BY <1>11 DEF ConfirmRemoveAll, Idle
  <2> HIDE DEF q
  <2> QED BY <1>0, <2>1, <2>2, StoresNothing
<1>12. ASSUME NEW r \in Req, CountAll(r) PROVE RecordInv'
  <2> DEFINE p == req[r]
             q == [p EXCEPT !.step = "delete", !.batch = {<<c, row[c].version>> : c \in Live}]
  <2>1. /\ p.step = "count" /\ UNCHANGED <<row, logged>>
        /\ \/ Cardinality(Live) = p.expected /\ Proceeds(r, q)
           \/ Proceeds(r, Idle)
    BY <1>12 DEF CountAll, CountMatches, Ends
  <2>2. p \in Request BY <1>2, <2>1
  <2>3. CASE Cardinality(Live) = p.expected /\ Proceeds(r, q)
    <3>1. q.step = "delete" /\ q.batch = {<<c, row[c].version>> : c \in Live}
          /\ q.expected = p.expected
      BY <2>2 DEF Request
    <3>2. Doomed(q) = Live
      <4>1. ASSUME NEW c \in Live PROVE \E m \in q.batch : m[1] = c
        <5>1. <<c, row[c].version>> \in q.batch BY <3>1
        <5>2. <<c, row[c].version>>[1] = c OBVIOUS
        <5> HIDE DEF q
        <5> QED BY <5>1, <5>2
      <4>2. \A m \in q.batch : m[1] \in Live BY <3>1
      <4> HIDE DEF q
      <4> QED BY <4>1, <4>2 DEF Doomed
    <3>3. Batches(q) BY <2>3, <3>1, <3>2 DEF Batches
    <3> HIDE DEF q
    <3> QED BY <1>0, <2>1, <2>3, <3>3, StoresNothing
  <2> QED BY <1>0, <2>1, <2>3, IdleBatches, StoresNothing
<1>13. ASSUME NEW r \in Req, DeleteAll(r) PROVE RecordInv'
  <2> DEFINE p == req[r]
             q == [p EXCEPT !.step = "log"]
  <2>1. /\ p.step = "delete" /\ UNCHANGED logged
        /\ \/ /\ row' = [c \in Customer |->
                           IF c \in Doomed(p) THEN [row[c] EXCEPT !.life = "deleted"] ELSE row[c]]
              /\ Proceeds(r, q)
           \/ Ends(r) /\ UNCHANGED row
    BY <1>13 DEF DeleteAll
  <2>2. p \in Request /\ p.batch # {} BY <1>2, <2>1 DEF GoodRequest
  <2>3. CASE /\ row' = [c \in Customer |->
                          IF c \in Doomed(p) THEN [row[c] EXCEPT !.life = "deleted"] ELSE row[c]]
             /\ Proceeds(r, q)
    <3>1. q.step = "log" /\ q.batch = p.batch BY <2>2 DEF Request
    <3>2. Batches(q) BY <3>1 DEF Batches
    <3>3. ASSUME NEW c \in Doomed(p) PROVE <<c, 0>> \in Entries(q)
      <4>1. \E m \in q.batch : c = m[1] BY <3>1, <3>3 DEF Doomed
      <4>2. Entries(q) = {<<m[1], 0>> : m \in q.batch} BY <2>2, <3>1 DEF Entries
      <4> HIDE DEF q
      <4> QED BY <4>1, <4>2
    <3>4. ASSUME NEW c \in Customer, NEW v \in Nat, Changed(c, v)'
          PROVE  Changed(c, v) \/ (q.step = "log" /\ <<c, v>> \in Entries(q))
      <4>1. row[c] \in Row BY <1>0 DEF CustomersInv, Rows
      <4>2. row'[c].version = row[c].version /\ (c \notin Doomed(p) => row'[c] = row[c])
        BY <2>3, <4>1 DEF Row
      <4> HIDE DEF q
      <4> QED BY <3>1, <3>3, <3>4, <4>2 DEF Changed
    <3> HIDE DEF q
    <3> QED BY <1>0, <2>1, <2>3, <3>2, <3>4, MovesOn
  <2>4. CASE Ends(r) /\ UNCHANGED row
    BY <1>0, <2>1, <2>4, IdleBatches, StoresNothing DEF Ends
  <2> QED BY <2>1, <2>3, <2>4
<1>14. ASSUME NEW r \in Req, NEW phone \in Phone, UrgentFind(r, phone) PROVE RecordInv'
  <2>1. PICK c : Proceeds(r, [Idle EXCEPT !.step = "find", !.op = "urgent", !.user = "ADMIN",
                                          !.id = c, !.body.phone = phone])
    BY <1>14 DEF UrgentFind
  <2> DEFINE q == [Idle EXCEPT !.step = "find", !.op = "urgent", !.user = "ADMIN",
                               !.id = c, !.body.phone = phone]
  <2>2. Batches(q) BY DEF Batches, Idle
  <2>3. Proceeds(r, q) /\ UNCHANGED <<row, logged>> /\ req[r].step # "log"
    BY <1>14, <2>1 DEF UrgentFind, Idle
  <2> HIDE DEF q
  <2> QED BY <1>0, <2>2, <2>3, StoresNothing
<1>15. ASSUME NEW r \in Req, UrgentCommit(r) PROVE RecordInv'
  <2> DEFINE p == req[r]
             x == NewRow("yes", p.body)
             q(c) == [p EXCEPT !.step = "log", !.id = c, !.version = 1]
  <2>1. p.step = "find" /\ UNCHANGED logged BY <1>15 DEF UrgentCommit
  <2>2. p \in Request /\ p.batch = {} BY <1>2, <2>1 DEF Batches
  <2>3. row \in [Customer -> Row] BY <1>0 DEF CustomersInv, Rows
  <2>4. ASSUME NEW c \in Fresh, row' = [row EXCEPT ![c] = x], Proceeds(r, q(c)) PROVE RecordInv'
    <3>1. x.version = 1 /\ x.life = "live" BY DEF NewRow, Free
    <3>2. c \in Customer /\ row[c].version = 0 BY <1>0 DEF Fresh, CustomersInv, Rows, GoodRow
    <3>3. q(c).step = "log" /\ q(c).batch = {} /\ q(c).id = c /\ q(c).version = 1
      BY <2>2, <3>2 DEF Request
    <3>4. x.version = row[c].version + 1 /\ q(c).version = x.version /\ req[r].step # "log"
      BY <2>1, <3>1, <3>2, <3>3
    <3> HIDE DEF x, q, p
    <3> QED BY <1>0, <2>1, <2>4, <3>1, <3>2, <3>3, <3>4, OneVersion
  <2>5. ASSUME Ends(r),
               row' \in {row, [row EXCEPT ![p.id].private = IF @ = "no" THEN "yes" ELSE @]}
        PROVE  RecordInv'
    <3>1. \A c \in Customer : row'[c].life = row[c].life /\ row'[c].version = row[c].version
      BY <2>3, <2>5 DEF Row
    <3> QED BY <1>0, <2>1, <2>5, <3>1, IdleBatches, StoresNothing DEF Ends
  <2> QED BY <1>15, <2>4, <2>5 DEF UrgentCommit
<1>16. ASSUME NEW c \in Customer, AppointmentsChange(c) PROVE RecordInv'
  <2>1. row \in [Customer -> Row] BY <1>0 DEF CustomersInv, Rows
  <2>2. UNCHANGED <<req, logged>> BY <1>16 DEF AppointmentsChange
  <2>3. \A d \in Customer : row'[d].life = row[d].life /\ row'[d].version = row[d].version
    BY <1>16, <2>1 DEF AppointmentsChange, Row
  <2> QED BY <1>0, <2>2, <2>3 DEF RecordInv, Changed, Recorded
<1> QED
  BY <1>1, <1>3, <1>4, <1>5, <1>6, <1>7, <1>8, <1>9, <1>10, <1>11, <1>12, <1>13, <1>14, <1>15,
     <1>16
  DEF CustomersNext

LEMMA AlwaysRecords == CustomersSpec => []RecordInv
<1>1. CustomersInit => RecordInv
  <2> SUFFICES ASSUME CustomersInit PROVE RecordInv OBVIOUS
  <2>1. \A c \in Customer : row[c].life = "free" /\ row[c].version = 0
    BY DEF CustomersInit, Free
  <2>2. \A c \in Customer, v \in Nat : ~Changed(c, v) BY <2>1 DEF Changed
  <2>3. \A r \in Req : Batches(req[r]) BY IdleBatches DEF CustomersInit
  <2> QED BY <2>2, <2>3, InvInit DEF RecordInv
<1> QED BY <1>1, RecordInvNext, PTL DEF CustomersSpec

\* Every version of a customer, and its deletion, is in the audit log or in the
\* hands of a handler that writes it next, whatever interleaves.
THEOREM ChangesStayLogged ==
  IsFiniteSet(Req) => (CustomersSpec => []ChangesAreLogged)
<1> SUFFICES ASSUME IsFiniteSet(Req) PROVE CustomersSpec => []ChangesAreLogged OBVIOUS
<1>1. Cardinality(Req) \in Nat BY FS_CardinalityType
<1>2. RecordInv => ChangesAreLogged
  <2>1. \A v \in 0 .. MaxVersion + Cardinality(Req) : v \in Nat BY <1>1, CustomersBound
  <2>2. RecordInv => \A c \in Customer, v \in Nat : Changed(c, v) => Recorded(c, v)
    BY DEF RecordInv
  <2> QED BY <2>1, <2>2 DEF Changed, Recorded, ChangesAreLogged
<1> QED BY <1>2, AlwaysRecords, PTL

\* Deleting all customers deletes exactly as many as the administrator was shown,
\* or none, whatever is created, edited or deleted meanwhile.
THEOREM RemovalsAreExact == CustomersSpec => RemoveAllIsExact
<1> DEFINE Exact(r) == req[r].step = "delete" /\ req'[r].step = "log"
                       => Cardinality(Live \ Live') = req[r].expected
<1>1. ASSUME RecordInv, CustomersNext, NEW r \in Req, req[r].step = "delete",
             req'[r].step = "log"
      PROVE  Cardinality(Live \ Live') = req[r].expected
  <2>1. req \in [Req -> Request \cup {Idle}] /\ Idle.step = "idle"
    BY <1>1 DEF RecordInv, CustomersInv, Requests, Idle
  <2>2. DeleteAll(r)
    <3>1. ASSUME NEW s \in Req, NEW q, Proceeds(s, q), req[s].step # "delete" PROVE FALSE
      BY <1>1, <2>1, <3>1 DEF Proceeds
    <3>2. ASSUME NEW s \in Req, NEW user, NEW body, Create(s, user, body) PROVE FALSE
      BY <3>1, <3>2, <2>1 DEF Create
    <3>3. ASSUME NEW s \in Req, NEW user, NEW c, OpenForm(s, user, c) PROVE FALSE
      BY <3>1, <3>3, <2>1 DEF OpenForm
    <3>4. ASSUME NEW s \in Req, NEW body, Submit(s, body) PROVE FALSE
      BY <3>1, <3>4 DEF Submit, Ends
    <3>5. ASSUME NEW s \in Req, ReadForSave(s) \/ Write(s) \/ Log(s) PROVE FALSE
      BY <3>1, <3>5 DEF ReadForSave, Write, Log, Ends
    <3>6. ASSUME NEW s \in Req, NEW c, ReadForToggle(s, c) \/ RemoveCustomer(s, c) PROVE FALSE
      BY <3>1, <3>6, <2>1 DEF ReadForToggle, RemoveCustomer
    <3>7. ASSUME NEW s \in Req, ConfirmRemoveAll(s) \/ CountAll(s) PROVE FALSE
      BY <3>1, <3>7, <2>1 DEF ConfirmRemoveAll, CountAll, Ends
    <3>8. ASSUME NEW s \in Req, NEW phone, UrgentFind(s, phone) PROVE FALSE
      BY <3>1, <3>8, <2>1 DEF UrgentFind
    <3>9. ASSUME NEW s \in Req, UrgentCommit(s) PROVE FALSE
      BY <3>1, <3>9 DEF UrgentCommit, Ends
    <3>10. ASSUME NEW c, AppointmentsChange(c) PROVE FALSE
      BY <1>1, <3>10 DEF AppointmentsChange
    <3>11. ASSUME NEW s \in Req, s # r, DeleteAll(s) PROVE FALSE
      BY <1>1, <2>1, <3>11 DEF DeleteAll, Ends, Proceeds
    <3> QED BY <1>1, <3>2, <3>3, <3>4, <3>5, <3>6, <3>7, <3>8, <3>9, <3>10, <3>11 DEF CustomersNext
  <2>3. /\ \A m \in req[r].batch : m[1] \in Live
        /\ row' = [c \in Customer |->
             IF c \in Doomed(req[r]) THEN [row[c] EXCEPT !.life = "deleted"] ELSE row[c]]
    BY <1>1, <2>1, <2>2 DEF DeleteAll, Ends, Proceeds
  <2>4. Doomed(req[r]) \subseteq Live BY <2>3 DEF Doomed
  <2>5. Live \ Live' = Doomed(req[r])
    <3>1. row \in [Customer -> Row] BY <1>1 DEF RecordInv, CustomersInv, Rows
    <3> QED BY <2>3, <2>4, <3>1 DEF Live, Row
  <2>6. Cardinality(Doomed(req[r])) = req[r].expected BY <1>1 DEF RecordInv, Batches
  <2> QED BY <2>5, <2>6
<1>2. RecordInv /\ [CustomersNext]_customerVars => [\A r \in Req : Exact(r)]_customerVars
  BY <1>1
<1> QED BY <1>2, AlwaysRecords, PTL DEF CustomersSpec, RemoveAllIsExact
===============================================================================
