-------------------------------- MODULE TechForms --------------------------------
(***************************************************************************)
(* The two forms a technician fills in: the record of an urgent visit      *)
(* (technician/pages/UrgentAppointments.tsx, POST /urgent-visits) and the  *)
(* completion of a job (technician/pages/TaskDetail.tsx, PATCH             *)
(* /appointments/:id/complete), each with the checks the backend repeats.  *)
(*                                                                         *)
(* A form can be closed while its request, or the compression of its       *)
(* photo, is under way.  Words (names, details, notes) are reduced to      *)
(* whether the required ones are well formed.                              *)
(***************************************************************************)
EXTENDS Naturals, FiniteSets

CONSTANTS
  Job,          \* urgent appointments of the technician's list
  NoJob,
  Amount,       \* amounts that are typed
  Empty,        \* an amount that is not typed, a group or a type not chosen
  MaxOpenings   \* bound: times a form is opened

ASSUME FormAssumption == NoJob \notin Job /\ Amount \subseteq Nat /\ Empty \notin Amount
                         /\ MaxOpenings \in Nat

VARIABLES
  \* the urgent page
  recordFor,    \* the job whose record form is open, or NoJob (submitModal)
  record,       \* the record form
  sending,      \* the POST under way
  stored,       \* per job: its UrgentVisitRecord
  \* the task page
  completing,   \* is the completion form open? (showComplete)
  form,         \* the completion form
  photo,        \* the opening the photo was picked in, or NoPhoto (completionImage)
  compressing,  \* the opening whose photo is being compressed (imageCompressing)
  patching,     \* the PATCH under way
  completed,    \* what the job was completed with
  \* both
  openings, refusals   \* openings so far; bodies the backend found invalid

recordVars == <<recordFor, record, sending, stored>>
taskVars == <<completing, form, photo, compressing, patching, completed>>
formVars == <<recordVars, taskVars, openings, refusals>>

ServiceType == {"INSTALLATION", "MAINTENANCE", "VISIT_ONLY"}
NoPhoto == 0
NotSent == [step |-> "none"]

\* EMPTY_RECORD, EMPTY_COMPLETE.
EmptyRecord ==
  [serviceType |-> "MAINTENANCE", group |-> "CASH", transfer |-> Empty, amount |-> Empty,
   words |-> TRUE]
EmptyComplete ==
  [group |-> "CASH", transfer |-> Empty, amount |-> Empty, words |-> FALSE, date |-> Empty]

FormsInit ==
  /\ recordFor = NoJob /\ record = EmptyRecord /\ sending = NotSent
  /\ stored = [j \in Job |-> NotSent]
  /\ completing = FALSE /\ form = EmptyComplete /\ photo = NoPhoto /\ compressing = NoPhoto
  /\ patching = NotSent /\ completed = NotSent
  /\ openings = 0 /\ refusals = {}

-----------------------------------------------------------------------------
(* What both forms and routes do. *)

\* resolvePaymentMethod of a group and a type.
Method(f) ==
  CASE f.group = "CASH" -> "CASH"
    [] f.group = "BANK_TRANSFER" /\ f.transfer = "COMMERCIAL" -> "BANK_TRANSFER_COMMERCIAL"
    [] f.group = "BANK_TRANSFER" /\ f.transfer = "PERSONAL" -> "BANK_TRANSFER_PERSONAL"
    [] OTHER -> "null"

\* selectPaymentGroup: the type is always cleared.
GroupChosen(f, group) == [f EXCEPT !.group = group, !.transfer = Empty]

OpenAForm == openings < MaxOpenings /\ openings' = openings + 1

-----------------------------------------------------------------------------
(* The record of an urgent visit. *)

\* A job that has a record is not offered the form.
OpenRecord(j) ==
  /\ recordFor = NoJob /\ stored[j] = NotSent
  /\ OpenAForm
  /\ recordFor' = j /\ record' = EmptyRecord
  /\ UNCHANGED <<sending, stored, taskVars, refusals>>

\* Cancel, or Escape.
CloseRecord ==
  /\ recordFor # NoJob
  /\ recordFor' = NoJob
  /\ UNCHANGED <<record, sending, stored, taskVars, openings, refusals>>

\* Fault: what was chosen before comes back with the service type.
TypeAlone(type) == [record EXCEPT !.serviceType = type]

\* selectServiceType: nothing chosen before survives Visit Only.
TypeChosen(type) ==
  CASE type = "VISIT_ONLY" ->
         [record EXCEPT !.serviceType = type, !.amount = 0, !.group = Empty, !.transfer = Empty]
    [] record.serviceType = "VISIT_ONLY" /\ type # "VISIT_ONLY" ->
         [record EXCEPT !.serviceType = type, !.amount = Empty, !.group = Empty, !.transfer = Empty]
    [] OTHER -> TypeAlone(type)

\* The fields that are shown.
FillRecord ==
  /\ recordFor # NoJob
  /\ \/ \E type \in ServiceType : record' = TypeChosen(type)
     \/ /\ record.serviceType # "VISIT_ONLY"
        /\ \/ \E group \in {"CASH", "BANK_TRANSFER"} : record' = GroupChosen(record, group)
           \/ /\ record.group = "BANK_TRANSFER"
              /\ \E type \in {"COMMERCIAL", "PERSONAL"} : record' = [record EXCEPT !.transfer = type]
           \/ \E a \in Amount \cup {Empty} : record' = [record EXCEPT !.amount = a]
     \/ record' = [record EXCEPT !.words = ~@]
  /\ UNCHANGED <<recordFor, sending, stored, taskVars, openings, refusals>>

\* Fault: a form without a payment method may be sent.
AmountOnly(r) == r.serviceType = "VISIT_ONLY" \/ r.amount # Empty

\* isRecordValid.
RecordValid(r) ==
  /\ r.words
  /\ r.serviceType = "VISIT_ONLY" \/ (Method(r) # "null" /\ r.amount # Empty)

\* handleSubmitRecord; the button waits for the request before it.
SubmitRecord ==
  /\ recordFor # NoJob /\ sending = NotSent
  /\ RecordValid(record)
  /\ sending' = [step |-> "sent", job |-> recordFor, words |-> record.words,
                 serviceType |-> record.serviceType,
                 method |-> IF record.serviceType = "VISIT_ONLY" THEN "null" ELSE Method(record),
                 amount |-> IF record.serviceType = "VISIT_ONLY" THEN 0 ELSE record.amount]
  /\ UNCHANGED <<recordFor, record, stored, taskVars, openings, refusals>>

\* visitSchema and the checks after it.
RecordAccepted(b) ==
  /\ b.words
  /\ b.serviceType # "VISIT_ONLY" => b.method # "null" /\ b.amount # Empty

\* normalizedAmount, normalizedPaymentMethod.
Normalized(b) ==
  [step |-> "stored", serviceType |-> b.serviceType,
   amount |-> IF b.serviceType = "VISIT_ONLY" THEN 0 ELSE b.amount,
   method |-> IF b.serviceType = "VISIT_ONLY" THEN "none" ELSE b.method]

\* POST /: the job has at most one record.
StoreRecord ==
  /\ sending.step = "sent"
  /\ CASE ~RecordAccepted(sending) ->
            /\ refusals' = refusals \cup {"record"}
            /\ sending' = [sending EXCEPT !.step = "refused"] /\ UNCHANGED stored
       [] RecordAccepted(sending) /\ stored[sending.job] # NotSent ->
            /\ sending' = [sending EXCEPT !.step = "refused"] /\ UNCHANGED <<stored, refusals>>
       [] OTHER ->
            /\ stored' = [stored EXCEPT ![sending.job] = Normalized(sending)]
            /\ sending' = [sending EXCEPT !.step = "saved"] /\ UNCHANGED refusals
  /\ UNCHANGED <<recordFor, record, taskVars, openings>>

\* onSuccess: whatever form is open by now is closed and emptied.
RecordSaved ==
  /\ sending.step = "saved"
  /\ sending' = NotSent /\ recordFor' = NoJob /\ record' = EmptyRecord
  /\ UNCHANGED <<stored, taskVars, openings, refusals>>

\* onError, a message: the answer is a refusal, or is lost whether or not the
\* record was stored.
RecordFails ==
  /\ sending # NotSent
  /\ sending' = NotSent
  /\ UNCHANGED <<recordFor, record, stored, taskVars, openings, refusals>>

-----------------------------------------------------------------------------
(* The completion of a job. *)

OpenCompletion ==
  /\ ~completing
  /\ OpenAForm
  /\ completing' = TRUE
  /\ UNCHANGED <<recordVars, form, photo, compressing, patching, completed, refusals>>

\* closeCompleteModal.
CloseCompletion ==
  /\ completing
  /\ completing' = FALSE /\ form' = EmptyComplete /\ photo' = NoPhoto
  /\ UNCHANGED <<recordVars, compressing, patching, completed, openings, refusals>>

FillCompletion ==
  /\ completing
  /\ \/ \E group \in {"CASH", "BANK_TRANSFER"} : form' = GroupChosen(form, group)
     \/ /\ form.group = "BANK_TRANSFER"
        /\ \E type \in {"COMMERCIAL", "PERSONAL"} : form' = [form EXCEPT !.transfer = type]
     \/ \E a \in Amount \cup {Empty} : form' = [form EXCEPT !.amount = a]
     \/ \E d \in {Empty, "past", "future"} : form' = [form EXCEPT !.date = d]
     \/ form' = [form EXCEPT !.words = ~@]
  /\ UNCHANGED <<recordVars, completing, photo, compressing, patching, completed,
                 openings, refusals>>

\* handleImageChange up to the await; no file takes the photo away.
PickPhoto ==
  /\ completing /\ compressing = NoPhoto
  /\ \/ compressing' = openings /\ UNCHANGED photo
     \/ photo' = NoPhoto /\ UNCHANGED compressing
  /\ UNCHANGED <<recordVars, completing, form, patching, completed, openings, refusals>>

\* After the await, or its failure.
Compressed ==
  /\ compressing # NoPhoto
  /\ compressing' = NoPhoto
  /\ photo' \in {compressing, photo}
  /\ UNCHANGED <<recordVars, completing, form, patching, completed, openings, refusals>>

\* isCompleteValid: nothing is said of the date but that it is there.
CompleteValid ==
  /\ form.words /\ form.amount # Empty /\ form.date # Empty
  /\ form.group = "CASH" \/ form.transfer # Empty

SubmitCompletion ==
  /\ completing /\ patching = NotSent
  /\ CompleteValid /\ compressing = NoPhoto
  /\ patching' = [step |-> "sent", method |-> Method(form), amount |-> form.amount,
                  words |-> form.words, date |-> form.date, photo |-> photo, opening |-> openings]
  /\ UNCHANGED <<recordVars, completing, form, photo, compressing, completed,
                 openings, refusals>>

\* The checks of PATCH /:id/complete for a technician.
CompletionAccepted(b) ==
  b.words /\ b.amount # Empty /\ b.method # "null" /\ b.date \notin {Empty, "future"}

StoreCompletion ==
  /\ patching.step = "sent"
  /\ IF CompletionAccepted(patching) /\ completed = NotSent
     THEN /\ completed' = patching /\ patching' = [patching EXCEPT !.step = "saved"]
          /\ UNCHANGED refusals
     ELSE /\ patching' = [patching EXCEPT !.step = "refused"] /\ UNCHANGED completed
          /\ refusals' = IF CompletionAccepted(patching) THEN refusals
                         ELSE refusals \cup {IF patching.date = "future" THEN "future" ELSE "completion"}
  /\ UNCHANGED <<recordVars, completing, form, photo, compressing, openings>>

\* onSuccess: the page is left, with all that was on it.
CompletionSaved ==
  /\ patching.step = "saved"
  /\ patching' = NotSent
  /\ completing' = FALSE /\ form' = EmptyComplete /\ photo' = NoPhoto /\ compressing' = NoPhoto
  /\ UNCHANGED <<recordVars, completed, openings, refusals>>

CompletionFails ==
  /\ patching # NotSent
  /\ patching' = NotSent
  /\ UNCHANGED <<recordVars, completing, form, photo, compressing, completed,
                 openings, refusals>>

RecordNext ==
  \/ \E j \in Job : OpenRecord(j)
  \/ CloseRecord \/ FillRecord \/ SubmitRecord \/ StoreRecord \/ RecordSaved \/ RecordFails
TaskNext ==
  \/ OpenCompletion \/ CloseCompletion \/ FillCompletion \/ PickPhoto \/ Compressed
  \/ SubmitCompletion \/ StoreCompletion \/ CompletionSaved \/ CompletionFails

FormsSpec == FormsInit /\ [][RecordNext \/ TaskNext]_formVars

-----------------------------------------------------------------------------
\* No choice outlives the field that shows it: a transfer type without its
\* group, a payment or an amount of an earlier choice under Visit Only, in
\* either form and in whatever order the choices are made (selectServiceType,
\* selectPaymentGroup).
NothingHiddenIsKept ==
  /\ \A f \in {record, form} : f.transfer # Empty => f.group = "BANK_TRANSFER"
  /\ record.serviceType = "VISIT_ONLY" => record.group = Empty /\ record.amount = 0

\* The backend finds no fault with a body that the form let through, except for
\* a date in the future, which the completion form only discourages
\* (isRecordValid, isCompleteValid against the two routes).
FormsCatchWhatBackendRefuses == refusals \subseteq {"future"}

\* A form in any state of editing holds what it shows, and sends what the
\* backend takes.
FormsAreSound == NothingHiddenIsKept /\ FormsCatchWhatBackendRefuses
=============================================================================
