----------------------------- MODULE RegistersProofs -----------------------------
(***************************************************************************)
(* Theorems about Settings, TechForms and AccessCodes, for any devices,    *)
(* jobs, pages and values.                                                 *)
(*                                                                         *)
(* Settings: unless saves have crossed, whatever is on its way (a timer, a *)
(* PUT, an answer, an announcement, a load) carries what was chosen last,  *)
(* so that once nothing is on its way, every open page shows it.           *)
(*                                                                         *)
(* Forms: in every state of editing they hold what they show, so that a    *)
(* body they let through is one the backend takes.  The check of the       *)
(* completion form looks at the transfer type alone; that it amounts to a  *)
(* payment method rests on a type never being kept without its group.      *)
(*                                                                         *)
(* Access codes: check and upsert are two steps, so what the check         *)
(* established has to last until the upsert: the invariant says that it    *)
(* does while nobody else's change is stored.                              *)
(***************************************************************************)
EXTENDS Settings, TechForms, AccessCodes, SequenceTheorems, TLAPS
-----------------------------------------------------------------------------
(* The settings of one user.                                                 *)

Settled == [Option -> Value]
Patch == [Option -> Value \cup {"unset"}]
Timer == {NoRequest} \cup [step : {"set"}, patch : Patch]
Load == {NoRequest, [step |-> "asked"]} \cup [step : {"read"}, settings : Settled]
PutType == [step : {"sent", "stored"}, patch : Patch]
           \cup [step : {"read"}, patch : Patch, settings : Settled]

SettingsTypeOK ==
  /\ row \in Settled /\ latest \in Settled
  /\ applied \in [Device -> Settled]
  /\ load \in [Device -> Load]
  /\ timer \in [Device -> Timer]
  /\ puts \in [Device -> SUBSET PutType]
  /\ updates \in [Device -> Seq(Settled)]
  /\ behind \in [Device -> {"aged", "missed", "no"}]

\* A value that is on its way to the row.
Sends(p, o) == p.step = "sent" /\ o \in Carried(p.patch)
OnItsWay(o) ==
  \/ \E d \in Device : Waiting(d, o)
  \/ \E d \in Device : \E p \in puts[d] : Sends(p, o)

\* What is stored will be announced.
AllAnnounced == \A d \in Device : \A p \in puts[d] : p.step = "sent"

OnePut ==
  \A d, e \in Device : \A p \in puts[d], q \in puts[e] : d = e /\ p = q
WaitingIsLatest ==
  \A d \in Device, o \in Option : Waiting(d, o) => timer[d].patch[o] = latest[o]
SentIsLatest ==
  \A o \in Option \ lost : (\A d \in Device : ~Waiting(d, o)) =>
    \A d \in Device : \A p \in puts[d] : Sends(p, o) => p.patch[o] = latest[o]
RowIsLatest == \A o \in Option \ lost : ~OnItsWay(o) => row[o] = latest[o]
ReadIsRow == \A d \in Device : \A p \in puts[d] : p.step = "read" => p.settings = row
NewsIsRow ==
  AllAnnounced => \A d \in Device : updates[d] # <<>> => updates[d][Len(updates[d])] = row
ShownIsRow ==
  AllAnnounced =>
    \A d \in Device : behind[d] = "no" /\ updates[d] = <<>> =>
      \A o \in Option \ lost : ~OnItsWay(o) => applied[d][o] = row[o]

SettledInv ==
  /\ OnePut /\ WaitingIsLatest /\ SentIsLatest /\ RowIsLatest
  /\ ReadIsRow /\ NewsIsRow /\ ShownIsRow

SettingsInv ==
  /\ SettingsTypeOK
  /\ ~crossed => SettledInv

LEMMA SettingsInitInv == SettingsInit => SettingsInv
<1> SUFFICES ASSUME SettingsInit PROVE SettingsInv OBVIOUS
<1>1. row \in Settled BY SettingsAssumption DEF SettingsInit, Settled
<1>2. SettingsTypeOK BY <1>1 DEF SettingsInit, SettingsTypeOK, Timer, Load
<1>3. /\ \A d \in Device : puts[d] = {} /\ timer[d] = NoRequest /\ updates[d] = <<>>
      /\ \A d \in Device : applied[d] = row
      /\ latest = row
  BY DEF SettingsInit
<1> QED
  BY <1>2, <1>3
  DEF SettingsInv, SettledInv, OnePut, WaitingIsLatest, SentIsLatest, RowIsLatest, ReadIsRow,
      NewsIsRow, ShownIsRow, Waiting

LEMMA OnlyIs ==
  ASSUME NEW option \in Option, NEW value \in Value
  PROVE  /\ Only(option, value) \in Patch
         /\ Only(option, value)[option] = value
         /\ \A o \in Option : o \in Carried(Only(option, value)) <=> o = option
BY SettingsAssumption DEF Only, Patch, Carried

LEMMA CoalescedIs ==
  ASSUME NEW patch \in Patch, row \in Settled
  PROVE  /\ Coalesced(patch) \in Settled
         /\ \A o \in Option :
              Coalesced(patch)[o] = IF o \in Carried(patch) THEN patch[o] ELSE row[o]
BY DEF Coalesced, Patch, Settled, Carried

LEMMA SettingsTypeNext == SettingsTypeOK /\ [SettingsNext]_settingsVars => SettingsTypeOK'
<1> SUFFICES ASSUME SettingsTypeOK, [SettingsNext]_settingsVars PROVE SettingsTypeOK' OBVIOUS
<1> USE DEF SettingsTypeOK
<1>1. CASE UNCHANGED settingsVars BY <1>1 DEF settingsVars
<1>2. ASSUME NEW d \in Device, Open(d) \/ Read(d) \/ LoadFails(d) \/ Leave(d) \/ RenderAgain(d)
      PROVE  SettingsTypeOK'
  <2>1. UNCHANGED <<row, latest, applied, timer, puts, updates>>
    BY <1>2 DEF Open, Read, LoadFails, Leave, RenderAgain, history
  <2>2. load' \in [Device -> Load]
    BY <1>2 DEF Open, Read, LoadFails, Leave, RenderAgain, Load
  <2>3. behind' \in [Device -> {"aged", "missed", "no"}]
    BY <1>2 DEF Open, Read, LoadFails, Leave, RenderAgain, history
  <2> QED BY <2>1, <2>2, <2>3
<1>3. ASSUME NEW d \in Device, Loaded(d) PROVE SettingsTypeOK'
  <2>1. load[d].settings \in Settled BY <1>3 DEF Loaded, Load, NoRequest
  <2> QED BY <1>3, <2>1 DEF Loaded, Replaced, Load
<1>4. ASSUME NEW d \in Device, NEW option \in Option, NEW value \in Value,
             Choose(d, option, value)
      PROVE  SettingsTypeOK'
  <2>1. Rearmed(d, Only(option, value)) \in Timer BY OnlyIs DEF Rearmed, Timer
  <2>2. /\ applied' \in [Device -> Settled] /\ latest' \in Settled
        /\ timer' \in [Device -> Timer]
    BY <1>4, <2>1 DEF Choose, Settled
  <2> QED BY <1>4, <2>2 DEF Choose
<1>5. ASSUME NEW d \in Device, Save(d) PROVE SettingsTypeOK'
  <2>1. [step |-> "sent", patch |-> timer[d].patch] \in PutType
    BY <1>5 DEF Save, Timer, PutType
  <2>2. timer' \in [Device -> Timer] BY <1>5 DEF Save, Timer
  <2>3. puts' \in [Device -> SUBSET PutType] BY <1>5, <2>1 DEF Save
  <2> QED BY <1>5, <2>2, <2>3 DEF Save
<1>6. ASSUME NEW d \in Device, HearUpdate(d) PROVE SettingsTypeOK'
  <2>1. Head(updates[d]) \in Settled /\ Tail(updates[d]) \in Seq(Settled) BY <1>6 DEF HearUpdate
  <2>2. updates' \in [Device -> Seq(Settled)] BY <1>6, <2>1 DEF HearUpdate
  <2>3. applied' \in [Device -> Settled] BY <1>6, <2>1 DEF HearUpdate, Replaced
  <2>4. behind' \in [Device -> {"aged", "missed", "no"}] BY <1>6 DEF HearUpdate
  <2> QED BY <1>6, <2>2, <2>3, <2>4 DEF HearUpdate
<1>7. ASSUME NEW d \in Device, NEW p \in puts[d],
             Put(d, p) \/ ReadBack(d, p) \/ PutFails(d, p)
      PROVE  SettingsTypeOK'
  <2>1. p \in PutType /\ p.patch \in Patch BY DEF PutType
  <2>2. row' \in Settled BY <1>7, <2>1, CoalescedIs DEF Put, ReadBack, PutFails
  <2>3. puts' \in [Device -> SUBSET PutType]
    <3>1. CASE Put(d, p)
      <4>1. [p EXCEPT !.step = "stored"] \in PutType BY <2>1, <3>1 DEF Put, PutType
      <4> QED BY <3>1, <4>1 DEF Put
    <3>2. CASE ReadBack(d, p)
      <4>1. [step |-> "read", patch |-> p.patch, settings |-> Announced(p)] \in PutType
        BY <2>1 DEF Announced, PutType
      <4> QED BY <3>2, <4>1 DEF ReadBack
    <3>3. CASE PutFails(d, p) BY <3>3 DEF PutFails
    <3> QED BY <1>7, <3>1, <3>2, <3>3
  <2> QED BY <1>7, <2>2, <2>3 DEF Put, ReadBack, PutFails, history
<1>8. ASSUME NEW d \in Device, NEW p \in puts[d], Emit(d, p) PROVE SettingsTypeOK'
  <2>1. p \in PutType /\ p.step = "read" BY <1>8 DEF Emit
  <2>2. p.settings \in Settled BY <2>1 DEF PutType
  <2>3. updates' \in [Device -> Seq(Settled)] BY <1>8, <2>2 DEF Emit
  <2> QED BY <1>8, <2>3 DEF Emit, history
<1> QED BY <1>1, <1>2, <1>3, <1>4, <1>5, <1>6, <1>7, <1>8 DEF SettingsNext

\* Steps that concern one page alone.
LEMMA PageSteps ==
  ASSUME SettingsTypeOK, SettledInv, UNCHANGED <<row, latest, lost, timer, puts, updates>>,
         \A d \in Device : behind'[d] = "no" =>
           (behind[d] = "no" /\ applied'[d] = applied[d]) \/ applied'[d] = row
  PROVE  SettledInv'
<1>1. \A d, o : Waiting(d, o)' <=> Waiting(d, o) BY DEF Waiting
<1>2. (\A o : OnItsWay(o)' <=> OnItsWay(o)) /\ (AllAnnounced' <=> AllAnnounced)
  BY <1>1 DEF OnItsWay, AllAnnounced
<1>3. OnePut' /\ WaitingIsLatest' /\ SentIsLatest' /\ RowIsLatest' /\ ReadIsRow'
  BY <1>1, <1>2 DEF SettledInv, OnePut, WaitingIsLatest, SentIsLatest, RowIsLatest, ReadIsRow
<1>4. NewsIsRow' /\ ShownIsRow' BY <1>1, <1>2 DEF SettledInv, NewsIsRow, ShownIsRow
<1> QED BY <1>3, <1>4 DEF SettledInv

LEMMA ChooseSettled ==
  ASSUME SettingsTypeOK, SettledInv, NEW d \in Device, NEW option \in Option, NEW value \in Value,
         Choose(d, option, value), ~crossed'
  PROVE  SettledInv'
<1> USE DEF SettingsTypeOK
<1>1. /\ UNCHANGED <<row, puts, updates, behind>>
      /\ applied' = [applied EXCEPT ![d][option] = value]
      /\ timer' = [timer EXCEPT ![d] = Rearmed(d, Only(option, value))]
      /\ latest' = [latest EXCEPT ![option] = value]
      /\ lost' = (lost \ {option})
             \cup (IF timer[d] = NoRequest THEN {} ELSE Carried(timer[d].patch) \ {option})
      /\ \A e \in Device \ {d} : ~Waiting(e, option)
  BY DEF Choose
<1>2. Waiting(d, option)' /\ timer'[d].patch[option] = value
  BY <1>1, OnlyIs DEF Rearmed, Waiting, NoRequest
<1>3. \A o \in Option \ {option} : ~Waiting(d, o)'
  BY <1>1, OnlyIs DEF Rearmed, Waiting, NoRequest
<1>4. \A e \in Device \ {d}, o \in Option :
        timer'[e] = timer[e] /\ (Waiting(e, o)' <=> Waiting(e, o))
  BY <1>1 DEF Waiting
<1>5. \A o \in Option \ {option} : o \notin lost' => o \notin lost /\ ~Waiting(d, o)
  BY <1>1 DEF Waiting
<1>6. \A o \in Option : latest'[o] = IF o = option THEN value ELSE latest[o]
  BY <1>1 DEF Settled
<1>7. \A e \in Device, o \in Option \ {option} : applied'[e][o] = applied[e][o]
  BY <1>1 DEF Settled
<1>8. WaitingIsLatest' BY <1>1, <1>2, <1>3, <1>4, <1>6 DEF SettledInv, WaitingIsLatest
<1>9. \A o \in Option : o \notin lost' /\ (\A e \in Device : ~Waiting(e, o)') =>
        o # option /\ o \notin lost /\ \A e \in Device : ~Waiting(e, o)
  BY <1>2, <1>4, <1>5
<1>10. SentIsLatest' BY <1>1, <1>6, <1>9 DEF SettledInv, SentIsLatest
<1>11. \A o \in Option : o \notin lost' /\ ~OnItsWay(o)' =>
         o # option /\ o \notin lost /\ ~OnItsWay(o)
  BY <1>1, <1>9 DEF OnItsWay
<1>12. RowIsLatest' BY <1>1, <1>6, <1>11 DEF SettledInv, RowIsLatest
<1>13. AllAnnounced' <=> AllAnnounced BY <1>1 DEF AllAnnounced
<1>14. ShownIsRow' BY <1>1, <1>7, <1>11, <1>13 DEF SettledInv, ShownIsRow
<1>15. OnePut' /\ ReadIsRow' /\ NewsIsRow'
  BY <1>1, <1>13 DEF SettledInv, OnePut, ReadIsRow, NewsIsRow
<1> QED BY <1>8, <1>10, <1>12, <1>14, <1>15 DEF SettledInv

LEMMA SaveSettled ==
  ASSUME SettingsTypeOK, SettledInv, NEW d \in Device, Save(d), ~crossed'
  PROVE  SettledInv'
<1> USE DEF SettingsTypeOK
<1> DEFINE new == [step |-> "sent", patch |-> timer[d].patch]
<1>1. /\ timer[d] # NoRequest /\ timer' = [timer EXCEPT ![d] = NoRequest]
      /\ \A e \in Device : puts[e] = {}
      /\ puts' = [puts EXCEPT ![d] = puts[d] \cup {new}]
      /\ UNCHANGED <<row, applied, updates, latest, lost, behind>>
  BY DEF Save
<1>2. \A e \in Device : puts'[e] = IF e = d THEN {new} ELSE {} BY <1>1
<1>3. \A o \in Option : Sends(new, o) <=> Waiting(d, o) BY <1>1 DEF Sends, Waiting
<1>4. \A o : ~Waiting(d, o)' BY <1>1 DEF Waiting
<1>5. \A e \in Device \ {d} : timer'[e] = timer[e] /\ \A o : Waiting(e, o)' <=> Waiting(e, o)
  BY <1>1 DEF Waiting
<1>6. \A o \in Option : OnItsWay(o) => OnItsWay(o)' BY <1>1, <1>2, <1>3, <1>5 DEF OnItsWay
<1>7. new.step = "sent" /\ new.patch = timer[d].patch OBVIOUS
<1> HIDE DEF new
<1>8. OnePut' BY <1>2 DEF OnePut
<1>9. WaitingIsLatest' BY <1>1, <1>4, <1>5 DEF SettledInv, WaitingIsLatest
<1>10. SentIsLatest'
  BY <1>1, <1>2, <1>3, <1>7 DEF SettledInv, SentIsLatest, WaitingIsLatest
<1>11. RowIsLatest' BY <1>1, <1>6 DEF SettledInv, RowIsLatest
<1>12. AllAnnounced BY <1>1 DEF AllAnnounced
<1>13. ShownIsRow' BY <1>1, <1>6, <1>12 DEF SettledInv, ShownIsRow
<1>14. ReadIsRow' /\ NewsIsRow' BY <1>1, <1>2, <1>7, <1>12 DEF SettledInv, ReadIsRow, NewsIsRow
<1> QED BY <1>8, <1>9, <1>10, <1>11, <1>13, <1>14 DEF SettledInv

LEMMA LastOfTail ==
  ASSUME NEW S, NEW s \in Seq(S), s # <<>>
  PROVE  /\ Tail(s) # <<>> => Tail(s)[Len(Tail(s))] = s[Len(s)]
         /\ Tail(s) = <<>> => Head(s) = s[Len(s)]
<1>1. /\ Tail(s) \in Seq(S) /\ Len(s) \in Nat \ {0}
      /\ \A i \in 1 .. Len(Tail(s)) : Tail(s)[i] = s[i + 1]
  BY HeadTailProperties, EmptySeq
<1>2. Len(Tail(s)) = Len(s) - 1 BY HeadTailProperties
<1>3. CASE Tail(s) = <<>>
  <2>1. Len(Tail(s)) = 0 BY <1>3, EmptySeq
  <2>2. \A n \in Nat : n - 1 = 0 => n = 1 OBVIOUS
  <2>3. Len(s) = 1 BY <1>1, <1>2, <2>1, <2>2
  <2> QED BY <1>3, <2>3
<1>4. CASE Tail(s) # <<>>
  <2>1. Len(Tail(s)) \in Nat \ {0} BY <1>1, <1>4, EmptySeq
  <2>2. Len(Tail(s)) \in 1 .. Len(Tail(s)) /\ Len(Tail(s)) + 1 = Len(s) BY <1>1, <1>2, <2>1
  <2> QED BY <1>1, <1>4, <2>2
<1> QED BY <1>3, <1>4

LEMMA HearSettled ==
  ASSUME SettingsTypeOK, SettledInv, NEW d \in Device, HearUpdate(d)
  PROVE  SettledInv'
<1>1. /\ updates[d] # <<>> /\ updates' = [updates EXCEPT ![d] = Tail(updates[d])]
      /\ UNCHANGED <<row, timer, puts, latest, lost>>
      /\ IF hearing[d] THEN applied' = [applied EXCEPT ![d] = Head(updates[d])]
         ELSE applied' = applied
      /\ \A e \in Device \ {d} : behind'[e] = behind[e]
      /\ ~hearing[d] => behind'[d] # "no"
  BY DEF HearUpdate, Replaced, SettingsTypeOK
<1>2. \A e, o : Waiting(e, o)' <=> Waiting(e, o) BY <1>1 DEF Waiting
<1>3. (\A o : OnItsWay(o)' <=> OnItsWay(o)) /\ (AllAnnounced' <=> AllAnnounced)
  BY <1>1, <1>2 DEF OnItsWay, AllAnnounced
<1>4. OnePut' /\ WaitingIsLatest' /\ SentIsLatest' /\ RowIsLatest' /\ ReadIsRow'
  BY <1>1, <1>2, <1>3 DEF SettledInv, OnePut, WaitingIsLatest, SentIsLatest, RowIsLatest, ReadIsRow
<1>5. /\ Tail(updates[d]) # <<>> =>
             Tail(updates[d])[Len(Tail(updates[d]))] = updates[d][Len(updates[d])]
      /\ Tail(updates[d]) = <<>> => Head(updates[d]) = updates[d][Len(updates[d])]
  BY <1>1, LastOfTail DEF SettingsTypeOK
<1>6. NewsIsRow' BY <1>1, <1>3, <1>5 DEF SettledInv, NewsIsRow, SettingsTypeOK
<1>7. ShownIsRow'
  <2> USE DEF SettingsTypeOK
  <2> SUFFICES ASSUME AllAnnounced, NEW e \in Device, behind'[e] = "no", updates'[e] = <<>>,
                      NEW o \in Option \ lost, ~OnItsWay(o)
               PROVE  applied'[e][o] = row[o]
    BY <1>1, <1>3 DEF ShownIsRow
  <2>1. CASE e = d
    <3>1. Head(updates[d]) = row BY <1>1, <1>5, <2>1 DEF SettledInv, NewsIsRow
    <3> QED BY <1>1, <2>1, <3>1
  <2>2. CASE e # d BY <1>1, <2>2 DEF SettledInv, ShownIsRow
  <2> QED BY <2>1, <2>2
<1> QED BY <1>4, <1>6, <1>7 DEF SettledInv

LEMMA PutSettled ==
  ASSUME SettingsTypeOK, SettledInv, NEW d \in Device, NEW p \in puts[d], Put(d, p)
  PROVE  SettledInv'
<1> USE DEF SettingsTypeOK
<1> DEFINE new == [p EXCEPT !.step = "stored"]
<1>1. /\ p.step = "sent" /\ row' = Coalesced(p.patch)
      /\ puts' = [puts EXCEPT ![d] = (puts[d] \ {p}) \cup {new}]
      /\ UNCHANGED <<applied, timer, updates, latest, lost, behind>>
  BY DEF Put
<1>2. p \in PutType /\ p.patch \in Patch BY DEF PutType
<1>3. new.step = "stored" BY <1>2 DEF PutType
<1> HIDE DEF new
<1>4. \A e \in Device : puts[e] = IF e = d THEN {p} ELSE {} BY DEF SettledInv, OnePut
<1>5. \A e \in Device : puts'[e] = IF e = d THEN {new} ELSE {} BY <1>1, <1>4
<1>6. \A e, o : Waiting(e, o)' <=> Waiting(e, o) BY <1>1 DEF Waiting
<1>7. ~AllAnnounced' BY <1>3, <1>5 DEF AllAnnounced
<1>8. OnePut' /\ ReadIsRow' BY <1>3, <1>5 DEF OnePut, ReadIsRow
<1>9. WaitingIsLatest' BY <1>1, <1>6 DEF SettledInv, WaitingIsLatest
<1>10. SentIsLatest' BY <1>3, <1>5 DEF SentIsLatest, Sends
<1>11. RowIsLatest'
  <2> SUFFICES ASSUME NEW o \in Option \ lost, \A e \in Device : ~Waiting(e, o)
               PROVE  row'[o] = latest[o]
    BY <1>1, <1>6 DEF RowIsLatest, OnItsWay
  <2>1. row'[o] = IF o \in Carried(p.patch) THEN p.patch[o] ELSE row[o] BY <1>1, <1>2, CoalescedIs
  <2>2. CASE o \in Carried(p.patch) BY <1>1, <2>1, <2>2 DEF SettledInv, SentIsLatest, Sends
  <2>3. CASE o \notin Carried(p.patch)
    <3>1. ~OnItsWay(o) BY <1>4, <2>3 DEF OnItsWay, Sends
    <3> QED BY <2>1, <2>3, <3>1 DEF SettledInv, RowIsLatest
  <2> QED BY <2>2, <2>3
<1> QED BY <1>7, <1>8, <1>9, <1>10, <1>11 DEF SettledInv, NewsIsRow, ShownIsRow

LEMMA ReadBackSettled ==
  ASSUME SettingsTypeOK, SettledInv, NEW d \in Device, NEW p \in puts[d], ReadBack(d, p)
  PROVE  SettledInv'
<1> USE DEF SettingsTypeOK
<1> DEFINE new == [step |-> "read", patch |-> p.patch, settings |-> row]
<1>1. /\ p.step = "stored" /\ puts' = [puts EXCEPT ![d] = (puts[d] \ {p}) \cup {new}]
      /\ UNCHANGED <<row, applied, timer, updates, latest, lost, behind>>
  BY DEF ReadBack, Announced, history
<1>2. new.step = "read" /\ new.settings = row OBVIOUS
<1> HIDE DEF new
<1>3. \A e \in Device : puts[e] = IF e = d THEN {p} ELSE {} BY DEF SettledInv, OnePut
<1>4. \A e \in Device : puts'[e] = IF e = d THEN {new} ELSE {} BY <1>1, <1>3
<1>5. \A e, o : Waiting(e, o)' <=> Waiting(e, o) BY <1>1 DEF Waiting
<1>6. \A o : OnItsWay(o)' <=> OnItsWay(o) BY <1>1, <1>2, <1>3, <1>4, <1>5 DEF OnItsWay, Sends
<1>7. ~AllAnnounced' BY <1>2, <1>4 DEF AllAnnounced
<1>8. OnePut' /\ ReadIsRow' BY <1>1, <1>2, <1>4 DEF OnePut, ReadIsRow
<1>9. WaitingIsLatest' /\ RowIsLatest'
  BY <1>1, <1>5, <1>6 DEF SettledInv, WaitingIsLatest, RowIsLatest
<1>10. SentIsLatest' BY <1>2, <1>4 DEF SentIsLatest, Sends
<1> QED BY <1>7, <1>8, <1>9, <1>10 DEF SettledInv, NewsIsRow, ShownIsRow

LEMMA EmitSettled ==
  ASSUME SettingsTypeOK, SettledInv, NEW d \in Device, NEW p \in puts[d], Emit(d, p)
  PROVE  SettledInv'
<1> USE DEF SettingsTypeOK
<1>1. /\ p.step = "read" /\ puts' = [puts EXCEPT ![d] = puts[d] \ {p}]
      /\ updates' = [e \in Device |-> Append(updates[e], p.settings)]
      /\ UNCHANGED <<row, applied, timer, latest, lost, behind>>
  BY DEF Emit, history
<1>2. p.settings = row BY <1>1 DEF SettledInv, ReadIsRow
<1>3. \A e \in Device : puts[e] = IF e = d THEN {p} ELSE {} BY DEF SettledInv, OnePut
<1>4. \A e \in Device : puts'[e] = {} BY <1>1, <1>3
<1>5. \A e, o : Waiting(e, o)' <=> Waiting(e, o) BY <1>1 DEF Waiting
<1>6. \A o : OnItsWay(o)' <=> OnItsWay(o) BY <1>1, <1>3, <1>4, <1>5 DEF OnItsWay, Sends
<1>7. \A e \in Device : updates'[e] # <<>> /\ updates'[e][Len(updates'[e])] = row
  <2> TAKE e \in Device
  <2>1. updates[e] \in Seq(Settled) /\ updates'[e] = Append(updates[e], row) /\ row \in Settled
    BY <1>1, <1>2
  <2> QED BY <2>1, AppendProperties
<1>8. OnePut' /\ ReadIsRow' /\ SentIsLatest' BY <1>4 DEF OnePut, ReadIsRow, SentIsLatest
<1>9. WaitingIsLatest' /\ RowIsLatest'
  BY <1>1, <1>5, <1>6 DEF SettledInv, WaitingIsLatest, RowIsLatest
<1> QED BY <1>1, <1>7, <1>8, <1>9 DEF SettledInv, NewsIsRow, ShownIsRow

LEMMA PutFailsSettled ==
  ASSUME SettingsTypeOK, SettledInv, NEW d \in Device, NEW p \in puts[d], PutFails(d, p)
  PROVE  SettledInv'
<1> USE DEF SettingsTypeOK
<1>1. /\ p.step = "sent" /\ puts' = [puts EXCEPT ![d] = puts[d] \ {p}]
      /\ lost' = lost \cup Carried(p.patch)
      /\ UNCHANGED <<row, applied, timer, updates, latest, behind>>
  BY DEF PutFails
<1>2. \A e \in Device : puts[e] = IF e = d THEN {p} ELSE {} BY DEF SettledInv, OnePut
<1>3. \A e \in Device : puts'[e] = {} BY <1>1, <1>2
<1>4. \A e, o : Waiting(e, o)' <=> Waiting(e, o) BY <1>1 DEF Waiting
<1>5. \A o : o \notin lost' /\ ~OnItsWay(o)' => o \notin lost /\ ~OnItsWay(o)
  BY <1>1, <1>2, <1>4 DEF OnItsWay, Sends
<1>6. AllAnnounced BY <1>1, <1>2 DEF AllAnnounced
<1>7. OnePut' /\ ReadIsRow' /\ SentIsLatest' BY <1>3 DEF OnePut, ReadIsRow, SentIsLatest
<1>8. WaitingIsLatest' /\ RowIsLatest'
  BY <1>1, <1>4, <1>5 DEF SettledInv, WaitingIsLatest, RowIsLatest
<1>9. NewsIsRow' /\ ShownIsRow' BY <1>1, <1>5, <1>6 DEF SettledInv, NewsIsRow, ShownIsRow
<1> QED BY <1>7, <1>8, <1>9 DEF SettledInv

LEMMA SettingsNextInv == SettingsInv /\ [SettingsNext]_settingsVars => SettingsInv'
<1> SUFFICES ASSUME SettingsInv, [SettingsNext]_settingsVars PROVE SettingsInv' OBVIOUS
<1>1. SettingsTypeOK /\ SettingsTypeOK' BY SettingsTypeNext DEF SettingsInv
<1> SUFFICES ASSUME ~crossed' PROVE SettledInv' BY <1>1 DEF SettingsInv
<1>2. ~crossed /\ SettledInv
  <2>1. crossed => crossed'
    BY DEF SettingsNext, settingsVars, Open, Read, Loaded, LoadFails, Leave, RenderAgain, Choose,
           Save, HearUpdate, Put, ReadBack, Emit, PutFails, history
  <2> QED BY <2>1 DEF SettingsInv
<1>3. CASE UNCHANGED settingsVars BY <1>1, <1>2, <1>3, PageSteps DEF settingsVars
<1>4. ASSUME NEW d \in Device,
             Open(d) \/ Read(d) \/ Loaded(d) \/ LoadFails(d) \/ Leave(d) \/ RenderAgain(d)
      PROVE  SettledInv'
  <2>1. UNCHANGED <<row, latest, lost, timer, puts, updates>>
    BY <1>4 DEF Open, Read, Loaded, LoadFails, Leave, RenderAgain, history
  <2>2. \A e \in Device : behind'[e] = "no" =>
          (behind[e] = "no" /\ applied'[e] = applied[e]) \/ applied'[e] = row
    BY <1>1, <1>4
    DEF SettingsTypeOK, Open, Read, Loaded, LoadFails, Leave, RenderAgain, Replaced, history
  <2> QED BY <1>1, <1>2, <2>1, <2>2, PageSteps
<1>5. ASSUME NEW d \in Device, NEW option \in Option, NEW value \in Value,
             Choose(d, option, value)
      PROVE  SettledInv'
  BY <1>1, <1>2, <1>5, ChooseSettled
<1>6. ASSUME NEW d \in Device, Save(d) \/ HearUpdate(d) PROVE SettledInv'
  BY <1>1, <1>2, <1>6, SaveSettled, HearSettled
<1>7. ASSUME NEW d \in Device, NEW p \in puts[d],
             Put(d, p) \/ ReadBack(d, p) \/ Emit(d, p) \/ PutFails(d, p)
      PROVE  SettledInv'
  BY <1>1, <1>2, <1>7, PutSettled, ReadBackSettled, EmitSettled, PutFailsSettled
<1> QED BY <1>3, <1>4, <1>5, <1>6, <1>7 DEF SettingsNext

\* Once the traffic is over, what was chosen, what is stored and what is shown
\* are the same, for any devices, options and values (SettingsPage.tsx's save
\* and onUpdated, emitToUser): unless two PUTs were under way together, or two
\* devices waited with the same option.
THEOREM ChoicesSettle == SettingsSpec => []SettingsSettle
<1>1. SettingsInv => SettingsSettle
  <2> SUFFICES ASSUME SettingsInv, AtRest, ~crossed PROVE SettingsSettle
    BY DEF SettingsSettle, ListenersConverge, LastChoiceIsStored
  <2>1. AllAnnounced /\ \A o \in Option : ~OnItsWay(o)
    BY DEF AtRest, AllAnnounced, OnItsWay, Waiting
  <2> QED
    BY <2>1
    DEF SettingsInv, SettledInv, RowIsLatest, ShownIsRow, AtRest, SettingsSettle,
        ListenersConverge, LastChoiceIsStored
<1> QED BY <1>1, SettingsInitInv, SettingsNextInv, PTL DEF SettingsSpec

-----------------------------------------------------------------------------
(* The forms of a technician.                                                *)

Transfer == {"COMMERCIAL", "PERSONAL"}

RecordType ==
  [serviceType : ServiceType, group : {"CASH", "BANK_TRANSFER", Empty},
   transfer : Transfer \cup {Empty}, amount : Amount \cup {Empty, 0}, words : BOOLEAN]

CompleteType ==
  [group : {"CASH", "BANK_TRANSFER"}, transfer : Transfer \cup {Empty},
   amount : Amount \cup {Empty}, words : BOOLEAN, date : {Empty, "past", "future"}]

FormsTypeOK == record \in RecordType /\ form \in CompleteType

\* The record form, and the completion form, hold nothing they do not show.
RecordShown(r) ==
  /\ r.transfer # Empty => r.group = "BANK_TRANSFER"
  /\ r.serviceType = "VISIT_ONLY" => r.group = Empty /\ r.amount = 0
CompletionShown(f) == f.transfer # Empty => f.group = "BANK_TRANSFER"

\* What is on its way was valid when it was sent, and stays so.
BodiesAreValid ==
  /\ "step" \in DOMAIN sending /\ "step" \in DOMAIN patching
  /\ sending.step = "sent" => RecordAccepted(sending)
  /\ patching.step = "sent" => CompletionAccepted(patching) \/ patching.date = "future"

FormsInv ==
  /\ FormsTypeOK
  /\ RecordShown(record) /\ CompletionShown(form)
  /\ BodiesAreValid
  /\ FormsCatchWhatBackendRefuses

LEMMA EmptyForms ==
  /\ EmptyRecord \in RecordType /\ RecordShown(EmptyRecord)
  /\ EmptyComplete \in CompleteType /\ CompletionShown(EmptyComplete)
BY DEF EmptyRecord, EmptyComplete, RecordType, CompleteType, RecordShown, CompletionShown,
       ServiceType

LEMMA FormsInitInv == FormsInit => FormsInv
BY EmptyForms
DEF FormsInit, FormsInv, FormsTypeOK, BodiesAreValid, NotSent, FormsCatchWhatBackendRefuses

\* A choice of the service type clears what it hides.
LEMMA TypeClears ==
  ASSUME NEW type \in ServiceType, record \in RecordType, RecordShown(record)
  PROVE  TypeChosen(type) \in RecordType /\ RecordShown(TypeChosen(type))
<1> DEFINE visit == [record EXCEPT !.serviceType = type, !.amount = 0,
                                   !.group = Empty, !.transfer = Empty]
           other == [record EXCEPT !.serviceType = type, !.amount = Empty,
                                   !.group = Empty, !.transfer = Empty]
           alone == [record EXCEPT !.serviceType = type]
<1>1. visit \in RecordType /\ RecordShown(visit) BY DEF RecordType, RecordShown
<1>2. other \in RecordType /\ (type # "VISIT_ONLY" => RecordShown(other))
  BY DEF RecordType, RecordShown
<1>3. /\ alone \in RecordType
      /\ type # "VISIT_ONLY" /\ record.serviceType # "VISIT_ONLY" => RecordShown(alone)
  BY DEF RecordType, RecordShown
<1>4. TypeChosen(type) = IF type = "VISIT_ONLY" THEN visit
                         ELSE IF record.serviceType = "VISIT_ONLY" THEN other ELSE alone
  BY DEF TypeChosen, TypeAlone
<1> QED
  <2> HIDE DEF visit, other, alone
  <2> QED BY <1>1, <1>2, <1>3, <1>4

\* So does a choice of the payment group, in either form.
LEMMA GroupClears ==
  ASSUME NEW group \in {"CASH", "BANK_TRANSFER"}
  PROVE  /\ record \in RecordType /\ record.serviceType # "VISIT_ONLY" =>
              GroupChosen(record, group) \in RecordType /\ RecordShown(GroupChosen(record, group))
         /\ form \in CompleteType =>
              GroupChosen(form, group) \in CompleteType /\ CompletionShown(GroupChosen(form, group))
BY DEF GroupChosen, RecordType, CompleteType, RecordShown, CompletionShown

LEMMA FilledRecord ==
  ASSUME record \in RecordType, RecordShown(record), FillRecord
  PROVE  record' \in RecordType /\ RecordShown(record')
<1>1. CASE \E type \in ServiceType : record' = TypeChosen(type)
  BY <1>1, TypeClears
<1>2. CASE /\ record.serviceType # "VISIT_ONLY"
           /\ \E group \in {"CASH", "BANK_TRANSFER"} : record' = GroupChosen(record, group)
  BY <1>2, GroupClears
<1>3. CASE /\ record.serviceType # "VISIT_ONLY" /\ record.group = "BANK_TRANSFER"
           /\ \E type \in Transfer : record' = [record EXCEPT !.transfer = type]
  BY <1>3 DEF RecordType, RecordShown
<1>4. CASE /\ record.serviceType # "VISIT_ONLY"
           /\ \E a \in Amount \cup {Empty} : record' = [record EXCEPT !.amount = a]
  BY <1>4 DEF RecordType, RecordShown
<1>5. CASE record' = [record EXCEPT !.words = ~@]
  BY <1>5 DEF RecordType, RecordShown
<1> QED BY <1>1, <1>2, <1>3, <1>4, <1>5 DEF FillRecord, Transfer

LEMMA FilledCompletion ==
  ASSUME form \in CompleteType, CompletionShown(form), FillCompletion
  PROVE  form' \in CompleteType /\ CompletionShown(form')
<1>1. CASE \E group \in {"CASH", "BANK_TRANSFER"} : form' = GroupChosen(form, group)
  BY <1>1, GroupClears
<1>2. CASE /\ form.group = "BANK_TRANSFER"
           /\ \E type \in Transfer : form' = [form EXCEPT !.transfer = type]
  BY <1>2 DEF CompleteType, CompletionShown
<1>3. CASE \E a \in Amount \cup {Empty} : form' = [form EXCEPT !.amount = a]
  BY <1>3 DEF CompleteType, CompletionShown
<1>4. CASE \E d \in {Empty, "past", "future"} : form' = [form EXCEPT !.date = d]
  BY <1>4 DEF CompleteType, CompletionShown
<1>5. CASE form' = [form EXCEPT !.words = ~@]
  BY <1>5 DEF CompleteType, CompletionShown
<1> QED BY <1>1, <1>2, <1>3, <1>4, <1>5 DEF FillCompletion, Transfer

\* What the forms let through: a record with a payment method, or none to make;
\* a completion with everything but, perhaps, a date that has come.
LEMMA SubmittedRecord ==
  ASSUME SubmitRecord PROVE sending'.step = "sent" => RecordAccepted(sending')
BY DEF SubmitRecord, RecordValid, RecordAccepted

LEMMA SubmittedCompletion ==
  ASSUME form \in CompleteType, CompletionShown(form), SubmitCompletion
  PROVE  CompletionAccepted(patching') \/ patching'.date = "future"
<1>1. form.group = "CASH" \/ (form.group = "BANK_TRANSFER" /\ form.transfer \in Transfer)
  BY DEF SubmitCompletion, CompleteValid, CompleteType, CompletionShown
<1>2. Method(form) # "null" BY <1>1 DEF Method, Transfer
<1>3. /\ patching'.words = form.words /\ patching'.amount = form.amount
      /\ patching'.method = Method(form) /\ patching'.date = form.date
  BY DEF SubmitCompletion
<1>4. form.words /\ form.amount # Empty /\ form.date # Empty BY DEF SubmitCompletion, CompleteValid
<1> QED BY <1>2, <1>3, <1>4 DEF CompletionAccepted

LEMMA FormsNextInv == FormsInv /\ [RecordNext \/ TaskNext]_formVars => FormsInv'
<1> SUFFICES ASSUME FormsInv, [RecordNext \/ TaskNext]_formVars PROVE FormsInv' OBVIOUS
<1> USE DEF FormsInv
<1>1. FormsTypeOK' /\ RecordShown(record)' /\ CompletionShown(form)'
  <2>1. record' \in RecordType /\ RecordShown(record')
    <3>1. record' = record \/ record' = EmptyRecord \/ FillRecord
      BY DEF RecordNext, TaskNext, OpenRecord, CloseRecord, SubmitRecord, StoreRecord, RecordSaved,
             RecordFails, OpenCompletion, CloseCompletion, FillCompletion, PickPhoto, Compressed,
             SubmitCompletion, StoreCompletion, CompletionSaved, CompletionFails, formVars, recordVars
    <3> QED BY <3>1, EmptyForms, FilledRecord DEF FormsTypeOK
  <2>2. form' \in CompleteType /\ CompletionShown(form')
    <3>1. form' = form \/ form' = EmptyComplete \/ FillCompletion
      BY DEF RecordNext, TaskNext, OpenRecord, CloseRecord, FillRecord, SubmitRecord, StoreRecord,
             RecordSaved, RecordFails, OpenCompletion, CloseCompletion, PickPhoto, Compressed,
             SubmitCompletion, StoreCompletion, CompletionSaved, CompletionFails, formVars, taskVars
    <3> QED BY <3>1, EmptyForms, FilledCompletion DEF FormsTypeOK
  <2> QED BY <2>1, <2>2 DEF FormsTypeOK, RecordShown, CompletionShown
<1>2. BodiesAreValid' /\ FormsCatchWhatBackendRefuses'
  <2>1. CASE SubmitRecord
    <3>1. UNCHANGED <<patching, refusals>> /\ "step" \in DOMAIN sending'
      BY <2>1 DEF SubmitRecord, taskVars
    <3> QED BY <2>1, <3>1, SubmittedRecord
            DEF BodiesAreValid, FormsCatchWhatBackendRefuses, RecordAccepted, CompletionAccepted
  <2>2. CASE StoreRecord
    <3>1. RecordAccepted(sending) BY <2>2 DEF StoreRecord, BodiesAreValid
    <3>2. UNCHANGED <<patching, refusals>> BY <2>2, <3>1 DEF StoreRecord, taskVars
    <3>3. PICK step \in {"refused", "saved"} : sending' = [sending EXCEPT !.step = step]
      BY <2>2, <3>1 DEF StoreRecord
    <3>4. "step" \in DOMAIN sending' /\ sending'.step # "sent" BY <3>3 DEF BodiesAreValid
    <3> QED BY <3>2, <3>4 DEF BodiesAreValid, FormsCatchWhatBackendRefuses, CompletionAccepted
  <2>3. CASE SubmitCompletion
    <3>1. UNCHANGED <<sending, refusals>> /\ "step" \in DOMAIN patching'
      BY <2>3 DEF SubmitCompletion, recordVars
    <3> QED BY <2>3, <3>1, SubmittedCompletion
            DEF BodiesAreValid, FormsCatchWhatBackendRefuses, RecordAccepted, FormsTypeOK
  <2>4. CASE StoreCompletion
    <3>1. CompletionAccepted(patching) \/ patching.date = "future"
      BY <2>4 DEF StoreCompletion, BodiesAreValid
    <3>2. UNCHANGED sending BY <2>4 DEF StoreCompletion, recordVars
    <3>3. refusals' = refusals \/ refusals' = refusals \cup {"future"}
      BY <2>4, <3>1 DEF StoreCompletion
    <3>4. PICK step \in {"refused", "saved"} : patching' = [patching EXCEPT !.step = step]
      BY <2>4 DEF StoreCompletion
    <3>5. "step" \in DOMAIN patching' /\ patching'.step # "sent" BY <3>4 DEF BodiesAreValid
    <3> QED BY <3>2, <3>3, <3>5 DEF BodiesAreValid, FormsCatchWhatBackendRefuses, RecordAccepted
  <2>5. CASE /\ sending' = sending \/ sending' = NotSent
             /\ patching' = patching \/ patching' = NotSent
             /\ UNCHANGED refusals
    BY <2>5 DEF BodiesAreValid, FormsCatchWhatBackendRefuses, RecordAccepted, CompletionAccepted,
                NotSent
  <2> QED
    BY <2>1, <2>2, <2>3, <2>4, <2>5
    DEF RecordNext, TaskNext, OpenRecord, CloseRecord, FillRecord, RecordSaved, RecordFails,
        OpenCompletion, CloseCompletion, FillCompletion, PickPhoto, Compressed, CompletionSaved,
        CompletionFails, formVars, recordVars, taskVars
<1> QED BY <1>1, <1>2

\* Both forms hold what they show, and send what the backend takes, for any
\* jobs and amounts (selectServiceType, selectPaymentGroup, isRecordValid,
\* isCompleteValid).
THEOREM FormsStaySound == FormsSpec => []FormsAreSound
<1>1. FormsInv => FormsAreSound
  BY DEF FormsInv, RecordShown, CompletionShown, FormsAreSound, NothingHiddenIsKept
<1> QED BY <1>1, FormsInitInv, FormsNextInv, PTL DEF FormsSpec

-----------------------------------------------------------------------------
(* The access code.                                                          *)

Steps == {"none", "sent", "checked", "stored", "answered", "wrong", "unconfigured", "lost"}

FormType == [current : Code \cup {NoCode}, new : Code \cup {NoCode}, success : BOOLEAN]
ChangeType ==
  [step : Steps \ {"none"}, current : Code \cup {NoCode}, new : Code \cup {NoCode}]

CodesTypeOK ==
  /\ change \in [AdminPage -> {NoChange} \cup ChangeType]
  /\ codeForm \in [AdminPage -> FormType]
  /\ blind \in Nat

\* A page whose change was checked still names the code in force.
CheckedIsCurrent ==
  \A p \in AdminPage :
    change[p].step = "checked" /\ p \notin crossedBy /\ blind = 0 => change[p].current = InForce

CodesInv == CodesTypeOK /\ CheckedIsCurrent

LEMMA TypeInit == CodesInit => CodesTypeOK
BY DEF CodesInit, CodesTypeOK, Blank, FormType

LEMMA CodesInvInit == CodesInit => CodesInv
BY TypeInit DEF CodesInit, CodesInv, CheckedIsCurrent, NoChange

\* What is not on its way to the upsert, or not touched, keeps its promise.
LEMMA PromiseKept ==
  ASSUME CheckedIsCurrent, codeRow' = codeRow, NEW p \in AdminPage,
         change'[p].step # "checked",
         \A q \in AdminPage \ {p} : change'[q] = change[q] /\ (q \in crossedBy => q \in crossedBy'),
         blind \in Nat, blind' \in Nat, blind <= blind'
  PROVE  CheckedIsCurrent'
BY DEF CheckedIsCurrent, InForce

LEMMA CodesInvNext == CodesInv /\ [CodesNext]_codeVars => CodesInv'
<1> SUFFICES ASSUME CodesInv, [CodesNext]_codeVars PROVE CodesInv' OBVIOUS
<1> USE DEF CodesInv
<1>1. CASE UNCHANGED codeVars
  BY <1>1 DEF codeVars, CodesTypeOK, CheckedIsCurrent, InForce
<1>2. ASSUME NEW p \in AdminPage,
             TypeCode(p) \/ EmptyForm(p) \/ HearChange(p)
      PROVE  CodesInv'
  <2>1. UNCHANGED <<codeRow, change, blind, crossedBy>>
    BY <1>2 DEF TypeCode, EmptyForm, HearChange
  <2>2. codeForm' \in [AdminPage -> FormType]
    <3>1. Blank \in FormType BY DEF Blank, FormType
    <3>2. PICK f \in FormType : codeForm' = [codeForm EXCEPT ![p] = f]
      BY <1>2, <3>1 DEF TypeCode, EmptyForm, HearChange, FormType
    <3> QED BY <3>2 DEF CodesTypeOK
  <2> QED BY <2>1, <2>2 DEF CodesTypeOK, CheckedIsCurrent, InForce
<1>3. ASSUME NEW p \in AdminPage, SendChange(p) PROVE CodesInv'
  <2>1. CodesTypeOK' BY <1>3 DEF SendChange, CodesTypeOK, Steps, ChangeType, FormType
  <2>2. CheckedIsCurrent'
    BY <1>3, PromiseKept DEF SendChange, CodesTypeOK
  <2> QED BY <2>1, <2>2
<1>4. ASSUME NEW p \in AdminPage, ChangeSaved(p) PROVE CodesInv'
  <2>1. CodesTypeOK' BY <1>4 DEF ChangeSaved, CodesTypeOK, Blank, FormType
  <2>2. CheckedIsCurrent'
    BY <1>4, PromiseKept DEF ChangeSaved, CodesTypeOK, NoChange
  <2> QED BY <2>1, <2>2
<1>5. ASSUME NEW p \in AdminPage, ChangeRefused(p) PROVE CodesInv'
  <2>1. CodesTypeOK'
    <3>1. PICK c \in Code \cup {NoCode} :
            codeForm' = [codeForm EXCEPT ![p].success = FALSE, ![p].current = c]
      BY <1>5 DEF ChangeRefused, CodesTypeOK, FormType
    <3>2. codeForm' \in [AdminPage -> FormType] BY <3>1 DEF CodesTypeOK, FormType
    <3>3. change' \in [AdminPage -> {NoChange} \cup ChangeType] /\ blind' \in Nat
      BY <1>5 DEF ChangeRefused, CodesTypeOK
    <3> QED BY <3>2, <3>3 DEF CodesTypeOK
  <2>2. CheckedIsCurrent'
    BY <1>5, PromiseKept DEF ChangeRefused, CodesTypeOK, NoChange
  <2> QED BY <2>1, <2>2
<1>6. ASSUME NEW p \in AdminPage, CheckChange(p) PROVE CodesInv'
  <2>1. PICK found \in Code \cup {NoCode} :
          /\ Lookup(found)
          /\ change' = [change EXCEPT ![p].step =
               CASE found = NoCode -> "unconfigured"
                 [] found # NoCode /\ ~IsCurrent(change[p].current, found) -> "wrong"
                 [] OTHER -> "checked"]
    BY <1>6 DEF CheckChange
  <2>2. blind' \in Nat /\ blind <= blind' /\ (blind' = 0 => found = InForce)
    BY <2>1 DEF Lookup, Resolved, InForce, CodesTypeOK
  <2>3. change[p].step = "sent" /\ UNCHANGED <<codeRow, codeForm, crossedBy>>
    BY <1>6 DEF CheckChange
  <2>4. CodesTypeOK' BY <2>1, <2>2, <2>3 DEF CodesTypeOK, Steps, NoChange, ChangeType
  <2>5. CheckedIsCurrent'
    <3>1. CASE change'[p].step # "checked"
      BY <2>1, <2>2, <2>3, <3>1, PromiseKept DEF CodesTypeOK
    <3>2. CASE change'[p].step = "checked"
      <4>1. change'[p].current = change[p].current /\ change[p].current = found
        BY <2>1, <2>3, <3>2 DEF CodesTypeOK, IsCurrent, NoChange
      <4> QED BY <2>1, <2>2, <2>3, <4>1 DEF CheckedIsCurrent, InForce, CodesTypeOK
    <3> QED BY <3>1, <3>2
  <2> QED BY <2>4, <2>5
<1>7. ASSUME NEW p \in AdminPage, StoreCode(p) PROVE CodesInv'
  <2>1. CodesTypeOK' BY <1>7 DEF StoreCode, CodesTypeOK, Steps, NoChange, ChangeType
  <2>2. CheckedIsCurrent'
    <3>1. change'[p].step = "stored" BY <1>7 DEF StoreCode, CodesTypeOK, NoChange
    <3>2. ASSUME NEW q \in AdminPage \ {p}, change'[q].step = "checked" PROVE q \in crossedBy'
      BY <1>7, <3>2 DEF StoreCode, CodesTypeOK, NoChange
    <3> QED BY <3>1, <3>2 DEF CheckedIsCurrent
  <2> QED BY <2>1, <2>2
<1>8. ASSUME NEW p \in AdminPage, AnnounceChange(p) \/ LoseChange(p) PROVE CodesInv'
  <2>1. UNCHANGED <<codeRow, codeForm, blind, crossedBy>>
    BY <1>8 DEF AnnounceChange, LoseChange
  <2>2. change[p] \in ChangeType
    BY <1>8 DEF AnnounceChange, LoseChange, CodesTypeOK, NoChange
  <2>3. PICK step \in {"answered", "lost"} : change' = [change EXCEPT ![p].step = step]
    BY <1>8 DEF AnnounceChange, LoseChange
  <2>4. CodesTypeOK' BY <2>1, <2>2, <2>3 DEF CodesTypeOK, ChangeType, Steps
  <2>5. /\ change'[p].step # "checked"
        /\ \A q \in AdminPage \ {p} : change'[q] = change[q]
    BY <2>2, <2>3 DEF CodesTypeOK, ChangeType
  <2>6. CheckedIsCurrent' BY <2>1, <2>5, PromiseKept DEF CodesTypeOK
  <2> QED BY <2>4, <2>6
<1> QED BY <1>1, <1>2, <1>3, <1>4, <1>5, <1>6, <1>7, <1>8 DEF CodesNext

\* A stored change replaces the code its administrator named, unless another was
\* stored between its start and its upsert or a lookup failed.
THEOREM ChangesReplaceNamedCode == CodesSpec => ChangeReplacesNamedCode
<1>1. CodesSpec => []CodesInv
  BY CodesInvInit, CodesInvNext, PTL DEF CodesSpec
<1>2. CodesInv /\ [CodesNext]_codeVars =>
        [\A p \in AdminPage : StoreCode(p) /\ p \notin crossedBy /\ blind = 0
                              => change[p].current = InForce]_codeVars
  BY DEF CodesInv, CheckedIsCurrent, StoreCode
<1> QED BY <1>1, <1>2, PTL DEF CodesSpec, ChangeReplacesNamedCode
==============================================================================
