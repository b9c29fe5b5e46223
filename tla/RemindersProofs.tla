-------------------------- MODULE RemindersProofs --------------------------
(***************************************************************************)
(* Theorems about Reminders, for any appointments, dates and number of     *)
(* invocations in flight, over a calendar of any length.                   *)
(***************************************************************************)
EXTENDS Reminders, TLAPS

Invocations == Process \X Slot

LEMMA SixKinds == Phase = 1 .. 6 /\ Len(Kinds) = 6
BY DEF Phase, Kinds

LEMMA RestingIsIdle ==
  /\ Resting.step = "idle"
  /\ \A i \in Invocation : i.step \in {"list", "check", "insert"} /\ i # Resting
BY DEF Resting, Invocation

\* The search for a kind of reminder finds that kind.
LEMMA KindContainsItself == \A k \in Phase : Contains(k, k)
BY DEF Contains

\* Only the key for one day ahead is contained in the key of another kind.
LEMMA KindsAreToldApart ==
  ASSUME NEW stored \in Phase, NEW sought \in Phase,
         Contains(stored, sought), Kinds[sought].days # 1
  PROVE  stored = sought
<1>1. stored \in {1, 2, 3, 4, 5, 6} /\ sought \in {1, 2, 3, 4, 5, 6}
  BY SixKinds
<1>2. /\ Kinds[1].kind = "upcoming" /\ Kinds[1].days = 10
      /\ Kinds[2].kind = "upcoming" /\ Kinds[2].days = 7
      /\ Kinds[3].kind = "upcoming" /\ Kinds[3].days = 3
      /\ Kinds[4].kind = "upcoming" /\ Kinds[4].days = 1
      /\ Kinds[5].kind = "today" /\ Kinds[6].kind = "overdue"
  BY DEF Kinds
<1>3. 10 \div 10 = 1 /\ 7 \div 10 = 0 /\ 3 \div 10 = 0 /\ 1 \div 10 = 0
  OBVIOUS
<1> QED BY <1>1, <1>2, <1>3, SMT DEF Contains

-----------------------------------------------------------------------------
(* Type correctness. *)

\* What a step of one invocation does to the invocations.
LEMMA OneRunTypes ==
  ASSUME run \in [Invocations -> Invocation \cup {Resting}],
         NEW p \in Process, NEW s \in Slot, NEW i \in Invocation \cup {Resting},
         run' = [run EXCEPT ![<<p, s>>] = i]
  PROVE  run' \in [Invocations -> Invocation \cup {Resting}]
BY DEF Invocations

LEMMA InitTypes == Init => TypeOK
BY DatesAssumption DEF Init, TypeOK, Day, Resting

LEMMA StepTypes ==
  ASSUME TypeOK, [Next]_vars
  PROVE  TypeOK'
<1> USE DEF Invocations
<1>1. ASSUME NEW p \in Process, NEW s \in Slot, Begin(p, s)
      PROVE  TypeOK'
  <2>1. Started \in Invocation
    BY SixKinds DEF TypeOK, Started, Invocation
  <2> QED BY <1>1, <2>1 DEF Begin, TypeOK, appointments
<1>2. ASSUME NEW p \in Process, NEW s \in Slot, List(p, s)
      PROVE  TypeOK'
  <2>1. run[<<p, s>>] \in Invocation
    BY <1>2, RestingIsIdle DEF List, TypeOK
  <2>2. PICK expired : run' = [run EXCEPT
                 ![<<p, s>>].step = "check",
                 ![<<p, s>>].todo = Listed(run[<<p, s>>].phase, run[<<p, s>>].today) \ expired]
    BY <1>2 DEF List
  <2>3. Listed(run[<<p, s>>].phase, run[<<p, s>>].today) \ expired \in SUBSET Appt
    BY DEF Listed, TypeOK
  <2>4. run' = [run EXCEPT ![<<p, s>>] = [run[<<p, s>>] EXCEPT !.step = "check",
                  !.todo = Listed(run[<<p, s>>].phase, run[<<p, s>>].today) \ expired]]
    BY <2>2 DEF TypeOK
  <2>5. [run[<<p, s>>] EXCEPT !.step = "check",
           !.todo = Listed(run[<<p, s>>].phase, run[<<p, s>>].today) \ expired] \in Invocation
    BY <2>1, <2>3 DEF Invocation
  <2>6. run' \in [Invocations -> Invocation \cup {Resting}]
    BY <2>4, <2>5 DEF TypeOK
  <2> QED BY <1>2, <2>6 DEF List, TypeOK, appointments
<1>3. ASSUME NEW p \in Process, NEW s \in Slot, Check(p, s)
      PROVE  TypeOK'
  <2>1. run[<<p, s>>] \in Invocation
    BY <1>3, RestingIsIdle DEF Check, TypeOK
  <2>2. PICK a \in run[<<p, s>>].todo, i \in Invocation : run' = [run EXCEPT ![<<p, s>>] = i]
    <3>1. PICK a \in run[<<p, s>>].todo :
            run' = [run EXCEPT ![<<p, s>>] =
                      IF Found(a, run[<<p, s>>].phase, run[<<p, s>>].today)
                        THEN [run[<<p, s>>] EXCEPT !.todo = @ \ {a}]
                        ELSE [run[<<p, s>>] EXCEPT !.step = "insert", !.at = a]]
      BY <1>3 DEF Check
    <3>2. /\ [run[<<p, s>>] EXCEPT !.todo = @ \ {a}] \in Invocation
          /\ [run[<<p, s>>] EXCEPT !.step = "insert", !.at = a] \in Invocation
      BY <2>1 DEF Invocation
    <3> QED BY <3>1, <3>2
  <2> QED BY <1>3, <2>2 DEF Check, TypeOK, appointments
<1>4. ASSUME NEW p \in Process, NEW s \in Slot, Insert(p, s)
      PROVE  TypeOK'
  <2>1. run[<<p, s>>] \in Invocation
    BY <1>4, RestingIsIdle DEF Insert, TypeOK
  <2>2. [run[<<p, s>>] EXCEPT !.step = "check", !.todo = @ \ {run[<<p, s>>].at}, !.at = NoAppt]
          \in Invocation
    BY <2>1 DEF Invocation
  <2>3. run' \in [Invocations -> Invocation \cup {Resting}]
    BY <1>4, <2>2 DEF Insert, TypeOK
  <2>4. sent' \in [Appt \X Phase \X Day -> Nat]
    <3> DEFINE keys == Appt \X Phase \X Day
               k == <<run[<<p, s>>].at, run[<<p, s>>].phase, day>>
    <3>1. sent \in [keys -> Nat] /\ sent' = [sent EXCEPT ![k] = @ + 1]
      BY <1>4 DEF Insert, TypeOK
    <3> HIDE DEF keys, k
    <3>2. sent' \in [keys -> Nat]
      <4>1. \A n \in Nat : n + 1 \in Nat
        OBVIOUS
      <4>2. k \in keys => sent[k] + 1 \in Nat
        BY <3>1, <4>1
      <4> QED BY <3>1, <4>2, Zenon
    <3> QED BY <3>2 DEF keys
  <2> QED BY <1>4, <2>3, <2>4 DEF Insert, TypeOK, appointments
<1>5. ASSUME NEW p \in Process, NEW s \in Slot, NextList(p, s)
      PROVE  TypeOK'
  <2>1. run[<<p, s>>] \in Invocation
    BY <1>5, RestingIsIdle DEF NextList, TypeOK
  <2>2. run' = [run EXCEPT ![<<p, s>>] = [run[<<p, s>>] EXCEPT !.step = "list", !.phase = @ + 1]]
    BY <1>5 DEF NextList, TypeOK
  <2>3. [run[<<p, s>>] EXCEPT !.step = "list", !.phase = @ + 1] \in Invocation
    <3>1. run[<<p, s>>].phase + 1 \in Phase
      BY <1>5, <2>1, SixKinds DEF NextList, Invocation
    <3> QED BY <2>1, <3>1 DEF Invocation
  <2>4. run' \in [Invocations -> Invocation \cup {Resting}]
    BY <2>2, <2>3 DEF TypeOK
  <2> QED BY <1>5, <2>4 DEF NextList, TypeOK, appointments
<1>6. ASSUME NEW p \in Process, NEW s \in Slot, Finish(p, s) \/ Fail(p, s)
      PROVE  TypeOK'
  BY <1>6 DEF Finish, Fail, TypeOK, appointments
<1>7. ASSUME NEW p \in Process, Restart(p)
      PROVE  TypeOK'
  BY <1>7 DEF Restart, TypeOK, appointments
<1>8. CASE Midnight
  BY <1>8, DatesAssumption DEF Midnight, TypeOK, appointments, Day
<1>9. ASSUME NEW a \in Appt, Reschedule(a) \/ Cancel(a) \/ CompleteWork(a)
      PROVE  TypeOK'
  BY <1>9 DEF Reschedule, Cancel, CompleteWork, TypeOK
<1>10. CASE UNCHANGED vars
  BY <1>10 DEF vars, appointments, TypeOK
<1> QED BY <1>1, <1>2, <1>3, <1>4, <1>5, <1>6, <1>7, <1>8, <1>9, <1>10 DEF Next, Work

\* Every variable of the reminder job keeps its type; in particular an
\* invocation never runs past its last list.
THEOREM TypeCorrect == Spec => []TypeOK
<1>1. Init => TypeOK BY InitTypes
<1>2. TypeOK /\ [Next]_vars => TypeOK' BY StepTypes
<1> QED BY <1>1, <1>2, PTL DEF Spec

-----------------------------------------------------------------------------
(* What the steps of an invocation i do. *)

\* It goes on with what it holds, on the day it began.
GoesOn(i) ==
  /\ run[i] \in Invocation
  /\ isRunning' = isRunning
  /\ \E next \in Invocation :
       /\ run' = [run EXCEPT ![i] = next]
       /\ next.today = run[i].today

\* It ends.
Ends(i) ==
  /\ run' = [run EXCEPT ![i] = Resting]
  /\ isRunning' = [isRunning EXCEPT ![i[1]] = FALSE]

LEMMA WorkEffect ==
  ASSUME TypeOK, NEW p \in Process, NEW s \in Slot, Work(p, s), NEW i, i = <<p, s>>
  PROVE  /\ day' = day /\ run[i] # Resting
         /\ GoesOn(i) \/ Ends(i)
         /\ ~Insert(p, s) => sent' = sent
<1>1. CASE List(p, s)
  <2>1. run[i] \in Invocation
    BY <1>1, RestingIsIdle DEF List, TypeOK, Invocations
  <2>2. PICK expired :
          run' = [run EXCEPT ![i] = [run[i] EXCEPT !.step = "check",
                    !.todo = Listed(run[i].phase, run[i].today) \ expired]]
    BY <1>1 DEF List, TypeOK, Invocations
  <2>3. [run[i] EXCEPT !.step = "check",
           !.todo = Listed(run[i].phase, run[i].today) \ expired] \in Invocation
    BY <2>1 DEF Invocation, Listed, TypeOK
  <2>4. [run[i] EXCEPT !.step = "check",
           !.todo = Listed(run[i].phase, run[i].today) \ expired].today = run[i].today
    BY <2>1 DEF Invocation
  <2>5. GoesOn(i)
    BY <1>1, <2>1, <2>2, <2>3, <2>4 DEF List, GoesOn
  <2> QED BY <1>1, <2>1, <2>5, RestingIsIdle DEF List
<1>2. CASE Check(p, s)
  <2>1. PICK a \in run[i].todo :
          run' = [run EXCEPT ![i] =
                    IF Found(a, run[i].phase, run[i].today)
                      THEN [run[i] EXCEPT !.todo = @ \ {a}]
                      ELSE [run[i] EXCEPT !.step = "insert", !.at = a]]
    BY <1>2 DEF Check
  <2>2. run[i] \in Invocation /\ UNCHANGED <<day, sent, isRunning>>
    BY <1>2, RestingIsIdle DEF Check, TypeOK, Invocations
  <2>3. /\ [run[i] EXCEPT !.todo = @ \ {a}] \in Invocation
        /\ [run[i] EXCEPT !.todo = @ \ {a}].today = run[i].today
        /\ [run[i] EXCEPT !.step = "insert", !.at = a] \in Invocation
        /\ [run[i] EXCEPT !.step = "insert", !.at = a].today = run[i].today
    BY <2>2 DEF Invocation
  <2>4. GoesOn(i)
    BY <2>1, <2>2, <2>3 DEF GoesOn
  <2> QED BY <2>2, <2>4, RestingIsIdle
<1>3. CASE Insert(p, s)
  <2>1. run[i] \in Invocation
    BY <1>3, RestingIsIdle DEF Insert, TypeOK, Invocations
  <2>2. LET next == [run[i] EXCEPT !.step = "check", !.todo = @ \ {run[i].at}, !.at = NoAppt]
        IN next \in Invocation /\ next.today = run[i].today
    BY <2>1 DEF Invocation
  <2>3. GoesOn(i)
    BY <1>3, <2>1, <2>2 DEF Insert, GoesOn
  <2> QED BY <1>3, <2>1, <2>3, RestingIsIdle DEF Insert
<1>4. CASE NextList(p, s)
  <2>1. run[i] \in Invocation
    BY <1>4, RestingIsIdle DEF NextList, TypeOK, Invocations
  <2>2. run[i].phase + 1 \in Phase
    BY <1>4, <2>1, SixKinds DEF NextList, Invocation
  <2>3. LET next == [run[i] EXCEPT !.step = "list", !.phase = @ + 1]
        IN /\ next \in Invocation /\ next.today = run[i].today
           /\ run' = [run EXCEPT ![i] = next]
    BY <1>4, <2>1, <2>2 DEF NextList, Invocation, TypeOK, Invocations
  <2>4. GoesOn(i)
    BY <1>4, <2>1, <2>3 DEF NextList, GoesOn
  <2> QED BY <1>4, <2>1, <2>4, RestingIsIdle DEF NextList
<1>5. CASE Finish(p, s)
  BY <1>5, RestingIsIdle DEF Finish, Ends
<1>6. CASE Fail(p, s)
  BY <1>6 DEF Fail, Ends
<1> QED BY <1>1, <1>2, <1>3, <1>4, <1>5, <1>6 DEF Work

-----------------------------------------------------------------------------
(* The flag. *)

\* An invocation in flight holds the flag of its process, and no other of that
\* process is in flight.
OneRun ==
  \A i \in Invocations : run[i] # Resting =>
    /\ isRunning[i[1]]
    /\ \A j \in Invocations : j[1] = i[1] /\ run[j] # Resting => j = i

LEMMA StepOneRun ==
  ASSUME TypeOK, OneRun, [Next]_vars
  PROVE  OneRun'
<1>1. ASSUME NEW p \in Process, NEW s \in Slot, Begin(p, s)
      PROVE  OneRun'
  <2>1. \A j \in Invocations : j[1] = p => run[j] = Resting
    BY <1>1 DEF Begin, OneRun
  <2>2. \A j \in Invocations : run'[j] = IF j = <<p, s>> THEN Started ELSE run[j]
    BY <1>1 DEF Begin, TypeOK, Invocations
  <2>3. \A q \in Process : isRunning'[q] = IF q = p THEN TRUE ELSE isRunning[q]
    BY <1>1 DEF Begin, TypeOK
  <2>4. <<p, s>>[1] = p /\ \A j \in Invocations : j[1] \in Process
    BY DEF Invocations
  <2>5. ASSUME NEW j \in Invocations, run'[j] # Resting, j[1] = p
        PROVE  /\ isRunning'[j[1]]
               /\ \A k \in Invocations : k[1] = j[1] /\ run'[k] # Resting => k = j
    BY <2>1, <2>2, <2>3, <2>5
  <2>6. ASSUME NEW j \in Invocations, run'[j] # Resting, j[1] # p
        PROVE  /\ isRunning'[j[1]]
               /\ \A k \in Invocations : k[1] = j[1] /\ run'[k] # Resting => k = j
    <3>1. run[j] # Resting /\ isRunning'[j[1]] = isRunning[j[1]]
      BY <2>2, <2>3, <2>4, <2>6
    <3>2. \A k \in Invocations : k[1] = j[1] => run'[k] = run[k]
      BY <2>2, <2>4, <2>6
    <3> QED BY <3>1, <3>2 DEF OneRun
  <2> QED BY <2>5, <2>6 DEF OneRun
<1>2. ASSUME NEW p \in Process, NEW s \in Slot, Work(p, s)
      PROVE  OneRun'
  <2> DEFINE i == <<p, s>>
  <2>1. run[i] # Resting /\ (GoesOn(i) \/ Ends(i)) /\ i \in Invocations /\ i[1] = p
    BY <1>2, WorkEffect DEF Invocations
  <2> HIDE DEF i
  <2>2. CASE GoesOn(i)
    <3>1. \A j \in Invocations : run'[j] # Resting => run[j] # Resting
      BY <2>1, <2>2 DEF GoesOn, TypeOK, Invocations
    <3> QED BY <2>2, <3>1 DEF OneRun, GoesOn
  <2>3. CASE Ends(i)
    <3>1. \A j \in Invocations : run'[j] # Resting => j # i /\ run'[j] = run[j]
      BY <2>3 DEF Ends, TypeOK, Invocations
    <3>2. \A j \in Invocations : run'[j] # Resting => j[1] # p
      BY <2>1, <3>1 DEF OneRun
    <3>3. \A j \in Invocations : j[1] \in Process /\ (j[1] # p => isRunning'[j[1]] = isRunning[j[1]])
      BY <2>1, <2>3 DEF Ends, TypeOK, Invocations
    <3> QED BY <3>1, <3>2, <3>3 DEF OneRun
  <2> QED BY <2>1, <2>2, <2>3
<1>3. ASSUME NEW p \in Process, Restart(p)
      PROVE  OneRun'
  <2>1. \A j \in Invocations : run'[j] = IF j[1] = p THEN Resting ELSE run[j]
    BY <1>3 DEF Restart, Invocations
  <2>2. \A j \in Invocations : j[1] \in Process
    BY DEF Invocations
  <2>3. \A q \in Process : q # p => isRunning'[q] = isRunning[q]
    BY <1>3 DEF Restart, TypeOK
  <2> QED BY <2>1, <2>2, <2>3 DEF OneRun
<1>4. CASE UNCHANGED <<run, isRunning>>
  BY <1>4 DEF OneRun
<1>5. CASE Midnight
  BY <1>4, <1>5 DEF Midnight
<1>6. ASSUME NEW a \in Appt, Reschedule(a) \/ Cancel(a) \/ CompleteWork(a)
      PROVE  OneRun'
  BY <1>4, <1>6 DEF Reschedule, Cancel, CompleteWork
<1>7. CASE UNCHANGED vars
  BY <1>4, <1>7 DEF vars
<1> QED BY <1>1, <1>2, <1>3, <1>5, <1>6, <1>7 DEF Next

-----------------------------------------------------------------------------
(* No user is reminded twice, where one process runs the job. *)

\* Who is about to be reminded has not been reminded since the invocation began.
NotYetReminded ==
  \A i \in Invocations : run[i].step = "insert" =>
    \A d \in Day : d >= run[i].today => sent[<<run[i].at, run[i].phase, d>>] = 0

\* The day an invocation began is not in the future.
BegunByNow == \A i \in Invocations : run[i] # Resting => run[i].today <= day

RemindInv == TypeOK /\ OneRun /\ BegunByNow /\ NotYetReminded /\ NeverRemindedTwice

LEMMA StepBegunByNow ==
  ASSUME TypeOK, BegunByNow, [Next]_vars
  PROVE  BegunByNow'
<1>1. ASSUME NEW p \in Process, NEW s \in Slot, Begin(p, s)
      PROVE  BegunByNow'
  <2>1. \A j \in Invocations : run'[j] = IF j = <<p, s>> THEN Started ELSE run[j]
    BY <1>1 DEF Begin, TypeOK, Invocations
  <2>2. Started.today = day /\ day' = day /\ day \in Int
    BY <1>1 DEF Begin, Started, TypeOK, Day
  <2> QED BY <2>1, <2>2 DEF BegunByNow
<1>2. ASSUME NEW p \in Process, NEW s \in Slot, Work(p, s)
      PROVE  BegunByNow'
  <2> DEFINE i == <<p, s>>
  <2>1. run[i] # Resting /\ (GoesOn(i) \/ Ends(i)) /\ i \in Invocations /\ day' = day
    BY <1>2, WorkEffect DEF Invocations
  <2> HIDE DEF i
  <2>2. CASE GoesOn(i)
    <3>1. PICK next \in Invocation :
            run' = [run EXCEPT ![i] = next] /\ next.today = run[i].today
      BY <2>2 DEF GoesOn
    <3>2. \A j \in Invocations : run'[j] = IF j = i THEN next ELSE run[j]
      BY <3>1 DEF TypeOK, Invocations
    <3> QED BY <2>1, <3>1, <3>2 DEF BegunByNow
  <2>3. CASE Ends(i)
    <3>1. \A j \in Invocations : run'[j] = IF j = i THEN Resting ELSE run[j]
      BY <2>3 DEF Ends, TypeOK, Invocations
    <3> QED BY <2>1, <3>1 DEF BegunByNow
  <2> QED BY <2>1, <2>2, <2>3
<1>3. ASSUME NEW p \in Process, Restart(p)
      PROVE  BegunByNow'
  <2>1. \A j \in Invocations : run'[j] = IF j[1] = p THEN Resting ELSE run[j]
    BY <1>3 DEF Restart, Invocations
  <2> QED BY <1>3, <2>1 DEF Restart, BegunByNow
<1>4. CASE Midnight
  <2>1. day' = day + 1 /\ run' = run /\ day \in Int
    BY <1>4 DEF Midnight, TypeOK, Day
  <2>2. \A j \in Invocations : run[j] # Resting => run[j].today \in Int
    BY DEF TypeOK, Invocations, Invocation, Day
  <2> QED BY <2>1, <2>2 DEF BegunByNow
<1>5. CASE UNCHANGED <<day, run>>
  BY <1>5 DEF BegunByNow
<1>6. ASSUME NEW a \in Appt, Reschedule(a) \/ Cancel(a) \/ CompleteWork(a)
      PROVE  BegunByNow'
  BY <1>5, <1>6 DEF Reschedule, Cancel, CompleteWork
<1>7. CASE UNCHANGED vars
  BY <1>5, <1>7 DEF vars
<1> QED BY <1>1, <1>2, <1>3, <1>4, <1>6, <1>7 DEF Next

\* Only a search that finds nothing leads to an insertion.
LEMMA ToInsert ==
  ASSUME TypeOK, NEW p \in Process, NEW s \in Slot, Check(p, s)
  PROVE  /\ UNCHANGED <<day, sent>>
         /\ \A j \in Invocations : run'[j].step = "insert" =>
              \/ run'[j] = run[j]
              \/ /\ run'[j].phase \in Phase /\ run'[j].today \in Day /\ run'[j].at \in Appt
                 /\ \A d \in Day : d >= run'[j].today
                      => ~(sent[<<run'[j].at, run'[j].phase, d>>] > 0)
<1> DEFINE i == <<p, s>>
<1>1. PICK a \in run[i].todo :
        run' = [run EXCEPT ![i] =
                  IF Found(a, run[i].phase, run[i].today)
                    THEN [run[i] EXCEPT !.todo = @ \ {a}]
                    ELSE [run[i] EXCEPT !.step = "insert", !.at = a]]
  BY DEF Check
<1>2. run[i] \in Invocation /\ run[i].step = "check" /\ i \in Invocations
  BY RestingIsIdle DEF Check, TypeOK, Invocations
<1>3. UNCHANGED <<day, sent>>
  BY DEF Check
<1> HIDE DEF i
<1>4. a \in Appt /\ run[i].phase \in Phase /\ run[i].today \in Day
  BY <1>2 DEF Invocation
<1>5. CASE Found(a, run[i].phase, run[i].today)
  <2>1. run' = [run EXCEPT ![i] = [run[i] EXCEPT !.todo = @ \ {a}]]
    BY <1>1, <1>5
  <2>2. [run[i] EXCEPT !.todo = @ \ {a}].step = "check"
    BY <1>2 DEF Invocation
  <2>3. \A j \in Invocations : run'[j].step = "insert" => run'[j] = run[j]
    BY <1>2, <2>1, <2>2 DEF TypeOK, Invocations
  <2> QED BY <1>3, <2>3
<1>6. CASE ~Found(a, run[i].phase, run[i].today)
  <2>1. run' = [run EXCEPT ![i] = [run[i] EXCEPT !.step = "insert", !.at = a]]
    BY <1>1, <1>6
  <2>2. \A j \in Invocations : j # i => run'[j] = run[j]
    BY <2>1 DEF TypeOK, Invocations
  <2>3. run'[i].at = a /\ run'[i].phase = run[i].phase /\ run'[i].today = run[i].today
    BY <1>2, <2>1 DEF TypeOK, Invocations, Invocation
  <2>4. \A d \in Day : d >= run[i].today => ~(sent[<<a, run[i].phase, d>>] > 0)
    BY <1>4, <1>6, KindContainsItself DEF Found
  <2> QED BY <1>3, <1>4, <2>2, <2>3, <2>4
<1> QED BY <1>5, <1>6

LEMMA StepNotYetReminded ==
  ASSUME NEW q, Process = {q}, RemindInv, [Next]_vars
  PROVE  NotYetReminded' /\ NeverRemindedTwice'
<1> USE DEF RemindInv
<1>1. CASE sent' = sent /\ \A j \in Invocations : run'[j].step = "insert" => run'[j] = run[j]
  BY <1>1 DEF NotYetReminded, NeverRemindedTwice
<1>2. ASSUME NEW p \in Process, NEW s \in Slot, Begin(p, s)
      PROVE  NotYetReminded' /\ NeverRemindedTwice'
  <2>1. sent' = sent /\ run' = [run EXCEPT ![<<p, s>>] = Started]
    BY <1>2 DEF Begin
  <2>2. \A j \in Invocations : run'[j].step = "insert" => run'[j] = run[j]
    BY <2>1 DEF TypeOK, Started, Invocations
  <2> QED BY <1>1, <2>1, <2>2
<1>3. ASSUME NEW p \in Process, NEW s \in Slot, List(p, s) \/ NextList(p, s)
      PROVE  NotYetReminded' /\ NeverRemindedTwice'
  <2>1. sent' = sent
    BY <1>3 DEF List, NextList
  <2>2. run[<<p, s>>] \in Invocation
    BY <1>3, RestingIsIdle DEF List, NextList, TypeOK, Invocations
  <2>3. \A j \in Invocations :
          /\ j # <<p, s>> => run'[j] = run[j]
          /\ j = <<p, s>> => run'[j].step \in {"check", "list"}
    <3>1. CASE List(p, s)
      <4>1. PICK todo : run' = [run EXCEPT ![<<p, s>>] =
                                  [run[<<p, s>>] EXCEPT !.step = "check", !.todo = todo]]
        BY <3>1 DEF List, TypeOK, Invocations
      <4> QED BY <2>2, <4>1 DEF TypeOK, Invocations, Invocation
    <3>2. CASE NextList(p, s)
      <4>1. run' = [run EXCEPT ![<<p, s>>] =
                      [run[<<p, s>>] EXCEPT !.step = "list", !.phase = @ + 1]]
        BY <3>2 DEF NextList, TypeOK, Invocations
      <4> QED BY <2>2, <4>1 DEF TypeOK, Invocations, Invocation
    <3> QED BY <1>3, <3>1, <3>2
  <2> QED BY <1>1, <2>1, <2>3
<1>4. ASSUME NEW p \in Process, NEW s \in Slot, Check(p, s)
      PROVE  NotYetReminded' /\ NeverRemindedTwice'
  <2>1. sent' = sent /\ sent \in [Appt \X Phase \X Day -> Nat]
    BY <1>4, ToInsert DEF TypeOK
  <2>2. NeverRemindedTwice'
    BY <2>1 DEF NeverRemindedTwice
  <2>3. ASSUME NEW j \in Invocations, run'[j].step = "insert",
               NEW d \in Day, d >= run'[j].today
        PROVE  sent'[<<run'[j].at, run'[j].phase, d>>] = 0
    <3>1. CASE run'[j] = run[j]
      BY <2>1, <2>3, <3>1 DEF NotYetReminded
    <3>2. CASE /\ run'[j].phase \in Phase /\ run'[j].at \in Appt
               /\ ~(sent[<<run'[j].at, run'[j].phase, d>>] > 0)
      <4>1. sent[<<run'[j].at, run'[j].phase, d>>] \in Nat
        BY <2>1, <3>2
      <4> QED BY <2>1, <3>2, <4>1
    <3> QED BY <1>4, <2>3, <3>1, <3>2, ToInsert
  <2> QED BY <2>2, <2>3 DEF NotYetReminded
<1>5. ASSUME NEW p \in Process, NEW s \in Slot, Insert(p, s)
      PROVE  NotYetReminded' /\ NeverRemindedTwice'
  <2> DEFINE i == <<p, s>>
             k == <<run[i].at, run[i].phase, day>>
  <2>1. run[i] \in Invocation /\ run[i].step = "insert" /\ i \in Invocations
    BY <1>5, RestingIsIdle DEF Insert, TypeOK, Invocations
  <2>2. /\ sent' = [sent EXCEPT ![k] = @ + 1]
        /\ run' = [run EXCEPT ![i] =
                     [run[i] EXCEPT !.step = "check", !.todo = @ \ {run[i].at}, !.at = NoAppt]]
    BY <1>5 DEF Insert
  <2>3. run[i] # Resting /\ \A j \in Invocations : j # i => run[j] = Resting
    BY <2>1, RestingIsIdle DEF OneRun, Invocations
  <2>4. sent[k] = 0
    BY <2>1, <2>3 DEF NotYetReminded, BegunByNow, TypeOK, Invocation, Day
  <2> HIDE DEF i, k
  <2>5. run'[i].step = "check" /\ \A j \in Invocations : j # i => run'[j] = Resting
    BY <2>1, <2>2, <2>3 DEF TypeOK, Invocations, Invocation
  <2>6. NotYetReminded'
    BY <2>5, RestingIsIdle DEF NotYetReminded
  <2>7. \A m \in Appt \X Phase \X Day : sent'[m] = IF m = k THEN 1 ELSE sent[m]
    BY <2>2, <2>4 DEF TypeOK
  <2> QED BY <2>6, <2>7 DEF NeverRemindedTwice
<1>6. ASSUME NEW p \in Process, NEW s \in Slot, Finish(p, s) \/ Fail(p, s)
      PROVE  NotYetReminded' /\ NeverRemindedTwice'
  <2>1. sent' = sent /\ run' = [run EXCEPT ![<<p, s>>] = Resting]
    BY <1>6 DEF Finish, Fail
  <2>2. \A j \in Invocations : run'[j].step = "insert" => run'[j] = run[j]
    BY <2>1, RestingIsIdle DEF TypeOK, Invocations
  <2> QED BY <1>1, <2>1, <2>2
<1>7. ASSUME NEW p \in Process, Restart(p)
      PROVE  NotYetReminded' /\ NeverRemindedTwice'
  <2>1. \A j \in Invocations : run'[j].step = "insert" => run'[j] = run[j]
    BY <1>7, RestingIsIdle DEF Restart, Invocations
  <2> QED BY <1>1, <1>7, <2>1 DEF Restart
<1>8. CASE Midnight
  BY <1>1, <1>8 DEF Midnight
<1>9. ASSUME NEW a \in Appt, Reschedule(a) \/ Cancel(a) \/ CompleteWork(a)
      PROVE  NotYetReminded' /\ NeverRemindedTwice'
  BY <1>1, <1>9 DEF Reschedule, Cancel, CompleteWork
<1>10. CASE UNCHANGED vars
  BY <1>1, <1>10 DEF vars
<1> QED BY <1>2, <1>3, <1>4, <1>5, <1>6, <1>7, <1>8, <1>9, <1>10 DEF Next, Work

LEMMA InitRemind == Init => RemindInv
<1> SUFFICES ASSUME Init PROVE RemindInv
  OBVIOUS
<1>1. TypeOK
  BY InitTypes
<1>2. \A i \in Invocations : run[i] = Resting
  BY DEF Init, Invocations
<1>3. OneRun /\ BegunByNow /\ NotYetReminded
  BY <1>2, RestingIsIdle DEF OneRun, BegunByNow, NotYetReminded
<1>4. NeverRemindedTwice
  BY DEF Init, NeverRemindedTwice
<1> QED BY <1>1, <1>3, <1>4 DEF RemindInv

\* Where one process runs the job, no user is reminded twice on a day of the
\* same appointment for the same reason, however many ticks meet: search and
\* insertion are two calls, and only the flag keeps them together.
THEOREM RemindedOnce ==
  ASSUME NEW q, Process = {q}
  PROVE  Spec => []NeverRemindedTwice
<1>1. Init => RemindInv
  BY InitRemind
<1>2. RemindInv /\ [Next]_vars => RemindInv'
  <2> SUFFICES ASSUME RemindInv, [Next]_vars PROVE RemindInv'
    OBVIOUS
  <2>1. TypeOK' BY StepTypes DEF RemindInv
  <2>2. OneRun' BY StepOneRun DEF RemindInv
  <2>3. BegunByNow' BY StepBegunByNow DEF RemindInv
  <2>4. NotYetReminded' /\ NeverRemindedTwice' BY StepNotYetReminded
  <2> QED BY <2>1, <2>2, <2>3, <2>4 DEF RemindInv
<1>3. RemindInv => NeverRemindedTwice
  BY DEF RemindInv
<1> QED BY <1>1, <1>2, <1>3, PTL DEF Spec

-----------------------------------------------------------------------------
(* Nobody on a list is passed over, however many processes run the job. *)

\* An invocation that is done with an appointment has found its reminder or
\* created it.
LEMMA StepListed ==
  ASSUME TypeOK, BegunByNow, [Next]_vars, NEW i \in Invocations, NEW a \in Appt,
         PassesOver(i, a), Kinds[run[i].phase].days # 1
  PROVE  Reminded(a, run[i].phase, run[i].today)'
<1>1. /\ run[i] \in Invocation /\ a \in run[i].todo /\ run[i].step # "list"
      /\ run'[i] # Resting /\ a \notin run'[i].todo
      /\ run[i].phase \in Phase /\ run[i].today \in Day
  <2>1. /\ run[i] # Resting /\ run[i].step # "list" /\ a \in run[i].todo
        /\ run'[i] # Resting /\ a \notin run'[i].todo
    BY DEF PassesOver
  <2>2. run[i] \in Invocation
    BY <2>1 DEF TypeOK, Invocations
  <2> QED BY <2>1, <2>2 DEF Invocation
<1>2. CASE run'[i] = run[i]
  BY <1>1, <1>2
<1>3. ASSUME NEW p \in Process, NEW s \in Slot, Begin(p, s)
      PROVE  Reminded(a, run[i].phase, run[i].today)'
  <2>1. i # <<p, s>>
    BY <1>1, <1>3, RestingIsIdle DEF Begin
  <2> QED BY <1>2, <1>3, <2>1 DEF Begin, TypeOK, Invocations
<1>4. ASSUME NEW p \in Process, NEW s \in Slot, Check(p, s)
      PROVE  Reminded(a, run[i].phase, run[i].today)'
  <2>1. PICK b \in run[<<p, s>>].todo :
          run' = [run EXCEPT ![<<p, s>>] =
                    IF Found(b, run[<<p, s>>].phase, run[<<p, s>>].today)
                      THEN [run[<<p, s>>] EXCEPT !.todo = @ \ {b}]
                      ELSE [run[<<p, s>>] EXCEPT !.step = "insert", !.at = b]]
    BY <1>4 DEF Check
  <2>2. i = <<p, s>>
    BY <1>2, <1>1, <2>1 DEF TypeOK, Invocations
  <2>3. CASE ~Found(b, run[i].phase, run[i].today)
    <3>1. run' = [run EXCEPT ![i] = [run[i] EXCEPT !.step = "insert", !.at = b]]
      BY <2>1, <2>2, <2>3
    <3>2. run'[i].todo = run[i].todo
      BY <1>1, <3>1 DEF TypeOK, Invocations, Invocation
    <3> QED BY <1>1, <3>2
  <2>4. CASE Found(b, run[i].phase, run[i].today)
    <3>1. run' = [run EXCEPT ![i] = [run[i] EXCEPT !.todo = @ \ {b}]]
      BY <2>1, <2>2, <2>4
    <3>2. /\ run'[i].todo = run[i].todo \ {b} /\ run'[i].phase = run[i].phase
          /\ run'[i].today = run[i].today
      BY <1>1, <3>1 DEF TypeOK, Invocations, Invocation
    <3>3. a = b /\ sent' = sent
      BY <1>1, <1>4, <3>2 DEF Check
    <3>4. PICK other \in Phase, d \in Day :
            /\ d >= run[i].today /\ Contains(other, run[i].phase)
            /\ sent[<<a, other, d>>] > 0
      BY <2>4, <3>3 DEF Found
    <3>5. other = run[i].phase
      BY <1>1, <3>4, KindsAreToldApart
    <3> QED BY <3>2, <3>3, <3>4, <3>5 DEF Reminded
  <2> QED BY <2>3, <2>4
<1>5. ASSUME NEW p \in Process, NEW s \in Slot, Insert(p, s)
      PROVE  Reminded(a, run[i].phase, run[i].today)'
  <2> DEFINE j == <<p, s>>
  <2>1. /\ sent' = [sent EXCEPT ![<<run[j].at, run[j].phase, day>>] = @ + 1]
        /\ run' = [run EXCEPT ![j] =
                     [run[j] EXCEPT !.step = "check", !.todo = @ \ {run[j].at}, !.at = NoAppt]]
    BY <1>5 DEF Insert
  <2>2. i = j
    BY <1>1, <1>2, <2>1 DEF TypeOK, Invocations
  <2> HIDE DEF j
  <2>3. /\ run'[i].todo = run[i].todo \ {run[i].at} /\ run'[i].phase = run[i].phase
        /\ run'[i].today = run[i].today
    BY <1>1, <2>1, <2>2 DEF TypeOK, Invocations, Invocation
  <2>4. a = run[i].at
    BY <1>1, <2>3
  <2>5. day \in Day /\ day >= run[i].today
    BY <1>1, RestingIsIdle DEF BegunByNow, TypeOK, Day
  <2>6. sent[<<a, run[i].phase, day>>] \in Nat
    BY <1>1, <2>5 DEF TypeOK
  <2>7. sent'[<<a, run[i].phase, day>>] = sent[<<a, run[i].phase, day>>] + 1
    BY <1>1, <2>1, <2>2, <2>4, <2>5 DEF TypeOK
  <2>8. sent'[<<a, run[i].phase, day>>] > 0
    BY <2>6, <2>7
  <2> QED BY <2>3, <2>5, <2>8 DEF Reminded
<1>6. ASSUME NEW p \in Process, NEW s \in Slot, List(p, s) \/ NextList(p, s)
      PROVE  Reminded(a, run[i].phase, run[i].today)'
  <2>1. i # <<p, s>>
    BY <1>1, <1>6 DEF List, NextList
  <2>2. run'[i] = run[i]
    BY <1>6, <2>1 DEF List, NextList, TypeOK, Invocations
  <2> QED BY <1>2, <2>2
<1>7. ASSUME NEW p \in Process, NEW s \in Slot, Finish(p, s) \/ Fail(p, s)
      PROVE  Reminded(a, run[i].phase, run[i].today)'
  <2>1. run' = [run EXCEPT ![<<p, s>>] = Resting]
    BY <1>7 DEF Finish, Fail
  <2> QED BY <1>1, <1>2, <2>1 DEF TypeOK, Invocations
<1>8. ASSUME NEW p \in Process, Restart(p)
      PROVE  Reminded(a, run[i].phase, run[i].today)'
  <2>1. run'[i] = IF i[1] = p THEN Resting ELSE run[i]
    BY <1>8 DEF Restart, Invocations
  <2> QED BY <1>1, <1>2, <2>1
<1>9. CASE run' = run
  BY <1>2, <1>9
<1>10. CASE Midnight
  BY <1>9, <1>10 DEF Midnight
<1>11. ASSUME NEW b \in Appt, Reschedule(b) \/ Cancel(b) \/ CompleteWork(b)
       PROVE  Reminded(a, run[i].phase, run[i].today)'
  BY <1>9, <1>11 DEF Reschedule, Cancel, CompleteWork
<1>12. CASE UNCHANGED vars
  BY <1>9, <1>12 DEF vars
<1> QED BY <1>3, <1>4, <1>5, <1>6, <1>7, <1>8, <1>10, <1>11, <1>12 DEF Next, Work

\* An invocation is done with an appointment on its list only when the users
\* are reminded of it since the day the invocation began, for every kind but
\* one day ahead, whose key other keys contain.
THEOREM NobodyIsPassedOver == Spec => ListedIsReminded
<1>1. Init => TypeOK /\ BegunByNow
  BY InitRemind DEF RemindInv
<1>2. TypeOK /\ BegunByNow /\ [Next]_vars => (TypeOK /\ BegunByNow)'
  BY StepTypes, StepBegunByNow
<1>3. TypeOK /\ BegunByNow /\ [Next]_vars
        => [\A i \in DOMAIN run, a \in Appt :
              PassesOver(i, a) /\ Kinds[run[i].phase].days # 1
                => Reminded(a, run[i].phase, run[i].today)']_vars
  <2> SUFFICES ASSUME TypeOK, BegunByNow, [Next]_vars,
                      NEW i \in DOMAIN run, NEW a \in Appt,
                      PassesOver(i, a), Kinds[run[i].phase].days # 1
               PROVE  Reminded(a, run[i].phase, run[i].today)'
    OBVIOUS
  <2>1. i \in Invocations
    BY DEF TypeOK, Invocations
  <2> QED BY <2>1, StepListed
<1> QED BY <1>1, <1>2, <1>3, PTL DEF Spec, ListedIsReminded
=============================================================================
