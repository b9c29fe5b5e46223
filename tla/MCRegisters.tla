----------------------------- MODULE MCRegisters -----------------------------
(***************************************************************************)
(* Parts that share no state, side by side: a behaviour is one of the      *)
(* maintenance plan of a customer, of a list fetched page by page, of the  *)
(* settings of one user, of the two forms of a technician, or of an access *)
(* code.                                                                   *)
(***************************************************************************)
EXTENDS Planning, Paging, Settings, TechForms, AccessCodes, TLC

CONSTANTS v1, v2, i1, i2, i3, i4, i5, s1, s2, j1, j2, p1, p2, c1, c2

VARIABLE part

\* Before the year: nothing, and 1 January.
Earlier == {None, 0}

\* Rows are numbered in the order of their keys: which row has which key is a
\* matter of names.
Number == (i1 :> 1) @@ (i2 :> 2) @@ (i3 :> 3) @@ (i4 :> 4) @@ (i5 :> 5)
Numbered == \A i, j \in Item : Number[i] < Number[j] => key[i] <= key[j]

\* Settings: a behaviour ends when saves have crossed, which SettingsSettle
\* excepts for good.

otherThanPlan == <<pagingVars, settingsVars, formVars, codeVars>>
otherThanList == <<planningVars, settingsVars, formVars, codeVars>>
otherThanSettings == <<planningVars, pagingVars, formVars, codeVars>>
otherThanForms == <<planningVars, pagingVars, settingsVars, codeVars>>
otherThanCodes == <<planningVars, pagingVars, settingsVars, formVars>>

Init ==
  /\ part \in {"plan", "list", "settings", "record", "task", "codes"}
  /\ PlanningInit /\ (part # "plan" => customer = CHOOSE c \in Customers : TRUE)
  /\ PagingInit /\ (IF part = "list" THEN Numbered ELSE Present = {})
  /\ SettingsInit /\ FormsInit
  /\ CodesInit /\ (part # "codes" => codeRow = NoCode)
Next ==
  /\ UNCHANGED part
  /\ \/ part = "plan" /\ PlanningNext /\ UNCHANGED otherThanPlan
     \/ part = "list" /\ PagingNext /\ UNCHANGED otherThanList
     \/ part = "settings" /\ ~crossed /\ SettingsNext /\ UNCHANGED otherThanSettings
     \/ part = "record" /\ RecordNext /\ UNCHANGED otherThanForms
     \/ part = "task" /\ TaskNext /\ UNCHANGED otherThanForms
     \/ part = "codes" /\ CodesNext /\ UNCHANGED otherThanCodes
Spec ==
  Init /\ [][Next]_<<part, planningVars, pagingVars, settingsVars, formVars, codeVars>>
==============================================================================
