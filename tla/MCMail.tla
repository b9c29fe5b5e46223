-------------------------------- MODULE MCMail --------------------------------
(***************************************************************************)
(* Two parts that share no state, side by side: a behaviour is one of the  *)
(* messages between departments, or of the bulk deletions of a list.       *)
(***************************************************************************)
EXTENDS DirectMessages, BulkDeletion, TLC

CONSTANTS a1, t1, t2, m1, m2, d1, d2, o1, o2

VARIABLE part

Departments == [u \in User |-> IF u = a1 THEN "ADMIN" ELSE "TECHNICIAN"]

Init == part \in {"mail", "lists"} /\ DMInit /\ BulkInit
Next ==
  \/ part = "mail" /\ DMNext /\ UNCHANGED <<part, bulkVars>>
  \/ part = "lists" /\ BulkNext /\ UNCHANGED <<part, dmVars>>
Spec == Init /\ [][Next]_<<part, dmVars, bulkVars>>

Symmetry == Permutations(Message) \cup Permutations(Report) \cup Permutations(Office)
===============================================================================
