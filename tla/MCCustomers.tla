---------------------------- MODULE MCCustomers ----------------------------
(* An instance of Customers for TLC: two customers, two phone numbers, two   *)
(* requests.                                                                 *)
EXTENDS Customers, TLC

CONSTANTS c1, c2, p1, p2, r1, r2

Symmetry == Permutations({c1, c2}) \cup Permutations({r1, r2})

Previous(type, date, note) ==
  [f \in PreviousField |-> CASE f = "type" -> type [] f = "date" -> date [] OTHER -> note]

Sent(p, s, previous, versioned) ==
  [phone |-> p, secondaryPhone |-> s, previous |-> previous, versioned |-> versioned]

\* The create form leaves blanks out.
FormCreates ==
  {Sent(p2, p1, Previous("value", "value", "omitted"), FALSE)}

\* The edit form sends every field and the version; other clients send some.
AllEdits ==
  {Sent(p1, NoPhone, Previous("blank", "blank", "blank"), TRUE),
   Sent(p2, p1, Previous("value", "value", "blank"), TRUE),
   Sent(p1, p1, Previous("value", "value", "value"), TRUE),
   Sent(Omitted, Omitted, Previous("omitted", "omitted", "value"), FALSE)}
=============================================================================
