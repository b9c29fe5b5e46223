---------------------------- MODULE MCReminders ----------------------------
(* An instance of Reminders for TLC. *)
EXTENDS Reminders, TLC

CONSTANTS a1, p1, s1, s2

\* On the first day: 30 days late, due today, due tomorrow, due in ten days.
ThirtyDaysLateOrDue == {-29, 1, 2, 11}

SlotSymmetry == Permutations({s1, s2})
=============================================================================
