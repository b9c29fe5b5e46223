----------------------------- MODULE MCScreens -----------------------------
(* Instances of Screens for TLC: every query of every department. *)
EXTENDS Screens

MCWatched == Query
MCWrites(q) == IF q \in {"notifications", "activity_feed"} THEN 2 ELSE 1
=============================================================================
