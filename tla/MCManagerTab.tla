----------------------------- MODULE MCManagerTab -----------------------------
(* A small instance of ManagerTab for TLC. *)
EXTENDS ManagerTab

CONSTANTS t1, t2

Row(start, end, workload, isPublic) ==
  [start |-> start, end |-> end, workload |-> workload, isPublic |-> isPublic]

(* Two public tasks of two hours, from six to eight in the morning, days   *)
(* apart; a private one of an hour and five minutes; and one of an hour    *)
(* and fifty minutes.                                                      *)
Contents == {Row(54, 56, 120, TRUE), Row(120, 150, 65, FALSE), Row(240, 242, 110, TRUE)}

Typed == {24, 55, 300}

(* Sixty tasks of about fifty hours, the sum of whose decimal hours is so  *)
(* close to whole minutes that the rounding of Floats decides.             *)
Many == [i \in 1..60 |-> IF i = 60 THEN 3036 ELSE 3013]

(* All pairs of durations below two hours, and all triples of some of      *)
(* them; the tasks of the tab come on top.                                 *)
Lists ==
  [1..2 -> 0..119] \cup [1..3 -> {0, 1, 5, 6, 7, 9, 10, 15, 33, 45, 58, 59, 60, 75, 119}]
    \cup {Many}
=============================================================================
