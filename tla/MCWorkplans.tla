----------------------------- MODULE MCWorkplans -----------------------------
(* Small instances of Workplans for TLC. *)
EXTENDS Workplans, TLC

CONSTANTS m1, m2, c1

(* All browsers are of the same manager. *)
Colleagues == [c \in Clients |-> m1]

(* One browser of the first manager, the others of the second one. *)
Rivals == [c \in Clients |-> IF c = c1 THEN m1 ELSE m2]

(* A task changes once after it was created, a plan twice: forms of three  *)
(* ages meet.                                                              *)
FewChanges == [x \in Ids |-> IF x \in Tasks THEN 1 ELSE 2]
=============================================================================
