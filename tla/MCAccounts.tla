------------------------------ MODULE MCAccounts ------------------------------
(* Small instances of Accounts for TLC. *)
EXTENDS Accounts, TLC

CONSTANTS n1, n2

(* The accounts that are not there from the start compete for one name. *)
OneNewName == [a \in Accounts |-> IF a \in Founders THEN n1 ELSE n2]

NewAccounts == Permutations(Accounts \ Founders)

ObjectSymmetry == Permutations(Objects) \cup Permutations(Threads) \cup NewAccounts
=============================================================================
