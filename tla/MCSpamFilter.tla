----------------------------- MODULE MCSpamFilter -----------------------------
(* A small instance of SpamFilter for TLC. *)
EXTENDS SpamFilter, TLC

CONSTANTS rude, bad, phrase

(* Five words with three matches of a rude word, which is 60 percent, and  *)
(* one of a bad one; and symbols, which match although they are no words.  *)
Sizes == [t \in Texts |-> IF t = phrase THEN 5 ELSE 0]

Matched == [t \in Texts |->
  [w \in Words |-> IF w = bad THEN 1 ELSE IF w = rude /\ t = phrase THEN 3 ELSE 0]]

(* The quotients of at most twelve words whose float is too large: those   *)
(* that are equal to 3/5, 6/5 or 3/10.                                     *)
FloatQuotients == {<<3, 5>>, <<6, 5>>, <<3, 10>>, <<6, 10>>, <<12, 10>>}

BrowserSymmetry == Permutations(Administrators) \cup Permutations(Entries)
=============================================================================
