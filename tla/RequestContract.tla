--------------------------- MODULE RequestContract ---------------------------
(***************************************************************************)
(* What the framework promises about a request, whatever transactions it   *)
(* takes to serve it: the work of the service becomes durable at most      *)
(* once, as a whole, before the answer is given; the requested view is     *)
(* answered only if it did, the form with its errors only if it did not,   *)
(* and every request is answered.                                          *)
(***************************************************************************)
CONSTANT Threads

VARIABLES
  serving,    \* does the thread serve a request?
  durable,    \* is the work of its last request in the database?
  answer      \* the last view it returned

cvars == <<serving, durable, answer>>

Answers == {"ok", "errors", "panic", "escaped"}

ContractTypeOK ==
  /\ serving \in [Threads -> BOOLEAN]
  /\ durable \in [Threads -> BOOLEAN]
  /\ answer \in [Threads -> Answers \cup {"none"}]

ContractInit ==
  /\ serving = [t \in Threads |-> FALSE]
  /\ durable = [t \in Threads |-> FALSE]
  /\ answer  = [t \in Threads |-> "none"]

Accept(t) ==
  /\ ~serving[t]
  /\ serving' = [serving EXCEPT ![t] = TRUE]
  /\ durable' = [durable EXCEPT ![t] = FALSE]
  /\ answer'  = [answer EXCEPT ![t] = "none"]

MakeDurable(t) ==
  /\ serving[t] /\ ~durable[t]
  /\ durable' = [durable EXCEPT ![t] = TRUE]
  /\ UNCHANGED <<serving, answer>>

AnswerWith(t, view) ==
  /\ serving[t]
  /\ view = "ok" => durable[t]
  /\ view = "errors" => ~durable[t]
  /\ serving' = [serving EXCEPT ![t] = FALSE]
  /\ answer'  = [answer EXCEPT ![t] = view]
  /\ UNCHANGED durable

AnswerSomehow(t) == \E view \in Answers : AnswerWith(t, view)

ContractNext == \E t \in Threads : Accept(t) \/ MakeDurable(t) \/ AnswerSomehow(t)

ContractSafety == ContractInit /\ [][ContractNext]_cvars

Contract ==
  ContractSafety /\ \A t \in Threads : WF_cvars(AnswerSomehow(t))
=============================================================================
