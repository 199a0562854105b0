-------------------------- MODULE RequestLifecycle --------------------------
(***************************************************************************)
(* How AbstractController.handleRequest runs the transactions of a         *)
(* request.  Every feature controller is a singleton whose field           *)
(* 'transactionStatus' holds the status of "the" current transaction; the  *)
(* container serves requests on several threads, each request needs a      *)
(* connection of a small pool for each transaction, and creating an entity *)
(* draws its identifier through a second connection.                       *)
(*                                                                         *)
(* A status that is null and one whose transaction is completed behave     *)
(* alike (isTransactionActive() is false, completing it throws): both are  *)
(* Inactive.  A transaction is named by the thread that opened it.         *)
(***************************************************************************)
EXTENDS Integers, FiniteSets

CONSTANTS
  Threads,        \* worker threads of the servlet container
  Controllers,    \* the controller beans
  PoolSize,       \* spring.datasource.hikari.maximum-pool-size
  Overlap,        \* may a bean get a request while it serves another one?
  NoThread,
  NoController

ASSUME ThreadsAssumption == NoThread \notin Threads
ASSUME ControllersAssumption == NoController \notin Controllers
ASSUME PoolAssumption == PoolSize \in Nat \ {0}
ASSUME OverlapAssumption == Overlap \in BOOLEAN

VARIABLES
  pc,         \* the next statement of handleRequest each thread executes
  stage,      \* the transaction it is about: work, after (onSuccess and
              \* onFailure), undo (rollback in the catch block), recover
  ctrl,       \* the bean whose handler the thread executes
  wrapped,    \* is the handler's local 'service' not null?
  errors,     \* does the response have errors?
  answer,     \* the last view returned by the thread
  status,     \* AbstractController.transactionStatus, one per bean
  tx,         \* the transaction resources Spring binds to each thread
  work,       \* history: what became of the work of the thread's request
  leaked      \* connections held by transactions nobody can reach

vars == <<pc, stage, ctrl, wrapped, errors, answer, status, tx, work, leaked>>

Inactive == [owner |-> NoThread, joined |-> FALSE]
Status   == [owner : Threads \cup {NoThread}, joined : BOOLEAN]
Live     == {"active", "rollbackOnly"}

TypeOK ==
  /\ pc \in [Threads -> {"idle", "start", "authorise", "dispatch", "nextId",
                         "drawId", "commit", "rollback", "reset", "hook",
                         "catch"}]
  /\ stage \in [Threads -> {"work", "after", "undo", "recover"}]
  /\ ctrl \in [Threads -> Controllers \cup {NoController}]
  /\ \A t \in Threads : ctrl[t] = NoController <=> pc[t] = "idle"
  /\ wrapped \in [Threads -> BOOLEAN]
  /\ errors \in [Threads -> BOOLEAN]
  /\ answer \in [Threads -> {"none", "ok", "errors", "panic", "escaped"}]
  /\ status \in [Controllers -> Status]
  /\ tx \in [Threads -> Live \cup {"none", "closed"}]
  /\ work \in [Threads -> {"none", "open", "committed", "rolledBack",
                           "orphaned"}]
  /\ leaked \in Nat

Init ==
  /\ pc      = [t \in Threads |-> "idle"]
  /\ stage   = [t \in Threads |-> "work"]
  /\ ctrl    = [t \in Threads |-> NoController]
  /\ wrapped = [t \in Threads |-> FALSE]
  /\ errors  = [t \in Threads |-> FALSE]
  /\ answer  = [t \in Threads |-> "none"]
  /\ status  = [c \in Controllers |-> Inactive]
  /\ tx      = [t \in Threads |-> "none"]
  /\ work    = [t \in Threads |-> "none"]
  /\ leaked  = 0

-----------------------------------------------------------------------------
(* The connection pool: a live transaction holds one connection from its   *)
(* beginning to its end, drawing an identifier holds another one.          *)

Lent == leaked + Cardinality({t \in Threads : tx[t] \in Live})
               + Cardinality({t \in Threads : pc[t] = "drawId"})

ConnectionAvailable == Lent < PoolSize

isTransactionActive(s) == s.owner # NoThread

(* Mutant: one field for all the beans, as if it were static. *)
SetStaticStatus(t, s) == status' = [c \in Controllers |-> s]

(* Mutant: a status stays in the field although it is completed. *)
NeverReset(t, s) == status' = [status EXCEPT ![ctrl[t]] = IF s = Inactive THEN @ ELSE s]

(* Assigning this.transactionStatus: the field of the bean that thread t   *)
(* executes, which every thread that executes the same bean shares.        *)
SetStatus(t, s) == status' = [status EXCEPT ![ctrl[t]] = s]

Goto(t, p) == pc' = [pc EXCEPT ![t] = p]

Return(t, view) ==
  /\ Goto(t, "idle")
  /\ answer'  = [answer EXCEPT ![t] = view]
  /\ ctrl'    = [ctrl EXCEPT ![t] = NoController]
  /\ stage'   = [stage EXCEPT ![t] = "work"]
  /\ wrapped' = [wrapped EXCEPT ![t] = FALSE]
  /\ errors'  = [errors EXCEPT ![t] = FALSE]

Enter(t, s, p) ==
  /\ Goto(t, p)
  /\ stage' = [stage EXCEPT ![t] = s]
  /\ UNCHANGED <<ctrl, wrapped, errors, answer>>

(* Mutant: the catch block also handles what it throws itself. *)
CatchAgain(t) == Enter(t, stage[t], "catch")

(* A throwable ends the try block; one thrown in the catch block escapes   *)
(* from the handler and ControllerConfiguration answers it.                *)
Throw(t) ==
  IF stage[t] \in {"work", "after"}
  THEN Enter(t, stage[t], "catch")
  ELSE Return(t, "escaped")

-----------------------------------------------------------------------------
(* The transaction manager.                                                *)

(* Completing the transaction of thread o on thread t: the transaction of  *)
(* o ends, and the resources that are unbound are those of t.  If t is not *)
(* o, the transaction t had opened can no longer be reached and its        *)
(* connection never returns to the pool; if t has no resources to unbind,  *)
(* the clean-up fails before it releases the connection of o.  Thread o is *)
(* left with a closed entity manager.                                      *)
Complete(t, o, outcome) ==
  /\ tx' = [u \in Threads |-> IF u = t THEN "none"
                              ELSE IF u = o THEN "closed" ELSE tx[u]]
  /\ work' = [u \in Threads |->
                IF work[u] # "open" THEN work[u]
                ELSE IF u = o THEN outcome
                ELSE IF u = t THEN "orphaned" ELSE "open"]
  /\ leaked' = IF o # t /\ tx[t] # "closed" THEN leaked + 1 ELSE leaked
  /\ SetStatus(t, Inactive)

CleanUpFails(t) == tx[t] = "none"

(* startTransaction(): a thread that is bound to a live transaction joins  *)
(* it, one that is bound to a closed entity manager cannot begin, and the  *)
(* others wait for a connection until the pool's timeout expires.          *)
StartTransaction(t) ==
  /\ pc[t] = "start"
  /\ \/ /\ tx[t] # "closed"
        /\ tx[t] = "none" => ConnectionAvailable
        /\ tx' = [tx EXCEPT ![t] = IF @ = "none" THEN "active" ELSE @]
        /\ SetStatus(t, [owner |-> t, joined |-> tx[t] # "none"])
        /\ IF stage[t] = "work"
           THEN /\ work' = [work EXCEPT ![t] = "open"]
                /\ Enter(t, "work", "authorise")
           ELSE /\ Enter(t, stage[t], "hook")
                /\ UNCHANGED work
     \/ /\ tx[t] = "closed" \/ (tx[t] = "none" /\ ~ConnectionAvailable)
        /\ Throw(t)
        /\ UNCHANGED <<tx, status, work>>
  /\ UNCHANGED leaked

(* commitTransaction(), up to the call of the transaction manager.  A      *)
(* commit that is not durable throws: the flush found a stale version or a *)
(* broken constraint, or the transaction was marked for rollback.          *)
CommitTransaction(t) ==
  LET s == status[ctrl[t]] IN
  /\ pc[t] = "commit"
  /\ \/ /\ ~isTransactionActive(s)
        /\ Throw(t)
        /\ UNCHANGED <<status, tx, work, leaked>>
     \/ /\ isTransactionActive(s) /\ s.joined
        /\ SetStatus(t, Inactive)
        /\ Enter(t, stage[t], "reset")
        /\ UNCHANGED <<tx, work, leaked>>
     \/ /\ isTransactionActive(s) /\ ~s.joined
        /\ \E durable \in BOOLEAN :
             /\ durable => tx[s.owner] = "active"
             /\ Complete(t, s.owner,
                         IF durable THEN "committed" ELSE "rolledBack")
             /\ IF durable /\ ~CleanUpFails(t)
                THEN Enter(t, stage[t], "reset")
                ELSE Throw(t)

(* rollbackTransaction(), up to the call of the transaction manager.       *)
RollbackTransaction(t) ==
  LET s == status[ctrl[t]] IN
  /\ pc[t] = "rollback"
  /\ \/ /\ ~isTransactionActive(s)
        /\ Throw(t)
        /\ UNCHANGED <<status, tx, work, leaked>>
     \/ /\ isTransactionActive(s) /\ s.joined
        /\ SetStatus(t, Inactive)
        /\ tx' = [tx EXCEPT ![s.owner] =
                    IF @ \in Live THEN "rollbackOnly" ELSE @]
        /\ Enter(t, stage[t], "reset")
        /\ UNCHANGED <<work, leaked>>
     \/ /\ isTransactionActive(s) /\ ~s.joined
        /\ Complete(t, s.owner, "rolledBack")
        /\ IF CleanUpFails(t) THEN Throw(t) ELSE Enter(t, stage[t], "reset")

(* "this.transactionStatus = null", the last statement of both methods,    *)
(* and where the handler goes from there; building the requested view is   *)
(* still in the try block and may throw.                                   *)
ResetStatus(t) ==
  /\ pc[t] = "reset"
  /\ SetStatus(t, Inactive)
  /\ CASE stage[t] = "work" -> Enter(t, "after", "start")
       [] stage[t] = "after" ->
            Return(t, IF errors[t] THEN "errors" ELSE "ok") \/ Throw(t)
       [] stage[t] = "undo" /\ wrapped[t] -> Enter(t, "recover", "start")
       [] OTHER -> Return(t, "panic")
  /\ UNCHANGED <<tx, work, leaked>>

-----------------------------------------------------------------------------
(* The handler.                                                            *)

(* The container gives a request for bean c to a thread of its pool.       *)
Receive(t, c) ==
  /\ pc[t] = "idle"
  /\ Overlap \/ \A u \in Threads : ctrl[u] # c
  /\ Goto(t, "start")
  /\ ctrl' = [ctrl EXCEPT ![t] = c]
  /\ work' = [work EXCEPT ![t] = "none"]
  /\ answer' = [answer EXCEPT ![t] = "none"]
  /\ UNCHANGED <<stage, wrapped, errors, status, tx, leaked>>

(* The command is not registered, the principal lacks the role, or the     *)
(* service refuses or fails; 'service' is set in the second case only.     *)
Refuse(t) ==
  /\ pc[t] = "authorise"
  /\ \E known \in BOOLEAN : wrapped' = [wrapped EXCEPT ![t] = known]
  /\ Goto(t, "catch")
  /\ UNCHANGED <<stage, ctrl, errors, answer, status, tx, work, leaked>>

Authorise(t) ==
  /\ pc[t] = "authorise"
  /\ wrapped' = [wrapped EXCEPT ![t] = TRUE]
  /\ Goto(t, "dispatch")
  /\ UNCHANGED <<stage, ctrl, errors, answer, status, tx, work, leaked>>

(* Mutants: commit whatever the response says; answer at once. *)
CommitAnyway(hasErrors) == "commit"
AnswerAtOnce(hasErrors) == "view"

(* Commit or roll back depending on whether there are errors.              *)
AfterDispatch(hasErrors) == IF hasErrors THEN "rollback" ELSE "commit"

(* doGet and doPost through the 'self' proxy, which demands a transaction  *)
(* of the thread.  They return a response with or without errors ...       *)
Dispatch(t) ==
  /\ pc[t] = "dispatch" /\ tx[t] \in Live
  /\ \E hasErrors \in BOOLEAN :
       /\ errors' = [errors EXCEPT ![t] = hasErrors]
       /\ Goto(t, AfterDispatch(hasErrors))
  /\ UNCHANGED <<stage, ctrl, wrapped, answer, status, tx, work, leaked>>

(* ... or throw, which marks the transaction of the thread, if any.        *)
DispatchThrows(t) ==
  /\ pc[t] = "dispatch"
  /\ tx' = [tx EXCEPT ![t] = IF @ \in Live THEN "rollbackOnly" ELSE @]
  /\ Throw(t)
  /\ UNCHANGED <<status, work, leaked>>

(* service.create saves an entity whose identifier comes from a sequence   *)
(* table, read and updated through another connection of the pool.         *)
DispatchCreate(t) ==
  /\ pc[t] = "dispatch" /\ tx[t] \in Live
  /\ Enter(t, "work", "nextId")
  /\ UNCHANGED <<status, tx, work, leaked>>

DrawIdentifier(t) ==
  /\ pc[t] = "nextId" /\ ConnectionAvailable
  /\ Enter(t, "work", "drawId")
  /\ UNCHANGED <<status, tx, work, leaked>>

IdentifierTimeout(t) ==
  /\ pc[t] = "nextId" /\ ~ConnectionAvailable
  /\ tx' = [tx EXCEPT ![t] = IF @ \in Live THEN "rollbackOnly" ELSE @]
  /\ Throw(t)
  /\ UNCHANGED <<status, work, leaked>>

(* The second connection returns to the pool; the entity manager persists  *)
(* the entity unless another thread closed it in the meantime.             *)
Created(t) ==
  /\ pc[t] = "drawId"
  /\ IF tx[t] \in Live THEN Enter(t, "work", "commit") ELSE Throw(t)
  /\ UNCHANGED <<status, tx, work, leaked>>

(* onSuccess or onFailure.  Only two services override onSuccess, none     *)
(* overrides onFailure, so the latter does nothing.                        *)
Hook(t) ==
  /\ pc[t] = "hook"
  /\ Enter(t, stage[t], "commit")
  /\ UNCHANGED <<status, tx, work, leaked>>

HookThrows(t) ==
  /\ pc[t] = "hook"
  /\ stage[t] = "after" /\ ~errors[t]
  /\ Throw(t)
  /\ UNCHANGED <<status, tx, work, leaked>>

(* Mutant: the catch block forgets the current transaction. *)
CatchWithoutRollback(t) ==
  /\ pc[t] = "catch"
  /\ IF wrapped[t] THEN Enter(t, "recover", "start") ELSE Return(t, "panic")
  /\ UNCHANGED <<status, tx, work, leaked>>

(* The catch block: roll back the current transaction, if any, and run     *)
(* onFailure in a new one if the service is known.                         *)
Catch(t) ==
  /\ pc[t] = "catch"
  /\ IF isTransactionActive(status[ctrl[t]]) THEN Enter(t, "undo", "rollback")
     ELSE IF wrapped[t] THEN Enter(t, "recover", "start")
     ELSE Return(t, "panic")
  /\ UNCHANGED <<status, tx, work, leaked>>

-----------------------------------------------------------------------------
handleRequest(t) ==
  \/ StartTransaction(t) \/ CommitTransaction(t) \/ RollbackTransaction(t)
  \/ ResetStatus(t) \/ Refuse(t) \/ Authorise(t) \/ Dispatch(t)
  \/ DispatchThrows(t) \/ DispatchCreate(t) \/ DrawIdentifier(t)
  \/ IdentifierTimeout(t) \/ Created(t) \/ Hook(t) \/ HookThrows(t)
  \/ Catch(t)

Next == \E t \in Threads : handleRequest(t) \/ \E c \in Controllers : Receive(t, c)

Spec == Init /\ [][Next]_vars

(* A thread that runs a handler keeps running it: the scheduler is fair to *)
(* every thread and a wait for a connection ends at the latest when the    *)
(* pool's timeout expires.  Nobody has to send requests.                   *)
FairSpec == Spec /\ \A t \in Threads : WF_vars(handleRequest(t))

-----------------------------------------------------------------------------
(* The commit or rollback "depending on whether there are errors": a       *)
(* request answered with its requested view has its work committed, one    *)
(* answered with errors has it rolled back.                                *)
AnswerTellsOutcome ==
  \A t \in Threads :
    /\ answer[t] = "ok"     => work[t] = "committed"
    /\ answer[t] = "errors" => work[t] = "rolledBack"

(* Whatever the answer, also after a throwable in any statement of the     *)
(* handler, the work of a request that ended is decided: its transaction   *)
(* was committed or rolled back, and never left open or out of reach.      *)
WorkDecided ==
  \A t \in Threads : pc[t] = "idle" => work[t] \notin {"open", "orphaned"}

(* Between two requests a thread is bound to no transaction, so that the   *)
(* next request it serves, of any bean, cannot join an earlier one's; and  *)
(* no connection is lost to the pool.                                      *)
NothingLeftBehind ==
  /\ leaked = 0
  /\ \A t \in Threads : pc[t] = "idle" => tx[t] = "none"

(* A status that is neither null nor completed stands for a transaction    *)
(* in progress, however the requests of a bean overlap: completing it      *)
(* always completes something, though perhaps not one's own transaction.   *)
ActiveStatusIsLive ==
  \A c \in Controllers :
    isTransactionActive(status[c]) => tx[status[c].owner] \in Live

(* onSuccess and onFailure run in a transaction that was begun after the   *)
(* transaction of the work ended ("executed in fresh transactions").       *)
HooksRunFresh ==
  \A t \in Threads : pc[t] = "hook" =>
    /\ tx[t] = "active" /\ work[t] # "open"
    /\ status[ctrl[t]] = [owner |-> t, joined |-> FALSE]

(* A transaction that is in progress is only ended by a step of the thread *)
(* that began it, although the status that ends it is kept in a field all  *)
(* threads share.                                                          *)
OnlyOwnerEnds ==
  [][\A t \in Threads : tx[t] \in Live /\ tx'[t] \notin Live =>
       pc[t] \in {"commit", "rollback"} /\ pc'[t] # pc[t]]_vars

(* The inductive strengthening of the properties above when the requests   *)
(* of a bean do not overlap: where each thread stands in the handler tells *)
(* whether it holds a transaction of its own, and what became of its work. *)
Holds(t) == tx[t] \in Live /\ status[ctrl[t]] = [owner |-> t, joined |-> FALSE]
Released(t) == tx[t] = "none" /\ status[ctrl[t]] = Inactive
Settled(t) == work[t] = IF errors[t] THEN "rolledBack" ELSE "committed"

IdleInv(t) == pc[t] = "idle" =>
  /\ tx[t] = "none" /\ stage[t] = "work" /\ ~errors[t]
  /\ work[t] \notin {"open", "orphaned"}
  /\ answer[t] = "ok" => work[t] = "committed"
  /\ answer[t] = "errors" => work[t] = "rolledBack"

BusyInv(t) == pc[t] # "idle" =>
  /\ answer[t] = "none"
  /\ stage[t] = "after" => Settled(t)
  /\ stage[t] = "recover" => work[t] \notin {"open", "orphaned"}

WorkInv(t) == pc[t] \in {"authorise", "dispatch", "nextId", "drawId"} =>
  Holds(t) /\ stage[t] = "work" /\ work[t] = "open" /\ ~errors[t]

StartInv(t) == pc[t] = "start" =>
  /\ Released(t) /\ stage[t] # "undo"
  /\ stage[t] = "work" => work[t] = "none" /\ ~errors[t]

HookInv(t) == pc[t] = "hook" =>
  Holds(t) /\ tx[t] = "active" /\ stage[t] \in {"after", "recover"}

CommitInv(t) == pc[t] = "commit" =>
  /\ Holds(t) /\ stage[t] # "undo"
  /\ stage[t] = "work" => work[t] = "open" /\ ~errors[t]

RollbackInv(t) == pc[t] = "rollback" =>
  /\ Holds(t) /\ stage[t] \in {"work", "undo"} /\ work[t] \notin {"none", "orphaned"}
  /\ stage[t] = "work" => work[t] = "open" /\ errors[t]

ResetInv(t) == pc[t] = "reset" =>
  /\ Released(t) /\ work[t] \notin {"open", "orphaned"}
  /\ stage[t] = "work" => Settled(t)

CatchInv(t) == pc[t] = "catch" =>
  /\ stage[t] \in {"work", "after"}
  /\ \/ Holds(t) /\ work[t] \notin {"none", "orphaned"}
     \/ Released(t) /\ work[t] \notin {"open", "orphaned"}

ThreadInv(t) ==
  /\ IdleInv(t) /\ BusyInv(t) /\ WorkInv(t) /\ StartInv(t) /\ HookInv(t)
  /\ CommitInv(t) /\ RollbackInv(t) /\ ResetInv(t) /\ CatchInv(t)

OneRequestPerBean ==
  \A t, u \in Threads : ctrl[t] = ctrl[u] /\ t # u => ctrl[t] = NoController

IdleBeansInactive ==
  \A c \in Controllers : (\A t \in Threads : ctrl[t] # c) => status[c] = Inactive

OwnTransactions ==
  /\ OneRequestPerBean /\ IdleBeansInactive /\ leaked = 0
  /\ \A t \in Threads : ThreadInv(t)

(* Every request that a thread takes is answered in the end, also when the *)
(* threads exhaust the pool and each waits for the others' connections.    *)
EventuallyAnswered ==
  \A t \in Threads : pc[t] # "idle" ~> pc[t] = "idle"

(* The promise of RequestContract is kept: each thread serves one request  *)
(* at a time, and its work is durable when its transaction is committed.   *)
Abstract == INSTANCE RequestContract WITH
  serving <- [t \in Threads |-> pc[t] # "idle"],
  durable <- [t \in Threads |-> work[t] = "committed"]

ContractKept == Abstract!Contract
=============================================================================
