----------------------- MODULE RequestLifecycleProofs -----------------------
(***************************************************************************)
(* Proofs about RequestLifecycle, for any number of threads and beans and  *)
(* any size of the pool.  Type correctness holds however the requests      *)
(* overlap; the other results are about a container that gives no bean a   *)
(* request while it serves another one (Overlap = FALSE).                  *)
(***************************************************************************)
EXTENDS RequestLifecycle, TLAPS

USE ThreadsAssumption, ControllersAssumption

(* What the shared helpers do to the control of a thread. *)
LEMMA ControlTyped ==
  ASSUME TypeOK, NEW t \in Threads, pc[t] # "idle",
         \/ \E s \in {"work", "after", "undo", "recover"},
               p \in {"start", "authorise", "dispatch", "nextId", "drawId",
                      "commit", "rollback", "reset", "hook", "catch"} :
              Enter(t, s, p)
         \/ \E v \in {"ok", "errors", "panic", "escaped"} : Return(t, v)
  PROVE  /\ pc' \in [Threads -> {"idle", "start", "authorise", "dispatch",
                      "nextId", "drawId", "commit", "rollback", "reset",
                      "hook", "catch"}]
         /\ stage' \in [Threads -> {"work", "after", "undo", "recover"}]
         /\ ctrl' \in [Threads -> Controllers \cup {NoController}]
         /\ \A u \in Threads : ctrl'[u] = NoController <=> pc'[u] = "idle"
         /\ wrapped' \in [Threads -> BOOLEAN]
         /\ errors' \in [Threads -> BOOLEAN]
         /\ answer' \in [Threads -> {"none", "ok", "errors", "panic", "escaped"}]
<1>1. CASE \E s \in {"work", "after", "undo", "recover"},
               p \in {"start", "authorise", "dispatch", "nextId", "drawId",
                      "commit", "rollback", "reset", "hook", "catch"} :
              Enter(t, s, p)
  BY <1>1 DEF TypeOK, Enter, Goto
<1>2. CASE \E v \in {"ok", "errors", "panic", "escaped"} : Return(t, v)
  BY <1>2 DEF TypeOK, Return, Goto
<1>3. QED BY <1>1, <1>2

(* What the transaction manager does to the resources. *)
ResourcesOK ==
  /\ status \in [Controllers -> Status]
  /\ tx \in [Threads -> Live \cup {"none", "closed"}]
  /\ work \in [Threads -> {"none", "open", "committed", "rolledBack",
                           "orphaned"}]
  /\ leaked \in Nat

LEMMA CompleteTyped ==
  ASSUME TypeOK, NEW t \in Threads, NEW o, NEW outcome \in {"committed", "rolledBack"},
         ctrl[t] \in Controllers, Complete(t, o, outcome)
  PROVE  ResourcesOK'
BY DEF TypeOK, ResourcesOK, Complete, SetStatus, Status, Inactive, Live

LEMMA SetStatusTyped ==
  ASSUME TypeOK, NEW t \in Threads, ctrl[t] \in Controllers, NEW s \in Status,
         SetStatus(t, s)
  PROVE  status' \in [Controllers -> Status]
BY DEF TypeOK, SetStatus

LEMMA StatusTyped ==
  /\ Inactive \in Status
  /\ \A t \in Threads, j \in BOOLEAN : [owner |-> t, joined |-> j] \in Status
BY DEF Inactive, Status

LEMMA ThrowIsControl ==
  ASSUME TypeOK, NEW t \in Threads, Throw(t)
  PROVE  \/ \E s \in {"work", "after", "undo", "recover"},
               p \in {"start", "authorise", "dispatch", "nextId", "drawId",
                      "commit", "rollback", "reset", "hook", "catch"} :
              Enter(t, s, p)
         \/ \E v \in {"ok", "errors", "panic", "escaped"} : Return(t, v)
BY DEF Throw, TypeOK

(* Where the handler goes when it has reset its status. *)
LEMMA ResetGoes ==
  ASSUME TypeOK, NEW t \in Threads, ResetStatus(t)
  PROVE  \/ stage[t] = "work" /\ Enter(t, "after", "start")
         \/ stage[t] = "after" /\ Return(t, IF errors[t] THEN "errors" ELSE "ok")
         \/ stage[t] = "after" /\ Enter(t, "after", "catch")
         \/ stage[t] = "undo" /\ Enter(t, "recover", "start")
         \/ stage[t] \in {"undo", "recover"} /\ Return(t, "panic")
<1>1. stage[t] \in {"work", "after", "undo", "recover"}
  BY DEF TypeOK
<1>2. CASE stage[t] = "after"
  <2>1. Return(t, IF errors[t] THEN "errors" ELSE "ok") \/ Throw(t)
    BY <1>2 DEF ResetStatus
  <2>2. Throw(t) => Enter(t, "after", "catch")
    BY <1>2 DEF Throw
  <2> QED
    BY <1>2, <2>1, <2>2
<1>3. CASE stage[t] # "after"
  BY <1>1, <1>3 DEF ResetStatus
<1> QED
  BY <1>2, <1>3

LEMMA TypeStep == TypeOK /\ [Next]_vars => TypeOK'
<1> SUFFICES ASSUME TypeOK, [Next]_vars PROVE TypeOK'
  OBVIOUS
<1> DEFINE Control(t) ==
      \/ \E s \in {"work", "after", "undo", "recover"},
            p \in {"start", "authorise", "dispatch", "nextId", "drawId",
                   "commit", "rollback", "reset", "hook", "catch"} :
           Enter(t, s, p)
      \/ \E v \in {"ok", "errors", "panic", "escaped"} : Return(t, v)
<1>1. ASSUME NEW t \in Threads, pc[t] # "idle", Control(t), ResourcesOK'
      PROVE  TypeOK'
  BY <1>1, ControlTyped DEF TypeOK, ResourcesOK
<1>2. ASSUME NEW t \in Threads, UNCHANGED <<status, tx, work, leaked>>
      PROVE  ResourcesOK'
  BY <1>2 DEF TypeOK, ResourcesOK
<1>3. ASSUME NEW t \in Threads, pc[t] # "idle"
      PROVE  ctrl[t] \in Controllers
  BY <1>3 DEF TypeOK
<1>4. ASSUME NEW t \in Threads, StartTransaction(t) PROVE TypeOK'
  <2>1. pc[t] # "idle" BY <1>4 DEF StartTransaction
  <2>2. ResourcesOK'
    <3>1. (tx[t] # "none") \in BOOLEAN
      OBVIOUS
    <3>2. status' \in [Controllers -> Status]
      BY <1>4, <2>1, <1>3, <3>1, SetStatusTyped, StatusTyped
         DEF StartTransaction, TypeOK
    <3>3. tx' \in [Threads -> Live \cup {"none", "closed"}]
      BY <1>4 DEF StartTransaction, TypeOK, Live
    <3>4. work' \in [Threads -> {"none", "open", "committed", "rolledBack", "orphaned"}]
      BY <1>4 DEF StartTransaction, TypeOK
    <3>5. leaked' \in Nat
      BY <1>4 DEF StartTransaction, TypeOK
    <3>6. QED BY <3>2, <3>3, <3>4, <3>5 DEF ResourcesOK
  <2>3. Control(t)
    BY <1>4, ThrowIsControl DEF StartTransaction, TypeOK
  <2>4. QED BY <1>1, <2>1, <2>2, <2>3
<1>5. ASSUME NEW t \in Threads, CommitTransaction(t) PROVE TypeOK'
  <2>1. pc[t] # "idle" BY <1>5 DEF CommitTransaction
  <2>2. ResourcesOK'
    <3> DEFINE s == status[ctrl[t]]
    <3>1. CASE UNCHANGED <<status, tx, work, leaked>>
      BY <3>1, <1>2
    <3>2. CASE SetStatus(t, Inactive) /\ UNCHANGED <<tx, work, leaked>>
      BY <3>2, <2>1, <1>3, SetStatusTyped, StatusTyped DEF TypeOK, ResourcesOK
    <3>3. ASSUME NEW durable \in BOOLEAN,
                 Complete(t, s.owner, IF durable THEN "committed" ELSE "rolledBack")
          PROVE  ResourcesOK'
      <4>1. (IF durable THEN "committed" ELSE "rolledBack") \in {"committed", "rolledBack"}
        OBVIOUS
      <4>2. QED BY <3>3, <4>1, <2>1, <1>3, CompleteTyped
    <3>4. QED BY <1>5, <3>1, <3>2, <3>3 DEF CommitTransaction
  <2>3. Control(t)
    BY <1>5, ThrowIsControl DEF CommitTransaction, TypeOK
  <2>4. QED BY <1>1, <2>1, <2>2, <2>3
<1>6. ASSUME NEW t \in Threads, RollbackTransaction(t) PROVE TypeOK'
  <2>1. pc[t] # "idle" BY <1>6 DEF RollbackTransaction
  <2>2. ResourcesOK'
    <3> DEFINE s == status[ctrl[t]]
    <3>1. CASE UNCHANGED <<status, tx, work, leaked>>
      BY <3>1, <1>2
    <3>2. CASE /\ SetStatus(t, Inactive)
               /\ tx' = [tx EXCEPT ![s.owner] =
                            IF @ \in Live THEN "rollbackOnly" ELSE @]
               /\ UNCHANGED <<work, leaked>>
      <4>1. tx' \in [Threads -> Live \cup {"none", "closed"}]
        BY <3>2 DEF TypeOK, Live
      <4>2. QED
        BY <3>2, <4>1, <2>1, <1>3, SetStatusTyped, StatusTyped DEF TypeOK, ResourcesOK
    <3>3. CASE Complete(t, s.owner, "rolledBack")
      BY <3>3, <2>1, <1>3, CompleteTyped
    <3>4. QED BY <1>6, <3>1, <3>2, <3>3 DEF RollbackTransaction
  <2>3. Control(t)
    BY <1>6, ThrowIsControl DEF RollbackTransaction, TypeOK
  <2>4. QED BY <1>1, <2>1, <2>2, <2>3
<1>7. ASSUME NEW t \in Threads, ResetStatus(t) PROVE TypeOK'
  <2>1. pc[t] # "idle" BY <1>7 DEF ResetStatus
  <2>2. ResourcesOK'
    BY <1>7, <2>1, <1>3 DEF ResetStatus, TypeOK, ResourcesOK, SetStatus, Status, Inactive
  <2>3. Control(t)
    BY <1>7, ResetGoes DEF TypeOK
  <2>4. QED BY <1>1, <2>1, <2>2, <2>3
<1>8. ASSUME NEW t \in Threads, Refuse(t) \/ Authorise(t) \/ Dispatch(t)
      PROVE  TypeOK'
  <2>1. CASE Refuse(t)
    BY <2>1 DEF Refuse, Goto, TypeOK
  <2>2. CASE Authorise(t)
    BY <2>2 DEF Authorise, Goto, TypeOK
  <2>3. CASE Dispatch(t)
    <3>1. PICK hasErrors \in BOOLEAN :
            /\ errors' = [errors EXCEPT ![t] = hasErrors]
            /\ pc' = [pc EXCEPT ![t] = IF hasErrors THEN "rollback" ELSE "commit"]
      BY <2>3 DEF Dispatch, AfterDispatch, Goto
    <3>2. QED BY <2>3, <3>1 DEF Dispatch, TypeOK
  <2>4. QED BY <1>8, <2>1, <2>2, <2>3
<1>9. ASSUME NEW t \in Threads, DispatchThrows(t) \/ IdentifierTimeout(t)
      PROVE  TypeOK'
  <2>1. pc[t] # "idle" BY <1>9 DEF DispatchThrows, IdentifierTimeout
  <2>2. ResourcesOK'
    BY <1>9 DEF DispatchThrows, IdentifierTimeout, TypeOK, ResourcesOK, Live
  <2>3. Control(t)
    BY <1>9, ThrowIsControl DEF DispatchThrows, IdentifierTimeout
  <2>4. QED BY <1>1, <2>1, <2>2, <2>3
<1>10. ASSUME NEW t \in Threads,
              \/ DispatchCreate(t) \/ DrawIdentifier(t) \/ Created(t)
              \/ Hook(t) \/ HookThrows(t) \/ Catch(t)
       PROVE  TypeOK'
  <2>1. pc[t] # "idle" /\ ResourcesOK'
    BY <1>10, <1>2 DEF DispatchCreate, DrawIdentifier, Created, Hook, HookThrows, Catch
  <2>2. Control(t)
    BY <1>10, ThrowIsControl DEF DispatchCreate, DrawIdentifier, Created, Hook,
       HookThrows, Catch, TypeOK
  <2>3. QED BY <1>1, <2>1, <2>2
<1>11. ASSUME NEW t \in Threads, NEW c \in Controllers, Receive(t, c)
       PROVE  TypeOK'
  BY <1>11 DEF Receive, Goto, TypeOK
<1>12. CASE UNCHANGED vars
  BY <1>12 DEF vars, TypeOK
<1>13. QED
  BY <1>4, <1>5, <1>6, <1>7, <1>8, <1>9, <1>10, <1>11, <1>12
     DEF Next, handleRequest

(* Every variable keeps its type, whether or not requests of a bean overlap. *)
THEOREM TypeCorrect == Spec => []TypeOK
<1>1. Init => TypeOK
  BY DEF Init, TypeOK, Status, Inactive, Live
<1>2. QED BY <1>1, TypeStep, PTL DEF Spec

-----------------------------------------------------------------------------
(* With overlap, too: whose transaction the field of a bean stands for.    *)

(* It is one of a thread that still executes the bean.  So no thread ends  *)
(* the transaction that the field of another bean stands for.              *)
StatusInv(c) ==
  LET o == status[c].owner
  IN  o # NoThread => ctrl[o] = c /\ tx[o] \in Live

Fields == \A c \in Controllers : StatusInv(c)

(* A step that ends no transaction, lets only threads go whose transaction *)
(* is in no field, and puts nothing but its own into the field of its bean.*)
LEMMA FieldsStep ==
  ASSUME TypeOK, Fields, NEW t \in Threads,
         \A u \in Threads \ {t} : ctrl'[u] = ctrl[u],
         \A u \in Threads : tx[u] \in Live => tx'[u] \in Live,
         \A c \in Controllers :
           \/ status'[c] = status[c] /\ (status[c].owner = t => ctrl'[t] = ctrl[t])
           \/ status'[c].owner = NoThread
           \/ status'[c].owner = t /\ ctrl'[t] = c /\ tx'[t] \in Live
  PROVE  Fields'
<1> SUFFICES ASSUME NEW c \in Controllers, status'[c].owner # NoThread
             PROVE  ctrl'[status'[c].owner] = c /\ tx'[status'[c].owner] \in Live
  BY DEF Fields, StatusInv, Live
<1>1. CASE status'[c].owner = t /\ ctrl'[t] = c /\ tx'[t] \in Live
  BY <1>1
<1>2. CASE status'[c] = status[c] /\ (status[c].owner = t => ctrl'[t] = ctrl[t])
  <2>1. status[c].owner \in Threads
    BY <1>2 DEF TypeOK, Status
  <2>2. ctrl[status[c].owner] = c /\ tx[status[c].owner] \in Live
    BY <1>2 DEF Fields, StatusInv
  <2> QED
    BY <1>2, <2>1, <2>2
<1> QED
  BY <1>1, <1>2

(* Completing the transaction of the field of one's own bean, or leaving   *)
(* it as it is.                                                            *)
LEMMA CompleteKeepsFields ==
  ASSUME TypeOK, Fields, NEW t \in Threads, ctrl[t] \in Controllers,
         status[ctrl[t]].owner # NoThread, NEW outcome,
         Complete(t, status[ctrl[t]].owner, outcome),
         \A u \in Threads \ {t} : ctrl'[u] = ctrl[u]
  PROVE  Fields'
<1> DEFINE o == status[ctrl[t]].owner
<1>1. o \in Threads /\ ctrl[o] = ctrl[t]
  BY DEF TypeOK, Status, Fields, StatusInv
<1>2. /\ \A u \in Threads \ {t, o} : tx'[u] = tx[u]
      /\ status' = [status EXCEPT ![ctrl[t]] = Inactive]
  BY DEF Complete, SetStatus
<1> SUFFICES ASSUME NEW c \in Controllers, status'[c].owner # NoThread
             PROVE  ctrl'[status'[c].owner] = c /\ tx'[status'[c].owner] \in Live
  BY DEF Fields, StatusInv, Live
<1>3. c # ctrl[t] /\ status'[c] = status[c]
  BY <1>2 DEF TypeOK, Inactive
<1>4. /\ status[c].owner \in Threads
      /\ ctrl[status[c].owner] = c /\ tx[status[c].owner] \in Live
  BY <1>3 DEF TypeOK, Status, Fields, StatusInv
<1> QED
  BY <1>1, <1>2, <1>3, <1>4

LEMMA OthersStay ==
  ASSUME TypeOK, NEW t \in Threads
  PROVE  /\ \A s, p : Enter(t, s, p) => ctrl' = ctrl
         /\ \A v : Return(t, v) => \A u \in Threads \ {t} : ctrl'[u] = ctrl[u]
         /\ Throw(t) => \A u \in Threads \ {t} : ctrl'[u] = ctrl[u]
BY DEF TypeOK, Enter, Return, Throw

(* A step that leaves the transactions and the fields as they are. *)
LEMMA ControlKeepsFields ==
  ASSUME TypeOK, Fields, NEW t \in Threads, UNCHANGED <<status, tx>>,
         \/ \E s, p : Enter(t, s, p)
         \/ ctrl' = ctrl
         \/ /\ status[ctrl[t]].owner # t
            /\ \A u \in Threads \ {t} : ctrl'[u] = ctrl[u]
  PROVE  Fields'
<1>1. \A u \in Threads \ {t} : ctrl'[u] = ctrl[u]
  BY OthersStay
<1>2. ASSUME NEW c \in Controllers, status[c].owner = t PROVE ctrl'[t] = ctrl[t]
  <2>1. ctrl[t] = c
    BY <1>2 DEF Fields, StatusInv
  <2> QED
    BY <1>2, <2>1, OthersStay
<1> QED
  BY <1>1, <1>2, FieldsStep

LEMMA StartKeepsFields ==
  ASSUME TypeOK, Fields, NEW t \in Threads, StartTransaction(t)
  PROVE  Fields'
<1>1. ctrl[t] \in Controllers
  BY DEF TypeOK, StartTransaction
<1>2. CASE /\ tx[t] # "closed"
           /\ tx' = [tx EXCEPT ![t] = IF @ = "none" THEN "active" ELSE @]
           /\ SetStatus(t, [owner |-> t, joined |-> tx[t] # "none"])
           /\ \E s, p : Enter(t, s, p)
  <2>1. ctrl' = ctrl
    BY <1>2, OthersStay
  <2>2. tx'[t] \in Live /\ \A u \in Threads \ {t} : tx'[u] = tx[u]
    BY <1>2 DEF TypeOK, Live
  <2>3. status'[ctrl[t]].owner = t
        /\ \A c \in Controllers \ {ctrl[t]} : status'[c] = status[c]
    BY <1>1, <1>2 DEF TypeOK, SetStatus
  <2> QED
    BY <1>1, <2>1, <2>2, <2>3, FieldsStep
<1>3. CASE /\ tx[t] = "closed" \/ tx[t] = "none"
           /\ Throw(t) /\ UNCHANGED <<tx, status>>
  <2>1. status[ctrl[t]].owner # t
    BY <1>1, <1>3 DEF Fields, StatusInv, Live
  <2> QED
    BY <1>3, <2>1, OthersStay, ControlKeepsFields
<1> QED
  BY <1>2, <1>3 DEF StartTransaction

LEMMA EndKeepsFields ==
  ASSUME TypeOK, Fields, NEW t \in Threads, CommitTransaction(t) \/ RollbackTransaction(t)
  PROVE  Fields'
<1> DEFINE s == status[ctrl[t]]
<1>1. ctrl[t] \in Controllers
  BY DEF TypeOK, CommitTransaction, RollbackTransaction
<1>2. \A u \in Threads \ {t} : ctrl'[u] = ctrl[u]
  BY OthersStay DEF CommitTransaction, RollbackTransaction
<1>3. CASE ~isTransactionActive(s) /\ UNCHANGED <<status, tx>>
  <2>1. s.owner # t
    BY <1>3 DEF isTransactionActive
  <2> QED
    BY <1>2, <1>3, <2>1, ControlKeepsFields
<1>4. CASE /\ isTransactionActive(s) /\ SetStatus(t, Inactive)
           /\ \A u \in Threads : tx[u] \in Live => tx'[u] \in Live
  <2>1. status'[ctrl[t]].owner = NoThread
        /\ \A c \in Controllers \ {ctrl[t]} : status'[c] = status[c]
    BY <1>1, <1>4 DEF TypeOK, SetStatus, Inactive
  <2>2. \A c \in Controllers : status[c].owner = t => c = ctrl[t]
    BY DEF Fields, StatusInv
  <2> QED
    BY <1>2, <1>4, <2>1, <2>2, FieldsStep
<1>5. CASE isTransactionActive(s) /\ \E outcome : Complete(t, s.owner, outcome)
  BY <1>1, <1>2, <1>5, CompleteKeepsFields DEF isTransactionActive
<1>6. CASE CommitTransaction(t)
  BY <1>3, <1>4, <1>5, <1>6 DEF CommitTransaction
<1>7. CASE RollbackTransaction(t)
  <2>1. CASE /\ isTransactionActive(s) /\ SetStatus(t, Inactive)
             /\ tx' = [tx EXCEPT ![s.owner] = IF @ \in Live THEN "rollbackOnly" ELSE @]
    <3>1. \A u \in Threads : tx[u] \in Live => tx'[u] \in Live
      BY <2>1 DEF TypeOK, Live
    <3> QED
      BY <1>4, <2>1, <3>1
  <2> QED
    BY <1>3, <1>5, <1>7, <2>1 DEF RollbackTransaction
<1> QED
  BY <1>6, <1>7

(* The try block up to the end of the work is about the work. *)
Working == {"authorise", "dispatch", "nextId", "drawId"}

Stages == \A t \in Threads : pc[t] \in Working => stage[t] = "work"

LEMMA StagesNext == TypeOK /\ Stages /\ [Next]_vars => Stages'
<1> SUFFICES ASSUME TypeOK, Stages, [Next]_vars PROVE Stages'
  OBVIOUS
<1>1. CASE UNCHANGED vars
  BY <1>1 DEF vars, Stages
<1>2. ASSUME NEW t \in Threads,
             \/ \E s, p : Enter(t, s, p) /\ (p \in Working => s = "work")
             \/ \E v : Return(t, v)
      PROVE  Stages'
  BY <1>2 DEF TypeOK, Stages, Enter, Return, Goto, Working
<1>3. ASSUME NEW t \in Threads, Throw(t) PROVE Stages'
  BY <1>2, <1>3 DEF Throw, Working
<1>4. ASSUME NEW t \in Threads, StartTransaction(t) PROVE Stages'
  BY <1>2, <1>3, <1>4 DEF StartTransaction, Working
<1>5. ASSUME NEW t \in Threads, CommitTransaction(t) \/ RollbackTransaction(t) PROVE Stages'
  BY <1>2, <1>3, <1>5 DEF CommitTransaction, RollbackTransaction, Working
<1>6. ASSUME NEW t \in Threads, ResetStatus(t) PROVE Stages'
  BY <1>2, <1>6, ResetGoes DEF Working
<1>7. ASSUME NEW t \in Threads, Refuse(t) \/ Authorise(t) \/ Dispatch(t) PROVE Stages'
  BY <1>7 DEF TypeOK, Stages, Refuse, Authorise, Dispatch, Goto, AfterDispatch, Working
<1>8. ASSUME NEW t \in Threads,
             \/ DispatchThrows(t) \/ IdentifierTimeout(t) \/ DispatchCreate(t)
             \/ DrawIdentifier(t) \/ Created(t) \/ Hook(t) \/ HookThrows(t)
      PROVE  Stages'
  BY <1>2, <1>3, <1>8 DEF DispatchThrows, IdentifierTimeout, DispatchCreate, DrawIdentifier,
     Created, Hook, HookThrows, Working
<1>9. ASSUME NEW t \in Threads, Catch(t) PROVE Stages'
  BY <1>2, <1>9 DEF Catch, Working
<1>10. ASSUME NEW t \in Threads, NEW c \in Controllers, Receive(t, c) PROVE Stages'
  BY <1>10 DEF TypeOK, Stages, Receive, Goto, Working
<1> QED
  BY <1>1, <1>4, <1>5, <1>6, <1>7, <1>8, <1>9, <1>10 DEF Next, handleRequest

LEMMA FieldsNext == TypeOK /\ Stages /\ Fields /\ [Next]_vars => Fields'
<1> SUFFICES ASSUME TypeOK, Stages, Fields, [Next]_vars PROVE Fields'
  OBVIOUS
<1>1. CASE UNCHANGED vars
  BY <1>1 DEF vars, Fields, StatusInv
<1>2. ASSUME NEW t \in Threads, ResetStatus(t) PROVE Fields'
  <2>1. ctrl[t] \in Controllers
    BY <1>2 DEF TypeOK, ResetStatus
  <2>2. status'[ctrl[t]].owner = NoThread
        /\ \A c \in Controllers \ {ctrl[t]} : status'[c] = status[c]
    BY <1>2, <2>1 DEF TypeOK, ResetStatus, SetStatus, Inactive
  <2>3. \A u \in Threads \ {t} : ctrl'[u] = ctrl[u]
    <3>1. (\E s, p : Enter(t, s, p)) \/ (\E v : Return(t, v))
      BY <1>2, ResetGoes
    <3> QED
      BY <3>1, OthersStay
  <2>4. \A c \in Controllers : status[c].owner = t => c = ctrl[t]
    BY DEF Fields, StatusInv
  <2>5. tx' = tx
    BY <1>2 DEF ResetStatus
  <2> QED
    BY <2>2, <2>3, <2>4, <2>5, FieldsStep
<1>3. ASSUME NEW t \in Threads, Refuse(t) \/ Authorise(t) \/ Dispatch(t) PROVE Fields'
  BY <1>3, ControlKeepsFields DEF Refuse, Authorise, Dispatch
<1>4. ASSUME NEW t \in Threads, DispatchThrows(t) \/ IdentifierTimeout(t) PROVE Fields'
  <2>1. /\ tx' = [tx EXCEPT ![t] = IF @ \in Live THEN "rollbackOnly" ELSE @]
        /\ Throw(t) /\ status' = status
    BY <1>4 DEF DispatchThrows, IdentifierTimeout
  <2>2. \A u \in Threads : tx[u] \in Live => tx'[u] \in Live
    BY <2>1 DEF TypeOK, Live
  <2>3. stage[t] = "work"
    BY <1>4 DEF Stages, Working, DispatchThrows, IdentifierTimeout
  <2>4. ctrl' = ctrl
    BY <2>1, <2>3 DEF Throw, Enter
  <2> QED
    BY <2>1, <2>2, <2>4, FieldsStep
<1>5. ASSUME NEW t \in Threads,
             DispatchCreate(t) \/ DrawIdentifier(t) \/ Hook(t)
      PROVE  Fields'
  BY <1>5, ControlKeepsFields DEF DispatchCreate, DrawIdentifier, Hook
<1>6. ASSUME NEW t \in Threads, Created(t) \/ HookThrows(t) PROVE Fields'
  <2>1. UNCHANGED <<status, tx>> /\ (Throw(t) \/ \E s, p : Enter(t, s, p))
    BY <1>6 DEF Created, HookThrows
  <2>2. stage[t] \in {"work", "after"}
    BY <1>6 DEF Stages, Working, Created, HookThrows
  <2> QED
    BY <2>1, <2>2, ControlKeepsFields DEF Throw
<1>7. ASSUME NEW t \in Threads, Catch(t) PROVE Fields'
  <2>1. CASE \E s, p : Enter(t, s, p)
    BY <1>7, <2>1, ControlKeepsFields DEF Catch
  <2>2. CASE ~isTransactionActive(status[ctrl[t]]) /\ Return(t, "panic")
    <3>1. status[ctrl[t]].owner # t
      BY <2>2 DEF isTransactionActive
    <3> QED
      BY <1>7, <2>2, <3>1, OthersStay, ControlKeepsFields DEF Catch
  <2> QED
    BY <1>7, <2>1, <2>2 DEF Catch
<1>8. ASSUME NEW t \in Threads, NEW c \in Controllers, Receive(t, c) PROVE Fields'
  <2>1. ctrl[t] = NoController /\ ctrl' = [ctrl EXCEPT ![t] = c] /\ UNCHANGED <<status, tx>>
    BY <1>8 DEF TypeOK, Receive
  <2>2. \A d \in Controllers : status[d].owner # t
    BY <2>1 DEF Fields, StatusInv
  <2>3. \A u \in Threads \ {t} : ctrl'[u] = ctrl[u]
    BY <2>1
  <2> QED
    BY <2>1, <2>2, <2>3, FieldsStep
<1> QED
  BY <1>1, <1>2, <1>3, <1>4, <1>5, <1>6, <1>7, <1>8, StartKeepsFields, EndKeepsFields
     DEF Next, handleRequest

(* However the requests of a bean overlap, completing the status of a bean *)
(* that is not completed ends a transaction in progress.                   *)
THEOREM ActiveMeansLive == Spec => []ActiveStatusIsLive
<1>1. Init => Fields
  BY DEF Init, Fields, StatusInv, Inactive
<1>2. Fields => ActiveStatusIsLive
  BY DEF Fields, StatusInv, ActiveStatusIsLive, isTransactionActive
<1>3. Init => Stages
  BY DEF Init, Stages, Working
<1>4. QED BY <1>1, <1>2, <1>3, FieldsNext, StagesNext, TypeCorrect, PTL DEF Spec

-----------------------------------------------------------------------------
(* Without overlap: a step of a thread is a step about its own state, the  *)
(* field of its own bean, and nothing else.                                *)

KeepsThread(u) ==
  /\ pc'[u] = pc[u] /\ stage'[u] = stage[u] /\ ctrl'[u] = ctrl[u]
  /\ wrapped'[u] = wrapped[u] /\ errors'[u] = errors[u]
  /\ answer'[u] = answer[u] /\ tx'[u] = tx[u] /\ work'[u] = work[u]

OwnStep(t, c) ==
  /\ \A u \in Threads : u # t => KeepsThread(u)
  /\ \A d \in Controllers : d # c => status'[d] = status[d]
  /\ leaked' = leaked

LEMMA ControlIsOwn ==
  ASSUME TypeOK, NEW t \in Threads, NEW u \in Threads, u # t,
         \/ \E s, p : Enter(t, s, p)
         \/ \E v : Return(t, v)
  PROVE  /\ pc'[u] = pc[u] /\ stage'[u] = stage[u] /\ ctrl'[u] = ctrl[u]
         /\ wrapped'[u] = wrapped[u] /\ errors'[u] = errors[u]
         /\ answer'[u] = answer[u]
<1>1. CASE \E s, p : Enter(t, s, p)
  BY <1>1 DEF TypeOK, Enter, Goto
<1>2. CASE \E v : Return(t, v)
  BY <1>2 DEF TypeOK, Return, Goto
<1>3. QED BY <1>1, <1>2

(* The invariant of every thread that does not move is kept. *)
LEMMA OthersKeepInv ==
  ASSUME TypeOK, OwnTransactions, NEW t \in Threads, NEW c \in Controllers,
         OwnStep(t, c), ctrl[t] \in {c, NoController},
         ctrl[t] = NoController => \A u \in Threads : ctrl[u] # c,
         NEW u \in Threads, u # t
  PROVE  ThreadInv(u)'
<1>1. KeepsThread(u) BY DEF OwnStep
<1>2. ThreadInv(u) BY DEF OwnTransactions
<1>3. pc[u] # "idle" => ctrl[u] \in Controllers /\ ctrl[u] # c
  BY DEF TypeOK, OwnTransactions, OneRequestPerBean
<1>4. pc[u] # "idle" => status'[ctrl'[u]] = status[ctrl[u]]
  BY <1>1, <1>3 DEF OwnStep, KeepsThread
<1> USE <1>1, <1>2, <1>4 DEF KeepsThread, ThreadInv
<1>5. IdleInv(u)' /\ BusyInv(u)'
  BY DEF IdleInv, BusyInv, Settled
<1>6. WorkInv(u)' /\ StartInv(u)' /\ HookInv(u)'
  BY DEF WorkInv, StartInv, HookInv, Holds, Released
<1>7. CommitInv(u)' /\ RollbackInv(u)'
  BY DEF CommitInv, RollbackInv, Holds
<1>8. ResetInv(u)' /\ CatchInv(u)'
  BY DEF ResetInv, CatchInv, Holds, Released, Settled
<1>9. QED BY <1>5, <1>6, <1>7, <1>8

(* So it is enough to look at the thread that moves. *)
LEMMA OwnStepSuffices ==
  ASSUME TypeOK, TypeOK', OwnTransactions,
         NEW t \in Threads, ctrl[t] \in Controllers,
         OwnStep(t, ctrl[t]), ThreadInv(t)',
         ctrl'[t] = ctrl[t] \/ (ctrl'[t] = NoController /\ status'[ctrl[t]] = Inactive)
  PROVE  OwnTransactions'
<1>1. \A u \in Threads : ThreadInv(u)'
  BY OthersKeepInv
<1>2. OneRequestPerBean'
  BY DEF OwnTransactions, OneRequestPerBean, OwnStep, KeepsThread
<1>3. IdleBeansInactive'
  <2> SUFFICES ASSUME NEW c \in Controllers, \A u \in Threads : ctrl'[u] # c
               PROVE  status'[c] = Inactive
    BY DEF IdleBeansInactive
  <2>1. CASE c = ctrl[t]
    BY <2>1
  <2>2. CASE c # ctrl[t]
    <3>1. \A u \in Threads : ctrl[u] # c
      BY <2>2 DEF OwnStep, KeepsThread
    <3>2. QED BY <2>2, <3>1 DEF OwnStep, OwnTransactions, IdleBeansInactive
  <2>3. QED BY <2>1, <2>2
<1>4. leaked' = 0
  BY DEF OwnStep, OwnTransactions
<1>5. QED BY <1>1, <1>2, <1>3, <1>4 DEF OwnTransactions

(* Completing one's own transaction touches nobody else's. *)
LEMMA CompleteOwn ==
  ASSUME TypeOK, NEW t \in Threads, ctrl[t] \in Controllers,
         NEW outcome, Complete(t, t, outcome)
  PROVE  /\ tx'[t] = "none" /\ status'[ctrl[t]] = Inactive
         /\ work'[t] = IF work[t] = "open" THEN outcome ELSE work[t]
         /\ \A u \in Threads : u # t => tx'[u] = tx[u] /\ work'[u] = work[u]
         /\ \A d \in Controllers : d # ctrl[t] => status'[d] = status[d]
         /\ leaked' = leaked
BY DEF TypeOK, Complete, SetStatus

LEMMA EnterOwn ==
  ASSUME TypeOK, NEW t \in Threads, NEW s, NEW p, Enter(t, s, p)
  PROVE  /\ pc'[t] = p /\ stage'[t] = s /\ ctrl'[t] = ctrl[t]
         /\ wrapped'[t] = wrapped[t] /\ errors'[t] = errors[t]
         /\ answer'[t] = answer[t]
BY DEF TypeOK, Enter, Goto

LEMMA ReturnOwn ==
  ASSUME TypeOK, NEW t \in Threads, NEW v, Return(t, v)
  PROVE  /\ pc'[t] = "idle" /\ stage'[t] = "work" /\ ctrl'[t] = NoController
         /\ wrapped'[t] = FALSE /\ errors'[t] = FALSE /\ answer'[t] = v
BY DEF TypeOK, Return, Goto

LEMMA ThrowOwn ==
  ASSUME TypeOK, NEW t \in Threads, Throw(t)
  PROVE  \/ /\ stage[t] \in {"work", "after"}
            /\ pc'[t] = "catch" /\ stage'[t] = stage[t] /\ ctrl'[t] = ctrl[t]
            /\ wrapped'[t] = wrapped[t] /\ errors'[t] = errors[t]
            /\ answer'[t] = answer[t]
         \/ /\ stage[t] \in {"undo", "recover"}
            /\ pc'[t] = "idle" /\ stage'[t] = "work" /\ ctrl'[t] = NoController
            /\ errors'[t] = FALSE /\ answer'[t] = "escaped"
<1>1. CASE stage[t] \in {"work", "after"}
  <2>1. Enter(t, stage[t], "catch")
    BY <1>1 DEF Throw
  <2>2. QED BY <1>1, <2>1, EnterOwn
<1>2. CASE stage[t] \notin {"work", "after"}
  <2>1. Return(t, "escaped") /\ stage[t] \in {"undo", "recover"}
    BY <1>2 DEF Throw, TypeOK
  <2>2. QED BY <2>1, ReturnOwn
<1>3. QED BY <1>1, <1>2

LEMMA StartKeeps ==
  ASSUME TypeOK, TypeOK', OwnTransactions, NEW t \in Threads, StartTransaction(t)
  PROVE  OwnTransactions' /\ OwnStep(t, ctrl[t])
<1>1. pc[t] = "start" /\ ctrl[t] \in Controllers /\ ThreadInv(t)
  BY DEF StartTransaction, OwnTransactions, TypeOK
<1>2. Released(t) /\ stage[t] # "undo" /\ answer[t] = "none"
  BY <1>1 DEF ThreadInv, StartInv, BusyInv
<1>3. CASE Throw(t) /\ UNCHANGED <<tx, status, work, leaked>>
  <2>1. OwnStep(t, ctrl[t])
    BY <1>3, ControlIsOwn, ThrowIsControl DEF OwnStep, KeepsThread
  <2>2. ThreadInv(t)'
    BY <1>1, <1>2, <1>3, ThrowOwn
       DEF ThreadInv, IdleInv, BusyInv, WorkInv, StartInv, HookInv, CommitInv,
           RollbackInv, ResetInv, CatchInv, Released, Settled, TypeOK
  <2>3. QED BY <2>1, <2>2, <1>1, <1>2, <1>3, ThrowOwn, OwnStepSuffices DEF Released
<1>4. CASE /\ tx' = [tx EXCEPT ![t] = "active"]
           /\ SetStatus(t, [owner |-> t, joined |-> FALSE])
           /\ leaked' = leaked
           /\ stage[t] = "work" /\ work' = [work EXCEPT ![t] = "open"]
           /\ Enter(t, "work", "authorise")
  <2>1. OwnStep(t, ctrl[t])
    BY <1>4, ControlIsOwn DEF OwnStep, KeepsThread, SetStatus, TypeOK
  <2>2. ThreadInv(t)'
    BY <1>1, <1>2, <1>4, EnterOwn
       DEF ThreadInv, IdleInv, BusyInv, WorkInv, StartInv, HookInv, CommitInv,
           RollbackInv, ResetInv, CatchInv, Holds, SetStatus, Live, TypeOK
  <2>3. QED BY <2>1, <2>2, <1>1, <1>4, EnterOwn, OwnStepSuffices
<1>5. CASE /\ tx' = [tx EXCEPT ![t] = "active"]
           /\ SetStatus(t, [owner |-> t, joined |-> FALSE])
           /\ leaked' = leaked
           /\ stage[t] # "work" /\ work' = work
           /\ Enter(t, stage[t], "hook")
  <2>1. OwnStep(t, ctrl[t])
    BY <1>5, ControlIsOwn DEF OwnStep, KeepsThread, SetStatus, TypeOK
  <2>2. ThreadInv(t)'
    BY <1>1, <1>2, <1>5, EnterOwn
       DEF ThreadInv, IdleInv, BusyInv, WorkInv, StartInv, HookInv, CommitInv,
           RollbackInv, ResetInv, CatchInv, Holds, Settled, SetStatus, Live, TypeOK
  <2>3. QED BY <2>1, <2>2, <1>1, <1>5, EnterOwn, OwnStepSuffices
<1>6. QED
  BY <1>2, <1>3, <1>4, <1>5 DEF StartTransaction, Released

LEMMA CommitKeeps ==
  ASSUME TypeOK, TypeOK', OwnTransactions, NEW t \in Threads, CommitTransaction(t)
  PROVE  OwnTransactions' /\ OwnStep(t, ctrl[t])
<1>1. pc[t] = "commit" /\ ctrl[t] \in Controllers /\ ThreadInv(t)
  BY DEF CommitTransaction, OwnTransactions, TypeOK
<1>2. /\ status[ctrl[t]] = [owner |-> t, joined |-> FALSE]
      /\ stage[t] # "undo" /\ answer[t] = "none"
  BY <1>1 DEF ThreadInv, CommitInv, BusyInv, Holds
<1>3. PICK durable \in BOOLEAN :
        /\ Complete(t, t, IF durable THEN "committed" ELSE "rolledBack")
        /\ IF durable /\ ~CleanUpFails(t) THEN Enter(t, stage[t], "reset")
           ELSE Throw(t)
  BY <1>2 DEF CommitTransaction, isTransactionActive
<1>4. ~CleanUpFails(t)
  BY <1>1 DEF ThreadInv, CommitInv, Holds, Live, CleanUpFails
<1>5. CASE durable
  <2>1. Complete(t, t, "committed") /\ Enter(t, stage[t], "reset")
    BY <1>3, <1>4, <1>5
  <2>2. OwnStep(t, ctrl[t])
    BY <1>1, <2>1, ControlIsOwn, CompleteOwn DEF OwnStep, KeepsThread
  <2>3. ThreadInv(t)'
    <3>1. /\ pc'[t] = "reset" /\ stage'[t] = stage[t] /\ ctrl'[t] = ctrl[t]
          /\ errors'[t] = errors[t] /\ answer'[t] = "none"
          /\ tx'[t] = "none" /\ status'[ctrl[t]] = Inactive
          /\ work'[t] = IF work[t] = "open" THEN "committed" ELSE work[t]
      BY <1>1, <1>2, <2>1, EnterOwn, CompleteOwn
    <3>2. BusyInv(t)' /\ ResetInv(t)'
      BY <1>1, <1>2, <3>1
         DEF ThreadInv, BusyInv, CommitInv, ResetInv, Released, Settled, TypeOK
    <3>3. QED
      BY <3>1, <3>2 DEF ThreadInv, IdleInv, WorkInv, StartInv, HookInv, CommitInv,
         RollbackInv, CatchInv
  <2>4. QED BY <1>1, <2>1, <2>2, <2>3, EnterOwn, OwnStepSuffices
<1>6. CASE ~durable
  <2>1. Complete(t, t, "rolledBack") /\ Throw(t)
    BY <1>3, <1>6
  <2>2. OwnStep(t, ctrl[t])
    BY <1>1, <2>1, ControlIsOwn, ThrowIsControl, CompleteOwn DEF OwnStep, KeepsThread
  <2>3. ThreadInv(t)'
    <3>1. /\ tx'[t] = "none" /\ status'[ctrl[t]] = Inactive
          /\ work'[t] = IF work[t] = "open" THEN "rolledBack" ELSE work[t]
      BY <1>1, <2>1, CompleteOwn
    <3>2. \/ /\ stage[t] \in {"work", "after"}
             /\ pc'[t] = "catch" /\ stage'[t] = stage[t] /\ ctrl'[t] = ctrl[t]
             /\ errors'[t] = errors[t] /\ answer'[t] = "none"
          \/ /\ stage[t] = "recover"
             /\ pc'[t] = "idle" /\ stage'[t] = "work"
             /\ errors'[t] = FALSE /\ answer'[t] = "escaped"
      BY <1>2, <2>1, ThrowOwn
    <3>3. /\ IdleInv(t)' /\ BusyInv(t)' /\ CatchInv(t)'
      BY <1>1, <3>1, <3>2
         DEF ThreadInv, IdleInv, BusyInv, CommitInv, CatchInv, Released, Settled, TypeOK
    <3>4. QED
      BY <3>2, <3>3 DEF ThreadInv, WorkInv, StartInv, HookInv, CommitInv,
         RollbackInv, ResetInv
  <2>4. QED BY <1>1, <2>1, <2>2, <2>3, ThrowOwn, CompleteOwn, OwnStepSuffices
<1>7. QED BY <1>5, <1>6

LEMMA RollbackKeeps ==
  ASSUME TypeOK, TypeOK', OwnTransactions, NEW t \in Threads, RollbackTransaction(t)
  PROVE  OwnTransactions' /\ OwnStep(t, ctrl[t])
<1>1. pc[t] = "rollback" /\ ctrl[t] \in Controllers /\ ThreadInv(t)
  BY DEF RollbackTransaction, OwnTransactions, TypeOK
<1>2. status[ctrl[t]] = [owner |-> t, joined |-> FALSE] /\ ~CleanUpFails(t)
  BY <1>1 DEF ThreadInv, RollbackInv, Holds, Live, CleanUpFails
<1>3. Complete(t, t, "rolledBack") /\ Enter(t, stage[t], "reset")
  BY <1>2 DEF RollbackTransaction, isTransactionActive
<1>4. OwnStep(t, ctrl[t])
  BY <1>1, <1>3, ControlIsOwn, CompleteOwn DEF OwnStep, KeepsThread
<1>5. ThreadInv(t)'
  BY <1>1, <1>3, EnterOwn, CompleteOwn
     DEF ThreadInv, IdleInv, BusyInv, WorkInv, StartInv, HookInv, CommitInv,
         RollbackInv, ResetInv, CatchInv, Released, Settled, TypeOK
<1>6. QED BY <1>1, <1>3, <1>4, <1>5, EnterOwn, OwnStepSuffices

LEMMA ResetKeeps ==
  ASSUME TypeOK, TypeOK', OwnTransactions, NEW t \in Threads, ResetStatus(t)
  PROVE  OwnTransactions' /\ OwnStep(t, ctrl[t])
<1>1. pc[t] = "reset" /\ ctrl[t] \in Controllers /\ ThreadInv(t)
  BY DEF ResetStatus, OwnTransactions, TypeOK
<1>2. /\ status' = [status EXCEPT ![ctrl[t]] = Inactive]
      /\ UNCHANGED <<tx, work, leaked>>
      /\ answer[t] = "none"
  BY <1>1 DEF ResetStatus, SetStatus, ThreadInv, BusyInv
<1>3. \/ stage[t] = "work" /\ Enter(t, "after", "start")
      \/ stage[t] = "after" /\ Return(t, IF errors[t] THEN "errors" ELSE "ok")
      \/ stage[t] = "after" /\ Enter(t, "after", "catch")
      \/ stage[t] = "undo" /\ Enter(t, "recover", "start")
      \/ stage[t] \in {"undo", "recover"} /\ Return(t, "panic")
  BY ResetGoes
<1>4. OwnStep(t, ctrl[t])
  BY <1>1, <1>2, <1>3, ControlIsOwn DEF OwnStep, KeepsThread, TypeOK
<1>5. status'[ctrl[t]] = Inactive
  BY <1>1, <1>2 DEF TypeOK
<1>6. CASE stage[t] = "work" /\ Enter(t, "after", "start")
  <2>1. ThreadInv(t)'
    BY <1>1, <1>2, <1>5, <1>6, EnterOwn
       DEF ThreadInv, IdleInv, BusyInv, WorkInv, StartInv, HookInv, CommitInv,
           RollbackInv, ResetInv, CatchInv, Released, Settled, TypeOK
  <2>2. QED BY <1>1, <1>4, <1>6, <2>1, EnterOwn, OwnStepSuffices
<1>7. CASE stage[t] = "after" /\ Return(t, IF errors[t] THEN "errors" ELSE "ok")
  <2>1. ThreadInv(t)'
    <3>1. /\ pc'[t] = "idle" /\ stage'[t] = "work" /\ errors'[t] = FALSE
          /\ answer'[t] = IF errors[t] THEN "errors" ELSE "ok"
      BY <1>7, ReturnOwn
    <3>2. tx'[t] = "none" /\ work'[t] = work[t] /\ work[t] \notin {"open", "orphaned"}
      BY <1>1, <1>2 DEF ThreadInv, ResetInv, Released
    <3>3. IdleInv(t)'
      BY <1>1, <1>7, <3>1, <3>2 DEF ThreadInv, IdleInv, BusyInv, Settled, TypeOK
    <3>4. QED
      BY <3>1, <3>3 DEF ThreadInv, BusyInv, WorkInv, StartInv, HookInv, CommitInv,
         RollbackInv, ResetInv, CatchInv
  <2>2. QED BY <1>1, <1>4, <1>5, <1>7, <2>1, ReturnOwn, OwnStepSuffices
<1>8. CASE stage[t] = "undo" /\ Enter(t, "recover", "start")
  <2>1. ThreadInv(t)'
    BY <1>1, <1>2, <1>5, <1>8, EnterOwn
       DEF ThreadInv, IdleInv, BusyInv, WorkInv, StartInv, HookInv, CommitInv,
           RollbackInv, ResetInv, CatchInv, Released, Settled, TypeOK
  <2>2. QED BY <1>1, <1>4, <1>8, <2>1, EnterOwn, OwnStepSuffices
<1>9. CASE stage[t] \in {"undo", "recover"} /\ Return(t, "panic")
  <2>1. ThreadInv(t)'
    <3>1. /\ pc'[t] = "idle" /\ stage'[t] = "work" /\ errors'[t] = FALSE
          /\ answer'[t] = "panic"
      BY <1>9, ReturnOwn
    <3>2. tx'[t] = "none" /\ work'[t] = work[t] /\ work[t] \notin {"open", "orphaned"}
      BY <1>1, <1>2 DEF ThreadInv, ResetInv, Released
    <3>3. IdleInv(t)'
      BY <1>1, <1>9, <3>1, <3>2 DEF ThreadInv, IdleInv, BusyInv, Settled, TypeOK
    <3>4. QED
      BY <3>1, <3>3 DEF ThreadInv, BusyInv, WorkInv, StartInv, HookInv, CommitInv,
         RollbackInv, ResetInv, CatchInv
  <2>2. QED BY <1>1, <1>4, <1>5, <1>9, <2>1, ReturnOwn, OwnStepSuffices
<1>10. CASE stage[t] = "after" /\ Enter(t, "after", "catch")
  <2>1. ThreadInv(t)'
    BY <1>1, <1>2, <1>5, <1>10, EnterOwn
       DEF ThreadInv, IdleInv, BusyInv, WorkInv, StartInv, HookInv, CommitInv,
           RollbackInv, ResetInv, CatchInv, Released, Settled, TypeOK
  <2>2. QED BY <1>1, <1>4, <1>10, <2>1, EnterOwn, OwnStepSuffices
<1>11. QED BY <1>3, <1>6, <1>7, <1>8, <1>9, <1>10

(* The steps of the handler that leave the transactions alone. *)
LEMMA ControlKeeps ==
  ASSUME TypeOK, TypeOK', OwnTransactions, NEW t \in Threads,
         \/ Refuse(t) \/ Authorise(t) \/ Dispatch(t) \/ DispatchCreate(t)
         \/ DrawIdentifier(t) \/ Created(t) \/ Hook(t)
  PROVE  OwnTransactions' /\ OwnStep(t, ctrl[t])
<1>1. /\ UNCHANGED <<status, tx, work, leaked>>
      /\ pc[t] # "idle" /\ ctrl[t] \in Controllers /\ ThreadInv(t)
  BY DEF Refuse, Authorise, Dispatch, DispatchCreate, DrawIdentifier, Created, Hook,
         OwnTransactions, TypeOK
<1>2. /\ OwnStep(t, ctrl[t])
      /\ ctrl'[t] = ctrl[t] /\ answer'[t] = answer[t] /\ stage'[t] = stage[t]
      /\ \/ pc[t] = "authorise" /\ pc'[t] \in {"catch", "dispatch"} /\ errors'[t] = errors[t]
         \/ pc[t] = "dispatch" /\ pc'[t] = "commit" /\ errors'[t] = FALSE
         \/ pc[t] = "dispatch" /\ pc'[t] = "rollback" /\ errors'[t] = TRUE
         \/ pc[t] = "dispatch" /\ pc'[t] = "nextId" /\ errors'[t] = errors[t]
         \/ pc[t] = "nextId" /\ pc'[t] = "drawId" /\ errors'[t] = errors[t]
         \/ pc[t] = "drawId" /\ pc'[t] = "commit" /\ errors'[t] = errors[t]
         \/ pc[t] = "hook" /\ pc'[t] = "commit" /\ errors'[t] = errors[t]
  <2>1. CASE Refuse(t)
    BY <2>1, <1>1 DEF Refuse, Goto, OwnStep, KeepsThread, TypeOK
  <2>2. CASE Authorise(t)
    BY <2>2, <1>1 DEF Authorise, Goto, OwnStep, KeepsThread, TypeOK
  <2>3. CASE Dispatch(t)
    <3>1. PICK hasErrors \in BOOLEAN :
            /\ errors' = [errors EXCEPT ![t] = hasErrors]
            /\ pc' = [pc EXCEPT ![t] = IF hasErrors THEN "rollback" ELSE "commit"]
      BY <2>3 DEF Dispatch, AfterDispatch, Goto
    <3>2. QED BY <2>3, <3>1, <1>1 DEF Dispatch, OwnStep, KeepsThread, TypeOK
  <2>4. CASE DispatchCreate(t)
    BY <2>4, <1>1 DEF DispatchCreate, Enter, Goto, OwnStep, KeepsThread, TypeOK,
       ThreadInv, WorkInv
  <2>5. CASE DrawIdentifier(t)
    BY <2>5, <1>1 DEF DrawIdentifier, Enter, Goto, OwnStep, KeepsThread, TypeOK,
       ThreadInv, WorkInv
  <2>6. CASE Created(t)
    <3>1. tx[t] \in Live /\ stage[t] = "work"
      BY <2>6, <1>1 DEF Created, ThreadInv, WorkInv, Holds
    <3>2. QED
      BY <2>6, <3>1, <1>1 DEF Created, Enter, Goto, OwnStep, KeepsThread, TypeOK
  <2>7. CASE Hook(t)
    BY <2>7, <1>1 DEF Hook, Enter, Goto, OwnStep, KeepsThread, TypeOK
  <2>8. QED BY <2>1, <2>2, <2>3, <2>4, <2>5, <2>6, <2>7
<1>3. ThreadInv(t)'
  <2>1. Holds(t)' /\ Holds(t) /\ answer[t] = "none"
    BY <1>1, <1>2 DEF Holds, ThreadInv, BusyInv, WorkInv, HookInv
  <2>2. /\ pc[t] # "hook" => stage[t] = "work" /\ work[t] = "open" /\ ~errors[t]
        /\ pc[t] = "hook" => stage[t] \in {"after", "recover"}
    BY <1>1, <1>2 DEF ThreadInv, WorkInv, HookInv
  <2>3. work'[t] = work[t]
    BY <1>1
  <2>4. BusyInv(t)' /\ WorkInv(t)' /\ CommitInv(t)' /\ RollbackInv(t)' /\ CatchInv(t)'
    BY <1>1, <1>2, <2>1, <2>2, <2>3
       DEF ThreadInv, BusyInv, WorkInv, CommitInv, RollbackInv, CatchInv, Settled
  <2>5. IdleInv(t)' /\ StartInv(t)' /\ HookInv(t)' /\ ResetInv(t)'
    BY <1>2 DEF IdleInv, StartInv, HookInv, ResetInv
  <2>6. QED BY <2>4, <2>5 DEF ThreadInv
<1>4. QED BY <1>1, <1>2, <1>3, OwnStepSuffices

LEMMA ThrowKeeps ==
  ASSUME TypeOK, TypeOK', OwnTransactions, NEW t \in Threads,
         DispatchThrows(t) \/ IdentifierTimeout(t) \/ HookThrows(t)
  PROVE  OwnTransactions' /\ OwnStep(t, ctrl[t])
<1>1. pc[t] \in {"dispatch", "nextId", "hook"} /\ ctrl[t] \in Controllers /\ ThreadInv(t)
  BY DEF DispatchThrows, IdentifierTimeout, HookThrows, OwnTransactions, TypeOK
<1>2. /\ Holds(t) /\ stage[t] \in {"work", "after"} /\ answer[t] = "none"
      /\ stage[t] = "work" => work[t] = "open"
      /\ stage[t] = "after" => Settled(t)
  BY <1>1 DEF DispatchThrows, IdentifierTimeout, HookThrows, ThreadInv, WorkInv,
     HookInv, BusyInv
<1>3. /\ Throw(t) /\ UNCHANGED <<status, work, leaked>>
      /\ tx'[t] \in Live /\ \A u \in Threads : u # t => tx'[u] = tx[u]
  <2>1. CASE HookThrows(t)
    BY <2>1, <1>2 DEF HookThrows, Holds
  <2>2. CASE DispatchThrows(t) \/ IdentifierTimeout(t)
    BY <2>2, <1>2 DEF DispatchThrows, IdentifierTimeout, Holds, Live, TypeOK
  <2>3. QED BY <2>1, <2>2
<1>4. OwnStep(t, ctrl[t])
  BY <1>3, ControlIsOwn, ThrowIsControl DEF OwnStep, KeepsThread
<1>5. /\ pc'[t] = "catch" /\ stage'[t] = stage[t] /\ ctrl'[t] = ctrl[t]
      /\ errors'[t] = errors[t] /\ answer'[t] = "none"
  BY <1>2, <1>3, ThrowOwn
<1>6. ThreadInv(t)'
  <2>1. Holds(t)' /\ work'[t] \notin {"none", "orphaned"}
    BY <1>2, <1>3, <1>5 DEF Holds, Settled
  <2>2. BusyInv(t)' /\ CatchInv(t)'
    BY <1>2, <1>3, <1>5, <2>1 DEF BusyInv, CatchInv, Settled
  <2>3. QED
    BY <1>5, <2>2 DEF ThreadInv, IdleInv, WorkInv, StartInv, HookInv, CommitInv,
       RollbackInv, ResetInv
<1>7. QED BY <1>1, <1>4, <1>5, <1>6, OwnStepSuffices

LEMMA CatchKeeps ==
  ASSUME TypeOK, TypeOK', OwnTransactions, NEW t \in Threads, Catch(t)
  PROVE  OwnTransactions' /\ OwnStep(t, ctrl[t])
<1>1. /\ pc[t] = "catch" /\ ctrl[t] \in Controllers /\ ThreadInv(t)
      /\ UNCHANGED <<status, tx, work, leaked>>
  BY DEF Catch, OwnTransactions, TypeOK
<1>2. CatchInv(t) /\ BusyInv(t) /\ answer[t] = "none" /\ stage[t] \in {"work", "after"}
  BY <1>1 DEF ThreadInv, BusyInv, CatchInv
<1>3. CASE isTransactionActive(status[ctrl[t]])
  <2>1. Enter(t, "undo", "rollback")
    BY <1>3 DEF Catch
  <2>2. OwnStep(t, ctrl[t])
    BY <1>1, <2>1, ControlIsOwn DEF OwnStep, KeepsThread
  <2>3. Holds(t) /\ work[t] \notin {"none", "orphaned"}
    BY <1>1, <1>2, <1>3 DEF CatchInv, Released, Inactive, isTransactionActive
  <2>4. ThreadInv(t)'
    BY <1>1, <1>2, <2>1, <2>3, EnterOwn
       DEF ThreadInv, IdleInv, BusyInv, WorkInv, StartInv, HookInv, CommitInv,
           RollbackInv, ResetInv, CatchInv, Holds
  <2>5. QED BY <1>1, <2>1, <2>2, <2>4, EnterOwn, OwnStepSuffices
<1>4. CASE ~isTransactionActive(status[ctrl[t]])
  <2>1. Released(t) /\ work[t] \notin {"open", "orphaned"}
    BY <1>1, <1>2, <1>4 DEF CatchInv, Holds, isTransactionActive
  <2>2. CASE Enter(t, "recover", "start")
    <3>1. OwnStep(t, ctrl[t])
      BY <1>1, <2>2, ControlIsOwn DEF OwnStep, KeepsThread
    <3>2. ThreadInv(t)'
      BY <1>1, <1>2, <2>1, <2>2, EnterOwn
         DEF ThreadInv, IdleInv, BusyInv, WorkInv, StartInv, HookInv, CommitInv,
             RollbackInv, ResetInv, CatchInv, Released
    <3>3. QED BY <1>1, <2>2, <3>1, <3>2, EnterOwn, OwnStepSuffices
  <2>3. CASE Return(t, "panic")
    <3>1. OwnStep(t, ctrl[t])
      BY <1>1, <2>3, ControlIsOwn DEF OwnStep, KeepsThread
    <3>2. ThreadInv(t)'
      <4>1. /\ pc'[t] = "idle" /\ stage'[t] = "work" /\ errors'[t] = FALSE
            /\ answer'[t] = "panic"
        BY <2>3, ReturnOwn
      <4>2. IdleInv(t)'
        BY <1>1, <2>1, <4>1 DEF IdleInv, Released
      <4>3. QED
        BY <4>1, <4>2 DEF ThreadInv, BusyInv, WorkInv, StartInv, HookInv, CommitInv,
           RollbackInv, ResetInv, CatchInv
    <3>3. status'[ctrl[t]] = Inactive
      BY <1>1, <2>1 DEF Released
    <3>4. QED BY <1>1, <2>3, <3>1, <3>2, <3>3, ReturnOwn, OwnStepSuffices
  <2>4. QED BY <1>4, <2>2, <2>3 DEF Catch
<1>5. QED BY <1>3, <1>4

LEMMA ReceiveKeeps ==
  ASSUME TypeOK, TypeOK', OwnTransactions, Overlap = FALSE,
         NEW t \in Threads, NEW c \in Controllers, Receive(t, c)
  PROVE  OwnTransactions' /\ OwnStep(t, c)
<1>1. /\ pc[t] = "idle" /\ ctrl[t] = NoController /\ ThreadInv(t)
      /\ \A u \in Threads : ctrl[u] # c
  BY DEF Receive, OwnTransactions, TypeOK
<1>2. status[c] = Inactive
  BY <1>1 DEF OwnTransactions, IdleBeansInactive
<1>3. OwnStep(t, c)
  BY DEF Receive, Goto, OwnStep, KeepsThread, TypeOK
<1>4. /\ pc'[t] = "start" /\ ctrl'[t] = c /\ work'[t] = "none" /\ answer'[t] = "none"
      /\ UNCHANGED <<stage, errors, status, tx, leaked>>
  BY DEF Receive, Goto, TypeOK
<1>5. ThreadInv(t)'
  <2>1. StartInv(t)' /\ BusyInv(t)'
    BY <1>1, <1>2, <1>4 DEF ThreadInv, IdleInv, StartInv, BusyInv, Released
  <2>2. QED
    BY <1>4, <2>1 DEF ThreadInv, IdleInv, WorkInv, HookInv, CommitInv,
       RollbackInv, ResetInv, CatchInv
<1>6. \A u \in Threads : ThreadInv(u)'
  BY <1>1, <1>3, <1>5, OthersKeepInv
<1>7. OneRequestPerBean'
  BY <1>1, <1>3, <1>4 DEF OwnTransactions, OneRequestPerBean, OwnStep, KeepsThread
<1>8. IdleBeansInactive'
  BY <1>1, <1>3, <1>4 DEF OwnTransactions, IdleBeansInactive, OwnStep, KeepsThread
<1>9. leaked' = 0
  BY <1>4 DEF OwnTransactions
<1>10. QED BY <1>3, <1>6, <1>7, <1>8, <1>9 DEF OwnTransactions

LEMMA OwnTransactionsStep ==
  ASSUME Overlap = FALSE, TypeOK, TypeOK', OwnTransactions, [Next]_vars
  PROVE  OwnTransactions'
<1>1. ASSUME NEW t \in Threads, handleRequest(t) PROVE OwnTransactions'
  BY <1>1, StartKeeps, CommitKeeps, RollbackKeeps, ResetKeeps, ControlKeeps,
     ThrowKeeps, CatchKeeps DEF handleRequest
<1>2. ASSUME NEW t \in Threads, NEW c \in Controllers, Receive(t, c)
      PROVE  OwnTransactions'
  BY <1>2, ReceiveKeeps
<1>3. CASE UNCHANGED vars
  BY <1>3 DEF vars, OwnTransactions, OneRequestPerBean, IdleBeansInactive, ThreadInv,
     IdleInv, BusyInv, WorkInv, StartInv, HookInv, CommitInv, RollbackInv, ResetInv,
     CatchInv, Holds, Released, Settled
<1>4. QED BY <1>1, <1>2, <1>3 DEF Next

-----------------------------------------------------------------------------
(* The theorems about a container that does not overlap the requests of a  *)
(* bean.                                                                   *)

(* In every reachable state a thread inside a handler holds a transaction  *)
(* of its own, in the field of its bean, exactly where the code expects it. *)
THEOREM OwnTransactionsInvariant ==
  ASSUME Overlap = FALSE
  PROVE  Spec => []OwnTransactions
<1>1. Init => OwnTransactions
  BY DEF Init, OwnTransactions, OneRequestPerBean, IdleBeansInactive, ThreadInv,
     IdleInv, BusyInv, WorkInv, StartInv, HookInv, CommitInv, RollbackInv, ResetInv,
     CatchInv
<1>2. TypeOK /\ TypeOK' /\ OwnTransactions /\ [Next]_vars => OwnTransactions'
  BY OwnTransactionsStep
<1>3. QED BY <1>1, <1>2, TypeCorrect, PTL DEF Spec

(* The answer tells what became of the work: "ok" only if it is committed, *)
(* the form with errors only if it is rolled back.                         *)
THEOREM AnswersAreTrue ==
  ASSUME Overlap = FALSE
  PROVE  Spec => []AnswerTellsOutcome
<1>1. TypeOK /\ OwnTransactions => AnswerTellsOutcome
  <2> SUFFICES ASSUME TypeOK, OwnTransactions, NEW t \in Threads
               PROVE  /\ answer[t] = "ok"     => work[t] = "committed"
                      /\ answer[t] = "errors" => work[t] = "rolledBack"
    BY DEF AnswerTellsOutcome
  <2>1. IdleInv(t) /\ BusyInv(t)
    BY DEF OwnTransactions, ThreadInv
  <2>2. QED BY <2>1 DEF IdleInv, BusyInv
<1>2. QED BY <1>1, TypeCorrect, OwnTransactionsInvariant, PTL

(* No request ends with its transaction open or out of reach.              *)
THEOREM WorkIsDecided ==
  ASSUME Overlap = FALSE
  PROVE  Spec => []WorkDecided
<1>1. OwnTransactions => WorkDecided
  BY DEF OwnTransactions, ThreadInv, IdleInv, WorkDecided
<1>2. QED BY <1>1, OwnTransactionsInvariant, PTL

(* No request leaves a transaction or a connection behind.                 *)
THEOREM RequestsLeaveNothing ==
  ASSUME Overlap = FALSE
  PROVE  Spec => []NothingLeftBehind
<1>1. OwnTransactions => NothingLeftBehind
  BY DEF OwnTransactions, ThreadInv, IdleInv, NothingLeftBehind
<1>2. QED BY <1>1, OwnTransactionsInvariant, PTL

(* onSuccess and onFailure run in a transaction begun after the work's one *)
(* ended.                                                                  *)
THEOREM HooksAreFresh ==
  ASSUME Overlap = FALSE
  PROVE  Spec => []HooksRunFresh
<1>1. TypeOK /\ OwnTransactions => HooksRunFresh
  <2> SUFFICES ASSUME TypeOK, OwnTransactions, NEW t \in Threads, pc[t] = "hook"
               PROVE  /\ tx[t] = "active" /\ work[t] # "open"
                      /\ status[ctrl[t]] = [owner |-> t, joined |-> FALSE]
    BY DEF HooksRunFresh
  <2>1. HookInv(t) /\ BusyInv(t)
    BY DEF OwnTransactions, ThreadInv
  <2>2. QED BY <2>1 DEF HookInv, BusyInv, Holds, Settled
<1>2. QED BY <1>1, TypeCorrect, OwnTransactionsInvariant, PTL

(* Only the thread that began a transaction ends it, with a commit or a    *)
(* rollback of its handler.                                                *)
THEOREM TransactionsEndAtHome ==
  ASSUME Overlap = FALSE
  PROVE  Spec => OnlyOwnerEnds
<1> DEFINE Ends(t) == tx[t] \in Live /\ tx'[t] \notin Live =>
                        pc[t] \in {"commit", "rollback"} /\ pc'[t] # pc[t]
<1>1. ASSUME TypeOK, TypeOK', OwnTransactions, [Next]_vars, NEW t \in Threads
      PROVE  Ends(t)
  <2>1. ASSUME NEW u \in Threads, u # t, handleRequest(u) PROVE Ends(t)
    <3>1. OwnStep(u, ctrl[u])
      BY <2>1, <1>1, StartKeeps, CommitKeeps, RollbackKeeps, ResetKeeps, ControlKeeps,
         ThrowKeeps, CatchKeeps DEF handleRequest
    <3>2. QED BY <2>1, <3>1 DEF OwnStep, KeepsThread
  <2>2. CASE CommitTransaction(t) \/ RollbackTransaction(t)
    <3>1. /\ pc[t] \in {"commit", "rollback"}
          /\ Enter(t, stage[t], "reset") \/ Throw(t)
      BY <2>2 DEF CommitTransaction, RollbackTransaction
    <3>2. CASE Enter(t, stage[t], "reset")
      BY <1>1, <3>1, <3>2, EnterOwn
    <3>3. CASE Throw(t)
      <4>1. pc'[t] \in {"catch", "idle"}
        BY <1>1, <3>3, ThrowOwn
      <4>2. QED BY <3>1, <4>1
    <3>4. QED BY <3>1, <3>2, <3>3
  <2>3. CASE StartTransaction(t)
    BY <1>1, <2>3 DEF StartTransaction, TypeOK, Live
  <2>4. CASE DispatchThrows(t) \/ IdentifierTimeout(t)
    BY <1>1, <2>4 DEF DispatchThrows, IdentifierTimeout, TypeOK, Live
  <2>5. CASE \/ ResetStatus(t) \/ Refuse(t) \/ Authorise(t) \/ Dispatch(t)
             \/ DispatchCreate(t) \/ DrawIdentifier(t) \/ Created(t) \/ Hook(t)
             \/ HookThrows(t) \/ Catch(t)
    BY <2>5 DEF ResetStatus, Refuse, Authorise, Dispatch, DispatchCreate,
       DrawIdentifier, Created, Hook, HookThrows, Catch
  <2>6. CASE (\E u \in Threads, c \in Controllers : Receive(u, c)) \/ UNCHANGED vars
    BY <2>6 DEF Receive, vars
  <2>7. QED
    BY <1>1, <2>1, <2>2, <2>3, <2>4, <2>5, <2>6 DEF Next, handleRequest
<1>2. TypeOK /\ TypeOK' /\ OwnTransactions /\ [Next]_vars => [\A t \in Threads : Ends(t)]_vars
  BY <1>1
<1>3. QED
  BY <1>2, TypeCorrect, OwnTransactionsInvariant, PTL DEF Spec, OnlyOwnerEnds

-----------------------------------------------------------------------------
(* The refinement: each step of the handler is a step of the contract, or  *)
(* is invisible to it.                                                     *)

LEMMA StepShape ==
  ASSUME TypeOK, TypeOK', OwnTransactions, NEW t \in Threads, handleRequest(t)
  PROVE  /\ pc[t] # "idle"
         /\ work[t] = "committed" => work'[t] = "committed"
         /\ pc'[t] = "idle" =>
              /\ answer'[t] \in {"ok", "errors", "panic", "escaped"}
              /\ work'[t] = "committed" => work[t] = "committed"
<1> DEFINE Shape ==
      /\ pc[t] # "idle"
      /\ work[t] = "committed" => work'[t] = "committed"
      /\ pc'[t] = "idle" =>
           /\ answer'[t] \in {"ok", "errors", "panic", "escaped"}
           /\ work'[t] = "committed" => work[t] = "committed"
<1>1. ThreadInv(t) /\ ctrl[t] \in Controllers
  <2>1. pc[t] # "idle"
    BY DEF handleRequest, StartTransaction, CommitTransaction, RollbackTransaction,
           ResetStatus, Refuse, Authorise, Dispatch, DispatchThrows, DispatchCreate,
           DrawIdentifier, IdentifierTimeout, Created, Hook, HookThrows, Catch
  <2>2. QED BY <2>1 DEF OwnTransactions, TypeOK
<1>2. ASSUME Throw(t), pc[t] # "idle", work' = work PROVE Shape
  BY <1>2, ThrowOwn
<1>3. CASE StartTransaction(t)
  <2>1. CASE Throw(t) /\ work' = work
    BY <1>3, <2>1, <1>2 DEF StartTransaction
  <2>2. CASE work' = [work EXCEPT ![t] = "open"] /\ Enter(t, "work", "authorise") /\ stage[t] = "work"
    <3>1. work[t] = "none"
      BY <1>1, <1>3, <2>2 DEF ThreadInv, StartInv, StartTransaction
    <3>2. pc[t] = "start"
      BY <1>3 DEF StartTransaction
    <3>3. QED BY <2>2, <3>1, <3>2, EnterOwn
  <2>3. CASE work' = work /\ Enter(t, stage[t], "hook")
    <3>1. pc[t] = "start"
      BY <1>3 DEF StartTransaction
    <3>2. QED BY <2>3, <3>1, EnterOwn
  <2>4. QED BY <1>3, <2>1, <2>2, <2>3 DEF StartTransaction
<1>4. CASE CommitTransaction(t)
  <2>1. /\ pc[t] = "commit" /\ status[ctrl[t]] = [owner |-> t, joined |-> FALSE]
        /\ ~CleanUpFails(t)
    BY <1>1, <1>4 DEF CommitTransaction, ThreadInv, CommitInv, Holds, Live, CleanUpFails
  <2>2. PICK durable \in BOOLEAN :
          /\ Complete(t, t, IF durable THEN "committed" ELSE "rolledBack")
          /\ IF durable THEN Enter(t, stage[t], "reset") ELSE Throw(t)
    BY <1>4, <2>1 DEF CommitTransaction, isTransactionActive
  <2>3. CASE durable
    <3>1. Complete(t, t, "committed") /\ Enter(t, stage[t], "reset")
      BY <2>2, <2>3
    <3>2. QED BY <1>1, <2>1, <3>1, CompleteOwn, EnterOwn
  <2>4. CASE ~durable
    <3>1. Complete(t, t, "rolledBack") /\ Throw(t)
      BY <2>2, <2>4
    <3>2. (work'[t] = "committed") <=> (work[t] = "committed")
      BY <1>1, <3>1, CompleteOwn
    <3>3. QED BY <2>1, <3>1, <3>2, ThrowOwn
  <2>5. QED BY <2>3, <2>4
<1>5. CASE RollbackTransaction(t)
  <2>1. /\ pc[t] = "rollback" /\ status[ctrl[t]] = [owner |-> t, joined |-> FALSE]
        /\ ~CleanUpFails(t)
    BY <1>1, <1>5 DEF RollbackTransaction, ThreadInv, RollbackInv, Holds, Live, CleanUpFails
  <2>2. Complete(t, t, "rolledBack") /\ Enter(t, stage[t], "reset")
    BY <1>5, <2>1 DEF RollbackTransaction, isTransactionActive
  <2>3. QED BY <1>1, <2>1, <2>2, CompleteOwn, EnterOwn
<1>6. CASE ResetStatus(t)
  <2>1. pc[t] = "reset" /\ work' = work
    BY <1>6 DEF ResetStatus
  <2>2. \/ \E s \in {"after", "recover"}, p \in {"start", "catch"} : Enter(t, s, p)
        \/ \E v \in {"ok", "errors", "panic"} : Return(t, v)
    BY <1>6, ResetGoes
  <2>3. QED BY <2>1, <2>2, EnterOwn, ReturnOwn
<1>7. CASE DispatchThrows(t) \/ IdentifierTimeout(t) \/ HookThrows(t)
  BY <1>7, <1>2 DEF DispatchThrows, IdentifierTimeout, HookThrows
<1>8. CASE Refuse(t) \/ Authorise(t) \/ Dispatch(t)
  <2>1. work' = work /\ pc[t] \in {"authorise", "dispatch"}
    BY <1>8 DEF Refuse, Authorise, Dispatch
  <2>2. pc'[t] # "idle"
    BY <1>8 DEF Refuse, Authorise, Dispatch, AfterDispatch, Goto, TypeOK
  <2>3. QED BY <2>1, <2>2
<1>9. CASE Created(t)
  <2>1. Enter(t, "work", "commit") \/ Throw(t)
    BY <1>9 DEF Created
  <2>2. work' = work /\ pc[t] # "idle"
    BY <1>9 DEF Created
  <2>3. QED BY <2>1, <2>2, <1>2, EnterOwn
<1>10. CASE DispatchCreate(t) \/ DrawIdentifier(t) \/ Hook(t)
  <2>1. work' = work /\ pc[t] # "idle"
    BY <1>10 DEF DispatchCreate, DrawIdentifier, Hook
  <2>2. pc'[t] \in {"nextId", "drawId", "commit"}
    BY <1>10, EnterOwn DEF DispatchCreate, DrawIdentifier, Hook
  <2>3. QED BY <2>1, <2>2
<1>11. CASE Catch(t)
  <2>1. work' = work /\ pc[t] # "idle"
    BY <1>11 DEF Catch
  <2>2. pc'[t] \in {"rollback", "start"} \/ (pc'[t] = "idle" /\ answer'[t] = "panic")
    BY <1>11, EnterOwn, ReturnOwn DEF Catch
  <2>3. QED BY <2>1, <2>2
<1>12. QED
  BY <1>3, <1>4, <1>5, <1>6, <1>7, <1>8, <1>9, <1>10, <1>11 DEF handleRequest

LEMMA ContractStep ==
  ASSUME Overlap = FALSE, TypeOK, TypeOK', OwnTransactions, OwnTransactions', [Next]_vars
  PROVE  [Abstract!ContractNext]_(Abstract!cvars)
<1> DEFINE serving == [t \in Threads |-> pc[t] # "idle"]
           durable == [t \in Threads |-> work[t] = "committed"]
<1>1. ASSUME NEW t \in Threads, handleRequest(t)
      PROVE  [Abstract!ContractNext]_(Abstract!cvars)
  <2>1. OwnStep(t, ctrl[t])
    BY <1>1, StartKeeps, CommitKeeps, RollbackKeeps, ResetKeeps, ControlKeeps,
       ThrowKeeps, CatchKeeps DEF handleRequest
  <2>2. \A u \in Threads : u # t => pc'[u] = pc[u] /\ work'[u] = work[u] /\ answer'[u] = answer[u]
    BY <2>1 DEF OwnStep, KeepsThread
  <2>3. /\ pc[t] # "idle" /\ answer[t] = "none"
        /\ work[t] = "committed" => work'[t] = "committed"
        /\ pc'[t] # "idle" => answer'[t] = "none"
        /\ pc'[t] = "idle" =>
              /\ answer'[t] \in {"ok", "errors", "panic", "escaped"}
              /\ (work'[t] = "committed") <=> (work[t] = "committed")
              /\ answer'[t] = "ok" => work[t] = "committed"
              /\ answer'[t] = "errors" => work[t] # "committed"
    BY <1>1, StepShape DEF OwnTransactions, ThreadInv, BusyInv, IdleInv
  <2>4. answer \in [Threads -> {"none", "ok", "errors", "panic", "escaped"}] /\
        answer' \in [Threads -> {"none", "ok", "errors", "panic", "escaped"}]
    BY DEF TypeOK
  <2>5. CASE pc'[t] # "idle" /\ (work'[t] = "committed" => work[t] = "committed")
    <3>1. serving' = serving /\ durable' = durable
      BY <2>2, <2>3, <2>5
    <3>2. answer' = answer
      BY <2>2, <2>3, <2>4, <2>5
    <3>3. QED BY <3>1, <3>2 DEF Abstract!cvars
  <2>6. CASE pc'[t] # "idle" /\ work'[t] = "committed" /\ work[t] # "committed"
    <3>1. serving' = serving /\ answer' = answer
      BY <2>2, <2>3, <2>4, <2>6
    <3>2. durable' = [durable EXCEPT ![t] = TRUE]
      BY <2>2, <2>6
    <3>3. serving[t] /\ ~durable[t]
      BY <2>3, <2>6
    <3>4. Abstract!MakeDurable(t)
      BY <3>1, <3>2, <3>3 DEF Abstract!MakeDurable
    <3>5. QED BY <3>4 DEF Abstract!ContractNext
  <2>7. CASE pc'[t] = "idle"
    <3>1. durable' = durable
      BY <2>2, <2>3, <2>7
    <3>2. serving' = [serving EXCEPT ![t] = FALSE]
      BY <2>2, <2>3, <2>7
    <3>3. PICK v \in {"ok", "errors", "panic", "escaped"} : answer'[t] = v
      BY <2>3, <2>7
    <3>4. answer' = [answer EXCEPT ![t] = v]
      BY <2>2, <2>4, <3>3
    <3>5. serving[t] /\ (v = "ok" => durable[t]) /\ (v = "errors" => ~durable[t])
      BY <2>3, <2>7, <3>3
    <3>6. Abstract!AnswerWith(t, v)
      BY <3>1, <3>2, <3>4, <3>5 DEF Abstract!AnswerWith
    <3>7. Abstract!AnswerSomehow(t)
      BY <3>3, <3>6 DEF Abstract!AnswerSomehow, Abstract!Answers
    <3>8. QED BY <3>7 DEF Abstract!ContractNext
  <2>8. QED BY <2>5, <2>6, <2>7
<1>2. ASSUME NEW t \in Threads, NEW c \in Controllers, Receive(t, c)
      PROVE  [Abstract!ContractNext]_(Abstract!cvars)
  <2>1. /\ serving' = [serving EXCEPT ![t] = TRUE]
        /\ durable' = [durable EXCEPT ![t] = FALSE]
        /\ answer' = [answer EXCEPT ![t] = "none"]
        /\ ~serving[t]
    <3>1. /\ pc[t] = "idle" /\ pc' = [pc EXCEPT ![t] = "start"]
          /\ work' = [work EXCEPT ![t] = "none"]
          /\ answer' = [answer EXCEPT ![t] = "none"]
      BY <1>2 DEF Receive, Goto
    <3>2. serving' = [serving EXCEPT ![t] = TRUE]
      BY <3>1 DEF TypeOK
    <3>3. durable' = [durable EXCEPT ![t] = FALSE]
      BY <3>1 DEF TypeOK
    <3>4. QED BY <3>1, <3>2, <3>3
  <2>2. QED BY <2>1 DEF Abstract!ContractNext, Abstract!Accept
<1>3. CASE UNCHANGED vars
  BY <1>3 DEF vars, Abstract!cvars
<1>4. QED BY <1>1, <1>2, <1>3 DEF Next

(* The handler implements the safety part of the contract. *)
THEOREM HandlerKeepsContract ==
  ASSUME Overlap = FALSE
  PROVE  Spec => Abstract!ContractSafety
<1>1. Init => Abstract!ContractInit
  BY DEF Init, Abstract!ContractInit
<1>2. /\ TypeOK /\ TypeOK' /\ OwnTransactions /\ OwnTransactions' /\ [Next]_vars
      => [Abstract!ContractNext]_(Abstract!cvars)
  BY ContractStep
<1>3. QED
  BY <1>1, <1>2, TypeCorrect, OwnTransactionsInvariant, PTL
     DEF Spec, Abstract!ContractSafety
=============================================================================
