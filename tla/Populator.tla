------------------------------ MODULE Populator ------------------------------
(***************************************************************************)
(* How DatabasePopulator stores the entities of a file.  The file gives    *)
(* them in some order, an entity can only be stored after the ones it      *)
(* refers to, and the order is found by trial: each attempt stores the     *)
(* entities of the list one by one in one transaction; the first that      *)
(* cannot be stored is moved to the end of the list, the transaction is    *)
(* rolled back, and the next attempt starts from the beginning.            *)
(***************************************************************************)
EXTENDS Naturals, Sequences, FiniteSets, SequencesExt

CONSTANT Entities    \* the entities of the file

ASSUME EntitiesAssumption == IsFiniteSet(Entities)

VARIABLES
  refs,         \* the entities that each entity refers to (never changes)
  pc,           \* what persist() does next, or how it ended
  entityList,
  attemptCounter,
  persistedCounter,
  result,       \* of tryPersist(): how many entities this attempt stored
  stored,       \* what the current transaction has stored
  database      \* what was committed

vars == <<refs, pc, entityList, attemptCounter, persistedCounter, result,
          stored, database>>

N == Cardinality(Entities)

TypeOK ==
  /\ refs \in [Entities -> SUBSET Entities]
  /\ pc \in {"check", "tryPersist", "commit", "rollback", "sorted", "failed"}
  /\ entityList \in Seq(Entities)
  /\ attemptCounter \in 0..N
  /\ persistedCounter \in 0..N
  /\ result \in 0..N
  /\ stored \subseteq Entities
  /\ database \subseteq Entities

(* Entities refer to each other in any way, cycles included.               *)
References == {r \in [Entities -> SUBSET Entities] : \A e \in Entities : e \notin r[e]}

(* The beans of the file, in the order of the file. *)
Init ==
  /\ refs \in References
  /\ entityList \in SetToSeqs(Entities)
  /\ pc = "check"
  /\ attemptCounter = 0
  /\ persistedCounter = 0
  /\ result = 0
  /\ stored = {}
  /\ database = {}

-----------------------------------------------------------------------------
(* Mutant: one attempt more. *)
OneTooMany == attemptCounter <= Len(entityList)

MayTryAgain == attemptCounter < Len(entityList)

(* persist(): done if everything was stored, another attempt if there were *)
(* fewer than there are entities, and an exception otherwise.              *)
CheckDone ==
  /\ pc = "check"
  /\ pc' = IF persistedCounter = Len(entityList) THEN "sorted"
           ELSE IF MayTryAgain THEN "tryPersist"
           ELSE "failed"
  /\ result' = 0
  /\ stored' = {}
  /\ UNCHANGED <<refs, entityList, attemptCounter, persistedCounter, database>>

(* The populator takes it that storing an entity throws exactly if it      *)
(* refers to something that is not stored yet.                             *)
CanPersist(e) == refs[e] \subseteq stored

Entry == entityList[result + 1]

PersistNext ==
  /\ pc = "tryPersist"
  /\ result < Len(entityList)
  /\ CanPersist(Entry)
  /\ stored' = stored \cup {Entry}
  /\ result' = result + 1
  /\ UNCHANGED <<refs, pc, entityList, attemptCounter, persistedCounter, database>>

(* Mutants: the entity is dropped; it is tried first the next time. *)
Dropped(l, i) == RemoveAt(l, i)
ToTheFront(l, i) == <<l[i]>> \o RemoveAt(l, i)

ToTheEnd(l, i) == Append(RemoveAt(l, i), l[i])

Defer ==
  /\ pc = "tryPersist"
  /\ result < Len(entityList)
  /\ ~CanPersist(Entry)
  /\ entityList' = ToTheEnd(entityList, result + 1)
  /\ pc' = "rollback"
  /\ UNCHANGED <<refs, attemptCounter, persistedCounter, result, stored, database>>

AllPersisted ==
  /\ pc = "tryPersist"
  /\ result = Len(entityList)
  /\ pc' = "commit"
  /\ UNCHANGED <<refs, entityList, attemptCounter, persistedCounter, result,
                 stored, database>>

(* Mutant: an attempt that deferred something is not counted. *)
CountComplete == attemptCounter + (IF result = Len(entityList) THEN 1 ELSE 0)

CountAttempt == attemptCounter + 1

EndAttempt ==
  /\ pc' = "check"
  /\ persistedCounter' = result
  /\ attemptCounter' = CountAttempt
  /\ UNCHANGED <<refs, entityList, result, stored>>

(* DatabaseUtil.commitTransaction prints what a commit throws and returns  *)
(* as if nothing had happened.                                             *)
CommitTransaction ==
  /\ pc = "commit"
  /\ \/ database' = database \cup stored
     \/ UNCHANGED database
  /\ EndAttempt

(* Mutant: what an attempt has stored is committed in any case. *)
CommitAnyway == pc = "rollback" /\ database' = database \cup stored /\ EndAttempt

RollbackTransaction == pc = "rollback" /\ UNCHANGED database /\ EndAttempt

Next ==
  \/ CheckDone \/ PersistNext \/ Defer \/ AllPersisted
  \/ CommitTransaction \/ RollbackTransaction

Spec == Init /\ [][Next]_vars

(* The populator is one thread that waits for nobody. *)
FairSpec == Spec /\ WF_vars(Next)

-----------------------------------------------------------------------------
(* Is there an order in which every entity comes after its references?     *)
Sortable ==
  \E rank \in [Entities -> 1..N] :
    \A e \in Entities : \A d \in refs[e] : rank[d] < rank[e]

(* No deferral loses or doubles an entity, so that a complete attempt is   *)
(* complete for the file.                                                  *)
ListIsTheFile ==
  Len(entityList) = N /\ {entityList[i] : i \in 1..Len(entityList)} = Entities

(* The order that is found respects the references, whatever the file's    *)
(* order was: and cyclic references are never taken for sorted.            *)
SortedIsTopological ==
  pc = "sorted" =>
    /\ Sortable
    /\ \A i \in 1..Len(entityList) :
         refs[entityList[i]] \subseteq {entityList[j] : j \in 1..(i - 1)}

(* The database has all the entities or none, also after attempts that     *)
(* stored some of them, and it has none if the populator gives up.         *)
AllOrNothing ==
  /\ database \in {{}, Entities}
  /\ pc = "failed" => database = {}

(* An attempt stores at least what the one before it did: the log numbers  *)
(* only the entities beyond the 'threshold' the previous attempt reached.  *)
NeverFallsBack == [][persistedCounter' >= persistedCounter]_vars

(* Sorting ends, with cyclic references too. *)
SortingEnds == <>(pc \in {"sorted", "failed"})

(* "Could not sort the entities in %s topologically!"                      *)
(* (DatabasePopulator.java:151): they really cannot be sorted.             *)
FailedIsUnsortable == pc = "failed" => ~Sortable
=============================================================================
