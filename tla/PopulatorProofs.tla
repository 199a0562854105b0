---------------------------- MODULE PopulatorProofs ----------------------------
(***************************************************************************)
(* Proofs about Populator, for any finite set of entities, any references  *)
(* between them, cyclic ones too, and any order of the file.               *)
(***************************************************************************)
EXTENDS Populator, FunctionTheorems, FiniteSetTheorems, SequenceTheorems, TLAPS

-----------------------------------------------------------------------------
(* The inductive invariant.                                                *)

(* The entities of the file in some order. *)
Orders == {l \in [1..N -> Entities] : \A i, j \in 1..N : l[i] = l[j] => i = j}

(* What an attempt has stored after k entities of the list. *)
Prefix(l, k) == {l[i] : i \in 1..k}

(* An attempt gets through the first k entities of the list. *)
Storable(r, l, k) == \A i \in 1..k : r[l[i]] \subseteq Prefix(l, i - 1)

Types ==
  /\ refs \in [Entities -> SUBSET Entities]
  /\ pc \in {"check", "tryPersist", "commit", "rollback", "sorted", "failed"}
  /\ entityList \in Orders
  /\ attemptCounter \in 0..N
  /\ persistedCounter \in 0..N
  /\ result \in 0..N
  /\ stored \subseteq Entities

(* The first entities of the list are those the last attempt has stored,   *)
(* and the current one stores them again before it can fail.               *)
AttemptInv ==
  /\ Storable(refs, entityList, persistedCounter)
  /\ pc \in {"tryPersist", "commit", "rollback"} =>
       attemptCounter < N /\ persistedCounter < N
  /\ pc \in {"tryPersist", "commit"} => stored = Prefix(entityList, result)
  /\ pc \in {"tryPersist", "commit", "rollback"} => Storable(refs, entityList, result)
  /\ pc = "commit" => result = N
  /\ pc = "rollback" => persistedCounter <= result
  /\ pc = "sorted" => persistedCounter = N
  /\ pc = "failed" => persistedCounter < N

(* Only a complete attempt is committed, and it is the last one. *)
DatabaseInv == database # {} => database = Entities /\ persistedCounter = N

IInv == Types /\ AttemptInv /\ DatabaseInv

-----------------------------------------------------------------------------
(* Facts about lists.                                                      *)

LEMMA SizeOfTheFile == N \in Nat
BY EntitiesAssumption, FS_CardinalityType DEF N

LEMMA OrderIsSequence ==
  ASSUME NEW l \in Orders
  PROVE  l \in Seq(Entities) /\ Len(l) = N
BY SizeOfTheFile, SeqDef DEF Orders

(* An order of the file has every entity. *)
LEMMA OrderIsComplete ==
  ASSUME NEW l \in Orders
  PROVE  Prefix(l, N) = Entities
<1>1. l \in Injection(1..N, Entities)
  BY Fun_IsInj DEF Orders
<1>2. IsFiniteSet(1..N) /\ Cardinality(1..N) = N
  BY SizeOfTheFile, FS_Interval
<1>3. l \in Surjection(1..N, Entities)
  BY <1>1, <1>2, EntitiesAssumption, FS_Injection DEF N
<1> QED
  BY <1>3 DEF Surjection, Prefix

LEMMA PrefixProperties ==
  ASSUME NEW l \in Orders, NEW k \in 0..N
  PROVE  /\ Prefix(l, 0) = {}
         /\ Prefix(l, k) \subseteq Entities
         /\ k < N => Prefix(l, k + 1) = Prefix(l, k) \cup {l[k + 1]}
<1>1. Prefix(l, 0) = {}
  BY DEF Prefix
<1>2. Prefix(l, k) \subseteq Entities
  BY SizeOfTheFile DEF Prefix, Orders
<1>3. k < N => Prefix(l, k + 1) = Prefix(l, k) \cup {l[k + 1]}
  <2>1. 1..(k + 1) = 1..k \cup {k + 1}
    OBVIOUS
  <2> QED
    BY <2>1 DEF Prefix
<1> QED
  BY <1>1, <1>2, <1>3

LEMMA SamePrefix ==
  ASSUME NEW l, NEW m, NEW k \in Nat, \A i \in 1..k : l[i] = m[i]
  PROVE  /\ Prefix(l, k) = Prefix(m, k)
         /\ \A r : Storable(r, l, k) => Storable(r, m, k)
<1>1. \A j \in 0..k : Prefix(l, j) = Prefix(m, j)
  BY DEF Prefix
<1>2. \A i \in 1..k : i - 1 \in 0..k /\ l[i] = m[i]
  OBVIOUS
<1> QED
  BY <1>1, <1>2 DEF Storable

(* Deferring an entity keeps the others in their order, and the ones       *)
(* before it in their place.                                               *)
LEMMA Deferral ==
  ASSUME NEW l \in Orders, NEW i \in 1..N
  PROVE  /\ ToTheEnd(l, i) \in Orders
         /\ \A k \in 1..(i - 1) : ToTheEnd(l, i)[k] = l[k]
<1> DEFINE left  == SubSeq(l, 1, i - 1)
           right == SubSeq(l, i + 1, N)
           rest  == left \o right
           m     == Append(rest, l[i])
<1>1. N \in Nat /\ l \in Seq(Entities) /\ Len(l) = N
      /\ \A k \in 1..N : l[k] \in Entities
  BY SizeOfTheFile, OrderIsSequence DEF Orders
<1>2. /\ left \in Seq(Entities) /\ Len(left) = i - 1
      /\ \A k \in 1..(i - 1) : left[k] = l[k]
  <2>1. \A k \in 1..(i - 1) : l[k] \in Entities
    BY <1>1
  <2>2. 1 \in Int /\ i - 1 \in Int /\ (IF 1 <= i - 1 THEN (i - 1) - 1 + 1 ELSE 0) = i - 1
        /\ (i - 1) - 1 + 1 = i - 1 /\ \A k \in 1..(i - 1) : 1 + k - 1 = k
    OBVIOUS
  <2>3. /\ left \in Seq(Entities)
        /\ Len(left) = IF 1 <= i - 1 THEN (i - 1) - 1 + 1 ELSE 0
        /\ \A k \in 1..((i - 1) - 1 + 1) : left[k] = l[1 + k - 1]
    BY <2>1, <2>2, SubSeqProperties
  <2> QED
    BY <2>2, <2>3
<1>3. /\ right \in Seq(Entities) /\ Len(right) = N - i
      /\ \A k \in 1..(N - i) : right[k] = l[i + k]
  <2>1. \A k \in (i + 1)..N : l[k] \in Entities
    BY <1>1
  <2>2. i + 1 \in Int /\ N \in Int /\ (IF i + 1 <= N THEN N - (i + 1) + 1 ELSE 0) = N - i
        /\ N - (i + 1) + 1 = N - i /\ \A k \in 1..(N - i) : (i + 1) + k - 1 = i + k
    BY <1>1
  <2>3. /\ right \in Seq(Entities)
        /\ Len(right) = IF i + 1 <= N THEN N - (i + 1) + 1 ELSE 0
        /\ \A k \in 1..(N - (i + 1) + 1) : right[k] = l[(i + 1) + k - 1]
    BY <2>1, <2>2, SubSeqProperties
  <2> QED
    BY <2>2, <2>3
<1> HIDE DEF left, right
<1>4. /\ rest \in Seq(Entities) /\ Len(rest) = N - 1
      /\ \A k \in 1..(N - 1) : rest[k] = IF k < i THEN l[k] ELSE l[k + 1]
  <2>1. /\ rest \in Seq(Entities) /\ Len(rest) = Len(left) + Len(right)
        /\ \A k \in 1..(Len(left) + Len(right)) :
             rest[k] = IF k <= Len(left) THEN left[k] ELSE right[k - Len(left)]
    BY <1>2, <1>3, ConcatProperties
  <2>2. Len(left) + Len(right) = N - 1
    BY <1>1, <1>2, <1>3
  <2>3. ASSUME NEW k \in 1..(N - 1) PROVE rest[k] = IF k < i THEN l[k] ELSE l[k + 1]
    <3>1. CASE k < i
      BY <1>1, <1>2, <2>1, <2>2, <3>1
    <3>2. CASE ~(k < i)
      <4>1. rest[k] = right[k - (i - 1)]
        BY <1>1, <1>2, <2>1, <2>2, <3>2
      <4>2. k - (i - 1) \in 1..(N - i) /\ i + (k - (i - 1)) = k + 1
        BY <1>1, <3>2
      <4> QED
        BY <1>3, <3>2, <4>1, <4>2
    <3> QED
      BY <3>1, <3>2
  <2> QED
    BY <2>1, <2>2, <2>3
<1>5. m = ToTheEnd(l, i)
  BY <1>1 DEF ToTheEnd, RemoveAt, left, right
<1> HIDE DEF rest
<1>6. /\ m \in Seq(Entities) /\ Len(m) = N /\ m[N] = l[i]
      /\ \A k \in 1..(N - 1) : m[k] = rest[k]
  <2>1. /\ m \in Seq(Entities) /\ Len(m) = Len(rest) + 1
        /\ \A k \in 1..Len(rest) : m[k] = rest[k]
        /\ m[Len(rest) + 1] = l[i]
    BY <1>1, <1>4, AppendProperties
  <2> QED
    BY <1>1, <1>4, <2>1
<1> HIDE DEF m
<1>7. \A k \in 1..N : m[k] = IF k < i THEN l[k] ELSE IF k < N THEN l[k + 1] ELSE l[i]
  <2> TAKE k \in 1..N
  <2>1. k = N \/ k \in 1..(N - 1)
    BY <1>1
  <2> QED
    BY <1>1, <1>4, <1>6, <2>1
<1>8. m \in [1..N -> Entities]
  BY <1>6, LenProperties
<1>9. ASSUME NEW j \in 1..N, NEW k \in 1..N, m[j] = m[k] PROVE j = k
  <2> DEFINE from(x) == IF x < i THEN x ELSE IF x < N THEN x + 1 ELSE i
  <2>1. \A x \in 1..N : from(x) \in 1..N /\ m[x] = l[from(x)]
    BY <1>1, <1>7
  <2>2. from(j) = from(k)
    BY <1>9, <2>1 DEF Orders
  <2> QED
    BY <1>1, <2>2
<1>10. m \in Orders
  BY <1>8, <1>9 DEF Orders
<1>11. \A k \in 1..(i - 1) : m[k] = l[k]
  BY <1>1, <1>7
<1> QED
  BY <1>5, <1>10, <1>11

-----------------------------------------------------------------------------
(* The invariant holds and is preserved.                                   *)

LEMMA InitIInv == Init => IInv
<1> SUFFICES ASSUME Init PROVE IInv
  OBVIOUS
<1>1. N \in Nat
  BY SizeOfTheFile
<1>2. entityList \in Orders
  BY DEF Init, SetToSeqs, Orders, N
<1>3. refs \in [Entities -> SUBSET Entities]
  BY DEF Init, References
<1>4. Types
  BY <1>1, <1>2, <1>3 DEF Init, Types
<1>5. AttemptInv
  <2>1. Storable(refs, entityList, 0)
    BY DEF Storable
  <2> QED
    BY <2>1 DEF Init, AttemptInv
<1>6. DatabaseInv
  BY DEF Init, DatabaseInv
<1> QED
  BY <1>4, <1>5, <1>6 DEF IInv

LEMMA CheckDoneKeeps ==
  ASSUME IInv, CheckDone
  PROVE  IInv'
<1>1. N \in Nat /\ entityList \in Orders /\ Len(entityList) = N
  BY SizeOfTheFile, OrderIsSequence DEF IInv, Types
<1>2. Types'
  BY <1>1 DEF IInv, Types, CheckDone
<1>3. AttemptInv'
  <2>1. Storable(refs, entityList, persistedCounter)
    BY DEF IInv, AttemptInv
  <2>2. (Storable(refs, entityList, persistedCounter))'
    BY <2>1 DEF CheckDone
  <2>3. Storable(refs, entityList, 0)' /\ Prefix(entityList, 0)' = {}
    BY DEF Storable, Prefix
  <2> QED
    BY <1>1, <2>2, <2>3 DEF IInv, Types, AttemptInv, CheckDone, MayTryAgain
<1>4. DatabaseInv'
  BY DEF IInv, DatabaseInv, CheckDone
<1> QED
  BY <1>2, <1>3, <1>4 DEF IInv

LEMMA PersistNextKeeps ==
  ASSUME IInv, PersistNext
  PROVE  IInv'
<1>1. /\ N \in Nat /\ entityList \in Orders /\ Len(entityList) = N
      /\ result \in 0..N /\ result < N /\ result + 1 \in 1..N /\ Entry \in Entities
  BY SizeOfTheFile, OrderIsSequence DEF IInv, Types, PersistNext, Entry, Orders
<1>2. Types'
  BY <1>1 DEF IInv, Types, PersistNext
<1>3. stored = Prefix(entityList, result) /\ Storable(refs, entityList, result)
  BY DEF IInv, AttemptInv, PersistNext
<1>4. stored' = Prefix(entityList, result + 1)
  BY <1>1, <1>3, PrefixProperties DEF PersistNext, Entry
<1>5. Storable(refs, entityList, result + 1)
  <2> SUFFICES ASSUME NEW i \in 1..(result + 1)
               PROVE  refs[entityList[i]] \subseteq Prefix(entityList, i - 1)
    BY DEF Storable
  <2>1. CASE i = result + 1
    <3>1. i - 1 = result
      BY <1>1, <2>1
    <3> QED
      BY <1>3, <2>1, <3>1 DEF PersistNext, CanPersist, Entry
  <2>2. CASE i \in 1..result
    BY <1>3, <2>2 DEF Storable
  <2> QED
    BY <1>1, <2>1, <2>2
<1>6. AttemptInv'
  <2>1. Storable(refs, entityList, persistedCounter)
    BY DEF IInv, AttemptInv
  <2>2. Storable(refs, entityList, persistedCounter)' /\ Storable(refs, entityList, result)'
        /\ (stored = Prefix(entityList, result))'
    BY <1>4, <1>5, <2>1 DEF PersistNext
  <2> QED
    BY <2>2 DEF IInv, AttemptInv, PersistNext
<1>7. DatabaseInv'
  BY DEF IInv, DatabaseInv, PersistNext
<1> QED
  BY <1>2, <1>6, <1>7 DEF IInv

(* An entity that cannot be stored comes after those that the attempt      *)
(* before has stored.                                                      *)
LEMMA DeferKeeps ==
  ASSUME IInv, Defer
  PROVE  IInv'
<1>1. /\ N \in Nat /\ entityList \in Orders /\ Len(entityList) = N
      /\ result \in 0..N /\ result < N /\ result + 1 \in 1..N /\ persistedCounter \in 0..N
  BY SizeOfTheFile, OrderIsSequence DEF IInv, Types, Defer
<1>2. /\ entityList' = ToTheEnd(entityList, result + 1) /\ entityList' \in Orders
      /\ \A k \in 1..result : entityList'[k] = entityList[k]
  BY <1>1, Deferral DEF Defer
<1>3. Types'
  BY <1>2 DEF IInv, Types, Defer
<1>4. stored = Prefix(entityList, result) /\ Storable(refs, entityList, result)
  BY DEF IInv, AttemptInv, Defer
<1>5. persistedCounter <= result
  <2> SUFFICES ASSUME result + 1 \in 1..persistedCounter PROVE FALSE
    BY <1>1
  <2>1. refs[Entry] \subseteq Prefix(entityList, (result + 1) - 1)
    BY DEF IInv, AttemptInv, Storable, Entry
  <2>2. (result + 1) - 1 = result
    BY <1>1
  <2> QED
    BY <1>4, <2>1, <2>2 DEF Defer, CanPersist
<1>6. Storable(refs, entityList', result)
  <2>1. \A k \in 1..result : entityList[k] = entityList'[k]
    BY <1>2
  <2> QED
    BY <1>1, <1>4, <2>1, SamePrefix
<1>7. Storable(refs, entityList', persistedCounter)
  <2>1. \A k \in 1..persistedCounter : k \in 1..result
    BY <1>1, <1>5
  <2> QED
    BY <1>6, <2>1 DEF Storable
<1>8. AttemptInv'
  <2>1. Storable(refs, entityList, persistedCounter)' /\ Storable(refs, entityList, result)'
        /\ pc' = "rollback" /\ UNCHANGED <<attemptCounter, persistedCounter, result>>
    BY <1>6, <1>7 DEF Defer
  <2>2. attemptCounter < N /\ persistedCounter < N
    BY DEF IInv, AttemptInv, Defer
  <2> QED
    BY <1>5, <2>1, <2>2 DEF AttemptInv
<1>9. DatabaseInv'
  BY DEF IInv, DatabaseInv, Defer
<1> QED
  BY <1>3, <1>8, <1>9 DEF IInv

LEMMA AllPersistedKeeps ==
  ASSUME IInv, AllPersisted
  PROVE  IInv'
<1>1. result = N
  BY OrderIsSequence DEF IInv, Types, AllPersisted
<1>2. Types'
  BY DEF IInv, Types, AllPersisted
<1>3. AttemptInv'
  <2>1. UNCHANGED <<refs, entityList, attemptCounter, persistedCounter, result, stored>>
        /\ pc' = "commit" /\ pc = "tryPersist"
    BY DEF AllPersisted
  <2> QED
    BY <1>1, <2>1 DEF IInv, AttemptInv, Storable, Prefix
<1>4. DatabaseInv'
  BY DEF IInv, DatabaseInv, AllPersisted
<1> QED
  BY <1>2, <1>3, <1>4 DEF IInv

LEMMA EndAttemptKeeps ==
  ASSUME IInv, EndAttempt, pc \in {"commit", "rollback"},
         \/ UNCHANGED database
         \/ pc = "commit" /\ database' = database \cup stored
  PROVE  IInv'
<1>1. N \in Nat /\ entityList \in Orders
  BY SizeOfTheFile DEF IInv, Types
<1>2. attemptCounter < N /\ persistedCounter < N /\ Storable(refs, entityList, result)
  BY DEF IInv, AttemptInv
<1>3. Types'
  BY <1>1, <1>2 DEF IInv, Types, EndAttempt, CountAttempt
<1>4. AttemptInv'
  <2>1. Storable(refs, entityList, persistedCounter)'
    BY <1>2 DEF EndAttempt
  <2> QED
    BY <2>1 DEF AttemptInv, EndAttempt
<1>5. DatabaseInv'
  <2>1. database = {}
    <3>1. persistedCounter # N
      BY <1>1, <1>2 DEF IInv, Types
    <3> QED
      BY <3>1 DEF IInv, DatabaseInv
  <2>2. CASE pc = "commit" /\ database' = database \cup stored
    <3>1. stored = Prefix(entityList, N) /\ result = N
      BY <2>2 DEF IInv, AttemptInv
    <3> QED
      BY <1>1, <2>1, <2>2, <3>1, OrderIsComplete DEF DatabaseInv, EndAttempt
  <2> QED
    BY <2>1, <2>2 DEF DatabaseInv
<1> QED
  BY <1>3, <1>4, <1>5 DEF IInv

LEMMA NextIInv == IInv /\ [Next]_vars => IInv'
<1> SUFFICES ASSUME IInv, [Next]_vars PROVE IInv'
  OBVIOUS
<1>1. CASE UNCHANGED vars
  <2>1. Types' /\ DatabaseInv'
    BY <1>1 DEF IInv, Types, DatabaseInv, vars
  <2>2. AttemptInv'
    BY <1>1 DEF IInv, AttemptInv, Storable, Prefix, vars
  <2> QED
    BY <2>1, <2>2 DEF IInv
<1>2. CASE CommitTransaction
  BY <1>2, EndAttemptKeeps DEF CommitTransaction
<1>3. CASE RollbackTransaction
  BY <1>3, EndAttemptKeeps DEF RollbackTransaction
<1> QED
  BY <1>1, <1>2, <1>3, CheckDoneKeeps, PersistNextKeeps, DeferKeeps, AllPersistedKeeps DEF Next

-----------------------------------------------------------------------------
(* The theorems.                                                           *)

(* The state always satisfies the invariant: an attempt stores a prefix of *)
(* the list, the part that the attempt before it has stored comes first,   *)
(* and only a complete attempt is committed.                               *)
THEOREM Invariance == Spec => []IInv
BY InitIInv, NextIInv, PTL DEF Spec

(* The list is one of entities of the file, and no counter exceeds their   *)
(* number: persist() makes no more attempts than there are entities.       *)
THEOREM TypesHold == Spec => []TypeOK
<1>1. ASSUME IInv PROVE TypeOK
  <2>1. entityList \in Seq(Entities)
    BY <1>1, OrderIsSequence DEF IInv, Types
  <2>2. database \subseteq Entities
    BY <1>1 DEF IInv, DatabaseInv
  <2> QED
    BY <1>1, <2>1, <2>2 DEF IInv, Types, TypeOK
<1> QED
  BY <1>1, Invariance, PTL

(* Deferring neither loses nor doubles an entity, however often it         *)
(* happens.                                                                *)
THEOREM ListStaysTheFile == Spec => []ListIsTheFile
<1>1. ASSUME IInv PROVE ListIsTheFile
  <2>1. entityList \in Orders
    BY <1>1 DEF IInv, Types
  <2> QED
    BY <2>1, OrderIsSequence, OrderIsComplete DEF ListIsTheFile, Prefix
<1> QED
  BY <1>1, Invariance, PTL

(* The database has all the entities or none.                              *)
THEOREM PopulatedOrEmpty == Spec => []AllOrNothing
<1>1. ASSUME IInv PROVE AllOrNothing
  BY <1>1, SizeOfTheFile DEF IInv, Types, AttemptInv, DatabaseInv, AllOrNothing
<1> QED
  BY <1>1, Invariance, PTL

(* The place of each entity in a list that can be stored is a rank that    *)
(* respects the references.                                                *)
LEMMA StorableIsSortable ==
  ASSUME refs \in [Entities -> SUBSET Entities], NEW l \in Orders, Storable(refs, l, N)
  PROVE  Sortable
<1> DEFINE rank == [e \in Entities |-> CHOOSE i \in 1..N : l[i] = e]
<1>1. \A e \in Entities : rank[e] \in 1..N /\ l[rank[e]] = e
  BY OrderIsComplete DEF Prefix
<1>2. rank \in [Entities -> 1..N]
  BY <1>1
<1> HIDE DEF rank
<1>3. ASSUME NEW e \in Entities, NEW d \in refs[e] PROVE rank[d] < rank[e]
  <2>1. d \in Prefix(l, rank[e] - 1)
    BY <1>1 DEF Storable
  <2>2. PICK i \in 1..(rank[e] - 1) : l[i] = d
    BY <2>1 DEF Prefix
  <2>3. i \in 1..N /\ d \in Entities
    BY <1>1, <2>2, SizeOfTheFile
  <2>4. rank[d] = i
    BY <1>1, <2>2, <2>3 DEF Orders
  <2> QED
    BY <1>1, <2>2, <2>4, SizeOfTheFile
<1> QED
  BY <1>2, <1>3 DEF Sortable

(* What the populator takes for sorted respects the references, and it     *)
(* never takes cyclic references for sorted.                               *)
THEOREM SortedRespectsReferences == Spec => []SortedIsTopological
<1>1. ASSUME IInv, pc = "sorted"
      PROVE  /\ Sortable
             /\ \A i \in 1..Len(entityList) :
                  refs[entityList[i]] \subseteq {entityList[j] : j \in 1..(i - 1)}
  <2>1. /\ refs \in [Entities -> SUBSET Entities] /\ entityList \in Orders
        /\ Len(entityList) = N /\ Storable(refs, entityList, N)
    BY <1>1, OrderIsSequence DEF IInv, Types, AttemptInv
  <2> QED
    BY <2>1, StorableIsSortable DEF Storable, Prefix
<1> QED
  BY <1>1, Invariance, PTL DEF SortedIsTopological

(* An attempt stores at least what the one before it has stored.           *)
THEOREM AttemptsNeverFallBack == Spec => NeverFallsBack
<1>1. ASSUME IInv, [Next]_vars PROVE persistedCounter' >= persistedCounter
  <2>1. CASE CommitTransaction \/ RollbackTransaction
    <3>1. persistedCounter' = result /\ persistedCounter \in 0..N /\ result \in 0..N
      BY <1>1, <2>1 DEF IInv, Types, CommitTransaction, RollbackTransaction, EndAttempt
    <3>2. persistedCounter <= result
      BY <1>1, <2>1, SizeOfTheFile
      DEF IInv, Types, AttemptInv, CommitTransaction, RollbackTransaction
    <3> QED
      BY <3>1, <3>2, SizeOfTheFile
  <2>2. CASE UNCHANGED persistedCounter
    BY <1>1, <2>2, SizeOfTheFile DEF IInv, Types
  <2> QED
    BY <1>1, <2>1, <2>2 DEF Next, vars, CheckDone, PersistNext, Defer, AllPersisted
<1>2. IInv /\ [Next]_vars => [persistedCounter' >= persistedCounter]_vars
  BY <1>1
<1> QED
  BY <1>2, Invariance, PTL DEF Spec, NeverFallsBack
=============================================================================
