---------------------------- MODULE WorkplansProofs ----------------------------
(***************************************************************************)
(* Proofs about Workplans, for any number of managers, browsers, tasks and *)
(* plans, any dates and any bound on the changes of a row.                 *)
(***************************************************************************)
EXTENDS Workplans, TLAPS

-----------------------------------------------------------------------------
(* The inductive invariant.                                                *)

(* What is between the request and its commit, and what a form shows, was  *)
(* true of an earlier database.  The invariant says what is left of it:    *)
(* everything about a row that still has the version of that time, and     *)
(* something about a row that is newer.  That a version stands for a row   *)
(* follows from how each write counts it up.                               *)

Fits(p, t) == p.start <= t.start /\ t.end <= p.end /\ (p.isPublic => t.isPublic)

(* The version s of a task, with which the plan p was validated, is not    *)
(* newer than the row, and if it is the row's, the plan is right about it. *)
Checked(s, p, row) ==
  /\ s \in Nat
  /\ row \notin {Unborn, Deleted} =>
       s <= row.version /\ (s = row.version => Fits(p, row))

PlanInv(w) ==
  Exists(w) => \A t \in db[w].tasks :
    /\ Exists(t)
    /\ Checked(seen[w][t], db[w], db[t])

FormInv(c) ==
  LET x == client[c].id
      r == client[c].row
  IN  /\ x \in Ids
      /\ r \in TaskRow \cup PlanRow
      /\ db[x] # Unborn
      /\ Exists(x) => /\ r.version <= db[x].version
                      /\ r.version = db[x].version => r = db[x]

(* A write is not newer than what it replaces, and the next version of it. *)
WriteInv(c, x) ==
  LET wr == Writes(c)[x]
  IN  /\ x \in Ids
      /\ IsWrite(x, wr)
      /\ wr.base = -1 <=> db[x] = Unborn
      /\ Exists(x) => wr.base <= db[x].version
      /\ wr.row # Deleted => /\ wr.row.version = wr.base + 1
                             /\ wr.row.version <= MaxVersion[x]

(* A plan that is saved by its form was validated with its tasks ...       *)
Validated(c, p) ==
  /\ DOMAIN client[c].seen = p.tasks
  /\ \A t \in p.tasks : Checked(client[c].seen[t], p, db[t])

(* ... and one that loses a task is otherwise as it was.                   *)
Reduced(c, w) ==
  LET wr == Writes(c)[w]
  IN  /\ DOMAIN client[c].seen = {}
      /\ Version(db[w]) = wr.base =>
           /\ Exists(w)
           /\ wr.row.tasks \subseteq db[w].tasks
           /\ wr.row.start = db[w].start /\ wr.row.end = db[w].end
           /\ wr.row.isPublic = db[w].isPublic

PlanWriteInv(c, w) ==
  LET p == Writes(c)[w].row
  IN  p # Deleted =>
        /\ \A t \in p.tasks : db[t] # Unborn
        /\ Validated(c, p) \/ Reduced(c, w)

ShownInv(c, x) ==
  /\ x \in DOMAIN Writes(c)
  /\ Version(db[x]) = Writes(c)[x].base => db[x] = client[c].shown[x]

CommitInv(c) ==
  /\ \A x \in DOMAIN Writes(c) : WriteInv(c, x)
  /\ \A w \in DOMAIN Writes(c) \cap Workplans : PlanWriteInv(c, w)
  /\ \A x \in DOMAIN client[c].shown : ShownInv(c, x)
  /\ c \notin disturbed => VersionsHold(c) /\ ReferencesHold(After(c))

ClientInv(c) ==
  \/ client[c] = Idle
  \/ client[c].at = "form" /\ FormInv(c)
  \/ client[c].at = "commit" /\ CommitInv(c)

(* A row that is not there yet is created by one client at most.           *)
OneCreator ==
  \A c, d \in Clients :
    client[c].at = "commit" /\ client[d].at = "commit" /\ c # d =>
      \A x \in DOMAIN Writes(c) \cap DOMAIN Writes(d) : db[x] # Unborn

DbTypeOK ==
  /\ DOMAIN db = Ids
  /\ \A t \in Tasks : Exists(t) => db[t] \in TaskRow
  /\ \A w \in Workplans : Exists(w) => db[w] \in PlanRow
  /\ \A x \in Ids : Exists(x) => db[x].start < db[x].end /\ db[x].version <= MaxVersion[x]

IInv ==
  /\ DbTypeOK
  /\ DOMAIN client = Clients
  /\ disturbed \subseteq Clients
  /\ crossed \subseteq Ids
  /\ \A w \in Workplans : PlanInv(w)
  /\ \A c \in Clients : ClientInv(c)
  /\ OneCreator

-----------------------------------------------------------------------------
(* What follows from it in each state.                                     *)

LEMMA IdsAreTasksOrPlans == Ids = Tasks \cup Workplans /\ Tasks \cap Workplans = {}
BY IdsAssumption DEF Ids

LEMMA RowsExist ==
  ASSUME NEW row \in TaskRow \cup PlanRow
  PROVE  row # Unborn /\ row # Deleted /\ Version(row) = row.version /\ row.version \in Nat
BY RowsAssumption DEF TaskRow, PlanRow, Version

LEMMA IInvType == IInv => TypeOK
<1> SUFFICES ASSUME IInv PROVE TypeOK
  OBVIOUS
<1>1. ASSUME NEW c \in Clients
      PROVE  \/ client[c] = Idle
             \/ /\ client[c].at = "form"
                /\ client[c].id \in Ids
                /\ client[c].row \in TaskRow \cup PlanRow
             \/ /\ client[c].at = "commit"
                /\ \A x \in DOMAIN Writes(c) : x \in Ids /\ IsWrite(x, Writes(c)[x])
                /\ DOMAIN client[c].shown \subseteq DOMAIN Writes(c)
  <2>1. ClientInv(c)
    BY DEF IInv
  <2>2. CommitInv(c) => /\ \A x \in DOMAIN Writes(c) : x \in Ids /\ IsWrite(x, Writes(c)[x])
                        /\ DOMAIN client[c].shown \subseteq DOMAIN Writes(c)
    BY DEF CommitInv, WriteInv, ShownInv
  <2> QED
    BY <2>1, <2>2 DEF ClientInv, FormInv
<1> QED
  BY <1>1 DEF IInv, DbTypeOK, TypeOK

LEMMA IInvValid == IInv => PlansValidAsSaved
<1> SUFFICES ASSUME IInv, NEW w \in Plans, AsChecked(w)
             PROVE  PeriodFits(w) /\ NoPrivateTask(w)
  BY DEF PlansValidAsSaved
<1>1. ASSUME NEW t \in db[w].tasks PROVE Fits(db[w], db[t])
  <2>1. Exists(t) /\ Checked(seen[w][t], db[w], db[t])
    BY DEF IInv, PlanInv, Plans
  <2>2. db[t].version = seen[w][t]
    BY DEF AsChecked
  <2> QED
    BY <2>1, <2>2 DEF Checked, Exists
<1>2. /\ db[w] \in PlanRow
      /\ \A t \in db[w].tasks : db[t] \in TaskRow
  <2>1. db[w] \in PlanRow
    BY DEF IInv, DbTypeOK, Plans
  <2>2. ASSUME NEW t \in db[w].tasks PROVE db[t] \in TaskRow
    BY <2>1 DEF IInv, DbTypeOK, PlanInv, Plans, PlanRow
  <2> QED
    BY <2>1, <2>2
<1>3. PeriodFits(w)
  <2> SUFFICES ASSUME NEW t \in db[w].tasks, NEW day \in db[t].start..db[t].end
               PROVE  day \in db[w].start..db[w].end
    BY DEF PeriodFits
  <2> QED
    BY <1>1, <1>2 DEF Fits, TaskRow, PlanRow, Days
<1>4. NoPrivateTask(w)
  BY <1>1 DEF Fits, NoPrivateTask
<1> QED
  BY <1>3, <1>4

LEMMA IInvRaces == IInv => OnlyRacesFail
<1> SUFFICES ASSUME IInv, NEW c \in Clients, client[c].at = "commit", c \notin disturbed
             PROVE  CanCommit(c)
  BY DEF OnlyRacesFail
<1>1. CommitInv(c)
  BY DEF IInv, ClientInv, Idle
<1> QED
  BY <1>1 DEF CommitInv, CanCommit

-----------------------------------------------------------------------------
(* Steps that leave the database alone.                                    *)

(* The client of the step answers for itself, the others do not notice.    *)
LEMMA QuietStep ==
  ASSUME IInv, NEW c \in Clients, db' = db, seen' = seen, crossed' = crossed,
         DOMAIN client' = Clients,
         \A d \in Clients \ {c} : client'[d] = client[d],
         disturbed' \subseteq disturbed, disturbed \ {c} \subseteq disturbed',
         ClientInv(c)',
         client'[c].at = "commit" =>
           \A x \in DOMAIN client'[c].writes : db[x] # Unborn \/ Unused(x)
  PROVE  IInv'
<1>1. DbTypeOK'
  BY DEF IInv, DbTypeOK, Exists
<1>2. ASSUME NEW w \in Workplans PROVE PlanInv(w)'
  BY DEF IInv, PlanInv, Exists, Checked
<1>3. ASSUME NEW d \in Clients, d # c PROVE ClientInv(d)'
  <2>1. ClientInv(d) /\ client'[d] = client[d] /\ (d \in disturbed' <=> d \in disturbed)
    BY <1>3 DEF IInv
  <2>2. CASE client[d] = Idle
    BY <2>1, <2>2 DEF ClientInv
  <2>3. CASE client[d].at = "form" /\ FormInv(d)
    BY <2>1, <2>3 DEF ClientInv, FormInv, Exists
  <2>4. CASE client[d].at = "commit" /\ CommitInv(d)
    <3>1. Writes(d)' = Writes(d)
      BY <2>1 DEF Writes
    <3>2. ASSUME NEW x \in DOMAIN Writes(d) PROVE WriteInv(d, x)'
      BY <2>4, <3>1 DEF CommitInv, WriteInv, IsWrite, Exists
    <3>3. ASSUME NEW w \in DOMAIN Writes(d) \cap Workplans PROVE PlanWriteInv(d, w)'
      <4>1. PlanWriteInv(d, w)
        BY <2>4 DEF CommitInv
      <4> QED
        BY <2>1, <3>1, <4>1 DEF PlanWriteInv, Validated, Reduced, Checked, Exists, Version
    <3>4. ASSUME NEW x \in DOMAIN client[d].shown PROVE ShownInv(d, x)'
      BY <2>1, <2>4, <3>1 DEF CommitInv, ShownInv, Version
    <3>5. (d \notin disturbed => VersionsHold(d) /\ ReferencesHold(After(d)))'
      BY <2>1, <2>4, <3>1 DEF CommitInv, VersionsHold, ReferencesHold, After, Version
    <3>6. CommitInv(d)'
      BY <2>1, <3>1, <3>2, <3>3, <3>4, <3>5 DEF CommitInv
    <3> QED
      BY <2>1, <2>4, <3>6 DEF ClientInv
  <2> QED
    BY <2>1, <2>2, <2>3, <2>4 DEF ClientInv
<1>4. OneCreator'
  <2> SUFFICES ASSUME NEW d \in Clients, NEW e \in Clients, d # e,
                      client'[d].at = "commit", client'[e].at = "commit",
                      NEW x, x \in DOMAIN client'[d].writes, x \in DOMAIN client'[e].writes
               PROVE  db[x] # Unborn
    BY DEF OneCreator, Writes
  <2>1. CASE d # c /\ e # c
    BY <2>1 DEF IInv, OneCreator, Writes
  <2>2. CASE d = c
    BY <2>2 DEF Unused, Writes
  <2>3. CASE e = c
    BY <2>3 DEF Unused, Writes
  <2> QED
    BY <2>1, <2>2, <2>3
<1>5. disturbed' \subseteq Clients
  BY DEF IInv
<1> QED
  BY <1>1, <1>2, <1>3, <1>4, <1>5 DEF IInv

LEMMA IdleClient ==
  ASSUME NEW c \in Clients, IInv, client' = [client EXCEPT ![c] = Idle],
         db' = db, seen' = seen, crossed' = crossed, disturbed' \subseteq disturbed,
         disturbed \ {c} \subseteq disturbed'
  PROVE  IInv'
<1>1. /\ DOMAIN client' = Clients
      /\ client'[c] = Idle
      /\ \A d \in Clients \ {c} : client'[d] = client[d]
  BY DEF IInv
<1>2. ClientInv(c)' /\ client'[c].at # "commit"
  BY <1>1 DEF ClientInv, Idle
<1> QED
  BY <1>1, <1>2, QuietStep

LEMMA ShowFormKeeps ==
  ASSUME NEW c \in Clients, IInv, NEW x \in Ids, ShowForm(c, x)
  PROVE  IInv'
<1>1. /\ DOMAIN client' = Clients
      /\ client'[c] = [at |-> "form", id |-> x, row |-> db[x]]
      /\ \A d \in Clients \ {c} : client'[d] = client[d]
      /\ db' = db /\ seen' = seen /\ crossed' = crossed /\ disturbed' = disturbed
  BY DEF IInv, ShowForm
<1>2. db[x] \in TaskRow \cup PlanRow /\ db[x] # Unborn
  BY IdsAreTasksOrPlans DEF ShowForm, Mine, Exists, IInv, DbTypeOK
<1>3. FormInv(c)'
  BY <1>1, <1>2, RowsExist DEF FormInv, Exists
<1>4. ClientInv(c)' /\ client'[c].at # "commit"
  BY <1>1, <1>3 DEF ClientInv
<1> QED
  BY <1>1, <1>4, QuietStep

(* What a request leaves for its commit, and what there is to show of it.  *)
LEMMA AskKeeps ==
  ASSUME NEW c \in Clients, IInv,
         NEW writes, NEW shown, NEW tasks,
         client' = [client EXCEPT ![c] =
                      [at |-> "commit", writes |-> writes, shown |-> shown, seen |-> tasks]],
         disturbed' = disturbed \ {c}, db' = db, seen' = seen, crossed' = crossed,
         \A x \in DOMAIN writes : db[x] # Unborn \/ Unused(x),
         \A x \in DOMAIN writes : WriteInv(c, x)',
         \A w \in DOMAIN writes \cap Workplans : PlanWriteInv(c, w)',
         \A x \in DOMAIN shown : ShownInv(c, x)',
         \A x \in DOMAIN writes : Version(db[x]) = writes[x].base,
         ReferencesHold([x \in Ids |-> IF x \in DOMAIN writes THEN writes[x].row ELSE db[x]])
  PROVE  IInv'
<1>1. /\ DOMAIN client' = Clients
      /\ client'[c] = [at |-> "commit", writes |-> writes, shown |-> shown, seen |-> tasks]
      /\ \A d \in Clients \ {c} : client'[d] = client[d]
  BY DEF IInv
<1>2. Writes(c)' = writes
  BY <1>1 DEF Writes
<1>3. VersionsHold(c)'
  BY <1>2 DEF VersionsHold, Version
<1>4. ReferencesHold(After(c))'
  BY <1>2 DEF After, ReferencesHold
<1>5. CommitInv(c)'
  BY <1>1, <1>2, <1>3, <1>4 DEF CommitInv
<1>6. ClientInv(c)'
  BY <1>1, <1>5 DEF ClientInv
<1> QED
  BY <1>1, <1>6, QuietStep

LEMMA ReferencesNow == IInv => ReferencesHold(db)
BY DEF IInv, PlanInv, ReferencesHold, Exists

(* The rows of tasks and plans that exist, as the provers need them.       *)
LEMMA TaskRows ==
  ASSUME IInv, NEW t \in Tasks, Exists(t)
  PROVE  /\ db[t] \in TaskRow /\ db[t].version \in Nat
         /\ Version(db[t]) = db[t].version
         /\ db[t] # Unborn /\ db[t] # Deleted
         /\ t \in Ids /\ t \notin Workplans
         /\ MaxVersion[t] \in Nat /\ db[t].version <= MaxVersion[t]
BY RowsExist, IdsAreTasksOrPlans, BoundsAssumption DEF IInv, DbTypeOK

LEMMA PlanRows ==
  ASSUME IInv, NEW w \in Workplans, Exists(w)
  PROVE  /\ db[w] \in PlanRow /\ db[w].version \in Nat
         /\ Version(db[w]) = db[w].version
         /\ db[w] # Unborn /\ db[w] # Deleted
         /\ w \in Ids /\ w \notin Tasks
         /\ MaxVersion[w] \in Nat /\ db[w].version <= MaxVersion[w]
         /\ db[w].tasks \subseteq Tasks
         /\ \A t \in db[w].tasks : Exists(t)
<1>1. db[w] \in PlanRow
  BY DEF IInv, DbTypeOK
<1>2. db[w].tasks \subseteq Tasks
  BY <1>1 DEF PlanRow
<1>3. \A t \in db[w].tasks : Exists(t)
  BY DEF IInv, PlanInv
<1> QED
  BY <1>1, <1>2, <1>3, RowsExist, IdsAreTasksOrPlans, BoundsAssumption DEF IInv, DbTypeOK

(* A form that is not older than the row shows the row. *)
LEMMA FormIsRow ==
  ASSUME IInv, NEW c \in Clients, NEW x \in Ids, MayUpdate(c, x)
  PROVE  client[c].row = db[x] /\ Exists(x) /\ Changeable(x)
<1>1. FormInv(c)
  BY DEF IInv, ClientInv, MayUpdate, Idle
<1> QED
  BY <1>1 DEF FormInv, MayUpdate, Mine, SameVersion, Changeable

(* What may be saved has a next version. *)
MaySave(x) == Unused(x) \/ (Exists(x) /\ Changeable(x))

LEMMA SavedVersion ==
  ASSUME IInv, NEW x \in Ids, MaySave(x)
  PROVE  /\ Version(db[x]) \in -1..MaxVersion[x] /\ MaxVersion[x] \in Nat
         /\ Version(db[x]) = -1 <=> db[x] = Unborn
         /\ Exists(x) => Version(db[x]) = db[x].version
         /\ NextVersion(x) \in Nat /\ NextVersion(x) <= MaxVersion[x]
         /\ db[x] # Unborn \/ Unused(x)
<1>1. MaxVersion[x] \in Nat
  BY BoundsAssumption DEF Ids
<1>2. CASE Unused(x)
  BY <1>1, <1>2 DEF Unused, Version, NextVersion, Exists
<1>3. CASE Exists(x) /\ Changeable(x)
  <2>1. db[x].version \in Nat /\ Version(db[x]) = db[x].version /\ db[x].version < MaxVersion[x]
    BY <1>3, TaskRows, PlanRows DEF Changeable, Ids
  <2> QED
    BY <1>1, <1>3, <2>1 DEF NextVersion, Exists
<1> QED
  BY <1>2, <1>3 DEF MaySave

LEMMA MayCreateSaves ==
  ASSUME NEW c, NEW x, MayCreate(c, x)
  PROVE  MaySave(x)
BY DEF MayCreate, MaySave

LEMMA OwnersAreManagers ==
  ASSUME NEW c \in Clients
  PROVE  Owners(c) \subseteq Managers
BY ManagersAssumption DEF Owners

(* A write of one row that is the next version of it. *)
LEMMA SavedWrite ==
  ASSUME IInv, NEW c \in Clients, NEW x \in Ids, MaySave(x),
         NEW row \in IF x \in Tasks THEN TaskRow ELSE PlanRow,
         row.version = NextVersion(x), row.start < row.end,
         Writes(c)' = [y \in {x} |-> [base |-> Version(db[x]), row |-> row]],
         db' = db
  PROVE  WriteInv(c, x)'
<1>1. PICK base, next, max : base = Version(db[x]) /\ next = NextVersion(x) /\ max = MaxVersion[x]
  OBVIOUS
<1>2. /\ base \in -1..max /\ max \in Nat
      /\ base = -1 <=> db[x] = Unborn
      /\ Exists(x) => base = db[x].version
      /\ next \in Nat /\ next <= max /\ next = base + 1
  BY <1>1, SavedVersion DEF NextVersion
<1>3. row # Deleted
  BY RowsExist
<1>4. Writes(c)'[x] = [base |-> base, row |-> row]
  BY <1>1
<1>5. Exists(x) => db[x].version \in Nat
  BY TaskRows, PlanRows DEF Ids
<1>6. IsWrite(x, [base |-> base, row |-> row])'
  BY <1>1, <1>2 DEF IsWrite
<1> QED
  BY <1>1, <1>2, <1>3, <1>4, <1>5, <1>6 DEF WriteInv, Exists

(* A task that is created or updated. *)
LEMMA TaskSaveKeeps ==
  ASSUME IInv, NEW c \in Clients, NEW t \in Tasks, MaySave(t),
         NEW row \in TaskRow, row.version = NextVersion(t), row.start < row.end,
         NEW shown, DOMAIN shown \subseteq {t}, \A x \in DOMAIN shown : shown[x] = db[x],
         Ask(c, [x \in {t} |-> Replacing(x, row)], shown, {})
  PROVE  IInv'
<1> DEFINE writes == [x \in {t} |-> [base |-> Version(db[t]), row |-> row]]
<1>1. t \in Ids /\ t \notin Workplans
  BY IdsAreTasksOrPlans
<1>2. /\ client' = [client EXCEPT ![c] =
           [at |-> "commit", writes |-> writes, shown |-> shown,
            seen |-> [x \in {} |-> db[x].version]]]
      /\ disturbed' = disturbed \ {c} /\ db' = db /\ seen' = seen /\ crossed' = crossed
  <2>1. [x \in {t} |-> Replacing(x, row)] = writes
    BY DEF Replacing
  <2> QED
    BY <2>1 DEF Ask
<1>3. Writes(c)' = writes /\ client'[c].shown = shown
  BY <1>2 DEF Writes, IInv
<1>4. /\ DOMAIN writes = {t} /\ writes[t] = [base |-> Version(db[t]), row |-> row]
      /\ db[t] # Unborn \/ Unused(t)
  BY <1>1, SavedVersion
<1>5. WriteInv(c, t)'
  BY <1>1, <1>2, <1>3, SavedWrite
<1> HIDE DEF writes
<1>6. \A x \in DOMAIN shown : ShownInv(c, x)'
  BY <1>2, <1>3, <1>4 DEF ShownInv
<1>7. ReferencesHold([x \in Ids |-> IF x \in DOMAIN writes THEN writes[x].row ELSE db[x]])
  <2>1. row # Unborn /\ row # Deleted
    BY RowsExist
  <2>2. \A x \in Tasks : x \in Ids
    BY DEF Ids
  <2>3. \A w \in Workplans : w \in Ids /\ (Exists(w) => db[w].tasks \subseteq Tasks)
    BY PlanRows DEF Ids
  <2> QED
    BY <1>1, <1>4, <2>1, <2>2, <2>3, ReferencesNow DEF ReferencesHold, Exists
<1>8. /\ \A x \in DOMAIN writes : WriteInv(c, x)'
      /\ \A x \in DOMAIN writes : db[x] # Unborn \/ Unused(x)
      /\ \A x \in DOMAIN writes : Version(db[x]) = writes[x].base
      /\ \A w \in DOMAIN writes \cap Workplans : PlanWriteInv(c, w)'
  BY <1>1, <1>4, <1>5
<1> QED
  BY <1>2, <1>6, <1>7, <1>8, AskKeeps

LEMMA CreateTaskKeeps ==
  ASSUME NEW c \in Clients, IInv, CreateTask(c)
  PROVE  IInv'
<1>1. PICK t \in Tasks, owner \in Owners(c), public \in BOOLEAN, start \in Days, end \in Days :
        LET row == [manager |-> owner, isPublic |-> public,
                    start |-> start, end |-> end, version |-> NextVersion(t)]
        IN  /\ MayCreate(c, t)
            /\ ValidDates(row)
            /\ Ask(c, [x \in {t} |-> Replacing(x, row)], Nothing, {})
  BY DEF CreateTask
<1> DEFINE row == [manager |-> owner, isPublic |-> public,
                   start |-> start, end |-> end, version |-> NextVersion(t)]
<1>2. MaySave(t) /\ t \in Ids
  BY <1>1, MayCreateSaves DEF Ids
<1>3. NextVersion(t) \in Nat
  BY <1>2, SavedVersion
<1>4. row \in TaskRow /\ row.version = NextVersion(t) /\ row.start < row.end
  BY <1>1, <1>3, OwnersAreManagers DEF TaskRow, ValidDates
<1>5. Ask(c, [x \in {t} |-> Replacing(x, row)], Nothing, {})
  BY <1>1
<1>6. DOMAIN Nothing = {}
  BY DEF Nothing
<1> HIDE DEF row
<1> QED
  BY <1>2, <1>4, <1>5, <1>6, TaskSaveKeeps

(* What an update does with the task it may change. *)
SavesTask(c, t) ==
  \E owner \in Owners(c), public \in BOOLEAN, start, end \in Days :
    LET row == [manager |-> owner, isPublic |-> public,
                start |-> start, end |-> end, version |-> NextVersion(t)]
    IN  /\ ValidDates(row)
        /\ Ask(c, [x \in {t} |-> Replacing(x, row)],
                  [x \in {t} |-> client[c].row], {})

LEMMA UpdateTaskKeeps ==
  ASSUME NEW c \in Clients, IInv, UpdateTask(c)
  PROVE  IInv'
<1>0. PICK t \in Tasks : MayUpdate(c, t) /\ SavesTask(c, t)
  BY DEF UpdateTask, SavesTask
<1>1. PICK owner \in Owners(c), public \in BOOLEAN, start \in Days, end \in Days :
        LET row == [manager |-> owner, isPublic |-> public,
                    start |-> start, end |-> end, version |-> NextVersion(t)]
        IN  /\ ValidDates(row)
            /\ Ask(c, [x \in {t} |-> Replacing(x, row)],
                      [x \in {t} |-> client[c].row], {})
  BY <1>0 DEF SavesTask
<1> DEFINE row == [manager |-> owner, isPublic |-> public,
                   start |-> start, end |-> end, version |-> NextVersion(t)]
           shown == [x \in {t} |-> client[c].row]
<1>2. t \in Ids
  BY DEF Ids
<1>3. client[c].row = db[t] /\ MaySave(t)
  BY <1>0, <1>2, FormIsRow DEF MaySave
<1>4. NextVersion(t) \in Nat
  BY <1>2, <1>3, SavedVersion
<1>5. row \in TaskRow /\ row.version = NextVersion(t) /\ row.start < row.end
  BY <1>1, <1>4, OwnersAreManagers DEF TaskRow, ValidDates
<1>6. Ask(c, [x \in {t} |-> Replacing(x, row)], shown, {})
  BY <1>1
<1>7. DOMAIN shown \subseteq {t} /\ \A x \in DOMAIN shown : shown[x] = db[x]
  BY <1>3
<1> HIDE DEF row, shown
<1> QED
  BY <1>3, <1>5, <1>6, <1>7, TaskSaveKeeps

(* A plan row without a task is a plan row that is otherwise the same. *)
PlanLess(old, t) == [old EXCEPT !.tasks = @ \ {t}, !.version = @ + 1]

LEMMA ReducedRow ==
  ASSUME NEW old \in PlanRow, NEW t
  PROVE  LET row == PlanLess(old, t)
         IN  /\ row \in PlanRow
             /\ row.version = old.version + 1
             /\ row.tasks = old.tasks \ {t}
             /\ row.manager = old.manager
             /\ row.start = old.start /\ row.end = old.end
             /\ row.isPublic = old.isPublic
<1> DEFINE row == [old EXCEPT !.tasks = @ \ {t}, !.version = @ + 1]
<1>1. /\ old.version \in Nat /\ old.tasks \in SUBSET Tasks
      /\ old.manager \in Managers /\ old.isPublic \in BOOLEAN
      /\ old.start \in Days /\ old.end \in Days
  BY DEF PlanRow
<1> DEFINE less == [old EXCEPT !.tasks = @ \ {t}]
<1>2. /\ less \in PlanRow /\ less.tasks = old.tasks \ {t}
      /\ less.manager = old.manager /\ less.version = old.version
      /\ less.start = old.start /\ less.end = old.end
      /\ less.isPublic = old.isPublic
  BY <1>1 DEF PlanRow
<1>3. row = [less EXCEPT !.version = old.version + 1]
  OBVIOUS
<1> HIDE DEF row, less
<1>4. row \in PlanRow
  BY <1>1, <1>2, <1>3 DEF PlanRow
<1>5. /\ row.version = old.version + 1
      /\ row.tasks = old.tasks \ {t}
      /\ row.manager = old.manager
      /\ row.start = old.start /\ row.end = old.end
      /\ row.isPublic = old.isPublic
  BY <1>2, <1>3 DEF PlanRow
<1> QED
  BY <1>4, <1>5 DEF row, PlanLess

LEMMA DeleteTaskKeeps ==
  ASSUME NEW c \in Clients, IInv, DeleteTask(c)
  PROVE  IInv'
<1>1. PICK t \in Tasks :
        /\ MayDelete(c, t)
        /\ \A w \in Containing(t) : Changeable(w)
        /\ Ask(c, [x \in DOMAIN PlansWithout(t) \cup {t} |->
                     IF x = t THEN Replacing(t, Deleted) ELSE PlansWithout(t)[x]],
                  Nothing, {})
  BY DEF DeleteTask
<1>2. PICK old, holders : old = db /\ holders = Containing(t)
  OBVIOUS
<1> DEFINE without(w) == PlanLess(old[w], t)
           writes == [x \in holders \cup {t} |->
                        IF x = t THEN [base |-> old[t].version, row |-> Deleted]
                        ELSE [base |-> old[x].version, row |-> without(x)]]
<1>3. /\ Exists(t) /\ old[t].version \in Nat /\ Version(db[t]) = old[t].version
      /\ db[t] # Unborn /\ t \in Ids /\ t \notin Workplans /\ t \notin holders
      /\ MaxVersion[t] \in Nat /\ old[t].version <= MaxVersion[t]
  <2>1. Exists(t)
    BY <1>1 DEF MayDelete, Mine
  <2> QED
    BY <2>1, <1>2, TaskRows DEF Containing
<1>4. ASSUME NEW w \in holders
      PROVE  /\ w \in Workplans /\ w \in Ids /\ Exists(w) /\ t \in old[w].tasks
             /\ old[w] \in PlanRow /\ old[w].version \in Nat
             /\ Version(db[w]) = old[w].version /\ db[w] # Unborn
             /\ MaxVersion[w] \in Nat /\ old[w].version < MaxVersion[w]
             /\ old[w].start < old[w].end /\ w \notin Tasks
             /\ \A u \in old[w].tasks : Exists(u)
  <2>1. w \in Workplans /\ Exists(w) /\ t \in old[w].tasks /\ old[w].version < MaxVersion[w]
    BY <1>1, <1>2 DEF Containing, Changeable
  <2>2. w \in Ids
    BY <2>1 DEF Ids
  <2>3. old[w].start < old[w].end
    BY <1>2, <2>1, <2>2 DEF IInv, DbTypeOK
  <2> QED
    BY <1>2, <2>1, <2>2, <2>3, PlanRows
<1>5. ASSUME NEW w \in holders
      PROVE  /\ without(w) \in PlanRow
             /\ without(w).version = old[w].version + 1
             /\ without(w).tasks = old[w].tasks \ {t}
             /\ without(w).manager = old[w].manager
             /\ without(w).start = old[w].start /\ without(w).end = old[w].end
             /\ without(w).isPublic = old[w].isPublic
  BY <1>4, ReducedRow
<1>6. /\ client' = [client EXCEPT ![c] =
           [at |-> "commit", writes |-> writes, shown |-> Nothing,
            seen |-> [x \in {} |-> db[x].version]]]
      /\ disturbed' = disturbed \ {c} /\ db' = db /\ seen' = seen /\ crossed' = crossed
  <2>1. DOMAIN PlansWithout(t) = holders
    BY <1>2 DEF PlansWithout
  <2>2. \A x \in holders : PlansWithout(t)[x] = [base |-> old[x].version, row |-> without(x)]
    BY <1>2, <1>4 DEF PlansWithout, Replacing, PlanLess
  <2>3. Replacing(t, Deleted) = [base |-> old[t].version, row |-> Deleted]
    BY <1>3 DEF Replacing
  <2>4. [x \in DOMAIN PlansWithout(t) \cup {t} |->
           IF x = t THEN Replacing(t, Deleted) ELSE PlansWithout(t)[x]] = writes
    BY <2>1, <2>2, <2>3
  <2> QED
    BY <1>1, <2>4 DEF Ask
<1> HIDE DEF without
<1>7. Writes(c)' = writes /\ DOMAIN client'[c].seen = {}
  BY <1>6 DEF Writes, IInv
<1>8. /\ writes[t] = [base |-> old[t].version, row |-> Deleted]
      /\ \A w \in holders : writes[w] = [base |-> old[w].version, row |-> without(w)]
  BY <1>3
<1>9. ASSUME NEW x \in DOMAIN writes PROVE WriteInv(c, x)'
  <2>1. CASE x = t
    <3>1. IsWrite(t, writes[t])
      BY <1>3, <1>8 DEF IsWrite
    <3> QED
      BY <1>2, <1>3, <1>6, <1>7, <1>8, <2>1, <3>1 DEF WriteInv, Exists, IsWrite
  <2>2. CASE x \in holders
    <3>1. IsWrite(x, writes[x])
      BY <1>4, <1>5, <1>8, <2>2 DEF IsWrite
    <3> QED
      BY <1>2, <1>4, <1>5, <1>6, <1>7, <1>8, <2>2, <3>1 DEF WriteInv, Exists, IsWrite
  <2> QED
    BY <2>1, <2>2
<1>10. ASSUME NEW w \in DOMAIN writes \cap Workplans PROVE PlanWriteInv(c, w)'
  <2>1. w \in holders /\ writes[w].row = without(w) /\ writes[w].base = old[w].version
    BY <1>3, <1>8
  <2>2. \A u \in without(w).tasks : db[u] # Unborn
    BY <1>4, <1>5, <2>1 DEF Exists
  <2>3. Reduced(c, w)'
    BY <1>2, <1>4, <1>5, <1>6, <1>7, <2>1 DEF Reduced, Exists
  <2> QED
    BY <1>6, <1>7, <2>1, <2>2, <2>3 DEF PlanWriteInv, Exists
<1>11. \A x \in DOMAIN writes : db[x] # Unborn /\ Version(db[x]) = writes[x].base
  BY <1>3, <1>4, <1>8
<1>12. ReferencesHold([x \in Ids |-> IF x \in DOMAIN writes THEN writes[x].row ELSE db[x]])
  <2> DEFINE after == [x \in Ids |-> IF x \in DOMAIN writes THEN writes[x].row ELSE db[x]]
  <2> SUFFICES ASSUME NEW w \in Workplans, after[w] \notin {Unborn, Deleted},
                      NEW u \in after[w].tasks
               PROVE  after[u] \notin {Unborn, Deleted}
    BY DEF ReferencesHold
  <2>1. w \in Ids /\ w # t
    BY <1>3 DEF Ids
  <2>2. CASE w \in holders
    <3>1. after[w] = without(w)
      BY <2>1, <2>2, <1>8
    <3>2. u \in old[w].tasks /\ u # t /\ Exists(u) /\ u \in Tasks
      BY <3>1, <2>2, <1>4, <1>5 DEF PlanRow
    <3>3. u \notin holders /\ u \in Ids
      BY <3>2, <1>4 DEF Ids
    <3> QED
      BY <3>2, <3>3 DEF Exists
  <2>3. CASE w \notin holders
    <3>1. after[w] = db[w] /\ Exists(w)
      BY <2>1, <2>3 DEF Exists
    <3>2. u # t
      BY <1>2, <2>3, <3>1 DEF Containing
    <3>3. u \in Tasks /\ Exists(u)
      BY <3>1, PlanRows
    <3>4. u \notin holders /\ u \in Ids
      BY <3>3, <1>4 DEF Ids
    <3> QED
      BY <3>2, <3>3, <3>4 DEF Exists
  <2> QED
    BY <2>2, <2>3
<1>13. DOMAIN Nothing = {}
  BY DEF Nothing
<1> HIDE DEF writes
<1> QED
  BY <1>6, <1>9, <1>10, <1>11, <1>12, <1>13, AskKeeps

(* A plan that passes the checks is right about the tasks as they are now, *)
(* and refers to tasks that exist.                                         *)
LEMMA SavedPlan ==
  ASSUME IInv, NEW c \in Clients, NEW w \in Workplans, NEW row \in PlanRow,
         MayChoose(c, row.tasks), HidesPrivate(row), Covers(row)
  PROVE  /\ \A t \in row.tasks : /\ Exists(t) /\ db[t] # Unborn
                                 /\ Checked(db[t].version, row, db[t])
         /\ ReferencesHold([x \in Ids |-> IF x = w THEN row ELSE db[x]])
<1>1. ASSUME NEW t \in row.tasks
      PROVE  /\ Exists(t) /\ db[t] # Unborn /\ t \in Tasks
             /\ Checked(db[t].version, row, db[t])
  <2>1. Exists(t) /\ t \in Tasks
    BY DEF MayChoose, Mine, PlanRow
  <2>2. Fits(row, db[t])
    BY DEF HidesPrivate, Covers, Fits
  <2> QED
    BY <2>1, <2>2, TaskRows DEF Checked
<1>2. ReferencesHold([x \in Ids |-> IF x = w THEN row ELSE db[x]])
  <2>1. row # Unborn /\ row # Deleted
    BY RowsExist
  <2>2. \A x \in Tasks : x \in Ids /\ x # w
    BY IdsAreTasksOrPlans
  <2>3. \A v \in Workplans : v \in Ids /\ (Exists(v) => db[v].tasks \subseteq Tasks)
    BY PlanRows DEF Ids
  <2> QED
    BY <1>1, <2>1, <2>2, <2>3, ReferencesNow DEF ReferencesHold, Exists
<1> QED
  BY <1>1, <1>2

(* A plan that is created or updated. *)
LEMMA PlanSaveKeeps ==
  ASSUME IInv, NEW c \in Clients, NEW w \in Workplans, MaySave(w),
         NEW row \in PlanRow, row.version = NextVersion(w), row.start < row.end,
         MayChoose(c, row.tasks), HidesPrivate(row), Covers(row),
         NEW shown, DOMAIN shown \subseteq {w}, \A x \in DOMAIN shown : shown[x] = db[x],
         Ask(c, [x \in {w} |-> Replacing(x, row)], shown, row.tasks)
  PROVE  IInv'
<1>1. PICK now : now = [t \in row.tasks |-> db[t].version]
  OBVIOUS
<1> DEFINE writes == [x \in {w} |-> [base |-> Version(db[w]), row |-> row]]
<1>2. w \in Ids /\ w \notin Tasks
  BY IdsAreTasksOrPlans
<1>3. /\ client' = [client EXCEPT ![c] =
           [at |-> "commit", writes |-> writes, shown |-> shown, seen |-> now]]
      /\ disturbed' = disturbed \ {c} /\ db' = db /\ seen' = seen /\ crossed' = crossed
  <2>1. [x \in {w} |-> Replacing(x, row)] = writes
    BY DEF Replacing
  <2> QED
    BY <1>1, <2>1 DEF Ask
<1>4. Writes(c)' = writes /\ client'[c].shown = shown /\ client'[c].seen = now
  BY <1>3 DEF Writes, IInv
<1>5. /\ DOMAIN writes = {w} /\ writes[w] = [base |-> Version(db[w]), row |-> row]
      /\ db[w] # Unborn \/ Unused(w)
  BY <1>2, SavedVersion
<1>6. WriteInv(c, w)'
  BY <1>2, <1>3, <1>4, SavedWrite
<1> HIDE DEF writes
<1>7. \A x \in DOMAIN shown : ShownInv(c, x)'
  BY <1>3, <1>4, <1>5 DEF ShownInv
<1>8. /\ \A t \in row.tasks : /\ Exists(t) /\ db[t] # Unborn
                              /\ Checked(db[t].version, row, db[t])
      /\ ReferencesHold([x \in Ids |-> IF x = w THEN row ELSE db[x]])
  BY SavedPlan
<1>9. PlanWriteInv(c, w)'
  <2>1. Validated(c, row)'
    BY <1>1, <1>3, <1>4, <1>8 DEF Validated, Checked, Exists
  <2> QED
    BY <1>3, <1>4, <1>5, <1>8, <2>1 DEF PlanWriteInv, Validated, Exists, Checked
<1>10. [x \in Ids |-> IF x = w THEN row ELSE db[x]]
       = [x \in Ids |-> IF x \in DOMAIN writes THEN writes[x].row ELSE db[x]]
  BY <1>5
<1>11. /\ \A x \in DOMAIN writes : WriteInv(c, x)'
       /\ \A x \in DOMAIN writes : db[x] # Unborn \/ Unused(x)
       /\ \A x \in DOMAIN writes : Version(db[x]) = writes[x].base
       /\ \A v \in DOMAIN writes \cap Workplans : PlanWriteInv(c, v)'
  BY <1>5, <1>6, <1>9
<1> QED
  BY <1>3, <1>7, <1>8, <1>10, <1>11, AskKeeps

LEMMA CreatePlanKeeps ==
  ASSUME NEW c \in Clients, IInv, CreatePlan(c)
  PROVE  IInv'
<1>1. PICK w \in Workplans, owner \in Owners(c), public \in BOOLEAN,
           start \in Days, end \in Days, newTasks \in SUBSET Tasks :
        LET row == [manager |-> owner, isPublic |-> public,
                    start |-> start, end |-> end, version |-> NextVersion(w),
                    tasks |-> newTasks]
        IN  /\ MayCreate(c, w)
            /\ MayChoose(c, newTasks)
            /\ HidesPrivate(row)
            /\ ValidDates(row)
            /\ Covers(row)
            /\ Ask(c, [x \in {w} |-> Replacing(x, row)], Nothing, newTasks)
  BY DEF CreatePlan
<1> DEFINE row == [manager |-> owner, isPublic |-> public,
                   start |-> start, end |-> end, version |-> NextVersion(w),
                   tasks |-> newTasks]
<1>2. MaySave(w) /\ w \in Ids
  BY <1>1, MayCreateSaves DEF Ids
<1>3. NextVersion(w) \in Nat
  BY <1>2, SavedVersion
<1>4. /\ row \in PlanRow /\ row.version = NextVersion(w) /\ row.start < row.end
      /\ row.tasks = newTasks
  BY <1>1, <1>3, OwnersAreManagers DEF PlanRow, ValidDates
<1>5. /\ Ask(c, [x \in {w} |-> Replacing(x, row)], Nothing, newTasks)
      /\ MayChoose(c, newTasks) /\ HidesPrivate(row) /\ Covers(row)
  BY <1>1
<1>6. DOMAIN Nothing = {}
  BY DEF Nothing
<1> HIDE DEF row
<1> QED
  BY <1>2, <1>4, <1>5, <1>6, PlanSaveKeeps

(* What an update does with the plan it may change. *)
SavesPlan(c, w) ==
  \E owner \in Owners(c), public \in BOOLEAN, start, end \in Days,
     newTasks \in SUBSET Tasks :
    LET row == [manager |-> owner, isPublic |-> public,
                start |-> start, end |-> end, version |-> NextVersion(w),
                tasks |-> newTasks]
    IN  /\ MayChoose(c, newTasks)
        /\ HidesPrivate(row)
        /\ ValidDates(row)
        /\ Covers(row)
        /\ Ask(c, [x \in {w} |-> Replacing(x, row)],
                  [x \in {w} |-> client[c].row], newTasks)

LEMMA UpdatePlanKeeps ==
  ASSUME NEW c \in Clients, IInv, UpdatePlan(c)
  PROVE  IInv'
<1>0. PICK w \in Workplans : MayUpdate(c, w) /\ SavesPlan(c, w)
  BY DEF UpdatePlan, SavesPlan
<1>1. PICK owner \in Owners(c), public \in BOOLEAN,
           start \in Days, end \in Days, newTasks \in SUBSET Tasks :
        LET row == [manager |-> owner, isPublic |-> public,
                    start |-> start, end |-> end, version |-> NextVersion(w),
                    tasks |-> newTasks]
        IN  /\ MayChoose(c, newTasks)
            /\ HidesPrivate(row)
            /\ ValidDates(row)
            /\ Covers(row)
            /\ Ask(c, [x \in {w} |-> Replacing(x, row)],
                      [x \in {w} |-> client[c].row], newTasks)
  BY <1>0 DEF SavesPlan
<1> DEFINE row == [manager |-> owner, isPublic |-> public,
                   start |-> start, end |-> end, version |-> NextVersion(w),
                   tasks |-> newTasks]
           shown == [x \in {w} |-> client[c].row]
<1>2. w \in Ids
  BY DEF Ids
<1>3. client[c].row = db[w] /\ MaySave(w)
  BY <1>0, <1>2, FormIsRow DEF MaySave
<1>4. NextVersion(w) \in Nat
  BY <1>2, <1>3, SavedVersion
<1>5. /\ row \in PlanRow /\ row.version = NextVersion(w) /\ row.start < row.end
      /\ row.tasks = newTasks
  BY <1>1, <1>4, OwnersAreManagers DEF PlanRow, ValidDates
<1>6. /\ Ask(c, [x \in {w} |-> Replacing(x, row)], shown, newTasks)
      /\ MayChoose(c, newTasks) /\ HidesPrivate(row) /\ Covers(row)
  BY <1>1
<1>7. DOMAIN shown \subseteq {w} /\ \A x \in DOMAIN shown : shown[x] = db[x]
  BY <1>3
<1> HIDE DEF row, shown
<1> QED
  BY <1>3, <1>5, <1>6, <1>7, PlanSaveKeeps

LEMMA DeletePlanKeeps ==
  ASSUME NEW c \in Clients, IInv, DeletePlan(c)
  PROVE  IInv'
<1>1. PICK w \in Workplans :
        /\ MayDelete(c, w)
        /\ Ask(c, [x \in {w} |-> Replacing(x, Deleted)], Nothing, {})
  BY DEF DeletePlan
<1>2. PICK old : old = db[w]
  OBVIOUS
<1> DEFINE writes == [x \in {w} |-> [base |-> old.version, row |-> Deleted]]
<1>3. Exists(w)
  BY <1>1 DEF MayDelete, Mine
<1>4. /\ old.version \in Nat /\ Version(db[w]) = old.version
      /\ db[w] # Unborn /\ w \in Ids /\ w \notin Tasks /\ MaxVersion[w] \in Nat
      /\ old.version <= MaxVersion[w]
  BY <1>2, <1>3, PlanRows
<1>5. /\ client' = [client EXCEPT ![c] =
           [at |-> "commit", writes |-> writes, shown |-> Nothing,
            seen |-> [x \in {} |-> db[x].version]]]
      /\ disturbed' = disturbed \ {c} /\ db' = db /\ seen' = seen /\ crossed' = crossed
  <2>1. [x \in {w} |-> Replacing(x, Deleted)] = writes
    BY <1>4 DEF Replacing
  <2> QED
    BY <1>1, <2>1 DEF Ask
<1>6. Writes(c)' = writes
  BY <1>5 DEF Writes, IInv
<1>7. /\ DOMAIN writes = {w} /\ writes[w] = [base |-> old.version, row |-> Deleted]
      /\ DOMAIN Nothing = {}
  BY DEF Nothing
<1> HIDE DEF writes
<1>8. WriteInv(c, w)'
  <2>1. IsWrite(w, writes[w])
    BY <1>4, <1>7 DEF IsWrite
  <2> QED
    BY <1>2, <1>4, <1>5, <1>6, <1>7, <2>1 DEF WriteInv, Exists
<1>9. PlanWriteInv(c, w)'
  BY <1>6, <1>7 DEF PlanWriteInv
<1>10. ReferencesHold([x \in Ids |-> IF x \in DOMAIN writes THEN writes[x].row ELSE db[x]])
  <2>1. \A x \in Tasks : x \in Ids
    BY DEF Ids
  <2>2. \A v \in Workplans : v \in Ids /\ (Exists(v) => db[v].tasks \subseteq Tasks)
    BY PlanRows DEF Ids
  <2> QED
    BY <1>4, <1>7, <2>1, <2>2, ReferencesNow DEF ReferencesHold, Exists
<1>11. /\ \A x \in DOMAIN writes : WriteInv(c, x)'
       /\ \A x \in DOMAIN writes : db[x] # Unborn /\ Version(db[x]) = writes[x].base
  BY <1>4, <1>7, <1>8
<1>12. \A v \in DOMAIN writes \cap Workplans : PlanWriteInv(c, v)'
  BY <1>7, <1>9
<1>13. \A x \in DOMAIN Nothing : ShownInv(c, x)'
  BY <1>7
<1> QED
  BY <1>5, <1>10, <1>11, <1>12, <1>13, AskKeeps

-----------------------------------------------------------------------------
(* The commit.                                                             *)

(* What a commit makes of a row: nothing, or its next version.             *)
NextRow(old, new) ==
  \/ new = old
  \/ /\ old # Deleted /\ new # Unborn
     /\ new # Deleted => new.version = Version(old) + 1

LEMMA CommitRow ==
  ASSUME NEW c \in Clients, IInv, Commit(c), NEW x \in Ids
  PROVE  /\ NextRow(db[x], db'[x])
         /\ x \notin DOMAIN Writes(c) => db'[x] = db[x]
         /\ x \in DOMAIN Writes(c) =>
              /\ db'[x] = Writes(c)[x].row
              /\ Version(db[x]) = Writes(c)[x].base
              /\ WriteInv(c, x)
<1>1. CommitInv(c)
  BY DEF Commit, CanCommit, IInv, ClientInv, Idle
<1>2. CASE x \notin DOMAIN Writes(c)
  BY <1>2 DEF Commit, After, NextRow
<1>3. CASE x \in DOMAIN Writes(c)
  <2>1. /\ db'[x] = Writes(c)[x].row
        /\ Version(db[x]) = Writes(c)[x].base
        /\ WriteInv(c, x)
    BY <1>1, <1>3 DEF Commit, CanCommit, VersionsHold, After, CommitInv
  <2>2. db[x] # Deleted
    BY <2>1, RowsAssumption DEF WriteInv, Version
  <2>3. db'[x] # Unborn
    BY <2>1, RowsAssumption DEF WriteInv, IsWrite
  <2>4. db'[x] # Deleted => db'[x].version = Version(db[x]) + 1
    BY <2>1, <2>2 DEF WriteInv, Exists
  <2> QED
    BY <1>3, <2>1, <2>2, <2>3, <2>4 DEF NextRow
<1> QED
  BY <1>2, <1>3

(* What one write makes of a task, as seen by somebody who knew version s. *)
LEMMA CheckedNext ==
  ASSUME NEW old, NEW new, NextRow(old, new), old # Unborn,
         old # Deleted => old.version \in Nat,
         NEW s, NEW p, Checked(s, p, old)
  PROVE  Checked(s, p, new)
BY DEF NextRow, Checked, Version

LEMMA StaysDeleted ==
  ASSUME NEW old, NEW new, NextRow(old, new)
  PROVE  /\ old = Deleted => new = Deleted
         /\ old # Unborn => new # Unborn
         /\ old # Unborn /\ new \notin {Unborn, Deleted} =>
              /\ old \notin {Unborn, Deleted}
              /\ new = old \/ new.version = old.version + 1
BY DEF NextRow, Version

LEMMA VersionsAreNatural ==
  ASSUME IInv, NEW x \in Ids, Exists(x)
  PROVE  /\ db[x].version \in Nat /\ Version(db[x]) = db[x].version
         /\ db[x] \in TaskRow \cup PlanRow
BY TaskRows, PlanRows DEF Ids

(* The commit of another client overtakes what it changes.                 *)
LEMMA OtherWrites ==
  ASSUME NEW c \in Clients, IInv, Commit(c), NEW d \in Clients, d # c,
         client[d].at = "commit", NEW x \in DOMAIN Writes(d)
  PROVE  /\ x \in Ids
         /\ db[x] = Unborn => db'[x] = db[x]
         /\ Version(db'[x]) = Writes(d)[x].base => db'[x] = db[x]
<1>1. CommitInv(d) /\ client[c].at = "commit"
  BY DEF IInv, ClientInv, Idle, Commit, CanCommit
<1>2. WriteInv(d, x) /\ x \in Ids
  BY <1>1 DEF CommitInv, WriteInv
<1>3. db[x] = Unborn => db'[x] = db[x]
  <2>1. db[x] = Unborn => x \notin DOMAIN Writes(c)
    BY <1>1 DEF IInv, OneCreator
  <2> QED
    BY <1>2, <2>1, CommitRow
<1>4. ASSUME db'[x] # db[x] PROVE Version(db'[x]) # Writes(d)[x].base
  <2>1. NextRow(db[x], db'[x]) /\ db[x] # Unborn
    BY <1>2, <1>3, <1>4, CommitRow
  <2>2. Exists(x)
    BY <1>4, <2>1 DEF NextRow, Exists
  <2>3. MaxVersion[x] \in Nat
    BY <1>2, BoundsAssumption DEF Ids
  <2>4. /\ Writes(d)[x].base \in -1..MaxVersion[x] /\ Writes(d)[x].base # -1
        /\ Writes(d)[x].base <= db[x].version
    BY <1>2, <2>1, <2>2 DEF WriteInv, IsWrite
  <2>5. db[x].version \in Nat /\ Version(db[x]) = db[x].version
    BY <1>2, <2>2, VersionsAreNatural
  <2> QED
    BY <1>4, <2>1, <2>3, <2>4, <2>5 DEF NextRow, Version
<1> QED
  BY <1>2, <1>3, <1>4

(* The forms and the pending commits of the others. *)
LEMMA OtherClient ==
  ASSUME NEW c \in Clients, IInv, Commit(c), NEW d \in Clients, d # c
  PROVE  ClientInv(d)'
<1>1. client'[d] = client[d] /\ ClientInv(d)
  BY DEF Commit, IInv
<1>2. CASE client[d] = Idle
  BY <1>1, <1>2 DEF ClientInv
<1>3. CASE client[d].at = "form" /\ FormInv(d)
  <2> DEFINE x == client[d].id
             r == client[d].row
  <2>1. /\ x \in Ids /\ db[x] # Unborn /\ r \in TaskRow \cup PlanRow
        /\ Exists(x) => r.version <= db[x].version /\ (r.version = db[x].version => r = db[x])
    BY <1>3 DEF FormInv
  <2>2. NextRow(db[x], db'[x])
    BY <2>1, CommitRow
  <2>3. r.version \in Nat /\ (Exists(x) => db[x].version \in Nat)
    BY <2>1, RowsExist, VersionsAreNatural
  <2>4. /\ db'[x] # Unborn
        /\ db'[x] \notin {Unborn, Deleted} =>
             Exists(x) /\ (db'[x] = db[x] \/ db'[x].version = db[x].version + 1)
    BY <2>1, <2>2, StaysDeleted DEF Exists
  <2>5. db'[x] \notin {Unborn, Deleted} =>
          r.version <= db'[x].version /\ (r.version = db'[x].version => r = db'[x])
    BY <2>1, <2>3, <2>4
  <2>6. client'[d].id = x /\ client'[d].row = r
    BY <1>1
  <2>7. FormInv(d)'
    BY <2>1, <2>4, <2>5, <2>6 DEF FormInv, Exists
  <2> QED
    BY <1>1, <1>3, <2>7 DEF ClientInv
<1>4. CASE client[d].at = "commit" /\ CommitInv(d)
  <2>1. Writes(d)' = Writes(d)
    BY <1>1 DEF Writes
  <2>2. ASSUME NEW x \in DOMAIN Writes(d) PROVE WriteInv(d, x)'
    <3> DEFINE wr == Writes(d)[x]
    <3>1. WriteInv(d, x)
      BY <1>4 DEF CommitInv
    <3>2. /\ x \in Ids /\ NextRow(db[x], db'[x])
          /\ db[x] = Unborn => db'[x] = db[x]
      BY <1>4, CommitRow, OtherWrites
    <3>3. /\ wr.base = -1 <=> db'[x] = Unborn
          /\ db'[x] \notin {Unborn, Deleted} =>
               Exists(x) /\ (db'[x] = db[x] \/ db'[x].version = db[x].version + 1)
      BY <3>1, <3>2, StaysDeleted DEF WriteInv, Exists
    <3>4. db'[x] \notin {Unborn, Deleted} => wr.base <= db'[x].version
      <4>1. MaxVersion[x] \in Nat
        BY <3>2, BoundsAssumption DEF Ids
      <4>2. wr.base \in -1..MaxVersion[x]
        BY <3>1 DEF WriteInv, IsWrite
      <4> QED
        BY <3>1, <3>2, <3>3, <4>1, <4>2, VersionsAreNatural DEF WriteInv
    <3>5. /\ IsWrite(x, wr)
          /\ wr.row # Deleted =>
               wr.row.version = wr.base + 1 /\ wr.row.version <= MaxVersion[x]
      BY <3>1 DEF WriteInv
    <3> QED
      BY <2>1, <3>2, <3>3, <3>4, <3>5 DEF WriteInv, Exists, IsWrite
  <2>3. ASSUME NEW w \in DOMAIN Writes(d) \cap Workplans PROVE PlanWriteInv(d, w)'
    <3> DEFINE p == Writes(d)[w].row
    <3>1. PlanWriteInv(d, w) /\ WriteInv(d, w)
      BY <1>4 DEF CommitInv
    <3>2. p # Deleted => p \in PlanRow /\ p.tasks \subseteq Tasks
      BY <3>1, IdsAreTasksOrPlans DEF WriteInv, IsWrite, PlanRow
    <3>3. ASSUME p # Deleted, NEW t \in p.tasks
          PROVE  /\ t \in Tasks /\ NextRow(db[t], db'[t]) /\ db[t] # Unborn
                 /\ db'[t] # Unborn
      <4>1. t \in Tasks /\ t \in Ids /\ db[t] # Unborn
        BY <3>1, <3>2, <3>3 DEF PlanWriteInv, Ids
      <4>2. NextRow(db[t], db'[t])
        BY <4>1, CommitRow
      <4> QED
        BY <4>1, <4>2, StaysDeleted DEF Exists
    <3>4. ASSUME p # Deleted, Validated(d, p)
          PROVE  /\ DOMAIN client[d].seen = p.tasks
                 /\ \A t \in p.tasks : Checked(client[d].seen[t], p, db'[t])
      <4>1. ASSUME NEW t \in p.tasks PROVE Checked(client[d].seen[t], p, db'[t])
        <5>1. Checked(client[d].seen[t], p, db[t])
          BY <3>4 DEF Validated
        <5>2. t \in Tasks /\ NextRow(db[t], db'[t]) /\ db[t] # Unborn
          BY <3>3, <3>4
        <5>3. db[t] # Deleted => db[t].version \in Nat
          BY <5>2, TaskRows DEF Exists
        <5> QED
          BY <5>1, <5>2, <5>3, CheckedNext
      <4> QED
        BY <3>4, <4>1 DEF Validated
    <3>5. ASSUME p # Deleted, Reduced(d, w)
          PROVE  Reduced(d, w)'
      BY <1>1, <1>4, <2>1, <3>5, OtherWrites DEF Reduced, Exists
    <3>6. p # Deleted => Validated(d, p) \/ Reduced(d, w)
      BY <3>1 DEF PlanWriteInv
    <3> QED
      BY <1>1, <2>1, <3>3, <3>4, <3>5, <3>6 DEF PlanWriteInv, Validated, Exists
  <2>4. ASSUME NEW x \in DOMAIN client[d].shown PROVE ShownInv(d, x)'
    <3>1. ShownInv(d, x)
      BY <1>4 DEF CommitInv
    <3> QED
      BY <1>1, <1>4, <2>1, <3>1, OtherWrites DEF ShownInv
  <2>5. d \in disturbed'
    BY <1>4 DEF Commit
  <2>6. CommitInv(d)'
    BY <1>1, <2>1, <2>2, <2>3, <2>4, <2>5 DEF CommitInv
  <2> QED
    BY <1>1, <1>4, <2>6 DEF ClientInv
<1> QED
  BY <1>1, <1>2, <1>3, <1>4 DEF ClientInv

(* The plans after a commit: a plan that is saved brings the versions it   *)
(* was validated with, a plan that loses a task keeps those it had.        *)
LEMMA PlansAfter ==
  ASSUME NEW c \in Clients, IInv, Commit(c), NEW w \in Workplans
  PROVE  PlanInv(w)'
<1> DEFINE p == db'[w]
           s == seen'[w]
<1> SUFFICES ASSUME p \notin {Unborn, Deleted}, NEW t \in p.tasks
             PROVE  /\ db'[t] \notin {Unborn, Deleted}
                    /\ Checked(s[t], p, db'[t])
  BY DEF PlanInv, Exists
<1>1. /\ client[c].at = "commit" /\ CommitInv(c) /\ w \in Ids
      /\ db' = After(c) /\ ReferencesHold(After(c))
  BY DEF Commit, CanCommit, IInv, ClientInv, Idle, Ids
<1>2. db'[t] \notin {Unborn, Deleted}
  BY <1>1 DEF ReferencesHold
<1>3. CASE w \notin DOMAIN Writes(c)
  <2>1. p = db[w] /\ s = seen[w] /\ Exists(w)
    BY <1>1, <1>3, CommitRow DEF Commit, Exists
  <2>2. t \in Tasks /\ t \in Ids /\ Exists(t)
    BY <2>1, PlanRows DEF Ids
  <2>3. Checked(s[t], p, db[t])
    BY <2>1 DEF IInv, PlanInv
  <2>4. NextRow(db[t], db'[t]) /\ db[t].version \in Nat /\ db[t] # Unborn
    BY <2>2, CommitRow, TaskRows
  <2> QED
    BY <1>2, <2>2, <2>3, <2>4, StaysDeleted, CheckedNext
<1>4. CASE w \in DOMAIN Writes(c)
  <2>1. /\ p = Writes(c)[w].row /\ p # Deleted
        /\ Version(db[w]) = Writes(c)[w].base
        /\ PlanWriteInv(c, w) /\ WriteInv(c, w)
    BY <1>1, <1>4, CommitRow DEF CommitInv
  <2>2. p.tasks \subseteq Tasks
    BY <2>1, IdsAreTasksOrPlans DEF WriteInv, IsWrite, PlanRow
  <2>3. t \in Tasks /\ t \in Ids /\ db[t] # Unborn
    BY <2>1, <2>2 DEF PlanWriteInv, Ids
  <2>4. NextRow(db[t], db'[t])
    BY <2>3, CommitRow
  <2>5. Exists(t)
    BY <1>2, <2>3, <2>4, StaysDeleted DEF Exists
  <2>6. db[t].version \in Nat
    BY <2>3, <2>5, TaskRows
  <2>7. s = IF DOMAIN client[c].seen = p.tasks THEN client[c].seen ELSE seen[w]
    BY <1>4, <2>1 DEF Commit
  <2>8. Checked(s[t], p, db[t])
    <3>1. CASE Validated(c, p)
      BY <2>7, <3>1 DEF Validated
    <3>2. CASE Reduced(c, w)
      <4>1. /\ Exists(w) /\ t \in db[w].tasks /\ s = seen[w]
            /\ p.start = db[w].start /\ p.end = db[w].end
            /\ p.isPublic = db[w].isPublic
        BY <2>1, <2>7, <3>2 DEF Reduced
      <4>2. Checked(s[t], db[w], db[t])
        BY <4>1 DEF IInv, PlanInv
      <4> QED
        BY <4>1, <4>2 DEF Checked, Fits
    <3> QED
      BY <2>1, <3>1, <3>2 DEF PlanWriteInv
  <2> QED
    BY <1>2, <2>3, <2>4, <2>5, <2>6, <2>8, CheckedNext
<1> QED
  BY <1>3, <1>4

LEMMA RowsAfter ==
  ASSUME NEW c \in Clients, IInv, Commit(c)
  PROVE  DbTypeOK'
<1>1. DOMAIN db' = Ids
  BY DEF Commit, After
<1>2. ASSUME NEW x \in Ids, db'[x] \notin {Unborn, Deleted}
      PROVE  /\ db'[x] \in IF x \in Tasks THEN TaskRow ELSE PlanRow
             /\ db'[x].start < db'[x].end /\ db'[x].version <= MaxVersion[x]
  <2>1. CASE x \notin DOMAIN Writes(c)
    <3>1. db'[x] = db[x] /\ Exists(x)
      BY <1>2, <2>1, CommitRow DEF Exists
    <3> QED
      BY <3>1, IdsAreTasksOrPlans DEF IInv, DbTypeOK
  <2>2. CASE x \in DOMAIN Writes(c)
    <3>1. db'[x] = Writes(c)[x].row /\ WriteInv(c, x)
      BY <2>2, CommitRow
    <3> QED
      BY <1>2, <3>1 DEF WriteInv, IsWrite
  <2> QED
    BY <2>1, <2>2
<1>3. \A t \in Tasks : t \in Ids
  BY DEF Ids
<1>4. \A w \in Workplans : w \in Ids /\ w \notin Tasks
  BY IdsAreTasksOrPlans
<1> QED
  BY <1>1, <1>2, <1>3, <1>4 DEF DbTypeOK, Exists

LEMMA CommitKeeps ==
  ASSUME NEW c \in Clients, IInv, Commit(c)
  PROVE  IInv'
<1>1. /\ DOMAIN client' = Clients /\ client'[c] = Idle
      /\ \A d \in Clients \ {c} : client'[d] = client[d]
      /\ disturbed' \subseteq Clients
  BY DEF Commit, IInv
<1>4. crossed' \subseteq Ids
  <2>1. CommitInv(c)
    BY DEF Commit, CanCommit, IInv, ClientInv, Idle
  <2> QED
    BY <2>1 DEF Commit, IInv, Crossing, CommitInv, WriteInv
<1>2. \A d \in Clients : ClientInv(d)'
  BY <1>1, OtherClient DEF ClientInv
<1>3. OneCreator'
  <2> SUFFICES ASSUME NEW d \in Clients, NEW e \in Clients, d # e,
                      client'[d].at = "commit", client'[e].at = "commit",
                      NEW x, x \in DOMAIN client'[d].writes, x \in DOMAIN client'[e].writes
               PROVE  db'[x] # Unborn
    BY DEF OneCreator, Writes
  <2>1. d # c /\ e # c
    BY <1>1 DEF Idle
  <2>2. /\ client[d].at = "commit" /\ client[e].at = "commit"
        /\ x \in DOMAIN Writes(d) /\ x \in DOMAIN Writes(e)
    BY <1>1, <2>1 DEF Writes
  <2>3. db[x] # Unborn /\ x \in Ids
    BY <2>1, <2>2, OtherWrites DEF IInv, OneCreator
  <2> QED
    BY <2>3, CommitRow, StaysDeleted
<1> QED
  BY <1>1, <1>2, <1>3, <1>4, PlansAfter, RowsAfter DEF IInv

-----------------------------------------------------------------------------
(* The theorems.                                                           *)

LEMMA InitIInv == Init => IInv
<1> SUFFICES ASSUME Init PROVE IInv
  OBVIOUS
<1>1. \A x \in Ids : ~Exists(x)
  BY DEF Init, Exists
<1>2. DbTypeOK
  BY <1>1 DEF Init, DbTypeOK, Ids
<1>3. \A w \in Workplans : PlanInv(w)
  BY <1>1 DEF PlanInv, Ids
<1>4. \A c \in Clients : ClientInv(c) /\ client[c].at # "commit"
  BY DEF Init, ClientInv, Idle
<1> QED
  BY <1>2, <1>3, <1>4 DEF Init, IInv, OneCreator

LEMMA NextIInv == IInv /\ [Next]_vars => IInv'
<1> SUFFICES ASSUME IInv, [Next]_vars PROVE IInv'
  OBVIOUS
<1>1. ASSUME UNCHANGED vars PROVE IInv'
  BY <1>1 DEF vars, IInv, DbTypeOK, PlanInv, ClientInv, FormInv, CommitInv, WriteInv,
     PlanWriteInv, Validated, Reduced, ShownInv, OneCreator, VersionsHold,
     ReferencesHold, After, Exists, Writes
<1>2. ASSUME NEW c \in Clients, Request(c) PROVE IInv'
  <2>1. CASE ShowTask(c)
    BY <2>1, ShowFormKeeps DEF ShowTask, Ids
  <2>2. CASE ShowPlan(c)
    BY <2>2, ShowFormKeeps DEF ShowPlan, Ids
  <2>3. CASE Leave(c)
    BY <2>3, IdleClient DEF Leave
  <2> QED
    BY <1>2, <2>1, <2>2, <2>3, CreateTaskKeeps, UpdateTaskKeeps, DeleteTaskKeeps,
       CreatePlanKeeps, UpdatePlanKeeps, DeletePlanKeeps DEF Request
<1>3. ASSUME NEW c \in Clients, CommitFails(c) PROVE IInv'
  BY <1>3, IdleClient DEF CommitFails
<1> QED
  BY <1>1, <1>2, <1>3, CommitKeeps DEF Next

(* The state always satisfies the invariant: whatever a form shows and a   *)
(* pending save was validated with is right about every row that still has *)
(* the version of that time.                                               *)
THEOREM Invariance == Spec => []IInv
BY InitIInv, NextIInv, PTL DEF Spec

(* The rows, the forms and the pending writes are what the entities        *)
(* declare, within the bounds.                                             *)
THEOREM TypesHold == Spec => []TypeOK
BY Invariance, IInvType, PTL

(* The rules checked when a plan is saved hold as long as its tasks are    *)
(* those it was saved with, whatever happens between the check and the     *)
(* commit.                                                                 *)
THEOREM PlansStayValid == Spec => []PlansValidAsSaved
BY Invariance, IInvValid, PTL

(* A commit that no other commit overtakes succeeds.                       *)
THEOREM OnlyRacesLose == Spec => []OnlyRacesFail
BY Invariance, IInvRaces, PTL

(* Only commits change rows. *)
LEMMA OnlyCommitsWrite ==
  ASSUME [Next]_vars, db' # db
  PROVE  \E c \in Clients : Commit(c)
<1>1. PICK c \in Clients : Request(c) \/ Commit(c) \/ CommitFails(c)
  BY DEF Next, vars
<1>2. Request(c) => db' = db
  <2>1. ShowTask(c) \/ ShowPlan(c) \/ Leave(c) => db' = db
    BY DEF ShowTask, ShowPlan, ShowForm, Leave
  <2>2. CreateTask(c) => db' = db
    BY DEF CreateTask, Ask
  <2>3. UpdateTask(c) => db' = db
    BY DEF UpdateTask, Ask
  <2>4. DeleteTask(c) => db' = db
    BY DEF DeleteTask, Ask
  <2>5. CreatePlan(c) => db' = db
    BY DEF CreatePlan, Ask
  <2>6. UpdatePlan(c) => db' = db
    BY DEF UpdatePlan, Ask
  <2>7. DeletePlan(c) => db' = db
    BY DEF DeletePlan, Ask
  <2> QED
    BY <2>1, <2>2, <2>3, <2>4, <2>5, <2>6, <2>7 DEF Request
<1>3. CommitFails(c) => db' = db
  BY DEF CommitFails
<1> QED
  BY <1>1, <1>2, <1>3

(* No update replaces a row that its form did not show.                    *)
THEOREM UpdatesReplaceWhatTheyShowed == Spec => NoLostUpdate
<1>1. ASSUME IInv, [Next]_vars, NEW c \in Clients, client[c].at = "commit",
             client'[c] = Idle, db' # db, NEW x \in DOMAIN client[c].shown
      PROVE  db[x] = client[c].shown[x]
  <2>1. PICK e \in Clients : Commit(e)
    BY <1>1, OnlyCommitsWrite
  <2>2. e = c
    BY <1>1, <2>1 DEF Commit, Idle, IInv
  <2>3. CommitInv(c) /\ VersionsHold(c)
    BY <1>1, <2>1, <2>2 DEF IInv, ClientInv, Idle, Commit, CanCommit
  <2> QED
    BY <2>3 DEF CommitInv, ShownInv, VersionsHold
<1>2. IInv /\ [Next]_vars =>
        [\A c \in Clients : client[c].at = "commit" /\ client'[c] = Idle /\ db' # db =>
           \A x \in DOMAIN client[c].shown : db[x] = client[c].shown[x]]_vars
  BY <1>1
<1> QED
  BY <1>2, Invariance, PTL DEF Spec, NoLostUpdate

(* What was deleted is never brought back.                                 *)
THEOREM DeletedForGood == Spec => DeletionIsFinal
<1>1. ASSUME IInv, [Next]_vars, NEW x \in Ids, db[x] = Deleted
      PROVE  db'[x] = Deleted
  <2>1. CASE db' = db
    BY <1>1, <2>1
  <2>2. CASE db' # db
    <3>1. PICK e \in Clients : Commit(e)
      BY <1>1, <2>2, OnlyCommitsWrite
    <3>2. NextRow(db[x], db'[x])
      BY <1>1, <3>1, CommitRow
    <3> QED
      BY <1>1, <3>2, StaysDeleted
  <2> QED
    BY <2>1, <2>2
<1>2. IInv /\ [Next]_vars => [\A x \in Ids : db[x] = Deleted => db'[x] = Deleted]_vars
  BY <1>1
<1> QED
  BY <1>2, Invariance, PTL DEF Spec, DeletionIsFinal

-----------------------------------------------------------------------------
(* Whose the tasks of a plan are.                                          *)

(* A plan and its tasks that nobody crossed have the same manager, and so  *)
(* will the plan that a pending commit of its manager saves.               *)

OwnPlan(w) ==
  Exists(w) => \A t \in db[w].tasks :
    {w, t} \cap crossed = {} => db[t].manager = db[w].manager

OwnWrite(c, w) ==
  LET p == Writes(c)[w].row
  IN  p # Deleted /\ p.manager = ManagerOf[c] /\ w \notin crossed =>
        \A t \in p.tasks : Exists(t) /\ t \notin crossed => db[t].manager = ManagerOf[c]

OwnInv ==
  /\ \A w \in Workplans : OwnPlan(w)
  /\ \A c \in Clients : client[c].at = "commit" =>
       \A w \in DOMAIN Writes(c) \cap Workplans : OwnWrite(c, w)

(* Steps that leave the database alone: only what is asked for is new.     *)
LEMMA QuietOwn ==
  ASSUME NEW c \in Clients, IInv, OwnInv, db' = db, crossed' = crossed,
         \A d \in Clients \ {c} : client'[d] = client[d],
         client'[c].at = "commit" =>
           \A w \in DOMAIN Writes(c)' \cap Workplans : OwnWrite(c, w)'
  PROVE  OwnInv'
<1>1. ASSUME NEW w \in Workplans PROVE OwnPlan(w)'
  BY DEF OwnInv, OwnPlan, Exists
<1>2. ASSUME NEW d \in Clients, d # c, client'[d].at = "commit",
             NEW w \in DOMAIN Writes(d)' \cap Workplans
      PROVE  OwnWrite(d, w)'
  <2>1. Writes(d)' = Writes(d) /\ client[d].at = "commit"
    BY <1>2 DEF Writes
  <2>2. OwnWrite(d, w)
    BY <1>2, <2>1 DEF OwnInv
  <2> QED
    BY <2>1, <2>2 DEF OwnWrite, Exists
<1> QED
  BY <1>1, <1>2 DEF OwnInv

LEMMA IdleOwn ==
  ASSUME NEW c \in Clients, IInv, OwnInv, db' = db, crossed' = crossed,
         \A d \in Clients \ {c} : client'[d] = client[d],
         client'[c].at # "commit"
  PROVE  OwnInv'
BY QuietOwn

(* What a client asks for. *)
LEMMA AskOwn ==
  ASSUME NEW c \in Clients, IInv, OwnInv,
         NEW writes, NEW shown, NEW tasks, Ask(c, writes, shown, tasks),
         \A w \in DOMAIN writes \cap Workplans :
           LET p == writes[w].row
           IN  p # Deleted /\ p.manager = ManagerOf[c] /\ w \notin crossed =>
                 \A t \in p.tasks : Exists(t) /\ t \notin crossed => db[t].manager = ManagerOf[c]
  PROVE  OwnInv'
<1>1. PICK versions : versions = [t \in tasks |-> db[t].version]
  OBVIOUS
<1>2. /\ client' = [client EXCEPT ![c] = [at |-> "commit", writes |-> writes,
                                          shown |-> shown, seen |-> versions]]
      /\ db' = db /\ crossed' = crossed
  BY <1>1 DEF Ask
<1>3. /\ Writes(c)' = writes
      /\ \A d \in Clients \ {c} : client'[d] = client[d]
  BY <1>2 DEF Writes, IInv
<1>4. \A w \in DOMAIN writes \cap Workplans : OwnWrite(c, w)'
  BY <1>2, <1>3 DEF OwnWrite, Exists
<1> QED
  BY <1>2, <1>3, <1>4, QuietOwn

LEMMA RequestOwn ==
  ASSUME NEW c \in Clients, IInv, OwnInv, Request(c)
  PROVE  OwnInv'
<1>1. CASE ShowTask(c) \/ ShowPlan(c) \/ Leave(c)
  <2>1. db' = db /\ crossed' = crossed
    BY <1>1 DEF ShowTask, ShowPlan, ShowForm, Leave
  <2>2. client'[c].at # "commit" /\ \A d \in Clients \ {c} : client'[d] = client[d]
    BY <1>1 DEF ShowTask, ShowPlan, ShowForm, Leave, IInv, Idle
  <2> QED
    BY <2>1, <2>2, IdleOwn
<1>2. ASSUME NEW t \in Tasks, NEW row, NEW shown, NEW tasks,
             Ask(c, [x \in {t} |-> Replacing(x, row)], shown, tasks)
      PROVE  OwnInv'
  <2>1. PICK writes : writes = [x \in {t} |-> Replacing(x, row)]
    OBVIOUS
  <2>2. DOMAIN writes \cap Workplans = {}
    BY <2>1, IdsAreTasksOrPlans
  <2> QED
    BY <1>2, <2>1, <2>2, AskOwn
<1>3. CASE CreateTask(c)
  BY <1>2, <1>3 DEF CreateTask
<1>4. CASE UpdateTask(c)
  BY <1>2, <1>4 DEF UpdateTask
<1>5. ASSUME NEW w \in Workplans, NEW row, NEW shown,
             row = Deleted \/ MayChoose(c, row.tasks), NEW tasks,
             Ask(c, [x \in {w} |-> Replacing(x, row)], shown, tasks)
      PROVE  OwnInv'
  <2>1. PICK writes : writes = [x \in {w} |-> Replacing(x, row)]
    OBVIOUS
  <2>2. DOMAIN writes = {w} /\ writes[w].row = row
    BY <2>1 DEF Replacing
  <2>3. row # Deleted => \A t \in row.tasks : db[t].manager = ManagerOf[c]
    BY <1>5 DEF MayChoose, Mine
  <2> QED
    BY <1>5, <2>1, <2>2, <2>3, AskOwn
<1>6. CASE CreatePlan(c)
  BY <1>5, <1>6 DEF CreatePlan
<1>7. CASE UpdatePlan(c)
  BY <1>5, <1>7 DEF UpdatePlan
<1>8. CASE DeletePlan(c)
  BY <1>5, <1>8 DEF DeletePlan
<1>9. CASE DeleteTask(c)
  <2>1. PICK t \in Tasks :
          Ask(c, [x \in DOMAIN PlansWithout(t) \cup {t} |->
                    IF x = t THEN Replacing(t, Deleted) ELSE PlansWithout(t)[x]],
                 Nothing, {})
    BY <1>9 DEF DeleteTask
  <2>2. PICK writes :
          writes = [x \in DOMAIN PlansWithout(t) \cup {t} |->
                      IF x = t THEN Replacing(t, Deleted) ELSE PlansWithout(t)[x]]
    OBVIOUS
  <2>3. ASSUME NEW w \in DOMAIN writes \cap Workplans
        PROVE  /\ w \in Workplans /\ Exists(w)
               /\ writes[w].row.tasks \subseteq db[w].tasks
               /\ writes[w].row.manager = db[w].manager
    <3>1. w # t /\ w \in DOMAIN PlansWithout(t)
      BY <2>2, IdsAreTasksOrPlans
    <3>2. Exists(w) /\ w \in Containing(t)
      BY <3>1 DEF PlansWithout, Containing
    <3>3. writes[w].row = PlanLess(db[w], t)
      BY <2>2, <3>1, <3>2 DEF PlansWithout, Replacing, PlanLess
    <3>4. db[w] \in PlanRow
      BY <3>2, PlanRows
    <3> QED
      BY <3>2, <3>3, <3>4, ReducedRow
  <2>4. \A w \in Workplans : OwnPlan(w)
    BY DEF OwnInv
  <2>5. ASSUME NEW w \in DOMAIN writes \cap Workplans,
               writes[w].row.manager = ManagerOf[c], w \notin crossed,
               NEW u \in writes[w].row.tasks, u \notin crossed
        PROVE  db[u].manager = ManagerOf[c]
    BY <2>3, <2>4, <2>5 DEF OwnPlan
  <2> QED
    BY <2>1, <2>2, <2>5, AskOwn
<1> QED
  BY <1>1, <1>3, <1>4, <1>6, <1>7, <1>8, <1>9 DEF Request

(* A row that a commit keeps without crossing keeps its manager. *)
LEMMA UncrossedKeeps ==
  ASSUME NEW c \in Clients, IInv, Commit(c), NEW x \in Ids, Exists(x),
         db'[x] # Deleted, x \notin crossed'
  PROVE  db'[x].manager = db[x].manager
<1>1. x \notin DOMAIN Writes(c) => db'[x] = db[x]
  BY CommitRow
<1>2. x \in DOMAIN Writes(c) => db'[x] = Writes(c)[x].row
  BY CommitRow
<1>3. x \notin Crossing(c)
  BY DEF Commit
<1> QED
  BY <1>1, <1>2, <1>3 DEF Crossing, ManagersOf

(* The plans and the pending saves after a commit. *)
LEMMA CommitOwn ==
  ASSUME NEW c \in Clients, IInv, IInv', OwnInv, Commit(c)
  PROVE  OwnInv'
<1>1. crossed \subseteq crossed' /\ client[c].at = "commit" /\ client'[c].at # "commit"
  BY DEF Commit, CanCommit, Idle, IInv
<1>2. ASSUME NEW t \in Tasks, db[t] # Unborn, Exists(t)', t \notin crossed'
      PROVE  Exists(t) /\ t \notin crossed /\ db'[t].manager = db[t].manager
  <2>1. t \in Ids
    BY DEF Ids
  <2>2. Exists(t)
    BY <1>2, <2>1, CommitRow, StaysDeleted DEF Exists
  <2> QED
    BY <1>1, <1>2, <2>1, <2>2, UncrossedKeeps DEF Exists
<1>3. ASSUME NEW w \in Workplans, Exists(w)', NEW t \in db'[w].tasks,
             {w, t} \cap crossed' = {}
      PROVE  db'[t].manager = db'[w].manager
  <2>1. w \in Ids /\ t \in Tasks /\ Exists(t)'
    <3>1. db'[w] \in PlanRow
      BY <1>3 DEF IInv, DbTypeOK
    <3>2. Exists(t)'
      BY <1>3 DEF IInv, PlanInv
    <3> QED
      BY <3>1, <3>2 DEF PlanRow, Ids
  <2>2. CASE w \notin DOMAIN Writes(c)
    <3>1. db'[w] = db[w] /\ Exists(w)
      BY <1>3, <2>1, <2>2, CommitRow DEF Exists
    <3>2. Exists(t) /\ db[t] # Unborn
      BY <1>3, <3>1, PlanRows DEF Exists
    <3>3. db'[t].manager = db[t].manager
      BY <1>2, <1>3, <2>1, <3>2
    <3>4. db[t].manager = db[w].manager
      BY <1>1, <1>3, <3>1 DEF OwnInv, OwnPlan
    <3> QED
      BY <3>1, <3>3, <3>4
  <2>3. CASE w \in DOMAIN Writes(c)
    <3>1. PICK p : p = Writes(c)[w].row
      OBVIOUS
    <3>2. db'[w] = p /\ p # Deleted
      BY <1>3, <2>1, <2>3, <3>1, CommitRow DEF Exists
    <3>3. PlanWriteInv(c, w) /\ OwnWrite(c, w)
      BY <1>1, <2>3 DEF IInv, ClientInv, CommitInv, Idle, OwnInv
    <3>4. db[t] # Unborn
      BY <1>3, <3>1, <3>2, <3>3 DEF PlanWriteInv
    <3>5. p.manager = ManagerOf[c]
      <4>1. w \notin Crossing(c)
        BY <1>3 DEF Commit
      <4> QED
        BY <2>3, <3>1, <3>2, <4>1 DEF Crossing, ManagersOf
    <3>6. w \notin crossed
      BY <1>1, <1>3
    <3>7. Exists(t) /\ t \notin crossed /\ db'[t].manager = db[t].manager
      BY <1>2, <1>3, <2>1, <3>4
    <3>8. db[t].manager = ManagerOf[c]
      BY <1>3, <3>1, <3>2, <3>3, <3>5, <3>6, <3>7 DEF OwnWrite
    <3> QED
      BY <3>2, <3>5, <3>7, <3>8
  <2> QED
    BY <2>2, <2>3
<1>4. ASSUME NEW d \in Clients, client'[d].at = "commit",
             NEW w \in DOMAIN Writes(d)' \cap Workplans
      PROVE  OwnWrite(d, w)'
  <2>1. d # c
    BY <1>1, <1>4
  <2>2. client'[d] = client[d]
    BY <2>1 DEF Commit, IInv
  <2>3. PICK p : p = Writes(d)[w].row
    OBVIOUS
  <2>4. Writes(d)' = Writes(d) /\ client[d].at = "commit" /\ Writes(d)'[w].row = p
    BY <1>4, <2>2, <2>3 DEF Writes
  <2>5. PlanWriteInv(d, w) /\ WriteInv(d, w) /\ OwnWrite(d, w)
    BY <1>4, <2>4 DEF IInv, ClientInv, CommitInv, Idle, OwnInv
  <2>6. ASSUME p # Deleted, NEW t \in p.tasks PROVE t \in Tasks /\ db[t] # Unborn
    BY <2>3, <2>5, <2>6, IdsAreTasksOrPlans, <1>4 DEF PlanWriteInv, WriteInv, IsWrite, PlanRow
  <2>7. ASSUME p # Deleted, p.manager = ManagerOf[d], w \notin crossed',
               NEW t \in p.tasks, Exists(t)', t \notin crossed'
        PROVE  db'[t].manager = ManagerOf[d]
    <3>1. Exists(t) /\ t \notin crossed /\ db'[t].manager = db[t].manager
      BY <1>2, <2>6, <2>7
    <3> QED
      BY <1>1, <2>3, <2>5, <2>7, <3>1 DEF OwnWrite
  <2> QED
    BY <2>4, <2>7 DEF OwnWrite
<1> QED
  BY <1>3, <1>4 DEF OwnInv, OwnPlan

LEMMA NextOwn == IInv /\ IInv' /\ OwnInv /\ [Next]_vars => OwnInv'
<1> SUFFICES ASSUME IInv, IInv', OwnInv, [Next]_vars PROVE OwnInv'
  OBVIOUS
<1>1. CASE UNCHANGED vars
  BY <1>1 DEF vars, OwnInv, OwnPlan, OwnWrite, Exists, Writes
<1>2. ASSUME NEW c \in Clients, CommitFails(c) PROVE OwnInv'
  <2>1. /\ db' = db /\ crossed' = crossed /\ client'[c].at # "commit"
        /\ \A d \in Clients \ {c} : client'[d] = client[d]
    BY <1>2 DEF CommitFails, Idle, IInv
  <2> QED
    BY <2>1, IdleOwn
<1> QED
  BY <1>1, <1>2, RequestOwn, CommitOwn DEF Next

LEMMA InitOwn == Init => OwnInv
<1> SUFFICES ASSUME Init PROVE OwnInv
  OBVIOUS
<1>1. \A w \in Workplans : ~Exists(w)
  BY DEF Init, Exists, Ids
<1>2. \A c \in Clients : client[c].at # "commit"
  BY DEF Init, Idle
<1> QED
  BY <1>1, <1>2 DEF OwnInv, OwnPlan

(* The invariant of whose the rows are, with the one it rests on. *)
LEMMA OwnInvariance == Spec => [](IInv /\ OwnInv)
BY InitIInv, NextIInv, InitOwn, NextOwn, PTL DEF Spec

(* A plan contains tasks that exist, and of its own manager unless a       *)
(* request crossed one of the two rows: no sequence of saves, deletions    *)
(* and commits in between puts the task of one manager into the plan of    *)
(* another, or leaves it there when it goes.                               *)
THEOREM PlansOwnTheirTasks == Spec => []OwnTasksOnly
<1>1. IInv /\ OwnInv => OwnTasksOnly
  BY DEF IInv, OwnInv, PlanInv, OwnPlan, OwnTasksOnly, Plans
<1> QED
  BY <1>1, OwnInvariance, PTL

-----------------------------------------------------------------------------
(* Browsers that send the fields of their pages only.                      *)

(* What is written is the client's own, and so is the row it replaces.     *)
PlainWrite(c, x) ==
  Writes(c)[x].row # Deleted =>
    /\ Writes(c)[x].row.manager = ManagerOf[c]
    /\ Exists(x) /\ Version(db[x]) = Writes(c)[x].base => db[x].manager = ManagerOf[c]

OwnRowsOnly ==
  /\ crossed = {}
  /\ \A c \in Clients : client[c].at = "commit" =>
       \A x \in DOMAIN Writes(c) : PlainWrite(c, x)

LEMMA QuietOwnRows ==
  ASSUME NEW c \in Clients, IInv, OwnRowsOnly, db' = db, crossed' = crossed,
         \A d \in Clients \ {c} : client'[d] = client[d],
         client'[c].at = "commit" => \A x \in DOMAIN Writes(c)' : PlainWrite(c, x)'
  PROVE  OwnRowsOnly'
<1>1. ASSUME NEW d \in Clients, d # c, client'[d].at = "commit",
             NEW x \in DOMAIN Writes(d)'
      PROVE  PlainWrite(d, x)'
  <2>1. Writes(d)' = Writes(d) /\ client[d].at = "commit"
    BY <1>1 DEF Writes
  <2>2. PlainWrite(d, x)
    BY <1>1, <2>1 DEF OwnRowsOnly
  <2> QED
    BY <2>1, <2>2 DEF PlainWrite, Exists, Version
<1> QED
  BY <1>1 DEF OwnRowsOnly

LEMMA AskOwnRows ==
  ASSUME NEW c \in Clients, IInv, OwnRowsOnly,
         NEW writes, NEW shown, NEW tasks, Ask(c, writes, shown, tasks),
         \A x \in DOMAIN writes : writes[x].row # Deleted =>
           /\ writes[x].row.manager = ManagerOf[c]
           /\ Exists(x) => db[x].manager = ManagerOf[c]
  PROVE  OwnRowsOnly'
<1>1. PICK versions : versions = [t \in tasks |-> db[t].version]
  OBVIOUS
<1>2. /\ client' = [client EXCEPT ![c] = [at |-> "commit", writes |-> writes,
                                          shown |-> shown, seen |-> versions]]
      /\ db' = db /\ crossed' = crossed
  BY <1>1 DEF Ask
<1>3. /\ Writes(c)' = writes
      /\ \A d \in Clients \ {c} : client'[d] = client[d]
  BY <1>2 DEF Writes, IInv
<1>4. \A x \in DOMAIN writes : PlainWrite(c, x)'
  BY <1>2, <1>3 DEF PlainWrite, Exists
<1> QED
  BY <1>2, <1>3, <1>4, QuietOwnRows

(* One row is saved by its manager. *)
LEMMA SaveOwnRow ==
  ASSUME NEW c \in Clients, IInv, OwnRowsOnly, Plain = Clients,
         NEW x, MayCreate(c, x) \/ Mine(c, x), NEW owner \in Owners(c),
         NEW row, row.manager = owner, NEW shown, NEW tasks,
         Ask(c, [y \in {x} |-> Replacing(y, row)], shown, tasks)
  PROVE  OwnRowsOnly'
<1>1. PICK writes : writes = [y \in {x} |-> Replacing(y, row)]
  OBVIOUS
<1>2. DOMAIN writes = {x} /\ writes[x].row = row
  BY <1>1 DEF Replacing
<1>3. row.manager = ManagerOf[c] /\ (Exists(x) => db[x].manager = ManagerOf[c])
  BY DEF Owners, MayCreate, Mine, Unused, Exists
<1> QED
  BY <1>1, <1>2, <1>3, AskOwnRows

LEMMA RequestOwnRows ==
  ASSUME NEW c \in Clients, IInv, OwnInv, OwnRowsOnly, Plain = Clients, Request(c)
  PROVE  OwnRowsOnly'
<1>1. CASE ShowTask(c) \/ ShowPlan(c) \/ Leave(c)
  <2>1. db' = db /\ crossed' = crossed
    BY <1>1 DEF ShowTask, ShowPlan, ShowForm, Leave
  <2>2. client'[c].at # "commit" /\ \A d \in Clients \ {c} : client'[d] = client[d]
    BY <1>1 DEF ShowTask, ShowPlan, ShowForm, Leave, IInv, Idle
  <2> QED
    BY <2>1, <2>2, QuietOwnRows
<1>2. CASE CreateTask(c)
  <2>1. PICK t \in Tasks, owner \in Owners(c), public \in BOOLEAN, start \in Days, end \in Days :
          LET row == [manager |-> owner, isPublic |-> public,
                      start |-> start, end |-> end, version |-> NextVersion(t)]
          IN  /\ MayCreate(c, t)
              /\ ValidDates(row)
              /\ Ask(c, [x \in {t} |-> Replacing(x, row)], Nothing, {})
    BY <1>2 DEF CreateTask
  <2> DEFINE row == [manager |-> owner, isPublic |-> public,
                     start |-> start, end |-> end, version |-> NextVersion(t)]
  <2>2. MayCreate(c, t) /\ Ask(c, [x \in {t} |-> Replacing(x, row)], Nothing, {})
    BY <2>1
  <2>3. row.manager = owner
    OBVIOUS
  <2> HIDE DEF row
  <2> QED
    BY <2>1, <2>2, <2>3, SaveOwnRow
<1>3. CASE UpdateTask(c)
  <2>0. PICK t \in Tasks : MayUpdate(c, t) /\ SavesTask(c, t)
    BY <1>3 DEF UpdateTask, SavesTask
  <2>1. PICK owner \in Owners(c), public \in BOOLEAN, start \in Days, end \in Days :
          Ask(c, [x \in {t} |-> Replacing(x, [manager |-> owner, isPublic |-> public,
                           start |-> start, end |-> end, version |-> NextVersion(t)])],
                 [x \in {t} |-> client[c].row], {})
    BY <2>0 DEF SavesTask
  <2> DEFINE row == [manager |-> owner, isPublic |-> public,
                     start |-> start, end |-> end, version |-> NextVersion(t)]
  <2>2. Mine(c, t) /\ Ask(c, [x \in {t} |-> Replacing(x, row)],
                             [x \in {t} |-> client[c].row], {})
    BY <2>0, <2>1 DEF MayUpdate
  <2>3. row.manager = owner
    OBVIOUS
  <2> HIDE DEF row
  <2> QED
    BY <2>1, <2>2, <2>3, SaveOwnRow
<1>4. CASE CreatePlan(c)
  <2>1. PICK w \in Workplans, owner \in Owners(c), public \in BOOLEAN,
             start \in Days, end \in Days, newTasks \in SUBSET Tasks :
          LET row == [manager |-> owner, isPublic |-> public,
                      start |-> start, end |-> end, version |-> NextVersion(w),
                      tasks |-> newTasks]
          IN  /\ MayCreate(c, w)
              /\ MayChoose(c, newTasks)
              /\ HidesPrivate(row)
              /\ ValidDates(row)
              /\ Covers(row)
              /\ Ask(c, [x \in {w} |-> Replacing(x, row)], Nothing, newTasks)
    BY <1>4 DEF CreatePlan
  <2> DEFINE row == [manager |-> owner, isPublic |-> public,
                     start |-> start, end |-> end, version |-> NextVersion(w),
                     tasks |-> newTasks]
  <2>2. MayCreate(c, w) /\ Ask(c, [x \in {w} |-> Replacing(x, row)], Nothing, newTasks)
    BY <2>1
  <2>3. row.manager = owner
    OBVIOUS
  <2> HIDE DEF row
  <2> QED
    BY <2>1, <2>2, <2>3, SaveOwnRow
<1>5. CASE UpdatePlan(c)
  <2>0. PICK w \in Workplans : MayUpdate(c, w) /\ SavesPlan(c, w)
    BY <1>5 DEF UpdatePlan, SavesPlan
  <2>1. PICK owner \in Owners(c), public \in BOOLEAN,
             start \in Days, end \in Days, newTasks \in SUBSET Tasks :
          Ask(c, [x \in {w} |-> Replacing(x, [manager |-> owner, isPublic |-> public,
                           start |-> start, end |-> end, version |-> NextVersion(w),
                           tasks |-> newTasks])],
                 [x \in {w} |-> client[c].row], newTasks)
    BY <2>0 DEF SavesPlan
  <2> DEFINE row == [manager |-> owner, isPublic |-> public,
                     start |-> start, end |-> end, version |-> NextVersion(w),
                     tasks |-> newTasks]
  <2>2. Mine(c, w) /\ Ask(c, [x \in {w} |-> Replacing(x, row)],
                             [x \in {w} |-> client[c].row], newTasks)
    BY <2>0, <2>1 DEF MayUpdate
  <2>3. row.manager = owner
    OBVIOUS
  <2> HIDE DEF row
  <2> QED
    BY <2>1, <2>2, <2>3, SaveOwnRow
<1>6. CASE DeletePlan(c)
  <2>1. PICK w \in Workplans : Ask(c, [x \in {w} |-> Replacing(x, Deleted)], Nothing, {})
    BY <1>6 DEF DeletePlan
  <2>2. PICK writes : writes = [x \in {w} |-> Replacing(x, Deleted)]
    OBVIOUS
  <2>3. \A x \in DOMAIN writes : writes[x].row = Deleted
    BY <2>2 DEF Replacing
  <2> QED
    BY <2>1, <2>2, <2>3, AskOwnRows
<1>7. CASE DeleteTask(c)
  <2>1. PICK t \in Tasks :
          /\ Mine(c, t)
          /\ Ask(c, [x \in DOMAIN PlansWithout(t) \cup {t} |->
                       IF x = t THEN Replacing(t, Deleted) ELSE PlansWithout(t)[x]],
                    Nothing, {})
    BY <1>7 DEF DeleteTask, MayDelete
  <2>2. PICK writes :
          writes = [x \in DOMAIN PlansWithout(t) \cup {t} |->
                      IF x = t THEN Replacing(t, Deleted) ELSE PlansWithout(t)[x]]
    OBVIOUS
  <2>3. writes[t].row = Deleted
    BY <2>2 DEF Replacing
  <2>4. ASSUME NEW w \in DOMAIN writes, w # t
        PROVE  /\ writes[w].row.manager = ManagerOf[c]
               /\ Exists(w) => db[w].manager = ManagerOf[c]
    <3>1. w \in Workplans /\ Exists(w) /\ t \in db[w].tasks
      BY <2>2, <2>4 DEF PlansWithout, Containing
    <3>2. writes[w].row = PlanLess(db[w], t)
      BY <2>2, <2>4 DEF PlansWithout, Replacing, PlanLess
    <3>3. db[w].manager = ManagerOf[c]
      BY <2>1, <3>1 DEF OwnInv, OwnPlan, OwnRowsOnly, Mine
    <3>4. db[w] \in PlanRow
      BY <3>1, PlanRows
    <3> QED
      BY <3>2, <3>3, <3>4, ReducedRow
  <2>5. \A x \in DOMAIN writes : writes[x].row # Deleted =>
          /\ writes[x].row.manager = ManagerOf[c]
          /\ Exists(x) => db[x].manager = ManagerOf[c]
    BY <2>3, <2>4
  <2> QED
    BY <2>1, <2>2, <2>5, AskOwnRows
<1> QED
  BY <1>1, <1>2, <1>3, <1>4, <1>5, <1>6, <1>7 DEF Request

LEMMA CommitOwnRows ==
  ASSUME NEW c \in Clients, IInv, OwnRowsOnly, Commit(c)
  PROVE  OwnRowsOnly'
<1>1. /\ client[c].at = "commit" /\ VersionsHold(c) /\ client'[c].at # "commit"
      /\ \A x \in DOMAIN Writes(c) : PlainWrite(c, x)
  BY DEF Commit, CanCommit, Idle, IInv, OwnRowsOnly
<1>2. Crossing(c) = {}
  BY <1>1 DEF Crossing, ManagersOf, PlainWrite, VersionsHold
<1>3. crossed' = {}
  BY <1>2 DEF Commit, OwnRowsOnly
<1>4. ASSUME NEW d \in Clients, client'[d].at = "commit", NEW x \in DOMAIN Writes(d)'
      PROVE  PlainWrite(d, x)'
  <2>1. d # c
    BY <1>1, <1>4
  <2>2. client'[d] = client[d]
    BY <2>1 DEF Commit, IInv
  <2>3. Writes(d)' = Writes(d) /\ client[d].at = "commit"
    BY <1>4, <2>2 DEF Writes
  <2>4. Version(db'[x]) = Writes(d)[x].base => db'[x] = db[x]
    BY <1>4, <2>1, <2>3, OtherWrites
  <2>5. PlainWrite(d, x)
    BY <1>4, <2>3 DEF OwnRowsOnly
  <2> QED
    BY <2>3, <2>4, <2>5 DEF PlainWrite, Exists
<1> QED
  BY <1>3, <1>4 DEF OwnRowsOnly

(* As long as every browser sends the fields of its pages and no others,   *)
(* no request writes a row of another manager or gives one away, and all   *)
(* tasks of a plan are of the plan's manager: a manager's task is not      *)
(* reached through the plan, the form or the race of another.              *)
THEOREM PlainClientsKeepTheirRows ==
  ASSUME Plain = Clients
  PROVE  Spec => [](/\ crossed = {}
                    /\ \A w \in Plans : \A t \in db[w].tasks :
                         db[t].manager = db[w].manager)
<1>1. Init => OwnRowsOnly
  BY DEF Init, OwnRowsOnly, Idle
<1>2. ASSUME IInv, OwnInv, OwnRowsOnly, [Next]_vars PROVE OwnRowsOnly'
  <2>1. CASE UNCHANGED vars
    BY <1>2, <2>1 DEF vars, OwnRowsOnly, PlainWrite, Exists, Version, Writes
  <2>2. ASSUME NEW c \in Clients, CommitFails(c) PROVE OwnRowsOnly'
    <3>1. /\ db' = db /\ crossed' = crossed /\ client'[c].at # "commit"
          /\ \A d \in Clients \ {c} : client'[d] = client[d]
      BY <1>2, <2>2 DEF CommitFails, Idle, IInv
    <3> QED
      BY <1>2, <3>1, QuietOwnRows
  <2> QED
    BY <1>2, <2>1, <2>2, RequestOwnRows, CommitOwnRows DEF Next
<1>3. OwnInv /\ OwnRowsOnly =>
        /\ crossed = {}
        /\ \A w \in Plans : \A t \in db[w].tasks : db[t].manager = db[w].manager
  BY DEF OwnInv, OwnPlan, OwnRowsOnly, Plans
<1>4. IInv /\ OwnInv /\ OwnRowsOnly /\ [Next]_vars => OwnRowsOnly'
  BY <1>2
<1> QED
  BY <1>1, <1>3, <1>4, OwnInvariance, PTL DEF Spec
=============================================================================
