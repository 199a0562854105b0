------------------------------ MODULE Workplans ------------------------------
(***************************************************************************)
(* The tasks and work plans of the managers, and what concurrent requests  *)
(* do to them.  A request that saves or deletes something runs in a        *)
(* transaction of its own (see RequestLifecycle): it authorises and        *)
(* validates against the snapshot the transaction reads first, and         *)
(* Hibernate flushes its writes when the transaction commits, each one     *)
(* guarded by the 'version' of the row it replaces, under the foreign keys *)
(* of the join table of plans and tasks.  Between showing a form and       *)
(* receiving it back no transaction is open: the form carries the id and   *)
(* the version of what it showed.                                          *)
(*                                                                         *)
(* Titles, descriptions, links and workloads are left out: the checks on   *)
(* them refuse a form whatever the other requests do, and a refused form   *)
(* is shown again as it was sent, which changes nothing here.              *)
(*                                                                         *)
(* bind() sets every property of the entity that a request has a field     *)
(* for.  The pages have none for the manager, and the form of something    *)
(* new none for the id and the version; a browser that sends just the      *)
(* fields of its pages is called plain, and what another one names in      *)
(* these three is modelled too.  Beyond them it is an assumption of this   *)
(* module that requests carry what their pages send, and no properties of  *)
(* the tasks of a plan or of the account of a manager.                     *)
(***************************************************************************)
EXTENDS Integers

CONSTANTS
  Managers,
  Clients,       \* the browsers that send requests
  ManagerOf,     \* the manager who uses each client
  Plain,         \* the clients that send the fields of their pages only
  Tasks,         \* identifiers of tasks
  Workplans,     \* identifiers of plans
  MaxDay,        \* dates are 1..MaxDay
  MaxVersion,    \* bound on the changes of each row
  Unborn,        \* the "row" of an identifier that is not used yet
  Deleted        \* the "row" of an identifier that was deleted

ASSUME ManagersAssumption == ManagerOf \in [Clients -> Managers]
ASSUME PlainAssumption == Plain \subseteq Clients
ASSUME IdsAssumption == Tasks \cap Workplans = {}
ASSUME BoundsAssumption == MaxDay \in Nat /\ MaxVersion \in [Tasks \cup Workplans -> Nat]

Ids  == Tasks \cup Workplans
Days == 1..MaxDay

TaskRow == [manager : Managers, isPublic : BOOLEAN,
            start : Days, end : Days, version : Nat]
PlanRow == [manager : Managers, isPublic : BOOLEAN,
            start : Days, end : Days, version : Nat,
            tasks : SUBSET Tasks]

ASSUME RowsAssumption ==
  Unborn # Deleted /\ {Unborn, Deleted} \cap (TaskRow \cup PlanRow) = {}

VARIABLES
  db,         \* the committed rows, by identifier
  client,     \* what each client is doing: idle, looking at a form, or
              \* waiting for the commit of what its last form asked for
  seen,       \* history: the versions of its tasks that the save of each
              \* plan was validated against
  disturbed,  \* history: the clients whose pending commit has seen another
              \* commit pass
  crossed     \* history: the rows that a client of one manager has written
              \* although they were, or became, another's

vars == <<db, client, seen, disturbed, crossed>>

Idle == [at |-> "idle"]

Exists(x) == db[x] \notin {Unborn, Deleted}

Containing(t) == {w \in Workplans : Exists(w) /\ t \in db[w].tasks}

Version(row) == IF row \in {Unborn, Deleted} THEN -1 ELSE row.version

Writes(c) == client[c].writes

IsWrite(x, wr) ==
  /\ wr.base \in -1..MaxVersion[x]
  /\ wr.row \in (IF x \in Tasks THEN TaskRow ELSE PlanRow) \cup {Deleted}
  /\ wr.row # Deleted => wr.row.start < wr.row.end

TypeOK ==
  /\ DOMAIN db = Ids
  /\ \A t \in Tasks : Exists(t) => db[t] \in TaskRow
  /\ \A w \in Workplans : Exists(w) => db[w] \in PlanRow
  /\ \A x \in Ids : Exists(x) => db[x].start < db[x].end /\ db[x].version <= MaxVersion[x]
  /\ DOMAIN client = Clients
  /\ \A c \in Clients :
       \/ client[c] = Idle
       \/ /\ client[c].at = "form"
          /\ client[c].id \in Ids
          /\ client[c].row \in TaskRow \cup PlanRow
       \/ /\ client[c].at = "commit"
          /\ \A x \in DOMAIN Writes(c) : x \in Ids /\ IsWrite(x, Writes(c)[x])
          /\ DOMAIN client[c].shown \subseteq DOMAIN Writes(c)
  /\ disturbed \subseteq Clients
  /\ crossed \subseteq Ids

Init ==
  /\ db        = [x \in Ids |-> Unborn]
  /\ client    = [c \in Clients |-> Idle]
  /\ seen      = [w \in Workplans |-> [t \in {} |-> 0]]
  /\ disturbed = {}
  /\ crossed   = {}

-----------------------------------------------------------------------------
(* What the services check.                                                *)

Mine(c, x) == Exists(x) /\ db[x].manager = ManagerOf[c]

(* Mutant: any task that exists may be put into a plan. *)
MayChooseAny(c, ts) == \A t \in ts : Exists(t)

(* authorise(): the tasks the form names are tasks of the active manager.  *)
MayChoose(c, ts) == \A t \in ts : Mine(c, t)

(* Mutant: a period may be empty. *)
MayBeEmpty(row) == row.start <= row.end

ValidDates(row) == row.start < row.end

(* Mutant: only the end of the plan is compared with its tasks. *)
CoversEnd(row) == \A t \in row.tasks : db[t].end <= row.end

(* The period of the plan contains the ones of its tasks. *)
Covers(row) ==
  \A t \in row.tasks : row.start <= db[t].start /\ db[t].end <= row.end

HidesPrivate(row) == row.isPublic => \A t \in row.tasks : db[t].isPublic

(* Mutant: the version that the form carries back is not compared. *)
AnyVersion(shown, current) == TRUE

(* The entity is detached when it is found (ServiceWrapper.findOne), so    *)
(* that save() merges what the form filled in: the version of the form     *)
(* must be the one of the row that the transaction reads.                  *)
SameVersion(shown, current) == shown.version = current.version

-----------------------------------------------------------------------------
(* What a request leaves for the commit of its transaction: the writes,    *)
(* with the version each one replaces, the row the user looked at when     *)
(* asking for them, and the versions of the tasks a plan was checked with. *)

Ask(c, writes, shown, tasks) ==
  /\ client' = [client EXCEPT ![c] =
                  [at |-> "commit", writes |-> writes, shown |-> shown,
                   seen |-> [t \in tasks |-> db[t].version]]]
  /\ disturbed' = disturbed \ {c}
  /\ UNCHANGED <<db, seen, crossed>>

Replacing(x, row) == [base |-> Version(db[x]), row |-> row]

Nothing == [x \in {} |-> 0]

(* A row that is changed gets the next version, up to the bound.           *)
Changeable(x) == db[x].version < MaxVersion[x]

(* The identifier comes from the sequence of the database: no two requests *)
(* get the same one.                                                       *)
Unused(x) ==
  /\ db[x] = Unborn
  /\ \A c \in Clients : client[c].at = "commit" => x \notin DOMAIN Writes(c)

(* An entity that a form shows can be changed by its manager, if the form  *)
(* is not older than the row.                                              *)
MayUpdate(c, x) ==
  /\ client[c].at = "form"
  /\ client[c].id = x
  /\ Mine(c, x)
  /\ SameVersion(client[c].row, db[x])
  /\ Changeable(x)

(* The managers that what a client saves may get: instantiate() and the    *)
(* row have set that of the client, and bind() any that the request names. *)
Owners(c) == IF c \in Plain THEN {ManagerOf[c]} ELSE Managers

(* What is created is new, unless the request carries the id and the       *)
(* version of a row: then save() merges it into that.                      *)
MayCreate(c, x) == Unused(x) \/ (c \notin Plain /\ Exists(x) /\ Changeable(x))

NextVersion(x) == Version(db[x]) + 1

(* Deleting an entity reads no field of the form but the id. *)
MayDelete(c, x) ==
  /\ client[c].at = "form"
  /\ client[c].id = x
  /\ Mine(c, x)

-----------------------------------------------------------------------------
(* The requests.                                                           *)

(* The form of something that exists is shown to its manager only.         *)
ShowForm(c, x) ==
  /\ client[c] = Idle
  /\ Mine(c, x)
  /\ client' = [client EXCEPT ![c] = [at |-> "form", id |-> x, row |-> db[x]]]
  /\ UNCHANGED <<db, seen, disturbed, crossed>>

ShowTask(c) == \E t \in Tasks : ShowForm(c, t)

ShowPlan(c) == \E w \in Workplans : ShowForm(c, w)

(* The user leaves the form, or the request is refused and rolled back. *)
Leave(c) ==
  /\ client[c].at = "form"
  /\ client' = [client EXCEPT ![c] = Idle]
  /\ UNCHANGED <<db, seen, disturbed, crossed>>

CreateTask(c) ==
  /\ client[c] = Idle
  /\ \E t \in Tasks, owner \in Owners(c), public \in BOOLEAN, start, end \in Days :
       LET row == [manager |-> owner, isPublic |-> public,
                   start |-> start, end |-> end, version |-> NextVersion(t)]
       IN  /\ MayCreate(c, t)
           /\ ValidDates(row)
           /\ Ask(c, [x \in {t} |-> Replacing(x, row)], Nothing, {})

(* No plan that contains the task is looked at. *)
UpdateTask(c) ==
  \E t \in Tasks :
    /\ MayUpdate(c, t)
    /\ \E owner \in Owners(c), public \in BOOLEAN, start, end \in Days :
         LET row == [manager |-> owner, isPublic |-> public,
                     start |-> start, end |-> end, version |-> NextVersion(t)]
         IN  /\ ValidDates(row)
             /\ Ask(c, [x \in {t} |-> Replacing(x, row)],
                       [x \in {t} |-> client[c].row], {})

(* Mutant: the plans keep the task that is deleted. *)
PlansAsTheyAre(t) == Nothing

(* The plans that contain the task are saved without it. *)
PlansWithout(t) ==
  [w \in Containing(t) |->
     Replacing(w, [db[w] EXCEPT !.tasks = @ \ {t}, !.version = @ + 1])]

DeleteTask(c) ==
  \E t \in Tasks :
    /\ MayDelete(c, t)
    /\ \A w \in Containing(t) : Changeable(w)
    /\ LET plans == PlansWithout(t)
       IN  Ask(c, [x \in DOMAIN plans \cup {t} |->
                     IF x = t THEN Replacing(t, Deleted) ELSE plans[x]],
                  Nothing, {})

CreatePlan(c) ==
  /\ client[c] = Idle
  /\ \E w \in Workplans, owner \in Owners(c), public \in BOOLEAN, start, end \in Days,
        newTasks \in SUBSET Tasks :
       LET row == [manager |-> owner, isPublic |-> public,
                   start |-> start, end |-> end, version |-> NextVersion(w),
                   tasks |-> newTasks]
       IN  /\ MayCreate(c, w)
           /\ MayChoose(c, newTasks)
           /\ HidesPrivate(row)
           /\ ValidDates(row)
           /\ Covers(row)
           /\ Ask(c, [x \in {w} |-> Replacing(x, row)], Nothing, newTasks)

(* A form without tasks empties the plan, and Covers says nothing of it. *)
UpdatePlan(c) ==
  \E w \in Workplans :
    /\ MayUpdate(c, w)
    /\ \E owner \in Owners(c), public \in BOOLEAN, start, end \in Days,
          newTasks \in SUBSET Tasks :
         LET row == [manager |-> owner, isPublic |-> public,
                     start |-> start, end |-> end, version |-> NextVersion(w),
                     tasks |-> newTasks]
         IN  /\ MayChoose(c, newTasks)
             /\ HidesPrivate(row)
             /\ ValidDates(row)
             /\ Covers(row)
             /\ Ask(c, [x \in {w} |-> Replacing(x, row)],
                       [x \in {w} |-> client[c].row], newTasks)

DeletePlan(c) ==
  \E w \in Workplans :
    /\ MayDelete(c, w)
    /\ Ask(c, [x \in {w} |-> Replacing(x, Deleted)], Nothing, {})

-----------------------------------------------------------------------------
(* The end of a transaction.                                               *)

(* Mutant: the flush does not compare the versions of the rows. *)
WritesAnyVersion(c) == TRUE

(* Each row written still has the version its write replaces. *)
VersionsHold(c) == \A x \in DOMAIN Writes(c) : Version(db[x]) = Writes(c)[x].base

After(c) == [x \in Ids |-> IF x \in DOMAIN Writes(c) THEN Writes(c)[x].row ELSE db[x]]

(* The managers that a row has had and gets. *)
ManagersOf(c, x) ==
  {Writes(c)[x].row.manager} \cup (IF Exists(x) THEN {db[x].manager} ELSE {})

Crossing(c) ==
  {x \in DOMAIN Writes(c) :
     Writes(c)[x].row # Deleted /\ ManagersOf(c, x) # {ManagerOf[c]}}

(* The foreign keys of the join table: plans contain tasks that exist. *)
ReferencesHold(rows) ==
  \A w \in Workplans :
    rows[w] \notin {Unborn, Deleted} =>
      \A t \in rows[w].tasks : rows[t] \notin {Unborn, Deleted}

CanCommit(c) ==
  /\ client[c].at = "commit"
  /\ VersionsHold(c)
  /\ ReferencesHold(After(c))

Commit(c) ==
  /\ CanCommit(c)
  /\ db' = After(c)
  /\ client' = [client EXCEPT ![c] = Idle]
  /\ seen' = [w \in Workplans |->
                IF w \notin DOMAIN Writes(c) THEN seen[w]
                ELSE IF Writes(c)[w].row = Deleted THEN Nothing
                ELSE IF DOMAIN client[c].seen = Writes(c)[w].row.tasks
                THEN client[c].seen ELSE seen[w]]
  /\ disturbed' = {d \in Clients \ {c} : client[d].at = "commit"}
  /\ crossed' = crossed \cup Crossing(c)

(* The flush throws: the transaction is rolled back. *)
CommitFails(c) ==
  /\ client[c].at = "commit"
  /\ ~CanCommit(c)
  /\ client' = [client EXCEPT ![c] = Idle]
  /\ disturbed' = disturbed \ {c}
  /\ UNCHANGED <<db, seen, crossed>>

Request(c) ==
  \/ ShowTask(c) \/ ShowPlan(c) \/ Leave(c)
  \/ CreateTask(c) \/ UpdateTask(c) \/ DeleteTask(c)
  \/ CreatePlan(c) \/ UpdatePlan(c) \/ DeletePlan(c)

Next == \E c \in Clients : Request(c) \/ Commit(c) \/ CommitFails(c)

Spec == Init /\ [][Next]_vars

-----------------------------------------------------------------------------
(* Correctness.                                                            *)

Plans == {w \in Workplans : Exists(w)}

(* A plan has tasks that exist, and except where a request wrote a row of  *)
(* another manager, or for one, they are of the plan's own manager,        *)
(* whatever happened to them between the authorisation and the commit.     *)
(* Plain clients write no such rows (PlainClientsKeepTheirRows).           *)
OwnTasksOnly ==
  \A w \in Plans : \A t \in db[w].tasks :
    /\ Exists(t)
    /\ {w, t} \cap crossed = {} => db[t].manager = db[w].manager

PeriodFits(w) ==
  \A t \in db[w].tasks : db[t].start..db[t].end \subseteq db[w].start..db[w].end

NoPrivateTask(w) == db[w].isPublic => {t \in db[w].tasks : ~db[t].isPublic} = {}

AsChecked(w) == \A t \in db[w].tasks : db[t].version = seen[w][t]

(* A plan whose tasks are as they were when it was last saved obeys the    *)
(* rules that saving it checks: its period contains those of its tasks,    *)
(* and a public plan has no private task.  Removing a task from it, or     *)
(* anything that happens while the save is pending, does not change that.  *)
PlansValidAsSaved == \A w \in Plans : AsChecked(w) => PeriodFits(w) /\ NoPrivateTask(w)

(* A save or a deletion that was accepted is refused by the database only  *)
(* if another request changed something in the meantime: in particular,    *)
(* deleting a task that plans contain does not run into a foreign key.     *)
OnlyRacesFail == \A c \in Clients :
  client[c].at = "commit" /\ c \notin disturbed => CanCommit(c)

(* No lost update: what an update replaces is the row its form showed,     *)
(* however many requests were served since the form was filled in.         *)
NoLostUpdate ==
  [][\A c \in Clients : client[c].at = "commit" /\ client'[c] = Idle /\ db' # db =>
       \A x \in DOMAIN client[c].shown : db[x] = client[c].shown[x]]_vars

(* Deleting is final: an update that was accepted before the deletion was  *)
(* committed does not bring the row back.                                  *)
DeletionIsFinal ==
  [][\A x \in Ids : db[x] = Deleted => db'[x] = Deleted]_vars

(* "Public workplans can not contain private tasks"                        *)
(* (validation_en.messages:56).                                            *)
PublicPlansHidePrivate == \A w \in Plans : NoPrivateTask(w)
=============================================================================
