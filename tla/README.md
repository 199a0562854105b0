# Acme Work Plans: models, checks and proofs

Acme Work Plans is a Spring MVC application (about 14,400 lines of Java): anonymous
visitors read public tasks and work plans and leave shouts, managers keep tasks and group
them into work plans, administrators watch a dashboard and configure a spam filter.
`framework/` is a small generic layer: one abstract controller runs the transaction of each
request and delegates to *services* (authorise, find, bind, validate, create, update ...), and
`features/` holds the services. The paths below are relative to
`src/src/main/java/acme/`.

This directory holds TLA+ modules that model the parts of the program whose correctness
depends on the order of events, TLC configurations that check them on small instances, and
proofs that TLAPS checks for every instance. Every safety property that the runs check is
also proved; liveness is model-checked only.

## 1. Inventory

| Component | State | Operations | Interacts with | What is hard |
|---|---|---|---|---|
| **Request handling** `framework/controllers/AbstractController.java` | `transactionStatus`, one field per controller bean, the beans being singletons; the transaction Spring binds to each thread | `handleRequest`: start, authorise, dispatch (`doGet`, `doPost`), commit or roll back, `onSuccess`/`onFailure` in a fresh transaction, catch block | services through `ServiceWrapper`; transaction manager; connection pool of 4; Hibernate's identifier generator, which takes a second connection | threads that share the field; throwables at every statement; threads reused for the next request; waits for connections |
| **Tasks and work plans** `features/manager/{tasks,workplans}`, `entities/{tasks,workplans}` | rows of `Task` and `Workplan`, the join table, `version` of each row; the forms that browsers hold | show, create, update, delete of both | one transaction per request (above); optimistic versions and foreign keys of the database | forms that grow old; validation on a snapshot, commit on the current rows; an update of one entity that breaks the rules of another |
| **Accounts, roles, sessions** `framework/entities/{UserAccount,Principal}.java`, `framework/helpers/PrincipalHelper.java`, `features/*/userAccount`, `features/authenticated/manager` | accounts, roles; the `Principal` kept by each session with its role map and active role | sign up, sign in and out, update, become manager, enable and disable | `handleRequest` sets the active role; services read its identifier; `onSuccess` reloads the principal | requests of one session in parallel; principals loaded before a change; two roles of one class |
| **Spam filter** `validators/spamValidator`, `features/administrator/spamConfig`, `features/administrador/threshold` | black list, threshold | `spamValidate`; create, update, delete of words; update of the threshold | `validate` of tasks, plans, shouts | configuration that changes between two reads; texts without words; overlapping matches |
| **Hours and minutes, dashboard** `Task.getPeriod`, `Workplan.getWorkload`, `features/administrator/dashboard` | none | sums, averages, deviations of H.MM values | tasks and plans | decimal text of floats, lost leading zeros, empty tables |
| **Database populator** `framework/utilities/{DatabasePopulator,DatabaseUtil}.java` | list of entities still to store; one transaction per attempt | deferral sort: an entity that cannot be stored goes to the end of the list and everything is tried again | Hibernate | the bound on the attempts, exceptions swallowed at commit |
| **Public listings, shouts** `features/anonymous/*`, `features/authenticated/tasks` | none of their own | list and show what is public and (not) finished; create a shout | tasks, plans, spam filter | time passing between list and show |
| **Browser of a manager** `webapp/WEB-INF/views/manager/workplans/form.jsp`, `webapp/META-INF/resources/js/workplanops.js`, `.../libraries/acme/js/acme.js` | the array of selected tasks and the dictionary of their rows in the page; the stack of return addresses in the session storage of the tab | press, click and release boxes; recompute workload, counts and dates; submit; push, pop and clear return addresses | listings, menus and forms; the create, update and delete services | an array and boxes that are kept together by events only; pages that grow old; addresses left on the stack |
| Command registry, service interfaces | tables filled at start-up | lookup | request handling | nothing changes after start-up |
| Web configuration, sign-in filters, `MasterController` | none | routing, answering what escapes from a handler | request handling | framework configuration |
| Other views, tags, messages (`webapp/`), helpers, data types | none | presentation, wrappers | all | none |

What makes the components correct:

- *Request handling*: the work of a request is stored or undone as a whole and as the answer
  says; hooks run in transactions of their own; nothing (transaction, connection) is left on a
  thread; every request is answered.
- *Tasks and plans*: plans hold tasks of their own manager; a saved plan obeys the rules it was
  validated with; no update is lost; deleting is final and cleans up what refers to the entity;
  only a race makes an accepted request fail.
- *Accounts*: a request acts with the role it was authorised for; a session ends up with the
  roles its account has; no name is given to two accounts.
- *Spam filter*: the verdict is the one of some configuration that was in force; a stricter
  configuration lets nothing more through.
- *Hours and minutes*: a sum is the exact number of minutes, written as H.MM; an average is near it.
- *Browser*: what a page computes is what the server will save or accept; a form returns where it
  was opened.
- *Populator*: everything is stored if the references allow an order, and nothing is reported as
  stored that is not.

## 2. Modules

| Module | Models |
|---|---|
| `RequestLifecycle` | `AbstractController.handleRequest` on several threads, with the shared status fields, the transaction resources of the threads and the pool |
| `RequestContract` | what the framework promises about a request, without any transaction: the abstract specification |
| `RequestLifecycleProofs` | the theorems about `RequestLifecycle` and their proofs |
| `Workplans` | the requests of managers about tasks and plans, against a database with versions and foreign keys |
| `MCWorkplans` | assignments of managers to browsers, how often rows change |
| `WorkplansProofs` | the theorems about `Workplans` and their proofs |
| `Accounts` | accounts, the principals of their sessions, and the requests that share them |
| `MCAccounts` | symmetry |
| `AccountsProofs` | the theorems about `Accounts` and their proofs |
| `SpamFilter` | the black list, the threshold, and the validation of the texts of a form against them |
| `MCSpamFilter` | two texts, three words and the rounding of their quotients; symmetry |
| `SpamFilterProofs` | the theorems about `SpamFilter` and their proofs |
| `HourMinutes` | sums and averages of durations, as operators |
| `Sums` | lemmas about folds and sums over finite sets, by induction on sets |
| `HourMinutesProofs` | theorems about the arithmetic of `HourMinutes`, for lists of any length |
| `PlanForm` | the page of a plan: its script, its boxes, and what submitting it does |
| `Navigation` | the stack of return addresses of a tab |
| `ManagerTab` | a tab with the form of a plan: `PlanForm` and `Navigation` composed; the averages of the dashboard |
| `MCManagerTab` | the contents of tasks, dates and lists of durations |
| `ManagerTabProofs` | the theorems about `ManagerTab` and their proofs |
| `Populator` | the deferral sort of the database populator and its transactions |
| `PopulatorProofs` | the theorems about `Populator` and their proofs |

`RequestLifecycle` is the ground the others stand on: `Workplans` and `Accounts` take it that a
request commits or rolls back its own transaction, and `Accounts` looks at the principal that
`RequestLifecycle` leaves out. `SpamFilter` models the transactions of its administrators as
`Workplans` does, and splits the validation that `Workplans` takes as one check. `ManagerTab`
looks at the manager's side of `Workplans`: there a form is a version, here it is a page.

### RequestLifecycle

A thread is at one `pc` of the handler; `stage` says which of the handler's transactions that
statement is about: `work` (l. 189-253), `after` (the hook of the normal path), `undo` and
`recover` (the catch block, l. 264-271).

| Model | Code (`AbstractController.java`) |
|---|---|
| `status[c]` | field `transactionStatus` of bean `c`, l. 81 |
| `StartTransaction`, `CommitTransaction`, `RollbackTransaction` | l. 84-103, up to the call of the transaction manager |
| `ResetStatus` | the last statement of the two, l. 95 and 102, a separate step because another thread may run in between; on the normal path the handler then builds the view, which may throw (l. 257-259) |
| `Refuse`, `Authorise` | l. 191-221 |
| `Dispatch`, `DispatchThrows`, `DispatchCreate` | l. 227-238 with `doGet` and `doPost` |
| `DrawIdentifier`, `Created`, `IdentifierTimeout` | Hibernate's generator reading its sequence table through a second connection (MySQL has no sequences; `DomainEntity.java` l. 42) |
| `AfterDispatch`, `Hook`, `HookThrows` | l. 243-253. Two services override `onSuccess`, none overrides `onFailure` |
| `Catch`, `Throw` | l. 260-273; what the catch block throws escapes and is answered by Spring (`answer = "escaped"`) |

`tx[t]` is what Spring binds to thread `t`: nothing, a live transaction, one marked for rollback,
or a closed entity manager (when another thread completed the transaction). `leaked` counts
connections whose transaction nobody can reach. `work` is a history variable: what became of
the work of the thread's request. A status that is null and one that is completed are the same
value, as the code treats them alike (`isTransactionActive`, l. 105). Spring's clean-up can leave
an entity manager open after a failed clean-up; the model closes it, which later requests of the
thread cannot tell apart.

`Overlap` says whether a bean may receive a request while it serves another one. It may, in the
program; with `Overlap = FALSE` the model shows what the code achieves when it does not happen
(little traffic, or one controller instance per request), and with `Overlap = TRUE` what the
shared field does.

*Fairness.* `FairSpec` is weakly fair to every thread that runs a handler, nothing more: the
operating system schedules the threads, and a wait for a connection ends because the pool has a
timeout (30 s by default), so that some action of the thread is always enabled. Nothing forces
requests to arrive.

### Workplans

The database is one function `db` from identifiers to rows. A request is two steps: the request
itself (authorise, find, bind, validate, and the writes it leaves in the persistence context), then
`Commit` or `CommitFails`. The first step reads the snapshot of its transaction (InnoDB,
REPEATABLE READ, and the first query of the service takes the snapshot); the second compares
the versions of the rows it writes with the current ones and checks the foreign keys, as
Hibernate's flush and the database do. Between `ShowTask`/`ShowPlan` and the update there is no
transaction: the browser holds a form with the id and version it was shown (`form.tag` l. 32-33).

| Model | Code |
|---|---|
| `CreateTask`, `UpdateTask`, `DeleteTask` | `features/manager/tasks/ManagerTask{Create,Update,Delete}Service.java` |
| `CreatePlan`, `UpdatePlan`, `DeletePlan` | `features/manager/workplans/ManagerWorkplan{Create,Update,Delete}Service.java` |
| `SameVersion` | `ServiceWrapper.findOne` detaches what it read, `Request.bind` (l. 133-137) fills in the version of the form, and `save` merges: Hibernate rejects a stale version |
| `MayChoose`, `HidesPrivate`, `ValidDates`, `Covers` | the guards of `authorise` and `validate` |
| `PlansWithout` | `ManagerTaskDeleteService.delete` l. 37-40 |
| `Ask` | what `doPost` leaves for the commit |
| `Owners`, `MayCreate`, `NextVersion` | what `bind` makes of requests that name a manager, or an identifier and a version in the form of something new (`ManagerTaskUpdateService.java` l. 35, `ManagerWorkplanUpdateService.java` l. 71: no property is excluded) |

`Plain` is the set of browsers whose requests carry the fields of their pages and no others. What the others
can do with the three properties above is modelled: rows change hands, and a form of something new
overwrites a row. That requests name no property *of* a task or a manager beyond that (nested
properties) is an assumption of the module.

`seen`, `disturbed` and `crossed` are history variables; `crossed` are the rows that a browser of one manager wrote
although they were, or became, another's. An update that changes nothing writes nothing and is
left out; an update that changes only a title or another field that is not modelled is one of the
modelled updates that keeps the modelled fields. The checks on workload, texts and "the dates are in
the future" only refuse a form, which is then shown again as it was: a stutter. `Workplans`
takes each request's transaction as its own, which `RequestLifecycle` shows for requests that
do not overlap on one bean.

### Accounts

A `Principal` is a mutable object that the security context of a session refers to, and each
request of the session too; `handleUpdate` puts a new one into the session while other requests
still use the old one. So `heap` maps object identities to principals, `principal[s]` is the one
in session `s`, and `request[t].principal` the one the thread took. Objects that nobody refers
to are collected; a request that has served its service no longer uses its principal. `Founders` are the
accounts of the initial data; any other is `Unregistered` until an anonymous request signs up for
it. Signing up inserts two rows, the account and its `Authenticated` role, and `NameOf` may give two
accounts one name: both requests find it free, and the unique column decides at the commit.

| Model | Code |
|---|---|
| `Receive`, `PrincipalOf` | `Request.java` l. 83, `PrincipalHelper.get` |
| `TakeRole`, `Refuse` | `AbstractController.java` l. 215-216; the step from `Receive` to here, and on to the service, is where other requests of the session run |
| `ActiveRoleId` | `Principal.getActiveRoleId`, which the manager features call (`ManagerTaskUpdateService.java` l. 27 and others) at any time while they serve |
| `BecomeManager` | `AuthenticatedManagerCreateService`, up to its commit |
| `UpdateProfile`, `KeepProfile`, `UpdateStatus`, `CommitUpdate`, `CommitFails` | the two `UserAccountUpdateService`s, with the version of the account |
| `SignUp`, `CommitSignUp`, `CommitFails`, `NameIsUnique` | `AnonymousUserAccountCreateService`: its validation and its commit; `@Column(unique = true)` of `UserAccount.java` |
| `LoadPrincipal`, `HookThrows`, `SetAuthentication` | `PrincipalHelper.handleUpdate` from `onSuccess`: the read and the replacement are separate steps |
| `Loaded` | `loadUserByUsername`; with two roles of a class the map keeps either |

`Tabbed` is the set of sessions whose browser has several requests under way at once (tabs,
double clicks). A session that was signed out may be used again once its requests are answered;
that stands for a new session. `promoted` is a history variable.

`AuthenticatedUserAccountUpdateService.bind` (l. 49-61) excludes the user name and the password, not the status:
a request that names it sets it, although its page has no field for it. `Plain` is the set of sessions
that do not, and `StatusSent` what a request may leave in the row. Apart from the status, it is an assumption
of the module that requests carry the fields of their pages and no other account's identifier or roles.

### SpamFilter

Paths: `validators/spamValidator/SpamValidatorService.java`, `features/administrator/spamConfig/`,
`features/administrador/threshold/`.

| Model | Code |
|---|---|
| `CreateWord`, `UpdateWord`, `DeleteWord`, `UpdateThreshold` | the services, up to the commit; `IsNew` is the look-up of the list, which has the row's own word too, so that saving a row as it is is refused |
| `Commit`, `CommitFails`, `VersionHolds` | the optimistic versions; nothing else stops a duplicate |
| `Receive` | a form with up to `MaxTexts` texts without other errors (a plan has two, a task and a shout three) |
| `ReadList`, `ReadThreshold` | the two queries of `spamValidate` (l. 34 and 47), for one text after the other, all of them in the snapshot of the request (`View`) |
| `ReadListThrows` | `Pattern.compile` of a word that is no regular expression (l. 38) |
| `Matches`, `Over` | l. 33-47: matches divided by words as floats, times 100, compared with the threshold. `RoundsUp` are the quotients whose float is larger than the fraction: 3 matches in 5 words are over 60 percent. No words make the quotient infinite, or, without matches, no number |

`asked` and `texts` are history: the configuration when the request read first, and its form.
`rivals` is history too: which rows were committed between the validation and the commit of a row.

### HourMinutes

Durations are minutes. What Java and JavaScript make of the decimal text of a Float (`2.0`, `2`,
`1.5` for an hour and fifty minutes) is a sequence of digits, which `getWorkload`
(`Workplan.java` l. 78-104) and `workloadSum` (`workplanops.js` l. 1-29) take apart and pad. The
reference is `ExactSum`. The conversions of the dashboard (`AdministratorDashboardShowService.java`
l. 61-75) truncate quotients of doubles: where the exact quotient is a whole number, the result may be one less,
and `Truncated` has both outcomes. The decimal hours are then added up in a `Float` and divided (l. 126-135): each of
the numbers, the additions, the division and the text of the average is rounded by up to one part in
2^24, so that the total of `n` tasks is off by less than `n + 4` such parts (`Rounding`, which counts one more of
its unit for the doubles that follow), unless all is exact in binary (`AllQuarters`). `PartOf`
has every number of whole minutes that this leaves open, and `getAvarageWorkloads` is the set of all averages
that result; what the program shows is one of them. (For 999 tasks of 99.12 and one of 99.09 the sum drifts upwards and
99.12 is shown for an average just below it: 5951 and 5952 minutes are both in `PartOf`.) Durations are taken to be below
131072 hours, from where on a `Float` has no two digits left for the minutes.

### PlanForm

| Model | Code |
|---|---|
| `page.taskdict`, `page.selectarray`, `page.checked` | the script variables of `form.jsp` l. 9-10, and the boxes of the browser |
| `Load` | writing the page, l. 31-84 |
| `Press`, `Click`, `NoClick`, `SpaceBar` | the handler of `mousedown`, l. 87-98, which runs before the box changes; the box changes when the button is released on it, or by the space bar, which calls no handler |
| `Splice`, `indexOf` | of JavaScript: `splice(-1, 1)` takes out the last element |
| `ShownWorkload`, `taskCount`, `dateSuggestions` | the functions of `workplanops.js` |
| `Saved`, `Refused`, `Fails`, `PlanDeleted` | the services of `features/manager/workplans/`; a refused form is written again with the boxes that were sent, `fresh` is that its version is still the one of the row |
| `EditTask`, `DeleteTask` | the services of tasks, from other tabs; deleting one that the plan contains saves the plan in a new version |

Each submission is one step: how transactions overlap is the subject of `Workplans`. A
suggested day before the year 0 is left out.

### Navigation and ManagerTab

| Model | Code |
|---|---|
| `clearReturnUrl`, `pushReturnUrl`, `Popped`, `Remaining` | `acme.js` l. 63-103 |
| `Menu`, `MenuForm` | `menu-option.tag`, `menu-suboption.tag`: they clear the stack |
| `OpenRow` | `list.tag`: a row pushes the address of its listing |
| `ReturnButton`, `RunReferrer` | `form-return.tag`, `referrer.jsp` |
| `SubmitDone` | `AbstractController.java` l. 452-455, the redirect to the referrer |
| `SubmitRefused`, `Panic` | the form again; the panic view, which does not touch the stack |
| `Footer`, `Jump` | links and Back, Forward or typed addresses: the page changes, the stack does not |

`origin` and `straight` are history: where the form was opened, and that neither Back nor Forward
was used since. Tabs opened by a link of the form (`target="_blank"`) have a stack
of their own and are other tabs; a page that the browser restores from its cache is the page it was.
Where signing in leads is Spring Security's, not the referrer's, and is left out.

In `ManagerTab` each step of the tab is a step of `Navigation` and, where the form of the plan is
concerned, one of `PlanForm` with it: `SavePlan == SubmitDone /\ Saved`. The averages depend on
the tasks alone; their invariants are evaluated in the states where nothing else is special.

### Populator

`refs` is the graph of references between the entities, and the list starts in any order. That an
entity is stored without an exception exactly if its references are stored already is what the
populator itself relies on. One attempt of `tryPersist` is a sequence of `PersistNext` steps that
ends in `AllPersisted` and `CommitTransaction`, or in `Defer` and `RollbackTransaction`; the
`persist` loop is `CheckDone` and `EndAttempt`. `CommitTransaction` may fail to commit anything, since
`DatabaseUtil.commitTransaction` swallows what the commit throws. Each entity is abstracted to its
references: self-references are left out, as the populator could not store them anyway. Recreating the
schema, validating the entities and reading the files come before the sort.

## 3. Runs

| Run | Instance | Shows |
|---|---|---|
| `requests_alone` | 3 threads, 2 beans, 2 connections, no overlap, fair; 108,001 states | each request commits or rolls back its own work as its answer says, from every point where something can throw; hooks run fresh; nothing is left behind; the invariant that is proved; the handler implements `RequestContract`, liveness included |
| `requests_overlap` | 2 threads, **1** bean, 2 connections, fair; 43,502 states | with overlap: every request is still answered although connections leak, and an active status names a live transaction |
| `requests_lostwork` | as above; **violation** | "ok" is answered for work that was never committed |
| `plans_races` | a plain browser of one manager and one of another that names managers and rows, 1 task that changes once, 1 plan that changes twice, 3 days; 5,909,303 states, about two minutes | plans are valid as saved; one holds another manager's task only if one of the two rows was written across managers; only races make an accepted request fail; no lost update; deletion is final |
| `plans_private` | **violation** | a task made private stays in a public plan |
| `accounts_sessions` | 3 accounts (1 administrator, 2 that sign up for one name), 2 sessions (1 with parallel requests, which may send a status), 2 threads; 1,709,049 states, the longest run (over two minutes) | requests act with roles of their own account, of the authorised class in the sequential session; a new manager can go on at once; a status changes only with a request that sets it; one account per name |
| `accounts_shared` | same; **violation** | a parallel request changes the active role under a service |
| `accounts_second` | same, 2 Manager roles; **violation** | becoming a manager twice |
| `spam_configuration` | 2 administrators, 1 author with up to 2 of 2 texts, 3 words (1 malformed), 2 rows that change once, thresholds 50, 60 and 101; 2,739,617 states | a form is judged by one configuration; a word is listed twice only after a race; a stricter configuration frees no text |
| `manager_tab` | 2 tasks with 3 contents, 1 plan, an array of up to 3, 2 listings, a stack of up to 2; averages over all pairs of durations below 2 hours and all triples of 15 of them, and over 60 long tasks whose sum is rounded, on top of the tasks; 783,033 states | the array agrees with the boxes; the page shows the workload that is saved; its suggestions are accepted; a form returns where it was opened; how far averages are off |
| `populate_sort` | all graphs and orders of 4 entities, fair; 1,317,792 states | sorting ends, loses nothing, accepts no wrong order, stores all or nothing, never falls back |
| `populate_unsortable` | 3 entities; **violation** | a sortable file is given up |

*Bounds.* With 2 connections and 3 threads the pool is exhausted both by transactions and by identifier
draws, and a thread waits while the others finish or wait too; a second thread on the same bean is all an
overlap needs. Three days are the least on which a period can contain another one properly at either end.
A plan that changes twice lets forms of three ages meet. One task suffices for the rules of a plan, which
are conjunctions over its tasks. One session with parallel requests and two threads are enough for a
request to outlive the principal it took; the second session changes the same account from outside. One
browser that names what its pages do not, next to a plain one, is both the one that gives a row away and
the one that gets it: both write the same rows then, so that they race as browsers of one manager do.
Four entities contain every chain, fork, join and cycle with a bystander, and more references than the
bound on the attempts allows for. Two rows of the black list are the least that can be duplicates, two
texts the least between which a configuration can change; the texts are at the threshold with a quotient
that is rounded up (3 of 5 words, threshold 60), and without words. An array of three for two tasks has
room for a duplicate and for the removal of a wrong task; a stack of two has one address left over from
an earlier form under the one of the present form. The contents of tasks have whole hours, one digit and
two digits of minutes, and sums that carry.

*Stopping.* Identifiers and versions are not reused, so that `Workplans` stops when they are used up; an
administrator may disable every account, after which nobody can sign in to `Accounts`; `SpamFilter` uses
the rules of `Workplans`; the populator
ends. Their runs do not check for deadlock for these reasons only. The runs of `RequestLifecycle` and `ManagerTab` do.

*Symmetry* is used in runs without liveness: browsers of administrators, rows of the
black list, accounts that sign up, threads and object identities are interchangeable.

*Fairness of the populator:* it is one thread that waits for nobody, hence weakly fair.

### What the violations say

1. *The shared status* (`AbstractController.java` l. 81). Thread 1 is about to commit; thread 2
   enters the same controller and `startTransaction` overwrites the field; thread 1 commits the
   transaction of thread 2 and answers its view; its own transaction stays open, out of reach,
   with its connection. The comments at l. 240 and 261 promise otherwise.
2. *Updating a task ignores its plans* (`ManagerTaskUpdateService.java` l. 124). The rules of
   `validation_en.messages` l. 49, 50, 56 and 58 are checked when a plan is saved and can be broken
   afterwards by editing a task. `PlansValidAsSaved` says how far they do hold.
3. *The shared principal* (`AbstractController.java` l. 216, `Principal.java` l. 160). While a manager
   feature is served, a request of the same session to a controller of authenticated users makes
   `Authenticated` the active role. `getActiveRoleId` then returns the identifier of that role: the feature
   refuses its own manager, or looks for a manager that does not exist. `RoleAsAuthorised` shows that it
   takes parallel requests, `OwnAccount` that the role is never one of another account.
4. *Two Manager roles* (`AuthenticatedManagerCreateService.java` l. 45). The menu hides the option from
   managers, the service does not look: a second tab, or a double click, is enough. `UserAccount.addRole`
   asserts the opposite. The tasks of the other role are then out of reach, or not, as the database
   orders the rows.
5. *The bound of the sort* (`DatabasePopulator.java` l. 145). Three entities in a chain, listed in reverse,
   take three deferrals and a fourth attempt; three are allowed, and "could not sort" is reported.

### What the averages say

The violations above contradict a statement of the repository. The dashboard makes no statement
about its averages, so that `AverageClose` says how far they hold: where no task has one to six
minutes past the hour and the average has at least 10.6, what is shown is at most 1.6 minutes too
low and not too high, up to the rounding of the sum. That is a hundredth of a minute in all for the tasks of a small
team, and grows with the number of tasks and their total: for a thousand tasks of a hundred hours it can be a third
of a minute for each, and "never too high" would be false. The rest is lost zeros: if all tasks take 1.05, the average shown is 1.48;
2.06 and 2.10 are shown as 2.7, which the next reader takes for 70 minutes. The hours are
right to within the shortest and the longest task (`AverageHoursInRange`) as long as the
rounding of the sum is at most a minute in all (`SmallRounding`: 50 tasks of 99 hours, 150 of ten).

## 4. Theorems

Each theorem holds for every value of the constants that satisfies the assumptions of its module, and
TLC evaluates those assumptions in the runs. Most only say that constants are what their names say: bounds
are numbers, values that stand for "no row" are not rows. The others, and what they stand for:

| Assumption | Module | Why it holds |
|---|---|---|
| `Overlap = FALSE` (in the theorems that need it) | `RequestLifecycle` | it does not hold in general; the other half of the story is `requests_lostwork` |
| `Tasks \cap Workplans = {}` | `Workplans` | rows of two tables |
| `Plain = Clients` (in `PlainClientsKeepTheirRows` only) | `Workplans` | it holds for browsers that send the forms as they are; without it, `crossed` says what remains |
| names of founders differ | `Accounts` | unique column, initial data |
| one object for each session and each thread at least | `Accounts` | memory for the principals in use |
| `Threshold \notin Entries`, `Entries` finite | `SpamFilter` | the threshold is in a table of its own; identifiers are `int`s |
| no more tasks than `MaxSelected` | `PlanForm` | the array is not bounded by the code, so that the model must have room for a plan with every task |
| a task ends after it starts | `PlanForm` | `ManagerTaskCreateService` and `ManagerTaskUpdateService` refuse others |
| entities are finitely many | `Populator` | a file |

### RequestLifecycleProofs

| Theorem | Assumes | States |
|---|---|---|
| `TypeCorrect` | | `Spec => []TypeOK` |
| `ActiveMeansLive` | | `Spec => []ActiveStatusIsLive` |
| `OwnTransactionsInvariant` | `Overlap = FALSE` | `Spec => []OwnTransactions` |
| `AnswersAreTrue` | `Overlap = FALSE` | `Spec => []AnswerTellsOutcome` |
| `WorkIsDecided` | `Overlap = FALSE` | `Spec => []WorkDecided` |
| `RequestsLeaveNothing` | `Overlap = FALSE` | `Spec => []NothingLeftBehind` |
| `HooksAreFresh` | `Overlap = FALSE` | `Spec => []HooksRunFresh` |
| `TransactionsEndAtHome` | `Overlap = FALSE` | `Spec => OnlyOwnerEnds` |
| `HandlerKeepsContract` | `Overlap = FALSE` | `Spec => Abstract!ContractSafety` |

*The argument.* None of the properties is inductive: whether a commit ends the right transaction
depends on what the shared field holds when the thread gets there. `OwnTransactions` adds, for each
place in the handler, what the thread holds there (`Holds`: a live transaction of its own, with
the field of its bean naming it; or `Released`: neither), what that says about its work, that no two
threads are in one bean, and that the field of an idle bean is inactive. With the type
invariant this is inductive: a step of a thread changes only its own entries
and the field of its bean, which no other thread uses. That last fact is where
`Overlap = FALSE` is needed, and `requests_lostwork` shows that it cannot be dropped. The
other theorems follow from the invariant, state by state or step by step; the refinement
maps `serving` to `pc # "idle"` and `durable` to `work = "committed"`, and each step is an
`Accept`, a `MakeDurable`, an `AnswerWith` or a stutter.

`ActiveMeansLive` needs nothing of this and holds under overlap: the status in the field of a bean, if it is
active, stands for the transaction of a thread that still executes this bean (`Fields`). Overwriting the
field can leave a transaction without a field, but no field with a transaction that is over: ending
it completes the status object, and only a thread of this bean can end it.

### WorkplansProofs

| Theorem | States |
|---|---|
| `TypesHold` | `Spec => []TypeOK` |
| `PlansOwnTheirTasks` | `Spec => []OwnTasksOnly` |
| `PlainClientsKeepTheirRows` | if all browsers are plain, `crossed` stays empty and all tasks of a plan are of its manager |
| `PlansStayValid` | `Spec => []PlansValidAsSaved` |
| `OnlyRacesLose` | `Spec => []OnlyRacesFail` |
| `UpdatesReplaceWhatTheyShowed` | `Spec => NoLostUpdate` |
| `DeletedForGood` | `Spec => DeletionIsFinal` |

*The argument.* A pending write was checked on a snapshot and is committed on rows that may have
changed. The invariant (`IInv`) says of each write what still holds of it: everything, if its row has the
version of that time, because then the row is the same; and, if it is newer, only what never changes (that
it was born and, outside `crossed`, its manager). So a form and the row it shows are equal as long as their versions are
(`ShownInv`), and Hibernate's comparison of versions is a comparison of rows. With foreign keys
for the tasks that a plan names, what is checked at the time of the request carries over to the commit,
except for what `PlansValidAsSaved` excepts: a task that was updated since. That a plan and its
tasks have one manager rests on the authorisation *and* on requests that do not name a manager: `bind` would
set it. So the invariant says it of rows outside `crossed`, and a second one (`OwnRowsOnly`) that plain browsers
put nothing into `crossed`.

### AccountsProofs

| Theorem | States |
|---|---|
| `TypesHold` | `Spec => []TypeOK` |
| `RequestsActForTheirAccount` | `Spec => []OwnAccount` |
| `RolesAreAuthorised` | `Spec => []RoleAsAuthorised` |
| `NewManagersCanGoOn` | `Spec => []NewRoleUsable` |
| `NamesAreUnique` | `Spec => []OneAccountPerName` |
| `StatusIsNotUndone` | `Spec => StatusKept` |

*The argument.* Principals are shared objects, and requests outlive their place in a session. The invariant
follows references: an object belongs to one session, in its security context or in requests that took it
there (`OneSessionPerObject`); all of a session's objects have its account while requests are under
way; a session that is not `Tabbed` has one request at a time. So only requests of the same session, which
act for the same account, can change the active role under a service, and in a plain session there are
none. The row from which a pending update of a profile was made is not newer than the committed one, and
has its status if it is that one (`SavingInv`): what a `Plain` session commits then is the status as it was. It is
not true that only administrators change a status; `StatusKept` says that nobody changes it without setting it.

### SpamFilterProofs

| Theorem | States |
|---|---|
| `TypesHold` | `Spec => []TypeOK` |
| `FormsAreJudgedByOne` | `Spec => []OneConfiguration` |
| `OnlyRacesDouble` | `Spec => []DuplicatesAreRaces` |
| `StricterNeverFrees` | `Spec => StricterFreesNothing` |
| `StricterIsStricter` | more matches or a lower threshold keep a spam text spam |

*The argument.* A request that has judged some of its texts has judged them by the snapshot it took at the
first query, and the others will be read in the same snapshot (`AuthorInv`). A word that a pending save is
about to double was committed after the look-up of that save (`SaveInv`). `StricterFreesNothing` compares
two sums of matches: the matches of a text are a fold over the rows of the list, in an order that
the fold chooses. It equals a total that does not depend on the order (`Sums`), and grows with the
rows; the rest is `StricterIsStricter`, a fact about quotients that are rounded.

### ManagerTabProofs and HourMinutesProofs

| Theorem | States |
|---|---|
| `TypesHold` | `Spec => []TypeOK` |
| `FormsReturn` | `Spec => ReturnsToOrigin` |
| `SelectionAgrees` | `Spec => []SelectionIsBoxes` |
| `SuggestionsAreAccepted` | `Spec => []SuggestionAccepted` |
| `WorkloadsAreExact` | `Spec => []ShownWorkloadIsSaved` |
| `AveragesStayInRange` | `Spec => []AverageHoursInRange` |
| `AveragesStayClose` | `Spec => []AverageClose` |
| `SumsAreExact` (`HourMinutesProofs`) | `getWorkload` and `workloadSum` of any list are its exact sum |

*The argument.* `ReturnsToOrigin` needs that while a form is open that was not reached by Back or
Forward, the address that would be popped next is its origin (`NavInv`), whatever lies under it; every step of the
tab is a step of `Navigation` or leaves the stack alone. `SelectionIsBoxes` is not inductive
because it says nothing while a button is down: then the array is one press ahead of the box, and
`FormInv` says that it holds what `Toggle` will make of the boxes when the button goes up. It also
says that each element occurs once: taking out the first place of a task (`SpliceRemoves`) takes
the task out only then. What is written with a page is an order of a finite set
(`OrdersAreInjective`). `FormInv` has the type of the page too, and that a plan's tasks exist.

Sums are folds. The page adds the durations in the order of its array, the entity in that of its
collection; both are the total of the same set, renamed (`TotalRenamed`), and adding hours
and minutes apart is linear (`TotalLinear`). Taking the text of a duration apart gives its minutes
whichever zeros it has lost (`DigitsAreMinutes`). The suggested dates are around the first start and the
last end of the tasks, which exist because there is a least and a greatest of
finitely many numbers.

For the averages, every list of conversions has, for each duration, decimal hours that have its hours
(`ForwardBounds`), less than a minute short if no zero is lost. Bounds on addends are bounds on totals
(`TotalBetween`, `TotalsWeighed`), the rounding grows with the total (`RoundingGrows`), so that it is bounded by that of
the exact sum, and both bound the quotient (`QuotientInRange`, `QuotientClose`). There is one
delicate case: rounding may take a quotient below the hours of the shortest task. If some duration
has decimals, or a larger hour, its decimal hours are ten hundredths larger at least and so is the total
(`TotalExceeds`), more than the rounding; if none has, all conversions are whole
hours, which are exact in binary, and such a quotient is not rounded.

### PopulatorProofs

| Theorem | States |
|---|---|
| `TypesHold` | `Spec => []TypeOK` |
| `ListStaysTheFile` | `Spec => []ListIsTheFile` |
| `PopulatedOrEmpty` | `Spec => []AllOrNothing` |
| `SortedRespectsReferences` | `Spec => []SortedIsTopological` |
| `AttemptsNeverFallBack` | `Spec => NeverFallsBack` |

*The argument.* An attempt stores a prefix of the list, each entity of which refers to earlier ones only
(`Storable`); what the attempt before it stored is the first part of the list, since a deferral moves
the entity behind that part to the end. So the next attempt gets at least as far, the database
receives complete attempts only, and a list that is stored completely is in an order of its references.

### How sums are proved

The induction theorems of the library take operators as parameters, which the installed provers cannot
instantiate. `Sums` replaces them by facts about sets: the values for which something holds are a set,
and if it is not all of them there is a least number, or a smallest subset, outside it
(`LeastNatural`, `NaturalsOf`, `SubsetsOf`, from well-foundedness). With these, a fold is well defined
(`FoldExists`) and everything above about folds over data is proved for all lengths.

*Left to TLC.* Liveness: `EventuallyAnswered`, the fairness part of `ContractKept`, `SortingEnds`, since
ENABLED and fairness are out of the prover's reach. The violations are behaviours, found by TLC. That the
inductive invariants are not false was checked by TLC on the instances of the runs before they
were proved.

## 5. Plan

Done: the modules of section 2, and a proof of every invariant and every action property that the runs
check. Next, in this order:

1. An abstract specification for `Workplans`: a serial store in which each accepted request takes effect at
   once, which `Workplans` implements except for the write skew between a plan and its tasks.
2. An abstract specification for the populator: a database that goes from empty to populated in one step or
   stays empty, with `PopulatorProofs` as the refinement.
3. Listings on top of `Workplans` with a clock.

## 6. Not modelled, and why

- *Third-party libraries of the browser.* Nearly all of the JavaScript in the repository (more
  than 84,000 lines) are unmodified releases of Chart.js, DataTables, jQuery, Bootstrap, Font Awesome,
  Popper and Moment under `webapp/META-INF/resources/libraries/`. They are other projects' code
  and none of this program's logic, and are not modelled; so that the models map only a
  fraction of a percent of the lines of JavaScript. Of the program's own three scripts, about
  240 lines, `workplanops.js` and the return stack of `acme.js` are modelled; `chart.js` draws a chart. What
  the models are mostly about is the program's Java and JSP.
- *The dashboard's counts, minima, maxima, deviations and periods.* Single queries, or formulas over the
  conversions that are modelled, on one state. Reading them showed what no model is needed for: the
  minimum over no work plan is unboxed from null (`AdministratorDashboardShowService.java` l. 320)
  although l. 463 has a "-" for it; the deviations subtract an average in hours and minutes from
  decimal hours.
- *The length of a single task.* `Task.getPeriod` adds hours and minutes as floats, so that ten workloads
  (1.32, 1.57, 1.58, 1.59, 2.39, 3.39, 4.53, 5.53, 6.53, 7.53) are refused for a period just as long.
  It is a fact about the bits of single numbers, of which `Workplans` only keeps that a check may refuse.
- *Properties that no page has a field for*, beyond those named in section 2: `bind` would set nested
  properties of a task's or an account's relations too. The modules assume that requests do not name them.
- *The return button with an `action`* (`form-return.tag` l. 28), which clears the stack and goes to a fixed
  address: no page of the application uses it.
- *Remember-me cookies and signing in again* are Spring Security's.
- *Public listings and shouts* read, or insert one row; they are in the plan because of the clock.
- *Recreating the schema, validating and reading the files of the populator* come before the sort.
- Messages and the other tags are layout. Helpers and data types wrap library calls. The command
  registry does not change after start-up. Web configuration is declarative; its one effect on the
  handler, answering what escapes from it, is an answer of the model.
