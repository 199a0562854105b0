------------------------------- MODULE PlanForm -------------------------------
(***************************************************************************)
(* The form of a work plan in the browser of its manager.  Its page is     *)
(* written with the rows that the tasks had when it was requested; its     *)
(* script keeps the selected tasks in an array of its own, from which it   *)
(* computes the workload, the numbers of public and private tasks and the  *)
(* suggested dates, while the browser submits the boxes that are ticked.   *)
(* The two are kept together by events: pressing a button of the mouse on  *)
(* a box changes the array, releasing it there changes the box.            *)
(*                                                                         *)
(* Other tabs of the manager edit and delete the tasks meanwhile.  Each    *)
(* submission is one step here: how transactions overlap is the subject    *)
(* of Workplans.  There is one plan.  Times are hours since some midnight, *)
(* workloads are minutes.  Texts only refuse a form.                       *)
(***************************************************************************)
EXTENDS HourMinutes, FiniteSets

CONSTANTS
  Tasks,        \* the tasks of the manager
  TaskRows,     \* what they may contain
  Times,        \* what is typed as start and end of the plan
  MaxSelected,  \* bound on the length of the array
  Gone,         \* the "row" of a task that was deleted
  NoTask,       \* no box is being pressed
  NoPlan,       \* the plan does not exist
  Closed        \* the tab does not show the form

ASSUME TaskRowsAssumption ==
  /\ TaskRows \subseteq [start : Nat, end : Nat, workload : Nat, isPublic : BOOLEAN]
  /\ \A row \in TaskRows : row.start < row.end
  /\ Times \subseteq Nat /\ MaxSelected \in Nat
  /\ Gone \notin TaskRows /\ NoTask \notin Tasks
  /\ IsFiniteSet(Tasks) /\ Cardinality(Tasks) <= MaxSelected

VARIABLES
  tasks,   \* the rows of the tasks
  plan,    \* the tasks of the plan
  page     \* what the tab shows: 'fresh' says that the version of the plan
           \* is still the one of the form, 'clicked' is history: the boxes
           \* were changed by clicks of the mouse only

formVars == <<tasks, plan, page>>

Page == [taskdict    : UNION {[ts -> TaskRows] : ts \in SUBSET Tasks},
         selectarray : BoundedSeq(Tasks, MaxSelected),
         checked     : SUBSET Tasks,
         pressed     : Tasks \cup {NoTask},
         of          : {"create", "show"},
         fresh       : BOOLEAN,
         clicked     : BOOLEAN]

managerTasks == {t \in Tasks : tasks[t] # Gone}

FormTypeOK ==
  /\ tasks \in [Tasks -> TaskRows \cup {Gone}]
  /\ plan = NoPlan \/ plan \in SUBSET managerTasks
  /\ page = Closed \/ page \in Page

FormInit ==
  /\ tasks \in [Tasks -> TaskRows]
  /\ plan = NoPlan
  /\ page = Closed

-----------------------------------------------------------------------------
(* The page.                                                               *)

Rows == [t \in managerTasks |-> tasks[t]]

(* The page as it is written: the tasks of the plan are selected, in the   *)
(* order of the query, and ticked.                                         *)
Load(of, chosen) ==
  \E order \in SetToSeqs(chosen) :
    page' = [taskdict |-> Rows, selectarray |-> order, checked |-> chosen,
             pressed |-> NoTask, of |-> of, fresh |-> TRUE, clicked |-> TRUE]

Open == page # Closed

ShowPlan ==
  /\ plan # NoPlan
  /\ Load("show", plan)
  /\ UNCHANGED <<tasks, plan>>

NewPlan ==
  /\ plan = NoPlan
  /\ Load("create", {})
  /\ UNCHANGED <<tasks, plan>>

Leave ==
  /\ page' = Closed
  /\ UNCHANGED <<tasks, plan>>

(* Mutant: what is removed is always the last one. *)
Pop(s, index) == IF s = <<>> THEN s ELSE Front(s)

(* Array.splice(index, 1): -1 is the last one. *)
Splice(s, index) ==
  IF s = <<>> THEN s ELSE RemoveAt(s, IF index = 0 THEN Len(s) ELSE index)

indexOf(s, t) == SelectInSeq(s, LAMBDA u : u = t)

(* The handler of mousedown, which runs before the box changes. *)
SelectedAfter(p, t) ==
  IF t \in p.checked THEN Splice(p.selectarray, indexOf(p.selectarray, t))
  ELSE Append(p.selectarray, t)

Toggle(set, t) == IF t \in set THEN set \ {t} ELSE set \cup {t}

Press(t) ==
  /\ Open /\ page.pressed = NoTask
  /\ t \in DOMAIN page.taskdict
  /\ Len(page.selectarray) < MaxSelected
  /\ page' = [page EXCEPT !.selectarray = SelectedAfter(page, t), !.pressed = t]
  /\ UNCHANGED <<tasks, plan>>

Click ==
  /\ Open /\ page.pressed # NoTask
  /\ page' = [page EXCEPT !.checked = Toggle(@, page.pressed), !.pressed = NoTask]
  /\ UNCHANGED <<tasks, plan>>

(* The button is released beside the box, or it is not the left one. *)
NoClick ==
  /\ Open /\ page.pressed # NoTask
  /\ page' = [page EXCEPT !.pressed = NoTask, !.clicked = FALSE]
  /\ UNCHANGED <<tasks, plan>>

SpaceBar(t) ==
  /\ Open /\ page.pressed = NoTask
  /\ t \in DOMAIN page.taskdict
  /\ page' = [page EXCEPT !.checked = Toggle(@, t), !.clicked = FALSE]
  /\ UNCHANGED <<tasks, plan>>

Event ==
  \/ \E t \in Tasks : Press(t) \/ SpaceBar(t)
  \/ Click \/ NoClick

-----------------------------------------------------------------------------
(* What the page computes from its array.                                  *)

Workloads(rows, s) == [i \in DOMAIN s |-> rows[s[i]].workload]

ShownWorkload(p) == workloadSum(Workloads(p.taskdict, p.selectarray))

taskCount(p) ==
  LET Number(public) ==
        Cardinality({i \in DOMAIN p.selectarray : p.taskdict[p.selectarray[i]].isPublic = public})
  IN  [public |-> Number(TRUE), private |-> Number(FALSE)]

Day(time) == time \div 24

Earliest(p) ==
  LET starts == {p.taskdict[t].start : t \in ToSet(p.selectarray)}
  IN  CHOOSE time \in starts : \A other \in starts : time <= other

(* Mutant: dates are not compared, the last one is taken. *)
LastEnd(p) == p.taskdict[Last(p.selectarray)].end

Latest(p) ==
  LET ends == {p.taskdict[t].end : t \in ToSet(p.selectarray)}
  IN  CHOOSE time \in ends : \A other \in ends : time >= other

(* At eight on the day before, at five in the afternoon on the day after. *)
dateSuggestions(p) ==
  [start |-> (Day(Earliest(p)) - 1) * 24 + 8, end |-> (Day(Latest(p)) + 1) * 24 + 17]

-----------------------------------------------------------------------------
(* Submitting it: the server looks at the boxes and at the rows.           *)

(* authorise(): every task still exists, and is the manager's. *)
MayChoose(newTasks) == newTasks \subseteq managerTasks

HidesPrivate(public, newTasks) == public => \A t \in newTasks : tasks[t].isPublic

ValidDates(start, end) == start < end

Covers(start, end, newTasks) ==
  \A t \in newTasks : start <= tasks[t].start /\ tasks[t].end <= end

Valid(public, start, end, newTasks) ==
  /\ HidesPrivate(public, newTasks)
  /\ ValidDates(start, end)
  /\ Covers(start, end, newTasks)

Ready == Open /\ page.pressed = NoTask

(* What is saved replaces the version that the form showed. *)
Saved ==
  /\ Ready /\ page.fresh
  /\ MayChoose(page.checked)
  /\ \E public \in BOOLEAN, start, end \in Times :
       Valid(public, start, end, page.checked)
  /\ plan' = page.checked
  /\ page' = Closed
  /\ UNCHANGED tasks

(* The page is written again, with the boxes as they were sent; a form     *)
(* that was stale stays so.                                                *)
Refused ==
  /\ Ready
  /\ MayChoose(page.checked)
  /\ \E public \in BOOLEAN, start, end \in Times :
       ~Valid(public, start, end, page.checked)
  /\ \E order \in SetToSeqs(page.checked) :
       page' = [page EXCEPT !.taskdict = Rows, !.selectarray = order, !.clicked = TRUE]
  /\ UNCHANGED <<tasks, plan>>

(* Authorisation fails, or the version is not the one of the row. *)
Fails ==
  /\ Ready
  /\ ~MayChoose(page.checked) \/ ~page.fresh
  /\ Leave

(* The other button: a deletion reads the id only. *)
PlanDeleted ==
  /\ Ready /\ page.of = "show"
  /\ plan' = NoPlan
  /\ page' = Closed
  /\ UNCHANGED tasks

-----------------------------------------------------------------------------
(* Tasks are edited and deleted with forms of their own.                   *)

EditTask ==
  \E t \in managerTasks, row \in TaskRows :
    /\ tasks' = [tasks EXCEPT ![t] = row]
    /\ UNCHANGED <<plan, page>>

(* Mutant: the plan keeps the task that is deleted. *)
PlanAsItIs(t) == plan

PlanWithout(t) == plan \ {t}

(* The plan that contains the task is saved without it, in a new version. *)
DeleteTask ==
  \E t \in managerTasks :
    /\ tasks' = [tasks EXCEPT ![t] = Gone]
    /\ IF plan # NoPlan /\ t \in plan
       THEN /\ plan' = PlanWithout(t)
            /\ page' = IF Open THEN [page EXCEPT !.fresh = FALSE] ELSE page
       ELSE UNCHANGED <<plan, page>>

-----------------------------------------------------------------------------
(* Correctness.                                                            *)

OnlyClicks == Ready /\ page.clicked

Current == page.taskdict = Rows

(* Whatever was clicked, in whatever order, and however often the form was *)
(* refused and written again: as long as the boxes are changed by clicks   *)
(* only, the array of the script holds each ticked task once and no other. *)
SelectionIsBoxes ==
  OnlyClicks => ToSet(page.selectarray) = page.checked /\ IsInjective(page.selectarray)

(* The workload that the page shows is the one the plan will have when it  *)
(* is saved, and the sum of the minutes, although script and entity take   *)
(* different texts of the workloads apart; unless a task was edited since  *)
(* the page was written.                                                   *)
ShownWorkloadIsSaved ==
  OnlyClicks /\ Current =>
    \A order \in SetToSeqs(page.checked) :
      LET saved == Workloads(tasks, order)
      IN  ShownWorkload(page) = getWorkload(saved) /\ getWorkload(saved) = ExactSum(saved)

(* Following the suggestions of the page is never refused: the suggested   *)
(* dates are a valid period for the boxes, and the plan may be public just *)
(* when the page counts no private task.                                   *)
SuggestionAccepted ==
  OnlyClicks /\ Current /\ page.selectarray # <<>> =>
    LET dates == dateSuggestions(page)
    IN  \A public \in BOOLEAN :
          Valid(public, dates.start, dates.end, page.checked)
            <=> (public => taskCount(page).private = 0)
=============================================================================
