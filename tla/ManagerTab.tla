------------------------------ MODULE ManagerTab ------------------------------
(***************************************************************************)
(* A tab of a manager's browser: PlanForm and Navigation together.  The    *)
(* form of the plan is one of the forms the tab may show; it is opened     *)
(* from the listing of plans, from the menu, or by going back to it, and   *)
(* what becomes of it decides where the tab goes.  Tasks are edited and    *)
(* deleted in other forms of this tab and in other tabs.  Administrators   *)
(* see averages over all tasks on their dashboard.                         *)
(***************************************************************************)
EXTENDS PlanForm, Navigation

CONSTANTS
  PlanListing,  \* the listing whose rows lead to the form of the plan
  OthersTasks   \* what the workloads of the tasks of other managers may be

ASSUME ListingAssumption == PlanListing \in Listings
ASSUME OthersAssumption == \A ms \in OthersTasks : ms \in Seq(Nat)

tabVars == <<formVars, navVars>>

(* The plan's form is shown just when the tab shows a form and it is that  *)
(* one.                                                                    *)
TypeOK ==
  /\ FormTypeOK
  /\ NavTypeOK
  /\ Open => at = Form

Init == FormInit /\ NavInit

-----------------------------------------------------------------------------

(* A form that is not the one of the plan. *)
OtherForm == at = Form /\ ~Open

OpenPlan == OpenRow(PlanListing) /\ ShowPlan

OpenOther == \E l \in Listings \ {PlanListing} : OpenRow(l) /\ UNCHANGED formVars

CreatePlan == MenuForm /\ NewPlan

CreateOther == MenuForm /\ Leave

ClickBoxes == Event /\ UNCHANGED navVars

SavePlan == SubmitDone /\ Saved

DeletePlan == SubmitDone /\ PlanDeleted

RefusePlan == SubmitRefused /\ Refused

FailPlan == Panic /\ Fails

DoOther == OtherForm /\ SubmitDone /\ (EditTask \/ DeleteTask)

FailOther == OtherForm /\ Panic /\ UNCHANGED formVars

Return == ReturnButton /\ Leave

Referred == RunReferrer /\ UNCHANGED formVars

Elsewhere ==
  /\ Leave
  /\ \/ \E place \in Places : Menu(place)
     \/ Footer(Home) \/ Footer(Other)
     \/ \E target \in Places \cup {Other, Form, Referrer} : Jump(target)

(* The browser requests the page again. *)
JumpToPlan == Jump(Form) /\ (ShowPlan \/ NewPlan)

OtherTab == (EditTask \/ DeleteTask) /\ UNCHANGED navVars

Next ==
  \/ OpenPlan \/ OpenOther \/ CreatePlan \/ CreateOther
  \/ ClickBoxes
  \/ SavePlan \/ DeletePlan \/ RefusePlan \/ FailPlan
  \/ DoOther \/ FailOther
  \/ Return \/ Referred \/ Elsewhere \/ JumpToPlan
  \/ OtherTab

Spec == Init /\ [][Next]_tabVars

-----------------------------------------------------------------------------
(* Correctness of the dashboard.  It depends on the tasks alone, so that   *)
(* it is enough to look at it when nothing else is in a special state.     *)

AtRest == at = Home /\ stack = <<>> /\ straight /\ plan = NoPlan

AllWorkloads ==
  {Workloads(tasks, SetToSeq(managerTasks)) \o others : others \in OthersTasks} \ {<<>>}

(* The decimal hours of n tasks exceed their durations by less than an     *)
(* hour each; as long as Floats add them up to a minute, the rounding is   *)
(* too small to change an hour.                                            *)
SmallRounding(ms) == Rounding(100 * (SumOf(ms) + 60 * Len(ms)), Len(ms)) <= 100

(* However many zeros are dropped and quotients truncated, the hours of    *)
(* the average that the dashboard shows are between the hours of the       *)
(* shortest and of the longest task, as long as the Floats add up well     *)
(* enough: 50 tasks of 99 hours, 150 of ten hours.                         *)
AverageHoursInRange ==
  AtRest => \A ms \in AllWorkloads : SmallRounding(ms) =>
    \A avg \in getAvarageWorkloads(ms) :
      /\ \E i \in DOMAIN ms : Hours(ms[i]) <= avg[1]
      /\ \E i \in DOMAIN ms : avg[1] <= Hours(ms[i])

(* Minutes whose decimal hours have two digits, of hours that leave a      *)
(* Float two digits for them.                                              *)
SafeMinutes(m) == Minutes(m) \notin 1..6 /\ Hours(m) < 131072

(* A zero that is dropped makes minutes ten times as many.  It happens to  *)
(* tasks of one to six minutes past the hour, and to averages below 10.6   *)
(* minutes past it.  All other averages are shown up to 1.6 minutes too    *)
(* low and never too high, but for the rounding of the Floats that are     *)
(* added up: of a few tasks a hundredth of a minute in all, of a thousand  *)
(* tasks of a hundred hours a third of a minute for each of them.          *)
AverageClose ==
  AtRest => \A ms \in AllWorkloads :
    LET n     == Len(ms)
        past  == SumOf(ms) % (60 * n)
        drift == Rounding(100 * SumOf(ms), n)
    IN  /\ \A i \in DOMAIN ms : SafeMinutes(ms[i])
        /\ 100 * past \in (1060 * n + drift)..(6000 * n - drift - 1)
        => \A avg \in getAvarageWorkloads(ms) :
             100 * (SumOf(ms) - n * (60 * avg[1] + avg[2])) \in (0 - drift)..(160 * n + drift)
=============================================================================
