--------------------------- MODULE ManagerTabProofs ---------------------------
(***************************************************************************)
(* Proofs about ManagerTab, for any number of tasks, rows and listings and *)
(* any length of the stack: a form returns where it was opened, and what   *)
(* it computes is computed from the boxes that are ticked.                 *)
(***************************************************************************)
EXTENDS ManagerTab, HourMinutesProofs, FunctionTheorems, SequenceTheorems, TLAPS

(* The tab moves as Navigation says, whatever its form does. *)
LEMMA TabNavigates == Next => NavNext \/ UNCHANGED navVars
<1> SUFFICES ASSUME Next PROVE NavNext \/ UNCHANGED navVars
  OBVIOUS
<1>1. CASE OpenPlan
  BY <1>1, ListingAssumption DEF OpenPlan, NavNext
<1>2. CASE OpenOther
  BY <1>2 DEF OpenOther, NavNext
<1>3. CASE CreatePlan \/ CreateOther
  BY <1>3 DEF CreatePlan, CreateOther, NavNext
<1>4. CASE ClickBoxes \/ OtherTab
  BY <1>4 DEF ClickBoxes, OtherTab
<1>5. CASE SavePlan \/ DeletePlan \/ DoOther
  BY <1>5 DEF SavePlan, DeletePlan, DoOther, NavNext
<1>6. CASE RefusePlan
  BY <1>6 DEF RefusePlan, NavNext
<1>7. CASE FailPlan \/ FailOther
  BY <1>7 DEF FailPlan, FailOther, NavNext
<1>8. CASE Return \/ Referred
  BY <1>8 DEF Return, Referred, NavNext
<1>9. CASE Elsewhere
  BY <1>9 DEF Elsewhere, NavNext
<1>10. CASE JumpToPlan
  BY <1>10 DEF JumpToPlan, NavNext
<1> QED
  BY <1>1, <1>2, <1>3, <1>4, <1>5, <1>6, <1>7, <1>8, <1>9, <1>10 DEF Next

(* While a form is open that was reached without going back or forward,    *)
(* the next address to be popped is the one where it was opened.           *)
NextReturn == straight /\ at \in {Form, Referrer} => Popped = origin

NavInv == NavTypeOK /\ NextReturn

LEMMA PoppedType == NavTypeOK => Popped \in Places /\ Remaining \in Seq(Listings)
BY DEF NavTypeOK, Popped, Remaining, Places, Last, Front

LEMMA NavInvInit == NavInit => NavInv
BY PagesAssumption DEF NavInit, NavInv, NavTypeOK, NextReturn, Places

LEMMA NavInvNext == NavInv /\ [NavNext]_navVars => NavInv'
<1> SUFFICES ASSUME NavInv, [NavNext]_navVars PROVE NavInv'
  OBVIOUS
<1> USE PagesAssumption
<1>1. ASSUME NEW place \in Places, Menu(place) PROVE NavInv'
  BY <1>1 DEF Menu, Forget, clearReturnUrl, NavInv, NavTypeOK, NextReturn, Places
<1>2. CASE MenuForm
  BY <1>2 DEF MenuForm, clearReturnUrl, Popped, NavInv, NavTypeOK, NextReturn, Places
<1>3. ASSUME NEW target, Footer(target) PROVE NavInv'
  BY <1>3 DEF Footer, Forget, NavInv, NavTypeOK, NextReturn, Places
<1>4. ASSUME NEW l \in Listings, OpenRow(l) PROVE NavInv'
  <2>1. /\ Append(stack, l) \in Seq(Listings)
        /\ Append(stack, l) # <<>>
        /\ Last(Append(stack, l)) = l
    BY DEF NavInv, NavTypeOK, Last
  <2> QED
    BY <1>4, <2>1 DEF OpenRow, pushReturnUrl, Popped, NavInv, NavTypeOK, NextReturn, Places
<1>5. CASE ReturnButton \/ RunReferrer
  BY <1>5, PoppedType DEF ReturnButton, RunReferrer, PopTo, Forget, NavInv, NavTypeOK,
                          NextReturn, Places
<1>6. CASE SubmitDone
  BY <1>6 DEF SubmitDone, Popped, NavInv, NavTypeOK, NextReturn
<1>7. CASE Panic
  BY <1>7 DEF Panic, Forget, NavInv, NavTypeOK, NextReturn, Places
<1>8. ASSUME NEW target \in Places \cup {Other, Form, Referrer}, Jump(target) PROVE NavInv'
  BY <1>8 DEF Jump, NavInv, NavTypeOK, NextReturn, Places
<1>9. CASE UNCHANGED navVars
  BY <1>9 DEF navVars, Popped, NavInv, NavTypeOK, NextReturn
<1>10. CASE SubmitRefused
  BY <1>9, <1>10 DEF SubmitRefused
<1> QED
  BY <1>1, <1>2, <1>3, <1>4, <1>5, <1>6, <1>7, <1>8, <1>9, <1>10 DEF NavNext

(* A form returns where it was opened, in a tab with the form of a plan as *)
(* in any other.                                                           *)
THEOREM FormsReturn == Spec => ReturnsToOrigin
<1>1. Init => NavInv
  BY NavInvInit DEF Init
<1>2. [Next]_tabVars => [NavNext]_navVars
  BY TabNavigates DEF tabVars
<1>3. NavInv /\ [Next]_tabVars => NavInv'
  BY <1>2, NavInvNext
<1>4. NavInv /\ [Next]_tabVars =>
        [straight /\ (ReturnButton \/ RunReferrer) => at' = origin]_navVars
  BY DEF ReturnButton, RunReferrer, PopTo, NavInv, NextReturn
<1> QED
  BY <1>1, <1>3, <1>4, PTL DEF Spec, ReturnsToOrigin

-----------------------------------------------------------------------------
(* The array of the form holds what its boxes say.                         *)

(* Taking out the place of an element leaves the others. *)
LEMMA SpliceRemoves ==
  ASSUME NEW S, NEW s \in Seq(S), IsInjective(s), NEW t \in ToSet(s)
  PROVE  /\ Splice(s, indexOf(s, t)) \in Seq(S)
         /\ IsInjective(Splice(s, indexOf(s, t)))
         /\ ToSet(Splice(s, indexOf(s, t))) = ToSet(s) \ {t}
<1>1. PICK k \in 1..Len(s) : s[k] = t
  BY DEF ToSet
<1> DEFINE places == {i \in 1..Len(s) : s[i] = t}
<1>2. places = {k}
  BY <1>1 DEF IsInjective
<1>3. Min(places) = k
  BY <1>1, <1>2 DEF Min
<1>4. indexOf(s, t) = k
  BY <1>2, <1>3 DEF indexOf, SelectInSeq
<1> DEFINE a == SubSeq(s, 1, k - 1)
           b == SubSeq(s, k + 1, Len(s))
           r == a \o b
<1>5. Splice(s, indexOf(s, t)) = r
  <2>1. s # <<>> /\ k # 0
    BY <1>1
  <2>2. Splice(s, k) = RemoveAt(s, k)
    BY <2>1 DEF Splice
  <2> QED
    BY <2>2, <1>4 DEF RemoveAt
<1>6. /\ r \in Seq(S)
      /\ Len(r) = Len(s) - 1
      /\ \A i \in 1..Len(r) : r[i] = IF i < k THEN s[i] ELSE s[i + 1]
  <2>1. /\ a \in Seq(S) /\ Len(a) = k - 1
        /\ \A i \in 1..(k - 1) : a[i] = s[i]
    BY <1>1, SubSeqProperties
  <2>2. /\ b \in Seq(S) /\ Len(b) = Len(s) - k
        /\ \A i \in 1..(Len(s) - k) : b[i] = s[k + i]
    BY <1>1, SubSeqProperties
  <2> HIDE DEF a, b
  <2>3. /\ r \in Seq(S) /\ Len(r) = Len(a) + Len(b)
        /\ \A i \in 1..Len(r) : r[i] = IF i <= Len(a) THEN a[i] ELSE b[i - Len(a)]
    <3>1. /\ r \in Seq(S) /\ Len(r) = Len(a) + Len(b)
          /\ \A i \in 1..(Len(a) + Len(b)) : r[i] = IF i <= Len(a) THEN a[i] ELSE b[i - Len(a)]
      <4> HIDE DEF r
      <4>1. r = a \o b
        BY DEF r
      <4> QED
        BY <4>1, <2>1, <2>2, ConcatProperties
    <3> HIDE DEF r
    <3> QED
      BY <3>1
  <2>4. ASSUME NEW i \in 1..Len(r) PROVE r[i] = IF i < k THEN s[i] ELSE s[i + 1]
    <3>1. CASE i < k
      BY <3>1, <2>1, <2>3, <1>1
    <3>2. CASE i >= k
      <4>1. i - (k - 1) \in 1..(Len(s) - k) /\ k + (i - (k - 1)) = i + 1
        BY <3>2, <2>1, <2>2, <2>3, <1>1
      <4>2. r[i] = b[i - (k - 1)]
        BY <3>2, <2>1, <2>3, <1>1
      <4> QED
        BY <3>2, <4>1, <4>2, <2>2, <1>1
    <3> QED
      BY <3>1, <3>2, <1>1, <2>1, <2>2, <2>3
  <2> QED
    BY <2>1, <2>2, <2>3, <2>4, <1>1
<1> HIDE DEF r
<1>7. IsInjective(r)
  <2>1. SUFFICES ASSUME NEW i \in 1..Len(r), NEW j \in 1..Len(r), r[i] = r[j]
                 PROVE  i = j
    BY <1>6 DEF IsInjective
  <2> DEFINE from(n) == IF n < k THEN n ELSE n + 1
  <2>2. from(i) \in 1..Len(s) /\ from(j) \in 1..Len(s)
    BY <1>6, <1>1
  <2>3. s[from(i)] = s[from(j)]
    BY <2>1, <1>6
  <2>4. from(i) = from(j)
    BY <2>2, <2>3 DEF IsInjective
  <2> QED
    BY <2>4, <1>1, <1>6
<1>8. ToSet(r) \subseteq ToSet(s) \ {t}
  BY <1>6, <1>1 DEF IsInjective, ToSet
<1>9. ASSUME NEW u \in ToSet(s) \ {t} PROVE u \in ToSet(r)
  <2>1. PICK j \in 1..Len(s) : s[j] = u
    BY <1>9 DEF ToSet
  <2>2. CASE j < k
    <3>1. j \in 1..Len(r) /\ r[j] = u
      BY <2>1, <2>2, <1>6, <1>1
    <3> QED
      BY <3>1, <1>6 DEF ToSet
  <2>3. CASE j > k
    <3>1. j - 1 \in 1..Len(r) /\ r[j - 1] = u
      BY <2>1, <2>3, <1>6, <1>1
    <3> QED
      BY <3>1, <1>6 DEF ToSet
  <2> QED
    BY <2>1, <2>2, <2>3, <1>1
<1> QED
  BY <1>5, <1>6, <1>7, <1>8, <1>9

LEMMA AppendAdds ==
  ASSUME NEW S, NEW s \in Seq(S), IsInjective(s), NEW t \in S, t \notin ToSet(s)
  PROVE  /\ Append(s, t) \in Seq(S)
         /\ IsInjective(Append(s, t))
         /\ ToSet(Append(s, t)) = ToSet(s) \cup {t}
<1> DEFINE r == Append(s, t)
<1>1. /\ r \in Seq(S)
      /\ Len(r) = Len(s) + 1
      /\ \A i \in 1..Len(r) : r[i] = IF i <= Len(s) THEN s[i] ELSE t
  OBVIOUS
<1>2. IsInjective(r)
  BY <1>1 DEF IsInjective, ToSet
<1>3. ToSet(r) \subseteq ToSet(s) \cup {t}
  BY <1>1 DEF ToSet
<1>4. t \in ToSet(r)
  BY <1>1 DEF ToSet
<1>5. ASSUME NEW u \in ToSet(s) PROVE u \in ToSet(r)
  <2>1. PICK j \in 1..Len(s) : s[j] = u
    BY <1>5 DEF ToSet
  <2>2. j \in 1..Len(r) /\ r[j] = u
    BY <2>1, <1>1
  <2> QED
    BY <2>2, <1>1 DEF ToSet
<1> QED
  BY <1>1, <1>2, <1>3, <1>4, <1>5

(* The page is written with each task once, whatever the order. *)
LEMMA OrdersAreInjective ==
  ASSUME NEW S, IsFiniteSet(S), NEW s \in SetToSeqs(S)
  PROVE  s \in Seq(S) /\ IsInjective(s) /\ ToSet(s) = S
<1> DEFINE n == Cardinality(S)
<1>1. n \in Nat
  BY FS_CardinalityType
<1>2. s \in [1..n -> S] /\ \A i, j \in 1..n : i # j => s[i] # s[j]
  BY DEF SetToSeqs
<1>3. s \in Seq(S) /\ IsInjective(s)
  BY <1>1, <1>2 DEF IsInjective
<1>4. IsFiniteSet(1..n) /\ Cardinality(1..n) = n
  BY <1>1, FS_Interval
<1>5. ASSUME NEW x \in S, x \notin ToSet(s) PROVE FALSE
  <2>1. IsFiniteSet(S \ {x}) /\ Cardinality(S \ {x}) = n - 1
    BY FS_RemoveElement
  <2>2. s \in [1..n -> S \ {x}]
    BY <1>2, <1>5 DEF ToSet
  <2>3. \E i, j \in 1..n : i # j /\ s[i] = s[j]
    BY <1>1, <1>4, <2>1, <2>2, FS_PigeonHole
  <2> QED
    BY <2>3, <1>2
<1>6. ToSet(s) \subseteq S
  BY <1>2 DEF ToSet
<1> QED
  BY <1>3, <1>5, <1>6

(* Taking out some place, as it happens when boxes and array disagree. *)
LEMMA SpliceTyped ==
  ASSUME NEW S, NEW s \in Seq(S), NEW t
  PROVE  /\ Splice(s, indexOf(s, t)) \in Seq(S)
         /\ Len(Splice(s, indexOf(s, t))) <= Len(s)
<1> DEFINE places == {i \in 1..Len(s) : s[i] = t}
<1>1. indexOf(s, t) \in 0..Len(s)
  <2>1. CASE places = {}
    BY <2>1 DEF indexOf, SelectInSeq
  <2>2. CASE places # {}
    <3>1. \E m \in places : \A n \in places : m <= n
      <4>1. places \subseteq Nat
        OBVIOUS
      <4> HIDE DEF places
      <4> QED
        BY <2>2, <4>1, LeastNatural
    <3>2. Min(places) \in places
      BY <3>1 DEF Min
    <3>3. indexOf(s, t) = Min(places)
      BY <2>2 DEF indexOf, SelectInSeq
    <3> QED
      BY <3>2, <3>3
  <2> QED
    BY <2>1, <2>2
<1>2. CASE s = <<>>
  BY <1>2 DEF Splice
<1>3. CASE s # <<>>
  <2>1. PICK k \in 1..Len(s) : Splice(s, indexOf(s, t)) = RemoveAt(s, k)
    BY <1>1, <1>3 DEF Splice
  <2> DEFINE a == SubSeq(s, 1, k - 1)
             b == SubSeq(s, k + 1, Len(s))
  <2>2. a \in Seq(S) /\ Len(a) = k - 1
    BY <2>1, SubSeqProperties
  <2>3. b \in Seq(S) /\ Len(b) = Len(s) - k
    BY <2>1, SubSeqProperties
  <2> HIDE DEF a, b
  <2>4. a \o b \in Seq(S) /\ Len(a \o b) = Len(s) - 1
    BY <2>1, <2>2, <2>3
  <2>5. RemoveAt(s, k) = a \o b
    BY DEF RemoveAt, a, b
  <2>6. PICK r : r = RemoveAt(s, k) /\ r \in Seq(S) /\ Len(r) = Len(s) - 1
    BY <2>4, <2>5
  <2>7. Splice(s, indexOf(s, t)) = r
    BY <2>1, <2>6
  <2> QED
    BY <2>6, <2>7
<1> QED
  BY <1>2, <1>3

(* What a page is.  In between pressing and releasing, the array is ahead  *)
(* of the box.                                                             *)
PageShape ==
  page = [taskdict |-> page.taskdict, selectarray |-> page.selectarray,
          checked |-> page.checked, pressed |-> page.pressed, of |-> page.of,
          fresh |-> page.fresh, clicked |-> page.clicked]

PageFields ==
  /\ DOMAIN page.taskdict \subseteq Tasks
  /\ page.taskdict \in [DOMAIN page.taskdict -> TaskRows]
  /\ page.selectarray \in Seq(Tasks) /\ Len(page.selectarray) <= MaxSelected
  /\ page.checked \subseteq DOMAIN page.taskdict
  /\ page.pressed \in DOMAIN page.taskdict \cup {NoTask}
  /\ page.of \in {"create", "show"} /\ page.fresh \in BOOLEAN /\ page.clicked \in BOOLEAN

Ahead == IF page.pressed = NoTask THEN page.checked ELSE Toggle(page.checked, page.pressed)

ArrayInv ==
  page.clicked => IsInjective(page.selectarray) /\ ToSet(page.selectarray) = Ahead

PageInv == Open => PageShape /\ PageFields /\ ArrayInv

RowsInv ==
  /\ tasks \in [Tasks -> TaskRows \cup {Gone}]
  /\ plan = NoPlan \/ plan \subseteq managerTasks

FormInv == RowsInv /\ PageInv

FormStep ==
  \/ ShowPlan \/ NewPlan \/ Leave \/ Event
  \/ Saved \/ Refused \/ PlanDeleted \/ EditTask \/ DeleteTask

LEMMA TabFillsForm == Next => FormStep \/ UNCHANGED formVars
<1> SUFFICES ASSUME Next PROVE FormStep \/ UNCHANGED formVars
  OBVIOUS
<1> USE DEF FormStep
<1>1. CASE OpenPlan \/ OpenOther \/ CreatePlan \/ CreateOther
  BY <1>1 DEF OpenPlan, OpenOther, CreatePlan, CreateOther
<1>2. CASE ClickBoxes \/ OtherTab \/ DoOther \/ FailOther
  BY <1>2 DEF ClickBoxes, OtherTab, DoOther, FailOther
<1>3. CASE SavePlan \/ DeletePlan \/ RefusePlan \/ FailPlan
  BY <1>3 DEF SavePlan, DeletePlan, RefusePlan, FailPlan, Fails
<1>4. CASE Return \/ Referred \/ Elsewhere \/ JumpToPlan
  BY <1>4 DEF Return, Referred, Elsewhere, JumpToPlan
<1> QED
  BY <1>1, <1>2, <1>3, <1>4 DEF Next

(* The rows with which a page is written, and the order of its array. *)
LEMMA RowsTyped ==
  ASSUME RowsInv
  PROVE  DOMAIN Rows = managerTasks /\ managerTasks \subseteq Tasks
         /\ Rows \in [managerTasks -> TaskRows]
BY DEF RowsInv, Rows, managerTasks

LEMMA OrderFits ==
  ASSUME NEW chosen, chosen \subseteq Tasks, NEW order \in SetToSeqs(chosen)
  PROVE  /\ order \in Seq(Tasks) /\ Len(order) <= MaxSelected
         /\ IsInjective(order) /\ ToSet(order) = chosen
<1>1. IsFiniteSet(chosen) /\ Cardinality(chosen) <= Cardinality(Tasks)
  BY TaskRowsAssumption, FS_Subset
<1>2. order \in Seq(chosen) /\ IsInjective(order) /\ ToSet(order) = chosen
  BY <1>1, OrdersAreInjective
<1>3. Cardinality(chosen) \in Nat /\ Cardinality(Tasks) \in Nat /\ MaxSelected \in Nat
  BY <1>1, TaskRowsAssumption, FS_CardinalityType
<1>4. Len(order) = Cardinality(chosen)
  BY <1>2, <1>3 DEF SetToSeqs
<1> QED
  BY <1>1, <1>2, <1>3, <1>4, TaskRowsAssumption

(* The page as it is written. *)
LEMMA LoadedInv ==
  ASSUME NEW of \in {"create", "show"}, NEW chosen, chosen \subseteq managerTasks,
         RowsInv, Load(of, chosen)
  PROVE  PageInv'
<1>1. PICK order \in SetToSeqs(chosen) :
        page' = [taskdict |-> Rows, selectarray |-> order, checked |-> chosen,
                 pressed |-> NoTask, of |-> of, fresh |-> TRUE, clicked |-> TRUE]
  BY DEF Load
<1>2. PICK rows : rows = Rows
  OBVIOUS
<1>3. DOMAIN rows = managerTasks /\ managerTasks \subseteq Tasks
      /\ rows \in [managerTasks -> TaskRows]
  BY <1>2, RowsTyped
<1>4. /\ order \in Seq(Tasks) /\ Len(order) <= MaxSelected
      /\ IsInjective(order) /\ ToSet(order) = chosen
  BY <1>3, OrderFits
<1>5. /\ page'.taskdict = rows /\ page'.selectarray = order /\ page'.checked = chosen
      /\ page'.pressed = NoTask /\ page'.of = of /\ page'.fresh = TRUE
      /\ page'.clicked = TRUE
  BY <1>1, <1>2
<1>6. PageShape'
  BY <1>1 DEF PageShape
<1>7. PageFields'
  BY <1>3, <1>4, <1>5 DEF PageFields
<1>8. ArrayInv'
  BY <1>4, <1>5 DEF ArrayInv, Ahead
<1> QED
  BY <1>6, <1>7, <1>8 DEF PageInv

LEMMA PressKeeps ==
  ASSUME PageInv, NEW t \in Tasks, Press(t)
  PROVE  PageInv'
<1>1. /\ PageShape /\ PageFields /\ ArrayInv /\ page.pressed = NoTask
      /\ t \in DOMAIN page.taskdict /\ t # NoTask
      /\ Len(page.selectarray) < MaxSelected
      /\ page' = [page EXCEPT !.selectarray = SelectedAfter(page, t), !.pressed = t]
  BY TaskRowsAssumption DEF Press, PageInv
<1>2. PICK array : array = SelectedAfter(page, t)
  OBVIOUS
<1>3. /\ PageShape'
      /\ page'.selectarray = array /\ page'.pressed = t
      /\ page'.taskdict = page.taskdict /\ page'.checked = page.checked
      /\ page'.of = page.of /\ page'.fresh = page.fresh /\ page'.clicked = page.clicked
  BY <1>1, <1>2 DEF PageShape
<1>4. array \in Seq(Tasks) /\ Len(array) <= MaxSelected
  <2>1. page.selectarray \in Seq(Tasks) /\ Len(page.selectarray) \in Nat
    BY <1>1 DEF PageFields
  <2>2. CASE t \in page.checked
    BY <1>1, <1>2, <2>1, <2>2, SpliceTyped, TaskRowsAssumption DEF SelectedAfter
  <2>3. CASE t \notin page.checked
    BY <1>1, <1>2, <2>1, <2>3, TaskRowsAssumption DEF SelectedAfter
  <2> QED
    BY <2>2, <2>3
<1>5. PageFields'
  BY <1>1, <1>3, <1>4 DEF PageFields
<1>6. ASSUME page.clicked
      PROVE  IsInjective(array) /\ ToSet(array) = Toggle(page.checked, t)
  <2>1. /\ page.selectarray \in Seq(Tasks)
        /\ IsInjective(page.selectarray)
        /\ ToSet(page.selectarray) = page.checked
    BY <1>1, <1>6 DEF PageFields, ArrayInv, Ahead
  <2>2. CASE t \in page.checked
    BY <1>2, <2>1, <2>2, SpliceRemoves DEF SelectedAfter, Toggle
  <2>3. CASE t \notin page.checked
    BY <1>2, <2>1, <2>3, AppendAdds DEF SelectedAfter, Toggle
  <2> QED
    BY <2>2, <2>3
<1>7. ArrayInv'
  BY <1>1, <1>3, <1>6 DEF ArrayInv, Ahead
<1> QED
  BY <1>3, <1>5, <1>7 DEF PageInv

LEMMA ClickKeeps ==
  ASSUME PageInv, Click
  PROVE  PageInv'
<1>1. /\ PageShape /\ PageFields /\ ArrayInv /\ page.pressed # NoTask
      /\ page' = [page EXCEPT !.checked = Toggle(@, page.pressed), !.pressed = NoTask]
  BY DEF Click, PageInv
<1>2. /\ PageShape'
      /\ page'.checked = Toggle(page.checked, page.pressed) /\ page'.pressed = NoTask
      /\ page'.taskdict = page.taskdict /\ page'.selectarray = page.selectarray
      /\ page'.of = page.of /\ page'.fresh = page.fresh /\ page'.clicked = page.clicked
  BY <1>1 DEF PageShape
<1>3. PageFields'
  BY <1>1, <1>2 DEF PageFields, Toggle
<1>4. Ahead' = Ahead
  BY <1>1, <1>2 DEF Ahead
<1> QED
  BY <1>1, <1>2, <1>3, <1>4 DEF PageInv, ArrayInv

LEMMA UnclickedKeeps ==
  ASSUME PageInv, NoClick \/ \E t \in Tasks : SpaceBar(t)
  PROVE  PageInv'
<1> DEFINE Unclicked(checked) ==
             [taskdict |-> page.taskdict, selectarray |-> page.selectarray,
              checked |-> checked, pressed |-> NoTask, of |-> page.of,
              fresh |-> page.fresh, clicked |-> FALSE]
<1>1. /\ PageShape /\ PageFields
      /\ \E checked : checked \subseteq DOMAIN page.taskdict /\ page' = Unclicked(checked)
  <2>1. CASE NoClick
    <3>1. PageShape /\ PageFields /\ page.checked \subseteq DOMAIN page.taskdict
      BY <2>1 DEF NoClick, PageInv, PageFields
    <3>2. page' = [page EXCEPT !.pressed = NoTask, !.clicked = FALSE]
      BY <2>1 DEF NoClick
    <3>3. page' = Unclicked(page.checked)
      BY <3>1, <3>2 DEF PageShape
    <3> QED
      BY <3>1, <3>3
  <2>2. ASSUME NEW t \in Tasks, SpaceBar(t)
        PROVE  /\ PageShape /\ PageFields
               /\ Toggle(page.checked, t) \subseteq DOMAIN page.taskdict
               /\ page' = Unclicked(Toggle(page.checked, t))
    <3>1. PageShape /\ PageFields /\ t \in DOMAIN page.taskdict
      BY <2>2 DEF SpaceBar, PageInv
    <3>2. Toggle(page.checked, t) \subseteq DOMAIN page.taskdict
      BY <3>1 DEF PageFields, Toggle
    <3>3. page.pressed = NoTask
      BY <2>2 DEF SpaceBar, Ready
    <3>4. PICK boxes : boxes = Toggle(page.checked, t)
      OBVIOUS
    <3>5. page' = [page EXCEPT !.checked = boxes, !.clicked = FALSE]
      BY <2>2, <3>4 DEF SpaceBar
    <3>6. page' = Unclicked(boxes)
      BY <3>1, <3>3, <3>5 DEF PageShape
    <3> QED
      BY <3>1, <3>2, <3>4, <3>6
  <2> QED
    BY <2>1, <2>2
<1>2. PICK checked : checked \subseteq DOMAIN page.taskdict /\ page' = Unclicked(checked)
  BY <1>1
<1>3. /\ PageShape'
      /\ page'.checked = checked /\ page'.pressed = NoTask /\ page'.clicked = FALSE
      /\ page'.taskdict = page.taskdict /\ page'.selectarray = page.selectarray
      /\ page'.of = page.of /\ page'.fresh = page.fresh
  BY <1>2 DEF PageShape
<1>4. PageFields'
  BY <1>1, <1>2, <1>3 DEF PageFields
<1> QED
  BY <1>3, <1>4 DEF PageInv, ArrayInv

LEMMA RefusedKeeps ==
  ASSUME RowsInv, PageInv, Refused
  PROVE  PageInv'
<1>1. /\ PageShape /\ PageFields /\ page.pressed = NoTask
      /\ page.checked \subseteq managerTasks
  BY DEF Refused, Ready, MayChoose, PageInv
<1>2. PICK order \in SetToSeqs(page.checked) :
        page' = [page EXCEPT !.taskdict = Rows, !.selectarray = order, !.clicked = TRUE]
  BY DEF Refused
<1>3. PICK rows : rows = Rows
  OBVIOUS
<1>4. DOMAIN rows = managerTasks /\ managerTasks \subseteq Tasks
      /\ rows \in [managerTasks -> TaskRows]
  BY <1>3, RowsTyped
<1>5. /\ order \in Seq(Tasks) /\ Len(order) <= MaxSelected
      /\ IsInjective(order) /\ ToSet(order) = page.checked
  <2>1. PICK chosen : chosen = page.checked
    OBVIOUS
  <2> QED
    BY <1>1, <1>4, <2>1, OrderFits
<1>6. /\ PageShape'
      /\ page'.taskdict = rows /\ page'.selectarray = order /\ page'.clicked = TRUE
      /\ page'.checked = page.checked /\ page'.pressed = NoTask
      /\ page'.of = page.of /\ page'.fresh = page.fresh
  BY <1>1, <1>2, <1>3 DEF PageShape
<1>7. PageFields'
  BY <1>1, <1>4, <1>5, <1>6 DEF PageFields
<1>8. ArrayInv'
  BY <1>5, <1>6 DEF ArrayInv, Ahead
<1> QED
  BY <1>6, <1>7, <1>8 DEF PageInv

LEMMA DeleteTaskKeeps ==
  ASSUME FormInv, DeleteTask
  PROVE  FormInv'
<1>1. PICK t \in managerTasks :
        /\ tasks' = [tasks EXCEPT ![t] = Gone]
        /\ IF plan # NoPlan /\ t \in plan
           THEN /\ plan' = PlanWithout(t)
                /\ page' = IF Open THEN [page EXCEPT !.fresh = FALSE] ELSE page
           ELSE UNCHANGED <<plan, page>>
  BY DEF DeleteTask
<1>2. RowsInv'
  <2>1. managerTasks' = managerTasks \ {t} /\ tasks' \in [Tasks -> TaskRows \cup {Gone}]
    BY <1>1 DEF FormInv, RowsInv, managerTasks
  <2>2. plan' = NoPlan \/ plan' \subseteq managerTasks \ {t}
    BY <1>1 DEF FormInv, RowsInv, PlanWithout
  <2> QED
    BY <2>1, <2>2 DEF RowsInv
<1>3. PageInv'
  <2>1. CASE page' = page
    BY <2>1 DEF FormInv, PageInv, Open, PageShape, PageFields, ArrayInv, Ahead
  <2>2. CASE Open /\ page' = [page EXCEPT !.fresh = FALSE]
    <3>1. PageShape /\ PageFields /\ ArrayInv
      BY <2>2 DEF FormInv, PageInv
    <3>2. /\ PageShape' /\ page'.fresh = FALSE
          /\ page'.selectarray = page.selectarray /\ page'.checked = page.checked
          /\ page'.pressed = page.pressed /\ page'.clicked = page.clicked
          /\ page'.taskdict = page.taskdict /\ page'.of = page.of
      BY <2>2, <3>1 DEF PageShape
    <3>3. PageFields'
      BY <3>1, <3>2 DEF PageFields
    <3>4. ArrayInv'
      BY <3>1, <3>2 DEF ArrayInv, Ahead
    <3> QED
      BY <3>2, <3>3, <3>4 DEF PageInv
  <2> QED
    BY <1>1, <2>1, <2>2
<1> QED
  BY <1>2, <1>3 DEF FormInv

(* A page that is closed or left as it is. *)
LEMMA PageStays ==
  ASSUME PageInv, page' \in {page, Closed}
  PROVE  PageInv'
BY DEF PageInv, Open, PageShape, PageFields, ArrayInv, Ahead

LEMMA FormInvNext == FormInv /\ [FormStep]_formVars => FormInv'
<1> SUFFICES ASSUME FormInv, [FormStep]_formVars PROVE FormInv'
  OBVIOUS
<1>1. ASSUME UNCHANGED <<tasks, plan>> PROVE RowsInv'
  BY <1>1 DEF FormInv, RowsInv, managerTasks
<1>2. CASE ShowPlan
  <2>1. RowsInv /\ plan \subseteq managerTasks /\ Load("show", plan)
    BY <1>2 DEF ShowPlan, FormInv, RowsInv
  <2> QED
    BY <1>1, <1>2, <2>1, LoadedInv DEF ShowPlan, FormInv
<1>3. CASE NewPlan
  BY <1>1, <1>3, LoadedInv DEF NewPlan, FormInv
<1>4. CASE Leave
  BY <1>1, <1>4, PageStays DEF Leave, FormInv
<1>5. CASE Event
  <2>1. UNCHANGED <<tasks, plan>>
    BY <1>5 DEF Event, Press, SpaceBar, Click, NoClick
  <2>2. PageInv'
    BY <1>5, PressKeeps, ClickKeeps, UnclickedKeeps DEF Event, FormInv
  <2> QED
    BY <1>1, <2>1, <2>2 DEF FormInv
<1>6. CASE Saved
  <2>1. RowsInv'
    BY <1>6 DEF Saved, MayChoose, FormInv, RowsInv, managerTasks
  <2> QED
    BY <1>6, <2>1, PageStays DEF Saved, FormInv
<1>7. CASE Refused
  BY <1>1, <1>7, RefusedKeeps DEF Refused, FormInv
<1>8. CASE PlanDeleted
  <2>1. RowsInv'
    BY <1>8 DEF PlanDeleted, FormInv, RowsInv, managerTasks
  <2> QED
    BY <1>8, <2>1, PageStays DEF PlanDeleted, FormInv
<1>9. CASE EditTask
  <2>1. PICK t \in managerTasks, row \in TaskRows :
          tasks' = [tasks EXCEPT ![t] = row] /\ UNCHANGED <<plan, page>>
    BY <1>9 DEF EditTask
  <2>2. managerTasks' = managerTasks /\ tasks' \in [Tasks -> TaskRows \cup {Gone}]
    BY <2>1, TaskRowsAssumption DEF FormInv, RowsInv, managerTasks
  <2>3. RowsInv'
    BY <2>1, <2>2 DEF FormInv, RowsInv
  <2> QED
    BY <2>1, <2>3, PageStays DEF FormInv
<1>10. CASE DeleteTask
  BY <1>10, DeleteTaskKeeps
<1>11. CASE UNCHANGED formVars
  BY <1>1, <1>11, PageStays DEF formVars, FormInv
<1> QED
  BY <1>2, <1>3, <1>4, <1>5, <1>6, <1>7, <1>8, <1>9, <1>10, <1>11 DEF FormStep

(* The inductive invariant of the form: pages, their arrays and the rows   *)
(* of the tasks fit together.                                              *)
THEOREM FormInvariance == Spec => []FormInv
<1>1. Init => FormInv
  BY DEF Init, FormInit, FormInv, RowsInv, PageInv, Open, managerTasks
<1>2. [Next]_tabVars => [FormStep]_formVars
  BY TabFillsForm DEF tabVars
<1>3. FormInv /\ [Next]_tabVars => FormInv'
  BY <1>2, FormInvNext
<1> QED
  BY <1>1, <1>3, PTL DEF Spec

(* The array of the script and the boxes agree, for any number of tasks    *)
(* and any sequence of clicks, refusals and returns to the form.           *)
THEOREM SelectionAgrees == Spec => []SelectionIsBoxes
<1>1. FormInv => SelectionIsBoxes
  BY DEF FormInv, PageInv, ArrayInv, Ahead, SelectionIsBoxes, OnlyClicks, Ready
<1> QED
  BY <1>1, FormInvariance, PTL

(* A form is filled in only while the tab shows one. *)
LEMMA FormIsShown ==
  ASSUME Open => at = Form, [Next]_tabVars
  PROVE  (Open => at = Form)'
<1> USE PagesAssumption
<1>1. CASE OpenPlan \/ OpenOther
  BY <1>1 DEF OpenPlan, OpenOther, OpenRow
<1>2. CASE CreatePlan \/ CreateOther \/ JumpToPlan
  BY <1>2 DEF CreatePlan, CreateOther, MenuForm, JumpToPlan, Jump
<1>3. CASE ClickBoxes
  BY <1>3 DEF ClickBoxes, navVars, Event, Press, SpaceBar, Click, NoClick, Open
<1>4. CASE SavePlan \/ DeletePlan \/ FailPlan
  BY <1>4 DEF SavePlan, DeletePlan, FailPlan, Saved, PlanDeleted, Fails, Leave, Open
<1>5. CASE RefusePlan
  BY <1>5 DEF RefusePlan, SubmitRefused, navVars
<1>6. ASSUME EditTask \/ DeleteTask PROVE Open' => Open
  BY <1>6 DEF EditTask, DeleteTask, Open
<1>7. CASE DoOther \/ OtherTab
  BY <1>6, <1>7 DEF DoOther, OtherForm, OtherTab, navVars
<1>8. CASE FailOther
  BY <1>8 DEF FailOther, OtherForm, formVars, Open
<1>9. CASE Return \/ Elsewhere
  BY <1>9 DEF Return, Elsewhere, Leave, Open
<1>10. CASE Referred
  BY <1>10 DEF Referred, RunReferrer, formVars, Open
<1>11. CASE UNCHANGED tabVars
  BY <1>11 DEF tabVars, formVars, navVars, Open
<1> QED
  BY <1>1, <1>2, <1>3, <1>4, <1>5, <1>7, <1>8, <1>9, <1>10, <1>11 DEF Next

(* Whatever the user does, the tab and its form are well typed, and the    *)
(* array of the script is never longer than there are tasks to select and  *)
(* room in the model.                                                      *)
THEOREM TypesHold == Spec => []TypeOK
<1>1. Init => NavInv /\ (Open => at = Form)
  BY NavInvInit DEF Init, FormInit, Open
<1>2. NavInv /\ [Next]_tabVars => NavInv'
  BY NavInvNext, TabNavigates DEF tabVars
<1>3. (Open => at = Form) /\ [Next]_tabVars => (Open => at = Form)'
  BY FormIsShown
<1>4. ASSUME FormInv, Open PROVE page \in Page
  <2>1. PageShape /\ PageFields
    BY <1>4 DEF FormInv, PageInv
  <2>2. page.taskdict \in UNION {[ts -> TaskRows] : ts \in SUBSET Tasks}
    BY <2>1 DEF PageFields
  <2>3. page.selectarray \in BoundedSeq(Tasks, MaxSelected)
    <3>1. PICK s : s = page.selectarray
      OBVIOUS
    <3>2. s \in [1..Len(s) -> Tasks] /\ Len(s) \in 0..MaxSelected
      BY <2>1, <3>1, LenProperties, TaskRowsAssumption DEF PageFields
    <3> QED
      BY <3>1, <3>2 DEF BoundedSeq, SeqOf
  <2>4. page.checked \in SUBSET Tasks /\ page.pressed \in Tasks \cup {NoTask}
    BY <2>1 DEF PageFields
  <2> QED
    BY <2>1, <2>2, <2>3, <2>4 DEF PageShape, PageFields, Page
<1>5. FormInv /\ NavInv /\ (Open => at = Form) => TypeOK
  BY <1>4 DEF TypeOK, FormTypeOK, FormInv, RowsInv, NavInv, Open
<1> QED
  BY <1>1, <1>2, <1>3, <1>5, FormInvariance, PTL DEF Spec

-----------------------------------------------------------------------------
(* What the page computes.                                                 *)

(* A page that is up to date and was only clicked shows the boxes, with    *)
(* the rows that the tasks have.                                           *)
LEMMA ShownAsSaved ==
  ASSUME FormInv, OnlyClicks, Current
  PROVE  /\ page.selectarray \in Seq(Tasks) /\ IsInjective(page.selectarray)
         /\ ToSet(page.selectarray) = page.checked
         /\ page.checked \subseteq managerTasks /\ IsFiniteSet(page.checked)
         /\ \A t \in page.checked : page.taskdict[t] = tasks[t] /\ tasks[t] \in TaskRows
<1>1. PageFields /\ ArrayInv /\ page.pressed = NoTask /\ page.clicked
  BY DEF FormInv, PageInv, OnlyClicks, Ready
<1>2. /\ DOMAIN page.taskdict = managerTasks /\ managerTasks \subseteq Tasks
      /\ \A t \in managerTasks : page.taskdict[t] = tasks[t] /\ tasks[t] \in TaskRows
  BY DEF Current, Rows, FormInv, RowsInv, managerTasks
<1>3. page.checked \subseteq managerTasks
  BY <1>1, <1>2 DEF PageFields
<1>4. IsFiniteSet(page.checked)
  BY <1>2, <1>3, TaskRowsAssumption, FS_Subset
<1> QED
  BY <1>1, <1>2, <1>3, <1>4 DEF PageFields, ArrayInv, Ahead

(* The days around two moments. *)
LEMMA DaysAround ==
  ASSUME NEW time \in Nat
  PROVE  /\ (Day(time) - 1) * 24 + 8 \in Int /\ (Day(time) - 1) * 24 + 8 <= time
         /\ (Day(time) + 1) * 24 + 17 \in Int /\ time < (Day(time) + 1) * 24 + 17
BY DEF Day

(* Whatever rows the tasks have, following the suggestions of the page is  *)
(* not refused.                                                            *)
THEOREM SuggestionsAreAccepted == Spec => []SuggestionAccepted
<1>1. ASSUME FormInv, OnlyClicks, Current, page.selectarray # <<>>, NEW public \in BOOLEAN
      PROVE  Valid(public, dateSuggestions(page).start, dateSuggestions(page).end, page.checked)
               <=> (public => taskCount(page).private = 0)
  <2> DEFINE array  == page.selectarray
             boxes  == page.checked
             starts == {page.taskdict[t].start : t \in ToSet(page.selectarray)}
             ends   == {page.taskdict[t].end : t \in ToSet(page.selectarray)}
  <2>1. /\ array \in Seq(Tasks) /\ ToSet(array) = boxes
        /\ boxes \subseteq managerTasks /\ IsFiniteSet(boxes)
        /\ \A t \in boxes : page.taskdict[t] = tasks[t] /\ tasks[t] \in TaskRows
    BY <1>1, ShownAsSaved
  <2>2. \A t \in boxes : /\ tasks[t].start \in Nat /\ tasks[t].end \in Nat
                         /\ tasks[t].start < tasks[t].end /\ tasks[t].isPublic \in BOOLEAN
    BY <2>1, TaskRowsAssumption
  <2>3. PICK first \in boxes : TRUE
    <3>1. array[1] \in ToSet(array)
      BY <1>1, <2>1 DEF ToSet
    <3> QED
      BY <2>1, <3>1
  <2>4. /\ starts = {tasks[t].start : t \in boxes} /\ ends = {tasks[t].end : t \in boxes}
        /\ starts \subseteq Nat /\ ends \subseteq Nat
        /\ tasks[first].start \in starts /\ tasks[first].end \in ends
    BY <2>1, <2>2, <2>3
  <2>5. PICK e : /\ e = Earliest(page) /\ e \in Nat
                 /\ \A t \in boxes : e <= tasks[t].start
    <3>1. \E m \in starts : \A n \in starts : m <= n
      <4> HIDE DEF starts
      <4> QED
        BY <2>4, LeastNatural
    <3>2. Earliest(page) \in starts /\ \A n \in starts : Earliest(page) <= n
      BY <3>1 DEF Earliest
    <3> QED
      BY <2>4, <3>2
  <2>6. PICK l : /\ l = Latest(page) /\ l \in Nat
                 /\ \A t \in boxes : tasks[t].end <= l
    <3>1. IsFiniteSet(ends)
      <4>1. PICK f : f = [t \in boxes |-> tasks[t].end]
        OBVIOUS
      <4>2. f \in Surjection(boxes, ends)
        BY <2>4, <4>1 DEF Surjection
      <4> QED
        BY <2>1, <4>2, FS_Surjection
    <3>2. \E m \in ends : \A n \in ends : n <= m
      <4> HIDE DEF ends
      <4> QED
        BY <2>4, <3>1, GreatestNatural
    <3>3. \E m \in ends : \A n \in ends : m >= n
      BY <2>4, <3>2
    <3>4. Latest(page) \in ends /\ \A n \in ends : Latest(page) >= n
      BY <3>3 DEF Latest
    <3> QED
      BY <2>4, <3>4
  <2>7. PICK from, to :
          /\ from = (Day(e) - 1) * 24 + 8 /\ from \in Int /\ from <= e
          /\ to = (Day(l) + 1) * 24 + 17 /\ to \in Int /\ l < to
    BY <2>5, <2>6, DaysAround
  <2>8. dateSuggestions(page).start = from /\ dateSuggestions(page).end = to
    BY <2>5, <2>6, <2>7 DEF dateSuggestions
  <2>9. Covers(from, to, boxes)
    BY <2>2, <2>5, <2>6, <2>7 DEF Covers
  <2>10. ValidDates(from, to)
    BY <2>2, <2>3, <2>5, <2>6, <2>7 DEF ValidDates
  <2>11. taskCount(page).private = 0 <=> \A t \in boxes : tasks[t].isPublic
    <3> DEFINE hidden == {i \in DOMAIN array : page.taskdict[array[i]].isPublic = FALSE}
    <3>1. taskCount(page).private = Cardinality(hidden)
      BY DEF taskCount
    <3>2. IsFiniteSet(hidden)
      <4>1. DOMAIN array = 1..Len(array) /\ IsFiniteSet(1..Len(array))
        BY <2>1, FS_Interval
      <4> QED
        BY <4>1, FS_Subset
    <3>3. Cardinality(hidden) = 0 <=> hidden = {}
      <4> HIDE DEF hidden
      <4> QED
        BY <3>2, FS_EmptySet
    <3>4. hidden = {} <=> \A t \in boxes : tasks[t].isPublic
      BY <2>1, <2>2 DEF ToSet
    <3> QED
      BY <3>1, <3>3, <3>4
  <2> QED
    BY <2>8, <2>9, <2>10, <2>11 DEF Valid, HidesPrivate
<1>2. FormInv => SuggestionAccepted
  BY <1>1 DEF SuggestionAccepted
<1> QED
  BY <1>2, FormInvariance, PTL

(* However some tasks are ordered, their workloads have the same total. *)
LEMMA WorkloadsAddUp ==
  ASSUME NEW T, NEW s \in Seq(T), IsInjective(s), NEW S, S = ToSet(s),
         NEW rows, NEW w, \A t \in S : w[t] \in Nat /\ rows[t].workload = w[t]
  PROVE  /\ Workloads(rows, s) \in [1..Len(s) -> Nat]
         /\ SumOf(Workloads(rows, s)) = Total(w, S)
<1>1. DOMAIN s = 1..Len(s) /\ Len(s) \in Nat /\ IsFiniteSet(1..Len(s))
  <2>1. DOMAIN s = 1..Len(s) /\ Len(s) \in Nat
    BY LenProperties
  <2> QED
    BY <2>1, FS_Interval
<1>2. PICK ms : ms = Workloads(rows, s)
  OBVIOUS
<1>3. S = {s[i] : i \in 1..Len(s)}
  BY <1>1 DEF ToSet
<1>4. DOMAIN ms = 1..Len(s) /\ \A i \in 1..Len(s) : ms[i] = w[s[i]] /\ ms[i] \in Nat
  BY <1>1, <1>2, <1>3 DEF Workloads
<1>5. ms \in [1..Len(s) -> Nat]
  BY <1>1, <1>2, <1>4 DEF Workloads
<1>6. \A i, j \in 1..Len(s) : s[i] = s[j] => i = j
  BY <1>1 DEF IsInjective
<1>7. Total(ms, 1..Len(s)) = Total(w, S)
  <2>1. PICK D : D = 1..Len(s)
    OBVIOUS
  <2>2. IsFiniteSet(D) /\ \A i, j \in D : s[i] = s[j] => i = j
    BY <1>1, <1>6, <2>1
  <2>3. S = {s[i] : i \in D} /\ \A i \in D : ms[i] = w[s[i]]
    BY <1>3, <1>4, <2>1
  <2>4. Total(ms, D) = Total(w, S)
    BY <2>2, <2>3, TotalRenamed
  <2> QED
    BY <2>1, <2>4
<1>8. SumOf(ms) = Total(ms, 1..Len(s))
  BY <1>1, <1>5, SumOfIsTotal
<1> QED
  BY <1>2, <1>5, <1>7, <1>8

(* The workload of the page is the one the plan will have, for any tasks   *)
(* in any order, and it is exact.                                          *)
THEOREM WorkloadsAreExact == Spec => []ShownWorkloadIsSaved
<1>1. ASSUME FormInv, OnlyClicks, Current, NEW order \in SetToSeqs(page.checked)
      PROVE  /\ ShownWorkload(page) = getWorkload(Workloads(tasks, order))
             /\ getWorkload(Workloads(tasks, order)) = ExactSum(Workloads(tasks, order))
  <2>1. PICK array, boxes, w :
          /\ array = page.selectarray /\ boxes = page.checked
          /\ w = [t \in boxes |-> tasks[t].workload]
    OBVIOUS
  <2>2. /\ array \in Seq(Tasks) /\ IsInjective(array) /\ ToSet(array) = boxes
        /\ boxes \subseteq managerTasks /\ IsFiniteSet(boxes)
        /\ \A t \in boxes : page.taskdict[t] = tasks[t] /\ tasks[t] \in TaskRows
    BY <1>1, <2>1, ShownAsSaved
  <2>3. \A t \in boxes : /\ w[t] \in Nat /\ tasks[t].workload = w[t]
                         /\ page.taskdict[t].workload = w[t]
    BY <2>1, <2>2, TaskRowsAssumption
  <2>4. order \in Seq(boxes) /\ IsInjective(order) /\ ToSet(order) = boxes
    BY <1>1, <2>1, <2>2, OrdersAreInjective
  <2>5. PICK ms, ns, old, new :
          /\ ms = Workloads(page.taskdict, array) /\ ns = Workloads(tasks, order)
          /\ old = page.taskdict /\ new = tasks
    OBVIOUS
  <2>6. ms \in [1..Len(array) -> Nat] /\ SumOf(ms) = Total(w, boxes)
    <3>1. Workloads(old, array) = ms /\ \A t \in boxes : w[t] \in Nat /\ old[t].workload = w[t]
      BY <2>3, <2>5
    <3> QED
      BY <2>2, <3>1, WorkloadsAddUp
  <2>7. ns \in [1..Len(order) -> Nat] /\ SumOf(ns) = Total(w, boxes)
    <3>1. Workloads(new, order) = ns /\ \A t \in boxes : w[t] \in Nat /\ new[t].workload = w[t]
      BY <2>3, <2>5
    <3> QED
      BY <2>4, <3>1, WorkloadsAddUp
  <2>8. workloadSum(ms) = ExactSum(ms) /\ getWorkload(ns) = ExactSum(ns)
    <3>1. Len(array) \in Nat /\ Len(order) \in Nat
      BY <2>2, <2>4
    <3> QED
      BY <2>6, <2>7, <3>1, SumsAreExact
  <2>9. ExactSum(ms) = ExactSum(ns)
    BY <2>6, <2>7 DEF ExactSum
  <2> QED
    BY <2>1, <2>5, <2>8, <2>9 DEF ShownWorkload
<1>2. FormInv => ShownWorkloadIsSaved
  BY <1>1 DEF ShownWorkloadIsSaved
<1> QED
  BY <1>2, FormInvariance, PTL

-----------------------------------------------------------------------------
(* The averages of the dashboard.                                          *)

LEMMA OrderExists ==
  ASSUME NEW S, IsFiniteSet(S)
  PROVE  SetToSeq(S) \in Seq(S) /\ IsInjective(SetToSeq(S))
<1>1. PICK n : n = Cardinality(S) /\ n \in Nat /\ ExistsBijection(1..n, S)
  BY FS_CardinalityType
<1>2. PICK f : f \in Bijection(1..n, S)
  BY <1>1 DEF ExistsBijection
<1>3. f \in [1..n -> S] /\ IsInjective(f)
  BY <1>2 DEF Bijection, Injection, IsInjective
<1>4. SetToSeq(S) \in [1..n -> S] /\ IsInjective(SetToSeq(S))
  BY <1>1, <1>3 DEF SetToSeq
<1> QED
  BY <1>1, <1>4

(* The workloads that are averaged are one or more natural numbers. *)
LEMMA WorkloadsListed ==
  ASSUME FormInv, NEW ms \in AllWorkloads
  PROVE  /\ Len(ms) \in Nat \ {0} /\ ms \in [1..Len(ms) -> Nat]
         /\ DOMAIN ms = 1..Len(ms)
<1>1. PICK others \in OthersTasks : ms = Workloads(tasks, SetToSeq(managerTasks)) \o others
      /\ ms # <<>>
  BY DEF AllWorkloads
<1>2. PICK order : order = SetToSeq(managerTasks)
  OBVIOUS
<1>3. order \in Seq(managerTasks)
  <2>1. managerTasks \subseteq Tasks
    BY DEF FormInv, managerTasks
  <2>2. IsFiniteSet(managerTasks)
    BY <2>1, TaskRowsAssumption, FS_Subset
  <2> QED
    BY <1>2, <2>2, OrderExists
<1>4. Workloads(tasks, order) \in Seq(Nat)
  <2>1. PICK k : k = Len(order) /\ k \in Nat /\ DOMAIN order = 1..k
    BY <1>3, LenProperties
  <2>2. \A i \in 1..k : order[i] \in managerTasks
    BY <1>3, <2>1
  <2>3. \A t \in managerTasks : tasks[t].workload \in Nat
    BY TaskRowsAssumption DEF FormInv, RowsInv, managerTasks
  <2>4. [i \in 1..k |-> tasks[order[i]].workload] \in [1..k -> Nat]
    BY <2>2, <2>3
  <2>5. Workloads(tasks, order) = [i \in 1..k |-> tasks[order[i]].workload]
    BY <2>1 DEF Workloads
  <2> QED
    BY <2>1, <2>4, <2>5
<1>5. PICK a, b : a = Workloads(tasks, order) /\ b = others /\ ms = a \o b
  BY <1>1, <1>2
<1>6. a \in Seq(Nat) /\ b \in Seq(Nat)
  BY <1>4, <1>5, OthersAssumption
<1>7. ms \in Seq(Nat)
  BY <1>5, <1>6
<1>8. Len(ms) # 0
  BY <1>1, <1>7
<1> QED
  BY <1>7, <1>8

(* The hours of an average are between those of the shortest and those of  *)
(* the longest task, for all tasks that Floats add up well enough.         *)
THEOREM AveragesStayInRange == Spec => []AverageHoursInRange
<1>1. ASSUME FormInv, NEW ms \in AllWorkloads, SmallRounding(ms),
             NEW avg \in getAvarageWorkloads(ms)
      PROVE  /\ \E i \in DOMAIN ms : Hours(ms[i]) <= avg[1]
             /\ \E i \in DOMAIN ms : avg[1] <= Hours(ms[i])
  <2>1. PICK n : n = Len(ms) /\ n \in Nat \ {0} /\ ms \in [1..n -> Nat] /\ DOMAIN ms = 1..n
    BY <1>1, WorkloadsListed
  <2>2. Rounding(100 * (SumOf(ms) + 60 * n), n) <= 100
    BY <1>1, <2>1 DEF SmallRounding
  <2> QED
    BY <2>1, <2>2, AveragesInRange
<1>2. FormInv => AverageHoursInRange
  BY <1>1 DEF AverageHoursInRange
<1> QED
  BY <1>2, FormInvariance, PTL

(* An average is as close to the truth as the rounding of the Floats lets  *)
(* it be, if no task has one to six minutes past the hour and the average  *)
(* is not within this rounding of the 10.6 minutes or of the next hour,    *)
(* for any number of tasks.                                                *)
THEOREM AveragesStayClose == Spec => []AverageClose
<1>1. ASSUME FormInv, NEW ms \in AllWorkloads, \A i \in DOMAIN ms : SafeMinutes(ms[i]),
             SumLeavesMinutes(ms, Len(ms)), NEW avg \in getAvarageWorkloads(ms)
      PROVE  ShownClose(ms, Len(ms), avg)
  <2>1. PICK n : n = Len(ms) /\ n \in Nat \ {0} /\ ms \in [1..n -> Nat] /\ DOMAIN ms = 1..n
    BY <1>1, WorkloadsListed
  <2>2. \A i \in 1..n : Minutes(ms[i]) \notin 1..6
    BY <1>1, <2>1 DEF SafeMinutes
  <2>3. SumLeavesMinutes(ms, n)
    BY <1>1, <2>1
  <2>4. ShownClose(ms, n, avg)
    BY <2>1, <2>2, <2>3, AveragesClose
  <2> QED
    BY <2>1, <2>4
<1>2. FormInv => AverageClose
  BY <1>1 DEF AverageClose, SumLeavesMinutes, ShownClose
<1> QED
  BY <1>2, FormInvariance, PTL
=============================================================================
