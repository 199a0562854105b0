------------------------------ MODULE Navigation ------------------------------
(***************************************************************************)
(* How a tab of the browser finds its way back from a form.  Forms do not  *)
(* know where they were opened: a listing pushes its address on a stack in *)
(* the session storage of the tab before it shows one of its rows, the     *)
(* menu empties the stack, and the return button of a form and the         *)
(* 'referrer' page, to which the server redirects when a form succeeds,    *)
(* pop it.  The Back and Forward buttons change the page and leave the     *)
(* stack alone, and so do the footer and the links in a form.              *)
(***************************************************************************)
EXTENDS Naturals, Sequences, SequencesExt

CONSTANTS
  Listings,  \* the pages with a list of rows
  Home,      \* the welcome page, which is "/"
  Other,     \* pages without a form: license, company, panic
  Form,      \* a page with a form
  Referrer,  \* the page that returns
  MaxStack   \* bound on the length of the stack

Places == Listings \cup {Home}

ASSUME PagesAssumption ==
  /\ {Other, Form, Referrer} \cap Places = {}
  /\ Form # Referrer /\ Form # Other /\ Referrer # Other
  /\ Home \notin Listings
  /\ MaxStack \in Nat

VARIABLES
  at,       \* the page that the tab shows
  stack,    \* the listings to return to, in the session storage
  origin,   \* history: where the form was opened
  straight  \* history: Back and Forward were not used since

navVars == <<at, stack, origin, straight>>

NavTypeOK ==
  /\ at \in Places \cup {Other, Form, Referrer}
  /\ stack \in Seq(Listings)
  /\ origin \in Places
  /\ straight \in BOOLEAN

NavInit ==
  /\ at = Home
  /\ stack = <<>>
  /\ origin = Home
  /\ straight = TRUE

-----------------------------------------------------------------------------
(* The stack.                                                              *)

(* Mutant: the menu leaves the stack as it is. *)
KeepReturnUrls == stack

clearReturnUrl == <<>>

pushReturnUrl(l) == Append(stack, l)

(* What popReturnUrl returns, and what it leaves. *)
Popped == IF stack = <<>> THEN Home ELSE Last(stack)

Remaining == IF stack = <<>> THEN <<>> ELSE Front(stack)

-----------------------------------------------------------------------------
(* What the user does.                                                     *)

(* History is forgotten with the form. *)
Forget == origin' = Home /\ straight' = TRUE

Menu(place) ==
  /\ at' = place
  /\ stack' = clearReturnUrl
  /\ Forget

(* Forms that create something are in the menu. *)
MenuForm ==
  /\ at' = Form
  /\ stack' = clearReturnUrl
  /\ origin' = Home
  /\ straight' = TRUE

Footer(target) ==
  /\ target \in {Home, Other}
  /\ at' = target
  /\ Forget
  /\ UNCHANGED stack

OpenRow(l) ==
  /\ at = l
  /\ Len(stack) < MaxStack
  /\ at' = Form
  /\ stack' = pushReturnUrl(l)
  /\ origin' = l
  /\ straight' = TRUE

PopTo ==
  /\ at' = Popped
  /\ stack' = Remaining
  /\ Forget

ReturnButton == at = Form /\ PopTo

(* The form is refused, and written again.  Following a link from one form *)
(* to another is the same step.                                            *)
SubmitRefused == at = Form /\ UNCHANGED navVars

SubmitDone ==
  /\ at = Form
  /\ at' = Referrer
  /\ UNCHANGED <<stack, origin, straight>>

RunReferrer == at = Referrer /\ PopTo

Panic ==
  /\ at = Form
  /\ at' = Other
  /\ Forget
  /\ UNCHANGED stack

(* Back, Forward, or an address that was typed. *)
Jump(target) ==
  /\ at' = target
  /\ origin' = Home
  /\ straight' = FALSE
  /\ UNCHANGED stack

NavNext ==
  \/ \E place \in Places : Menu(place)
  \/ MenuForm
  \/ Footer(Home) \/ Footer(Other)
  \/ \E l \in Listings : OpenRow(l)
  \/ ReturnButton \/ SubmitRefused \/ SubmitDone \/ RunReferrer \/ Panic
  \/ \E target \in Places \cup {Other, Form, Referrer} : Jump(target)

NavSpec == NavInit /\ [][NavNext]_navVars

-----------------------------------------------------------------------------
(* Correctness.                                                            *)

(* "redirect to the referrer view, which cares of returning to the         *)
(* appropriate listing or /master/welcome" (AbstractController.java:453):  *)
(* leaving a form by its return button, or because it succeeded, leads to  *)
(* the listing where it was opened, or to the welcome page if it was       *)
(* opened from the menu, whatever earlier visits left on the stack, and    *)
(* however often it was refused; unless the user goes back or forward      *)
(* while the form is open.                                                 *)
ReturnsToOrigin ==
  [][straight /\ (ReturnButton \/ RunReferrer) => at' = origin]_navVars
=============================================================================
