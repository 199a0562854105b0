------------------------------- MODULE Accounts -------------------------------
(***************************************************************************)
(* User accounts, the Principal that each session keeps of its account,    *)
(* and the requests that share it.  AbstractController.handleRequest takes *)
(* the principal of the session, checks that it has the role of the        *)
(* controller and makes it the active role of the principal; the services  *)
(* ask the principal for the identifier of its active role later.  The     *)
(* services that change the account of the user replace the principal of   *)
(* the session in onSuccess, after their transaction was committed.        *)
(*                                                                         *)
(* Anonymous visitors sign up with a name that must be new: the service    *)
(* looks for it when it validates the form, the database when it commits.  *)
(*                                                                         *)
(* bind() sets every property that a request has a field for, but those    *)
(* the service excludes.  The page of one's own account has none for the   *)
(* status, and the service does not exclude it: what a request that names  *)
(* it does is modelled.  Apart from it, it is an assumption of this module *)
(* that requests carry the fields of their pages, and no other account's   *)
(* id or roles.                                                            *)
(*                                                                         *)
(* Left out: passwords and identities (checks on them only refuse a form), *)
(* remember-me cookies, and signing in again without having signed out.    *)
(***************************************************************************)
EXTENDS Integers, FiniteSets, Functions

CONSTANTS
  Accounts,         \* identifiers of accounts
  NameOf,           \* the user name that each account has, or would have
  Founders,         \* the accounts that exist from the start
  Administrators,   \* the accounts that have the role Administrator
  Sessions,
  Tabbed,           \* the sessions whose browser sends several requests at once
  Plain,            \* the sessions that do not send a status with the own account
  Threads,          \* they serve one request each at a time
  Objects,          \* identities of Principal objects
  MaxVersion,       \* bound on the changes of an account
  MaxManagers,      \* bound on the Manager roles of an account
  NoObject,
  Unregistered      \* the "row" of an account that nobody signed up for yet

ASSUME SetsAssumption ==
  /\ Administrators \subseteq Founders /\ Founders \subseteq Accounts
  /\ Tabbed \subseteq Sessions /\ Plain \subseteq Sessions
  /\ \A a, b \in Founders : NameOf[a] = NameOf[b] => a = b
ASSUME BoundsAssumption == MaxVersion \in Nat /\ MaxManagers \in Nat
ASSUME ObjectsAssumption ==
  /\ NoObject \notin Objects
  /\ IsFiniteSet(Objects) /\ IsFiniteSet(Sessions) /\ IsFiniteSet(Threads)
  /\ Cardinality(Objects) >= Cardinality(Sessions) + Cardinality(Threads)

Classes == {"Authenticated", "Administrator", "Manager"}

(* A role is the one of some class of some account: the first one, or the  *)
(* n-th that was added.                                                    *)
Roles == Accounts \X Classes \X (0..MaxManagers)

Row == [enabled : BOOLEAN, version : 0..MaxVersion, managers : 0..MaxManagers]

ASSUME RowAssumption == Unregistered \notin Row

VARIABLES
  account,      \* the committed accounts, with the number of Manager roles
  heap,         \* the Principal objects that are in use
  principal,    \* the object in the security context of each session
  request,      \* what each thread is doing
  promoted      \* history: the sessions without parallel requests that have
                \* made their user a manager

vars == <<account, heap, principal, request, promoted>>

Idle == [at |-> "idle"]

Registered == {a \in Accounts : account[a] # Unregistered}

Serving == {t \in Threads : request[t] # Idle}

Busy == {request[t].session : t \in Serving}

(* Kinds of requests: a feature of managers, becoming a manager, updating  *)
(* one's own account, an administrator's update of an account, and signing *)
(* up, which no principal is needed for.                                   *)
Kinds == {"feature", "become", "profile", "status"}

(* The class that the controller was instantiated with. *)
RoleClass(kind) ==
  CASE kind = "feature" -> "Manager"
    [] kind = "status"  -> "Administrator"
    [] OTHER            -> "Authenticated"

IsPrincipal(p) ==
  /\ p.account \in Accounts
  /\ DOMAIN p.roles \subseteq Classes
  /\ \A c \in DOMAIN p.roles : p.roles[c] \in Roles
  /\ p.active \in DOMAIN p.roles

(* The objects that a session refers to, or a request that may still use   *)
(* its principal.                                                          *)
Using == {t \in Threads : request[t].at \in {"role", "serve"}}

Held == {o \in Objects : \/ \E s \in Sessions : principal[s] = o
                         \/ \E t \in Using : request[t].principal = o}

(* The last conjunct of IsPrincipal is what Principal.getActiveRoleId      *)
(* asserts.                                                                *)
TypeOK ==
  /\ account \in [Accounts -> Row \cup {Unregistered}]
  /\ principal \in [Sessions -> Objects \cup {NoObject}]
  /\ DOMAIN heap = Held
  /\ \A o \in Held : IsPrincipal(heap[o])
  /\ \A t \in Serving :
       /\ request[t].at \in {"role", "serve", "commit", "hook", "set"}
       /\ request[t].session \in Sessions
       /\ request[t].at \in {"role", "serve"} => request[t].kind \in Kinds
       /\ request[t].at = "commit" => request[t].kind \in Kinds \cup {"signup"}
       /\ request[t].at \in {"role", "serve"} => request[t].principal \in Objects
       /\ request[t].at = "commit" => request[t].target \in Accounts /\ request[t].row \in Row
       /\ request[t].at = "set" => IsPrincipal(request[t].loaded)
  /\ promoted \subseteq Sessions \ Tabbed

-----------------------------------------------------------------------------
(* The classes of the roles of an account. *)
ClassesOf(a) ==
  {"Authenticated"} \cup (IF a \in Administrators THEN {"Administrator"} ELSE {})
                    \cup (IF account[a].managers > 0 THEN {"Manager"} ELSE {})

(* loadUserByUsername: the map has one role of each class.  Of several of  *)
(* one class it is the one the database returns last, which is any.        *)
Loaded(a) ==
  {[account |-> a, active |-> "Authenticated",
    roles |-> [c \in ClassesOf(a) |-> <<a, c, IF c = "Manager" THEN n ELSE 0>>]] :
      n \in IF account[a].managers = 0 THEN {0} ELSE 1..account[a].managers}

Fresh == Objects \ DOMAIN heap

(* What is not referred to any more is collected. *)
SetHeap(h) == heap' = Restrict(h, Held')

With(o, p) == [x \in DOMAIN heap \cup {o} |-> IF x = o THEN p ELSE heap[x]]

NewAccount == [enabled |-> TRUE, version |-> 0, managers |-> 0]

Init ==
  /\ account   = [a \in Accounts |-> IF a \in Founders THEN NewAccount ELSE Unregistered]
  /\ heap      = [o \in {} |-> 0]
  /\ principal = [s \in Sessions |-> NoObject]
  /\ request   = [t \in Threads |-> Idle]
  /\ promoted  = {}

(* A session whose browser waits for each answer sends nothing meanwhile. *)
MaySend(s) == s \in Tabbed \/ s \notin Busy

-----------------------------------------------------------------------------
(* Sessions.                                                               *)

SignIn(s) ==
  /\ principal[s] = NoObject
  /\ s \notin Busy
  /\ promoted' = promoted \ {s}
  /\ UNCHANGED <<account, request>>
  /\ \E o \in Fresh, a \in Registered : \E p \in Loaded(a) :
       /\ account[a].enabled
       /\ principal' = [principal EXCEPT ![s] = o]
       /\ SetHeap(With(o, p))

(* Signing out clears the security context; requests that are being served *)
(* go on with the principal they have.                                     *)
SignOut(s) ==
  /\ principal[s] # NoObject
  /\ MaySend(s)
  /\ principal' = [principal EXCEPT ![s] = NoObject]
  /\ UNCHANGED <<account, request, promoted>>
  /\ SetHeap(heap)

NameIsFree(a) == \A b \in Registered : NameOf[b] # NameOf[a]

(* The identifier of an account comes from the sequence of the database.   *)
Drawn == {request[t].target : t \in {u \in Serving : request[u].at = "commit"}}

(* The form of a new account, from a browser that is not signed in, up to  *)
(* its commit: the name is new in the snapshot of the transaction.         *)
SignUp(t) ==
  /\ request[t] = Idle
  /\ \E s \in Sessions, a \in Accounts \ (Registered \cup Drawn) :
       /\ principal[s] = NoObject
       /\ MaySend(s)
       /\ NameIsFree(a)
       /\ request' = [request EXCEPT ![t] =
            [at |-> "commit", kind |-> "signup", session |-> s, target |-> a,
             row |-> NewAccount]]
  /\ UNCHANGED <<account, heap, principal, promoted>>

-----------------------------------------------------------------------------
(* handleRequest.                                                          *)

Finish(t) == request' = [request EXCEPT ![t] = Idle]

(* Mutant: the helper keeps the principal in a static field. *)
StaticPrincipal(s) == principal[CHOOSE x \in Sessions : principal[x] # NoObject]

(* PrincipalHelper.get() *)
PrincipalOf(s) == principal[s]

Receive(t) ==
  /\ request[t] = Idle
  /\ \E s \in Sessions, kind \in Kinds :
       /\ principal[s] # NoObject
       /\ MaySend(s)
       /\ request' = [request EXCEPT ![t] =
            [at |-> "role", kind |-> kind, session |-> s, principal |-> PrincipalOf(s)]]
  /\ UNCHANGED <<account, heap, principal, promoted>>

Mine(t) == heap[request[t].principal]

(* Mutant: the role of the principal is not checked. *)
AnyRole(t) == TRUE

HasRole(t) == RoleClass(request[t].kind) \in DOMAIN Mine(t).roles

(* Mutant: the active role is the one the principal was loaded with. *)
NoActivation(t) == heap

SetActiveRole(t) ==
  [heap EXCEPT ![request[t].principal].active = RoleClass(request[t].kind)]

TakeRole(t) ==
  /\ request[t].at = "role"
  /\ HasRole(t)
  /\ request' = [request EXCEPT ![t].at = "serve"]
  /\ UNCHANGED <<account, principal, promoted>>
  /\ SetHeap(SetActiveRole(t))

Refuse(t) ==
  /\ request[t].at = "role"
  /\ ~HasRole(t)
  /\ Finish(t)
  /\ UNCHANGED <<account, principal, promoted>>
  /\ SetHeap(heap)

Serves(t, kind) == request[t].at = "serve" /\ request[t].kind = kind

(* Mutant: becoming a manager leaves the session alone. *)
ProfileHook(kind) == kind = "profile"

(* The services that override onSuccess. *)
HasHook(kind) == kind \in {"become", "profile"}

EndWork(t) ==
  IF HasHook(request[t].kind)
  THEN request' = [request EXCEPT ![t] = [at |-> "hook", session |-> @.session]]
  ELSE Finish(t)

(* What a feature of managers asks for when it authorises the request, and *)
(* whenever it needs its manager.                                          *)
ActiveRoleId(t) == Mine(t).roles[Mine(t).active]

(* A request that changes nothing of this: a feature of managers, a form   *)
(* that is shown or refused.                                               *)
Answer(t) ==
  /\ request[t].at = "serve"
  /\ Finish(t)
  /\ UNCHANGED <<account, principal, promoted>>
  /\ SetHeap(heap)

(* Nothing asks whether the account has a Manager role already. *)
BecomeManager(t) ==
  /\ Serves(t, "become")
  /\ account[Mine(t).account].managers < MaxManagers
  /\ account' = [account EXCEPT ![Mine(t).account].managers = @ + 1]
  /\ promoted' = promoted \cup ({request[t].session} \ Tabbed)
  /\ EndWork(t)
  /\ UNCHANGED principal
  /\ SetHeap(heap)

(* What an update leaves for the commit of its transaction: the whole row, *)
(* with the version it replaces.  (A form that is older than the row is    *)
(* refused.)                                                               *)
Ask(t, a, row) ==
  /\ account[a].version < MaxVersion
  /\ request' = [request EXCEPT ![t] =
       [at |-> "commit", kind |-> @.kind, session |-> @.session, target |-> a, row |-> row]]
  /\ UNCHANGED <<account, principal, promoted>>
  /\ SetHeap(heap)

(* The status that the own account may get. *)
StatusSent(t) ==
  IF request[t].session \in Plain THEN {account[Mine(t).account].enabled} ELSE BOOLEAN

UpdateProfile(t) ==
  /\ Serves(t, "profile")
  /\ \E enabled \in StatusSent(t) :
       Ask(t, Mine(t).account, [account[Mine(t).account] EXCEPT !.enabled = enabled])

(* A form that changes nothing writes nothing, but its hook runs. *)
KeepProfile(t) ==
  /\ Serves(t, "profile")
  /\ EndWork(t)
  /\ UNCHANGED <<account, principal, promoted>>
  /\ SetHeap(heap)

(* The update of another field by an administrator is left out. *)
UpdateStatus(t) ==
  /\ Serves(t, "status")
  /\ \E a \in Registered : Ask(t, a, [account[a] EXCEPT !.enabled = ~@])

(* Mutant: the flush does not compare the versions. *)
WritesAnyVersion(t) == TRUE

VersionHolds(t) == request[t].row.version = account[request[t].target].version

(* Mutant: the user name is an ordinary column. *)
AnyName(t) == TRUE

(* The user name is a unique column. *)
NameIsUnique(t) == NameIsFree(request[t].target)

SigningUp(t) == request[t].kind = "signup"

CanCommit(t) == IF SigningUp(t) THEN NameIsUnique(t) ELSE VersionHolds(t)

(* The account and its role are stored together. *)
CommitSignUp(t) ==
  /\ request[t].at = "commit"
  /\ SigningUp(t)
  /\ CanCommit(t)
  /\ account' = [account EXCEPT ![request[t].target] = request[t].row]
  /\ Finish(t)
  /\ UNCHANGED <<heap, principal, promoted>>

CommitUpdate(t) ==
  /\ request[t].at = "commit"
  /\ ~SigningUp(t)
  /\ CanCommit(t)
  /\ account' = [account EXCEPT ![request[t].target].enabled = request[t].row.enabled,
                                ![request[t].target].version = request[t].row.version + 1]
  /\ EndWork(t)
  /\ UNCHANGED <<heap, principal, promoted>>

CommitFails(t) ==
  /\ request[t].at = "commit"
  /\ ~CanCommit(t)
  /\ Finish(t)
  /\ UNCHANGED <<account, heap, principal, promoted>>

-----------------------------------------------------------------------------
(* onSuccess: PrincipalHelper.handleUpdate, in a transaction of its own.   *)

(* The account of the session is read again ... *)
LoadPrincipal(t) ==
  /\ request[t].at = "hook"
  /\ principal[request[t].session] # NoObject
  /\ \E p \in Loaded(heap[PrincipalOf(request[t].session)].account) :
       request' = [request EXCEPT ![t] =
         [at |-> "set", session |-> @.session, loaded |-> p]]
  /\ UNCHANGED <<account, heap, principal, promoted>>

(* ... which throws if the user has signed out. *)
HookThrows(t) ==
  /\ request[t].at = "hook"
  /\ principal[request[t].session] = NoObject
  /\ Finish(t)
  /\ UNCHANGED <<account, heap, principal, promoted>>

(* The new principal is put into the security context; that of a session   *)
(* that was signed out is not stored.                                      *)
SetAuthentication(t) ==
  /\ request[t].at = "set"
  /\ Finish(t)
  /\ UNCHANGED <<account, promoted>>
  /\ IF principal[request[t].session] = NoObject
     THEN UNCHANGED <<principal, heap>>
     ELSE \E o \in Fresh :
            /\ principal' = [principal EXCEPT ![request[t].session] = o]
            /\ SetHeap(With(o, request[t].loaded))

Serve(t) ==
  \/ Answer(t) \/ BecomeManager(t)
  \/ UpdateProfile(t) \/ KeepProfile(t) \/ UpdateStatus(t)

handleRequest(t) ==
  \/ Receive(t) \/ TakeRole(t) \/ Refuse(t) \/ Serve(t)
  \/ SignUp(t) \/ CommitSignUp(t) \/ CommitUpdate(t) \/ CommitFails(t)
  \/ LoadPrincipal(t) \/ HookThrows(t) \/ SetAuthentication(t)

Next ==
  \/ \E s \in Sessions : SignIn(s) \/ SignOut(s)
  \/ \E t \in Threads : handleRequest(t)

Spec == Init /\ [][Next]_vars

-----------------------------------------------------------------------------
(* Correctness.                                                            *)

RoleIsAppropriate(t) ==
  request[t].at = "serve" => ActiveRoleId(t)[2] = RoleClass(request[t].kind)

(* In a session without parallel requests, whenever a service asks for its *)
(* role it gets one of the class it was authorised for, however often      *)
(* requests for other classes used the principal before.                   *)
RoleAsAuthorised ==
  \A t \in Using : request[t].session \notin Tabbed => RoleIsAppropriate(t)

(* A request acts for the account of its session, with roles of that       *)
(* account only, although principals are replaced, shared and outlived by  *)
(* requests.                                                               *)
OwnAccount ==
  \A t \in Using :
    LET s == request[t].session
    IN  principal[s] # NoObject =>
          /\ Mine(t).account = heap[principal[s]].account
          /\ ActiveRoleId(t)[1] = heap[principal[s]].account

(* Who has become a manager in a session without parallel requests can go  *)
(* on as one, without signing in again, whatever was updated before or     *)
(* after, here or in another session.                                      *)
NewRoleUsable ==
  \A s \in promoted \ Busy :
    principal[s] # NoObject => "Manager" \in DOMAIN heap[principal[s]].roles

(* The status of an account changes only with the commit of a request      *)
(* about that account that set it: an administrator's, or one of the user  *)
(* that sent it.  An update of the own account that did not, and that was  *)
(* under way with the row of before, does not undo it.                     *)
SetsStatus(t) ==
  \/ request[t].kind = "status"
  \/ request[t].kind = "profile" /\ request[t].session \notin Plain

StatusKept ==
  [][\A a \in Registered : account'[a].enabled # account[a].enabled =>
       \E t \in Serving :
         /\ request[t].at = "commit"
         /\ request[t].target = a
         /\ SetsStatus(t)
         /\ request'[t] # request[t]]_vars

(* No two accounts have one user name, although several visitors may have  *)
(* found it free before the first of them was stored.                      *)
OneAccountPerName == \A a, b \in Registered : NameOf[a] = NameOf[b] => a = b

(* "let's make sure that the principal has the appropriate role"           *)
(* (AbstractController.java:213): also when the service asks for it.       *)
ActiveRoleIsAppropriate == \A t \in Using : RoleIsAppropriate(t)

(* "assert !this.hasRole(role.getClass())" (UserAccount.java:161): an      *)
(* account has one role of a class.                                        *)
OneRoleOfAClass == \A a \in Registered : account[a].managers <= 1
=============================================================================
