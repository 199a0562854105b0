---------------------------- MODULE AccountsProofs ----------------------------
(***************************************************************************)
(* Proofs about Accounts, for any number of accounts, sessions and         *)
(* threads, any user names and any bounds.                                 *)
(***************************************************************************)
EXTENDS Accounts, TLAPS

-----------------------------------------------------------------------------
(* The inductive invariant.                                                *)

(* A principal has roles of its own account only, each under its class.    *)
PrincipalOK(p) ==
  /\ p = [account |-> p.account, active |-> p.active, roles |-> p.roles]
  /\ IsPrincipal(p)
  /\ \A c \in DOMAIN p.roles : p.roles[c][1] = p.account /\ p.roles[c][2] = c

Acting  == [at : {"role", "serve"}, kind : Kinds, session : Sessions, principal : Objects]
Saving  == [at : {"commit"}, kind : {"profile", "status", "signup"}, session : Sessions,
            target : Accounts, row : Row]
Hooking == [at : {"hook"}, session : Sessions]

RequestOK(r) ==
  \/ r = Idle
  \/ r \in Acting \cup Saving \cup Hooking
  \/ /\ r = [at |-> "set", session |-> r.session, loaded |-> r.loaded]
     /\ r.session \in Sessions
     /\ PrincipalOK(r.loaded)

Types ==
  /\ account \in [Accounts -> Row \cup {Unregistered}]
  /\ principal \in [Sessions -> Objects \cup {NoObject}]
  /\ DOMAIN request = Threads
  /\ \A t \in Threads : RequestOK(request[t])
  /\ promoted \subseteq Sessions \ Tabbed

HeapInv ==
  /\ DOMAIN heap = Held
  /\ \A o \in Held : PrincipalOK(heap[o]) /\ heap[o].account \in Registered

OneRequestPerPlainSession ==
  \A t, u \in Serving :
    request[t].session = request[u].session /\ request[t].session \notin Tabbed => t = u

(* No object is the principal of two sessions, or of a session and the     *)
(* request of another.                                                     *)
OneSessionPerObject ==
  /\ \A s, r \in Sessions : principal[s] = principal[r] /\ principal[s] # NoObject => s = r
  /\ \A t \in Using : \A s \in Sessions :
       request[t].principal = principal[s] => request[t].session = s
  /\ \A t, u \in Using :
       request[t].principal = request[u].principal => request[t].session = request[u].session

SignedIn(s) == principal[s] # NoObject

AccountOf(s) == heap[principal[s]].account

ActingInv(t) ==
  LET r == request[t]
  IN  r \in Acting =>
        /\ SignedIn(r.session) => heap[r.principal].account = AccountOf(r.session)
        /\ r.at = "serve" /\ r.session \notin Tabbed => heap[r.principal].active = RoleClass(r.kind)

(* An update that does not set the status, as one of the own account from  *)
(* its page.                                                               *)
KeepsStatus(r) == r.kind = "profile" /\ r.session \in Plain

(* The row such an update was made from is not newer than the committed    *)
(* one, and has its status if it is the committed one.                     *)
SavingInv(t) ==
  LET r == request[t]
  IN  r \in Saving /\ r.kind # "signup" =>
        /\ r.target \in Registered
        /\ r.row.version < MaxVersion
        /\ KeepsStatus(r) =>
             /\ r.row.version <= account[r.target].version
             /\ r.row.version = account[r.target].version =>
                  r.row.enabled = account[r.target].enabled

SettingInv(t) ==
  LET r == request[t]
  IN  r.at = "set" =>
        /\ r.loaded.account \in Registered
        /\ SignedIn(r.session) =>
             /\ r.loaded.account = AccountOf(r.session)
             /\ r.session \in promoted => "Manager" \in DOMAIN r.loaded.roles

ThreadInv(t) == ActingInv(t) /\ SavingInv(t) /\ SettingInv(t)

PromotedInv(s) ==
  s \in promoted /\ SignedIn(s) =>
    /\ account[AccountOf(s)].managers > 0
    /\ \/ "Manager" \in DOMAIN heap[principal[s]].roles
       \/ \E t \in Threads : request[t].at \in {"hook", "set"} /\ request[t].session = s

IInv ==
  /\ Types
  /\ HeapInv
  /\ OneAccountPerName
  /\ OneRequestPerPlainSession
  /\ OneSessionPerObject
  /\ \A t \in Threads : ThreadInv(t)
  /\ \A s \in Sessions : PromotedInv(s)

-----------------------------------------------------------------------------
(* What follows from it in each state.                                     *)

(* The kinds of states of a request are told apart by 'at'.                *)
LEMMA RequestShapes ==
  ASSUME NEW r, RequestOK(r)
  PROVE  /\ r = Idle <=> r.at = "idle"
         /\ r \in Acting <=> r.at \in {"role", "serve"}
         /\ r \in Saving <=> r.at = "commit"
         /\ r \in Hooking <=> r.at = "hook"
         /\ r.at \in {"idle", "role", "serve", "commit", "hook", "set"}
         /\ r # Idle => r.session \in Sessions
         /\ r.at = "set" => PrincipalOK(r.loaded)
<1>1. CASE r = Idle
  BY <1>1 DEF Idle, Acting, Saving, Hooking
<1>2. CASE r \in Acting
  BY <1>2 DEF Idle, Acting, Saving, Hooking
<1>3. CASE r \in Saving
  BY <1>3 DEF Idle, Acting, Saving, Hooking
<1>4. CASE r \in Hooking
  BY <1>4 DEF Idle, Acting, Saving, Hooking
<1>5. CASE /\ r = [at |-> "set", session |-> r.session, loaded |-> r.loaded]
           /\ r.session \in Sessions
           /\ PrincipalOK(r.loaded)
  <2>1. r.at = "set"
    BY <1>5
  <2> QED
    BY <1>5, <2>1 DEF Idle, Acting, Saving, Hooking
<1> QED
  BY <1>1, <1>2, <1>3, <1>4, <1>5 DEF RequestOK

LEMMA Users ==
  ASSUME IInv
  PROVE  /\ Using = {t \in Threads : request[t] \in Acting}
         /\ \A t \in Threads : RequestOK(request[t])
         /\ \A s \in Sessions : SignedIn(s) => principal[s] \in Held
         /\ \A t \in Using : request[t].principal \in Held
         /\ Held \subseteq Objects
<1>1. \A t \in Threads : RequestOK(request[t])
  BY DEF IInv, Types
<1>2. Using = {t \in Threads : request[t] \in Acting}
  BY <1>1, RequestShapes DEF Using
<1>3. \A s \in Sessions : SignedIn(s) => principal[s] \in Held
  BY DEF IInv, Types, SignedIn, Held
<1>4. \A t \in Using : request[t].principal \in Held
  BY <1>2 DEF Acting, Held
<1> QED
  BY <1>1, <1>2, <1>3, <1>4 DEF Held

LEMMA IInvType == IInv => TypeOK
<1> SUFFICES ASSUME IInv PROVE TypeOK
  OBVIOUS
<1>1. \A o \in Held : IsPrincipal(heap[o])
  BY DEF IInv, HeapInv, PrincipalOK
<1>2. ASSUME NEW t \in Serving
      PROVE  /\ request[t].at \in {"role", "serve", "commit", "hook", "set"}
             /\ request[t].session \in Sessions
             /\ request[t].at \in {"role", "serve"} => request[t].kind \in Kinds
             /\ request[t].at = "commit" => request[t].kind \in Kinds \cup {"signup"}
             /\ request[t].at \in {"role", "serve"} => request[t].principal \in Objects
             /\ request[t].at = "commit" => request[t].target \in Accounts /\ request[t].row \in Row
             /\ request[t].at = "set" => IsPrincipal(request[t].loaded)
  <2>1. RequestOK(request[t]) /\ request[t] # Idle
    BY DEF IInv, Types, Serving
  <2>2. request[t].at # "idle"
    BY <2>1, RequestShapes
  <2>3. request[t].at \in {"role", "serve"} =>
          request[t].kind \in Kinds /\ request[t].principal \in Objects
    BY <2>1, RequestShapes DEF Acting
  <2>4. request[t].at = "commit" =>
          /\ request[t].kind \in Kinds \cup {"signup"}
          /\ request[t].target \in Accounts /\ request[t].row \in Row
    BY <2>1, RequestShapes DEF Saving, Kinds
  <2>5. request[t].at = "set" => IsPrincipal(request[t].loaded)
    BY <2>1, RequestShapes DEF PrincipalOK
  <2> QED
    BY <2>1, <2>2, <2>3, <2>4, <2>5, RequestShapes
<1> QED
  BY <1>1, <1>2 DEF IInv, Types, HeapInv, TypeOK

LEMMA IInvOwn == IInv => OwnAccount
<1> SUFFICES ASSUME IInv, NEW t \in Using, SignedIn(request[t].session)
             PROVE  /\ Mine(t).account = heap[principal[request[t].session]].account
                    /\ ActiveRoleId(t)[1] = heap[principal[request[t].session]].account
  BY DEF OwnAccount, SignedIn
<1>1. t \in Threads /\ request[t] \in Acting /\ request[t].principal \in Held
  BY Users
<1>2. Mine(t).account = AccountOf(request[t].session)
  BY <1>1 DEF IInv, ThreadInv, ActingInv, Mine
<1>3. PrincipalOK(Mine(t))
  BY <1>1 DEF IInv, HeapInv, Mine
<1> QED
  BY <1>2, <1>3 DEF PrincipalOK, IsPrincipal, ActiveRoleId, AccountOf

LEMMA IInvRole == IInv => RoleAsAuthorised
<1> SUFFICES ASSUME IInv, NEW t \in Using, request[t].session \notin Tabbed,
                    request[t].at = "serve"
             PROVE  ActiveRoleId(t)[2] = RoleClass(request[t].kind)
  BY DEF RoleAsAuthorised, RoleIsAppropriate
<1>1. t \in Threads /\ request[t] \in Acting /\ request[t].principal \in Held
  BY Users
<1>2. Mine(t).active = RoleClass(request[t].kind)
  BY <1>1 DEF IInv, ThreadInv, ActingInv, Mine
<1>3. PrincipalOK(Mine(t))
  BY <1>1 DEF IInv, HeapInv, Mine
<1> QED
  BY <1>2, <1>3 DEF PrincipalOK, IsPrincipal, ActiveRoleId

LEMMA IInvUsable == IInv => NewRoleUsable
<1> SUFFICES ASSUME IInv, NEW s \in promoted \ Busy, SignedIn(s)
             PROVE  "Manager" \in DOMAIN heap[principal[s]].roles
  BY DEF NewRoleUsable, SignedIn
<1>1. s \in Sessions /\ PromotedInv(s)
  BY DEF IInv, Types
<1>2. ~ \E t \in Threads : request[t].at \in {"hook", "set"} /\ request[t].session = s
  BY DEF Busy, Serving, Idle
<1> QED
  BY <1>1, <1>2 DEF PromotedInv

-----------------------------------------------------------------------------
(* The steps of a thread that leave the principals of the sessions alone.  *)

(* What may become of an account while requests are served.                *)
NextAccount(old, new) ==
  old # Unregistered =>
    /\ new # Unregistered
    /\ new.managers >= old.managers
    /\ old.version <= new.version
    /\ old.version = new.version => new.enabled = old.enabled

(* What may become of a principal: its active role changes.                *)
NextPrincipal(old, new) ==
  /\ PrincipalOK(new)
  /\ new.account = old.account
  /\ new.roles = old.roles

(* Thread t goes from its state to r; the others and their sessions do not *)
(* notice, except that the active role of t's principal may have changed.  *)
LEMMA ThreadStep ==
  ASSUME IInv, NEW t \in Threads, NEW r,
         request' = [request EXCEPT ![t] = r],
         principal' = principal,
         account' \in [Accounts -> Row \cup {Unregistered}],
         \A a \in Accounts : NextAccount(account[a], account'[a]),
         OneAccountPerName',
         DOMAIN heap' = Held',
         \A o \in Held \cap Held' :
           /\ NextPrincipal(heap[o], heap'[o])
           /\ heap'[o] = heap[o] \/ (request[t] \in Acting /\ o = request[t].principal),
         RequestOK(r),
         r # Idle => IF request[t] = Idle THEN MaySend(r.session)
                     ELSE r.session = request[t].session,
         r \in Acting => IF request[t] = Idle THEN r.principal = principal[r.session] /\ SignedIn(r.session)
                         ELSE request[t] \in Acting /\ r.principal = request[t].principal,
         ThreadInv(t)',
         promoted \subseteq promoted',
         promoted' = promoted \/
           /\ promoted' = promoted \cup ({r.session} \ Tabbed)
           /\ r.at = "hook" /\ request[t] # Idle
           /\ SignedIn(r.session) => account'[AccountOf(r.session)].managers > 0,
         request[t].at \in {"hook", "set"} =>
           r.at \in {"hook", "set"} \/ ~SignedIn(request[t].session)
  PROVE  IInv'
<1>1. /\ DOMAIN request' = Threads /\ request'[t] = r
      /\ \A u \in Threads \ {t} : request'[u] = request[u]
  BY DEF IInv, Types
<1>2. /\ \A u \in Threads : RequestOK(request[u]) /\ RequestOK(request'[u])
      /\ Using = {u \in Threads : request[u] \in Acting}
      /\ Using' = {u \in Threads : request'[u] \in Acting}
      /\ \A s \in Sessions : SignedIn(s) => principal[s] \in Held
      /\ \A u \in Using : request[u].principal \in Held
  <2>1. \A u \in Threads : RequestOK(request[u]) /\ RequestOK(request'[u])
    BY <1>1 DEF IInv, Types
  <2>2. Using' = {u \in Threads : request'[u] \in Acting}
    BY <2>1, RequestShapes DEF Using
  <2> QED
    BY <2>1, <2>2, Users
<1>3. \A u \in Using' : \/ u \in Using /\ request'[u].principal = request[u].principal
                                       /\ request'[u].session = request[u].session
                        \/ u = t /\ request'[u].principal = principal[request'[u].session]
                                 /\ request'[u].session \in Sessions /\ SignedIn(request'[u].session)
  <2>1. ASSUME NEW u \in Using', u # t
        PROVE  u \in Using /\ request'[u] = request[u]
    BY <1>1, <1>2, <2>1
  <2>2. ASSUME t \in Using'
        PROVE  \/ t \in Using /\ r.principal = request[t].principal
                              /\ r.session = request[t].session
               \/ r.principal = principal[r.session] /\ r.session \in Sessions /\ SignedIn(r.session)
    <3>1. r \in Acting /\ r # Idle
      BY <1>1, <1>2, <2>2 DEF Acting, Idle
    <3>2. r.session \in Sessions
      BY <3>1 DEF Acting
    <3> QED
      BY <1>2, <3>1, <3>2
  <2> QED
    BY <1>1, <2>1, <2>2
<1>4. Held' \subseteq Held
  <2> SUFFICES ASSUME NEW o \in Held' PROVE o \in Held
    OBVIOUS
  <2>1. o \in Objects /\ ((\E s \in Sessions : principal[s] = o)
                          \/ \E u \in Using' : request'[u].principal = o)
    BY DEF Held
  <2>2. ASSUME NEW u \in Using', request'[u].principal = o PROVE o \in Held
    BY <1>2, <1>3, <2>2
  <2> QED
    BY <2>1, <2>2 DEF Held
<1>5. /\ \A s \in Sessions : principal[s] # NoObject => principal[s] \in Held'
      /\ \A u \in Using' : request'[u].principal \in Held'
  <2>1. \A s \in Sessions : principal[s] # NoObject => principal[s] \in Objects
    BY DEF IInv, Types
  <2>2. \A u \in Using' : request'[u].principal \in Objects
    BY <1>2 DEF Acting
  <2> QED
    BY <2>1, <2>2 DEF Held
<1>6. \A a \in Accounts : a \in Registered => a \in Registered'
  BY DEF Registered, NextAccount
<1>7. HeapInv'
  <2>1. ASSUME NEW o \in Held' PROVE PrincipalOK(heap'[o]) /\ heap'[o].account \in Registered'
    BY <1>4, <1>6 DEF NextPrincipal, IInv, HeapInv, Registered
  <2> QED
    BY <2>1 DEF HeapInv
<1>8. Types'
  <2>1. promoted' \subseteq Sessions \ Tabbed
    <3>1. r.at = "hook" => r.session \in Sessions
      BY RequestShapes DEF Hooking
    <3> QED
      BY <3>1 DEF IInv, Types
  <2> QED
    BY <1>1, <1>2, <2>1 DEF IInv, Types
<1>9. OneRequestPerPlainSession'
  <2> SUFFICES ASSUME NEW u \in Threads, NEW v \in Threads,
                      request'[u] # Idle, request'[v] # Idle, u # v,
                      request'[u].session = request'[v].session
               PROVE  request'[u].session \in Tabbed
    BY DEF OneRequestPerPlainSession, Serving
  <2>1. CASE u # t /\ v # t
    BY <1>1, <2>1 DEF IInv, OneRequestPerPlainSession, Serving
  <2>2. CASE u = t /\ v # t
    BY <1>1, <2>2 DEF IInv, OneRequestPerPlainSession, Serving, MaySend, Busy
  <2>3. CASE v = t /\ u # t
    BY <1>1, <2>3 DEF IInv, OneRequestPerPlainSession, Serving, MaySend, Busy
  <2> QED
    BY <2>1, <2>2, <2>3
<1>10. OneSessionPerObject'
  <2>1. \A s, q \in Sessions : principal[s] = principal[q] /\ principal[s] # NoObject => s = q
    BY DEF IInv, OneSessionPerObject
  <2>2. \A u \in Using : \A s \in Sessions :
          request[u].principal = principal[s] => request[u].session = s
    BY DEF IInv, OneSessionPerObject
  <2>3. \A u, v \in Using :
          request[u].principal = request[v].principal => request[u].session = request[v].session
    BY DEF IInv, OneSessionPerObject
  <2>4. ASSUME NEW u \in Using', NEW s \in Sessions, request'[u].principal = principal[s]
        PROVE  request'[u].session = s
    BY <1>3, <2>1, <2>2, <2>4 DEF SignedIn
  <2>5. ASSUME NEW u \in Using', NEW v \in Using', request'[u].principal = request'[v].principal
        PROVE  request'[u].session = request'[v].session
    BY <1>3, <2>1, <2>2, <2>3, <2>5 DEF SignedIn
  <2> QED
    BY <2>1, <2>4, <2>5 DEF OneSessionPerObject
<1>11. \A s \in Sessions : SignedIn(s) => heap'[principal[s]].account = AccountOf(s)
                                       /\ heap'[principal[s]].roles = heap[principal[s]].roles
  BY <1>2, <1>5 DEF SignedIn, AccountOf, NextPrincipal
<1>12. ASSUME NEW u \in Threads, u # t PROVE ThreadInv(u)'
  <2>1. request'[u] = request[u] /\ ThreadInv(u) /\ RequestOK(request[u])
    BY <1>1, <1>2, <1>12 DEF IInv
  <2>2. ActingInv(u)'
    <3> SUFFICES ASSUME request[u] \in Acting
                 PROVE  ActingInv(u)'
      BY <2>1 DEF ActingInv
    <3>1. /\ u \in Using /\ u \in Using' /\ request[u].principal \in Held \cap Held'
          /\ request[u].session \in Sessions /\ request[u] # Idle
      BY <1>2, <1>5, <2>1 DEF Acting, Idle
    <3>2. heap'[request[u].principal].account = heap[request[u].principal].account
      BY <3>1 DEF NextPrincipal
    <3>3. request[u].session \notin Tabbed =>
            heap'[request[u].principal] = heap[request[u].principal]
      <4>1. SUFFICES ASSUME request[t] \in Acting, request[u].principal = request[t].principal,
                            request[u].session \notin Tabbed
                     PROVE  FALSE
        BY <3>1
      <4>2. t \in Using /\ request[t] # Idle
        BY <1>2, <4>1 DEF Acting, Idle
      <4>3. request[u].session = request[t].session
        BY <3>1, <4>1, <4>2 DEF IInv, OneSessionPerObject
      <4> QED
        BY <1>12, <3>1, <4>1, <4>2, <4>3 DEF IInv, OneRequestPerPlainSession, Serving
    <3> QED
      BY <1>11, <2>1, <3>1, <3>2, <3>3 DEF ThreadInv, ActingInv, AccountOf, SignedIn
  <2>3. SavingInv(u)'
    <3> SUFFICES ASSUME request[u] \in Saving, request[u].kind # "signup"
                 PROVE  SavingInv(u)'
      BY <2>1 DEF SavingInv
    <3> DEFINE a == request[u].target
               row == request[u].row
    <3>1. /\ a \in Accounts /\ a \in Registered /\ row \in Row /\ row.version < MaxVersion
          /\ KeepsStatus(request[u]) =>
               /\ row.version <= account[a].version
               /\ row.version = account[a].version => row.enabled = account[a].enabled
      BY <2>1 DEF ThreadInv, SavingInv, Saving
    <3>2. /\ account[a] \in Row /\ account'[a] \in Row /\ NextAccount(account[a], account'[a])
          /\ account[a] # Unregistered /\ a \in Registered'
      BY <1>6, <3>1, RowAssumption DEF IInv, Types, Registered
    <3>3. row.version \in Int /\ account[a].version \in Int /\ account'[a].version \in Int
      BY <3>1, <3>2 DEF Row
    <3>4. /\ account[a].version <= account'[a].version
          /\ account[a].version = account'[a].version => account'[a].enabled = account[a].enabled
      BY <3>2 DEF NextAccount
    <3>5. KeepsStatus(request[u]) =>
            /\ row.version <= account'[a].version
            /\ row.version = account'[a].version => row.enabled = account'[a].enabled
      BY <3>1, <3>3, <3>4
    <3> QED
      BY <2>1, <3>1, <3>2, <3>5 DEF SavingInv
  <2>4. SettingInv(u)'
    <3> SUFFICES ASSUME request[u].at = "set"
                 PROVE  SettingInv(u)'
      BY <2>1 DEF SettingInv
    <3>1. /\ request[u].session \in Sessions /\ request[u] # Idle
          /\ request[u].loaded.account \in Registered
          /\ SignedIn(request[u].session) =>
               /\ request[u].loaded.account = AccountOf(request[u].session)
               /\ request[u].session \in promoted => "Manager" \in DOMAIN request[u].loaded.roles
      BY <2>1, RequestShapes DEF ThreadInv, SettingInv, Idle
    <3>2. request[u].loaded.account \in Registered'
      BY <1>6, <3>1 DEF Registered
    <3>3. request[u].session \in promoted' => request[u].session \in promoted
      <4> SUFFICES ASSUME promoted' = promoted \cup ({r.session} \ Tabbed),
                          r.at = "hook", request[t] # Idle,
                          request[u].session = r.session, r.session \notin Tabbed
                   PROVE  FALSE
        OBVIOUS
      <4>1. r # Idle
        BY DEF Idle
      <4> QED
        BY <1>12, <3>1, <4>1 DEF IInv, OneRequestPerPlainSession, Serving
    <3> QED
      BY <1>11, <2>1, <3>1, <3>2, <3>3 DEF SettingInv, SignedIn, AccountOf
  <2> QED
    BY <2>2, <2>3, <2>4 DEF ThreadInv
<1>13. ASSUME NEW s \in Sessions PROVE PromotedInv(s)'
  <2> SUFFICES ASSUME s \in promoted', SignedIn(s)
               PROVE  /\ account'[heap'[principal[s]].account].managers > 0
                      /\ \/ "Manager" \in DOMAIN heap'[principal[s]].roles
                         \/ \E u \in Threads : request'[u].at \in {"hook", "set"} /\ request'[u].session = s
    BY DEF PromotedInv, SignedIn, AccountOf
  <2>1. /\ heap'[principal[s]].account = AccountOf(s)
        /\ heap'[principal[s]].roles = heap[principal[s]].roles
    BY <1>11
  <2>2. CASE s \in promoted
    <3>1. /\ account[AccountOf(s)].managers > 0
          /\ \/ "Manager" \in DOMAIN heap[principal[s]].roles
             \/ \E u \in Threads : request[u].at \in {"hook", "set"} /\ request[u].session = s
      BY <2>2 DEF IInv, PromotedInv
    <3>2. AccountOf(s) \in Registered
      BY <1>2 DEF IInv, HeapInv, AccountOf
    <3>3. account'[AccountOf(s)].managers > 0
      <4>1. /\ AccountOf(s) \in Accounts /\ account[AccountOf(s)] \in Row
            /\ account'[AccountOf(s)] \in Row
            /\ account'[AccountOf(s)].managers >= account[AccountOf(s)].managers
        BY <3>2, RowAssumption DEF IInv, Types, Registered, NextAccount
      <4> QED
        BY <3>1, <4>1 DEF Row
    <3>4. ASSUME NEW u \in Threads, request[u].at \in {"hook", "set"}, request[u].session = s
          PROVE  request'[u].at \in {"hook", "set"} /\ request'[u].session = s
      <4>1. CASE u # t
        BY <1>1, <3>4, <4>1
      <4>2. CASE u = t
        <5>1. r.at \in {"hook", "set"} /\ r # Idle /\ request[t] # Idle
          BY <3>4, <4>2 DEF Idle
        <5> QED
          BY <1>1, <3>4, <4>2, <5>1
      <4> QED
        BY <4>1, <4>2
    <3> QED
      BY <2>1, <3>1, <3>3, <3>4
  <2>3. CASE s \notin promoted
    <3>1. s = r.session /\ r.at = "hook" /\ account'[AccountOf(s)].managers > 0
      BY <2>3
    <3> QED
      BY <1>1, <2>1, <3>1
  <2> QED
    BY <2>2, <2>3
<1> QED
  BY <1>7, <1>8, <1>9, <1>10, <1>12, <1>13 DEF IInv

(* What the other variables must be for a step that changes the state of   *)
(* one thread only.                                                        *)
HeapKept ==
  /\ DOMAIN heap' = Held'
  /\ \A o \in Held \cap Held' : heap'[o] = heap[o]

LEMMA Collected ==
  ASSUME SetHeap(heap)
  PROVE  HeapKept
BY DEF SetHeap, Restrict, HeapKept

LEMMA HeapUnchanged ==
  ASSUME IInv, NEW t \in Threads, NEW r,
         request' = [request EXCEPT ![t] = r],
         principal' = principal, heap' = heap,
         request[t] \notin Acting, RequestOK(r),
         r \in Acting => r.principal = principal[r.session] /\ SignedIn(r.session)
  PROVE  HeapKept
<1>1. /\ request'[t] = r
      /\ \A u \in Threads \ {t} : request'[u] = request[u]
      /\ \A u \in Threads : RequestOK(request[u])
  BY DEF IInv, Types
<1>2. /\ \A u \in Threads : request'[u].at \in {"role", "serve"} <=> request'[u] \in Acting
      /\ \A u \in Threads : request[u].at \in {"role", "serve"} <=> request[u] \in Acting
  BY <1>1, RequestShapes
<1>3. \A u \in Threads \ {t} : u \in Using' <=> u \in Using
  BY <1>1 DEF Using
<1>4. t \notin Using /\ (t \in Using' <=> r \in Acting)
  BY <1>1, <1>2 DEF Using
<1>5. r \in Acting => r.session \in Sessions
  BY DEF Acting
<1>6. Held' = Held
  <2>1. ASSUME NEW o \in Objects
        PROVE  (\E u \in Using' : request'[u].principal = o) \/ (\E s \in Sessions : principal[s] = o)
               <=> (\E u \in Using : request[u].principal = o) \/ (\E s \in Sessions : principal[s] = o)
    BY <1>1, <1>3, <1>4, <1>5 DEF Using
  <2> QED
    BY <2>1 DEF Held
<1> QED
  BY <1>6 DEF IInv, HeapInv, HeapKept

LEMMA AccountsUnchanged ==
  ASSUME IInv, account' = account
  PROVE  /\ account' \in [Accounts -> Row \cup {Unregistered}]
         /\ \A a \in Accounts : NextAccount(account[a], account'[a])
         /\ OneAccountPerName'
<1>1. \A a \in Accounts : NextAccount(account[a], account'[a])
  <2> SUFFICES ASSUME NEW a \in Accounts, account[a] # Unregistered
               PROVE  account[a].managers >= account[a].managers /\ account[a].version <= account[a].version
    BY DEF NextAccount
  <2>1. account[a] \in Row
    BY DEF IInv, Types
  <2> QED
    BY <2>1 DEF Row
<1>2. OneAccountPerName'
  BY DEF IInv, OneAccountPerName, Registered
<1> QED
  BY <1>1, <1>2 DEF IInv, Types

LEMMA QuietThread ==
  ASSUME IInv, NEW t \in Threads, NEW r,
         request' = [request EXCEPT ![t] = r],
         principal' = principal, account' = account, promoted' = promoted, HeapKept,
         RequestOK(r),
         r # Idle => IF request[t] = Idle THEN MaySend(r.session)
                     ELSE r.session = request[t].session,
         r \in Acting => IF request[t] = Idle THEN r.principal = principal[r.session] /\ SignedIn(r.session)
                         ELSE request[t] \in Acting /\ r.principal = request[t].principal,
         ThreadInv(t)',
         request[t].at \in {"hook", "set"} =>
           r.at \in {"hook", "set"} \/ ~SignedIn(request[t].session)
  PROVE  IInv'
<1>1. \A o \in Held \cap Held' :
        /\ NextPrincipal(heap[o], heap'[o])
        /\ heap'[o] = heap[o] \/ (request[t] \in Acting /\ o = request[t].principal)
  BY DEF HeapKept, IInv, HeapInv, NextPrincipal
<1>2. DOMAIN heap' = Held'
  BY DEF HeapKept
<1> QED
  BY <1>1, <1>2, AccountsUnchanged, ThreadStep

(* A request that ends leaves nothing to be said. *)
LEMMA IdleThread ==
  ASSUME IInv, NEW t \in Threads, request' = [request EXCEPT ![t] = Idle]
  PROVE  ThreadInv(t)'
<1>1. request'[t] = Idle
  BY DEF IInv, Types
<1> QED
  BY <1>1 DEF ThreadInv, ActingInv, SavingInv, SettingInv, Acting, Saving, Idle

LEMMA FinishKeeps ==
  ASSUME IInv, NEW t \in Threads, Finish(t),
         principal' = principal, account' = account, promoted' = promoted, HeapKept,
         request[t].at \in {"hook", "set"} => ~SignedIn(request[t].session)
  PROVE  IInv'
<1>1. request' = [request EXCEPT ![t] = Idle] /\ RequestOK(Idle) /\ Idle \notin Acting
  BY DEF Finish, RequestOK, Acting, Idle
<1> HIDE DEF Idle
<1> QED
  BY <1>1, IdleThread, QuietThread

LEMMA ReceiveKeeps ==
  ASSUME IInv, NEW t \in Threads, Receive(t)
  PROVE  IInv'
<1>1. PICK s \in Sessions, kind \in Kinds :
        /\ principal[s] # NoObject
        /\ MaySend(s)
        /\ request' = [request EXCEPT ![t] =
             [at |-> "role", kind |-> kind, session |-> s, principal |-> principal[s]]]
  BY DEF Receive, PrincipalOf
<1>2. PICK r : r = [at |-> "role", kind |-> kind, session |-> s, principal |-> principal[s]]
  OBVIOUS
<1>3. /\ r \in Acting /\ RequestOK(r) /\ r.principal = principal[s] /\ r.session = s
      /\ r.at = "role" /\ r # Idle
  <2>1. principal[s] \in Objects
    BY <1>1 DEF IInv, Types
  <2> QED
    BY <1>2, <2>1 DEF Acting, RequestOK, Idle
<1>4. /\ request' = [request EXCEPT ![t] = r] /\ request[t] = Idle /\ request[t] \notin Acting
      /\ principal' = principal /\ account' = account /\ promoted' = promoted /\ heap' = heap
  <2>1. request' = [request EXCEPT ![t] = r]
    BY <1>1, <1>2
  <2>2. /\ request[t] = Idle
        /\ principal' = principal /\ account' = account /\ promoted' = promoted /\ heap' = heap
    BY DEF Receive
  <2>3. Idle \notin Acting
    BY DEF Acting, Idle
  <2> QED
    BY <2>1, <2>2, <2>3
<1>5. request'[t] = r
  BY <1>4 DEF IInv, Types
<1>6. ThreadInv(t)'
  <2>1. ActingInv(t)'
    BY <1>3, <1>4, <1>5 DEF ActingInv, AccountOf, SignedIn
  <2>2. r \notin Saving /\ r.at # "set"
    BY <1>3 DEF Saving
  <2> QED
    BY <1>5, <2>1, <2>2 DEF ThreadInv, SavingInv, SettingInv
<1>7. SignedIn(s)
  BY <1>1 DEF SignedIn
<1>8. HeapKept
  BY <1>3, <1>4, <1>7, HeapUnchanged
<1>9. request[t].at \notin {"hook", "set"}
  BY <1>4 DEF Idle
<1> QED
  BY <1>1, <1>3, <1>4, <1>6, <1>7, <1>8, <1>9, QuietThread

LEMMA SignUpKeeps ==
  ASSUME IInv, NEW t \in Threads, SignUp(t)
  PROVE  IInv'
<1>1. PICK s \in Sessions, a \in Accounts \ (Registered \cup Drawn) :
        /\ principal[s] = NoObject
        /\ MaySend(s)
        /\ request' = [request EXCEPT ![t] =
            [at |-> "commit", kind |-> "signup", session |-> s, target |-> a,
             row |-> NewAccount]]
  BY DEF SignUp
<1>2. PICK r : r = [at |-> "commit", kind |-> "signup", session |-> s, target |-> a,
                    row |-> NewAccount]
  OBVIOUS
<1>3. /\ r \in Saving /\ RequestOK(r) /\ r.session = s /\ r \notin Acting
      /\ r.kind = "signup" /\ r.at = "commit" /\ r # Idle
  <2>1. NewAccount \in Row
    BY BoundsAssumption DEF NewAccount, Row
  <2> QED
    BY <1>2, <2>1 DEF Saving, Acting, RequestOK, Idle
<1>4. /\ request' = [request EXCEPT ![t] = r] /\ request[t] = Idle /\ request[t] \notin Acting
      /\ principal' = principal /\ account' = account /\ promoted' = promoted /\ heap' = heap
  <2>1. request' = [request EXCEPT ![t] = r]
    BY <1>1, <1>2
  <2>2. /\ request[t] = Idle
        /\ principal' = principal /\ account' = account /\ promoted' = promoted /\ heap' = heap
    BY DEF SignUp
  <2>3. Idle \notin Acting
    BY DEF Acting, Idle
  <2> QED
    BY <2>1, <2>2, <2>3
<1>5. request'[t] = r
  BY <1>4 DEF IInv, Types
<1>6. ThreadInv(t)'
  BY <1>3, <1>5 DEF ThreadInv, ActingInv, SavingInv, SettingInv
<1>7. HeapKept
  BY <1>3, <1>4, HeapUnchanged
<1>8. request[t].at \notin {"hook", "set"}
  BY <1>4 DEF Idle
<1> QED
  BY <1>1, <1>3, <1>4, <1>6, <1>7, <1>8, QuietThread

(* A request that is idle or waits for its hook has nothing to keep.       *)
LEMMA Indifferent ==
  ASSUME IInv, NEW t \in Threads, NEW r, request' = [request EXCEPT ![t] = r],
         r \notin Acting, r \notin Saving, r.at # "set"
  PROVE  ThreadInv(t)'
<1>1. request'[t] = r
  BY DEF IInv, Types
<1> QED
  BY <1>1 DEF ThreadInv, ActingInv, SavingInv, SettingInv

LEMMA WorkEnds ==
  ASSUME IInv, NEW t \in Threads, request[t] \in Acting \cup Saving, EndWork(t)
  PROVE  \E r : /\ request' = [request EXCEPT ![t] = r]
                /\ RequestOK(r) /\ r \notin Acting /\ ThreadInv(t)'
                /\ r # Idle => r.session = request[t].session
                /\ HasHook(request[t].kind) => r.at = "hook"
                /\ ~HasHook(request[t].kind) => r = Idle
<1>1. request[t].session \in Sessions
  BY DEF Acting, Saving
<1>2. CASE HasHook(request[t].kind)
  <2>1. PICK r : r = [at |-> "hook", session |-> request[t].session]
    OBVIOUS
  <2>2. request' = [request EXCEPT ![t] = r]
    BY <1>2, <2>1 DEF EndWork
  <2>3. r \in Hooking /\ RequestOK(r) /\ r.at = "hook" /\ r.session = request[t].session
    BY <1>1, <2>1 DEF Hooking, RequestOK
  <2>4. r \notin Acting /\ r \notin Saving
    BY <2>3 DEF Acting, Saving
  <2>5. ThreadInv(t)'
    BY <2>2, <2>3, <2>4, Indifferent
  <2> QED
    BY <1>2, <2>2, <2>3, <2>4, <2>5
<1>3. CASE ~HasHook(request[t].kind)
  <2>1. request' = [request EXCEPT ![t] = Idle]
    BY <1>3 DEF EndWork, Finish
  <2>2. RequestOK(Idle) /\ Idle \notin Acting /\ ThreadInv(t)'
    BY <2>1, IdleThread DEF RequestOK, Acting, Idle
  <2> QED
    BY <1>3, <2>1, <2>2
<1> QED
  BY <1>2, <1>3

LEMMA TakeRoleKeeps ==
  ASSUME IInv, NEW t \in Threads, TakeRole(t)
  PROVE  IInv'
<1>1. PICK r, o : r = [request[t] EXCEPT !.at = "serve"] /\ o = request[t].principal
  OBVIOUS
<1>2. /\ request' = [request EXCEPT ![t] = r] /\ request[t].at = "role" /\ HasRole(t)
      /\ principal' = principal /\ account' = account /\ promoted' = promoted
      /\ heap' = [x \in Held' |-> SetActiveRole(t)[x]]
  BY <1>1 DEF TakeRole, SetHeap, Restrict
<1>3. /\ request[t] \in Acting /\ RequestOK(request[t]) /\ request[t] # Idle
      /\ t \in Using /\ o \in Held
  <2>1. RequestOK(request[t])
    BY DEF IInv, Types
  <2>2. request[t] \in Acting /\ request[t] # Idle
    BY <1>2, <2>1, RequestShapes
  <2> QED
    BY <1>1, <2>1, <2>2, Users
<1>4. /\ r \in Acting /\ RequestOK(r) /\ r.at = "serve" /\ r # Idle
      /\ r.session = request[t].session /\ r.principal = o /\ r.kind = request[t].kind
  BY <1>1, <1>3 DEF Acting, RequestOK, Idle
<1>5. request'[t] = r
  BY <1>2 DEF IInv, Types
<1>6. PrincipalOK(heap[o]) /\ RoleClass(r.kind) \in DOMAIN heap[o].roles
  BY <1>1, <1>2, <1>3, <1>4 DEF IInv, HeapInv, HasRole, Mine
<1>7. ASSUME NEW x \in Held \cap Held'
      PROVE  /\ NextPrincipal(heap[x], heap'[x])
             /\ heap'[x] = heap[x] \/ (request[t] \in Acting /\ x = request[t].principal)
             /\ x = o => heap'[x].active = RoleClass(r.kind)
  <2>1. CASE x # o
    <3>1. heap'[x] = heap[x]
      BY <1>1, <1>2, <2>1 DEF SetActiveRole, IInv, HeapInv
    <3> QED
      BY <2>1, <3>1 DEF IInv, HeapInv, NextPrincipal
  <2>2. CASE x = o
    <3>1. heap'[o] = [heap[o] EXCEPT !.active = RoleClass(r.kind)]
      BY <1>1, <1>2, <1>4, <2>2 DEF SetActiveRole, IInv, HeapInv
    <3>2. heap'[o] = [account |-> heap[o].account, active |-> RoleClass(r.kind),
                      roles |-> heap[o].roles]
      BY <1>6, <3>1 DEF PrincipalOK
    <3>3. /\ heap'[o].account = heap[o].account /\ heap'[o].roles = heap[o].roles
          /\ heap'[o].active = RoleClass(r.kind)
      BY <3>2
    <3>4. PrincipalOK(heap'[o])
      BY <1>6, <3>2, <3>3 DEF PrincipalOK, IsPrincipal
    <3> QED
      BY <1>1, <1>3, <2>2, <3>3, <3>4 DEF NextPrincipal
  <2> QED
    BY <2>1, <2>2
<1>8. o \in Held'
  BY <1>1, <1>3, <1>4, <1>5 DEF Held, Using
<1>9. ThreadInv(t)'
  <2>1. heap'[o].account = heap[o].account /\ heap'[o].active = RoleClass(r.kind)
    BY <1>3, <1>7, <1>8 DEF NextPrincipal
  <2>2. ActingInv(t)
    BY DEF IInv, ThreadInv
  <2>3. SignedIn(r.session) => heap'[principal[r.session]].account = AccountOf(r.session)
    <3> SUFFICES ASSUME SignedIn(r.session)
                 PROVE  heap'[principal[r.session]].account = heap[principal[r.session]].account
      BY DEF AccountOf
    <3>1. r.session \in Sessions
      BY <1>4 DEF Acting
    <3>2. principal[r.session] \in Held
      BY <3>1, Users
    <3>3. principal[r.session] \in Held'
      BY <1>2, <3>1, <3>2 DEF Held
    <3> QED
      BY <1>7, <3>2, <3>3 DEF NextPrincipal
  <2>4. ActingInv(t)'
    BY <1>1, <1>2, <1>3, <1>4, <1>5, <2>1, <2>2, <2>3 DEF ActingInv, AccountOf, SignedIn
  <2>5. r \notin Saving /\ r.at # "set"
    BY <1>4 DEF Saving
  <2> QED
    BY <1>5, <2>4, <2>5 DEF ThreadInv, SavingInv, SettingInv
<1>10. DOMAIN heap' = Held'
  BY <1>2
<1>11. request[t].at \notin {"hook", "set"} /\ (r \in Acting => r.principal = request[t].principal)
  BY <1>1, <1>2, <1>4
<1>12. \A x \in Held \cap Held' :
         /\ NextPrincipal(heap[x], heap'[x])
         /\ heap'[x] = heap[x] \/ (request[t] \in Acting /\ x = request[t].principal)
  BY <1>7
<1>13. /\ account' \in [Accounts -> Row \cup {Unregistered}]
       /\ \A a \in Accounts : NextAccount(account[a], account'[a])
       /\ OneAccountPerName'
  BY <1>2, AccountsUnchanged
<1>14. /\ request' = [request EXCEPT ![t] = r] /\ principal' = principal /\ promoted' = promoted
  BY <1>2
<1> QED
  BY <1>3, <1>4, <1>9, <1>10, <1>11, <1>12, <1>13, <1>14, ThreadStep

(* The steps that end a request without any effect. *)
LEMMA RefuseKeeps ==
  ASSUME IInv, NEW t \in Threads, Refuse(t)
  PROVE  IInv'
BY Collected, FinishKeeps DEF Refuse

LEMMA AnswerKeeps ==
  ASSUME IInv, NEW t \in Threads, Answer(t)
  PROVE  IInv'
BY Collected, FinishKeeps DEF Answer

LEMMA KeepProfileKeeps ==
  ASSUME IInv, NEW t \in Threads, KeepProfile(t)
  PROVE  IInv'
<1>1. /\ EndWork(t) /\ HeapKept /\ request[t].at = "serve"
      /\ principal' = principal /\ account' = account /\ promoted' = promoted
  BY Collected DEF KeepProfile, Serves
<1>2. RequestOK(request[t])
  BY DEF IInv, Types
<1>3. request[t] \in Acting /\ request[t] # Idle
  BY <1>1, <1>2, RequestShapes
<1>4. PICK r : /\ request' = [request EXCEPT ![t] = r]
               /\ RequestOK(r) /\ r \notin Acting /\ ThreadInv(t)'
               /\ r # Idle => r.session = request[t].session
  BY <1>1, <1>3, WorkEnds
<1> QED
  BY <1>1, <1>3, <1>4, QuietThread

(* Rows of accounts, and what becomes of them. *)
LEMMA RowFields ==
  ASSUME NEW row \in Row
  PROVE  /\ row.enabled \in BOOLEAN /\ row.version \in Nat /\ row.version <= MaxVersion
         /\ row.managers \in Nat /\ row.managers <= MaxManagers
         /\ row # Unregistered
BY RowAssumption, BoundsAssumption DEF Row

LEMMA ActingAccount ==
  ASSUME IInv, NEW t \in Threads, request[t] \in Acting
  PROVE  /\ PrincipalOK(Mine(t)) /\ Mine(t).account \in Accounts
         /\ Mine(t).account \in Registered
         /\ account[Mine(t).account] \in Row
         /\ request[t].session \in Sessions
         /\ SignedIn(request[t].session) => AccountOf(request[t].session) = Mine(t).account
<1>1. t \in Using /\ request[t].principal \in Held
  BY Users
<1>2. PrincipalOK(Mine(t)) /\ Mine(t).account \in Registered
  BY <1>1 DEF IInv, HeapInv, Mine
<1>3. SignedIn(request[t].session) => AccountOf(request[t].session) = Mine(t).account
  BY DEF IInv, ThreadInv, ActingInv, Mine
<1>4. account[Mine(t).account] \in Row
  BY <1>2 DEF Registered, IInv, Types
<1> QED
  BY <1>2, <1>3, <1>4 DEF Acting, Registered

LEMMA BecomeManagerKeeps ==
  ASSUME IInv, NEW t \in Threads, BecomeManager(t)
  PROVE  IInv'
<1> DEFINE a == Mine(t).account
<1>1. /\ request[t].at = "serve" /\ request[t].kind = "become"
      /\ account[a].managers < MaxManagers
      /\ account' = [account EXCEPT ![a].managers = account[a].managers + 1]
      /\ promoted' = promoted \cup ({request[t].session} \ Tabbed)
      /\ EndWork(t) /\ HeapKept /\ principal' = principal
  BY Collected DEF BecomeManager, Serves
<1>2. RequestOK(request[t])
  BY DEF IInv, Types
<1>3. request[t] \in Acting /\ request[t] # Idle
  BY <1>1, <1>2, RequestShapes
<1>4. PICK r : /\ request' = [request EXCEPT ![t] = r]
               /\ RequestOK(r) /\ r \notin Acting /\ ThreadInv(t)'
               /\ r # Idle => r.session = request[t].session
               /\ r.at = "hook"
  BY <1>1, <1>3, WorkEnds DEF HasHook
<1>5. /\ a \in Accounts /\ a \in Registered /\ account[a] \in Row
      /\ SignedIn(request[t].session) => AccountOf(request[t].session) = a
  BY <1>3, ActingAccount
<1>6. /\ account[a].managers \in Nat /\ MaxManagers \in Nat
      /\ account \in [Accounts -> Row \cup {Unregistered}]
  BY <1>5, RowFields, BoundsAssumption DEF IInv, Types
<1>7. account'[a] = [account[a] EXCEPT !.managers = account[a].managers + 1]
  BY <1>1, <1>5, <1>6
<1>8. /\ account'[a] \in Row /\ account'[a].managers = account[a].managers + 1
      /\ account'[a].version = account[a].version /\ account'[a].enabled = account[a].enabled
  BY <1>1, <1>5, <1>6, <1>7 DEF Row
<1>9. /\ DOMAIN account' = Accounts
      /\ \A b \in Accounts : b # a => account'[b] = account[b]
  BY <1>1, <1>6
<1>10. account' \in [Accounts -> Row \cup {Unregistered}]
  <2>1. \A b \in Accounts : account'[b] \in Row \cup {Unregistered}
    BY <1>6, <1>8, <1>9
  <2>2. account' = [b \in Accounts |-> account'[b]]
    BY <1>1, <1>6
  <2> QED
    BY <2>1, <2>2
<1>11. ASSUME NEW b \in Accounts
       PROVE  NextAccount(account[b], account'[b]) /\ (b \in Registered' <=> b \in Registered)
  <2>1. CASE b = a
    BY <1>5, <1>6, <1>8, <2>1, RowFields DEF NextAccount, Registered
  <2>2. CASE b # a
    <3>1. account[b] # Unregistered => account[b] \in Row
      BY <1>6
    <3> QED
      BY <1>9, <2>2, <3>1, RowFields DEF NextAccount, Registered
  <2> QED
    BY <2>1, <2>2
<1>12. OneAccountPerName'
  BY <1>11 DEF IInv, OneAccountPerName, Registered
<1>13. /\ DOMAIN heap' = Held'
       /\ \A o \in Held \cap Held' :
            /\ NextPrincipal(heap[o], heap'[o])
            /\ heap'[o] = heap[o] \/ (request[t] \in Acting /\ o = request[t].principal)
  BY <1>1 DEF HeapKept, IInv, HeapInv, NextPrincipal
<1>14. /\ promoted \subseteq promoted'
       /\ promoted' = promoted \cup ({r.session} \ Tabbed)
       /\ SignedIn(r.session) => account'[AccountOf(r.session)].managers > 0
  <2>1. r.session = request[t].session
    BY <1>4 DEF Idle
  <2> QED
    BY <1>1, <1>5, <1>6, <1>8, <2>1
<1>15. request[t].at \notin {"hook", "set"}
  BY <1>1
<1> HIDE DEF a
<1> QED
  BY <1>1, <1>3, <1>4, <1>10, <1>11, <1>12, <1>13, <1>14, <1>15, ThreadStep

(* What an update leaves for its commit. *)
LEMMA AskKeeps ==
  ASSUME IInv, NEW t \in Threads, request[t].at = "serve",
         NEW a \in Registered, NEW row \in Row, Ask(t, a, row),
         row.version = account[a].version,
         request[t].kind \in {"profile", "status"},
         KeepsStatus(request[t]) => row = account[a]
  PROVE  IInv'
<1>1. PICK r : r = [at |-> "commit", kind |-> request[t].kind,
                    session |-> request[t].session, target |-> a, row |-> row]
  OBVIOUS
<1>2. /\ request' = [request EXCEPT ![t] = r] /\ account[a].version < MaxVersion
      /\ principal' = principal /\ account' = account /\ promoted' = promoted /\ HeapKept
  BY <1>1, Collected DEF Ask
<1>3. RequestOK(request[t])
  BY DEF IInv, Types
<1>4. request[t] \in Acting /\ request[t] # Idle
  BY <1>3, RequestShapes
<1>5. a \in Accounts /\ account[a] \in Row
  BY DEF Registered, IInv, Types
<1>6. /\ r \in Saving /\ RequestOK(r) /\ r \notin Acting /\ r.at = "commit"
      /\ r.session = request[t].session /\ r.kind = request[t].kind
      /\ r.target = a /\ r.row = row
  BY <1>1, <1>4, <1>5 DEF Saving, Acting, RequestOK
<1>7. request'[t] = r
  BY <1>2 DEF IInv, Types
<1>8. ThreadInv(t)'
  <2>1. account'[a].version = row.version /\ row.version \in Nat
    BY <1>2, RowFields
  <2>2. a \in Registered'
    BY <1>2 DEF Registered
  <2>3. SavingInv(t)'
    BY <1>2, <1>6, <1>7, <2>1, <2>2 DEF SavingInv, KeepsStatus
  <2> QED
    BY <1>6, <1>7, <2>3 DEF ThreadInv, ActingInv, SettingInv
<1> QED
  BY <1>2, <1>4, <1>6, <1>8, QuietThread

LEMMA UpdateProfileKeeps ==
  ASSUME IInv, NEW t \in Threads, UpdateProfile(t)
  PROVE  IInv'
<1>1. request[t].at = "serve" /\ request[t].kind = "profile" /\ RequestOK(request[t])
  BY DEF UpdateProfile, Serves, IInv, Types
<1>2. request[t] \in Acting
  BY <1>1, RequestShapes
<1>3. PICK a, enabled : a = Mine(t).account /\ enabled \in StatusSent(t)
                        /\ Ask(t, a, [account[a] EXCEPT !.enabled = enabled])
  BY DEF UpdateProfile
<1>4. a \in Registered /\ account[a] \in Row
  BY <1>2, <1>3, ActingAccount
<1>5. PICK row : row = [account[a] EXCEPT !.enabled = enabled]
  OBVIOUS
<1>6. /\ enabled \in BOOLEAN
      /\ request[t].session \in Plain => enabled = account[a].enabled
  BY <1>3, <1>4, RowFields DEF StatusSent
<1>7. row \in Row /\ row.version = account[a].version
  BY <1>4, <1>5, <1>6 DEF Row
<1>8. KeepsStatus(request[t]) => row = account[a]
  BY <1>4, <1>5, <1>6 DEF KeepsStatus, Row
<1>9. Ask(t, a, row)
  BY <1>3, <1>5
<1> QED
  BY <1>1, <1>4, <1>7, <1>8, <1>9, AskKeeps

LEMMA UpdateStatusKeeps ==
  ASSUME IInv, NEW t \in Threads, UpdateStatus(t)
  PROVE  IInv'
<1>1. PICK a \in Registered : Ask(t, a, [account[a] EXCEPT !.enabled = ~account[a].enabled])
  BY DEF UpdateStatus
<1>2. PICK row : row = [account[a] EXCEPT !.enabled = ~account[a].enabled]
  OBVIOUS
<1>3. account[a] \in Row
  BY DEF Registered, IInv, Types
<1>4. row \in Row /\ row.version = account[a].version
  BY <1>2, <1>3 DEF Row
<1>5. request[t].at = "serve" /\ request[t].kind = "status"
  BY DEF UpdateStatus, Serves
<1>6. Ask(t, a, row) /\ ~KeepsStatus(request[t])
  BY <1>1, <1>2, <1>5 DEF KeepsStatus
<1> QED
  BY <1>4, <1>5, <1>6, AskKeeps

-----------------------------------------------------------------------------
(* The commits and the hooks.                                              *)

LEMMA SavedTarget ==
  ASSUME IInv, NEW t \in Threads, request[t].at = "commit"
  PROVE  /\ request[t] \in Saving /\ request[t] # Idle /\ request[t] \notin Acting
         /\ request[t].target \in Accounts /\ request[t].row \in Row
         /\ request[t].session \in Sessions
         /\ request[t].kind \in {"profile", "status", "signup"}
<1>1. RequestOK(request[t])
  BY DEF IInv, Types
<1> QED
  BY <1>1, RequestShapes DEF Saving, Acting, Idle

LEMMA CommitSignUpKeeps ==
  ASSUME IInv, NEW t \in Threads, CommitSignUp(t)
  PROVE  IInv'
<1> DEFINE a == request[t].target
<1>1. /\ request[t].at = "commit" /\ NameIsFree(a)
      /\ account' = [account EXCEPT ![a] = request[t].row]
      /\ request' = [request EXCEPT ![t] = Idle]
      /\ heap' = heap /\ principal' = principal /\ promoted' = promoted
  BY DEF CommitSignUp, CanCommit, NameIsUnique, Finish
<1>2. a \in Accounts /\ request[t].row \in Row /\ request[t] \notin Acting /\ request[t] # Idle
  BY <1>1, SavedTarget
<1>3. a \notin Registered
  BY <1>1 DEF NameIsFree
<1>4. account \in [Accounts -> Row \cup {Unregistered}]
  BY DEF IInv, Types
<1>5. /\ account' \in [Accounts -> Row \cup {Unregistered}]
      /\ account'[a] \in Row /\ account'[a] # Unregistered
      /\ \A b \in Accounts : b # a => account'[b] = account[b]
  BY <1>1, <1>2, <1>4, RowAssumption
<1>6. \A b \in Accounts : NextAccount(account[b], account'[b])
  <2> SUFFICES ASSUME NEW b \in Accounts, account[b] # Unregistered
               PROVE  NextAccount(account[b], account'[b])
    BY DEF NextAccount
  <2>1. account'[b] = account[b] /\ account[b] \in Row
    BY <1>2, <1>3, <1>4, <1>5 DEF Registered
  <2> QED
    BY <2>1, RowFields DEF NextAccount
<1>7. OneAccountPerName'
  <2> SUFFICES ASSUME NEW b \in Registered', NEW d \in Registered', NameOf[b] = NameOf[d]
               PROVE  b = d
    BY DEF OneAccountPerName
  <2>1. (b = a \/ b \in Registered) /\ (d = a \/ d \in Registered)
    BY <1>5 DEF Registered
  <2> QED
    BY <1>1, <2>1 DEF NameIsFree, IInv, OneAccountPerName
<1>8. RequestOK(Idle) /\ Idle \notin Acting /\ ThreadInv(t)'
  BY <1>1, IdleThread DEF RequestOK, Acting, Idle
<1>9. HeapKept
  BY <1>1, <1>2, <1>8, HeapUnchanged
<1>10. /\ DOMAIN heap' = Held'
       /\ \A o \in Held \cap Held' :
            /\ NextPrincipal(heap[o], heap'[o])
            /\ heap'[o] = heap[o] \/ (request[t] \in Acting /\ o = request[t].principal)
  BY <1>9 DEF HeapKept, IInv, HeapInv, NextPrincipal
<1>11. request[t].at \notin {"hook", "set"}
  BY <1>1
<1> HIDE DEF a, Idle
<1> QED
  BY <1>1, <1>2, <1>5, <1>6, <1>7, <1>8, <1>10, <1>11, ThreadStep

(* The committed accounts after an update of one of them. *)
Updated(rows, a, enabled, version) ==
  [rows EXCEPT ![a].enabled = enabled, ![a].version = version]

LEMMA UpdatedRow ==
  ASSUME NEW rows \in [Accounts -> Row \cup {Unregistered}], NEW a \in Accounts, rows[a] \in Row,
         NEW enabled \in BOOLEAN, NEW version \in 0..MaxVersion
  PROVE  LET new == Updated(rows, a, enabled, version)
         IN  /\ new \in [Accounts -> Row \cup {Unregistered}]
             /\ \A b \in Accounts : b # a => new[b] = rows[b]
             /\ new[a] \in Row /\ new[a].enabled = enabled /\ new[a].version = version
             /\ new[a].managers = rows[a].managers
<1> DEFINE mid == [rows EXCEPT ![a].enabled = enabled]
           new == [mid EXCEPT ![a].version = version]
<1>1. mid[a] = [rows[a] EXCEPT !.enabled = enabled]
  OBVIOUS
<1>2. /\ mid[a] \in Row /\ mid[a].enabled = enabled
      /\ mid[a].managers = rows[a].managers
  BY <1>1 DEF Row
<1>3. \A b \in Accounts : b # a => mid[b] = rows[b]
  OBVIOUS
<1>4. mid \in [Accounts -> Row \cup {Unregistered}]
  <2>1. mid = [b \in Accounts |-> mid[b]]
    OBVIOUS
  <2>2. \A b \in Accounts : mid[b] \in Row \cup {Unregistered}
    BY <1>2, <1>3
  <2> HIDE DEF mid
  <2> QED
    BY <2>1, <2>2
<1> HIDE DEF mid
<1>5. new[a] = [mid[a] EXCEPT !.version = version]
  BY <1>4
<1>6. /\ new[a] \in Row /\ new[a].enabled = enabled /\ new[a].version = version
      /\ new[a].managers = rows[a].managers
  BY <1>2, <1>5 DEF Row
<1>7. \A b \in Accounts : b # a => new[b] = rows[b]
  BY <1>3, <1>4
<1>8. new \in [Accounts -> Row \cup {Unregistered}]
  <2>1. new = [b \in Accounts |-> new[b]]
    BY <1>4
  <2>2. \A b \in Accounts : new[b] \in Row \cup {Unregistered}
    BY <1>6, <1>7
  <2> HIDE DEF new
  <2> QED
    BY <2>1, <2>2
<1> HIDE DEF new
<1> QED
  BY <1>6, <1>7, <1>8 DEF new, mid, Updated

(* What the commit of an update does to the accounts: the status changes   *)
(* only if an administrator asked for it.                                  *)
LEMMA CommitUpdateRow ==
  ASSUME IInv, NEW t \in Threads, CommitUpdate(t)
  PROVE  LET a == request[t].target
         IN  /\ a \in Accounts /\ a \in Registered
             /\ account' \in [Accounts -> Row \cup {Unregistered}]
             /\ \A b \in Accounts : b # a => account'[b] = account[b]
             /\ account[a] \in Row /\ account'[a] \in Row
             /\ account'[a].managers = account[a].managers
             /\ account'[a].version = account[a].version + 1
             /\ KeepsStatus(request[t]) => account'[a].enabled = account[a].enabled
             /\ request[t].kind \in {"profile", "status"}
<1> DEFINE a == request[t].target
           row == request[t].row
<1>1. /\ request[t].at = "commit" /\ request[t].kind # "signup"
      /\ row.version = account[a].version
      /\ account' = Updated(account, a, row.enabled, row.version + 1)
  BY DEF CommitUpdate, CanCommit, SigningUp, VersionHolds, Updated
<1>2. /\ a \in Accounts /\ row \in Row /\ request[t] \in Saving
      /\ request[t].kind \in {"profile", "status"}
  BY <1>1, SavedTarget
<1>3. /\ a \in Registered /\ row.version < MaxVersion
      /\ KeepsStatus(request[t]) => row.enabled = account[a].enabled
  BY <1>1, <1>2 DEF IInv, ThreadInv, SavingInv
<1>4. account \in [Accounts -> Row \cup {Unregistered}] /\ account[a] \in Row
  BY <1>2, <1>3 DEF IInv, Types, Registered
<1>5. row.enabled \in BOOLEAN /\ row.version + 1 \in 0..MaxVersion
  BY <1>2, <1>3, RowFields, BoundsAssumption
<1>6. PICK rows, x, enabled, version :
        rows = account /\ x = a /\ enabled = row.enabled /\ version = row.version + 1
  OBVIOUS
<1>7. LET new == Updated(rows, x, enabled, version)
      IN  /\ new \in [Accounts -> Row \cup {Unregistered}]
          /\ \A b \in Accounts : b # x => new[b] = rows[b]
          /\ new[x] \in Row /\ new[x].enabled = enabled /\ new[x].version = version
          /\ new[x].managers = rows[x].managers
  BY <1>2, <1>4, <1>5, <1>6, UpdatedRow
<1>8. account' = Updated(rows, x, enabled, version)
  BY <1>1, <1>6
<1> HIDE DEF row
<1> QED
  BY <1>1, <1>2, <1>3, <1>4, <1>6, <1>7, <1>8

LEMMA CommitUpdateKeeps ==
  ASSUME IInv, NEW t \in Threads, CommitUpdate(t)
  PROVE  IInv'
<1> DEFINE a == request[t].target
<1>1. /\ request[t].at = "commit" /\ EndWork(t)
      /\ heap' = heap /\ principal' = principal /\ promoted' = promoted
  BY DEF CommitUpdate
<1>2. request[t] \in Saving /\ request[t] \notin Acting /\ request[t] # Idle
  BY <1>1, SavedTarget
<1>3. PICK r : /\ request' = [request EXCEPT ![t] = r]
               /\ RequestOK(r) /\ r \notin Acting /\ ThreadInv(t)'
               /\ r # Idle => r.session = request[t].session
  BY <1>1, <1>2, WorkEnds
<1>4. /\ a \in Accounts /\ a \in Registered
      /\ account' \in [Accounts -> Row \cup {Unregistered}]
      /\ \A b \in Accounts : b # a => account'[b] = account[b]
      /\ account[a] \in Row /\ account'[a] \in Row
      /\ account'[a].managers = account[a].managers
      /\ account'[a].version = account[a].version + 1
  BY CommitUpdateRow
<1>5. ASSUME NEW b \in Accounts
      PROVE  NextAccount(account[b], account'[b]) /\ (b \in Registered' <=> b \in Registered)
  <2>1. CASE b = a
    BY <1>4, <2>1, RowFields DEF NextAccount, Registered
  <2>2. CASE b # a
    <3>1. account[b] # Unregistered => account[b] \in Row
      BY DEF IInv, Types
    <3> QED
      BY <1>4, <2>2, <3>1, RowFields DEF NextAccount, Registered
  <2> QED
    BY <2>1, <2>2
<1>6. OneAccountPerName'
  BY <1>5 DEF IInv, OneAccountPerName, Registered
<1>7. HeapKept
  BY <1>1, <1>2, <1>3, HeapUnchanged
<1>8. /\ DOMAIN heap' = Held'
      /\ \A o \in Held \cap Held' :
           /\ NextPrincipal(heap[o], heap'[o])
           /\ heap'[o] = heap[o] \/ (request[t] \in Acting /\ o = request[t].principal)
  BY <1>7 DEF HeapKept, IInv, HeapInv, NextPrincipal
<1>9. request[t].at \notin {"hook", "set"}
  BY <1>1
<1> HIDE DEF a
<1> QED
  BY <1>1, <1>2, <1>3, <1>4, <1>5, <1>6, <1>8, <1>9, ThreadStep

LEMMA CommitFailsKeeps ==
  ASSUME IInv, NEW t \in Threads, CommitFails(t)
  PROVE  IInv'
<1>1. /\ request[t].at = "commit" /\ Finish(t) /\ heap' = heap
      /\ principal' = principal /\ account' = account /\ promoted' = promoted
  BY DEF CommitFails
<1>2. request[t] \notin Acting
  BY <1>1, SavedTarget
<1>3. RequestOK(Idle) /\ Idle \notin Acting
  BY DEF RequestOK, Acting, Idle
<1>4. HeapKept
  BY <1>1, <1>2, <1>3, HeapUnchanged DEF Finish
<1> QED
  BY <1>1, <1>4, FinishKeeps

LEMMA HookThrowsKeeps ==
  ASSUME IInv, NEW t \in Threads, HookThrows(t)
  PROVE  IInv'
<1>1. /\ request[t].at = "hook" /\ ~SignedIn(request[t].session) /\ Finish(t) /\ heap' = heap
      /\ principal' = principal /\ account' = account /\ promoted' = promoted
  BY DEF HookThrows, SignedIn
<1>2. request[t] \notin Acting
  BY <1>1 DEF Acting
<1>3. RequestOK(Idle) /\ Idle \notin Acting
  BY DEF RequestOK, Acting, Idle
<1>4. HeapKept
  BY <1>1, <1>2, <1>3, HeapUnchanged DEF Finish
<1> QED
  BY <1>1, <1>4, FinishKeeps

LEMMA LoadedPrincipal ==
  ASSUME IInv, NEW a \in Registered, NEW p \in Loaded(a)
  PROVE  /\ PrincipalOK(p) /\ p.account = a
         /\ account[a].managers > 0 => "Manager" \in DOMAIN p.roles
<1>1. a \in Accounts /\ account[a] \in Row
  BY DEF Registered, IInv, Types
<1>2. account[a].managers \in Nat /\ account[a].managers <= MaxManagers /\ MaxManagers \in Nat
  BY <1>1, RowFields, BoundsAssumption
<1>3. PICK n \in (IF account[a].managers = 0 THEN {0} ELSE 1..account[a].managers) :
        p = [account |-> a, active |-> "Authenticated",
             roles |-> [c \in ClassesOf(a) |-> <<a, c, IF c = "Manager" THEN n ELSE 0>>]]
  BY DEF Loaded
<1>4. n \in 0..MaxManagers
  BY <1>2, <1>3
<1>5. ClassesOf(a) \subseteq Classes /\ "Authenticated" \in ClassesOf(a)
      /\ (account[a].managers > 0 => "Manager" \in ClassesOf(a))
  BY DEF ClassesOf, Classes
<1>6. /\ p.account = a /\ p.active = "Authenticated" /\ DOMAIN p.roles = ClassesOf(a)
      /\ \A c \in ClassesOf(a) : p.roles[c] = <<a, c, IF c = "Manager" THEN n ELSE 0>>
  BY <1>3
<1>7. \A c \in ClassesOf(a) : p.roles[c] \in Roles /\ p.roles[c][1] = a /\ p.roles[c][2] = c
  <2> SUFFICES ASSUME NEW c \in ClassesOf(a)
               PROVE  p.roles[c] \in Roles /\ p.roles[c][1] = a /\ p.roles[c][2] = c
    OBVIOUS
  <2>1. PICK m : m = IF c = "Manager" THEN n ELSE 0
    OBVIOUS
  <2>2. m \in 0..MaxManagers
    BY <1>2, <1>4, <2>1
  <2> QED
    BY <1>1, <1>5, <1>6, <2>1, <2>2 DEF Roles
<1>8. p = [account |-> p.account, active |-> p.active, roles |-> p.roles]
  BY <1>3, <1>6
<1> QED
  BY <1>1, <1>5, <1>6, <1>7, <1>8 DEF PrincipalOK, IsPrincipal

LEMMA LoadPrincipalKeeps ==
  ASSUME IInv, NEW t \in Threads, LoadPrincipal(t)
  PROVE  IInv'
<1> DEFINE s == request[t].session
<1>1. PICK p \in Loaded(AccountOf(s)) :
        request' = [request EXCEPT ![t] = [at |-> "set", session |-> s, loaded |-> p]]
  BY DEF LoadPrincipal, AccountOf, PrincipalOf
<1>2. PICK r : r = [at |-> "set", session |-> s, loaded |-> p]
  OBVIOUS
<1>3. /\ request' = [request EXCEPT ![t] = r]
      /\ request[t].at = "hook" /\ SignedIn(s)
      /\ heap' = heap /\ principal' = principal /\ account' = account /\ promoted' = promoted
  <2>1. request' = [request EXCEPT ![t] = r]
    BY <1>1, <1>2
  <2> QED
    BY <2>1 DEF LoadPrincipal, SignedIn
<1>4. RequestOK(request[t])
  BY DEF IInv, Types
<1>5. s \in Sessions /\ request[t] # Idle /\ request[t] \notin Acting
  BY <1>3, <1>4, RequestShapes DEF Idle
<1>6. AccountOf(s) \in Registered
  BY <1>3, <1>5, Users DEF IInv, HeapInv, AccountOf
<1>7. /\ PrincipalOK(p) /\ p.account = AccountOf(s)
      /\ account[AccountOf(s)].managers > 0 => "Manager" \in DOMAIN p.roles
  BY <1>6, LoadedPrincipal
<1>8. r.at = "set" /\ r.session = s /\ r.loaded = p
  BY <1>2
<1>9. RequestOK(r) /\ r \notin Acting /\ r \notin Saving
  <2>1. r = [at |-> "set", session |-> r.session, loaded |-> r.loaded]
    BY <1>2, <1>8
  <2> QED
    BY <1>5, <1>7, <1>8, <2>1 DEF RequestOK, Acting, Saving
<1>10. HeapKept
  BY <1>3, <1>5, <1>9, HeapUnchanged
<1>11. request'[t] = r
  BY <1>3 DEF IInv, Types
<1>12. s \in promoted => "Manager" \in DOMAIN p.roles
  BY <1>3, <1>5, <1>7 DEF IInv, PromotedInv
<1>13. ThreadInv(t)'
  BY <1>3, <1>6, <1>7, <1>8, <1>9, <1>11, <1>12
     DEF ThreadInv, ActingInv, SavingInv, SettingInv, AccountOf, SignedIn, Registered
<1> QED
  BY <1>3, <1>5, <1>8, <1>9, <1>10, <1>13, QuietThread

-----------------------------------------------------------------------------
(* The steps that replace the principal of a session.                      *)

LEMMA PrincipalStep ==
  ASSUME IInv, NEW s \in Sessions, NEW q \in Objects \cup {NoObject},
         principal' = [principal EXCEPT ![s] = q], account' = account,
         promoted' \subseteq promoted, DOMAIN request' = Threads,
         \A t \in Threads : \/ request'[t] = request[t]
                            \/ request'[t] = Idle /\ request[t].at = "set" /\ request[t].session = s,
         DOMAIN heap' = Held', \A o \in Held' : o # q => heap'[o] = heap[o],
         q # NoObject =>
           /\ q \notin Held /\ PrincipalOK(heap'[q]) /\ heap'[q].account \in Registered
           /\ \A t \in Threads : request'[t] # Idle /\ request'[t].session = s =>
                SignedIn(s) /\ heap'[q].account = AccountOf(s)
           /\ s \in promoted' => /\ "Manager" \in DOMAIN heap'[q].roles
                                 /\ account[heap'[q].account].managers > 0
  PROVE  IInv'
<1>1. /\ principal'[s] = q /\ \A x \in Sessions : x # s => principal'[x] = principal[x]
      /\ principal' \in [Sessions -> Objects \cup {NoObject}]
  BY DEF IInv, Types
<1>2. /\ \A t \in Threads : RequestOK(request[t]) /\ RequestOK(request'[t])
      /\ Using = {t \in Threads : request[t] \in Acting}
      /\ \A x \in Sessions : SignedIn(x) => principal[x] \in Held
      /\ \A t \in Using : request[t].principal \in Held
  BY Users DEF RequestOK
<1>3. Using' = Using /\ \A t \in Using : request'[t] = request[t]
  <2>1. \A t \in Threads : t \in Using' => request'[t] = request[t]
    BY DEF Using, Idle
  <2>2. \A t \in Threads : t \in Using => request'[t] = request[t]
    BY DEF Using
  <2> QED
    BY <2>1, <2>2 DEF Using
<1>4. Held' \subseteq Held \cup {q}
  BY <1>1, <1>3 DEF Held
<1>5. \A t \in Using : request[t].principal \in Held'
  BY <1>2, <1>3 DEF Held
<1>6. \A x \in Sessions : principal'[x] # NoObject => principal'[x] \in Held'
  BY <1>1 DEF Held
<1>7. NoObject \notin Held /\ NoObject \notin Held'
  BY ObjectsAssumption DEF Held
<1>8. Registered' = Registered
  BY DEF Registered
<1>9. HeapInv'
  <2>1. ASSUME NEW o \in Held' PROVE PrincipalOK(heap'[o]) /\ heap'[o].account \in Registered
    BY <1>4, <1>7 DEF IInv, HeapInv
  <2> QED
    BY <1>8, <2>1 DEF HeapInv
<1>10. Types'
  BY <1>1, <1>2 DEF IInv, Types
<1>11. OneRequestPerPlainSession'
  BY DEF IInv, OneRequestPerPlainSession, Serving
<1>12. OneSessionPerObject'
  <2>1. \A x, y \in Sessions : principal'[x] = principal'[y] /\ principal'[x] # NoObject => x = y
    BY <1>1, <1>2 DEF IInv, OneSessionPerObject, SignedIn
  <2>2. ASSUME NEW t \in Using, NEW x \in Sessions, request[t].principal = principal'[x]
        PROVE  request[t].session = x
    <3>1. x # s
      BY <1>1, <1>2, <1>7, <2>2
    <3> QED
      BY <1>1, <2>2, <3>1 DEF IInv, OneSessionPerObject
  <2> QED
    BY <1>3, <2>1, <2>2 DEF IInv, OneSessionPerObject
<1>13. /\ \A x \in Sessions : x # s /\ principal[x] # NoObject => heap'[principal[x]] = heap[principal[x]]
       /\ \A t \in Using : heap'[request[t].principal] = heap[request[t].principal]
  <2>1. ASSUME NEW x \in Sessions, x # s, principal[x] # NoObject
        PROVE  heap'[principal[x]] = heap[principal[x]]
    <3>1. principal[x] \in Held /\ principal[x] \in Held'
      BY <1>1, <1>2, <1>6, <2>1 DEF SignedIn
    <3> QED
      BY <1>7, <3>1
  <2>2. ASSUME NEW t \in Using PROVE heap'[request[t].principal] = heap[request[t].principal]
    BY <1>2, <1>5, <1>7
  <2> QED
    BY <2>1, <2>2
<1>14. ASSUME NEW t \in Threads PROVE ThreadInv(t)'
  <2>1. CASE request'[t] = Idle
    <3>1. request'[t] \notin Acting /\ request'[t] \notin Saving /\ request'[t].at # "set"
      BY <2>1 DEF Acting, Saving, Idle
    <3> QED
      BY <3>1 DEF ThreadInv, ActingInv, SavingInv, SettingInv
  <2>2. CASE request'[t] = request[t] /\ request[t] # Idle
    <3>1. ThreadInv(t) /\ request[t].session \in Sessions
      BY <1>2, <2>2, RequestShapes DEF IInv
    <3>2. principal'[request[t].session] # NoObject =>
            /\ SignedIn(request[t].session)
            /\ heap'[principal'[request[t].session]].account = AccountOf(request[t].session)
      BY <1>1, <1>13, <2>2, <3>1 DEF SignedIn, AccountOf
    <3>3. ActingInv(t)'
      BY <1>2, <1>13, <2>2, <3>1, <3>2 DEF ThreadInv, ActingInv, SignedIn, AccountOf
    <3>4. SavingInv(t)'
      BY <1>8, <2>2, <3>1 DEF ThreadInv, SavingInv
    <3>5. SettingInv(t)'
      BY <1>8, <2>2, <3>1, <3>2 DEF ThreadInv, SettingInv, SignedIn, AccountOf
    <3> QED
      BY <3>3, <3>4, <3>5 DEF ThreadInv
  <2> QED
    BY <2>1, <2>2
<1>15. ASSUME NEW x \in Sessions PROVE PromotedInv(x)'
  <2> SUFFICES ASSUME x \in promoted', principal'[x] # NoObject
               PROVE  /\ account[heap'[principal'[x]].account].managers > 0
                      /\ \/ "Manager" \in DOMAIN heap'[principal'[x]].roles
                         \/ \E t \in Threads : request'[t].at \in {"hook", "set"} /\ request'[t].session = x
    BY DEF PromotedInv, SignedIn, AccountOf
  <2>1. CASE x = s
    BY <1>1, <2>1
  <2>2. CASE x # s
    <3>1. SignedIn(x) /\ principal'[x] = principal[x] /\ heap'[principal[x]] = heap[principal[x]]
      BY <1>1, <1>13, <2>2 DEF SignedIn
    <3>2. PromotedInv(x) /\ x \in promoted
      BY DEF IInv
    <3>3. \A t \in Threads : request[t].session = x => request'[t] = request[t]
      BY <2>2
    <3> QED
      BY <3>1, <3>2, <3>3 DEF PromotedInv, AccountOf
  <2> QED
    BY <2>1, <2>2
<1>16. OneAccountPerName'
  BY <1>8 DEF IInv, OneAccountPerName
<1> QED
  BY <1>9, <1>10, <1>11, <1>12, <1>14, <1>15, <1>16 DEF IInv

(* A new object comes into use. *)
LEMMA Installed ==
  ASSUME IInv, NEW s \in Sessions, NEW o \in Fresh, NEW p, SetHeap(With(o, p)),
         principal' = [principal EXCEPT ![s] = o],
         \A t \in Threads : request'[t] = request[t] \/ request'[t] = Idle
  PROVE  /\ o \in Objects /\ o # NoObject /\ o \notin Held
         /\ DOMAIN heap' = Held' /\ heap'[o] = p
         /\ \A x \in Held' : x # o => heap'[x] = heap[x]
<1>1. o \in Objects /\ o # NoObject /\ o \notin Held
  BY ObjectsAssumption DEF Fresh, IInv, HeapInv
<1>2. o \in Held'
  BY <1>1 DEF Held, IInv, Types
<1>3. heap' = [x \in Held' |-> With(o, p)[x]]
  BY DEF SetHeap, Restrict
<1>4. With(o, p)[o] = p
  BY DEF With
<1>5. ASSUME NEW x \in Held', x # o PROVE heap'[x] = heap[x]
  <2>1. x \in Held
    <3>1. \A t \in Using' : t \in Using /\ request'[t] = request[t]
      BY DEF Using, Idle
    <3>2. \A z \in Sessions : principal'[z] = principal[z] \/ principal'[z] = o
      BY DEF IInv, Types
    <3> QED
      BY <1>5, <3>1, <3>2 DEF Held
  <2>2. DOMAIN heap = Held
    BY DEF IInv, HeapInv
  <2> QED
    BY <1>3, <1>5, <2>1, <2>2 DEF With
<1> QED
  BY <1>1, <1>2, <1>3, <1>4, <1>5

LEMMA SetAuthenticationKeeps ==
  ASSUME IInv, NEW t \in Threads, SetAuthentication(t)
  PROVE  IInv'
<1> DEFINE s == request[t].session
           p == request[t].loaded
<1>1. request[t].at = "set" /\ Finish(t) /\ account' = account /\ promoted' = promoted
  BY DEF SetAuthentication
<1>2. RequestOK(request[t])
  BY DEF IInv, Types
<1>3. s \in Sessions /\ request[t] # Idle /\ request[t] \notin Acting /\ PrincipalOK(p)
  BY <1>1, <1>2, RequestShapes DEF Idle
<1>4. CASE principal[s] = NoObject
  <2>1. principal' = principal /\ heap' = heap
    BY <1>4 DEF SetAuthentication
  <2>2. RequestOK(Idle) /\ Idle \notin Acting
    BY DEF RequestOK, Acting, Idle
  <2>3. HeapKept
    BY <1>1, <1>3, <2>1, <2>2, HeapUnchanged DEF Finish
  <2> QED
    BY <1>1, <1>4, <2>1, <2>3, FinishKeeps DEF SignedIn
<1>5. CASE principal[s] # NoObject
  <2>1. PICK o \in Fresh : principal' = [principal EXCEPT ![s] = o] /\ SetHeap(With(o, p))
    BY <1>5 DEF SetAuthentication
  <2>2. /\ DOMAIN request' = Threads /\ request'[t] = Idle
        /\ \A u \in Threads : u # t => request'[u] = request[u]
    BY <1>1 DEF Finish, IInv, Types
  <2>3. /\ o \in Objects /\ o # NoObject /\ o \notin Held
        /\ DOMAIN heap' = Held' /\ heap'[o] = p
        /\ \A x \in Held' : x # o => heap'[x] = heap[x]
    BY <1>3, <2>1, <2>2, Installed
  <2>4. /\ p.account \in Registered /\ p.account = AccountOf(s) /\ SignedIn(s)
        /\ s \in promoted => "Manager" \in DOMAIN p.roles
    BY <1>1, <1>5 DEF IInv, ThreadInv, SettingInv, SignedIn
  <2>5. s \in promoted => account[p.account].managers > 0
    BY <1>3, <2>4 DEF IInv, PromotedInv
  <2>6. \A u \in Threads : \/ request'[u] = request[u]
                           \/ request'[u] = Idle /\ request[u].at = "set" /\ request[u].session = s
    BY <1>1, <2>2
  <2> HIDE DEF s, p
  <2>7. /\ PrincipalOK(heap'[o]) /\ heap'[o].account \in Registered
        /\ SignedIn(s) /\ heap'[o].account = AccountOf(s)
    BY <1>3, <2>3, <2>4
  <2>8. s \in promoted' => /\ "Manager" \in DOMAIN heap'[o].roles
                           /\ account[heap'[o].account].managers > 0
    BY <1>1, <2>3, <2>4, <2>5
  <2>9. account' = account /\ promoted' \subseteq promoted
    BY <1>1
  <2> QED
    BY <1>3, <2>1, <2>2, <2>3, <2>6, <2>7, <2>8, <2>9, PrincipalStep
<1> QED
  BY <1>4, <1>5

LEMMA SignInKeeps ==
  ASSUME IInv, NEW s \in Sessions, SignIn(s)
  PROVE  IInv'
<1>1. PICK o \in Fresh, a \in Registered : \E p \in Loaded(a) :
        principal' = [principal EXCEPT ![s] = o] /\ SetHeap(With(o, p))
  BY DEF SignIn
<1>2. PICK p \in Loaded(a) : principal' = [principal EXCEPT ![s] = o] /\ SetHeap(With(o, p))
  BY <1>1
<1>3. /\ s \notin Busy /\ promoted' = promoted \ {s}
      /\ account' = account /\ request' = request
  BY DEF SignIn
<1>4. PrincipalOK(p) /\ p.account = a
  BY LoadedPrincipal
<1>5. /\ o \in Objects /\ o # NoObject /\ o \notin Held
      /\ DOMAIN heap' = Held' /\ heap'[o] = p
      /\ \A x \in Held' : x # o => heap'[x] = heap[x]
  BY <1>2, <1>3, Installed
<1>6. \A t \in Threads : ~(request'[t] # Idle /\ request'[t].session = s)
  BY <1>3 DEF Busy, Serving
<1>7. DOMAIN request' = Threads
  BY <1>3 DEF IInv, Types
<1> QED
  BY <1>2, <1>3, <1>4, <1>5, <1>6, <1>7, PrincipalStep

LEMMA SignOutKeeps ==
  ASSUME IInv, NEW s \in Sessions, SignOut(s)
  PROVE  IInv'
<1>1. /\ principal' = [principal EXCEPT ![s] = NoObject]
      /\ account' = account /\ request' = request /\ promoted' = promoted
      /\ DOMAIN heap' = Held' /\ \A o \in Held' : heap'[o] = heap[o]
  BY DEF SignOut, SetHeap, Restrict
<1>2. DOMAIN request' = Threads
  BY <1>1 DEF IInv, Types
<1> QED
  BY <1>1, <1>2, PrincipalStep

-----------------------------------------------------------------------------
(* The theorems.                                                           *)

LEMMA InitIInv == Init => IInv
<1> SUFFICES ASSUME Init PROVE IInv
  OBVIOUS
<1>1. /\ \A t \in Threads : request[t] = Idle
      /\ \A s \in Sessions : principal[s] = NoObject
      /\ promoted = {}
  BY DEF Init
<1>2. NewAccount \in Row /\ NewAccount # Unregistered
  <2>1. NewAccount \in Row
    BY BoundsAssumption DEF NewAccount, Row
  <2> QED
    BY <2>1, RowAssumption
<1>3. Serving = {} /\ Using = {} /\ Held = {}
  <2>1. Serving = {} /\ Using = {}
    BY <1>1 DEF Serving, Using, Idle
  <2> QED
    BY <1>1, <2>1, ObjectsAssumption DEF Held
<1>4. Types
  <2>1. account \in [Accounts -> Row \cup {Unregistered}]
    BY <1>2 DEF Init
  <2>2. principal \in [Sessions -> Objects \cup {NoObject}]
    BY DEF Init
  <2>3. DOMAIN request = Threads
    BY DEF Init
  <2> QED
    BY <1>1, <2>1, <2>2, <2>3 DEF Types, RequestOK
<1>5. HeapInv
  BY <1>3 DEF Init, HeapInv
<1>6. Registered = Founders
  <2>1. \A a \in Accounts : account[a] = IF a \in Founders THEN NewAccount ELSE Unregistered
    BY DEF Init
  <2> HIDE DEF NewAccount
  <2> QED
    BY <1>2, <2>1, SetsAssumption DEF Registered
<1>7. OneAccountPerName
  BY <1>6, SetsAssumption DEF OneAccountPerName
<1>8. OneRequestPerPlainSession /\ OneSessionPerObject
  BY <1>1, <1>3 DEF OneRequestPerPlainSession, OneSessionPerObject
<1>9. \A t \in Threads : ThreadInv(t)
  BY <1>1 DEF ThreadInv, ActingInv, SavingInv, SettingInv, Acting, Saving, Idle
<1>10. \A s \in Sessions : PromotedInv(s)
  BY <1>1 DEF PromotedInv
<1> QED
  BY <1>4, <1>5, <1>7, <1>8, <1>9, <1>10 DEF IInv

LEMMA NextIInv == IInv /\ [Next]_vars => IInv'
<1> SUFFICES ASSUME IInv, [Next]_vars PROVE IInv'
  OBVIOUS
<1>1. ASSUME UNCHANGED vars PROVE IInv'
  <2>1. /\ Held' = Held /\ Using' = Using /\ Registered' = Registered /\ Serving' = Serving
    BY <1>1 DEF vars, Held, Using, Registered, Serving
  <2> QED
    BY <1>1, <2>1 DEF vars, IInv, Types, HeapInv, OneAccountPerName,
       OneRequestPerPlainSession, OneSessionPerObject, ThreadInv, ActingInv, SavingInv,
       SettingInv, PromotedInv, SignedIn, AccountOf
<1>2. ASSUME NEW s \in Sessions, SignIn(s) \/ SignOut(s) PROVE IInv'
  BY <1>2, SignInKeeps, SignOutKeeps
<1>3. ASSUME NEW t \in Threads, handleRequest(t) PROVE IInv'
  <2>1. CASE Serve(t)
    BY <2>1, AnswerKeeps, BecomeManagerKeeps, UpdateProfileKeeps, KeepProfileKeeps,
       UpdateStatusKeeps DEF Serve
  <2> QED
    BY <1>3, <2>1, ReceiveKeeps, TakeRoleKeeps, RefuseKeeps, SignUpKeeps, CommitSignUpKeeps,
       CommitUpdateKeeps, CommitFailsKeeps, LoadPrincipalKeeps, HookThrowsKeeps,
       SetAuthenticationKeeps DEF handleRequest
<1> QED
  BY <1>1, <1>2, <1>3 DEF Next

(* The state always satisfies the invariant: the objects that sessions     *)
(* point to are well formed and belong to one session each, and a pending  *)
(* update was made from a row that is not newer than the committed one.    *)
THEOREM Invariance == Spec => []IInv
BY InitIInv, NextIInv, PTL DEF Spec

(* Accounts, principals and requests are what their classes declare: in    *)
(* particular the active role of a principal is one of its roles, which    *)
(* Principal.getActiveRoleId asserts.                                      *)
THEOREM TypesHold == Spec => []TypeOK
BY Invariance, IInvType, PTL

(* A request acts for the account of its session, with its roles.          *)
THEOREM RequestsActForTheirAccount == Spec => []OwnAccount
BY Invariance, IInvOwn, PTL

(* Without parallel requests in its session, a service gets a role of the  *)
(* class it was authorised for.                                            *)
THEOREM RolesAreAuthorised == Spec => []RoleAsAuthorised
BY Invariance, IInvRole, PTL

(* Who became a manager can act as one in the same session.                *)
THEOREM NewManagersCanGoOn == Spec => []NewRoleUsable
BY Invariance, IInvUsable, PTL

(* User names stay unique while visitors sign up concurrently.             *)
THEOREM NamesAreUnique == Spec => []OneAccountPerName
BY Invariance, PTL DEF IInv

(* An update of the own account from its page never enables or disables    *)
(* it, however old the row it was made from: the status changes with the   *)
(* commits of the requests that set it.                                    *)
THEOREM StatusIsNotUndone == Spec => StatusKept
<1> DEFINE Stored(a) == \E t \in Serving :
             /\ request[t].at = "commit"
             /\ request[t].target = a
             /\ SetsStatus(t)
             /\ request'[t] # request[t]
<1>1. ASSUME IInv, [Next]_vars, NEW a \in Registered, account'[a].enabled # account[a].enabled
      PROVE  Stored(a)
  <2>1. a \in Accounts /\ account[a] \in Row /\ account \in [Accounts -> Row \cup {Unregistered}]
    BY <1>1 DEF Registered, IInv, Types
  <2>2. account' # account
    BY <1>1
  <2>3. PICK t \in Threads : BecomeManager(t) \/ CommitSignUp(t) \/ CommitUpdate(t)
    BY <1>1, <2>2 DEF Next, vars, SignIn, SignOut, handleRequest, Receive, TakeRole, Refuse,
       Serve, SignUp, CommitFails, LoadPrincipal, HookThrows, SetAuthentication,
       Answer, UpdateProfile, KeepProfile, UpdateStatus, Ask
  <2>4. CASE BecomeManager(t)
    <3>1. PICK b : account' = [account EXCEPT ![b].managers = account[b].managers + 1]
      BY <2>4 DEF BecomeManager
    <3>2. account'[a].enabled = account[a].enabled
      <4>1. CASE a = b
        <5>1. account'[a] = [account[a] EXCEPT !.managers = account[a].managers + 1]
          BY <2>1, <3>1, <4>1
        <5> QED
          BY <2>1, <5>1 DEF Row
      <4>2. CASE a # b
        BY <2>1, <3>1, <4>2
      <4> QED
        BY <4>1, <4>2
    <3> QED
      BY <1>1, <3>2
  <2>5. CASE CommitSignUp(t)
    <3>1. NameIsFree(request[t].target)
          /\ account' = [account EXCEPT ![request[t].target] = request[t].row]
      BY <2>5 DEF CommitSignUp, CanCommit, NameIsUnique
    <3>2. a # request[t].target
      BY <1>1, <3>1 DEF NameIsFree
    <3> QED
      BY <1>1, <2>1, <3>1, <3>2
  <2>6. CASE CommitUpdate(t)
    <3>1. /\ request[t].at = "commit" /\ EndWork(t)
          /\ a # request[t].target => account'[a] = account[a]
          /\ KeepsStatus(request[t]) =>
               account'[request[t].target].enabled = account[request[t].target].enabled
          /\ request[t].kind \in {"profile", "status"}
      BY <1>1, <2>1, <2>6, CommitUpdateRow DEF CommitUpdate
    <3>2. SetsStatus(t) /\ request[t].target = a
      BY <1>1, <3>1 DEF SetsStatus, KeepsStatus
    <3>3. t \in Serving /\ request'[t] # request[t]
      <4>1. request'[t].at # "commit"
        BY <1>1, <3>1 DEF EndWork, Finish, Idle, IInv, Types
      <4> QED
        BY <3>1, <4>1 DEF Serving, Idle
    <3> QED
      BY <3>1, <3>2, <3>3
  <2> QED
    BY <2>3, <2>4, <2>5, <2>6
<1>2. IInv /\ [Next]_vars =>
        [\A a \in Registered : account'[a].enabled # account[a].enabled => Stored(a)]_vars
  BY <1>1
<1> QED
  BY <1>2, Invariance, PTL DEF Spec, StatusKept
=============================================================================
