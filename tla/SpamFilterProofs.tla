--------------------------- MODULE SpamFilterProofs ---------------------------
(***************************************************************************)
(* Proofs about SpamFilter, for any number of administrators and authors,  *)
(* any words and texts and any number of rows.                             *)
(***************************************************************************)
EXTENDS SpamFilter, Sums, FunctionTheorems, SequenceTheorems, TLAPS

-----------------------------------------------------------------------------
(* The inductive invariant.                                                *)

Forms == [at : {"form"}, id : Entries \cup {Threshold}, version : 0..MaxVersion]

Saved(x) == IF x = Threshold THEN Config ELSE Entry \cup {Deleted}

AdminOK(r) ==
  \/ r = Idle
  \/ r \in Forms
  \/ /\ r = [at |-> "commit", id |-> r.id, row |-> r.row, base |-> r.base, rivals |-> r.rivals]
     /\ r.id \in Entries \cup {Threshold}
     /\ r.row \in Saved(r.id)
     /\ r.rivals \subseteq Entries

Types ==
  /\ list \in [Entries -> Entry \cup {Unborn, Deleted}]
  /\ config \in Config
  /\ DOMAIN admin = Administrators
  /\ \A c \in Administrators : AdminOK(admin[c])
  /\ DOMAIN author = Authors
  /\ rivals \in [Entries -> SUBSET Entries]

(* A row that has the word of a save came after the validation of the      *)
(* save, which found the word new.                                         *)
SaveInv(c) ==
  admin[c].at = "commit" /\ admin[c].id # Threshold /\ admin[c].row # Deleted =>
    \A e \in Entries \ {admin[c].id} :
      Live(e) /\ list[e].word = admin[c].row.word => e \in admin[c].rivals

(* How many texts of a form are judged. *)
Judged(r) == Len(r.texts) - Len(r.left)

LeftOver(r) ==
  /\ r.texts \in Seq(Texts) /\ r.left \in Seq(Texts)
  /\ Judged(r) \in Nat
  /\ \A i \in 1..Len(r.left) : r.left[i] = r.texts[Judged(r) + i]
  /\ r.refused \in BOOLEAN

(* A request that has read something reads the same for ever, and has      *)
(* judged the texts behind it by that.                                     *)
JudgedByOne(r) ==
  /\ r.view = r.asked
  /\ r.refused <=> \E i \in 1..Judged(r) : IsSpam(r.texts[i], r.asked)

AuthorInv(r) ==
  \/ r = Idle
  \/ r.at = "start" /\ LeftOver(r) /\ Judged(r) = 0 /\ r.left # <<>> /\ ~r.refused
  \/ r.at = "list" /\ LeftOver(r) /\ r.left # <<>> /\ JudgedByOne(r)
  \/ /\ r.at = "threshold" /\ LeftOver(r) /\ r.left # <<>> /\ JudgedByOne(r)
     /\ r.matches = Matches(Head(r.left), r.asked.words)
  \/ r.at = "end" /\ LeftOver(r) /\ r.left = <<>> /\ JudgedByOne(r)

IInv ==
  /\ Types
  /\ \A c \in Administrators : SaveInv(c)
  /\ \A a \in Authors : AuthorInv(author[a])
  /\ DuplicatesAreRaces

-----------------------------------------------------------------------------
(* The requests of the administrators.                                     *)

(* A step of an administrator that leaves the rows alone. *)
LEMMA AdminStep ==
  ASSUME IInv, NEW c \in Administrators, NEW CONSTANT new, AdminOK(new),
         admin' = [admin EXCEPT ![c] = new],
         UNCHANGED <<list, config, author, rivals>>,
         new.at = "commit" /\ new.id # Threshold /\ new.row # Deleted =>
           \A e \in Entries \ {new.id} : Live(e) => list[e].word # new.row.word
  PROVE  IInv'
<1>1. DOMAIN admin = Administrators
  BY DEF IInv, Types
<1>2. admin'[c] = new /\ DOMAIN admin' = Administrators
      /\ \A d \in Administrators \ {c} : admin'[d] = admin[d]
  BY <1>1
<1>3. \A e \in Entries : Live(e)' <=> Live(e)
  BY DEF Live
<1>4. Types'
  BY <1>2 DEF IInv, Types
<1>5. ASSUME NEW d \in Administrators PROVE SaveInv(d)'
  <2>1. CASE d = c
    BY <1>2, <1>3, <2>1 DEF SaveInv
  <2>2. CASE d # c
    BY <1>2, <1>3, <2>2 DEF SaveInv, IInv
  <2> QED
    BY <2>1, <2>2
<1>6. \A a \in Authors : AuthorInv(author[a])'
  BY DEF IInv
<1>7. DuplicatesAreRaces'
  BY <1>3 DEF IInv, DuplicatesAreRaces
<1> QED
  BY <1>4, <1>5, <1>6, <1>7 DEF IInv

LEMMA BecomesIdle ==
  ASSUME IInv, NEW c \in Administrators, admin' = [admin EXCEPT ![c] = Idle],
         UNCHANGED <<list, config, author, rivals>>
  PROVE  IInv'
<1>1. AdminOK(Idle) /\ Idle.at # "commit"
  BY DEF AdminOK, Idle
<1>2. PICK new : new = Idle
  OBVIOUS
<1> QED
  BY <1>1, <1>2, AdminStep

(* A live row is an entry, and the threshold has a row of its own. *)
LEMMA LiveRow ==
  ASSUME IInv, NEW x \in Entries \cup {Threshold}, x # Threshold => Live(x)
  PROVE  /\ RowOf(x).version \in 0..MaxVersion
         /\ x # Threshold => RowOf(x) = list[x] /\ list[x] \in Entry
         /\ x = Threshold => RowOf(x) = config
BY DEF IInv, Types, RowOf, Live, Entry, Config

LEMMA ShowFormKeeps ==
  ASSUME IInv, NEW c \in Administrators, ShowForm(c)
  PROVE  IInv'
<1>1. PICK x \in {e \in Entries : Live(e)} \cup {Threshold} :
        admin' = [admin EXCEPT ![c] = [at |-> "form", id |-> x, version |-> RowOf(x).version]]
  BY DEF ShowForm
<1>2. PICK new : new = [at |-> "form", id |-> x, version |-> RowOf(x).version]
  OBVIOUS
<1>3. new \in Forms
  BY <1>2, LiveRow DEF Forms
<1>4. AdminOK(new) /\ new.at # "commit" /\ admin' = [admin EXCEPT ![c] = new]
  BY <1>1, <1>2, <1>3 DEF AdminOK
<1>5. UNCHANGED <<list, config, author, rivals>>
  BY DEF ShowForm
<1> QED
  BY <1>4, <1>5, AdminStep

(* A request that leaves a row which the list does not have under another  *)
(* id.                                                                     *)
LEMMA AskKeeps ==
  ASSUME IInv, NEW c \in Administrators, NEW x \in Entries \cup {Threshold},
         NEW CONSTANT row, row \in Saved(x), Ask(c, x, row),
         x # Threshold /\ row # Deleted => \A e \in Entries : Live(e) => list[e].word # row.word
  PROVE  IInv'
<1>1. PICK new : new = [at |-> "commit", id |-> x, row |-> row, base |-> RowOf(x), rivals |-> {}]
  OBVIOUS
<1>2. /\ new.at = "commit" /\ new.id = x /\ new.row = row /\ new.rivals = {}
      /\ new = [at |-> "commit", id |-> new.id, row |-> new.row, base |-> new.base,
                rivals |-> new.rivals]
  BY <1>1
<1>3. AdminOK(new)
  BY <1>2 DEF AdminOK
<1>4. admin' = [admin EXCEPT ![c] = new] /\ UNCHANGED <<list, config, author, rivals>>
  BY <1>1 DEF Ask
<1> QED
  BY <1>2, <1>3, <1>4, AdminStep

LEMMA CreateWordKeeps ==
  ASSUME IInv, NEW c \in Administrators, CreateWord(c)
  PROVE  IInv'
<1>1. PICK e \in Entries, w \in Words : IsNew(w) /\ Ask(c, e, [word |-> w, version |-> 0])
  BY DEF CreateWord
<1>2. PICK row : row = [word |-> w, version |-> 0]
  OBVIOUS
<1>3. row \in Entry /\ row.word = w /\ Ask(c, e, row)
  BY <1>1, <1>2, WordsAssumption DEF Entry
<1>4. row \in Saved(e)
  BY <1>3, RowsAssumption DEF Saved
<1> QED
  BY <1>1, <1>3, <1>4, AskKeeps DEF IsNew

LEMMA UpdateWordKeeps ==
  ASSUME IInv, NEW c \in Administrators, UpdateWord(c)
  PROVE  IInv'
<1>1. PICK e \in Entries, w \in Words :
        FormHolds(c, e) /\ IsNew(w) /\ Ask(c, e, [word |-> w, version |-> list[e].version + 1])
  BY DEF UpdateWord
<1>2. PICK row : row = [word |-> w, version |-> list[e].version + 1]
  OBVIOUS
<1>3. list[e].version \in 0..MaxVersion /\ list[e].version < MaxVersion
  BY <1>1, LiveRow, RowsAssumption DEF FormHolds
<1>4. row \in Entry /\ row.word = w /\ Ask(c, e, row)
  BY <1>1, <1>2, <1>3, WordsAssumption DEF Entry
<1>5. row \in Saved(e)
  BY <1>4, RowsAssumption DEF Saved
<1> QED
  BY <1>1, <1>4, <1>5, AskKeeps DEF IsNew

LEMMA DeleteWordKeeps ==
  ASSUME IInv, NEW c \in Administrators, DeleteWord(c)
  PROVE  IInv'
<1>1. PICK e \in Entries : Ask(c, e, Deleted)
  BY DEF DeleteWord
<1>2. Deleted \in Saved(e)
  BY RowsAssumption DEF Saved
<1> QED
  BY <1>1, <1>2, AskKeeps

LEMMA UpdateThresholdKeeps ==
  ASSUME IInv, NEW c \in Administrators, UpdateThreshold(c)
  PROVE  IInv'
<1>1. PICK n \in Thresholds :
        /\ FormHolds(c, Threshold) /\ InRange(n)
        /\ Ask(c, Threshold, [threshold |-> n, version |-> config.version + 1])
  BY DEF UpdateThreshold
<1>2. PICK row : row = [threshold |-> n, version |-> config.version + 1]
  OBVIOUS
<1>3. config.version \in 0..MaxVersion /\ config.version < MaxVersion
  BY <1>1, LiveRow DEF FormHolds
<1>4. row \in Config /\ Ask(c, Threshold, row)
  BY <1>1, <1>2, <1>3, WordsAssumption DEF Config, InRange
<1>5. row \in Saved(Threshold)
  BY <1>4 DEF Saved
<1> QED
  BY <1>4, <1>5, AskKeeps

(* What a commit leaves with the other administrators. *)
LEMMA CommitAdmin ==
  ASSUME IInv, NEW c \in Administrators, Commit(c), NEW d \in Administrators
  PROVE  /\ AdminOK(admin'[d])
         /\ admin'[d].at = "commit" =>
              /\ d # c /\ admin[d].at = "commit"
              /\ admin'[d].id = admin[d].id /\ admin'[d].row = admin[d].row
              /\ admin'[d].rivals = admin[d].rivals \cup ({admin[c].id} \ {Threshold})
<1> DEFINE x == admin[c].id
           rival == [admin[d] EXCEPT !.rivals = @ \cup {x}]
<1>1. admin'[d] = IF d = c THEN Idle
                  ELSE IF admin[d].at = "commit" /\ x # Threshold THEN rival ELSE admin[d]
  BY DEF Commit
<1>2. AdminOK(admin[d]) /\ AdminOK(admin[c]) /\ admin[c].at = "commit"
  BY DEF IInv, Types, Commit
<1>3. x \in Entries \cup {Threshold}
  BY <1>2 DEF AdminOK, Idle, Forms
<1>4. CASE d = c
  BY <1>1, <1>4 DEF AdminOK, Idle
<1>5. CASE d # c /\ admin[d].at = "commit" /\ x # Threshold
  <2>1. /\ admin[d] = [at |-> "commit", id |-> admin[d].id, row |-> admin[d].row,
                       base |-> admin[d].base, rivals |-> admin[d].rivals]
        /\ admin[d].id \in Entries \cup {Threshold}
        /\ admin[d].row \in Saved(admin[d].id) /\ admin[d].rivals \subseteq Entries
    BY <1>2, <1>5 DEF AdminOK, Idle, Forms
  <2>2. rival = [at |-> "commit", id |-> admin[d].id, row |-> admin[d].row,
                 base |-> admin[d].base, rivals |-> admin[d].rivals \cup {x}]
    BY <2>1
  <2>3. /\ rival.at = "commit" /\ rival.id = admin[d].id /\ rival.row = admin[d].row
        /\ rival.rivals = admin[d].rivals \cup {x}
        /\ rival = [at |-> "commit", id |-> rival.id, row |-> rival.row,
                    base |-> rival.base, rivals |-> rival.rivals]
    BY <2>2
  <2>4. AdminOK(rival)
    BY <1>3, <1>5, <2>1, <2>3 DEF AdminOK
  <2> QED
    BY <1>1, <1>5, <2>3, <2>4
<1>6. CASE d # c /\ admin[d].at = "commit" /\ x = Threshold
  BY <1>1, <1>2, <1>6
<1>7. CASE d # c /\ admin[d].at # "commit"
  BY <1>1, <1>2, <1>7
<1> QED
  BY <1>4, <1>5, <1>6, <1>7

(* The committed row of an entry, if it is live, was validated against the *)
(* rows of the others, except for those committed since.                   *)
LEMMA CommitKeeps ==
  ASSUME IInv, NEW c \in Administrators, Commit(c)
  PROVE  IInv'
<1> DEFINE x   == admin[c].id
           row == admin[c].row
<1>1. /\ admin[c].at = "commit" /\ x \in Entries \cup {Threshold} /\ row \in Saved(x)
      /\ admin[c].rivals \subseteq Entries
  BY DEF IInv, Types, Commit, AdminOK, Idle, Forms
<1>2. /\ x = Threshold => config' = row /\ UNCHANGED <<list, rivals>>
      /\ x # Threshold =>
           /\ list' = [list EXCEPT ![x] = row]
           /\ rivals' = [rivals EXCEPT ![x] = IF row = Deleted THEN {} ELSE admin[c].rivals]
           /\ UNCHANGED config
      /\ UNCHANGED author /\ DOMAIN admin' = Administrators
  BY DEF Commit
<1>3. list \in [Entries -> Entry \cup {Unborn, Deleted}] /\ rivals \in [Entries -> SUBSET Entries]
  BY DEF IInv, Types
<1>4. Types'
  <2>1. \A d \in Administrators : AdminOK(admin[d])'
    BY CommitAdmin
  <2>2. CASE x = Threshold
    BY <1>1, <1>2, <2>1, <2>2 DEF IInv, Types, Saved
  <2>3. CASE x # Threshold
    BY <1>1, <1>2, <2>1, <2>3 DEF IInv, Types, Saved
  <2> QED
    BY <2>2, <2>3
<1>5. ASSUME NEW e \in Entries, e # x PROVE list'[e] = list[e] /\ rivals'[e] = rivals[e]
  BY <1>2, <1>3, <1>5
<1>6. ASSUME NEW e \in Entries, e = x PROVE list'[e] = row /\ e # Threshold
  BY <1>2, <1>3, <1>6, RowsAssumption
<1>7. ASSUME NEW d \in Administrators PROVE SaveInv(d)'
  <2> SUFFICES ASSUME admin'[d].at = "commit", admin'[d].id # Threshold, admin'[d].row # Deleted,
                      NEW e \in Entries \ {admin'[d].id}, Live(e)', list'[e].word = admin'[d].row.word
               PROVE  e \in admin'[d].rivals
    BY DEF SaveInv
  <2>1. /\ admin[d].at = "commit"
        /\ admin'[d].id = admin[d].id /\ admin'[d].row = admin[d].row
        /\ admin'[d].rivals = admin[d].rivals \cup ({x} \ {Threshold})
    BY CommitAdmin
  <2>2. CASE e = x
    BY <1>6, <2>1, <2>2
  <2>3. CASE e # x
    <3>1. Live(e) /\ list'[e] = list[e]
      BY <1>5, <2>3 DEF Live
    <3>2. SaveInv(d)
      BY DEF IInv
    <3>3. e \in admin[d].rivals
      BY <2>1, <3>1, <3>2 DEF SaveInv
    <3> QED
      BY <2>1, <3>3
  <2> QED
    BY <2>2, <2>3
<1>8. \A a \in Authors : AuthorInv(author[a])'
  BY <1>2 DEF IInv
<1>9. ASSUME NEW e \in Entries, e = x, Live(e)', NEW f \in Entries, f # e, Live(f)',
             list'[e].word = list'[f].word
      PROVE  f \in rivals'[e]
  <2>1. Live(f) /\ list'[f] = list[f] /\ list'[e] = row /\ x # Threshold
    BY <1>5, <1>6, <1>9 DEF Live
  <2>2. row # Deleted
    BY <1>9, <2>1 DEF Live
  <2>3. rivals'[e] = admin[c].rivals
    BY <1>2, <1>3, <1>9, <2>1, <2>2
  <2>4. SaveInv(c)
    BY DEF IInv
  <2> QED
    BY <1>1, <1>9, <2>1, <2>2, <2>3, <2>4 DEF SaveInv
<1>10. DuplicatesAreRaces'
  <2> SUFFICES ASSUME NEW e \in Entries, NEW f \in Entries, e # f, Live(e)', Live(f)',
                      list'[e].word = list'[f].word
               PROVE  e \in rivals'[f] \/ f \in rivals'[e]
    BY DEF DuplicatesAreRaces
  <2>1. CASE e = x
    BY <1>9, <2>1
  <2>2. CASE f = x
    BY <1>9, <2>2
  <2>3. CASE e # x /\ f # x
    <3>1. Live(e) /\ Live(f) /\ list'[e] = list[e] /\ list'[f] = list[f]
          /\ rivals'[e] = rivals[e] /\ rivals'[f] = rivals[f]
      BY <1>5, <2>3 DEF Live
    <3> QED
      BY <3>1 DEF IInv, DuplicatesAreRaces
  <2> QED
    BY <2>1, <2>2, <2>3
<1> QED
  BY <1>4, <1>7, <1>8, <1>10 DEF IInv

-----------------------------------------------------------------------------
(* The requests of the authors.                                            *)

LEMMA AuthorStep ==
  ASSUME IInv, NEW a \in Authors, NEW CONSTANT new, AuthorInv(new),
         author' = [author EXCEPT ![a] = new],
         UNCHANGED <<list, config, admin, rivals>>
  PROVE  IInv'
<1>1. DOMAIN author = Authors
  BY DEF IInv, Types
<1>2. DOMAIN author' = Authors
      /\ \A b \in Authors : author'[b] = IF b = a THEN new ELSE author[b]
  BY <1>1
<1>3. Types'
  BY <1>2 DEF IInv, Types
<1>4. \A e \in Entries : Live(e)' <=> Live(e)
  BY DEF Live
<1>5. \A c \in Administrators : SaveInv(c)'
  BY <1>4 DEF IInv, SaveInv
<1>6. \A b \in Authors : AuthorInv(author[b])'
  BY <1>2 DEF IInv
<1>7. DuplicatesAreRaces'
  BY <1>4 DEF IInv, DuplicatesAreRaces
<1> QED
  BY <1>3, <1>5, <1>6, <1>7 DEF IInv

LEMMA Answered ==
  ASSUME IInv, NEW a \in Authors, author' = [author EXCEPT ![a] = Idle],
         UNCHANGED <<list, config, admin, rivals>>
  PROVE  IInv'
<1>1. AuthorInv(Idle)
  BY DEF AuthorInv
<1>2. PICK new : new = Idle
  OBVIOUS
<1> QED
  BY <1>1, <1>2, AuthorStep

LEMMA ReceiveKeeps ==
  ASSUME IInv, NEW a \in Authors, Receive(a)
  PROVE  IInv'
<1>1. PICK ts \in BoundedSeq(Texts, MaxTexts) \ {<<>>} :
        author' = [author EXCEPT ![a] =
          [at |-> "start", texts |-> ts, left |-> ts, refused |-> FALSE]]
  BY DEF Receive
<1>2. ts \in Seq(Texts) /\ ts # <<>>
  <2>1. PICK m \in 0..MaxTexts : ts \in [1..m -> Texts]
    BY <1>1 DEF BoundedSeq, SeqOf
  <2> QED
    BY <1>1, <2>1, SeqDef
<1>3. PICK new : new = [at |-> "start", texts |-> ts, left |-> ts, refused |-> FALSE]
  OBVIOUS
<1>4. new.at = "start" /\ new.texts = ts /\ new.left = ts /\ new.refused = FALSE
  BY <1>3
<1>5. Len(ts) \in Nat /\ Judged(new) = 0
  BY <1>2, <1>4, LenProperties DEF Judged
<1>6. LeftOver(new)
  <2>1. \A i \in 1..Len(ts) : 0 + i = i
    BY <1>5
  <2>2. \A i \in 1..Len(new.left) : new.left[i] = new.texts[Judged(new) + i]
    BY <1>4, <1>5, <2>1
  <2>3. new.texts \in Seq(Texts) /\ new.left \in Seq(Texts) /\ new.refused \in BOOLEAN
    BY <1>2, <1>4
  <2> QED
    BY <1>5, <2>2, <2>3 DEF LeftOver
<1>7. AuthorInv(new)
  BY <1>2, <1>4, <1>5, <1>6 DEF AuthorInv
<1> QED
  BY <1>1, <1>3, <1>7, AuthorStep DEF Receive

(* The first query fixes the configuration of the request. *)
LEMMA ReadListKeeps ==
  ASSUME IInv, NEW a \in Authors, ReadList(a)
  PROVE  IInv'
<1> DEFINE r     == author[a]
           asked == IF r.at = "start" THEN Current ELSE r.asked
<1>1. AuthorInv(r) /\ r.at \in {"start", "list"}
  BY DEF IInv, ReadList, Reading
<1>2. LeftOver(r) /\ r.left # <<>>
  BY <1>1 DEF AuthorInv, Idle
<1>3. View(a) = asked
  BY <1>1 DEF View, AuthorInv, Idle, JudgedByOne
<1>4. r.refused <=> \E i \in 1..Judged(r) : IsSpam(r.texts[i], asked)
  BY <1>1 DEF AuthorInv, Idle, JudgedByOne
<1> HIDE DEF asked
<1>5. PICK new : new =
        [at |-> "threshold", texts |-> r.texts, left |-> r.left, refused |-> r.refused,
         view |-> View(a), asked |-> asked,
         matches |-> Matches(Head(r.left), View(a).words)]
  OBVIOUS
<1>6. /\ new.at = "threshold" /\ new.texts = r.texts /\ new.left = r.left
      /\ new.refused = r.refused /\ new.view = asked /\ new.asked = asked
      /\ new.matches = Matches(Head(r.left), asked.words)
  BY <1>3, <1>5
<1>7. Judged(new) = Judged(r)
  BY <1>6 DEF Judged
<1>8. LeftOver(new)
  BY <1>2, <1>6, <1>7 DEF LeftOver
<1>9. JudgedByOne(new)
  BY <1>4, <1>6, <1>7 DEF JudgedByOne
<1>10. AuthorInv(new)
  BY <1>2, <1>6, <1>8, <1>9 DEF AuthorInv
<1>11. author' = [author EXCEPT ![a] = new]
  BY <1>5 DEF ReadList, asked
<1> QED
  BY <1>10, <1>11, AuthorStep DEF ReadList

(* The text that is judged is the first that was left, and it is judged by *)
(* the configuration of the others.                                        *)
LEMMA ReadThresholdKeeps ==
  ASSUME IInv, NEW a \in Authors, ReadThreshold(a)
  PROVE  IInv'
<1> DEFINE r    == author[a]
           spam == Over(r.matches, Size[Head(r.left)], View(a).threshold)
           at   == IF Len(r.left) = 1 THEN "end" ELSE "list"
<1>1. /\ LeftOver(r) /\ r.left # <<>> /\ JudgedByOne(r)
      /\ r.matches = Matches(Head(r.left), r.asked.words) /\ View(a) = r.view
  BY DEF IInv, ReadThreshold, AuthorInv, Idle, View
<1>2. spam <=> IsSpam(Head(r.left), r.asked)
  BY <1>1 DEF IsSpam, JudgedByOne
<1> HIDE DEF spam
<1>3. PICK new : new =
        [at |-> at, texts |-> r.texts, left |-> Tail(r.left), refused |-> r.refused \/ spam,
         view |-> r.view, asked |-> r.asked]
  OBVIOUS
<1>4. /\ new.at = at /\ new.texts = r.texts /\ new.left = Tail(r.left)
      /\ new.refused = (r.refused \/ spam) /\ new.view = r.view /\ new.asked = r.asked
  BY <1>3
<1>5. /\ r.texts \in Seq(Texts) /\ r.left \in Seq(Texts) /\ Judged(r) \in Nat
      /\ Len(r.texts) \in Nat /\ Len(r.left) \in Nat \ {0}
      /\ Head(r.left) = r.left[1] /\ r.left[1] = r.texts[Judged(r) + 1]
  BY <1>1, LenProperties, EmptySeq, ElementOfSeq DEF LeftOver
<1>6. /\ Tail(r.left) \in Seq(Texts) /\ Len(Tail(r.left)) = Len(r.left) - 1
      /\ \A i \in 1..Len(Tail(r.left)) : Tail(r.left)[i] = r.left[i + 1]
  BY <1>1, <1>5, HeadTailProperties
<1>7. Judged(new) = Judged(r) + 1
  <2>1. Judged(new) = Len(r.texts) - (Len(r.left) - 1)
    BY <1>4, <1>6 DEF Judged
  <2>2. Judged(r) = Len(r.texts) - Len(r.left)
    BY DEF Judged
  <2> QED
    BY <1>5, <2>1, <2>2
<1>8. LeftOver(new)
  <2>1. ASSUME NEW i \in 1..Len(new.left) PROVE new.left[i] = new.texts[Judged(new) + i]
    <3>1. i + 1 \in 1..Len(r.left) /\ Judged(r) + (i + 1) = Judged(new) + i
      BY <1>4, <1>5, <1>6, <1>7
    <3>2. r.left[i + 1] = r.texts[Judged(r) + (i + 1)]
      BY <1>1, <3>1 DEF LeftOver
    <3> QED
      BY <1>4, <1>6, <3>1, <3>2
  <2>2. new.refused \in BOOLEAN
    BY <1>4
  <2> QED
    BY <1>4, <1>5, <1>6, <1>7, <2>1, <2>2 DEF LeftOver
<1>9. JudgedByOne(new)
  <2>1. 1..Judged(new) = 1..Judged(r) \cup {Judged(r) + 1}
    BY <1>5, <1>7
  <2>2. spam <=> IsSpam(r.texts[Judged(r) + 1], r.asked)
    BY <1>2, <1>5
  <2>3. r.refused <=> \E i \in 1..Judged(r) : IsSpam(r.texts[i], r.asked)
    BY <1>1 DEF JudgedByOne
  <2>4. r.refused \/ spam <=> \E i \in 1..Judged(new) : IsSpam(r.texts[i], r.asked)
    BY <2>1, <2>2, <2>3
  <2> QED
    BY <1>1, <1>4, <2>4 DEF JudgedByOne
<1>10. new.left = <<>> <=> Len(r.left) = 1
  <2>1. new.left = <<>> <=> Len(Tail(r.left)) = 0
    BY <1>4, <1>6, EmptySeq
  <2> QED
    BY <1>5, <1>6, <2>1
<1>11. AuthorInv(new)
  BY <1>4, <1>8, <1>9, <1>10 DEF AuthorInv
<1>12. author' = [author EXCEPT ![a] = new]
  BY <1>3 DEF ReadThreshold, spam
<1> QED
  BY <1>11, <1>12, AuthorStep DEF ReadThreshold

-----------------------------------------------------------------------------
(* The theorems.                                                           *)

LEMMA InitIInv == Init => IInv
<1> SUFFICES ASSUME Init PROVE IInv
  OBVIOUS
<1>1. config \in Config
  BY WordsAssumption DEF Init, Config
<1>2. Types
  BY <1>1 DEF Init, Types, AdminOK
<1>3. \A e \in Entries : ~Live(e)
  BY DEF Init, Live
<1>4. \A c \in Administrators : SaveInv(c)
  BY <1>3 DEF SaveInv
<1>5. \A a \in Authors : AuthorInv(author[a])
  BY DEF Init, AuthorInv
<1>6. DuplicatesAreRaces
  BY <1>3 DEF DuplicatesAreRaces
<1> QED
  BY <1>2, <1>4, <1>5, <1>6 DEF IInv

LEMMA NextIInv == IInv /\ [Next]_vars => IInv'
<1> SUFFICES ASSUME IInv, [Next]_vars PROVE IInv'
  OBVIOUS
<1>1. CASE UNCHANGED vars
  <2>1. \A e \in Entries : Live(e)' <=> Live(e)
    BY <1>1 DEF vars, Live
  <2>2. Types' /\ \A a \in Authors : AuthorInv(author[a])'
    BY <1>1 DEF IInv, Types, vars
  <2>3. DuplicatesAreRaces' /\ \A c \in Administrators : SaveInv(c)'
    BY <1>1, <2>1 DEF IInv, DuplicatesAreRaces, SaveInv, vars
  <2> QED
    BY <2>2, <2>3 DEF IInv
<1>2. ASSUME NEW c \in Administrators, Administer(c) PROVE IInv'
  <2>1. CASE Leave(c) \/ CommitFails(c)
    BY <2>1, BecomesIdle DEF Leave, CommitFails
  <2> QED
    BY <1>2, <2>1, ShowFormKeeps, CreateWordKeeps, UpdateWordKeeps, DeleteWordKeeps,
       UpdateThresholdKeeps, CommitKeeps DEF Administer
<1>3. ASSUME NEW a \in Authors, Validate(a) PROVE IInv'
  <2>1. CASE ReadListThrows(a) \/ Answer(a)
    BY <2>1, Answered DEF ReadListThrows, Answer
  <2> QED
    BY <1>3, <2>1, ReceiveKeeps, ReadListKeeps, ReadThresholdKeeps DEF Validate
<1> QED
  BY <1>1, <1>2, <1>3 DEF Next

(* The state always satisfies the invariant: a word that a pending save    *)
(* doubles was committed after its validation, and what a request has      *)
(* judged it has judged by the configuration it read first.                *)
THEOREM Invariance == Spec => []IInv
BY InitIInv, NextIInv, PTL DEF Spec

(* The rows are what SpamFilter.java declares and the forms judge their    *)
(* texts one after the other.                                              *)
THEOREM TypesHold == Spec => []TypeOK
<1>1. ASSUME IInv PROVE TypeOK
  <2>1. ASSUME NEW c \in Administrators
        PROVE  /\ admin[c].at \in {"idle", "form", "commit"}
               /\ admin[c].at # "idle" => admin[c].id \in Entries \cup {Threshold}
               /\ admin[c].at = "commit" => admin[c].rivals \subseteq Entries
    BY <1>1 DEF IInv, Types, AdminOK, Idle, Forms
  <2>2. ASSUME NEW a \in Authors
        PROVE  /\ author[a].at \in {"idle", "start", "list", "threshold", "end"}
               /\ author[a].at # "idle" =>
                    /\ author[a].left \in Seq(Texts)
                    /\ author[a].left = <<>> <=> author[a].at = "end"
                    /\ author[a].refused \in BOOLEAN
    <3>1. AuthorInv(author[a])
      BY <1>1 DEF IInv
    <3> QED
      BY <3>1 DEF AuthorInv, LeftOver, Idle
  <2> QED
    BY <1>1, <2>1, <2>2 DEF IInv, Types, TypeOK
<1> QED
  BY <1>1, Invariance, PTL

(* The texts of a form are judged by one list and one threshold, those in  *)
(* force when its first text was read.                                     *)
THEOREM FormsAreJudgedByOne == Spec => []OneConfiguration
<1>1. ASSUME IInv, NEW a \in Authors, author[a].at = "end"
      PROVE  author[a].refused <=>
               \E i \in DOMAIN author[a].texts : IsSpam(author[a].texts[i], author[a].asked)
  <2>1. LeftOver(author[a]) /\ author[a].left = <<>> /\ JudgedByOne(author[a])
    BY <1>1 DEF IInv, AuthorInv, Idle
  <2>2. DOMAIN author[a].texts = 1..Judged(author[a])
    BY <2>1, LenProperties, EmptySeq DEF LeftOver, Judged
  <2> QED
    BY <2>1, <2>2 DEF JudgedByOne
<1>2. IInv => OneConfiguration
  BY <1>1 DEF OneConfiguration
<1> QED
  BY <1>2, Invariance, PTL

(* Only saves that overlap list a word twice.                              *)
THEOREM OnlyRacesDouble == Spec => []DuplicatesAreRaces
BY Invariance, PTL DEF IInv

(* More matches or a lower threshold never turn a spam text into another:  *)
(* neither the text without words nor the quotient that is rounded up is   *)
(* an exception.                                                           *)
THEOREM StricterIsStricter ==
  ASSUME NEW m \in Nat, NEW n \in Nat, m <= n, NEW words \in Nat,
         NEW t \in 0..100, NEW u \in 0..100, u <= t, Over(m, words, t)
  PROVE  Over(n, words, u)
<1>1. CASE words = 0
  BY <1>1 DEF Over
<1>2. CASE words > 0
  <2>1. /\ m * 100 > t * words \/ (m * 100 = t * words /\ <<m, words>> \in RoundsUp)
        /\ t * words \in Nat /\ u * words \in Nat
    <3>1. m * 100 > t * words \/ (m * 100 = t * words /\ <<m, words>> \in RoundsUp)
      BY <1>2 DEF Over
    <3>2. \A i, j \in Nat : i * j \in Nat
      OBVIOUS
    <3> QED
      BY <3>1, <3>2
  <2>2. t * words = u * words + (t - u) * words /\ (t - u) * words >= 0
    <3>1. t - u \in Nat
      OBVIOUS
    <3>2. (t - u) * words \in Nat
      BY <3>1
    <3> QED
      BY <3>2
  <2>3. CASE u = t /\ n = m
    BY <2>3
  <2>4. CASE u < t
    <3>1. (t - u) * words > 0
      <4>1. t - u \in Nat \ {0} /\ words \in Nat \ {0}
        BY <1>2, <2>4
      <4>2. \A i, j \in Nat \ {0} : i * j > 0
        OBVIOUS
      <4> QED
        BY <4>1, <4>2
    <3>2. m * 100 > u * words
      BY <2>1, <2>2, <3>1
    <3>3. n * 100 >= m * 100
      OBVIOUS
    <3>4. n * 100 > u * words
      BY <2>1, <3>2, <3>3
    <3> QED
      BY <1>2, <3>4 DEF Over
  <2>5. CASE m < n
    BY <1>2, <2>1, <2>2, <2>5 DEF Over
  <2> QED
    BY <2>3, <2>4, <2>5
<1> QED
  BY <1>1, <1>2

(* How the fold of Matches counts. *)
Values(t, words) == [e \in DOMAIN words |-> Hits[t][words[e]]]

AnyOf(s) == CHOOSE x \in s : TRUE

Counts(it, t, words) == it = [s \in SUBSET DOMAIN words |->
    IF s = {} THEN 0 ELSE it[s \ {AnyOf(s)}] + Hits[t][words[AnyOf(s)]]]

(* The fold that counts the matches adds them. *)
LEMMA MatchesIsTotal ==
  ASSUME NEW t \in Texts, NEW D, IsFiniteSet(D), NEW words \in [D -> Words]
  PROVE  /\ Matches(t, words) = Total(Values(t, words), D)
         /\ \A e \in D : Values(t, words)[e] = Hits[t][words[e]] /\ Hits[t][words[e]] \in Nat
<1>1. DOMAIN words = D /\ \A e \in D : words[e] \in Words
  OBVIOUS
<1>2. PICK f : f = Values(t, words)
  OBVIOUS
<1>3. \A e \in D : f[e] = Hits[t][words[e]] /\ f[e] \in Nat
  BY <1>1, <1>2, TextsAssumption DEF Values
<1>4. PICK pick : pick = [s \in SUBSET D |-> AnyOf(s)]
  OBVIOUS
<1>5. /\ \A s \in SUBSET D : pick[s] = AnyOf(s)
      /\ \A s \in SUBSET D : s # {} => pick[s] \in s
  <2>1. \A s \in SUBSET D : pick[s] = AnyOf(s)
    BY <1>4
  <2>2. ASSUME NEW s \in SUBSET D, s # {} PROVE AnyOf(s) \in s
    BY <2>2 DEF AnyOf
  <2> QED
    BY <2>1, <2>2
<1>6. ASSUME NEW g PROVE Counts(g, t, words) <=> IsFold(g, f, pick, D)
  <2>1. ASSUME NEW s \in SUBSET D
        PROVE  (IF s = {} THEN 0
                ELSE g[s \ {AnyOf(s)}] + Hits[t][words[AnyOf(s)]])
               = AddPicked(f, pick, g, s)
    <3>1. CASE s = {}
      BY <3>1 DEF AddPicked
    <3>2. CASE s # {}
      <4>1. pick[s] = AnyOf(s) /\ pick[s] \in D
        BY <1>5, <3>2
      <4>2. f[pick[s]] = Hits[t][words[pick[s]]]
        BY <1>3, <4>1
      <4> QED
        BY <3>2, <4>1, <4>2 DEF AddPicked
    <3> QED
      BY <3>1, <3>2
  <2> QED
    BY <1>1, <2>1, Zenon DEF Counts, IsFold
<1>7. Matches(t, words) = (CHOOSE it : Counts(it, t, words))[D]
  BY <1>1 DEF Matches, FoldFunction, FoldFunctionOnSet, MapThenFoldSet, Counts, AnyOf
<1>8. PICK g : g = (CHOOSE it : Counts(it, t, words)) /\ Counts(g, t, words)
  <2>1. PICK it : IsFold(it, f, pick, D)
    BY <1>3, <1>5, SumFoldExists
  <2>2. Counts(it, t, words)
    BY <1>6, <2>1
  <2> QED
    BY <2>2
<1>9. IsSum(g, f, D)
  <2>1. IsFold(g, f, pick, D)
    BY <1>6, <1>8
  <2> QED
    BY <1>3, <1>5, <2>1, FoldIsSum
<1>10. Total(f, D) = g[D]
  BY <1>9, TotalIsSum
<1> QED
  BY <1>2, <1>3, <1>7, <1>8, <1>10

(* Further rows do not take matches away. *)
LEMMA MatchesGrow ==
  ASSUME NEW t \in Texts, NEW E, IsFiniteSet(E), NEW D \in SUBSET E,
         NEW words \in [D -> Words], NEW more \in [E -> Words],
         \A e \in D : words[e] = more[e]
  PROVE  /\ Matches(t, words) \in Nat /\ Matches(t, more) \in Nat
         /\ Matches(t, words) <= Matches(t, more)
<1>1. IsFiniteSet(D)
  BY FS_Subset
<1>2. PICK f, h : f = Values(t, words) /\ h = Values(t, more)
  OBVIOUS
<1>3. /\ Matches(t, words) = Total(f, D)
      /\ \A e \in D : f[e] = Hits[t][words[e]] /\ f[e] \in Nat
  BY <1>1, <1>2, MatchesIsTotal
<1>4. /\ Matches(t, more) = Total(h, E)
      /\ \A e \in E : h[e] = Hits[t][more[e]] /\ h[e] \in Nat
  BY <1>2, MatchesIsTotal
<1>5. Total(f, D) \in Nat /\ Total(h, E) \in Nat
  BY <1>1, <1>3, <1>4, TotalStep
<1>6. \A e \in D : f[e] = h[e]
  BY <1>3, <1>4
<1>7. Total(f, D) <= Total(h, E)
  BY <1>4, <1>6, TotalGrows
<1> QED
  BY <1>3, <1>4, <1>5, <1>7

(* A commit that lists another word, or lowers the threshold, frees no     *)
(* text that was spam before it.                                           *)
THEOREM StricterNeverFrees == Spec => StricterFreesNothing
<1>1. ASSUME IInv, IInv',
             \A e \in Entries : Live(e) => list'[e] = list[e],
             config'.threshold <= config.threshold,
             NEW t \in Texts, IsSpam(t, Current)
      PROVE  IsSpam(t, Current')
  <2>1. PICK D, E, before, after :
          /\ D = {e \in Entries : Live(e)} /\ E = {e \in Entries : Live(e)}'
          /\ before = [e \in D |-> list[e].word] /\ after = [e \in E |-> list'[e].word]
    OBVIOUS
  <2>2. D \subseteq E /\ E \subseteq Entries /\ \A e \in D : list'[e] = list[e]
    BY <1>1, <2>1 DEF Live
  <2>3. before \in [D -> Words] /\ after \in [E -> Words]
    BY <1>1, <2>1 DEF IInv, Types, Live, Entry
  <2>4. IsFiniteSet(E) /\ \A e \in D : before[e] = after[e]
    BY <2>1, <2>2, RowsAssumption, FS_Subset
  <2>5. /\ Matches(t, before) \in Nat /\ Matches(t, after) \in Nat
        /\ Matches(t, before) <= Matches(t, after)
    BY <2>2, <2>3, <2>4, MatchesGrow
  <2>6. /\ Current.words = before /\ Current'.words = after
        /\ Current.threshold = config.threshold /\ Current'.threshold = config'.threshold
    BY <2>1 DEF Current
  <2>7. /\ config.threshold \in 0..100 /\ config'.threshold \in 0..100
        /\ Size[t] \in Nat
    BY <1>1, TextsAssumption DEF IInv, Types, Config
  <2>8. Over(Matches(t, before), Size[t], config.threshold)
    BY <1>1, <2>6 DEF IsSpam
  <2>9. Over(Matches(t, after), Size[t], config'.threshold)
    <3>1. PICK m, n, u, v : /\ m = Matches(t, before) /\ n = Matches(t, after)
                            /\ u = config.threshold /\ v = config'.threshold
      OBVIOUS
    <3> QED
      BY <1>1, <2>5, <2>7, <2>8, <3>1, StricterIsStricter
  <2> QED
    BY <2>6, <2>9 DEF IsSpam
<1>2. IInv /\ IInv' =>
        ((/\ \A e \in Entries : Live(e) => list'[e] = list[e]
          /\ config'.threshold <= config.threshold) =>
           \A t \in Texts : IsSpam(t, Current) => IsSpam(t, Current'))
  BY <1>1
<1>3. IInv /\ IInv' =>
        [(/\ \A e \in Entries : Live(e) => list'[e] = list[e]
          /\ config'.threshold <= config.threshold) =>
            \A t \in Texts : IsSpam(t, Current) => IsSpam(t, Current')]_vars
  BY <1>2
<1> QED
  BY <1>3, Invariance, PTL DEF StricterFreesNothing
=============================================================================
