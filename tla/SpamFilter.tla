------------------------------ MODULE SpamFilter ------------------------------
(***************************************************************************)
(* The spam filter: the black list and the threshold that administrators   *)
(* change, and the validation of the texts of a form against them.  Each   *)
(* text is judged with two queries, one for the list and one for the       *)
(* threshold, and a form has several texts; all of them run in the         *)
(* transaction of the request, which reads the snapshot that its first     *)
(* query takes.  Administrators save and delete rows with optimistic       *)
(* versions, as in Workplans, but no column of the list is unique.         *)
(*                                                                         *)
(* A text is its number of words and, for each word that can be listed,    *)
(* the number of its matches.  Checks on the other fields of a form only   *)
(* refuse it.                                                              *)
(***************************************************************************)
EXTENDS Integers, Sequences, FiniteSets, SequencesExt, Functions

CONSTANTS
  Administrators,  \* the browsers of administrators
  Authors,         \* the browsers of those who send texts
  Entries,         \* identifiers of rows of the black list
  Words,           \* what an administrator may list
  Malformed,       \* the words that are no regular expression
  InitialThreshold,
  Thresholds,      \* what an administrator may type as a threshold
  Texts,
  Size,            \* the number of words of each text
  Hits,            \* how often each text matches each word
  RoundsUp,        \* the quotients that the float arithmetic makes too large
  MaxTexts,        \* bound on the texts of a form
  MaxVersion,      \* bound on the changes of a row
  Unborn,          \* the "row" of an entry that is not used yet
  Deleted          \* the "row" of an entry that was deleted

ASSUME WordsAssumption ==
  /\ Malformed \subseteq Words
  /\ Thresholds \subseteq Int /\ InitialThreshold \in 0..100
  /\ MaxTexts \in Nat /\ MaxVersion \in Nat

ASSUME TextsAssumption ==
  /\ Size \in [Texts -> Nat]
  /\ Hits \in [Texts -> [Words -> Nat]]
  /\ RoundsUp \subseteq Nat \X (Nat \ {0})

Entry  == [word : Words, version : 0..MaxVersion]
Config == [threshold : 0..100, version : 0..MaxVersion]

(* The row of the threshold is beside the rows of the list. *)
Threshold == "threshold"

ASSUME RowsAssumption ==
  /\ {Unborn, Deleted} \cap Entry = {}
  /\ Threshold \notin Entries
  /\ IsFiniteSet(Entries)

VARIABLES
  list,     \* the committed rows of the black list
  config,   \* the committed row of the threshold
  admin,    \* what each administrator is doing
  author,   \* what each author's request is doing; 'texts' and 'asked' are
            \* history: its form, and the configuration when it read first
  rivals    \* history: the entries whose last save came between the
            \* validation and the commit of the last save of each entry

vars == <<list, config, admin, author, rivals>>

Idle == [at |-> "idle"]

Live(e) == list[e] \notin {Unborn, Deleted}

RowOf(x) == IF x = Threshold THEN config ELSE list[x]

(* What the two queries return: the words of the rows, and the threshold. *)
Current == [words |-> [e \in {e \in Entries : Live(e)} |-> list[e].word],
            threshold |-> config.threshold]

TypeOK ==
  /\ list \in [Entries -> Entry \cup {Unborn, Deleted}]
  /\ config \in Config
  /\ \A c \in Administrators :
       /\ admin[c].at \in {"idle", "form", "commit"}
       /\ admin[c].at # "idle" => admin[c].id \in Entries \cup {Threshold}
       /\ admin[c].at = "commit" => admin[c].rivals \subseteq Entries
  /\ \A a \in Authors :
       /\ author[a].at \in {"idle", "start", "list", "threshold", "end"}
       /\ author[a].at # "idle" =>
            /\ author[a].left \in Seq(Texts)
            /\ author[a].left = <<>> <=> author[a].at = "end"
            /\ author[a].refused \in BOOLEAN
  /\ rivals \in [Entries -> SUBSET Entries]

Init ==
  /\ list   = [e \in Entries |-> Unborn]
  /\ config = [threshold |-> InitialThreshold, version |-> 0]
  /\ admin  = [c \in Administrators |-> Idle]
  /\ author = [a \in Authors |-> Idle]
  /\ rivals = [e \in Entries |-> {}]

-----------------------------------------------------------------------------
(* The verdict.                                                            *)

(* Mutant: the matches of one word replace those of the others. *)
MatchesOfOne(t, words) ==
  FoldFunction(LAMBDA w, sum : Hits[t][w], 0, words)

(* The matches of every row are added, those of a word listed twice too.   *)
Matches(t, words) ==
  FoldFunction(LAMBDA w, sum : sum + Hits[t][w], 0, words)

(* The share of the matches in the words is over the threshold.  Without   *)
(* words it is infinite, or no number, which is over nothing; a quotient   *)
(* that is rounded up is over the threshold it should equal.               *)
Over(matches, words, threshold) ==
  \/ words = 0 /\ matches > 0
  \/ words > 0 /\ matches * 100 > threshold * words
  \/ words > 0 /\ matches * 100 = threshold * words /\ <<matches, words>> \in RoundsUp

IsSpam(t, c) == Over(Matches(t, c.words), Size[t], c.threshold)

Compiles(words) == Malformed \cap Range(words) = {}

-----------------------------------------------------------------------------
(* The requests of the administrators.                                     *)

ShowForm(c) ==
  /\ admin[c] = Idle
  /\ \E x \in {e \in Entries : Live(e)} \cup {Threshold} :
       admin' = [admin EXCEPT ![c] =
                   [at |-> "form", id |-> x, version |-> RowOf(x).version]]
  /\ UNCHANGED <<list, config, author, rivals>>

(* The user leaves the form, or the request is refused. *)
Leave(c) ==
  /\ admin[c].at = "form"
  /\ admin' = [admin EXCEPT ![c] = Idle]
  /\ UNCHANGED <<list, config, author, rivals>>

(* What a request leaves for the commit of its transaction. *)
Ask(c, x, row) ==
  /\ admin' = [admin EXCEPT ![c] =
                 [at |-> "commit", id |-> x, row |-> row, base |-> RowOf(x), rivals |-> {}]]
  /\ UNCHANGED <<list, config, author, rivals>>

(* Mutant: the words that are listed are not looked at. *)
AnyWord(w) == w \in Words

IsNew(w) == \A e \in Entries : Live(e) => list[e].word # w

Unused(e) ==
  /\ list[e] = Unborn
  /\ \A c \in Administrators : admin[c].at = "commit" => admin[c].id # e

CreateWord(c) ==
  /\ admin[c] = Idle
  /\ \E e \in Entries, w \in Words :
       /\ Unused(e)
       /\ IsNew(w)
       /\ Ask(c, e, [word |-> w, version |-> 0])

(* The form shows a row that still has the version it carries. *)
FormHolds(c, x) ==
  /\ admin[c].at = "form"
  /\ admin[c].id = x
  /\ x # Threshold => Live(x)
  /\ admin[c].version = RowOf(x).version
  /\ RowOf(x).version < MaxVersion

(* The list that the new word is looked up in has the row's own word, so   *)
(* that a row cannot be saved as it is.                                    *)
UpdateWord(c) ==
  \E e \in Entries, w \in Words :
    /\ FormHolds(c, e)
    /\ IsNew(w)
    /\ Ask(c, e, [word |-> w, version |-> list[e].version + 1])

(* Deleting reads nothing of the form but the id. *)
DeleteWord(c) ==
  \E e \in Entries :
    /\ admin[c].at = "form"
    /\ admin[c].id = e
    /\ Live(e)
    /\ Ask(c, e, Deleted)

(* Mutant: the range of the threshold is not checked. *)
AnyNumber(n) == TRUE

InRange(n) == n \in 0..100

UpdateThreshold(c) ==
  \E n \in Thresholds :
    /\ FormHolds(c, Threshold)
    /\ InRange(n)
    /\ n # config.threshold
    /\ Ask(c, Threshold, [threshold |-> n, version |-> config.version + 1])

(* The row that the write replaces is the one the request read. *)
VersionHolds(c) == RowOf(admin[c].id) = admin[c].base

(* The others who wait for a commit have a rival now. *)
Commit(c) ==
  /\ admin[c].at = "commit"
  /\ VersionHolds(c)
  /\ LET x == admin[c].id
         Rival(d) == IF admin[d].at = "commit" /\ x # Threshold
                     THEN [admin[d] EXCEPT !.rivals = @ \cup {x}] ELSE admin[d]
     IN  /\ admin' = [d \in Administrators |-> IF d = c THEN Idle ELSE Rival(d)]
         /\ IF x = Threshold
            THEN config' = admin[c].row /\ UNCHANGED <<list, rivals>>
            ELSE /\ list' = [list EXCEPT ![x] = admin[c].row]
                 /\ rivals' = [rivals EXCEPT ![x] = IF admin[c].row = Deleted THEN {} ELSE admin[c].rivals]
                 /\ UNCHANGED config
  /\ UNCHANGED <<author>>

CommitFails(c) ==
  /\ admin[c].at = "commit"
  /\ ~VersionHolds(c)
  /\ admin' = [admin EXCEPT ![c] = Idle]
  /\ UNCHANGED <<list, config, author, rivals>>

-----------------------------------------------------------------------------
(* The requests of the authors.                                            *)

(* A form with texts that have no other errors; nothing is read yet. *)
Receive(a) ==
  /\ author[a] = Idle
  /\ \E ts \in BoundedSeq(Texts, MaxTexts) \ {<<>>} :
       author' = [author EXCEPT ![a] =
         [at |-> "start", texts |-> ts, left |-> ts, refused |-> FALSE]]
  /\ UNCHANGED <<list, config, admin, rivals>>

(* Mutant: every query reads what is committed by then. *)
LatestView(a) == Current

(* What the queries of the request read: the first one takes a snapshot. *)
View(a) == IF author[a].at = "start" THEN Current ELSE author[a].view

Reading(a) == author[a].at \in {"start", "list"}

ReadList(a) ==
  /\ Reading(a)
  /\ Compiles(View(a).words)
  /\ author' = [author EXCEPT ![a] =
       [at |-> "threshold", texts |-> @.texts, left |-> @.left, refused |-> @.refused,
        view    |-> View(a),
        asked   |-> IF @.at = "start" THEN Current ELSE @.asked,
        matches |-> Matches(Head(@.left), View(a).words)]]
  /\ UNCHANGED <<list, config, admin, rivals>>

(* A word that is no regular expression throws, whatever the text is. *)
ReadListThrows(a) ==
  /\ Reading(a)
  /\ ~Compiles(View(a).words)
  /\ author' = [author EXCEPT ![a] = Idle]
  /\ UNCHANGED <<list, config, admin, rivals>>

(* The text is judged, and the next one read; all of them are judged, also *)
(* when one was refused.                                                   *)
ReadThreshold(a) ==
  /\ author[a].at = "threshold"
  /\ LET left == author[a].left
         spam == Over(author[a].matches, Size[Head(left)], View(a).threshold)
     IN  author' = [author EXCEPT ![a] =
           [at |-> IF Len(left) = 1 THEN "end" ELSE "list",
            texts |-> @.texts, left |-> Tail(left), refused |-> @.refused \/ spam,
            view  |-> @.view, asked |-> @.asked]]
  /\ UNCHANGED <<list, config, admin, rivals>>

(* The texts are stored, or the form is shown again with its errors. *)
Answer(a) ==
  /\ author[a].at = "end"
  /\ author' = [author EXCEPT ![a] = Idle]
  /\ UNCHANGED <<list, config, admin, rivals>>

Administer(c) ==
  \/ ShowForm(c) \/ Leave(c)
  \/ CreateWord(c) \/ UpdateWord(c) \/ DeleteWord(c) \/ UpdateThreshold(c)
  \/ Commit(c) \/ CommitFails(c)

Validate(a) ==
  \/ Receive(a) \/ ReadList(a) \/ ReadListThrows(a) \/ ReadThreshold(a) \/ Answer(a)

Next ==
  \/ \E c \in Administrators : Administer(c)
  \/ \E a \in Authors : Validate(a)

Spec == Init /\ [][Next]_vars

-----------------------------------------------------------------------------
(* Correctness.                                                            *)

(* A form is judged by one configuration, the one in force when its first  *)
(* text was read: the list and the threshold that its texts are compared   *)
(* with are never of two moments, whatever administrators save between the *)
(* queries.                                                                *)
OneConfiguration ==
  \A a \in Authors : author[a].at = "end" =>
    (author[a].refused <=> \E i \in DOMAIN author[a].texts : IsSpam(author[a].texts[i], author[a].asked))

(* A word is listed twice only if two administrators saved it at the same  *)
(* time: one of the rows was committed between the validation and the      *)
(* commit of the other.                                                    *)
DuplicatesAreRaces ==
  \A e, f \in Entries :
    e # f /\ Live(e) /\ Live(f) /\ list[e].word = list[f].word =>
      e \in rivals[f] \/ f \in rivals[e]

(* A commit that lists another word, or lowers the threshold, frees no     *)
(* text: what was spam before is spam afterwards, also texts of no words   *)
(* and texts just at the threshold.                                        *)
StricterFreesNothing ==
  [][(/\ \A e \in Entries : Live(e) => list'[e] = list[e]
      /\ config'.threshold <= config.threshold) =>
        \A t \in Texts : IsSpam(t, Current) => IsSpam(t, Current')]_vars
=============================================================================
