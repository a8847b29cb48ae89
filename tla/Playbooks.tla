----------------------------- MODULE Playbooks ------------------------------
(***************************************************************************)
(* The playbook library: PlaybookRepository (avmp/playbooks.py) over a     *)
(* Store, and the POST handlers of the authoring UI (avmp/ui.py), which    *)
(* ThreadingHTTPServer runs on a thread per request.  One playbook id;     *)
(* nothing relates the versions of two ids.                                *)
(*                                                                         *)
(* _all() builds new objects from the rows each time, and save() is one    *)
(* upsert: a handler works on the copy it read and writes that copy back,  *)
(* with no lock and no transaction across the two.  Every read and every   *)
(* upsert is a step.                                                       *)
(***************************************************************************)
EXTENDS Integers, FiniteSets, FiniteSetsExt, Functions

CONSTANTS
  Handlers,      \* request threads
  Actors,        \* the people; a stripped form field `actor` is one of them
  System,        \* updated_by of the shipped library
  NoName,        \* any name stored for an author that is nobody's stripped name
  MayMisname,    \* may an author leave the field blank or put blanks around the name?
  MaxVersion,    \* bound on versions
  MaxRevisions,  \* bound on contents ever written
  NoRow,
  NoRequest

ASSUME LibraryConstantsAssumption ==
  /\ System \notin Actors /\ NoName \notin Actors \cup {System}
  /\ MayMisname \in BOOLEAN
  /\ MaxVersion \in Nat \ {0}
  /\ MaxRevisions \in Nat

VARIABLES
  library,    \* the rows of the playbook id, by version
  pc,         \* the step each handler takes next
  request,    \* the arguments and locals of each handler's request
  revisions,  \* history: contents written; the next one is revisions + 1
  mishaps     \* history: what happened that the code does not guard against

vars == <<library, pc, request, revisions, mishaps>>

-----------------------------------------------------------------------------
Versions == 1 .. MaxVersion
States == {"draft", "in_review", "published", "archived"}

(* content: which of the contents ever written the template carries, 0 for *)
(* the shipped one.  History: author, who wrote or cloned it last; alone,  *)
(* whether they did so under their own name and nobody else has handled    *)
(* the version since.                                                      *)
RowType == [state : States, updatedBy : Actors \cup {System, NoName}, content : 0 .. MaxRevisions,
            author : Actors \cup {System}, alone : BOOLEAN]

(* actor: who sent the form; name: the `actor` that is stored; row: the    *)
(* template read, or its clone; others: the published versions to archive. *)
RequestType == [ver : Versions, actor : Actors, name : Actors \cup {NoName},
                row : RowType \cup {NoRow},
                others : UNION {[V -> RowType] : V \in SUBSET Versions}]

ASSUME NothingAssumption == NoRow \notin RowType /\ NoRequest \notin RequestType

Mishaps == {"publishes_overlap", "stale_write", "id_reused", "library_reloaded", "cut_short"}

NoOthers == [v \in {} |-> NoRow]
Present == {v \in Versions : library[v] # NoRow}
InState(v, S) == library[v] # NoRow /\ library[v].state \in S
Published == {v \in Versions : InState(v, {"published"})}

(* match(): the version a finding bound to the playbook is linked to; 0 is *)
(* attach()'s "generated-fallback".                                        *)
Attached == Max({0} \cup Published)

(* Whether a handler that is about to write version v over the row it read *)
(* would now read another one.                                             *)
NoteStale(v, read) == IF library[v] = read THEN {} ELSE {"stale_write"}

Begin(h, step, v, actor, name, row) ==
  /\ pc[h] = "idle"
  /\ pc' = [pc EXCEPT ![h] = step]
  /\ request' = [request EXCEPT ![h] =
       [ver |-> v, actor |-> actor, name |-> name, row |-> row, others |-> NoOthers]]

Finish(h) ==
  /\ pc' = [pc EXCEPT ![h] = "idle"]
  /\ request' = [request EXCEPT ![h] = NoRequest]

(* form.get("actor") or "author": what an author typed is stored as it is, *)
(* blanks and all, and "author" for nothing typed.  _new_version strips,   *)
(* but puts "author" for nothing as well.  Only submit and publish have a  *)
(* stripped name that cannot be empty.                                     *)
AuthorNames(actor) == {actor} \cup (IF MayMisname THEN {NoName} ELSE {})

Draft(actor, name, content) ==
  [state |-> "draft", updatedBy |-> name, content |-> content,
   author |-> actor, alone |-> name = actor]

(* What submit and publish make of the row they read.                      *)
HandedTo(r, state) ==
  [r.row EXCEPT !.state = state, !.updatedBy = r.name,
                !.alone = @ /\ r.actor = r.row.author]

Shipped == [state |-> "published", updatedBy |-> System, content |-> 0,
            author |-> System, alone |-> FALSE]

(* cmd_authoring loads the shipped library into an empty store.            *)
Init ==
  /\ library \in {[v \in Versions |-> NoRow], [v \in Versions |-> IF v = 1 THEN Shipped ELSE NoRow]}
  /\ pc = [h \in Handlers |-> "idle"]
  /\ request = [h \in Handlers |-> NoRequest]
  /\ revisions = 0
  /\ mishaps = {}

-----------------------------------------------------------------------------
(* POST /playbooks: version 1, whatever is there.                          *)
Create(h) ==
  /\ pc[h] = "idle"
  /\ revisions < MaxRevisions
  /\ \E actor \in Actors : \E name \in AuthorNames(actor) :
       library' = [library EXCEPT ![1] = Draft(actor, name, revisions + 1)]
  /\ revisions' = revisions + 1
  /\ mishaps' = mishaps \cup (IF library[1] = NoRow THEN {} ELSE {"id_reused"})
  /\ UNCHANGED <<pc, request>>

(* Slip: the form is trusted to come from a page that checked the state.   *)
ReadForEditUnchecked(h) ==
  /\ \E v \in Present, actor \in Actors : \E name \in AuthorNames(actor) :
       Begin(h, "save", v, actor, name, library[v])
  /\ UNCHANGED <<library, revisions, mishaps>>

(* POST .../edit: only a DRAFT, as read here, is replaced.                 *)
ReadForEdit(h) ==
  /\ \E v \in Present, actor \in Actors : \E name \in AuthorNames(actor) :
       /\ InState(v, {"draft"})
       /\ Begin(h, "save", v, actor, name, library[v])
  /\ UNCHANGED <<library, revisions, mishaps>>

SaveDraft(h) ==
  /\ pc[h] = "save"
  /\ revisions < MaxRevisions
  /\ LET r == request[h] IN
       /\ library' = [library EXCEPT ![r.ver] = Draft(r.actor, r.name, revisions + 1)]
       /\ mishaps' = mishaps \cup NoteStale(r.ver, r.row)
  /\ revisions' = revisions + 1
  /\ Finish(h)

(* submit_for_review.                                                      *)
ReadForSubmit(h) ==
  /\ \E v \in Present, actor \in Actors :
       /\ InState(v, {"draft"})
       /\ Begin(h, "submit", v, actor, actor, library[v])
  /\ UNCHANGED <<library, revisions, mishaps>>

SubmitForReview(h) ==
  /\ pc[h] = "submit"
  /\ LET r == request[h] IN
       /\ library' = [library EXCEPT ![r.ver] = HandedTo(r, "in_review")]
       /\ mishaps' = mishaps \cup NoteStale(r.ver, r.row)
  /\ Finish(h)
  /\ UNCHANGED revisions

-----------------------------------------------------------------------------
(* publish.                                                                *)

(* Slip: no separation of duties.                                          *)
ReadForPublishByAnyone(h) ==
  /\ \E v \in Present, actor \in Actors :
       /\ InState(v, {"draft", "in_review"})
       /\ Begin(h, "others", v, actor, actor, library[v])
  /\ UNCHANGED <<library, revisions, mishaps>>

ReadForPublish(h) ==
  /\ \E v \in Present, actor \in Actors :
       /\ InState(v, {"draft", "in_review"})
       /\ library[v].updatedBy # actor
       /\ Begin(h, "others", v, actor, actor, library[v])
  /\ UNCHANGED <<library, revisions, mishaps>>

(* Slip: only older versions are taken for published.                      *)
ReadOlder(h) ==
  /\ pc[h] = "others"
  /\ LET older == {v \in Published : v < request[h].ver} IN
       /\ request' = [request EXCEPT ![h].others = [v \in older |-> library[v]]]
       /\ pc' = [pc EXCEPT ![h] = IF older = {} THEN "publish" ELSE "archive"]
  /\ UNCHANGED <<library, revisions, mishaps>>

ReadOthers(h) ==
  /\ pc[h] = "others"
  /\ LET others == Published \ {request[h].ver} IN
       /\ request' = [request EXCEPT ![h].others = [v \in others |-> library[v]]]
       /\ pc' = [pc EXCEPT ![h] = IF others = {} THEN "publish" ELSE "archive"]
  /\ mishaps' = mishaps \cup
       (IF \E g \in Handlers : pc[g] \in {"archive", "publish"} THEN {"publishes_overlap"} ELSE {})
  /\ UNCHANGED <<library, revisions>>

ArchiveOther(h) ==
  /\ pc[h] = "archive"
  /\ LET others == request[h].others
         v == Min(DOMAIN others)
         rest == DOMAIN others \ {v}
     IN /\ library' = [library EXCEPT ![v] = [others[v] EXCEPT !.state = "archived"]]
        /\ mishaps' = mishaps \cup NoteStale(v, others[v])
        /\ request' = [request EXCEPT ![h].others = Restrict(others, rest)]
        /\ pc' = [pc EXCEPT ![h] = IF rest = {} THEN "publish" ELSE "archive"]
  /\ UNCHANGED revisions

(* Slip: a version that changed meanwhile is not published after all.      *)
PublishIfUnchanged(h) ==
  /\ pc[h] = "publish"
  /\ LET r == request[h] IN
       library' = IF library[r.ver] # r.row THEN library
                  ELSE [library EXCEPT ![r.ver] = HandedTo(r, "published")]
  /\ Finish(h)
  /\ UNCHANGED <<revisions, mishaps>>

Publish(h) ==
  /\ pc[h] = "publish"
  /\ LET r == request[h] IN
       /\ library' = [library EXCEPT ![r.ver] = HandedTo(r, "published")]
       /\ mishaps' = mishaps \cup NoteStale(r.ver, r.row)
  /\ Finish(h)
  /\ UNCHANGED revisions

-----------------------------------------------------------------------------
(* new_version: the latest row is cloned into a draft, which is given the  *)
(* number that is next by then.                                            *)
ReadLatest(h) ==
  /\ Present # {}
  /\ LET latest == Max(Present) IN
       \E actor \in Actors : \E name \in AuthorNames(actor) :
         Begin(h, "number", latest, actor, name, Draft(actor, name, library[latest].content))
  /\ UNCHANGED <<library, revisions, mishaps>>

NumberVersion(h) ==
  /\ pc[h] = "number"
  /\ Max(Present) < MaxVersion
  /\ request' = [request EXCEPT ![h].ver = Max(Present) + 1]
  /\ pc' = [pc EXCEPT ![h] = "clone"]
  /\ UNCHANGED <<library, revisions, mishaps>>

SaveClone(h) ==
  /\ pc[h] = "clone"
  /\ LET r == request[h] IN
       /\ library' = [library EXCEPT ![r.ver] = r.row]
       /\ mishaps' = mishaps \cup NoteStale(r.ver, NoRow)
  /\ Finish(h)
  /\ UNCHANGED revisions

(* A Console opened on the same store saves the shipped library again.     *)
LoadBuiltinLibrary ==
  /\ library' = [library EXCEPT ![1] = Shipped]
  /\ mishaps' = mishaps \cup (IF library[1] = NoRow THEN {} ELSE {"library_reloaded"})
  /\ UNCHANGED <<pc, request, revisions>>

(* The request ends between two statements: its process was stopped, or a  *)
(* statement on the store raised.                                          *)
CutShort(h) ==
  /\ pc[h] # "idle"
  /\ mishaps' = mishaps \cup (IF pc[h] \in {"archive", "publish"} THEN {"cut_short"} ELSE {})
  /\ Finish(h)
  /\ UNCHANGED <<library, revisions>>

Next ==
  \/ \E h \in Handlers :
       \/ Create(h)
       \/ ReadForEdit(h) \/ SaveDraft(h)
       \/ ReadForSubmit(h) \/ SubmitForReview(h)
       \/ ReadForPublish(h) \/ ReadOthers(h) \/ ArchiveOther(h) \/ Publish(h)
       \/ ReadLatest(h) \/ NumberVersion(h) \/ SaveClone(h)
       \/ CutShort(h)
  \/ LoadBuiltinLibrary

Spec == Init /\ [][Next]_vars

-----------------------------------------------------------------------------
(* Properties.                                                             *)

(* Every variable keeps its type, and versions are numbered without gaps:  *)
(* new_version counts on it.                                               *)
TypeOK ==
  /\ library \in [Versions -> RowType \cup {NoRow}]
  /\ Present = 1 .. Cardinality(Present)
  /\ pc \in [Handlers -> {"idle", "save", "submit", "others", "archive", "publish",
                          "number", "clone"}]
  /\ \A h \in Handlers :
       /\ pc[h] = "idle" <=> request[h] = NoRequest
       /\ pc[h] # "idle" => /\ request[h].ver \in Versions /\ request[h].actor \in Actors
                            /\ pc[h] \in {"submit", "others", "archive", "publish"} =>
                                 request[h].name = request[h].actor
       /\ pc[h] = "archive" <=> request[h] # NoRequest /\ DOMAIN request[h].others # {}
  /\ revisions \in 0 .. MaxRevisions
  /\ mishaps \subseteq Mishaps

(* "Only one published version per playbook id - archive the rest": holds  *)
(* however edits, submissions and new versions interleave with a publish,  *)
(* as long as no two publishes archive at the same time and the shipped    *)
(* library is not saved over a library in use.                             *)
OnePublishedVersion ==
  mishaps \cap {"publishes_overlap", "library_reloaded"} = {} => Cardinality(Published) <= 1

(* "The author/last editor cannot publish their own playbook"              *)
(* (playbooks.py:100) is not so: publish() compares with the last hand,    *)
(* which is the submitter's for a draft that went through review, and the  *)
(* name stored for an author need not be the one it compares (ui.py:248).  *)
(* Those are the only ways in which an author publishes, in any            *)
(* interleaving: nobody writes a version under their own name and          *)
(* publishes it with no other hand on it in between.                       *)
NobodyPublishesAlone ==
  \A v \in Versions : InState(v, {"published", "archived"}) => ~library[v].alone

(* "100% coverage" of findings by playbooks (playbooks.py:164): once a     *)
(* version was superseded, findings stay linked to a published one, but    *)
(* for the gap in which publish() has archived the old version and not yet *)
(* written the new one.  A request that is cut short there leaves them     *)
(* without, and so does one that is overtaken.                             *)
LibraryAnswers ==
  mishaps = {} /\ (\E v \in Versions : InState(v, {"archived"})) =>
    Attached # 0 \/ \E h \in Handlers : pc[h] \in {"archive", "publish"}

(* Never two published versions and, once one was superseded, never none   *)
(* for long: exactly one answers.                                          *)
OneVersionAnswers == OnePublishedVersion /\ LibraryAnswers

(* The lifecycle, and "only DRAFT playbooks are editable": what may become *)
(* of a version in one step.                                               *)
Moves == {<<"draft", "draft">>, <<"draft", "in_review">>, <<"draft", "published">>,
          <<"in_review", "published">>, <<"published", "archived">>}

LifecycleStep(v) ==
  library'[v] # library[v] =>
    IF library[v] = NoRow
    THEN library'[v] = Shipped \/ library'[v].state = "draft"
    ELSE /\ <<library[v].state, library'[v].state>> \in Moves
         /\ library'[v].content # library[v].content => library'[v].state = "draft"

(* Versions go through the lifecycle, and a content that left DRAFT is     *)
(* never edited, unless a handler writes over a row that changed since it  *)
(* read it, or version 1 is created or loaded over an existing one.        *)
LifecycleIsKept ==
  [][mishaps' \subseteq {"publishes_overlap", "cut_short"} => \A v \in Versions : LifecycleStep(v)]_vars

=============================================================================
