-------------------------- MODULE PlaybooksProofs ---------------------------
(***************************************************************************)
(* Proofs about Playbooks, for any number of request threads, actors,      *)
(* versions and contents.                                                  *)
(*                                                                         *)
(* A handler writes back what it made of a row it read some steps ago, so  *)
(* every claim about the rows of the library needs its counterpart about   *)
(* the rows the handlers hold.  Whether such a row is still the one of the *)
(* library is not part of the invariant: where it matters, the step that   *)
(* writes over another row is a mishap.                                    *)
(***************************************************************************)
EXTENDS Playbooks, FiniteSetTheorems, WellFoundedInduction, TLAPS

-----------------------------------------------------------------------------
(* The inductive invariant.                                                *)

Steps == {"idle", "save", "submit", "others", "archive", "publish", "number", "clone"}

Typed ==
  /\ library \in [Versions -> RowType \cup {NoRow}]
  /\ pc \in [Handlers -> Steps]
  /\ request \in [Handlers -> RequestType \cup {NoRequest}]
  /\ \A h \in Handlers :
       /\ pc[h] = "idle" <=> request[h] = NoRequest
       /\ pc[h] = "archive" <=> request[h] # NoRequest /\ DOMAIN request[h].others # {}
  /\ revisions \in 0 .. MaxRevisions
  /\ mishaps \subseteq Mishaps

(* Versions are numbered without gaps, and handlers work on versions that  *)
(* are there, or on the next one.                                          *)
NoGaps ==
  /\ \E n \in 0 .. MaxVersion : Present = 1 .. n
  /\ \A h \in Handlers :
       /\ pc[h] \in {"save", "submit", "others", "archive", "publish", "number"} =>
            request[h].ver \in Present
       /\ pc[h] = "clone" => request[h].ver = 1 \/ request[h].ver - 1 \in Present
       /\ pc[h] # "idle" => DOMAIN request[h].others \subseteq Present

(* What one author alone has handled carries their name, so that publish   *)
(* knows them again; and it has not been published.                        *)
Handled(row) ==
  row.alone = TRUE => row.state \in {"draft", "in_review"} /\ row.updatedBy = row.author

RowsAreHandled ==
  /\ \A v \in Present : Handled(library[v])
  /\ \A h \in Handlers : pc[h] # "idle" =>
       /\ request[h].row # NoRow /\ Handled(request[h].row)
       /\ \A v \in DOMAIN request[h].others : Handled(request[h].others[v])

(* What a handler checked of the row it read is true of the row it holds.  *)
RowsAreAsRead ==
  \A h \in Handlers :
    /\ pc[h] \in {"save", "submit", "number", "clone"} => request[h].row.state = "draft"
    /\ pc[h] \in {"submit", "others", "archive", "publish"} => request[h].name = request[h].actor
    /\ pc[h] \in {"others", "archive", "publish"} =>
         /\ request[h].row.state \in {"draft", "in_review"}
         /\ request[h].row.updatedBy # request[h].actor
         /\ \A v \in DOMAIN request[h].others : request[h].others[v].state = "published"

Publishing == {h \in Handlers : pc[h] \in {"archive", "publish"}}

(* A publisher that is alone has in hand every version it must archive.    *)
PublisherIsAlone ==
  mishaps \cap {"publishes_overlap", "library_reloaded"} = {} =>
    /\ \A g, h \in Publishing : g = h
    /\ \A h \in Publishing : Published \subseteq DOMAIN request[h].others \cup {request[h].ver}
    /\ \A u, v \in Published : u = v

SomeoneAnswers ==
  mishaps = {} /\ (\E v \in Versions : InState(v, {"archived"})) =>
    Published # {} \/ Publishing # {}

IInv == Typed /\ NoGaps /\ RowsAreHandled /\ RowsAreAsRead /\ PublisherIsAlone /\ SomeoneAnswers

-----------------------------------------------------------------------------
(* Lemmas about numbers and rows.                                          *)

LEMMA SmallestMember ==
  ASSUME NEW S \in SUBSET Nat, S # {}
  PROVE  Min(S) \in S /\ \A y \in S : Min(S) <= y
<1> DEFINE R == OpToRel(<, Nat)
<1>1. IsWellFoundedOn(R, Nat)
  BY NatLessThanWellFounded, Zenon
<1>2. \A x, y \in Nat : <<y, x>> \in R <=> y < x
  BY DEF OpToRel
<1> HIDE DEF R
<1>3. PICK x \in S : \A y \in S : ~(<<y, x>> \in R)
  BY <1>1, WFMin
<1>4. \A y \in S : x <= y
  <2>1. \A y \in S : y \in Nat /\ x \in Nat /\ ~(y < x)
    BY <1>2, <1>3
  <2> QED
    BY <2>1
<1> QED
  BY <1>4 DEF Min

LEMMA LargestMember ==
  ASSUME NEW m \in Nat, NEW S \in SUBSET (0 .. m), S # {}
  PROVE  Max(S) \in S /\ \A y \in S : Max(S) >= y
<1> DEFINE T == {m - x : x \in S}
<1>1. T \in SUBSET Nat /\ T # {}
  <2>1. \A x \in S : m - x \in Nat
    OBVIOUS
  <2> QED
    BY <2>1
<1> HIDE DEF T
<1>2. Min(T) \in T /\ \A y \in T : Min(T) <= y
  BY <1>1, SmallestMember
<1>3. PICK x \in S : Min(T) = m - x
  BY <1>2 DEF T
<1>4. \A y \in S : m - x <= m - y
  BY <1>2, <1>3 DEF T
<1>5. \A y \in S : x >= y
  BY <1>3, <1>4
<1> QED
  BY <1>5 DEF Max

LEMMA LargestOfInterval ==
  ASSUME NEW n \in Nat \ {0}
  PROVE  Max(1 .. n) = n
<1>1. 1 .. n \in SUBSET (0 .. n) /\ n \in 1 .. n
  OBVIOUS
<1>2. Max(1 .. n) \in 1 .. n /\ \A y \in 1 .. n : Max(1 .. n) >= y
  BY <1>1, LargestMember
<1> QED
  BY <1>1, <1>2

(* A finding is attached to a published version when there is one.         *)
LEMMA PublishedAnswers ==
  ASSUME Published # {}
  PROVE  Attached # 0
<1>1. Published \subseteq 1 .. MaxVersion /\ MaxVersion \in Nat
  BY LibraryConstantsAssumption DEF Published, Versions
<1>2. {0} \cup Published \in SUBSET (0 .. MaxVersion) /\ {0} \cup Published # {}
  BY <1>1
<1>3. PICK v \in Published : v \in 1 .. MaxVersion
  BY <1>1
<1>4. Attached >= v /\ Attached \in {0} \cup Published
  BY <1>1, <1>2, LargestMember DEF Attached
<1> QED
  BY <1>3, <1>4

(* What the handlers write: a draft, the shipped row, a row handed on by   *)
(* its submitter or by a publisher who is not its last editor, a row       *)
(* archived.                                                               *)
LEMMA NamesAreTyped ==
  ASSUME NEW actor \in Actors, NEW name \in AuthorNames(actor)
  PROVE  name \in Actors \cup {NoName}
  BY DEF AuthorNames

LEMMA DraftIsRow ==
  ASSUME NEW actor \in Actors, NEW name \in Actors \cup {NoName}, NEW content \in 0 .. MaxRevisions
  PROVE  /\ Draft(actor, name, content) \in RowType /\ Handled(Draft(actor, name, content))
         /\ Draft(actor, name, content).state = "draft"
<1> DEFINE own == name = actor
<1>1. own \in BOOLEAN
  OBVIOUS
<1>2. Draft(actor, name, content) =
        [state |-> "draft", updatedBy |-> name, content |-> content, author |-> actor, alone |-> own]
  BY DEF Draft
<1>3. own = TRUE => name = actor
  OBVIOUS
<1> HIDE DEF own
<1> QED
  BY <1>1, <1>2, <1>3 DEF RowType, States, Handled

LEMMA ShippedIsRow == Shipped \in RowType /\ Handled(Shipped) /\ Shipped.state = "published"
  BY LibraryConstantsAssumption DEF Shipped, RowType, States, Handled

LEMMA HandedToIsRow ==
  ASSUME NEW r, NEW state \in {"in_review", "published"},
         r.row \in RowType, Handled(r.row), r.actor \in Actors, r.name = r.actor,
         state = "published" => r.row.updatedBy # r.actor
  PROVE  /\ HandedTo(r, state) \in RowType /\ Handled(HandedTo(r, state))
         /\ HandedTo(r, state).state = state
         /\ HandedTo(r, state).content = r.row.content
<1> DEFINE row == r.row
           new == HandedTo(r, state)
           still == row.alone /\ r.actor = row.author
<1>1. still \in BOOLEAN /\ (still = TRUE => row.alone = TRUE /\ r.actor = row.author)
  BY DEF RowType
<1>2. new = [row EXCEPT !.state = state, !.updatedBy = r.name, !.alone = still]
  BY DEF HandedTo
<1>3. row.alone = TRUE => row.updatedBy = row.author
  BY DEF Handled
<1> HIDE DEF still, row, new
<1>4. row \in RowType /\ (state = "published" => row.updatedBy # r.actor) /\ r.row = row
  BY DEF row
<1>5. /\ new \in RowType /\ new.state = state /\ new.updatedBy = r.actor
      /\ new.author = row.author /\ new.alone = still /\ new.content = row.content
  BY <1>1, <1>2, <1>4 DEF RowType, States
<1>6. Handled(new)
  BY <1>1, <1>3, <1>4, <1>5 DEF Handled
<1> QED
  BY <1>4, <1>5, <1>6 DEF new

LEMMA ArchivedIsRow ==
  ASSUME NEW row \in RowType, Handled(row), row.state = "published"
  PROVE  /\ [row EXCEPT !.state = "archived"] \in RowType
         /\ Handled([row EXCEPT !.state = "archived"])
         /\ [row EXCEPT !.state = "archived"].state = "archived"
         /\ [row EXCEPT !.state = "archived"].content = row.content
<1> DEFINE new == [row EXCEPT !.state = "archived"]
<1>1. row.alone # TRUE
  BY DEF Handled
<1>2. new \in RowType /\ new.state = "archived" /\ new.content = row.content /\ new.alone = row.alone
  BY DEF RowType, States
<1> HIDE DEF new
<1>3. Handled(new)
  BY <1>1, <1>2 DEF Handled
<1> QED
  BY <1>2, <1>3 DEF new

(* A row is not the absence of one.                                        *)
LEMMA RowIsSome == NoRow \notin RowType /\ NoRequest \notin RequestType
  BY NothingAssumption

-----------------------------------------------------------------------------
(* Lemmas about the kinds of step.                                         *)

(* A request ends, or no handler moves.                                    *)
Releases(h) == Finish(h) \/ UNCHANGED <<pc, request>>

LEMMA Released ==
  ASSUME Typed, NEW h, Releases(h)
  PROVE  /\ pc' \in [Handlers -> Steps]
         /\ request' \in [Handlers -> RequestType \cup {NoRequest}]
         /\ \A g \in Handlers :
              \/ pc'[g] = "idle" /\ request'[g] = NoRequest /\ g = h
              \/ pc'[g] = pc[g] /\ request'[g] = request[g]
         /\ \A g \in Handlers :
              /\ pc'[g] = "idle" <=> request'[g] = NoRequest
              /\ pc'[g] = "archive" <=> request'[g] # NoRequest /\ DOMAIN request'[g].others # {}
         /\ Publishing' \subseteq Publishing
<1>1. /\ pc' \in [Handlers -> Steps]
      /\ request' \in [Handlers -> RequestType \cup {NoRequest}]
  BY DEF Typed, Releases, Finish, Steps
<1>2. \A g \in Handlers :
        \/ pc'[g] = "idle" /\ request'[g] = NoRequest /\ g = h
        \/ pc'[g] = pc[g] /\ request'[g] = request[g]
  BY DEF Typed, Releases, Finish
<1>3. \A g \in Handlers :
        /\ pc'[g] = "idle" <=> request'[g] = NoRequest
        /\ pc'[g] = "archive" <=> request'[g] # NoRequest /\ DOMAIN request'[g].others # {}
  BY <1>2 DEF Typed
<1> QED
  BY <1>1, <1>2, <1>3 DEF Publishing

(* One row is written.                                                     *)
LEMMA RowWritten ==
  ASSUME Typed, NEW v \in Versions, NEW row \in RowType,
         library' = [library EXCEPT ![v] = row]
  PROVE  /\ library' \in [Versions -> RowType \cup {NoRow}]
         /\ \A u \in Versions : library'[u] = IF u = v THEN row ELSE library[u]
         /\ Present' = Present \cup {v}
         /\ row.state # "published" => Published' = Published \ {v}
         /\ row.state = "published" => Published' = Published \cup {v}
         /\ row.state # "archived" => \A u \in Versions :
              InState(u, {"archived"})' => InState(u, {"archived"})
<1>1. /\ library' \in [Versions -> RowType \cup {NoRow}]
      /\ \A u \in Versions : library'[u] = IF u = v THEN row ELSE library[u]
  BY DEF Typed
<1>2. row # NoRow
  BY RowIsSome
<1> QED
  BY <1>1, <1>2 DEF Present, Published, InState

(* Whatever is written, the handlers keep what they hold.                  *)
Held == Typed /\ NoGaps /\ RowsAreHandled /\ RowsAreAsRead

LEMMA WriteKeepsHeld ==
  ASSUME Held, NEW h, Releases(h),
         NEW v \in Versions, v \in Present \/ v = 1 \/ v - 1 \in Present,
         NEW row \in RowType, Handled(row),
         library' = [library EXCEPT ![v] = row],
         revisions' \in 0 .. MaxRevisions, mishaps' \subseteq Mishaps
  PROVE  Held'
<1>1. Typed /\ NoGaps /\ RowsAreHandled /\ RowsAreAsRead
  BY DEF Held
<1>2. /\ pc' \in [Handlers -> Steps]
      /\ request' \in [Handlers -> RequestType \cup {NoRequest}]
      /\ \A g \in Handlers :
           \/ pc'[g] = "idle" /\ request'[g] = NoRequest
           \/ pc'[g] = pc[g] /\ request'[g] = request[g]
      /\ \A g \in Handlers :
           /\ pc'[g] = "idle" <=> request'[g] = NoRequest
           /\ pc'[g] = "archive" <=> request'[g] # NoRequest /\ DOMAIN request'[g].others # {}
  BY <1>1, Released
<1>3. /\ library' \in [Versions -> RowType \cup {NoRow}]
      /\ \A u \in Versions : library'[u] = IF u = v THEN row ELSE library[u]
      /\ Present' = Present \cup {v}
  BY <1>1, RowWritten
<1>4. Typed'
  BY <1>2, <1>3 DEF Typed
<1>5. NoGaps'
  <2>1. \E n \in 0 .. MaxVersion : Present' = 1 .. n
    <3>1. PICK n \in 0 .. MaxVersion : Present = 1 .. n
      BY <1>1 DEF NoGaps
    <3>2. v \in 1 .. MaxVersion /\ MaxVersion \in Nat /\ n \in Nat
      BY LibraryConstantsAssumption DEF Versions
    <3>3. CASE v \in 1 .. n
      <4>1. Present' = 1 .. n
        BY <1>3, <3>1, <3>3
      <4> QED
        BY <4>1
    <3>4. CASE v \notin 1 .. n
      <4>1. v = n + 1
        BY <3>1, <3>2, <3>4
      <4>2. Present' = 1 .. (n + 1) /\ n + 1 \in 0 .. MaxVersion
        BY <1>3, <3>1, <3>2, <4>1
      <4> QED
        BY <4>2
    <3> QED
      BY <3>3, <3>4
  <2>2. \A g \in Handlers :
          /\ pc'[g] \in {"save", "submit", "others", "archive", "publish", "number"} =>
               request'[g].ver \in Present'
          /\ pc'[g] = "clone" => request'[g].ver = 1 \/ request'[g].ver - 1 \in Present'
          /\ pc'[g] # "idle" => DOMAIN request'[g].others \subseteq Present'
    BY <1>1, <1>2, <1>3 DEF NoGaps
  <2> QED
    BY <2>1, <2>2 DEF NoGaps
<1>6. RowsAreHandled'
  <2>1. \A u \in Present' : Handled(library'[u])
    <3>1. Present' \subseteq Versions
      BY DEF Present
    <3> QED
      BY <1>1, <1>3, <3>1 DEF RowsAreHandled, Present
  <2>2. \A g \in Handlers : pc'[g] # "idle" =>
          /\ request'[g].row # NoRow /\ Handled(request'[g].row)
          /\ \A u \in DOMAIN request'[g].others : Handled(request'[g].others[u])
    BY <1>1, <1>2 DEF RowsAreHandled
  <2>3. \A x : Handled(x)' <=> Handled(x)
    BY DEF Handled
  <2> QED
    BY <2>1, <2>2 DEF RowsAreHandled, Handled
<1>7. RowsAreAsRead'
  BY <1>1, <1>2 DEF RowsAreAsRead
<1> QED
  BY <1>4, <1>5, <1>6, <1>7 DEF Held

(* Writing what is not published, over what is not published unless that   *)
(* is a mishap.                                                            *)
LEMMA QuietWriteKeeps ==
  ASSUME IInv, NEW h, Releases(h), h \notin Publishing,
         NEW v \in Versions, v \in Present \/ v = 1 \/ v - 1 \in Present,
         NEW row \in RowType, Handled(row), row.state \in {"draft", "in_review"},
         library' = [library EXCEPT ![v] = row],
         revisions' \in 0 .. MaxRevisions, mishaps \subseteq mishaps', mishaps' \subseteq Mishaps,
         mishaps' = {} => v \notin Published
  PROVE  IInv'
<1>1. Typed /\ Held /\ PublisherIsAlone /\ SomeoneAnswers
  BY DEF IInv, Held
<1>2. Held'
  BY <1>1, WriteKeepsHeld
<1>3. /\ Published' = Published \ {v}
      /\ \A u \in Versions : InState(u, {"archived"})' => InState(u, {"archived"})
  BY <1>1, RowWritten
<1>4. /\ Publishing' = Publishing
      /\ \A g \in Publishing : request'[g] = request[g]
  BY <1>1, Released DEF Publishing
<1>5. PublisherIsAlone'
  BY <1>1, <1>3, <1>4 DEF PublisherIsAlone
<1>6. SomeoneAnswers'
  BY <1>1, <1>3, <1>4 DEF SomeoneAnswers
<1> QED
  BY <1>2, <1>5, <1>6 DEF IInv, Held

(* A request begins with reading a row.                                    *)
LEMMA BeginKeeps ==
  ASSUME IInv, NEW h \in Handlers, NEW v \in Present, NEW actor \in Actors,
         NEW name \in Actors \cup {NoName}, NEW row \in RowType, Handled(row),
         NEW step \in {"save", "submit", "others", "number"},
         Begin(h, step, v, actor, name, row),
         step \in {"save", "submit", "number"} => row.state = "draft",
         step \in {"submit", "others"} => name = actor,
         step = "others" => row.state \in {"draft", "in_review"} /\ row.updatedBy # actor,
         UNCHANGED <<library, revisions, mishaps>>
  PROVE  IInv'
<1> DEFINE new == [ver |-> v, actor |-> actor, name |-> name, row |-> row, others |-> NoOthers]
<1>1. Typed /\ NoGaps /\ RowsAreHandled /\ RowsAreAsRead /\ PublisherIsAlone /\ SomeoneAnswers
  BY DEF IInv
<1>2. v \in Versions /\ row # NoRow
  BY RowIsSome DEF Present
<1>3. DOMAIN NoOthers = {} /\ NoOthers \in UNION {[V -> RowType] : V \in SUBSET Versions}
  <2>1. NoOthers \in [{} -> RowType] /\ {} \in SUBSET Versions
    BY DEF NoOthers
  <2> QED
    BY <2>1 DEF NoOthers
<1>4. /\ new \in RequestType /\ new # NoRequest /\ new.ver = v /\ new.actor = actor
      /\ new.name = name /\ new.row = row /\ new.others = NoOthers
  <2> DEFINE Others == UNION {[V -> RowType] : V \in SUBSET Versions}
  <2>1. NoOthers \in Others
    BY <1>3
  <2>2. RequestType = [ver : Versions, actor : Actors, name : Actors \cup {NoName},
                       row : RowType \cup {NoRow}, others : Others]
    BY DEF RequestType
  <2> HIDE DEF Others
  <2>3. new \in RequestType
    BY <1>2, <2>1, <2>2
  <2> QED
    BY <2>3, RowIsSome
<1>5. /\ pc[h] = "idle" /\ pc' = [pc EXCEPT ![h] = step]
      /\ request' = [request EXCEPT ![h] = new]
  BY DEF Begin
<1> HIDE DEF new
<1>6. /\ pc' \in [Handlers -> Steps]
      /\ request' \in [Handlers -> RequestType \cup {NoRequest}]
      /\ \A g \in Handlers : pc'[g] = IF g = h THEN step ELSE pc[g]
      /\ \A g \in Handlers : request'[g] = IF g = h THEN new ELSE request[g]
  BY <1>1, <1>4, <1>5 DEF Typed, Steps
<1>7. Present' = Present /\ Published' = Published /\ \A u, S : InState(u, S)' <=> InState(u, S)
  BY DEF Present, Published, InState
<1>8. Publishing' = Publishing /\ \A g \in Publishing : request'[g] = request[g]
  BY <1>5, <1>6 DEF Publishing
<1>9. Typed'
  BY <1>1, <1>3, <1>4, <1>6 DEF Typed
<1>10. NoGaps'
  BY <1>1, <1>3, <1>4, <1>6, <1>7 DEF NoGaps
<1>11. RowsAreHandled'
  BY <1>1, <1>2, <1>3, <1>4, <1>6, <1>7 DEF RowsAreHandled, Handled
<1>12. RowsAreAsRead'
  BY <1>1, <1>3, <1>4, <1>6 DEF RowsAreAsRead
<1>13. PublisherIsAlone' /\ SomeoneAnswers'
  BY <1>1, <1>7, <1>8 DEF PublisherIsAlone, SomeoneAnswers
<1> QED
  BY <1>9, <1>10, <1>11, <1>12, <1>13 DEF IInv

-----------------------------------------------------------------------------
(* The invariant is inductive.                                             *)

(* What a request carries.                                                 *)
LEMMA RequestIs ==
  ASSUME Typed, RowsAreHandled, NEW h \in Handlers, pc[h] # "idle"
  PROVE  /\ request[h] \in RequestType
         /\ request[h].ver \in Versions /\ request[h].actor \in Actors
         /\ request[h].name \in Actors \cup {NoName}
         /\ request[h].row \in RowType /\ Handled(request[h].row)
         /\ DOMAIN request[h].others \subseteq Versions
         /\ request[h].others \in [DOMAIN request[h].others -> RowType]
<1> DEFINE Others == UNION {[V -> RowType] : V \in SUBSET Versions}
<1>1. request[h] \in RequestType
  BY DEF Typed
<1>2. /\ request[h].ver \in Versions /\ request[h].actor \in Actors
      /\ request[h].name \in Actors \cup {NoName}
      /\ request[h].row \in RowType \cup {NoRow} /\ request[h].others \in Others
  <2>1. RequestType = [ver : Versions, actor : Actors, name : Actors \cup {NoName},
                       row : RowType \cup {NoRow}, others : Others]
    BY DEF RequestType
  <2> HIDE DEF Others
  <2> QED
    BY <1>1, <2>1
<1>3. PICK V \in SUBSET Versions : request[h].others \in [V -> RowType]
  BY <1>2
<1>4. DOMAIN request[h].others = V
  BY <1>3
<1>5. request[h].row # NoRow /\ Handled(request[h].row)
  BY DEF RowsAreHandled
<1> HIDE DEF Others
<1> QED
  BY <1>1, <1>2, <1>3, <1>4, <1>5

LEMMA InvInit == Init => IInv
<1> SUFFICES ASSUME Init
             PROVE  IInv
  OBVIOUS
<1>1. MaxVersion \in Nat \ {0} /\ 1 \in Versions /\ MaxRevisions \in Nat
  BY LibraryConstantsAssumption DEF Versions
<1>2. /\ pc = [h \in Handlers |-> "idle"] /\ request = [h \in Handlers |-> NoRequest]
      /\ revisions = 0 /\ mishaps = {}
  BY DEF Init
<1>3. \/ library = [v \in Versions |-> NoRow]
      \/ library = [v \in Versions |-> IF v = 1 THEN Shipped ELSE NoRow]
  BY DEF Init
<1>4. library \in [Versions -> RowType \cup {NoRow}] /\ \A v \in Versions : library[v] \in {NoRow, Shipped}
  BY <1>3, ShippedIsRow
<1>5. Typed
  BY <1>1, <1>2, <1>4 DEF Typed, Steps
<1>6. NoGaps
  <2>1. CASE library = [v \in Versions |-> NoRow]
    <3>1. Present = {} /\ 1 .. 0 = {} /\ 0 \in 0 .. MaxVersion
      BY <1>1, <2>1 DEF Present
    <3> QED
      BY <1>2, <3>1 DEF NoGaps
  <2>2. CASE library = [v \in Versions |-> IF v = 1 THEN Shipped ELSE NoRow]
    <3>1. Shipped # NoRow
      BY ShippedIsRow, RowIsSome
    <3>2. Present = {1} /\ 1 .. 1 = {1} /\ 1 \in 0 .. MaxVersion
      BY <1>1, <2>2, <3>1 DEF Present
    <3> QED
      BY <1>2, <3>2 DEF NoGaps
  <2> QED
    BY <1>3, <2>1, <2>2
<1>7. RowsAreHandled
  BY <1>2, <1>4, ShippedIsRow DEF RowsAreHandled, Present
<1>8. RowsAreAsRead
  BY <1>2 DEF RowsAreAsRead
<1>9. Publishing = {} /\ \A v \in Versions : ~InState(v, {"archived"})
  BY <1>2, <1>4, ShippedIsRow DEF Publishing, InState
<1>10. \A v \in Published : v = 1
  BY <1>3 DEF Published, InState
<1>11. PublisherIsAlone /\ SomeoneAnswers
  BY <1>9, <1>10 DEF PublisherIsAlone, SomeoneAnswers
<1> QED
  BY <1>5, <1>6, <1>7, <1>8, <1>11 DEF IInv

LEMMA CreateKeeps ==
  ASSUME IInv, NEW h \in Handlers, Create(h)
  PROVE  IInv'
<1>1. PICK actor \in Actors, name \in Actors \cup {NoName} :
        library' = [library EXCEPT ![1] = Draft(actor, name, revisions + 1)]
  BY NamesAreTyped DEF Create
<1>2. revisions + 1 \in 0 .. MaxRevisions /\ revisions' = revisions + 1
  BY LibraryConstantsAssumption DEF IInv, Typed, Create
<1>3. /\ Draft(actor, name, revisions + 1) \in RowType /\ Handled(Draft(actor, name, revisions + 1))
      /\ Draft(actor, name, revisions + 1).state = "draft"
  BY <1>2, DraftIsRow
<1>4. 1 \in Versions
  BY LibraryConstantsAssumption DEF Versions
<1>5. /\ mishaps \subseteq mishaps' /\ mishaps' \subseteq Mishaps
      /\ mishaps' = {} => 1 \notin Published
  BY DEF IInv, Typed, Create, Mishaps, Published, InState
<1>6. \E g : Releases(g) /\ g \notin Publishing
  <2>1. PICK g : g \notin Publishing
    <3>1. h \notin Publishing
      BY DEF Create, Publishing
    <3> QED
      BY <3>1
  <2> QED
    BY <2>1 DEF Create, Releases
<1> QED
  BY <1>1, <1>2, <1>3, <1>4, <1>5, <1>6, QuietWriteKeeps

LEMMA SaveDraftKeeps ==
  ASSUME IInv, NEW h \in Handlers, SaveDraft(h)
  PROVE  IInv'
<1> DEFINE r == request[h]
           row == Draft(r.actor, r.name, revisions + 1)
<1>1. /\ pc[h] = "save" /\ revisions < MaxRevisions /\ library' = [library EXCEPT ![r.ver] = row]
      /\ mishaps' = mishaps \cup NoteStale(r.ver, r.row)
      /\ revisions' = revisions + 1 /\ Finish(h)
  BY DEF SaveDraft
<1>2. Typed /\ RowsAreHandled /\ r.ver \in Present /\ r.row.state = "draft"
  BY <1>1 DEF IInv, NoGaps, RowsAreAsRead
<1>3. r.ver \in Versions /\ r.actor \in Actors /\ r.name \in Actors \cup {NoName}
  BY <1>1, <1>2, RequestIs
<1>4. revisions + 1 \in 0 .. MaxRevisions
  BY <1>1, <1>2, LibraryConstantsAssumption DEF Typed
<1>5. row \in RowType /\ Handled(row) /\ row.state = "draft"
  BY <1>3, <1>4, DraftIsRow
<1>6. /\ mishaps \subseteq mishaps' /\ mishaps' \subseteq Mishaps
      /\ mishaps' = {} => r.ver \notin Published
  BY <1>1, <1>2 DEF Typed, Mishaps, NoteStale, Published, InState
<1>7. h \notin Publishing
  BY <1>1 DEF Publishing
<1> HIDE DEF row
<1> QED
  BY <1>1, <1>2, <1>3, <1>4, <1>5, <1>6, <1>7, QuietWriteKeeps DEF Releases

LEMMA SubmitForReviewKeeps ==
  ASSUME IInv, NEW h \in Handlers, SubmitForReview(h)
  PROVE  IInv'
<1> DEFINE r == request[h]
           row == HandedTo(r, "in_review")
<1>1. /\ pc[h] = "submit" /\ library' = [library EXCEPT ![r.ver] = row]
      /\ mishaps' = mishaps \cup NoteStale(r.ver, r.row)
      /\ revisions' = revisions /\ Finish(h)
  BY DEF SubmitForReview
<1>2. Typed /\ RowsAreHandled /\ r.ver \in Present /\ r.row.state = "draft" /\ r.name = r.actor
  BY <1>1 DEF IInv, NoGaps, RowsAreAsRead
<1>3. r.ver \in Versions /\ r.actor \in Actors /\ r.row \in RowType /\ Handled(r.row)
  BY <1>1, <1>2, RequestIs
<1>4. row \in RowType /\ Handled(row) /\ row.state = "in_review"
  BY <1>2, <1>3, HandedToIsRow
<1>5. /\ mishaps \subseteq mishaps' /\ mishaps' \subseteq Mishaps
      /\ mishaps' = {} => r.ver \notin Published
  BY <1>1, <1>2 DEF Typed, Mishaps, NoteStale, Published, InState
<1>6. h \notin Publishing /\ revisions' \in 0 .. MaxRevisions
  BY <1>1, <1>2 DEF Publishing, Typed
<1> HIDE DEF row
<1> QED
  BY <1>1, <1>2, <1>3, <1>4, <1>5, <1>6, QuietWriteKeeps DEF Releases

LEMMA SaveCloneKeeps ==
  ASSUME IInv, NEW h \in Handlers, SaveClone(h)
  PROVE  IInv'
<1> DEFINE r == request[h]
           row == r.row
<1>1. /\ pc[h] = "clone" /\ library' = [library EXCEPT ![r.ver] = row]
      /\ mishaps' = mishaps \cup NoteStale(r.ver, NoRow)
      /\ revisions' = revisions /\ Finish(h)
  BY DEF SaveClone
<1>2. Typed /\ RowsAreHandled /\ row.state = "draft" /\ (r.ver = 1 \/ r.ver - 1 \in Present)
  BY <1>1 DEF IInv, NoGaps, RowsAreAsRead
<1>3. r.ver \in Versions
  BY <1>1, <1>2, RequestIs
<1>4. row \in RowType /\ Handled(row)
  BY <1>1, <1>2, RequestIs
<1>5. /\ mishaps \subseteq mishaps' /\ mishaps' \subseteq Mishaps
      /\ mishaps' = {} => r.ver \notin Published
  BY <1>1, <1>2 DEF Typed, Mishaps, NoteStale, Published, InState
<1>6. h \notin Publishing /\ revisions' \in 0 .. MaxRevisions
  BY <1>1, <1>2 DEF Publishing, Typed
<1> HIDE DEF row
<1> QED
  BY <1>1, <1>2, <1>3, <1>4, <1>5, <1>6, QuietWriteKeeps DEF Releases

(* The shipped library is saved over nothing, or it is a mishap.           *)
LEMMA LoadKeeps ==
  ASSUME IInv, LoadBuiltinLibrary
  PROVE  IInv'
<1>1. Typed /\ Held /\ NoGaps
  BY DEF IInv, Held
<1>2. /\ library' = [library EXCEPT ![1] = Shipped] /\ UNCHANGED <<pc, request, revisions>>
      /\ mishaps' \subseteq Mishaps
      /\ library[1] # NoRow => "library_reloaded" \in mishaps'
  BY <1>1 DEF LoadBuiltinLibrary, Typed, Mishaps
<1>3. 1 \in Versions /\ Shipped \in RowType /\ Handled(Shipped) /\ Shipped.state = "published"
  BY LibraryConstantsAssumption, ShippedIsRow DEF Versions
<1>4. Held'
  <2>1. revisions' \in 0 .. MaxRevisions
    BY <1>1, <1>2 DEF Typed
  <2>2. Releases(1)
    BY <1>2 DEF Releases
  <2> QED
    BY <1>1, <1>2, <1>3, <2>1, <2>2, WriteKeepsHeld
<1>5. Published' = Published \cup {1}
  BY <1>1, <1>2, <1>3, RowWritten
<1>6. CASE library[1] # NoRow
  BY <1>2, <1>4, <1>5, <1>6 DEF IInv, Held, PublisherIsAlone, SomeoneAnswers
<1>7. CASE library[1] = NoRow
  <2>1. Present = {}
    <3>1. PICK n \in 0 .. MaxVersion : Present = 1 .. n
      BY <1>1 DEF NoGaps
    <3>2. 1 \notin 1 .. n /\ n \in Nat
      BY <1>7, <3>1, LibraryConstantsAssumption DEF Present
    <3> QED
      BY <3>1, <3>2
  <2>2. Published = {} /\ Publishing' = {}
    BY <1>1, <1>2, <2>1 DEF Published, Present, InState, Publishing, NoGaps
  <2>3. PublisherIsAlone' /\ SomeoneAnswers'
    BY <1>5, <2>2 DEF PublisherIsAlone, SomeoneAnswers
  <2> QED
    BY <1>4, <2>3 DEF IInv, Held
<1> QED
  BY <1>6, <1>7

LEMMA PublishKeeps ==
  ASSUME IInv, NEW h \in Handlers, Publish(h)
  PROVE  IInv'
<1> DEFINE r == request[h]
           row == HandedTo(r, "published")
<1>1. /\ pc[h] = "publish" /\ library' = [library EXCEPT ![r.ver] = row]
      /\ mishaps' = mishaps \cup NoteStale(r.ver, r.row)
      /\ revisions' = revisions /\ Finish(h)
  BY DEF Publish
<1>2. /\ Typed /\ Held /\ r.ver \in Present /\ r.row.updatedBy # r.actor /\ r.name = r.actor
      /\ PublisherIsAlone /\ RowsAreHandled
  BY <1>1 DEF IInv, Held, NoGaps, RowsAreAsRead
<1>3. r.ver \in Versions /\ r.actor \in Actors /\ r.row \in RowType /\ Handled(r.row)
  BY <1>1, <1>2, RequestIs
<1>4. row \in RowType /\ Handled(row) /\ row.state = "published"
  BY <1>2, <1>3, HandedToIsRow
<1>5. mishaps \subseteq mishaps' /\ mishaps' \subseteq Mishaps /\ revisions' \in 0 .. MaxRevisions
  BY <1>1, <1>2 DEF Typed, Mishaps, NoteStale
<1> HIDE DEF row
<1>6. Held'
  BY <1>1, <1>2, <1>3, <1>4, <1>5, WriteKeepsHeld DEF Releases
<1>7. Published' = Published \cup {r.ver}
  BY <1>1, <1>2, <1>3, <1>4, RowWritten
<1>8. PublisherIsAlone'
  <2> SUFFICES ASSUME mishaps' \cap {"publishes_overlap", "library_reloaded"} = {}
               PROVE  Publishing' = {} /\ \A u, v \in Published' : u = v
    BY DEF PublisherIsAlone
  <2>1. h \in Publishing /\ DOMAIN r.others = {}
    BY <1>1, <1>2 DEF Publishing, Typed
  <2>2. /\ \A g \in Publishing : g = h
        /\ Published \subseteq {r.ver}
    BY <1>2, <1>5, <2>1 DEF PublisherIsAlone
  <2>3. Publishing' = {}
    BY <1>1, <1>2, <2>2 DEF Publishing, Finish, Typed
  <2> QED
    BY <1>7, <2>2, <2>3
<1>9. SomeoneAnswers'
  BY <1>7 DEF SomeoneAnswers
<1> QED
  BY <1>6, <1>8, <1>9 DEF IInv, Held

(* The four reads that begin a request.                                    *)
LEMMA ReadsKeep ==
  ASSUME IInv, NEW h \in Handlers,
         ReadForEdit(h) \/ ReadForSubmit(h) \/ ReadForPublish(h) \/ ReadLatest(h)
  PROVE  IInv'
<1>1. UNCHANGED <<library, revisions, mishaps>>
  BY DEF ReadForEdit, ReadForSubmit, ReadForPublish, ReadLatest
<1>2. \A v \in Present : /\ v \in Versions /\ library[v] \in RowType /\ Handled(library[v])
                         /\ \A S : InState(v, S) <=> library[v].state \in S
  BY DEF IInv, Typed, RowsAreHandled, Present, InState
<1>3. CASE ReadForEdit(h)
  <2>1. PICK v \in Present, actor \in Actors, name \in Actors \cup {NoName} :
          InState(v, {"draft"}) /\ Begin(h, "save", v, actor, name, library[v])
    BY <1>3, NamesAreTyped DEF ReadForEdit
  <2> QED
    BY <1>1, <1>2, <2>1, BeginKeeps
<1>4. CASE ReadForSubmit(h)
  <2>1. PICK v \in Present, actor \in Actors :
          InState(v, {"draft"}) /\ Begin(h, "submit", v, actor, actor, library[v])
    BY <1>4 DEF ReadForSubmit
  <2> QED
    BY <1>1, <1>2, <2>1, BeginKeeps
<1>5. CASE ReadForPublish(h)
  <2>1. PICK v \in Present, actor \in Actors :
          /\ InState(v, {"draft", "in_review"}) /\ library[v].updatedBy # actor
          /\ Begin(h, "others", v, actor, actor, library[v])
    BY <1>5 DEF ReadForPublish
  <2> QED
    BY <1>1, <1>2, <2>1, BeginKeeps
<1>6. CASE ReadLatest(h)
  <2> DEFINE latest == Max(Present)
  <2>1. PICK actor \in Actors, name \in Actors \cup {NoName} :
          Begin(h, "number", latest, actor, name, Draft(actor, name, library[latest].content))
    BY <1>6, NamesAreTyped DEF ReadLatest
  <2>2. latest \in Present
    <3>1. PICK n \in 0 .. MaxVersion : Present = 1 .. n
      BY DEF IInv, NoGaps
    <3>2. n \in Nat \ {0}
      BY <1>6, <3>1, LibraryConstantsAssumption DEF ReadLatest
    <3> QED
      BY <3>1, <3>2, LargestOfInterval
  <2> HIDE DEF latest
  <2>3. library[latest].content \in 0 .. MaxRevisions
    BY <1>2, <2>2 DEF RowType
  <2> QED
    BY <1>1, <2>1, <2>2, <2>3, DraftIsRow, BeginKeeps
<1> QED
  BY <1>3, <1>4, <1>5, <1>6

(* One handler moves on, and the library stays: what has to be shown is    *)
(* about what this handler holds.                                          *)
LEMMA MoveKeepsHeld ==
  ASSUME Held, NEW h \in Handlers, NEW step \in Steps \ {"idle"}, NEW new \in RequestType,
         pc' = [pc EXCEPT ![h] = step], request' = [request EXCEPT ![h] = new],
         UNCHANGED <<library, revisions>>, mishaps' \subseteq Mishaps,
         step = "archive" <=> DOMAIN new.others # {},
         step \in {"save", "submit", "others", "archive", "publish", "number"} => new.ver \in Present,
         step = "clone" => new.ver = 1 \/ new.ver - 1 \in Present,
         DOMAIN new.others \subseteq Present,
         new.row # NoRow /\ Handled(new.row) /\ \A v \in DOMAIN new.others : Handled(new.others[v]),
         step \in {"save", "submit", "number", "clone"} => new.row.state = "draft",
         step \in {"submit", "others", "archive", "publish"} => new.name = new.actor,
         step \in {"others", "archive", "publish"} =>
           /\ new.row.state \in {"draft", "in_review"} /\ new.row.updatedBy # new.actor
           /\ \A v \in DOMAIN new.others : new.others[v].state = "published"
  PROVE  Held'
<1>1. Typed /\ NoGaps /\ RowsAreHandled /\ RowsAreAsRead
  BY DEF Held
<1>2. new # NoRequest
  BY RowIsSome
<1>3. /\ pc' \in [Handlers -> Steps]
      /\ request' \in [Handlers -> RequestType \cup {NoRequest}]
      /\ \A g \in Handlers : pc'[g] = IF g = h THEN step ELSE pc[g]
      /\ \A g \in Handlers : request'[g] = IF g = h THEN new ELSE request[g]
  BY <1>1 DEF Typed
<1>4. Present' = Present
  BY DEF Present
<1>5. Typed'
  BY <1>1, <1>2, <1>3 DEF Typed
<1>6. NoGaps'
  BY <1>1, <1>3, <1>4 DEF NoGaps
<1>7. RowsAreHandled'
  BY <1>1, <1>3, <1>4 DEF RowsAreHandled, Handled
<1>8. RowsAreAsRead'
  BY <1>1, <1>3 DEF RowsAreAsRead
<1> QED
  BY <1>5, <1>6, <1>7, <1>8 DEF Held

LEMMA SameRequest ==
  ASSUME NEW r \in RequestType, NEW others, NEW V \in SUBSET Versions, others \in [V -> RowType]
  PROVE  /\ [r EXCEPT !.others = others] \in RequestType
         /\ [r EXCEPT !.others = others].others = others
         /\ [r EXCEPT !.others = others].row = r.row
         /\ [r EXCEPT !.others = others].ver = r.ver
         /\ [r EXCEPT !.others = others].actor = r.actor
         /\ [r EXCEPT !.others = others].name = r.name
<1> DEFINE Others == UNION {[W -> RowType] : W \in SUBSET Versions}
<1>1. others \in Others
  OBVIOUS
<1>2. RequestType = [ver : Versions, actor : Actors, name : Actors \cup {NoName},
                       row : RowType \cup {NoRow}, others : Others]
  BY DEF RequestType
<1> HIDE DEF Others
<1> QED
  BY <1>1, <1>2

LEMMA ReadOthersKeeps ==
  ASSUME IInv, NEW h \in Handlers, ReadOthers(h)
  PROVE  IInv'
<1> DEFINE r == request[h]
           rest == Published \ {r.ver}
           read == [v \in rest |-> library[v]]
           new == [r EXCEPT !.others = read]
           step == IF rest = {} THEN "publish" ELSE "archive"
<1>1. /\ Typed /\ Held /\ RowsAreHandled /\ RowsAreAsRead /\ PublisherIsAlone /\ NoGaps
      /\ pc[h] = "others"
      /\ pc' = [pc EXCEPT ![h] = step] /\ request' = [request EXCEPT ![h] = new]
      /\ UNCHANGED <<library, revisions>>
      /\ mishaps \subseteq mishaps' /\ mishaps' \subseteq Mishaps
      /\ Publishing # {} => "publishes_overlap" \in mishaps'
  <2>1. /\ Typed /\ Held /\ RowsAreHandled /\ RowsAreAsRead /\ PublisherIsAlone /\ NoGaps
    BY DEF IInv, Held
  <2> QED
    BY <2>1 DEF ReadOthers, Publishing, Typed, Mishaps
<1>2. /\ r \in RequestType /\ Handled(r.row) /\ r.row \in RowType
      /\ r.ver \in Present /\ r.row.state \in {"draft", "in_review"}
      /\ r.row.updatedBy # r.actor /\ r.name = r.actor
  BY <1>1, RequestIs DEF NoGaps, RowsAreAsRead
<1>3. /\ rest \in SUBSET Versions /\ rest \subseteq Present /\ DOMAIN read = rest
      /\ \A v \in rest : read[v] = library[v] /\ library[v] \in RowType /\ Handled(library[v])
                         /\ library[v].state = "published"
  BY <1>1 DEF Published, InState, Present, Typed, RowsAreHandled
<1>4. read \in [rest -> RowType]
  BY <1>3
<1> HIDE DEF rest, read, r
<1>5. /\ new \in RequestType /\ new.others = read /\ new.row = r.row
      /\ new.ver = r.ver /\ new.actor = r.actor /\ new.name = r.name
  BY <1>2, <1>3, <1>4, SameRequest
<1>6. step \in Steps \ {"idle"} /\ step \in {"archive", "publish"} /\ (step = "archive" <=> rest # {})
  BY DEF Steps
<1>7. new.row # NoRow
  BY <1>2, <1>5, RowIsSome
<1> HIDE DEF new, step
<1>8. Held'
  <2>1. step \in Steps \ {"idle"} /\ step \in {"archive", "publish"}
    BY <1>6
  <2>2. (step = "archive" <=> DOMAIN new.others # {}) /\ DOMAIN new.others \subseteq Present
    BY <1>3, <1>5, <1>6
  <2>3. \A v \in DOMAIN new.others : /\ Handled(new.others[v])
                                    /\ new.others[v].state = "published"
    BY <1>3, <1>5
  <2>4. /\ new.ver \in Present /\ Handled(new.row)
        /\ new.row.state \in {"draft", "in_review"} /\ new.row.updatedBy # new.actor
        /\ new.name = new.actor
    BY <1>2, <1>5
  <2>5. step \notin {"save", "submit", "number", "clone"}
    BY <2>1
  <2>6. /\ new \in RequestType /\ Held /\ mishaps' \subseteq Mishaps
        /\ pc' = [pc EXCEPT ![h] = step] /\ request' = [request EXCEPT ![h] = new]
        /\ UNCHANGED <<library, revisions>>
    BY <1>1, <1>5
  <2> QED
    BY <1>7, <2>1, <2>2, <2>3, <2>4, <2>5, <2>6, MoveKeepsHeld
<1>9. /\ Published' = Published /\ Publishing' = Publishing \cup {h}
      /\ request'[h] = new
  BY <1>1, <1>6 DEF Published, InState, Publishing, Typed
<1>10. PublisherIsAlone'
  <2> SUFFICES ASSUME mishaps' \cap {"publishes_overlap", "library_reloaded"} = {}
               PROVE  /\ Publishing' = {h}
                      /\ Published' \subseteq DOMAIN request'[h].others \cup {request'[h].ver}
                      /\ \A u, v \in Published' : u = v
    BY DEF PublisherIsAlone
  <2>1. Publishing = {} /\ \A u, v \in Published : u = v
    BY <1>1 DEF PublisherIsAlone
  <2>2. Published \subseteq DOMAIN new.others \cup {new.ver}
    BY <1>3, <1>5 DEF rest
  <2> QED
    BY <1>9, <2>1, <2>2
<1>11. SomeoneAnswers'
  BY <1>9 DEF SomeoneAnswers
<1> QED
  BY <1>8, <1>10, <1>11 DEF IInv, Held

LEMMA ArchiveOtherKeeps ==
  ASSUME IInv, NEW h \in Handlers, ArchiveOther(h)
  PROVE  IInv'
<1> DEFINE r == request[h]
           v == Min(DOMAIN r.others)
           row == [r.others[v] EXCEPT !.state = "archived"]
           rest == DOMAIN r.others \ {v}
           kept == Restrict(r.others, rest)
           new == [r EXCEPT !.others = kept]
           step == IF rest = {} THEN "publish" ELSE "archive"
<1>1. /\ Typed /\ Held /\ RowsAreHandled /\ RowsAreAsRead /\ PublisherIsAlone /\ NoGaps
  BY DEF IInv, Held
<1>2. /\ pc[h] = "archive" /\ library' = [library EXCEPT ![v] = row]
      /\ pc' = [pc EXCEPT ![h] = step] /\ request' = [request EXCEPT ![h] = new]
      /\ UNCHANGED revisions
      /\ mishaps \subseteq mishaps' /\ mishaps' \subseteq Mishaps
  BY <1>1 DEF ArchiveOther, Typed, Mishaps, NoteStale
<1>3. /\ r \in RequestType /\ Handled(r.row) /\ r.row \in RowType
      /\ DOMAIN r.others \subseteq Versions /\ r.others \in [DOMAIN r.others -> RowType]
      /\ r.ver \in Present /\ r.row.state \in {"draft", "in_review"}
      /\ r.row.updatedBy # r.actor /\ r.name = r.actor
      /\ \A u \in DOMAIN r.others : r.others[u].state = "published" /\ Handled(r.others[u])
      /\ DOMAIN r.others \subseteq Present /\ DOMAIN r.others # {}
  BY <1>1, <1>2, RequestIs DEF NoGaps, RowsAreAsRead, RowsAreHandled, Typed
<1>4. v \in DOMAIN r.others
  <2>1. DOMAIN r.others \in SUBSET Nat
    BY <1>3 DEF Versions
  <2> QED
    BY <1>3, <2>1, SmallestMember
<1>5. /\ rest \in SUBSET Versions /\ DOMAIN kept = rest /\ kept \in [rest -> RowType]
      /\ \A u \in rest : u \in DOMAIN r.others /\ kept[u] = r.others[u]
  BY <1>3 DEF Restrict
<1>6. row \in RowType /\ Handled(row) /\ row.state = "archived"
  BY <1>3, <1>4, ArchivedIsRow
<1>7. v \in Present /\ v \in Versions
  BY <1>3, <1>4
<1>8. \A u : u \in rest <=> u \in DOMAIN r.others /\ u # v
  OBVIOUS
<1> HIDE DEF v, rest, kept, r, row
<1>9. /\ new \in RequestType /\ new.others = kept /\ new.row = r.row
      /\ new.ver = r.ver /\ new.actor = r.actor /\ new.name = r.name
  BY <1>3, <1>5, SameRequest
<1>10. step \in Steps \ {"idle"} /\ step \in {"archive", "publish"} /\ (step = "archive" <=> rest # {})
  BY DEF Steps
<1>11. new.row # NoRow
  BY <1>3, <1>9, RowIsSome
<1> HIDE DEF new, step
<1>12. /\ library' \in [Versions -> RowType \cup {NoRow}]
       /\ \A u \in Versions : library'[u] = IF u = v THEN row ELSE library[u]
       /\ Present' = Present /\ Published' = Published \ {v}
  <2>1. row.state # "published" /\ Present \cup {v} = Present
    BY <1>6, <1>7
  <2> QED
    BY <1>1, <1>2, <1>6, <1>7, <2>1, RowWritten
<1>13. /\ pc' \in [Handlers -> Steps]
       /\ request' \in [Handlers -> RequestType \cup {NoRequest}]
       /\ \A g \in Handlers : pc'[g] = IF g = h THEN step ELSE pc[g]
       /\ \A g \in Handlers : request'[g] = IF g = h THEN new ELSE request[g]
  BY <1>1, <1>2, <1>9, <1>10 DEF Typed
<1>14. Typed'
  <2>1. new # NoRequest
    BY <1>9, RowIsSome
  <2> QED
    BY <1>1, <1>2, <1>5, <1>9, <1>10, <1>12, <1>13, <2>1 DEF Typed
<1>15. NoGaps'
  BY <1>1, <1>3, <1>5, <1>9, <1>10, <1>12, <1>13 DEF NoGaps
<1>16. RowsAreHandled'
  <2>1. \A u \in Present' : Handled(library'[u])
    BY <1>1, <1>6, <1>12 DEF RowsAreHandled, Present
  <2>2. \A g \in Handlers : pc'[g] # "idle" =>
          /\ request'[g].row # NoRow /\ Handled(request'[g].row)
          /\ \A u \in DOMAIN request'[g].others : Handled(request'[g].others[u])
    BY <1>1, <1>3, <1>5, <1>9, <1>11, <1>13 DEF RowsAreHandled
  <2> QED
    BY <2>1, <2>2 DEF RowsAreHandled, Handled
<1>17. RowsAreAsRead'
  BY <1>1, <1>3, <1>5, <1>9, <1>10, <1>13 DEF RowsAreAsRead
<1>18. Publishing' = Publishing /\ h \in Publishing
  BY <1>2, <1>10, <1>13 DEF Publishing
<1>19. PublisherIsAlone'
  <2> SUFFICES ASSUME mishaps' \cap {"publishes_overlap", "library_reloaded"} = {}
               PROVE  /\ \A g \in Publishing : g = h
                      /\ Published' \subseteq DOMAIN new.others \cup {new.ver}
                      /\ \A x, y \in Published' : x = y
    BY <1>13, <1>18 DEF PublisherIsAlone, Publishing
  <2>1. /\ \A g \in Publishing : g = h
        /\ Published \subseteq DOMAIN r.others \cup {r.ver}
        /\ \A x, y \in Published : x = y
    BY <1>1, <1>2, <1>18 DEF PublisherIsAlone, r
  <2> QED
    BY <1>5, <1>8, <1>9, <1>12, <2>1
<1>20. SomeoneAnswers'
  BY <1>18 DEF SomeoneAnswers
<1> QED
  BY <1>14, <1>15, <1>16, <1>17, <1>19, <1>20 DEF IInv

LEMMA NumberVersionKeeps ==
  ASSUME IInv, NEW h \in Handlers, NumberVersion(h)
  PROVE  IInv'
<1> DEFINE r == request[h]
           new == [r EXCEPT !.ver = Max(Present) + 1]
<1>1. /\ Typed /\ Held /\ RowsAreHandled /\ PublisherIsAlone /\ SomeoneAnswers /\ NoGaps
      /\ pc[h] = "number" /\ Max(Present) < MaxVersion
      /\ pc' = [pc EXCEPT ![h] = "clone"] /\ request' = [request EXCEPT ![h] = new]
      /\ UNCHANGED <<library, revisions, mishaps>>
  BY DEF IInv, Held, NumberVersion
<1>2. Max(Present) \in Present /\ Max(Present) + 1 \in Versions
  <2>1. PICK n \in 0 .. MaxVersion : Present = 1 .. n
    BY <1>1 DEF NoGaps
  <2>2. Present # {}
    BY <1>1 DEF NoGaps
  <2>3. n \in Nat \ {0}
    BY <2>1, <2>2, LibraryConstantsAssumption
  <2>4. Max(Present) = n
    BY <2>1, <2>3, LargestOfInterval
  <2> QED
    BY <1>1, <2>1, <2>3, <2>4, LibraryConstantsAssumption DEF Versions
<1>3. /\ r \in RequestType /\ r.row \in RowType /\ Handled(r.row)
      /\ DOMAIN r.others = {} /\ r.row.state = "draft"
  BY <1>1, RequestIs DEF Typed, Held, RowsAreAsRead
<1> DEFINE m == Max(Present) + 1
<1>4. m \in Versions /\ m - 1 \in Present
  <2>1. Max(Present) \in Int
    BY <1>2 DEF Present, Versions
  <2> QED
    BY <1>2, <2>1
<1> HIDE DEF m, r
<1>5. /\ new \in RequestType /\ new.ver = m /\ new.row = r.row /\ new.others = r.others
  <2> DEFINE Others == UNION {[W -> RowType] : W \in SUBSET Versions}
  <2>1. RequestType = [ver : Versions, actor : Actors, name : Actors \cup {NoName},
                       row : RowType \cup {NoRow}, others : Others]
    BY DEF RequestType
  <2>2. new = [r EXCEPT !.ver = m]
    BY DEF m
  <2> HIDE DEF Others, new
  <2> QED
    BY <1>3, <1>4, <2>1, <2>2
<1> HIDE DEF new
<1>6. Held'
  <2>1. "clone" \in Steps \ {"idle"} /\ new.row # NoRow /\ mishaps' \subseteq Mishaps
    BY <1>1, <1>3, <1>5, RowIsSome DEF Steps, Typed
  <2> QED
    BY <1>1, <1>3, <1>4, <1>5, <2>1, MoveKeepsHeld
<1>7. /\ Published' = Published /\ Publishing' = Publishing
      /\ \A v, S : InState(v, S)' <=> InState(v, S)
      /\ \A g \in Publishing : request'[g] = request[g]
  BY <1>1 DEF Published, InState, Publishing, Typed
<1>8. PublisherIsAlone' /\ SomeoneAnswers'
  BY <1>1, <1>7 DEF PublisherIsAlone, SomeoneAnswers
<1> QED
  BY <1>6, <1>8 DEF IInv, Held

LEMMA CutShortKeeps ==
  ASSUME IInv, NEW h \in Handlers, CutShort(h)
  PROVE  IInv'
<1>1. /\ Typed /\ NoGaps /\ RowsAreHandled /\ RowsAreAsRead /\ PublisherIsAlone /\ SomeoneAnswers
      /\ Releases(h) /\ UNCHANGED <<library, revisions>>
      /\ mishaps \subseteq mishaps' /\ mishaps' \subseteq Mishaps
      /\ h \in Publishing => mishaps' # {}
  <2>1. Typed
    BY DEF IInv
  <2> QED
    BY <2>1 DEF IInv, CutShort, Releases, Publishing, Typed, Mishaps
<1>2. /\ pc' \in [Handlers -> Steps]
      /\ request' \in [Handlers -> RequestType \cup {NoRequest}]
      /\ \A g \in Handlers :
           \/ pc'[g] = "idle" /\ request'[g] = NoRequest /\ g = h
           \/ pc'[g] = pc[g] /\ request'[g] = request[g]
      /\ \A g \in Handlers :
           /\ pc'[g] = "idle" <=> request'[g] = NoRequest
           /\ pc'[g] = "archive" <=> request'[g] # NoRequest /\ DOMAIN request'[g].others # {}
      /\ Publishing' \subseteq Publishing
  BY <1>1, Released
<1>3. Present' = Present /\ Published' = Published /\ \A u, S : InState(u, S)' <=> InState(u, S)
  BY <1>1 DEF Present, Published, InState
<1>4. Typed'
  BY <1>1, <1>2 DEF Typed
<1>5. NoGaps'
  BY <1>1, <1>2, <1>3 DEF NoGaps
<1>6. RowsAreHandled'
  BY <1>1, <1>2, <1>3 DEF RowsAreHandled, Handled
<1>7. RowsAreAsRead'
  BY <1>1, <1>2 DEF RowsAreAsRead
<1>8. \A g \in Publishing' : g \in Publishing /\ request'[g] = request[g]
  BY <1>2 DEF Publishing
<1>9. PublisherIsAlone'
  BY <1>1, <1>3, <1>8 DEF PublisherIsAlone
<1>10. SomeoneAnswers'
  <2>1. mishaps' = {} => Publishing' = Publishing
    BY <1>1, <1>2 DEF Publishing
  <2> QED
    BY <1>1, <1>3, <2>1 DEF SomeoneAnswers
<1> QED
  BY <1>4, <1>5, <1>6, <1>7, <1>9, <1>10 DEF IInv

LEMMA StutterKeeps ==
  ASSUME IInv, UNCHANGED vars
  PROVE  IInv'
  BY DEF vars, IInv, Typed, NoGaps, RowsAreHandled, RowsAreAsRead, PublisherIsAlone,
         SomeoneAnswers, Present, Published, Publishing, InState, Handled

-----------------------------------------------------------------------------
(* The theorems.                                                           *)

LEMMA InvStep ==
  ASSUME IInv, [Next]_vars
  PROVE  IInv'
<1>1. CASE UNCHANGED vars
  BY <1>1, StutterKeeps
<1>2. ASSUME NEW h \in Handlers,
             ReadForEdit(h) \/ ReadForSubmit(h) \/ ReadForPublish(h) \/ ReadLatest(h)
      PROVE  IInv'
  BY <1>2, ReadsKeep
<1>3. ASSUME NEW h \in Handlers,
             Create(h) \/ SaveDraft(h) \/ SubmitForReview(h) \/ SaveClone(h)
      PROVE  IInv'
  BY <1>3, CreateKeeps, SaveDraftKeeps, SubmitForReviewKeeps, SaveCloneKeeps
<1>4. ASSUME NEW h \in Handlers, ReadOthers(h) \/ ArchiveOther(h) \/ Publish(h)
      PROVE  IInv'
  BY <1>4, ReadOthersKeeps, ArchiveOtherKeeps, PublishKeeps
<1>5. ASSUME NEW h \in Handlers, NumberVersion(h) \/ CutShort(h)
      PROVE  IInv'
  BY <1>5, NumberVersionKeeps, CutShortKeeps
<1>6. CASE LoadBuiltinLibrary
  BY <1>6, LoadKeeps
<1> QED
  BY <1>1, <1>2, <1>3, <1>4, <1>5, <1>6 DEF Next

(* The invariant holds in every reachable state.                           *)
THEOREM Inductive == Spec => []IInv
  BY InvInit, InvStep, PTL DEF Spec

(* The variables keep their types, and versions are numbered without gaps  *)
(* (new_version, playbooks.py).                                            *)
THEOREM TypeCorrect == Spec => []TypeOK
<1>1. ASSUME IInv
      PROVE  TypeOK
  <2>1. Typed /\ NoGaps /\ RowsAreHandled
    BY <1>1 DEF IInv
  <2>2. Present = 1 .. Cardinality(Present)
    <3>1. PICK n \in 0 .. MaxVersion : Present = 1 .. n
      BY <2>1 DEF NoGaps
    <3>2. n \in Nat
      BY LibraryConstantsAssumption
    <3>3. Cardinality(1 .. n) = n
      <4>1. Cardinality(1 .. n) = IF 1 > n THEN 0 ELSE n - 1 + 1
        BY <3>2, FS_Interval
      <4> QED
        BY <3>2, <4>1
    <3> QED
      BY <3>1, <3>3
  <2>3. \A h \in Handlers : pc[h] # "idle" =>
          /\ request[h].ver \in Versions /\ request[h].actor \in Actors
          /\ pc[h] \in {"submit", "others", "archive", "publish"} => request[h].name = request[h].actor
    BY <1>1, <2>1, RequestIs DEF IInv, RowsAreAsRead
  <2> QED
    BY <2>1, <2>2, <2>3 DEF TypeOK, Typed, Steps
<1> QED
  BY <1>1, Inductive, PTL

(* "Only one published version per playbook id - archive the rest"         *)
(* (playbooks.py, publish): however requests interleave, if no two         *)
(* publishes overlap and the shipped library is not loaded over one in     *)
(* use; and without mishaps a superseded playbook is always answered for   *)
(* by one published version, or by the publisher at work.                  *)
THEOREM OneAnswers == Spec => []OneVersionAnswers
<1>1. ASSUME IInv
      PROVE  OneVersionAnswers
  <2>1. OnePublishedVersion
    <3> SUFFICES ASSUME mishaps \cap {"publishes_overlap", "library_reloaded"} = {}
                 PROVE  Cardinality(Published) <= 1
      BY DEF OnePublishedVersion
    <3>1. \A u, v \in Published : u = v
      BY <1>1 DEF IInv, PublisherIsAlone
    <3>2. CASE Published = {}
      BY <3>2, FS_EmptySet
    <3>3. CASE Published # {}
      <4>1. PICK v \in Published : TRUE
        BY <3>3
      <4>2. Published = {v}
        BY <3>1, <4>1
      <4>3. Cardinality({v}) = 1
        BY FS_Singleton
      <4> QED
        BY <4>2, <4>3
    <3> QED
      BY <3>2, <3>3
  <2>2. LibraryAnswers
    BY <1>1, PublishedAnswers DEF LibraryAnswers, IInv, SomeoneAnswers, Publishing
  <2> QED
    BY <2>1, <2>2 DEF OneVersionAnswers
<1> QED
  BY <1>1, Inductive, PTL

(* What is left of "the author/last editor cannot publish their own        *)
(* playbook" (playbooks.py, publish): in any interleaving of requests,     *)
(* nobody writes a version under their own name and publishes it with no   *)
(* other hand on it in between.  That the author does not publish at all   *)
(* is not so, whoever submits and whatever name is stored.                 *)
THEOREM NobodyAlone == Spec => []NobodyPublishesAlone
<1>1. ASSUME IInv
      PROVE  NobodyPublishesAlone
  <2>1. \A v \in Versions : library[v] # NoRow => library[v] \in RowType /\ Handled(library[v])
    BY <1>1 DEF IInv, Typed, RowsAreHandled, Present
  <2>2. \A v \in Versions : library[v] # NoRow => library[v].alone \in BOOLEAN
    BY <2>1 DEF RowType
  <2>3. \A v \in Versions : InState(v, {"published", "archived"}) => library[v].alone = FALSE
    BY <2>1, <2>2 DEF Handled, InState
  <2> QED
    BY <2>3 DEF NobodyPublishesAlone
<1> QED
  BY <1>1, Inductive, PTL

-----------------------------------------------------------------------------
(* The lifecycle.                                                          *)

Unharmed == mishaps' \subseteq {"publishes_overlap", "cut_short"}

(* A step that writes one row keeps the lifecycle if it moves that row     *)
(* along it.                                                               *)
LEMMA OneRowMoves ==
  ASSUME Typed, NEW v \in Versions, NEW row \in RowType,
         library' = [library EXCEPT ![v] = row],
         IF library[v] = NoRow THEN row = Shipped \/ row.state = "draft"
         ELSE /\ <<library[v].state, row.state>> \in Moves
              /\ row.content # library[v].content => row.state = "draft"
  PROVE  \A u \in Versions : LifecycleStep(u)
  BY RowWritten DEF LifecycleStep

LEMMA LifecycleOfStep ==
  ASSUME IInv, [Next]_vars, Unharmed
  PROVE  \A v \in Versions : LifecycleStep(v)
<1>0. Typed /\ RowsAreHandled /\ RowsAreAsRead /\ NoGaps
  BY DEF IInv
<1>1. CASE UNCHANGED library
  BY <1>1 DEF LifecycleStep
<1>2. ASSUME NEW h \in Handlers, Create(h)
      PROVE  \A v \in Versions : LifecycleStep(v)
  <2>1. PICK actor \in Actors, name \in Actors \cup {NoName} :
          library' = [library EXCEPT ![1] = Draft(actor, name, revisions + 1)]
    BY <1>2, NamesAreTyped DEF Create
  <2>2. library[1] = NoRow
    BY <1>2 DEF Create, Unharmed
  <2>3. revisions + 1 \in 0 .. MaxRevisions /\ 1 \in Versions
    BY <1>0, <1>2, LibraryConstantsAssumption DEF Create, Typed, Versions
  <2> QED
    BY <1>0, <2>1, <2>2, <2>3, DraftIsRow, OneRowMoves
<1>3. ASSUME NEW h \in Handlers, SaveDraft(h)
      PROVE  \A v \in Versions : LifecycleStep(v)
  <2> DEFINE r == request[h]
  <2>1. /\ library' = [library EXCEPT ![r.ver] = Draft(r.actor, r.name, revisions + 1)]
        /\ pc[h] = "save" /\ library[r.ver] = r.row /\ revisions < MaxRevisions
    BY <1>3 DEF SaveDraft, NoteStale, Unharmed
  <2>2. /\ r.ver \in Versions /\ r.actor \in Actors /\ r.name \in Actors \cup {NoName}
        /\ r.row # NoRow /\ r.row.state = "draft"
    BY <1>0, <2>1, RequestIs, RowIsSome DEF RowsAreAsRead
  <2>3. revisions + 1 \in 0 .. MaxRevisions
    BY <1>0, <2>1, LibraryConstantsAssumption DEF Typed
  <2>4. <<"draft", "draft">> \in Moves
    BY DEF Moves
  <2> QED
    BY <1>0, <2>1, <2>2, <2>3, <2>4, DraftIsRow, OneRowMoves
<1>4. ASSUME NEW h \in Handlers, SubmitForReview(h)
      PROVE  \A v \in Versions : LifecycleStep(v)
  <2> DEFINE r == request[h]
             row == HandedTo(r, "in_review")
  <2>1. /\ library' = [library EXCEPT ![r.ver] = row]
        /\ pc[h] = "submit" /\ library[r.ver] = r.row
    BY <1>4 DEF SubmitForReview, NoteStale, Unharmed
  <2>2. /\ r.ver \in Versions /\ r.actor \in Actors /\ r.row \in RowType /\ Handled(r.row)
        /\ r.row # NoRow /\ r.row.state = "draft" /\ r.name = r.actor
    BY <1>0, <2>1, RequestIs, RowIsSome DEF RowsAreAsRead
  <2>3. row \in RowType /\ row.state = "in_review" /\ row.content = r.row.content
    BY <2>2, HandedToIsRow
  <2>4. <<"draft", "in_review">> \in Moves
    BY DEF Moves
  <2> HIDE DEF row
  <2> QED
    BY <1>0, <2>1, <2>2, <2>3, <2>4, OneRowMoves
<1>5. ASSUME NEW h \in Handlers, Publish(h)
      PROVE  \A v \in Versions : LifecycleStep(v)
  <2> DEFINE r == request[h]
             row == HandedTo(r, "published")
  <2>1. /\ library' = [library EXCEPT ![r.ver] = row]
        /\ pc[h] = "publish" /\ library[r.ver] = r.row
    BY <1>5 DEF Publish, NoteStale, Unharmed
  <2>2. /\ r.ver \in Versions /\ r.actor \in Actors /\ r.row \in RowType /\ Handled(r.row)
        /\ r.row # NoRow /\ r.row.state \in {"draft", "in_review"}
        /\ r.row.updatedBy # r.actor /\ r.name = r.actor
    BY <1>0, <2>1, RequestIs, RowIsSome DEF RowsAreAsRead
  <2>3. row \in RowType /\ row.state = "published" /\ row.content = r.row.content
    BY <2>2, HandedToIsRow
  <2>4. <<"draft", "published">> \in Moves /\ <<"in_review", "published">> \in Moves
    BY DEF Moves
  <2> HIDE DEF row
  <2> QED
    BY <1>0, <2>1, <2>2, <2>3, <2>4, OneRowMoves
<1>6. ASSUME NEW h \in Handlers, ArchiveOther(h)
      PROVE  \A v \in Versions : LifecycleStep(v)
  <2> DEFINE r == request[h]
             w == Min(DOMAIN r.others)
             row == [r.others[w] EXCEPT !.state = "archived"]
  <2>1. /\ library' = [library EXCEPT ![w] = row]
        /\ pc[h] = "archive" /\ library[w] = r.others[w]
    BY <1>6 DEF ArchiveOther, NoteStale, Unharmed
  <2>2. /\ DOMAIN r.others \subseteq Versions /\ DOMAIN r.others # {}
        /\ \A u \in DOMAIN r.others : /\ r.others[u] \in RowType /\ Handled(r.others[u])
                                      /\ r.others[u].state = "published"
    BY <1>0, <2>1, RequestIs DEF RowsAreAsRead, RowsAreHandled, Typed
  <2>3. w \in DOMAIN r.others
    <3>1. DOMAIN r.others \in SUBSET Nat
      BY <2>2 DEF Versions
    <3> QED
      BY <2>2, <3>1, SmallestMember
  <2> HIDE DEF w
  <2>4. row \in RowType /\ row.state = "archived" /\ row.content = r.others[w].content
    BY <2>2, <2>3, ArchivedIsRow
  <2>5. <<"published", "archived">> \in Moves /\ r.others[w] # NoRow
    BY <2>2, <2>3, RowIsSome DEF Moves
  <2> HIDE DEF row
  <2> QED
    BY <1>0, <2>1, <2>2, <2>3, <2>4, <2>5, OneRowMoves
<1>7. ASSUME NEW h \in Handlers, SaveClone(h)
      PROVE  \A v \in Versions : LifecycleStep(v)
  <2> DEFINE r == request[h]
  <2>1. /\ library' = [library EXCEPT ![r.ver] = r.row]
        /\ pc[h] = "clone" /\ library[r.ver] = NoRow
    BY <1>7 DEF SaveClone, NoteStale, Unharmed
  <2>2. r.ver \in Versions /\ r.row \in RowType /\ r.row.state = "draft"
    BY <1>0, <2>1, RequestIs DEF RowsAreAsRead
  <2> QED
    BY <1>0, <2>1, <2>2, OneRowMoves
<1>8. CASE LoadBuiltinLibrary
  <2>1. library[1] = NoRow /\ library' = [library EXCEPT ![1] = Shipped] /\ 1 \in Versions
    BY <1>8, LibraryConstantsAssumption DEF LoadBuiltinLibrary, Unharmed, Versions
  <2> QED
    BY <1>0, <2>1, ShippedIsRow, OneRowMoves
<1>9. ASSUME NEW h \in Handlers,
             \/ ReadForEdit(h) \/ ReadForSubmit(h) \/ ReadForPublish(h) \/ ReadOthers(h)
             \/ ReadLatest(h) \/ NumberVersion(h) \/ CutShort(h)
      PROVE  UNCHANGED library
  BY <1>9
  DEF ReadForEdit, ReadForSubmit, ReadForPublish, ReadOthers, ReadLatest, NumberVersion, CutShort
<1> QED
  BY <1>1, <1>2, <1>3, <1>4, <1>5, <1>6, <1>7, <1>8, <1>9 DEF Next, vars

(* "Only DRAFT playbooks are editable" and the lifecycle (playbooks.py,    *)
(* PlaybookState): in every interleaving, unless a handler writes over a   *)
(* row that changed since it read it, or version 1 is written over.        *)
THEOREM Lifecycle == Spec => LifecycleIsKept
<1>1. ASSUME IInv, [Next]_vars
      PROVE  [mishaps' \subseteq {"publishes_overlap", "cut_short"} =>
                \A v \in Versions : LifecycleStep(v)]_vars
  BY <1>1, LifecycleOfStep DEF Unharmed
<1> QED
  BY <1>1, Inductive, PTL DEF Spec, LifecycleIsKept

=============================================================================
