--------------------------- MODULE WorkflowProofs ---------------------------
(***************************************************************************)
(* Proofs about Workflow, for any finite set of users and any number of    *)
(* calls.                                                                  *)
(*                                                                         *)
(* The argument: every ticket in play, in the table or in the locals of a  *)
(* call, is legal, and a call moves the one it read by one allowed move;   *)
(* which of them ends up in the table does not matter.  As long as no call *)
(* wrote over a ticket that changed since it read it, histories only grow, *)
(* so a ticket that was marked remediated again is longer than the one a   *)
(* re-scan passed for.  And what is in a history is in the log or on its   *)
(* way there, since every write is followed by its own audit record.       *)
(***************************************************************************)
EXTENDS Workflow, FiniteSetTheorems, SequenceTheorems, TLAPS

-----------------------------------------------------------------------------
(* The inductive invariant.                                                *)

LegalTicket(t) ==
  /\ t \in TicketType
  /\ t.history # <<>>
  /\ Last(t.history) = t.state
  /\ \A i \in 1 .. Len(t.history) - 1 : t.history[i + 1] \in Allowed(t.history[i])

(* The tickets a call may still write: the one it read, moved, or the one  *)
(* it wrote, with its assignee.                                            *)
HasRead(u) == pc[u] \in {"rescan", "write"}
WillWriteAgain(u) == pc[u] \in {"audit", "assignee"} /\ call[u].kind = "assign"

LocalsAreLegal ==
  \A u \in Users :
    /\ HasRead(u) =>
         /\ LegalTicket(call[u].read)
         /\ call[u].to \in Allowed(call[u].read.state)
         /\ call[u].kind = "assign" => call[u].to = "assigned"
    /\ WillWriteAgain(u) => LegalTicket(call[u].wrote) /\ call[u].wrote.state = "assigned"
    /\ pc[u] = "assignee" => call[u].kind = "assign"

TicketIsLegal ==
  IF ticket = NoTicket
  THEN log = <<>> /\ \A u \in Users : pc[u] = "idle"
  ELSE LegalTicket(ticket)

(* Without a stale write, no call holds a longer history than the ticket,  *)
(* and a re-scan holds for what the calls that passed it read.             *)
RescanHolds ==
  "stale_write" \notin mishaps =>
    /\ ticket # NoTicket /\ ticket.state \in {"verified", "closed"} => rescanned
    /\ \A u \in Users : HasRead(u) => Len(call[u].read.history) <= Len(ticket.history)
    /\ \A u \in Users :
         pc[u] = "write" /\ call[u].to = "verified" /\ call[u].read = ticket => rescanned

(* Without a crash, the log has what is in any ticket in play, or will.    *)
Recorded(s, t) == Count(s, t.history) <= Count(s, log) + InFlight(s)

LogKeepsUp ==
  "crash" \notin mishaps =>
    \A s \in FindingStates :
      /\ ticket # NoTicket => Recorded(s, ticket)
      /\ \A u \in Users : HasRead(u) => Recorded(s, call[u].read)
      /\ \A u \in Users : WillWriteAgain(u) => Recorded(s, call[u].wrote)
      /\ ticket # NoTicket /\ mishaps = {} =>
           Count(s, ticket.history) = Count(s, log) + InFlight(s)

IInv ==
  /\ TypeOK
  /\ LocalsAreLegal
  /\ TicketIsLegal
  /\ RescanHolds
  /\ LogKeepsUp

-----------------------------------------------------------------------------
(* Lemmas about the state machine and about tickets.                       *)

(* _ALLOWED: moves lead to states, verified only follows remediated, and   *)
(* closed only follows verified.                                           *)
LEMMA AllowedMoves ==
  ASSUME NEW s \in FindingStates
  PROVE  /\ Allowed(s) \subseteq FindingStates
         /\ "verified" \in Allowed(s) => s = "remediated"
         /\ "closed" \in Allowed(s) => s = "verified"
  BY DEF Allowed, FindingStates

(* An allowed move of a legal ticket makes a legal, longer one.            *)
LEMMA MoveLegal ==
  ASSUME NEW t, LegalTicket(t), NEW to \in Allowed(t.state)
  PROVE  LET n == [t EXCEPT !.state = to, !.history = Append(@, to)]
         IN  /\ LegalTicket(n)
             /\ n.state = to /\ n.history = Append(t.history, to)
             /\ Len(n.history) = Len(t.history) + 1
<1> DEFINE h == t.history
           g == Append(h, to)
           n == [t EXCEPT !.state = to, !.history = g]
<1>1. /\ t.state \in FindingStates /\ h \in Seq(FindingStates) /\ h # <<>>
      /\ h[Len(h)] = t.state
      /\ \A i \in 1 .. Len(h) - 1 : h[i + 1] \in Allowed(h[i])
  BY DEF LegalTicket, TicketType, Last
<1>2. to \in FindingStates
  BY <1>1, AllowedMoves
<1>3. /\ g \in Seq(FindingStates) /\ g # <<>>
      /\ Len(g) = Len(h) + 1 /\ Len(h) \in Nat
      /\ \A i \in 1 .. Len(h) : g[i] = h[i]
      /\ g[Len(h) + 1] = to
  BY <1>1, <1>2, AppendProperties
<1>4. n \in TicketType /\ n.state = to /\ n.history = g
  <2>1. t \in [state : FindingStates, assigned : BOOLEAN, history : Seq(FindingStates)]
    BY DEF LegalTicket, TicketType
  <2> HIDE DEF g
  <2> QED
    BY <1>2, <1>3, <2>1 DEF TicketType
<1>5. ASSUME NEW i \in 1 .. Len(g) - 1
      PROVE  g[i + 1] \in Allowed(g[i])
  <2>1. CASE i = Len(h)
    BY <1>1, <1>3, <2>1
  <2>2. CASE i # Len(h)
    <3>1. i \in 1 .. Len(h) - 1 /\ i + 1 \in 1 .. Len(h)
      BY <1>3, <2>2
    <3>2. g[i] = h[i] /\ g[i + 1] = h[i + 1]
      BY <1>3, <3>1
    <3> QED
      BY <1>1, <3>1, <3>2
  <2> QED
    BY <2>1, <2>2
<1>6. g[Len(g)] = n.state
  BY <1>4, <1>3
<1> QED
  BY <1>4, <1>3, <1>5, <1>6 DEF LegalTicket, Last

(* The assignee is no part of a ticket's history.                          *)
LEMMA AssigneeLegal ==
  ASSUME NEW t, LegalTicket(t)
  PROVE  LET n == [t EXCEPT !.assigned = TRUE]
         IN  LegalTicket(n) /\ n.state = t.state /\ n.history = t.history
  BY DEF LegalTicket, TicketType

(* A new ticket is legal.                                                  *)
LEMMA NewLegal ==
  LET n == [state |-> "open", assigned |-> FALSE, history |-> <<"open">>]
  IN  LegalTicket(n) /\ n # NoTicket /\ n.state = "open" /\ n.history = <<"open">>
<1> DEFINE n == [state |-> "open", assigned |-> FALSE, history |-> <<"open">>]
<1>1. n \in TicketType /\ n.state = "open" /\ n.history = <<"open">>
  BY DEF TicketType, FindingStates
<1>2. Len(n.history) = 1 /\ n.history # <<>> /\ n.history[1] = "open"
  BY <1>1
<1> HIDE DEF n
<1>3. n # NoTicket
  BY <1>1, NoTicketAssumption
<1>4. LegalTicket(n)
  BY <1>1, <1>2 DEF LegalTicket, Last
<1> QED
  BY <1>1, <1>3, <1>4 DEF n

(* A legal ticket is one.                                                  *)
LEMMA LegalTyped ==
  ASSUME NEW t, LegalTicket(t)
  PROVE  /\ t \in TicketType /\ t # NoTicket
         /\ t.state \in FindingStates /\ t.history \in Seq(FindingStates)
         /\ Len(t.history) \in Nat
  BY NoTicketAssumption DEF LegalTicket, TicketType

-----------------------------------------------------------------------------
(* Lemmas about counting.                                                  *)

LEMMA CountEmpty ==
  ASSUME NEW s
  PROVE  Count(s, <<>>) = 0
<1>1. {i \in DOMAIN <<>> : <<>>[i] = s} = {}
  OBVIOUS
<1> QED
  BY <1>1, FS_EmptySet DEF Count

(* One more element counts once, for its own value.                        *)
LEMMA CountAppend ==
  ASSUME NEW S, NEW path \in Seq(S), NEW x \in S, NEW s
  PROVE  /\ Count(s, path) \in Nat
         /\ Count(s, Append(path, x)) = Count(s, path) + (IF x = s THEN 1 ELSE 0)
<1> DEFINE n == Len(path)
           A == {i \in DOMAIN path : path[i] = s}
           B == {i \in DOMAIN Append(path, x) : Append(path, x)[i] = s}
<1>1. n \in Nat /\ DOMAIN path = 1 .. n
  BY LenProperties
<1>2. /\ DOMAIN Append(path, x) = 1 .. n + 1
      /\ \A i \in 1 .. n : Append(path, x)[i] = path[i]
      /\ Append(path, x)[n + 1] = x
  BY <1>1, AppendProperties, LenProperties
<1>3. IsFiniteSet(A) /\ Cardinality(A) \in Nat
  <2>1. IsFiniteSet(1 .. n) /\ A \in SUBSET (1 .. n)
    BY <1>1, FS_Interval
  <2> QED
    BY <2>1, FS_Subset, FS_CardinalityType
<1>4. n + 1 \notin A
  BY <1>1
<1>5. B = IF x = s THEN A \cup {n + 1} ELSE A
  BY <1>1, <1>2
<1>6. Cardinality(A \cup {n + 1}) = Cardinality(A) + 1
  BY <1>3, <1>4, FS_AddElement
<1>7. Count(s, path) = Cardinality(A) /\ Count(s, Append(path, x)) = Cardinality(B)
  BY DEF Count
<1> HIDE DEF A, B
<1> QED
  BY <1>3, <1>5, <1>6, <1>7

(* A step of one user's call.                                              *)
OnlyOf(u) == \A v \in Users : v # u => pc'[v] = pc[v] /\ call'[v] = call[v]

(* What is on its way to the log changes by that call only.                *)
LEMMA InFlightStep ==
  ASSUME NEW u \in Users, OnlyOf(u), NEW s
  PROVE  /\ InFlight(s) \in Nat /\ InFlight(s)' \in Nat
         /\ LET here  == pc[u] = "audit" /\ call[u].to = s
                there == pc'[u] = "audit" /\ call'[u].to = s
            IN  InFlight(s)' = CASE here /\ ~there -> InFlight(s) - 1
                                 [] ~here /\ there -> InFlight(s) + 1
                                 [] OTHER          -> InFlight(s)
<1> DEFINE A == {v \in Users : pc[v] = "audit" /\ call[v].to = s}
           B == {v \in Users : pc'[v] = "audit" /\ call'[v].to = s}
           here  == pc[u] = "audit" /\ call[u].to = s
           there == pc'[u] = "audit" /\ call'[u].to = s
<1>1. /\ A \in SUBSET Users /\ IsFiniteSet(A) /\ Cardinality(A) \in Nat
      /\ B \in SUBSET Users /\ IsFiniteSet(B) /\ Cardinality(B) \in Nat
  BY WorkflowConstantsAssumption, FS_Subset, FS_CardinalityType
<1>2. InFlight(s) = Cardinality(A) /\ InFlight(s)' = Cardinality(B)
  BY DEF InFlight
<1>3. CASE here /\ ~there
  <2>1. B = A \ {u} /\ u \in A
    BY <1>3 DEF OnlyOf
  <2>2. Cardinality(A \ {u}) = Cardinality(A) - 1
    BY <1>1, <2>1, FS_RemoveElement
  <2> QED
    BY <1>1, <1>2, <1>3, <2>1, <2>2
<1>4. CASE ~here /\ there
  <2>1. B = A \cup {u} /\ u \notin A
    BY <1>4 DEF OnlyOf
  <2>2. Cardinality(A \cup {u}) = Cardinality(A) + 1
    BY <1>1, <2>1, FS_AddElement
  <2> QED
    BY <1>1, <1>2, <1>4, <2>1, <2>2
<1>5. CASE here <=> there
  <2>1. B = A
    BY <1>5 DEF OnlyOf
  <2> QED
    BY <1>1, <1>2, <1>5, <2>1
<1> QED
  BY <1>3, <1>4, <1>5

-----------------------------------------------------------------------------
(* The steps.  Each conjunct about the calls need only be shown again for  *)
(* the call that took the step, and for a ticket that was written.         *)

LEMMA InvInit == Init => IInv
<1> SUFFICES ASSUME Init
             PROVE  IInv
  OBVIOUS
<1>1. TypeOK
  <2>1. log \in Seq(FindingStates \cup {"feedback"})
    BY DEF Init
  <2>2. moves \in 0 .. MaxMoves
    BY WorkflowConstantsAssumption DEF Init
  <2> QED
    BY <2>1, <2>2 DEF Init, TypeOK
<1> QED
  BY <1>1 DEF Init, IInv, LocalsAreLegal, TicketIsLegal, RescanHolds, LogKeepsUp,
              HasRead, WillWriteAgain

LEMMA InvOpenTicket ==
  ASSUME IInv, NEW u \in Users, OpenTicket(u)
  PROVE  IInv'
<1> DEFINE n == [state |-> "open", assigned |-> FALSE, history |-> <<"open">>]
           c == [kind |-> "open_ticket", to |-> "open", read |-> ticket, wrote |-> NoTicket]
<1>1. /\ ticket = NoTicket /\ ticket' = n
      /\ moves < MaxMoves /\ moves' = moves + 1
      /\ pc' = [pc EXCEPT ![u] = "audit"] /\ call' = [call EXCEPT ![u] = c]
      /\ UNCHANGED <<log, rescanned, mishaps>>
  BY DEF OpenTicket, Call, Goto
<1>2. LegalTicket(n) /\ n # NoTicket /\ n.state = "open" /\ n.history = <<"open">>
  BY NewLegal
<1> HIDE DEF n
<1>3. log = <<>> /\ \A v \in Users : pc[v] = "idle"
  BY <1>1 DEF IInv, TicketIsLegal
<1>4. c \in CallType /\ c.kind = "open_ticket" /\ c.to = "open"
  BY <1>1 DEF CallType, Kinds, FindingStates
<1> HIDE DEF c
<1>5. /\ OnlyOf(u) /\ pc'[u] = "audit" /\ call'[u] = c
      /\ \A v \in Users : v # u => pc'[v] = "idle"
  BY <1>1, <1>3 DEF IInv, TypeOK, OnlyOf
<1>6. TypeOK'
  BY <1>1, <1>2, <1>4, <1>5, WorkflowConstantsAssumption
  DEF IInv, TypeOK, LegalTicket
<1>7. LocalsAreLegal' /\ TicketIsLegal' /\ RescanHolds'
  BY <1>1, <1>2, <1>4, <1>5
  DEF LocalsAreLegal, TicketIsLegal, RescanHolds, HasRead, WillWriteAgain
<1>8. LogKeepsUp'
  <2>1. \A s : InFlight(s) = 0
    BY <1>3, FS_EmptySet DEF InFlight
  <2>2. ASSUME NEW s
        PROVE  Count(s, n.history) = Count(s, log') + InFlight(s)'
    <3>1. Count(s, log') = 0
      BY <1>1, <1>3, CountEmpty
    <3>2. Count(s, n.history) = IF s = "open" THEN 1 ELSE 0
      <4> DEFINE S == {"open"}
                 x == "open"
      <4>1. <<>> \in Seq(S) /\ x \in S /\ Append(<<>>, x) = <<"open">>
        OBVIOUS
      <4> HIDE DEF S, x
      <4>2. Count(s, Append(<<>>, x)) = Count(s, <<>>) + (IF x = s THEN 1 ELSE 0)
        BY <4>1, CountAppend
      <4>3. Count(s, <<>>) = 0
        BY CountEmpty
      <4> QED
        BY <1>2, <4>1, <4>2, <4>3 DEF x
    <3>3. InFlight(s)' = IF s = "open" THEN 1 ELSE 0
      BY <1>3, <1>4, <1>5, <2>1, InFlightStep
    <3> QED
      BY <3>1, <3>2, <3>3
  <2>3. \A s : Count(s, log') + InFlight(s)' \in Nat
    BY <1>1, <1>3, <1>5, CountEmpty, InFlightStep
  <2> QED
    BY <1>1, <1>4, <1>5, <2>2, <2>3 DEF LogKeepsUp, Recorded, HasRead, WillWriteAgain
<1> QED
  BY <1>6, <1>7, <1>8 DEF IInv

(* What the log has and will have of a state is a number.                  *)
LEMMA RecordsTyped ==
  ASSUME TypeOK, NEW u \in Users, OnlyOf(u), NEW s
  PROVE  /\ Count(s, log) \in Nat /\ InFlight(s) \in Nat /\ InFlight(s)' \in Nat
         /\ ticket # NoTicket => Count(s, ticket.history) \in Nat
<1>1. log \in Seq(FindingStates \cup {"feedback"})
  BY DEF TypeOK
<1>2. Count(s, log) \in Nat
  BY <1>1, CountAppend
<1>3. ticket # NoTicket => ticket.history \in Seq(FindingStates)
  BY DEF TypeOK, TicketType
<1>4. "open" \in FindingStates
  BY DEF FindingStates
<1> QED
  BY <1>2, <1>3, <1>4, CountAppend, InFlightStep

(* A call that leaves the ticket and the log alone, and neither comes to   *)
(* its audit record nor leaves it, leaves the log as far as it was.        *)
LEMMA LogUntouched ==
  ASSUME IInv, NEW u \in Users, OnlyOf(u), UNCHANGED <<ticket, log, mishaps>>,
         pc[u] # "audit", pc'[u] # "audit",
         HasRead(u)' => /\ ticket # NoTicket
                        /\ call'[u].read = ticket \/ (HasRead(u) /\ call'[u] = call[u]),
         ~WillWriteAgain(u)'
  PROVE  LogKeepsUp'
<1>1. \A s : InFlight(s)' = InFlight(s)
  BY InFlightStep
<1>2. \A v \in Users : v # u => /\ HasRead(v)' = HasRead(v)
                                /\ WillWriteAgain(v)' = WillWriteAgain(v)
                                /\ call'[v] = call[v]
  BY DEF OnlyOf, HasRead, WillWriteAgain
<1> QED
  BY <1>1, <1>2 DEF IInv, LogKeepsUp, Recorded

LEMMA InvReadTicket ==
  ASSUME IInv, NEW u \in Users, ReadTicket(u)
  PROVE  IInv'
<1>1. PICK kind \in Kinds \ {"open_ticket"}, to \in Allowed(ticket.state) :
        /\ kind = "assign" => to = "assigned"
        /\ Call(u, kind, to, IF to = "verified" THEN "rescan" ELSE "write")
  BY DEF ReadTicket
<1> DEFINE c == [kind |-> kind, to |-> to, read |-> ticket, wrote |-> NoTicket]
           step == IF to = "verified" THEN "rescan" ELSE "write"
<1>2. /\ ticket # NoTicket
      /\ pc[u] = "idle" /\ moves < MaxMoves /\ moves' = moves + 1
      /\ pc' = [pc EXCEPT ![u] = step] /\ call' = [call EXCEPT ![u] = c]
      /\ UNCHANGED <<ticket, log, rescanned, mishaps>>
  BY <1>1 DEF ReadTicket, Call, Goto
<1>3. LegalTicket(ticket) /\ to \in FindingStates
  <2>1. LegalTicket(ticket)
    BY <1>2 DEF IInv, TicketIsLegal
  <2> QED
    BY <2>1, LegalTyped, AllowedMoves
<1>4. c \in CallType /\ c.kind = kind /\ c.to = to /\ c.read = ticket
  BY <1>3 DEF CallType, LegalTicket
<1> HIDE DEF c
<1>5. OnlyOf(u) /\ pc'[u] = step /\ call'[u] = c
  BY <1>2 DEF IInv, TypeOK, OnlyOf
<1>6. TypeOK'
  BY <1>2, <1>4, <1>5, WorkflowConstantsAssumption DEF IInv, TypeOK
<1>7. LocalsAreLegal'
  BY <1>1, <1>3, <1>4, <1>5 DEF IInv, LocalsAreLegal, HasRead, WillWriteAgain, OnlyOf
<1>8. TicketIsLegal'
  BY <1>2, <1>3 DEF TicketIsLegal
<1>9. RescanHolds'
  BY <1>2, <1>3, <1>4, <1>5, LegalTyped DEF IInv, RescanHolds, HasRead, OnlyOf
<1>10. LogKeepsUp'
  <2>1. pc'[u] # "audit" /\ ~WillWriteAgain(u)'
    BY <1>5 DEF WillWriteAgain
  <2> HIDE DEF step
  <2> QED
    BY <1>2, <1>4, <1>5, <2>1, LogUntouched
<1> QED
  BY <1>6, <1>7, <1>8, <1>9, <1>10 DEF IInv

LEMMA InvRescan ==
  ASSUME IInv, NEW u \in Users, Rescan(u)
  PROVE  IInv'
<1>1. /\ pc[u] = "rescan" /\ UNCHANGED <<ticket, log, moves, mishaps>>
      /\ \/ /\ pc' = [pc EXCEPT ![u] = "write"] /\ rescanned' = TRUE /\ UNCHANGED call
         \/ /\ pc' = [pc EXCEPT ![u] = "idle"] /\ call' = [call EXCEPT ![u] = NoCall]
            /\ UNCHANGED rescanned
  BY DEF Rescan, Return, Goto
<1>2. /\ OnlyOf(u)
      /\ \/ pc'[u] = "write" /\ call'[u] = call[u] /\ rescanned'
         \/ pc'[u] = "idle" /\ call'[u] = NoCall /\ rescanned' = rescanned
  BY <1>1 DEF IInv, TypeOK, OnlyOf
<1>3. HasRead(u) /\ ticket # NoTicket
  BY <1>1 DEF IInv, HasRead, TicketIsLegal
<1>4. TypeOK'
  BY <1>1, <1>2 DEF IInv, TypeOK
<1>5. LocalsAreLegal'
  BY <1>2, <1>3 DEF IInv, LocalsAreLegal, HasRead, WillWriteAgain, OnlyOf
<1>6. TicketIsLegal'
  BY <1>1, <1>3 DEF IInv, TicketIsLegal
<1>7. RescanHolds'
  BY <1>1, <1>2, <1>3 DEF IInv, RescanHolds, HasRead, OnlyOf
<1>8. LogKeepsUp'
  BY <1>1, <1>2, <1>3, LogUntouched DEF HasRead, WillWriteAgain
<1> QED
  BY <1>4, <1>5, <1>6, <1>7, <1>8 DEF IInv

(* The ticket that is written is a move of the one that was read, whatever *)
(* the table holds by now; its audit record is on its way.                 *)
LEMMA InvWriteTicket ==
  ASSUME IInv, NEW u \in Users, WriteTicket(u)
  PROVE  IInv'
<1> DEFINE to == call[u].to
           read == call[u].read
           t == [read EXCEPT !.state = to, !.history = Append(@, to)]
<1>1. /\ pc[u] = "write" /\ ticket' = t
      /\ call' = [call EXCEPT ![u].wrote = t]
      /\ rescanned' = (rescanned /\ to # "remediated")
      /\ mishaps' = mishaps \cup NoteStale(read)
      /\ pc' = [pc EXCEPT ![u] = "audit"]
      /\ UNCHANGED <<log, moves>>
  BY DEF WriteTicket, Goto
<1>2. /\ HasRead(u) /\ LegalTicket(read) /\ to \in Allowed(read.state)
      /\ call[u].kind = "assign" => to = "assigned"
  BY <1>1 DEF IInv, LocalsAreLegal, HasRead
<1>3. /\ LegalTicket(t) /\ t.state = to /\ t.history = Append(read.history, to)
      /\ Len(t.history) = Len(read.history) + 1
  BY <1>2, MoveLegal
<1>4. /\ read.state \in FindingStates /\ read.history \in Seq(FindingStates)
      /\ Len(read.history) \in Nat /\ to \in FindingStates /\ t # NoTicket
      /\ t \in TicketType
  BY <1>2, <1>3, LegalTyped, AllowedMoves
<1> HIDE DEF t
<1>5. call[u] \in CallType
  BY <1>1 DEF IInv, TypeOK
<1>6. /\ OnlyOf(u) /\ pc'[u] = "audit"
      /\ call'[u] = [call[u] EXCEPT !.wrote = t]
  BY <1>1 DEF IInv, TypeOK, OnlyOf
<1>7. /\ call'[u] \in CallType /\ call'[u].kind = call[u].kind
      /\ call'[u].to = to /\ call'[u].wrote = t
  BY <1>4, <1>5, <1>6 DEF CallType
<1>8. TypeOK'
  <2>1. call' \in [Users -> CallType \cup {NoCall}]
    BY <1>1, <1>6, <1>7 DEF IInv, TypeOK
  <2>2. mishaps' \subseteq Mishaps /\ rescanned' \in BOOLEAN
    BY <1>1 DEF IInv, TypeOK, NoteStale, Mishaps
  <2>3. pc' \in [Users -> {"idle", "rescan", "write", "audit", "assignee", "feedback"}]
    BY <1>1 DEF IInv, TypeOK
  <2>4. \A v \in Users : IF pc'[v] = "idle" THEN call'[v] = NoCall ELSE call'[v] \in CallType
    BY <1>6, <1>7 DEF IInv, TypeOK, OnlyOf
  <2> QED
    BY <1>1, <1>4, <2>1, <2>2, <2>3, <2>4 DEF IInv, TypeOK
<1>9. LocalsAreLegal'
  <2>1. /\ ~HasRead(u)' /\ pc'[u] # "assignee"
        /\ WillWriteAgain(u)' => LegalTicket(call'[u].wrote) /\ call'[u].wrote.state = "assigned"
    BY <1>2, <1>3, <1>6, <1>7 DEF HasRead, WillWriteAgain
  <2>2. \A v \in Users \ {u} : pc'[v] = pc[v] /\ call'[v] = call[v]
    BY <1>6 DEF OnlyOf
  <2> QED
    BY <2>1, <2>2 DEF IInv, LocalsAreLegal, HasRead, WillWriteAgain
<1>10. TicketIsLegal'
  BY <1>1, <1>3, <1>4 DEF TicketIsLegal
<1>11. RescanHolds'
  <2> SUFFICES ASSUME "stale_write" \notin mishaps'
               PROVE  /\ t.state \in {"verified", "closed"} => rescanned'
                      /\ \A v \in Users : HasRead(v)' => Len(call'[v].read.history) <= Len(t.history)
                      /\ \A v \in Users :
                           pc'[v] = "write" /\ call'[v].to = "verified" /\ call'[v].read = t
                           => rescanned'
    BY <1>1 DEF RescanHolds
  <2>1. "stale_write" \notin mishaps /\ ticket = read
    BY <1>1 DEF NoteStale
  <2>2. t.state \in {"verified", "closed"} => rescanned'
    <3>1. CASE to = "verified"
      BY <1>1, <1>4, <2>1, <3>1 DEF IInv, RescanHolds
    <3>2. CASE to = "closed"
      <4>1. read.state = "verified"
        BY <1>2, <1>4, <3>2, AllowedMoves
      <4> QED
        BY <1>1, <1>2, <2>1, <3>2, <4>1, LegalTyped DEF IInv, RescanHolds
    <3> QED
      BY <1>3, <3>1, <3>2
  <2>3. ASSUME NEW v \in Users, v # u, HasRead(v)
        PROVE  /\ Len(call[v].read.history) <= Len(read.history)
               /\ Len(call[v].read.history) < Len(t.history)
    <3>1. Len(call[v].read.history) <= Len(read.history)
      BY <2>1, <2>3 DEF IInv, RescanHolds
    <3>2. Len(call[v].read.history) \in Nat
      BY <2>3, LegalTyped DEF IInv, LocalsAreLegal
    <3> QED
      BY <1>3, <1>4, <3>1, <3>2
  <2>4. \A v \in Users : HasRead(v)' => v # u /\ HasRead(v) /\ call'[v] = call[v]
    BY <1>6 DEF HasRead, OnlyOf
  <2>5. \A v \in Users : HasRead(v) => Len(call[v].read.history) \in Nat
    BY LegalTyped DEF IInv, LocalsAreLegal
  <2>6. \A v \in Users : HasRead(v)' => /\ Len(call'[v].read.history) <= Len(t.history)
                                        /\ call'[v].read # t
    BY <1>3, <1>4, <2>3, <2>4, <2>5
  <2> QED
    BY <2>2, <2>6 DEF HasRead
<1>12. LogKeepsUp'
  <2> SUFFICES ASSUME "crash" \notin mishaps', NEW s \in FindingStates
               PROVE  /\ Recorded(s, ticket)'
                      /\ \A v \in Users : HasRead(v)' => Recorded(s, call[v].read)'
                      /\ \A v \in Users : WillWriteAgain(v)' => Recorded(s, call[v].wrote)'
                      /\ mishaps' = {} =>
                           Count(s, ticket'.history) = Count(s, log') + InFlight(s)'
    BY <1>1, <1>4 DEF LogKeepsUp
  <2>1. "crash" \notin mishaps /\ (mishaps' = {} => mishaps = {} /\ ticket = read)
    BY <1>1 DEF NoteStale
  <2> DEFINE one == IF to = s THEN 1 ELSE 0
             before == Count(s, log) + InFlight(s)
             after == Count(s, log') + InFlight(s)'
  <2>2. one \in Nat /\ before \in Nat /\ after = before + one
    <3>1. Count(s, log) \in Nat /\ InFlight(s) \in Nat /\ InFlight(s)' = InFlight(s) + one
      BY <1>1, <1>6, <1>7, RecordsTyped, InFlightStep DEF IInv
    <3> QED
      BY <1>1, <3>1
  <2>3. Count(s, t.history) = Count(s, read.history) + one /\ Count(s, read.history) \in Nat
    BY <1>3, <1>4, CountAppend
  <2>4. Count(s, read.history) <= before
    BY <1>2, <2>1 DEF IInv, LogKeepsUp, Recorded
  <2>5. Count(s, t.history) <= after /\ before <= after
    BY <2>2, <2>3, <2>4
  <2> HIDE DEF one
  <2>6. ASSUME NEW v \in Users, HasRead(v)'
        PROVE  Recorded(s, call[v].read)'
    <3>1. HasRead(v) /\ call'[v] = call[v]
      BY <1>6, <2>6 DEF HasRead, OnlyOf
    <3>2. Count(s, call[v].read.history) <= before
      BY <2>1, <3>1 DEF IInv, LogKeepsUp, Recorded
    <3>3. Count(s, call[v].read.history) \in Nat
      BY <3>1, LegalTyped, CountAppend DEF IInv, LocalsAreLegal
    <3> QED
      BY <2>2, <2>5, <3>1, <3>2, <3>3 DEF Recorded
  <2>7. ASSUME NEW v \in Users, WillWriteAgain(v)'
        PROVE  Recorded(s, call[v].wrote)'
    <3>1. CASE v = u
      BY <1>7, <2>5, <3>1 DEF Recorded
    <3>2. CASE v # u
      <4>1. WillWriteAgain(v) /\ call'[v] = call[v]
        BY <1>6, <2>7, <3>2 DEF WillWriteAgain, OnlyOf
      <4>2. Count(s, call[v].wrote.history) <= before
        BY <2>1, <4>1 DEF IInv, LogKeepsUp, Recorded
      <4>3. Count(s, call[v].wrote.history) \in Nat
        BY <4>1, LegalTyped, CountAppend DEF IInv, LocalsAreLegal
      <4> QED
        BY <2>2, <2>5, <4>1, <4>2, <4>3 DEF Recorded
    <3> QED
      BY <3>1, <3>2
  <2>8. mishaps' = {} => Count(s, t.history) = after
    <3>1. mishaps' = {} => Count(s, read.history) = before
      BY <1>2, <2>1, LegalTyped DEF IInv, LogKeepsUp
    <3> QED
      BY <2>2, <2>3, <3>1
  <2> QED
    BY <1>1, <2>5, <2>6, <2>7, <2>8 DEF Recorded
<1> QED
  BY <1>8, <1>9, <1>10, <1>11, <1>12 DEF IInv

(* The audit record of a write takes it off its way, into the log.         *)
LEMMA InvAppendAudit ==
  ASSUME IInv, NEW u \in Users, AppendAudit(u)
  PROVE  IInv'
<1> DEFINE to == call[u].to
<1>1. /\ pc[u] = "audit" /\ log' = Append(log, to)
      /\ UNCHANGED <<ticket, moves, rescanned, mishaps>>
      /\ \/ call[u].kind = "assign" /\ pc' = [pc EXCEPT ![u] = "assignee"] /\ UNCHANGED call
         \/ /\ call[u].kind # "assign"
            /\ pc' = [pc EXCEPT ![u] = "feedback"] /\ UNCHANGED call
         \/ /\ call[u].kind # "assign" /\ pc' = [pc EXCEPT ![u] = "idle"]
            /\ call' = [call EXCEPT ![u] = NoCall]
  BY DEF AppendAudit, Return, Goto
<1>2. call[u] \in CallType /\ to \in FindingStates
  BY <1>1 DEF IInv, TypeOK, CallType
<1>3. /\ OnlyOf(u)
      /\ \/ call[u].kind = "assign" /\ pc'[u] = "assignee" /\ call'[u] = call[u]
         \/ call[u].kind # "assign" /\ pc'[u] = "feedback" /\ call'[u] = call[u]
         \/ call[u].kind # "assign" /\ pc'[u] = "idle" /\ call'[u] = NoCall
  BY <1>1 DEF IInv, TypeOK, OnlyOf
<1>4. ticket # NoTicket
  BY <1>1 DEF IInv, TicketIsLegal
<1>5. log \in Seq(FindingStates \cup {"feedback"}) /\ to \in FindingStates \cup {"feedback"}
  BY <1>2 DEF IInv, TypeOK
<1>6. TypeOK'
  <2>1. log' \in Seq(FindingStates \cup {"feedback"})
    BY <1>1, <1>5, AppendProperties
  <2> QED
    BY <1>1, <1>3, <2>1 DEF IInv, TypeOK, OnlyOf
<1>7. LocalsAreLegal'
  BY <1>1, <1>3 DEF IInv, LocalsAreLegal, HasRead, WillWriteAgain, OnlyOf
<1>8. TicketIsLegal'
  BY <1>1, <1>4 DEF IInv, TicketIsLegal
<1>9. \A v \in Users : /\ HasRead(v)' => HasRead(v) /\ call'[v] = call[v] /\ pc'[v] = pc[v]
                       /\ WillWriteAgain(v)' => WillWriteAgain(v) /\ call'[v] = call[v]
  BY <1>1, <1>3 DEF HasRead, WillWriteAgain, OnlyOf
<1>10. RescanHolds'
  BY <1>1, <1>9 DEF IInv, RescanHolds, HasRead
<1>11. LogKeepsUp'
  <2>1. ASSUME NEW s
        PROVE  Count(s, log') + InFlight(s)' = Count(s, log) + InFlight(s)
    <3> DEFINE one == IF to = s THEN 1 ELSE 0
    <3>0. log' = Append(log, to)
      BY <1>1
    <3>1. Count(s, log) \in Nat /\ Count(s, log') = Count(s, log) + one
      BY <1>5, <3>0, CountAppend
    <3>2. InFlight(s) \in Nat /\ InFlight(s)' \in Nat /\ InFlight(s)' = InFlight(s) - one
      BY <1>1, <1>3, InFlightStep
    <3> QED
      BY <3>1, <3>2
  <2> QED
    BY <1>1, <1>9, <2>1 DEF IInv, LogKeepsUp, Recorded
<1> QED
  BY <1>6, <1>7, <1>8, <1>10, <1>11 DEF IInv

(* Steps that leave histories, the log and what is on its way alone.       *)
LEMMA InvWriteAssignee ==
  ASSUME IInv, NEW u \in Users, WriteAssignee(u)
  PROVE  IInv'
<1> DEFINE t == [call[u].wrote EXCEPT !.assigned = TRUE]
<1>1. /\ pc[u] = "assignee" /\ ticket' = t
      /\ mishaps' = mishaps \cup NoteStale(call[u].wrote)
      /\ pc' = [pc EXCEPT ![u] = "idle"] /\ call' = [call EXCEPT ![u] = NoCall]
      /\ UNCHANGED <<log, moves, rescanned>>
  BY DEF WriteAssignee, Return, Goto
<1>2. WillWriteAgain(u) /\ LegalTicket(call[u].wrote) /\ call[u].wrote.state = "assigned"
  BY <1>1 DEF IInv, LocalsAreLegal, WillWriteAgain
<1>3. /\ LegalTicket(t) /\ t.state = "assigned" /\ t.history = call[u].wrote.history
      /\ t \in TicketType /\ t # NoTicket
  BY <1>2, AssigneeLegal, LegalTyped
<1> HIDE DEF t
<1>4. OnlyOf(u) /\ pc'[u] = "idle" /\ call'[u] = NoCall
  BY <1>1 DEF IInv, TypeOK, OnlyOf
<1>5. \A v \in Users : /\ HasRead(v)' => HasRead(v) /\ call'[v] = call[v] /\ pc'[v] = pc[v]
                       /\ WillWriteAgain(v)' => WillWriteAgain(v) /\ call'[v] = call[v]
  BY <1>4 DEF HasRead, WillWriteAgain, OnlyOf
<1>6. TypeOK'
  <2>1. mishaps' \subseteq Mishaps
    BY <1>1 DEF IInv, TypeOK, NoteStale, Mishaps
  <2>2. \A v \in Users : IF pc'[v] = "idle" THEN call'[v] = NoCall ELSE call'[v] \in CallType
    BY <1>4 DEF IInv, TypeOK, OnlyOf
  <2>3. /\ pc' \in [Users -> {"idle", "rescan", "write", "audit", "assignee", "feedback"}]
        /\ call' \in [Users -> CallType \cup {NoCall}]
    BY <1>1 DEF IInv, TypeOK
  <2> QED
    BY <1>1, <1>3, <2>1, <2>2, <2>3 DEF IInv, TypeOK
<1>7. LocalsAreLegal'
  BY <1>4 DEF IInv, LocalsAreLegal, HasRead, WillWriteAgain, OnlyOf
<1>8. TicketIsLegal'
  BY <1>1, <1>3 DEF TicketIsLegal
<1>9. RescanHolds'
  <2> SUFFICES ASSUME "stale_write" \notin mishaps'
               PROVE  /\ \A v \in Users : HasRead(v)' => Len(call'[v].read.history) <= Len(t.history)
                      /\ \A v \in Users :
                           ~(pc'[v] = "write" /\ call'[v].to = "verified" /\ call'[v].read = t)
    BY <1>1, <1>3 DEF RescanHolds
  <2>1. "stale_write" \notin mishaps /\ ticket = call[u].wrote
    BY <1>1 DEF NoteStale
  <2>2. \A v \in Users : HasRead(v)' => Len(call'[v].read.history) <= Len(t.history)
    BY <1>3, <1>5, <2>1 DEF IInv, RescanHolds
  <2>3. ASSUME NEW v \in Users, pc'[v] = "write", call'[v].to = "verified", call'[v].read = t
        PROVE  FALSE
    <3>1. HasRead(v)' /\ HasRead(v) /\ call'[v] = call[v]
      BY <1>5, <2>3 DEF HasRead
    <3>2. "verified" \in Allowed("assigned")
      BY <1>3, <2>3, <3>1 DEF IInv, LocalsAreLegal
    <3> QED
      BY <3>2, AllowedMoves DEF FindingStates
  <2> QED
    BY <2>2, <2>3
<1>10. LogKeepsUp'
  <2>1. \A s : InFlight(s)' = InFlight(s)
    BY <1>1, <1>4, InFlightStep
  <2>2. "crash" \notin mishaps' => "crash" \notin mishaps
    BY <1>1
  <2>3. mishaps' = {} => mishaps = {} /\ ticket = call[u].wrote
    BY <1>1 DEF NoteStale
  <2>4. call[u].wrote # NoTicket
    BY <1>2, LegalTyped
  <2> QED
    BY <1>1, <1>2, <1>3, <1>5, <2>1, <2>2, <2>3, <2>4 DEF IInv, LogKeepsUp, Recorded
<1> QED
  BY <1>6, <1>7, <1>8, <1>9, <1>10 DEF IInv

LEMMA InvAppendFeedback ==
  ASSUME IInv, NEW u \in Users, AppendFeedback(u)
  PROVE  IInv'
<1>1. /\ pc[u] = "feedback" /\ log' = Append(log, "feedback")
      /\ pc' = [pc EXCEPT ![u] = "idle"] /\ call' = [call EXCEPT ![u] = NoCall]
      /\ UNCHANGED <<ticket, moves, rescanned, mishaps>>
  BY DEF AppendFeedback, Return, Goto
<1>2. OnlyOf(u) /\ pc'[u] = "idle" /\ call'[u] = NoCall
  BY <1>1 DEF IInv, TypeOK, OnlyOf
<1>3. \A v \in Users : /\ HasRead(v)' => HasRead(v) /\ call'[v] = call[v] /\ pc'[v] = pc[v]
                       /\ WillWriteAgain(v)' => WillWriteAgain(v) /\ call'[v] = call[v]
  BY <1>2 DEF HasRead, WillWriteAgain, OnlyOf
<1>4. log \in Seq(FindingStates \cup {"feedback"}) /\ "feedback" \in FindingStates \cup {"feedback"}
  BY DEF IInv, TypeOK
<1>5. TypeOK'
  <2>1. log' \in Seq(FindingStates \cup {"feedback"})
    BY <1>1, <1>4, AppendProperties
  <2> QED
    BY <1>1, <1>2, <2>1 DEF IInv, TypeOK, OnlyOf
<1>6. LocalsAreLegal'
  BY <1>2 DEF IInv, LocalsAreLegal, HasRead, WillWriteAgain, OnlyOf
<1>7. ticket # NoTicket /\ TicketIsLegal'
  BY <1>1 DEF IInv, TicketIsLegal
<1>8. RescanHolds'
  BY <1>1, <1>3 DEF IInv, RescanHolds, HasRead
<1>9. LogKeepsUp'
  <2>1. ASSUME NEW s \in FindingStates
        PROVE  Count(s, log') = Count(s, log) /\ InFlight(s)' = InFlight(s)
    <3>1. "feedback" # s
      BY DEF FindingStates
    <3>2. Count(s, log') = Count(s, log) + 0 /\ Count(s, log) \in Nat
      BY <1>1, <1>4, <3>1, CountAppend
    <3> QED
      BY <1>1, <1>2, <3>2, InFlightStep
  <2> QED
    BY <1>1, <1>3, <2>1 DEF IInv, LogKeepsUp, Recorded
<1> QED
  BY <1>5, <1>6, <1>7, <1>8, <1>9 DEF IInv

(* A crash drops the locals of one call; the log may now lag behind.       *)
LEMMA InvCrash ==
  ASSUME IInv, NEW u \in Users, Crash(u)
  PROVE  IInv'
<1>1. /\ pc[u] # "idle" /\ mishaps' = mishaps \cup {"crash"}
      /\ pc' = [pc EXCEPT ![u] = "idle"] /\ call' = [call EXCEPT ![u] = NoCall]
      /\ UNCHANGED <<ticket, log, moves, rescanned>>
  BY DEF Crash, Return, Goto
<1>2. OnlyOf(u) /\ pc'[u] = "idle" /\ call'[u] = NoCall
  BY <1>1 DEF IInv, TypeOK, OnlyOf
<1>3. \A v \in Users : HasRead(v)' => HasRead(v) /\ call'[v] = call[v] /\ pc'[v] = pc[v]
  BY <1>2 DEF HasRead, OnlyOf
<1>4. TypeOK'
  BY <1>1, <1>2 DEF IInv, TypeOK, OnlyOf, Mishaps
<1>5. LocalsAreLegal'
  BY <1>2 DEF IInv, LocalsAreLegal, HasRead, WillWriteAgain, OnlyOf
<1>6. TicketIsLegal'
  BY <1>1 DEF IInv, TicketIsLegal
<1>7. RescanHolds'
  BY <1>1, <1>3 DEF IInv, RescanHolds, HasRead
<1>8. LogKeepsUp'
  BY <1>1 DEF LogKeepsUp
<1> QED
  BY <1>4, <1>5, <1>6, <1>7, <1>8 DEF IInv

LEMMA InvStutter == IInv /\ UNCHANGED vars => IInv'
  BY DEF IInv, TypeOK, LocalsAreLegal, TicketIsLegal, RescanHolds, LogKeepsUp, Recorded,
         HasRead, WillWriteAgain, InFlight, vars

(* The invariant is inductive.                                             *)
THEOREM Inductive == Spec => []IInv
<1>1. IInv /\ [Next]_vars => IInv'
  BY InvOpenTicket, InvReadTicket, InvRescan, InvWriteTicket, InvAppendAudit,
     InvWriteAssignee, InvAppendFeedback, InvCrash, InvStutter DEF Next
<1> QED
  BY InvInit, <1>1, PTL DEF Spec

-----------------------------------------------------------------------------
(* What follows from it.                                                   *)

(* Whoever overwrites whom, a ticket's history is a path of allowed moves  *)
(* to its state; and a verified or closed ticket had a passing re-scan     *)
(* since it was last marked remediated, if no write was stale.             *)
THEOREM HistorySound == Spec => []HistoryIsSound
<1>1. IInv => HistoryIsLegal
  BY DEF IInv, TicketIsLegal, LegalTicket, HistoryIsLegal
<1>2. IInv => VerifiedAfterRescan
  BY DEF IInv, RescanHolds, VerifiedAfterRescan
<1>3. IInv => HistoryIsSound
  BY <1>1, <1>2 DEF IInv, HistoryIsSound
<1> QED
  BY <1>3, Inductive, PTL

(* Without a crash, every move of the ticket's history is in the audit log *)
(* or on its way there, however many users are at work; and if no call     *)
(* overwrote another's either, the log has no other moves.                 *)
THEOREM TransitionsLogged == Spec => []EveryTransitionIsLogged
<1>1. IInv => EveryTransitionIsLogged
  BY DEF IInv, LogKeepsUp, Recorded, EveryTransitionIsLogged
<1> QED
  BY <1>1, Inductive, PTL

LEMMA PrefixOfAppend ==
  ASSUME NEW S, NEW path \in Seq(S), NEW x \in S
  PROVE  IsPrefix(path, path) /\ IsPrefix(path, Append(path, x))
<1> DEFINE n == Len(path)
           g == Append(path, x)
<1>1. n \in Nat /\ Len(g) = n + 1 /\ \A i \in 1 .. n : g[i] = path[i] /\ path[i] \in S
  BY AppendProperties, LenProperties, ElementOfSeq
<1> HIDE DEF g
<1>2. /\ SubSeq(path, 1, n) \in Seq(S) /\ SubSeq(g, 1, n) \in Seq(S)
      /\ Len(SubSeq(path, 1, n)) = Len(SubSeq(g, 1, n))
      /\ \A i \in 1 .. n : SubSeq(path, 1, n)[i] = path[i] /\ SubSeq(g, 1, n)[i] = g[i]
      /\ Len(SubSeq(path, 1, n)) = n
  BY <1>1, SubSeqProperties
<1>3. SubSeq(path, 1, n) = SubSeq(g, 1, n)
  BY <1>1, <1>2, SeqEqual
<1> QED
  BY <1>1, <1>3 DEF IsPrefix, g

(* A step takes nothing out of the ticket's history unless it is a stale   *)
(* write.                                                                  *)
THEOREM NothingLost == Spec => NoTransitionIsLost
<1> DEFINE Kept == ticket # NoTicket /\ "stale_write" \notin mishaps'
                     => IsPrefix(ticket.history, ticket'.history)
<1>1. ASSUME IInv, ticket # NoTicket
      PROVE  ticket.history \in Seq(FindingStates)
  BY <1>1, LegalTyped DEF IInv, TicketIsLegal
<1>2. "open" \in FindingStates
  BY DEF FindingStates
<1>3. ASSUME IInv, UNCHANGED ticket
      PROVE  Kept
  BY <1>1, <1>2, <1>3, PrefixOfAppend
<1>4. ASSUME IInv, NEW u \in Users, WriteTicket(u)
      PROVE  Kept
  <2> SUFFICES ASSUME ticket # NoTicket, "stale_write" \notin mishaps'
               PROVE  IsPrefix(ticket.history, ticket'.history)
    OBVIOUS
  <2>1. ticket = call[u].read
    BY <1>4 DEF WriteTicket, NoteStale
  <2>2. LegalTicket(call[u].read) /\ call[u].to \in Allowed(call[u].read.state)
    BY <1>4 DEF IInv, LocalsAreLegal, HasRead, WriteTicket
  <2>3. call[u].to \in FindingStates
    BY <2>2, LegalTyped, AllowedMoves
  <2>4. ticket'.history = Append(call[u].read.history, call[u].to)
    BY <1>4, <2>2, MoveLegal DEF WriteTicket
  <2> QED
    BY <1>1, <1>4, <2>1, <2>3, <2>4, PrefixOfAppend
<1>5. ASSUME IInv, NEW u \in Users, WriteAssignee(u)
      PROVE  Kept
  <2> SUFFICES ASSUME ticket # NoTicket, "stale_write" \notin mishaps'
               PROVE  IsPrefix(ticket.history, ticket'.history)
    OBVIOUS
  <2>1. ticket = call[u].wrote
    BY <1>5 DEF WriteAssignee, NoteStale
  <2>2. LegalTicket(call[u].wrote)
    BY <1>5 DEF IInv, LocalsAreLegal, WillWriteAgain, WriteAssignee
  <2>3. ticket'.history = ticket.history
    BY <1>5, <2>1, <2>2, AssigneeLegal DEF WriteAssignee
  <2> QED
    BY <1>1, <1>2, <1>5, <2>3, PrefixOfAppend
<1>6. IInv /\ [Next]_vars => [Kept]_vars
  <2> SUFFICES ASSUME IInv, Next
               PROVE  Kept
    OBVIOUS
  <2>1. PICK u \in Users :
          \/ OpenTicket(u) \/ ReadTicket(u) \/ Rescan(u) \/ WriteTicket(u)
          \/ AppendAudit(u) \/ WriteAssignee(u) \/ AppendFeedback(u) \/ Crash(u)
    BY DEF Next
  <2>2. CASE OpenTicket(u)
    BY <2>2 DEF OpenTicket
  <2>3. CASE ReadTicket(u) \/ Rescan(u) \/ AppendAudit(u) \/ AppendFeedback(u) \/ Crash(u)
    BY <1>3, <2>3 DEF ReadTicket, Rescan, AppendAudit, AppendFeedback, Crash
  <2> QED
    BY <1>4, <1>5, <2>1, <2>2, <2>3
<1> QED
  BY <1>6, Inductive, PTL DEF Spec, NoTransitionIsLost

=============================================================================
