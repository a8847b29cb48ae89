------------------------------ MODULE Workflow ------------------------------
(***************************************************************************)
(* The manual remediation workflow: WorkflowEngine of avmp/workflow.py,    *)
(* with the ticket of one finding, used by several people at a time.       *)
(*                                                                         *)
(* transition() reads the ticket, may run a re-scan, writes the ticket it  *)
(* read back with the new state, and then appends to the audit log; the    *)
(* Store's lock covers each of these and none of the gaps.  assign() and   *)
(* mark_false_positive() are transition() and one step more.               *)
(***************************************************************************)
EXTENDS Naturals, Sequences, FiniteSets, SequencesExt

CONSTANTS
  Users,     \* callers of the engine, one call each at a time
  MaxMoves,  \* bound on calls
  NoTicket,
  NoCall

ASSUME WorkflowConstantsAssumption == IsFiniteSet(Users) /\ MaxMoves \in Nat

VARIABLES
  ticket,      \* the row of the tickets table
  log,         \* the workflow's records in the audit log
  pc,          \* the step each user's call takes next
  call,        \* its arguments and locals
  moves,       \* calls begun so far
  rescanned,   \* history: has a re-scan passed since the last remediation?
  mishaps      \* history: what the code does not guard against

vars == <<ticket, log, pc, call, moves, rescanned, mishaps>>

-----------------------------------------------------------------------------
FindingStates ==
  {"open", "triaged", "assigned", "in_progress", "remediated", "verified", "closed",
   "risk_accepted", "false_positive"}

(* _ALLOWED                                                                *)
Allowed(s) ==
  CASE s = "open"           -> {"triaged", "false_positive", "risk_accepted"}
    [] s = "triaged"        -> {"assigned", "false_positive", "risk_accepted"}
    [] s = "assigned"       -> {"in_progress", "triaged"}
    [] s = "in_progress"    -> {"remediated", "assigned"}
    [] s = "remediated"     -> {"verified", "in_progress"}
    [] s = "verified"       -> {"closed"}
    [] s = "closed"         -> {}
    [] OTHER                -> {"open"}

(* FindingTicket; the times and the score are left out, nothing here       *)
(* depends on them.                                                        *)
TicketType == [state : FindingStates, assigned : BOOLEAN, history : Seq(FindingStates)]

(* get_ticket returns None if there is no ticket.                          *)
ASSUME NoTicketAssumption == NoTicket \notin TicketType

(* kind: which method was called; read: the ticket it read; wrote: the one *)
(* it wrote, which assign() writes again.                                  *)
Kinds == {"open_ticket", "transition", "assign", "mark_false_positive"}
CallType == [kind : Kinds, to : FindingStates, read : TicketType \cup {NoTicket},
             wrote : TicketType \cup {NoTicket}]

Mishaps == {"stale_write", "crash"}

NoteStale(read) == IF ticket = read THEN {} ELSE {"stale_write"}

Goto(u, step) == pc' = [pc EXCEPT ![u] = step]

(* Slip: the locals of a call outlive it.                                  *)
ReturnKeeping(u) == Goto(u, "idle") /\ UNCHANGED call

Return(u) == Goto(u, "idle") /\ call' = [call EXCEPT ![u] = NoCall]

Init ==
  /\ ticket = NoTicket
  /\ log = <<>>
  /\ pc = [u \in Users |-> "idle"]
  /\ call = [u \in Users |-> NoCall]
  /\ moves = 0
  /\ rescanned = FALSE
  /\ mishaps = {}

Call(u, kind, to, step) ==
  /\ pc[u] = "idle"
  /\ moves < MaxMoves
  /\ moves' = moves + 1
  /\ Goto(u, step)
  /\ call' = [call EXCEPT ![u] = [kind |-> kind, to |-> to, read |-> ticket, wrote |-> NoTicket]]

-----------------------------------------------------------------------------
(* open_ticket: a scan opens the ticket of a new finding, whose id is new. *)
OpenTicket(u) ==
  /\ ticket = NoTicket
  /\ Call(u, "open_ticket", "open", "audit")
  /\ ticket' = [state |-> "open", assigned |-> FALSE, history |-> <<"open">>]
  /\ UNCHANGED <<log, rescanned, mishaps>>

(* Slip: the guard asks the target state for its transitions.              *)
ReadTicketBackwards(u) ==
  /\ ticket # NoTicket
  /\ \E kind \in Kinds \ {"open_ticket"}, to \in FindingStates :
       /\ ticket.state \in Allowed(to)
       /\ kind = "assign" => to = "assigned"
       /\ kind = "mark_false_positive" => to = "false_positive"
       /\ Call(u, kind, to, IF to = "verified" THEN "rescan" ELSE "write")
  /\ UNCHANGED <<ticket, log, rescanned, mishaps>>

(* transition, up to the guard; a move that is not allowed raises.         *)
ReadTicket(u) ==
  /\ ticket # NoTicket
  /\ \E kind \in Kinds \ {"open_ticket"}, to \in Allowed(ticket.state) :
       /\ kind = "assign" => to = "assigned"
       /\ kind = "mark_false_positive" => to = "false_positive"
       /\ Call(u, kind, to, IF to = "verified" THEN "rescan" ELSE "write")
  /\ UNCHANGED <<ticket, log, rescanned, mishaps>>

(* Slip: a missing verify_fn counts as a passing one.                      *)
RescanOptional(u) ==
  /\ pc[u] = "rescan"
  /\ Goto(u, "write")
  /\ UNCHANGED <<ticket, log, call, moves, rescanned, mishaps>>

(* verify_fn(): a re-scan that finds the finding again, or none given,     *)
(* raises VerificationFailed.                                              *)
Rescan(u) ==
  /\ pc[u] = "rescan"
  /\ \/ /\ Goto(u, "write")
        /\ rescanned' = TRUE
        /\ UNCHANGED call
     \/ /\ Return(u)
        /\ UNCHANGED rescanned
  /\ UNCHANGED <<ticket, log, moves, mishaps>>

(* upsert_ticket of the ticket that was read, with the new state.          *)
WriteTicket(u) ==
  /\ pc[u] = "write"
  /\ LET to == call[u].to
         t == [call[u].read EXCEPT !.state = to, !.history = Append(@, to)]
     IN /\ ticket' = t
        /\ call' = [call EXCEPT ![u].wrote = t]
        /\ rescanned' = (rescanned /\ to # "remediated")
  /\ mishaps' = mishaps \cup NoteStale(call[u].read)
  /\ Goto(u, "audit")
  /\ UNCHANGED <<log, moves>>

(* Slip: only the feedback of a false positive is recorded.                *)
AppendAuditFeedbackOnly(u) ==
  /\ pc[u] = "audit"
  /\ IF call[u].kind = "mark_false_positive"
     THEN Goto(u, "feedback") /\ UNCHANGED <<log, call>>
     ELSE /\ log' = Append(log, call[u].to)
          /\ IF call[u].kind = "assign" THEN Goto(u, "assignee") /\ UNCHANGED call ELSE Return(u)
  /\ UNCHANGED <<ticket, moves, rescanned, mishaps>>

AppendAudit(u) ==
  /\ pc[u] = "audit"
  /\ log' = Append(log, call[u].to)
  /\ CASE call[u].kind = "assign" -> Goto(u, "assignee") /\ UNCHANGED call
       [] call[u].kind = "mark_false_positive" -> Goto(u, "feedback") /\ UNCHANGED call
       [] OTHER -> Return(u)
  /\ UNCHANGED <<ticket, moves, rescanned, mishaps>>

(* Slip: the ticket is fetched once, before transition().                  *)
WriteAssigneeOfRead(u) ==
  /\ pc[u] = "assignee"
  /\ ticket' = [call[u].read EXCEPT !.assigned = TRUE]
  /\ mishaps' = mishaps \cup NoteStale(call[u].wrote)
  /\ Return(u)
  /\ UNCHANGED <<log, moves, rescanned>>

(* assign: the ticket transition() returned is written a second time.      *)
WriteAssignee(u) ==
  /\ pc[u] = "assignee"
  /\ ticket' = [call[u].wrote EXCEPT !.assigned = TRUE]
  /\ mishaps' = mishaps \cup NoteStale(call[u].wrote)
  /\ Return(u)
  /\ UNCHANGED <<log, moves, rescanned>>

(* mark_false_positive: the feedback to the plugin's authors.              *)
AppendFeedback(u) ==
  /\ pc[u] = "feedback"
  /\ log' = Append(log, "feedback")
  /\ Return(u)
  /\ UNCHANGED <<ticket, moves, rescanned, mishaps>>

(* A user's process ends, or the audit store raises, in the middle.        *)
Crash(u) ==
  /\ pc[u] # "idle"
  /\ Return(u)
  /\ mishaps' = mishaps \cup {"crash"}
  /\ UNCHANGED <<ticket, log, moves, rescanned>>

Next ==
  \E u \in Users :
       \/ OpenTicket(u) \/ ReadTicket(u) \/ Rescan(u) \/ WriteTicket(u)
       \/ AppendAudit(u) \/ WriteAssignee(u) \/ AppendFeedback(u) \/ Crash(u)

Spec == Init /\ [][Next]_vars

-----------------------------------------------------------------------------
(* Properties.                                                             *)

(* Every variable keeps its type; locals live as long as their call.       *)
TypeOK ==
  /\ ticket \in TicketType \cup {NoTicket}
  /\ log \in Seq(FindingStates \cup {"feedback"})
  /\ rescanned \in BOOLEAN
  /\ pc \in [Users -> {"idle", "rescan", "write", "audit", "assignee", "feedback"}]
  /\ call \in [Users -> CallType \cup {NoCall}]
  /\ \A u \in Users : IF pc[u] = "idle" THEN call[u] = NoCall ELSE call[u] \in CallType
  /\ moves \in 0 .. MaxMoves
  /\ mishaps \subseteq Mishaps

(* "Enforces the state machine; illegal transitions rejected" (AC-7): also *)
(* when calls overwrite each other, the ticket's history is a path of      *)
(* allowed moves that ends in its state.                                   *)
HistoryIsLegal ==
  ticket # NoTicket =>
    LET path == ticket.history IN
      /\ Last(path) = ticket.state
      /\ \A i \in 1 .. Len(path) - 1 : path[i + 1] \in Allowed(path[i])

(* "`verified` blocked until re-scan PASS" (AC-7): a verified or closed    *)
(* ticket had a passing re-scan after it was last marked remediated, not   *)
(* after an earlier attempt, unless a call wrote over another's.           *)
VerifiedAfterRescan ==
  ticket # NoTicket /\ ticket.state \in {"verified", "closed"} /\ "stale_write" \notin mishaps
    => rescanned

(* A ticket's history is a legal path to its state, and verified only      *)
(* after a re-scan.                                                        *)
HistoryIsSound == TypeOK /\ HistoryIsLegal /\ VerifiedAfterRescan

Count(s, path) == Cardinality({i \in DOMAIN path : path[i] = s})
InFlight(s) == Cardinality({u \in Users : pc[u] = "audit" /\ call[u].to = s})

(* "Every transition in the tamper-evident audit log" (AC-8): without a    *)
(* crash, what the ticket went through and is not on its way is in the     *)
(* log, even if calls overwrote each other; if they did not, the log has   *)
(* nothing else.                                                           *)
EveryTransitionIsLogged ==
  ticket # NoTicket /\ "crash" \notin mishaps =>
    \A s \in FindingStates :
      /\ Count(s, ticket.history) <= Count(s, log) + InFlight(s)
      /\ mishaps = {} => Count(s, ticket.history) = Count(s, log) + InFlight(s)

(* No call undoes what another one wrote, or what it wrote itself, unless  *)
(* it writes over a ticket that changed since it read it.                  *)
NoTransitionIsLost ==
  [][ticket # NoTicket /\ "stale_write" \notin mishaps'
       => IsPrefix(ticket.history, ticket'.history)]_vars

=============================================================================
