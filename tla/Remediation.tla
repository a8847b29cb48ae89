---------------------------- MODULE Remediation -----------------------------
(***************************************************************************)
(* The governed remediation path of avmp: RemediationEngine                *)
(* (remediation.py) with the change-control connector (itsm.py), the       *)
(* canary controller (canary.py) and a backend (backends.py) that closes   *)
(* ports on a target (targets.py).                                         *)
(*                                                                         *)
(* One engine runs one operation at a time.  apply() is not atomic: it     *)
(* reads the clock twice, asks ITSM for the change request, then changes   *)
(* the target ring by ring.  Each of these is a step of its own here, and  *)
(* between any two of them the change advisory board may decide and the    *)
(* clock may advance.  A call is in progress when pc # "idle".             *)
(*                                                                         *)
(* close_port is the only action action_from_finding ever builds, so an    *)
(* action is an id and a port.  The id is the plugin's, a function of      *)
(* service, asset and port: two plans may carry the same action, and two   *)
(* actions the same port.                                                  *)
(***************************************************************************)
EXTENDS PolicyMatrix, Sequences, FiniteSets

CONSTANTS
  Plans,          \* plan() results: one per finding
  Actions,        \* action ids
  PortOf,         \* the port each action closes
  Ports,          \* the listening ports of the target
  KeysInPlay,     \* the matrix keys findings are planned with
  Approvers,      \* principals that are asked to approve
  Scanner,        \* the principal that ran the scan
  Windows,        \* change windows: pairs <<start, end>> of times of day
  Day,            \* times of day are 0 .. Day - 1
  UseItsm,        \* is an ITSM connector configured?
  Faults,         \* the steps of apply() at which a call may raise
  MayCrash,       \* may the process die?
  NoAction, NoOne, NoPlan, NoCall,
  MaxCalls,       \* bound on apply() calls
  MaxApprovals,   \* bound on approve() calls
  MaxRfcs         \* bound on change requests

Steps == {"window", "override", "rfc", "apply", "health", "rollback", "sync", "close"}
Times == 0 .. Day - 1

ASSUME ConstantsAssumption ==
  /\ PortOf \in [Actions -> Ports]
  /\ KeysInPlay \subseteq MatrixKeys
  /\ Windows \subseteq Times \X Times
  /\ Day \in Nat \ {0}
  /\ UseItsm \in BOOLEAN
  /\ Faults \subseteq Steps
  /\ MayCrash \in BOOLEAN
  /\ NoAction \notin Actions
  /\ NoOne \notin Approvers
  /\ {MaxCalls, MaxApprovals, MaxRfcs} \subseteq Nat

VARIABLES
  plan,        \* plan[p]: the RemediationPlan of p, or NoPlan
  rfcs,        \* change requests, in order of creation; an rfc_id is an index
  now,         \* the time of day the clock shows
  blocked,     \* the ports the target's firewall denies
  undo,        \* undo[a]: what the backend's _undo holds for action a
  audit,       \* the events of the audit log
  pc,          \* the step apply() is at, or "idle"
  call,        \* the apply() call in progress, or NoCall
  calls,       \* apply() calls so far
  preexisting  \* history: the ports denied before the engine ever ran

vars == <<plan, rfcs, now, blocked, undo, audit, pc, call, calls, preexisting>>
target == <<blocked, undo>>

-----------------------------------------------------------------------------
(* Values.                                                                 *)

RfcStates == {"pending_approval", "approved", "rejected", "implemented"}
Undos     == {"none", "was_open", "was_blocked"}
Rings     == {"canary", "fleet"}

(* rfc = 0 stands for rfc_id = None.                                       *)
PlanType ==
  [key : MatrixKeys, action : Actions \cup {NoAction},
   approvedBy : Approvers \cup {NoOne}, rfc : Nat]

(* A change request keeps its history; what is asked of it is whether it   *)
(* was ever approved.                                                      *)
RfcType == [state : RfcStates, everApproved : BOOLEAN]

Events ==
  {"change.rfc_created", "remediation.approved", "remediation.denied",
   "remediation.emergency_override", "remediation.rolled_back",
   "remediation.applied", "remediation.rollback_completed"}

EntryType ==
  [event : Events, plan : Plans, by : Approvers \cup {NoOne}, rfc : Nat,
   action : Actions \cup {NoAction}, ring : Rings \cup {"none"}, validated : BOOLEAN]

(* The arguments and locals of apply().  Three fields are history: outside *)
(* (the first clock read of gate 3 was outside every window), before (the  *)
(* denied ports when the call began) and fresh (no undo of the plan's      *)
(* action was outstanding then).                                           *)
CallType ==
  [plan : Plans, override : BOOLEAN, customHealth : BOOLEAN, backend : BOOLEAN,
   ring : Rings, success : BOOLEAN,
   outside : BOOLEAN, before : SUBSET Ports, fresh : BOOLEAN]

-----------------------------------------------------------------------------
(* Helpers.                                                                *)

(* ChangeWindow.contains: end exclusive; a window may wrap midnight.       *)
Contains(w, t) ==
  IF w[1] <= w[2] THEN w[1] <= t /\ t < w[2] ELSE t >= w[1] \/ t < w[2]

WithinChangeWindow == Windows = {} \/ \E w \in Windows : Contains(w, now)

Entry(event, p) ==
  [event |-> event, plan |-> p, by |-> NoOne, rfc |-> plan[p].rfc,
   action |-> plan[p].action, ring |-> "none", validated |-> FALSE]

Log(entry) == audit' = Append(audit, entry)

DecisionOf(p) == Resolve(plan[p].key)
ActionOf(p)   == plan[p].action

(* use_backend                                                             *)
UseBackend == call.backend /\ ActionOf(call.plan) # NoAction

Goto(step) == pc' = step /\ UNCHANGED call

Return == pc' = "idle" /\ call' = NoCall

(* Deny: the audited early return of a gate.                               *)
Deny(p) == Log(Entry("remediation.denied", p)) /\ Return

CountOf(event) == Cardinality({i \in DOMAIN audit : audit[i].event = event})

-----------------------------------------------------------------------------
(* Initial states: the target may already deny some ports.                 *)

Init ==
  /\ plan = [p \in Plans |-> NoPlan]
  /\ rfcs = <<>>
  /\ now \in Times
  /\ blocked \in SUBSET Ports
  /\ undo = [a \in Actions |-> "none"]
  /\ audit = <<>>
  /\ pc = "idle"
  /\ call = NoCall
  /\ calls = 0
  /\ preexisting = blocked

-----------------------------------------------------------------------------
(* The operator's requests, each made while no call is in progress.        *)

(* plan: the decision is a function of the key, so the key is kept.  A     *)
(* finding without a port has no action; a plugin that cannot remediate    *)
(* gives the action an id of its own.                                      *)
MakePlan(p, k, a) ==
  /\ pc = "idle"
  /\ plan[p] = NoPlan
  /\ plan' = [plan EXCEPT ![p] = [key |-> k, action |-> a, approvedBy |-> NoOne, rfc |-> 0]]
  /\ UNCHANGED <<rfcs, now, target, audit, pc, call, calls, preexisting>>

(* open_change_request and MockServiceNow.create_rfc                       *)
OpenChangeRequest(p) ==
  /\ pc = "idle"
  /\ plan[p] # NoPlan
  /\ UseItsm
  /\ Len(rfcs) < MaxRfcs
  /\ rfcs' = Append(rfcs, [state |-> "pending_approval", everApproved |-> FALSE])
  /\ plan' = [plan EXCEPT ![p].rfc = Len(rfcs) + 1]
  /\ Log([Entry("change.rfc_created", p) EXCEPT !.rfc = Len(rfcs) + 1])
  /\ UNCHANGED <<now, target, pc, call, calls, preexisting>>

(* approve raises, and records nothing, when the approver is the scanner   *)
(* (enforce_separation_of_duties).                                         *)
Approve(p, u) ==
  /\ pc = "idle"
  /\ plan[p] # NoPlan
  /\ u # Scanner
  /\ CountOf("remediation.approved") < MaxApprovals
  /\ plan' = [plan EXCEPT ![p].approvedBy = u]
  /\ Log([Entry("remediation.approved", p) EXCEPT !.by = u])
  /\ UNCHANGED <<rfcs, now, target, pc, call, calls, preexisting>>

-----------------------------------------------------------------------------
(* apply, one step at a time.                                              *)

(* Gates 1 and 2 read only the plan.                                       *)
GatesOneAndTwo(p) ==
  /\ AutoApplicable(DecisionOf(p))
  /\ DecisionOf(p).requiresApproval => plan[p].approvedBy # NoOne

Apply(p, override, custom, backend) ==
  /\ pc = "idle"
  /\ plan[p] # NoPlan
  /\ calls < MaxCalls
  /\ calls' = calls + 1
  /\ \/ /\ ~GatesOneAndTwo(p)
        /\ Deny(p)
     \/ /\ GatesOneAndTwo(p)
        /\ pc' = "window"
        /\ call' = [plan |-> p, override |-> override, customHealth |-> custom,
                    backend |-> backend, ring |-> "canary", success |-> FALSE,
                    outside |-> FALSE, before |-> blocked,
                    fresh |-> ActionOf(p) # NoAction /\ undo[ActionOf(p)] = "none"]
        /\ UNCHANGED audit
  /\ UNCHANGED <<plan, rfcs, now, target, preexisting>>

AfterWindow == IF UseItsm THEN "rfc" ELSE "apply"

(* Gate 3, first read of the clock.                                        *)
CheckWindow ==
  /\ pc = "window"
  /\ \/ /\ ~WithinChangeWindow
        /\ ~call.override
        /\ Deny(call.plan)
     \/ /\ WithinChangeWindow \/ call.override
        /\ call' = [call EXCEPT !.outside = ~WithinChangeWindow]
        /\ pc' = IF call.override THEN "override" ELSE AfterWindow
        /\ UNCHANGED audit
  /\ UNCHANGED <<plan, rfcs, now, target, calls, preexisting>>

(* Gate 3, second read: is the override to be recorded?                    *)
CheckOverride ==
  /\ pc = "override"
  /\ Goto(AfterWindow)
  /\ IF WithinChangeWindow
     THEN UNCHANGED audit
     ELSE Log(Entry("remediation.emergency_override", call.plan))
  /\ UNCHANGED <<plan, rfcs, now, target, calls, preexisting>>

RfcApproved(p) == plan[p].rfc # 0 /\ rfcs[plan[p].rfc].state = "approved"

(* Slip: a change request that merely exists lets the change through.      *)
CheckRfcExists ==
  /\ pc = "rfc"
  /\ IF plan[call.plan].rfc # 0
     THEN Goto("apply") /\ UNCHANGED audit
     ELSE Deny(call.plan)
  /\ UNCHANGED <<plan, rfcs, now, target, calls, preexisting>>

(* Gate 4.                                                                 *)
CheckRfc ==
  /\ pc = "rfc"
  /\ IF RfcApproved(call.plan)
     THEN Goto("apply") /\ UNCHANGED audit
     ELSE Deny(call.plan)
  /\ UNCHANGED <<plan, rfcs, now, target, calls, preexisting>>

(* Slip: an existing deny is not remembered.                               *)
BackendApplyForgetful(a) ==
  IF undo[a] # "none"
  THEN UNCHANGED target
  ELSE /\ undo' = [undo EXCEPT ![a] = "was_open"]
       /\ blocked' = blocked \cup {PortOf[a]}

(* Slip: not idempotent, the second ring records an undo again.            *)
BackendApplyReRecords(a) ==
  /\ undo' = [undo EXCEPT ![a] = IF PortOf[a] \in blocked THEN "was_blocked" ELSE "was_open"]
  /\ blocked' = blocked \cup {PortOf[a]}

(* HostModelBackend.apply: idempotent, records the undo.                   *)
BackendApply(a) ==
  IF undo[a] # "none"
  THEN UNCHANGED target
  ELSE /\ undo' = [undo EXCEPT ![a] = IF PortOf[a] \in blocked THEN "was_blocked" ELSE "was_open"]
       /\ blocked' = blocked \cup {PortOf[a]}

(* Slip: the undo entry survives its use.                                  *)
BackendRollbackKeepsUndo(a) ==
  /\ undo' = undo
  /\ blocked' = IF undo[a] = "was_open" THEN blocked \ {PortOf[a]} ELSE blocked

(* HostModelBackend.rollback: pops the undo; only a port that was open is  *)
(* opened again.                                                           *)
BackendRollback(a) ==
  /\ undo' = [undo EXCEPT ![a] = "none"]
  /\ blocked' = IF undo[a] = "was_open" THEN blocked \ {PortOf[a]} ELSE blocked

(* staged_rollout, the ring's apply_fn.                                    *)
ApplyRing ==
  /\ pc = "apply"
  /\ Goto("health")
  /\ IF UseBackend THEN BackendApply(ActionOf(call.plan)) ELSE UNCHANGED target
  /\ UNCHANGED <<plan, rfcs, now, audit, calls, preexisting>>

(* HostModelBackend.validate: every port in Ports has a listener, so it is *)
(* exposed unless it is denied.                                            *)
Validate(a) == PortOf[a] \in blocked

(* What the health gate may answer: a caller's health_fn anything, the     *)
(* default one whether the change is in effect.                            *)
HealthAnswers ==
  IF call.customHealth THEN BOOLEAN
  ELSE {UseBackend => Validate(ActionOf(call.plan))}

(* Where a call whose rollout succeeded goes on.                           *)
AfterRollout == IF UseItsm /\ plan[call.plan].rfc # 0 THEN "sync" ELSE "close"

(* Slip: only the canary ring is rolled back when unhealthy.               *)
CheckHealthCanaryOnly ==
  /\ pc = "health"
  /\ \E healthy \in HealthAnswers :
       \/ /\ call.ring = "fleet"
          /\ call' = [call EXCEPT !.success = healthy]
          /\ pc' = AfterRollout
       \/ /\ healthy
          /\ call.ring = "canary"
          /\ call' = [call EXCEPT !.ring = "fleet"]
          /\ pc' = "apply"
       \/ /\ ~healthy
          /\ call.ring = "canary"
          /\ Goto("rollback")
  /\ UNCHANGED <<plan, rfcs, now, target, audit, calls, preexisting>>

(* Slip: an unhealthy ring is retried instead of rolled back.              *)
CheckHealthRetries ==
  /\ pc = "health"
  /\ \E healthy \in HealthAnswers :
       \/ /\ healthy
          /\ call.ring = "fleet"
          /\ call' = [call EXCEPT !.success = TRUE]
          /\ pc' = AfterRollout
       \/ /\ ~healthy \/ call.ring = "canary"
          /\ call' = [call EXCEPT !.ring = IF healthy THEN "fleet" ELSE @]
          /\ pc' = "apply"
  /\ UNCHANGED <<plan, rfcs, now, target, audit, calls, preexisting>>

(* staged_rollout, the ring's health gate.                                 *)
CheckHealth ==
  /\ pc = "health"
  /\ \E healthy \in HealthAnswers :
       \/ /\ healthy
          /\ call.ring = "canary"
          /\ call' = [call EXCEPT !.ring = "fleet"]
          /\ pc' = "apply"
       \/ /\ healthy
          /\ call.ring = "fleet"
          /\ call' = [call EXCEPT !.success = TRUE]
          /\ pc' = AfterRollout
       \/ /\ ~healthy
          /\ Goto("rollback")
  /\ UNCHANGED <<plan, rfcs, now, target, audit, calls, preexisting>>

(* Slip: after a failed fleet ring the canary ring is not rolled back.     *)
RollbackOneRing ==
  /\ pc = "rollback"
  /\ IF UseBackend THEN BackendRollback(ActionOf(call.plan)) ELSE UNCHANGED target
  /\ Log([Entry("remediation.rolled_back", call.plan) EXCEPT !.ring = call.ring])
  /\ Goto("close")
  /\ UNCHANGED <<plan, rfcs, now, calls, preexisting>>

(* staged_rollout, rollback_fn of every ring applied so far, last first.   *)
RollbackRing ==
  /\ pc = "rollback"
  /\ IF UseBackend THEN BackendRollback(ActionOf(call.plan)) ELSE UNCHANGED target
  /\ Log([Entry("remediation.rolled_back", call.plan) EXCEPT !.ring = call.ring])
  /\ IF call.ring = "fleet"
     THEN pc' = pc /\ call' = [call EXCEPT !.ring = "canary"]
     ELSE Goto("close")
  /\ UNCHANGED <<plan, rfcs, now, calls, preexisting>>

(* itsm.set_state(IMPLEMENTED) after a successful rollout.                 *)
SyncRfc ==
  /\ pc = "sync"
  /\ rfcs' = [rfcs EXCEPT ![plan[call.plan].rfc].state = "implemented"]
  /\ Goto("close")
  /\ UNCHANGED <<plan, now, target, audit, calls, preexisting>>

(* Slip: a call that was rolled back leaves no closing record.             *)
CloseCallQuietly ==
  /\ pc = "close"
  /\ IF call.success
     THEN Log([Entry("remediation.applied", call.plan)
               EXCEPT !.by = plan[call.plan].approvedBy, !.validated = UseBackend])
     ELSE UNCHANGED audit
  /\ Return
  /\ UNCHANGED <<plan, rfcs, now, target, calls, preexisting>>

(* The closing record, whose signature is the receipt.                     *)
CloseCall ==
  /\ pc = "close"
  /\ Log([Entry(IF call.success THEN "remediation.applied"
                                ELSE "remediation.rollback_completed", call.plan)
          EXCEPT !.by = plan[call.plan].approvedBy,
                 !.validated = call.success /\ UseBackend])
  /\ Return
  /\ UNCHANGED <<plan, rfcs, now, target, calls, preexisting>>

-----------------------------------------------------------------------------
(* Exceptions.  Nothing in apply() or staged_rollout() catches one: the    *)
(* call ends where it is, with no rollback and no closing record.  A live  *)
(* NSG call that raises may or may not have reached the tenant.            *)

RaiseInApply ==
  /\ pc = "apply" /\ "apply" \in Faults
  /\ UseBackend
  /\ undo[ActionOf(call.plan)] = "none"
  /\ blocked' \in {blocked, blocked \cup {PortOf[ActionOf(call.plan)]}}
  /\ Return
  /\ UNCHANGED <<plan, rfcs, now, undo, audit, calls, preexisting>>

(* The undo is popped before the deny is removed.                          *)
RaiseInRollback ==
  /\ pc = "rollback" /\ "rollback" \in Faults
  /\ UseBackend
  /\ \/ BackendRollback(ActionOf(call.plan))
     \/ /\ undo' = [undo EXCEPT ![ActionOf(call.plan)] = "none"]
        /\ UNCHANGED blocked
  /\ Return
  /\ UNCHANGED <<plan, rfcs, now, audit, calls, preexisting>>

(* ITSM, the health gate or the audit store raises.                        *)
RaiseElsewhere ==
  /\ pc \in {"override", "rfc", "health", "sync", "close"} \cap Faults
  /\ pc = "override" => ~WithinChangeWindow
  /\ pc = "rfc" => plan[call.plan].rfc # 0
  /\ Return
  /\ UNCHANGED <<plan, rfcs, now, target, audit, calls, preexisting>>

(* The process dies.  Plans and undos are in memory; the audit store, the  *)
(* target and a live ITSM are not.                                         *)
Crash ==
  /\ MayCrash
  /\ plan' = [p \in Plans |-> NoPlan]
  /\ undo' = [a \in Actions |-> "none"]
  /\ Return
  /\ UNCHANGED <<rfcs, now, blocked, audit, calls, preexisting>>

-----------------------------------------------------------------------------
(* The environment: the change advisory board and the clock.               *)

(* MockServiceNow.approve and .reject ask nothing of the current state.    *)
CabDecide(r, verdict) ==
  /\ rfcs' = [rfcs EXCEPT ![r] = [state |-> verdict,
                                  everApproved |-> @.everApproved \/ verdict = "approved"]]
  /\ UNCHANGED <<plan, now, target, audit, pc, call, calls, preexisting>>

Tick ==
  /\ now' = (now + 1) % Day
  /\ UNCHANGED <<plan, rfcs, target, audit, pc, call, calls, preexisting>>

-----------------------------------------------------------------------------
Request ==
  \E p \in Plans :
    \/ \E k \in KeysInPlay, a \in Actions \cup {NoAction} : MakePlan(p, k, a)
    \/ OpenChangeRequest(p)
    \/ \E u \in Approvers : Approve(p, u)
    \/ \E override, custom, backend \in BOOLEAN : Apply(p, override, custom, backend)

(* The steps a call takes by itself.                                       *)
EngineStep ==
  \/ CheckWindow \/ CheckOverride \/ CheckRfc
  \/ ApplyRing \/ CheckHealth \/ RollbackRing
  \/ SyncRfc \/ CloseCall

Fault == RaiseInApply \/ RaiseInRollback \/ RaiseElsewhere \/ Crash

Environment ==
  \/ \E r \in DOMAIN rfcs, verdict \in {"approved", "rejected"} : CabDecide(r, verdict)
  \/ Tick

Next == Request \/ EngineStep \/ Fault \/ Environment

Spec == Init /\ [][Next]_vars

(* apply() is straight-line code: once called it runs on.                  *)
FairSpec == Spec /\ WF_vars(EngineStep)

-----------------------------------------------------------------------------
(* Properties.                                                             *)

(* A call in progress is about a planned finding.                          *)
CallOK ==
  \/ pc = "idle" /\ call = NoCall
  \/ /\ pc # "idle"
     /\ call \in CallType
     /\ plan[call.plan] # NoPlan
     /\ pc = "sync" => plan[call.plan].rfc # 0

(* Every variable keeps its type.                                          *)
TypeOK ==
  /\ plan \in [Plans -> PlanType \cup {NoPlan}]
  /\ rfcs \in Seq(RfcType)
  /\ now \in Times
  /\ blocked \subseteq Ports
  /\ undo \in [Actions -> Undos]
  /\ audit \in Seq(EntryType)
  /\ pc \in Steps \cup {"idle"}
  /\ CallOK
  /\ \A p \in Plans : plan[p] # NoPlan => plan[p].rfc \in 0 .. Len(rfcs)
  /\ calls \in Nat
  /\ preexisting \subseteq Ports

(* The actions whose undo, if it is used, opens their port again.          *)
Owners == {a \in Actions : undo[a] = "was_open"}

(* The undos the backend holds are an exact account of its changes: the    *)
(* target denies what it denied before the engine ran and the ports owned  *)
(* by an action, no port is owned twice, and none that was denied before   *)
(* is owned (backends.py:12, "every action records an undo so rollback is  *)
(* exact").  Holds while no call raises and the process does not die.      *)
UndoIsAnExactAccount ==
  /\ blocked = preexisting \cup {PortOf[a] : a \in Owners}
  /\ \A a, b \in Owners : PortOf[a] = PortOf[b] => a = b
  /\ \A a \in Owners : PortOf[a] \notin preexisting

(* No exception, crash or sequence of calls ever opens a port the operator *)
(* had denied before (docs/azure-live-switch.md:47).                       *)
PreexistingDenySurvives == preexisting \subseteq blocked

(* A failed call whose action was not in effect when it began leaves the   *)
(* target as it found it, whatever its ring and the other actions' undos.  *)
FailedFirstApplyRestores ==
  pc = "close" /\ ~call.success /\ call.fresh => blocked = call.before

(* phase3-deliverables.md:54 says it of every failed call.                 *)
FailedApplyRestores ==
  pc = "close" /\ ~call.success => blocked = call.before

(* Post-fix validation: a call that ends as validated leaves its port      *)
(* denied, provided no other action has the same port.                     *)
SolePort(a) == \A b \in Actions : PortOf[b] = PortOf[a] => b = a
ValidatedMeansInEffectIfSole ==
  pc = "close" /\ call.success /\ UseBackend /\ SolePort(ActionOf(call.plan))
    => Validate(ActionOf(call.plan))

(* The gates a change of the target has gone through.  An approval and a   *)
(* change request are looked up in the audit log and in the request's      *)
(* history, so a gate that passes on stale or missing evidence shows.      *)
ApprovedOnRecord(p) ==
  \E i \in DOMAIN audit :
    audit[i].event = "remediation.approved" /\ audit[i].plan = p /\ audit[i].by # Scanner

Governed(p) ==
  /\ AutoApplicable(DecisionOf(p))
  /\ DecisionOf(p).requiresApproval => ApprovedOnRecord(p)
  /\ UseItsm => plan[p].rfc # 0 /\ rfcs[plan[p].rfc].everApproved

(* The target changes only inside a governed call ("a remediation must     *)
(* ride on an approved change request", itsm.py:3), and if gate 3 found it *)
(* outside the change windows, only under an emergency override.           *)
WindowRespected == call.outside => call.override
EveryChangeIsGoverned ==
  [][blocked' # blocked => pc # "idle" /\ Governed(call.plan) /\ WindowRespected]_vars

Closing == {"remediation.denied", "remediation.applied", "remediation.rollback_completed"}

(* Every call that ended has exactly one closing record, a call in         *)
(* progress has none yet.                                                  *)
EveryCallIsClosedOnce ==
  Cardinality({i \in DOMAIN audit : audit[i].event \in Closing})
    = calls - (IF pc = "idle" THEN 0 ELSE 1)

(* The target and the undos, driven by the gates, rings, exceptions and    *)
(* crashes of the engine, keep the promise of ReversibleTarget: a port is  *)
(* denied once per action and gets back what the action found.             *)
PortValue == [p \in Ports |-> IF p \in blocked THEN "denied" ELSE "open"]
SavedValue ==
  [a \in Actions |-> IF undo[a] = "was_open" THEN "open"
                     ELSE IF undo[a] = "was_blocked" THEN "denied" ELSE "none"]

Reversible == INSTANCE ReversibleTarget WITH
  Action <- Actions, Setting <- Ports, SettingOf <- PortOf,
  Wanted <- [a \in Actions |-> "denied"], Nothing <- "none",
  MayBreak <- Faults \cap {"apply", "rollback"} # {},
  value <- PortValue, saved <- SavedValue

KeepsThePromise == Reversible!Spec

AppliedOnRecord(a) ==
  \E i \in DOMAIN audit : audit[i].event = "remediation.applied" /\ audit[i].action = a

(* Between calls, every deny the engine added is vouched for: by an undo   *)
(* that can remove it and a record that it was applied ("immutable logs    *)
(* for ... remediation actions", sentinelfix-prd.md:46).                   *)
EveryDenyIsOnRecord ==
  pc = "idle" =>
    \A port \in blocked \ preexisting :
      \E a \in Owners : PortOf[a] = port /\ AppliedOnRecord(a)

(* The log tells a rollback as it happened: the rings in reverse order,    *)
(* and a completion only after the canary ring.                            *)
RollbackIsToldInOrder ==
  \A i \in DOMAIN audit :
    /\ audit[i].event = "remediation.rollback_completed" =>
         i > 1 /\ audit[i - 1].event = "remediation.rolled_back" /\ audit[i - 1].ring = "canary"
    /\ audit[i].event = "remediation.rolled_back" /\ audit[i].ring = "fleet" =>
         IF i = Len(audit) THEN pc = "rollback" /\ call.ring = "canary"
         ELSE audit[i + 1].event = "remediation.rolled_back" /\ audit[i + 1].ring = "canary"

(* The log is an account of the calls: each is closed once, each deny is   *)
(* vouched for, each rollback is told as it happened.                      *)
LogIsAnAccount ==
  /\ EveryDenyIsOnRecord
  /\ EveryCallIsClosedOnce
  /\ RollbackIsToldInOrder

(* A call that began ends, with or without an exception.                   *)
EveryCallEnds == pc # "idle" ~> pc = "idle"

-----------------------------------------------------------------------------
(* Strengthenings: what the proofs of RemediationProofs carry from step to *)
(* step besides TypeOK.                                                    *)

(* Undoing a change of ours never touches a deny that was there before.    *)
PreexistingAccount ==
  /\ PreexistingDenySurvives
  /\ \A a \in Owners : PortOf[a] \notin preexisting

(* Where a call stands that began with its action not in effect.           *)
Untouched(a) == blocked = call.before /\ undo[a] = "none"
InEffect(a) ==
  /\ blocked = call.before \cup {PortOf[a]}
  /\ undo[a] = IF PortOf[a] \in call.before THEN "was_blocked" ELSE "was_open"

FreshCallAccount ==
  pc # "idle" /\ call.fresh =>
    /\ ActionOf(call.plan) \in Actions
    /\ IF UseBackend
       THEN /\ pc \in {"window", "override", "rfc"} => Untouched(ActionOf(call.plan))
            /\ pc = "apply" /\ call.ring = "canary" => Untouched(ActionOf(call.plan))
            /\ pc = "apply" /\ call.ring = "fleet" => InEffect(ActionOf(call.plan))
            /\ pc \in {"health", "sync"} => InEffect(ActionOf(call.plan))
            /\ pc = "rollback" => Untouched(ActionOf(call.plan)) \/ InEffect(ActionOf(call.plan))
            /\ pc = "close" /\ ~call.success => Untouched(ActionOf(call.plan))
       ELSE blocked = call.before

CallOrder ==
  /\ pc \in {"window", "override", "rfc"} => call.ring = "canary"
  /\ pc \in Steps \ {"sync", "close"} => ~call.success
  /\ pc = "sync" => call.success

(* The evidence behind the fields the gates read.                          *)
EvidenceAccount ==
  /\ \A p \in Plans : plan[p] # NoPlan /\ plan[p].approvedBy # NoOne => ApprovedOnRecord(p)
  /\ \A r \in DOMAIN rfcs : rfcs[r].state = "approved" => rfcs[r].everApproved

GateAccount ==
  pc # "idle" =>
    /\ AutoApplicable(DecisionOf(call.plan))
    /\ DecisionOf(call.plan).requiresApproval => ApprovedOnRecord(call.plan)
    /\ WindowRespected
    /\ UseItsm /\ pc \in {"apply", "health", "rollback"} =>
         plan[call.plan].rfc # 0 /\ rfcs[plan[call.plan].rfc].everApproved

(* An action in place by its undo has its port denied, if no other action  *)
(* can open it; and a call past its rollout has its action in place.       *)
InPlaceAccount ==
  /\ \A a \in Actions : undo[a] # "none" /\ SolePort(a) => PortOf[a] \in blocked
  /\ (pc \in {"health", "sync"} \/ (pc = "close" /\ call.success)) /\ UseBackend =>
       undo[ActionOf(call.plan)] # "none"

(* Every change that a rollback would undo is on record, or is the one the *)
(* call in progress is about; a call whose rollout failed has undone its   *)
(* own, and has just said so.                                              *)
Carries(a) ==
  /\ pc \in {"apply", "health", "rollback", "sync"} \/ (pc = "close" /\ call.success)
  /\ UseBackend /\ ActionOf(call.plan) = a

OwnersAreTold == \A a \in Owners : AppliedOnRecord(a) \/ Carries(a)

FailedCallIsRolledBack ==
  pc = "close" /\ ~call.success =>
    /\ UseBackend => undo[ActionOf(call.plan)] = "none"
    /\ audit # <<>>
    /\ audit[Len(audit)].event = "remediation.rolled_back" /\ audit[Len(audit)].ring = "canary"

=============================================================================
