------------------------- MODULE RemediationProofs --------------------------
(***************************************************************************)
(* Theorems of Remediation, for every choice of its constants.             *)
(***************************************************************************)
EXTENDS Remediation, SequenceTheorems, FiniteSetTheorems, TLAPS

(***************************************************************************)
(* Lemmas about the parts of a step.                                       *)
(***************************************************************************)

(* A record built from a planned finding has the type of a record.         *)
LEMMA EntryTyped ==
  ASSUME TypeOK, NEW p \in Plans, plan[p] # NoPlan, NEW event \in Events
  PROVE  /\ Entry(event, p) \in EntryType
         /\ Entry(event, p).event = event
         /\ Entry(event, p).plan = p
  BY DEF TypeOK, Entry, EntryType, PlanType

(* Logging an entry appends it.                                            *)
LEMMA LogTyped ==
  ASSUME TypeOK, NEW e \in EntryType, Log(e)
  PROVE  /\ audit' \in Seq(EntryType)
         /\ Len(audit') = Len(audit) + 1
         /\ \A i \in DOMAIN audit : i \in DOMAIN audit' /\ audit'[i] = audit[i]
         /\ Len(audit) + 1 \in DOMAIN audit'
         /\ audit'[Len(audit) + 1] = e
  BY DEF TypeOK, Log

(* The backend's two operations keep the types of the target.              *)
LEMMA BackendTyped ==
  ASSUME TypeOK, NEW a \in Actions, BackendApply(a) \/ BackendRollback(a)
  PROVE  blocked' \subseteq Ports /\ undo' \in [Actions -> Undos]
  BY ConstantsAssumption DEF TypeOK, BackendApply, BackendRollback, target, Undos

(* A call in progress is a typed record about a planned finding.           *)
LEMMA CallTyped ==
  ASSUME TypeOK, pc # "idle"
  PROVE  /\ call \in CallType
         /\ call.plan \in Plans
         /\ plan[call.plan] # NoPlan
         /\ plan[call.plan] \in PlanType
         /\ ActionOf(call.plan) \in Actions \cup {NoAction}
         /\ UseBackend => ActionOf(call.plan) \in Actions
  BY DEF TypeOK, CallOK, CallType, PlanType, ActionOf, UseBackend

(***************************************************************************)
(* Type correctness.                                                       *)
(***************************************************************************)

LEMMA TypeInit == Init => TypeOK
  BY ConstantsAssumption DEF Init, TypeOK, CallOK, Undos, Times

LEMMA TypeRequest == TypeOK /\ Request => TypeOK'
<1> SUFFICES ASSUME TypeOK, NEW p \in Plans,
                    \/ \E k \in KeysInPlay, a \in Actions \cup {NoAction} : MakePlan(p, k, a)
                    \/ OpenChangeRequest(p)
                    \/ \E u \in Approvers : Approve(p, u)
                    \/ \E override, custom, backend \in BOOLEAN : Apply(p, override, custom, backend)
             PROVE  TypeOK'
  BY DEF Request
<1>1. ASSUME NEW k \in KeysInPlay, NEW a \in Actions \cup {NoAction}, MakePlan(p, k, a)
      PROVE  TypeOK'
  BY <1>1, ConstantsAssumption DEF MakePlan, TypeOK, CallOK, PlanType, target
<1>2. CASE OpenChangeRequest(p)
  <2> DEFINE e == [Entry("change.rfc_created", p) EXCEPT !.rfc = Len(rfcs) + 1]
  <2>1. plan[p] \in PlanType /\ plan[p] # NoPlan /\ Len(rfcs) + 1 \in Nat
    BY <1>2 DEF OpenChangeRequest, TypeOK, CallOK
  <2>2. e \in EntryType
    BY <2>1, EntryTyped DEF Events, EntryType
  <2>3. audit' \in Seq(EntryType)
    BY <1>2, <2>2, LogTyped DEF OpenChangeRequest
  <2>4. rfcs' \in Seq(RfcType) /\ Len(rfcs') = Len(rfcs) + 1
    BY <1>2 DEF OpenChangeRequest, TypeOK, CallOK, RfcType, RfcStates
  <2>5. plan' \in [Plans -> PlanType \cup {NoPlan}]
    BY <1>2, <2>1 DEF OpenChangeRequest, TypeOK, CallOK, PlanType
  <2>6. \A q \in Plans : plan'[q] # NoPlan => plan'[q].rfc \in 0 .. Len(rfcs')
    BY <1>2, <2>1, <2>4 DEF OpenChangeRequest, TypeOK, CallOK, PlanType
  <2> QED
    BY <1>2, <2>3, <2>4, <2>5, <2>6 DEF OpenChangeRequest, TypeOK, CallOK, target
<1>3. ASSUME NEW u \in Approvers, Approve(p, u)
      PROVE  TypeOK'
  <2> DEFINE e == [Entry("remediation.approved", p) EXCEPT !.by = u]
  <2>1. plan[p] \in PlanType /\ plan[p] # NoPlan
    BY <1>3 DEF Approve, TypeOK, CallOK
  <2>2. e \in EntryType
    BY <2>1, EntryTyped DEF Events, EntryType
  <2>3. audit' \in Seq(EntryType)
    BY <1>3, <2>2, LogTyped DEF Approve
  <2>5. plan' \in [Plans -> PlanType \cup {NoPlan}]
    BY <1>3, <2>1 DEF Approve, TypeOK, CallOK, PlanType
  <2>6. \A q \in Plans : plan'[q] # NoPlan => plan'[q].rfc \in 0 .. Len(rfcs)
    BY <1>3, <2>1 DEF Approve, TypeOK, CallOK, PlanType
  <2> QED
    BY <1>3, <2>3, <2>5, <2>6 DEF Approve, TypeOK, CallOK, target
<1>4. ASSUME NEW override \in BOOLEAN, NEW custom \in BOOLEAN, NEW backend \in BOOLEAN,
             Apply(p, override, custom, backend)
      PROVE  TypeOK'
  <2>1. plan[p] # NoPlan /\ UNCHANGED <<plan, rfcs, now, target, preexisting>> /\ calls' = calls + 1
    BY <1>4 DEF Apply
  <2>2. CASE Deny(p)
    <3>1. audit' \in Seq(EntryType)
      BY <2>1, <2>2, EntryTyped, LogTyped DEF Deny, Events
    <3> QED
      BY <2>1, <2>2, <3>1 DEF Deny, Return, TypeOK, CallOK, target
  <2>3. CASE GatesOneAndTwo(p) /\ ~Deny(p)
    <3> DEFINE fresh == ActionOf(p) # NoAction /\ undo[ActionOf(p)] = "none"
    <3>1. /\ pc' = "window" /\ UNCHANGED audit
          /\ call' = [plan |-> p, override |-> override, customHealth |-> custom,
                      backend |-> backend, ring |-> "canary", success |-> FALSE,
                      outside |-> FALSE, before |-> blocked, fresh |-> fresh]
      BY <1>4, <2>3 DEF Apply
    <3>2. fresh \in BOOLEAN /\ blocked \in SUBSET Ports /\ "canary" \in Rings
      BY DEF TypeOK, CallOK, Rings
    <3> HIDE DEF fresh
    <3>3. call' \in CallType /\ call'.plan = p
      BY <3>1, <3>2 DEF CallType
    <3> QED
      BY <2>1, <3>1, <3>3 DEF TypeOK, CallOK, target, Steps
  <2> QED
    BY <1>4, <2>2, <2>3 DEF Apply
<1> QED
  BY <1>1, <1>2, <1>3, <1>4

LEMMA TypeEngineStep == TypeOK /\ EngineStep => TypeOK'
<1> SUFFICES ASSUME TypeOK, EngineStep
             PROVE  TypeOK'
  OBVIOUS
<1>0. pc # "idle"
  BY DEF EngineStep, CheckWindow, CheckOverride, CheckRfc, ApplyRing, CheckHealth,
         RollbackRing, SyncRfc, CloseCall
<1> DEFINE p == call.plan
<1>c. /\ call \in CallType /\ p \in Plans /\ plan[p] # NoPlan /\ plan[p] \in PlanType
      /\ UseBackend => ActionOf(p) \in Actions
  BY <1>0, CallTyped
<1>d. ASSUME Deny(p), UNCHANGED <<plan, rfcs, now, target, calls, preexisting>>
      PROVE  TypeOK'
  <2>1. audit' \in Seq(EntryType)
    BY <1>c, <1>d, EntryTyped, LogTyped DEF Deny, Events
  <2> QED
    BY <1>d, <2>1 DEF Deny, Return, TypeOK, CallOK, target
<1>w. AfterWindow \in Steps /\ AfterRollout \in Steps
  BY DEF AfterWindow, AfterRollout, Steps
<1>1. CASE CheckWindow
  <2>1. CASE Deny(p)
    BY <1>1, <1>d, <2>1 DEF CheckWindow
  <2>2. CASE ~Deny(p)
    <3>1. /\ call' = [call EXCEPT !.outside = ~WithinChangeWindow]
          /\ pc' \in Steps /\ pc' # "idle" /\ pc' # "sync"
          /\ UNCHANGED <<plan, rfcs, now, target, calls, preexisting, audit>>
      BY <1>1, <2>2, <1>w DEF CheckWindow, Steps, AfterWindow
    <3>2. call' \in CallType /\ call'.plan = p
      BY <3>1, <1>c DEF CallType, WithinChangeWindow
    <3> QED
      BY <3>1, <3>2, <1>c DEF TypeOK, CallOK, target
  <2> QED
    BY <2>1, <2>2
<1>2. CASE CheckOverride
  <2>1. audit' \in Seq(EntryType)
    BY <1>2, <1>c, EntryTyped, LogTyped DEF CheckOverride, Events, TypeOK, CallOK
  <2> QED
    BY <1>0, <1>2, <2>1, <1>w DEF CheckOverride, Goto, TypeOK, CallOK, target, AfterWindow, Steps
<1>3. CASE CheckRfc
  BY <1>0, <1>3, <1>d DEF CheckRfc, Goto, TypeOK, CallOK, target, Steps
<1>4. CASE ApplyRing
  <2>1. blocked' \subseteq Ports /\ undo' \in [Actions -> Undos]
    BY <1>4, <1>c, BackendTyped DEF ApplyRing, TypeOK, CallOK, target
  <2> QED
    BY <1>0, <1>4, <2>1 DEF ApplyRing, Goto, TypeOK, CallOK, Steps
<1>5. CASE CheckHealth
  <2>1. /\ call' \in CallType /\ call'.plan = p
        /\ pc' \in Steps /\ pc' # "idle"
        /\ pc' = "sync" => plan[p].rfc # 0
    BY <1>5, <1>c, <1>w DEF CheckHealth, Goto, CallType, Rings, Steps, AfterRollout
  <2> QED
    BY <1>5, <2>1, <1>c DEF CheckHealth, TypeOK, CallOK, target
<1>6. CASE RollbackRing
  <2> DEFINE e == [Entry("remediation.rolled_back", p) EXCEPT !.ring = call.ring]
  <2>1. e \in EntryType
    BY <1>c, EntryTyped DEF Events, EntryType, CallType
  <2>2. audit' \in Seq(EntryType)
    BY <1>6, <2>1, LogTyped DEF RollbackRing
  <2>3. blocked' \subseteq Ports /\ undo' \in [Actions -> Undos]
    BY <1>6, <1>c, BackendTyped DEF RollbackRing, TypeOK, CallOK, target
  <2>4. call' \in CallType /\ call'.plan = p /\ pc' \in Steps /\ pc' \notin {"idle", "sync"}
    BY <1>6, <1>c DEF RollbackRing, Goto, CallType, Rings, Steps
  <2> QED
    BY <1>6, <2>2, <2>3, <2>4, <1>c DEF RollbackRing, TypeOK, CallOK
<1>7. CASE SyncRfc
  <2>1. rfcs' \in Seq(RfcType) /\ Len(rfcs') = Len(rfcs)
    <3> DEFINE r == plan[p].rfc
               x == [rfcs[r] EXCEPT !.state = "implemented"]
    <3>1. r \in 1 .. Len(rfcs)
      BY <1>7, <1>c DEF SyncRfc, TypeOK, CallOK, PlanType
    <3>2. x \in RfcType
      <4>1. rfcs[r] \in RfcType
        BY <3>1 DEF TypeOK
      <4> QED
        BY <4>1 DEF RfcType, RfcStates
    <3>3. rfcs' = [rfcs EXCEPT ![r] = x]
      BY <1>7 DEF SyncRfc
    <3> HIDE DEF x, r
    <3> QED
      BY <3>1, <3>2, <3>3, ExceptSeq DEF TypeOK, CallOK
  <2> QED
    BY <1>0, <1>7, <2>1 DEF SyncRfc, Goto, TypeOK, CallOK, target, Steps
<1>8. CASE CloseCall
  <2> DEFINE event == IF call.success THEN "remediation.applied" ELSE "remediation.rollback_completed"
             validated == call.success /\ UseBackend
             e == [Entry(event, p) EXCEPT !.by = plan[p].approvedBy, !.validated = validated]
  <2>1. event \in Events
    BY DEF Events
  <2>2. validated \in BOOLEAN /\ plan[p].approvedBy \in Approvers \cup {NoOne}
    BY <1>c DEF UseBackend, CallType, PlanType
  <2>3. Log(e)
    BY <1>8 DEF CloseCall
  <2> HIDE DEF validated, event
  <2>4. e \in EntryType
    <3>1. Entry(event, p) \in EntryType
      BY <2>1, <1>c, EntryTyped
    <3> HIDE DEF p
    <3> QED
      BY <2>2, <3>1 DEF EntryType
  <2>5. audit' \in Seq(EntryType)
    BY <2>3, <2>4, LogTyped
  <2> QED
    BY <1>8, <2>5 DEF CloseCall, Return, TypeOK, CallOK, target
<1> QED
  BY <1>1, <1>2, <1>3, <1>4, <1>5, <1>6, <1>7, <1>8 DEF EngineStep

LEMMA TypeOthers == TypeOK /\ (Fault \/ Environment \/ UNCHANGED vars) => TypeOK'
<1> SUFFICES ASSUME TypeOK, Fault \/ Environment \/ UNCHANGED vars
             PROVE  TypeOK'
  OBVIOUS
<1>1. CASE RaiseInApply
  <2>1. ActionOf(call.plan) \in Actions
    BY <1>1, CallTyped DEF RaiseInApply
  <2>2. blocked' \subseteq Ports
    BY <1>1, <2>1, ConstantsAssumption DEF RaiseInApply, TypeOK, CallOK
  <2> QED
    BY <1>1, <2>2 DEF RaiseInApply, Return, TypeOK, CallOK
<1>2. CASE RaiseInRollback
  <2>1. ActionOf(call.plan) \in Actions
    BY <1>2, CallTyped DEF RaiseInRollback
  <2>2. blocked' \subseteq Ports /\ undo' \in [Actions -> Undos]
    BY <1>2, <2>1, BackendTyped DEF RaiseInRollback, TypeOK, CallOK, Undos
  <2> QED
    BY <1>2, <2>2 DEF RaiseInRollback, Return, TypeOK, CallOK
<1>3. CASE RaiseElsewhere
  BY <1>3 DEF RaiseElsewhere, Return, TypeOK, CallOK, target
<1>4. CASE Crash
  BY <1>4 DEF Crash, Return, TypeOK, CallOK, Undos
<1>5. ASSUME NEW r \in DOMAIN rfcs, NEW verdict \in {"approved", "rejected"}, CabDecide(r, verdict)
      PROVE  TypeOK'
  <2>1. rfcs' \in Seq(RfcType) /\ Len(rfcs') = Len(rfcs)
    BY <1>5 DEF CabDecide, TypeOK, CallOK, RfcType, RfcStates
  <2> QED
    BY <1>5, <2>1 DEF CabDecide, TypeOK, CallOK, target
<1>6. CASE Tick
  <2>1. now' \in Times
    BY <1>6, ConstantsAssumption DEF Tick, TypeOK, CallOK, Times
  <2> QED
    BY <1>6, <2>1 DEF Tick, TypeOK, CallOK, target
<1>7. CASE UNCHANGED vars
  BY <1>7 DEF vars, target, TypeOK, CallOK
<1> QED
  BY <1>1, <1>2, <1>3, <1>4, <1>5, <1>6, <1>7 DEF Fault, Environment

LEMMA TypeStep == TypeOK /\ [Next]_vars => TypeOK'
  BY TypeRequest, TypeEngineStep, TypeOthers DEF Next

(* Every variable keeps its type, whatever the interleaving of engine,     *)
(* change advisory board, clock, exceptions and crashes.                   *)
THEOREM TypeCorrect == Spec => []TypeOK
  BY TypeInit, TypeStep, PTL DEF Spec

(***************************************************************************)
(* The target.                                                             *)
(***************************************************************************)

(* What a step may do to the target: nothing, one of the backend's two     *)
(* operations, or what is left of one that an exception or a crash cut     *)
(* short.                                                                  *)
LEMMA TargetSteps ==
  ASSUME TypeOK, [Next]_vars
  PROVE  /\ UNCHANGED preexisting
         /\ \/ UNCHANGED <<blocked, undo>>
            \/ \E a \in Actions : BackendApply(a) \/ BackendRollback(a)
            \/ /\ "apply" \in Faults /\ UNCHANGED undo
               /\ \E a \in Actions : undo[a] = "none" /\ blocked' = blocked \cup {PortOf[a]}
            \/ /\ "rollback" \in Faults /\ UNCHANGED blocked
               /\ \E a \in Actions : undo' = [undo EXCEPT ![a] = "none"]
            \/ MayCrash /\ UNCHANGED blocked /\ undo' = [a \in Actions |-> "none"]
<1>1. CASE Request
  BY <1>1 DEF Request, MakePlan, OpenChangeRequest, Approve, Apply, target
<1>2. CASE EngineStep
  <2>1. CASE ApplyRing
    BY <2>1, CallTyped DEF ApplyRing, target
  <2>2. CASE RollbackRing
    BY <2>2, CallTyped DEF RollbackRing, target
  <2> QED
    BY <1>2, <2>1, <2>2
    DEF EngineStep, CheckWindow, CheckOverride, CheckRfc, CheckHealth, SyncRfc, CloseCall, target
<1>3. CASE Fault
  <2>1. CASE RaiseInApply
    BY <2>1, CallTyped DEF RaiseInApply
  <2>2. CASE RaiseInRollback
    BY <2>2, CallTyped DEF RaiseInRollback
  <2> QED
    BY <1>3, <2>1, <2>2 DEF Fault, RaiseElsewhere, Crash, target
<1>4. CASE Environment
  BY <1>4 DEF Environment, CabDecide, Tick, target
<1>5. CASE UNCHANGED vars
  BY <1>5 DEF vars, target
<1> QED
  BY <1>1, <1>2, <1>3, <1>4, <1>5 DEF Next

LEMMA PreexistingStep == TypeOK /\ PreexistingAccount /\ [Next]_vars => PreexistingAccount'
<1> SUFFICES ASSUME TypeOK, PreexistingAccount, [Next]_vars
             PROVE  PreexistingAccount'
  OBVIOUS
<1> USE DEF PreexistingAccount, PreexistingDenySurvives, Owners
<1>1. UNCHANGED preexisting
  BY TargetSteps
<1>2. CASE UNCHANGED <<blocked, undo>>
  BY <1>1, <1>2
<1>3. ASSUME NEW a \in Actions, BackendApply(a)
      PROVE  PreexistingAccount'
  BY <1>1, <1>3 DEF BackendApply, target, TypeOK
<1>4. ASSUME NEW a \in Actions, BackendRollback(a)
      PROVE  PreexistingAccount'
  BY <1>1, <1>4 DEF BackendRollback, TypeOK
<1>5. CASE UNCHANGED undo /\ \E a \in Actions : blocked' = blocked \cup {PortOf[a]}
  BY <1>1, <1>5
<1>6. CASE UNCHANGED blocked /\ \E a \in Actions : undo' = [undo EXCEPT ![a] = "none"]
  BY <1>1, <1>6 DEF TypeOK
<1>7. CASE UNCHANGED blocked /\ undo' = [a \in Actions |-> "none"]
  BY <1>1, <1>7
<1> QED
  BY <1>2, <1>3, <1>4, <1>5, <1>6, <1>7, TargetSteps

(* No sequence of plans, calls, exceptions and crashes opens a port that   *)
(* was denied before the engine ran.                                       *)
THEOREM PreexistingSafe == Spec => []PreexistingDenySurvives
<1>1. Init => PreexistingAccount
  BY DEF Init, PreexistingAccount, PreexistingDenySurvives, Owners
<1>2. PreexistingAccount => PreexistingDenySurvives
  BY DEF PreexistingAccount
<1> QED
  BY <1>1, <1>2, TypeInit, TypeStep, PreexistingStep, PTL DEF Spec

LEMMA AccountStep ==
  ASSUME "apply" \notin Faults, "rollback" \notin Faults, ~MayCrash
  PROVE  TypeOK /\ UndoIsAnExactAccount /\ [Next]_vars => UndoIsAnExactAccount'
<1> SUFFICES ASSUME TypeOK, UndoIsAnExactAccount, [Next]_vars
             PROVE  UndoIsAnExactAccount'
  OBVIOUS
<1>1. UNCHANGED preexisting
  BY TargetSteps
<1>2. CASE UNCHANGED <<blocked, undo>>
  BY <1>1, <1>2 DEF UndoIsAnExactAccount, Owners
<1>3. ASSUME NEW a \in Actions, BackendApply(a)
      PROVE  UndoIsAnExactAccount'
  <2>1. CASE undo[a] # "none"
    BY <1>2, <1>3, <2>1 DEF BackendApply, target
  <2>2. CASE undo[a] = "none" /\ PortOf[a] \in blocked
    <3>1. UNCHANGED blocked /\ Owners' = Owners
      BY <1>3, <2>2 DEF BackendApply, Owners, TypeOK
    <3> QED
      BY <1>1, <3>1 DEF UndoIsAnExactAccount
  <2>3. CASE undo[a] = "none" /\ PortOf[a] \notin blocked
    <3>1. blocked' = blocked \cup {PortOf[a]} /\ Owners' = Owners \cup {a} /\ a \notin Owners
      BY <1>3, <2>3 DEF BackendApply, Owners, TypeOK
    <3>2. \A b \in Owners : PortOf[b] # PortOf[a]
      BY <2>3 DEF UndoIsAnExactAccount
    <3> QED
      BY <1>1, <2>3, <3>1, <3>2 DEF UndoIsAnExactAccount
  <2> QED
    BY <2>1, <2>2, <2>3
<1>4. ASSUME NEW a \in Actions, BackendRollback(a)
      PROVE  UndoIsAnExactAccount'
  <2>1. Owners' = Owners \ {a}
    BY <1>4 DEF BackendRollback, Owners, TypeOK
  <2>2. blocked' = IF a \in Owners THEN blocked \ {PortOf[a]} ELSE blocked
    BY <1>4 DEF BackendRollback, Owners
  <2> QED
    BY <1>1, <2>1, <2>2 DEF UndoIsAnExactAccount, Owners
<1> QED
  BY <1>2, <1>3, <1>4, TargetSteps

(* As long as no backend call raises and the process lives, the backend's  *)
(* undos account exactly for the difference between the target and what    *)
(* it denied before: for any number of plans, actions and ports, however   *)
(* actions share ports, and whatever the health gates answer.              *)
THEOREM ExactAccount ==
  ASSUME "apply" \notin Faults, "rollback" \notin Faults, ~MayCrash
  PROVE  Spec => []UndoIsAnExactAccount
<1>1. Init => UndoIsAnExactAccount
  BY DEF Init, UndoIsAnExactAccount, Owners
<1> QED
  BY <1>1, TypeInit, TypeStep, AccountStep, PTL DEF Spec

(***************************************************************************)
(* The call in progress.                                                   *)
(***************************************************************************)

(* Plans only change between calls, and the environment leaves the call    *)
(* and the target alone.                                                   *)
LEMMA QuietSteps ==
  ASSUME TypeOK,
         \/ Environment
         \/ UNCHANGED vars
         \/ \E p \in Plans :
              \/ \E k \in KeysInPlay, a \in Actions \cup {NoAction} : MakePlan(p, k, a)
              \/ OpenChangeRequest(p)
              \/ \E u \in Approvers : Approve(p, u)
  PROVE  /\ UNCHANGED <<blocked, undo, pc, call>>
         /\ pc # "idle" => UNCHANGED <<plan, audit>>
  BY DEF Environment, CabDecide, Tick, vars, target, MakePlan, OpenChangeRequest, Approve

LEMMA OrderStep == TypeOK /\ CallOrder /\ [Next]_vars => CallOrder'
<1> SUFFICES ASSUME TypeOK, CallOrder, [Next]_vars
             PROVE  CallOrder'
  OBVIOUS
<1> USE DEF CallOrder, Steps
<1>1. ASSUME NEW p \in Plans, NEW o \in BOOLEAN, NEW c \in BOOLEAN, NEW b \in BOOLEAN, Apply(p, o, c, b)
      PROVE  CallOrder'
  BY <1>1 DEF Apply, Deny, Return
<1>2. CASE EngineStep
  <2>1. call \in CallType
    BY <1>2, CallTyped
    DEF EngineStep, CheckWindow, CheckOverride, CheckRfc, ApplyRing, CheckHealth, RollbackRing,
        SyncRfc, CloseCall
  <2>2. CASE CheckWindow
    BY <2>1, <2>2 DEF CheckWindow, Deny, Return, AfterWindow, CallType
  <2>3. CASE CheckOverride \/ CheckRfc
    BY <2>3 DEF CheckOverride, CheckRfc, Deny, Return, AfterWindow, Goto
  <2>4. CASE CheckHealth
    BY <2>1, <2>4 DEF CheckHealth, Goto, AfterRollout, CallType
  <2>5. CASE RollbackRing
    BY <2>1, <2>5 DEF RollbackRing, Goto, CallType
  <2> QED
    BY <1>2, <2>2, <2>3, <2>4, <2>5 DEF EngineStep, ApplyRing, SyncRfc, CloseCall, Goto, Return
<1>3. CASE Fault
  BY <1>3 DEF Fault, RaiseInApply, RaiseInRollback, RaiseElsewhere, Crash, Return
<1> QED
  BY <1>1, <1>2, <1>3, QuietSteps DEF Next, Request

LEMMA FreshStep ==
  TypeOK /\ CallOrder /\ FreshCallAccount /\ [Next]_vars => FreshCallAccount'
<1> SUFFICES ASSUME TypeOK, CallOrder, FreshCallAccount, [Next]_vars
             PROVE  FreshCallAccount'
  OBVIOUS
<1> DEFINE a == ActionOf(call.plan)
<1>1. ASSUME NEW p \in Plans, NEW o \in BOOLEAN, NEW c \in BOOLEAN, NEW b \in BOOLEAN, Apply(p, o, c, b)
      PROVE  FreshCallAccount'
  <2>1. CASE Deny(p)
    BY <2>1 DEF Deny, Return, FreshCallAccount
  <2>2. CASE ~Deny(p)
    <3> DEFINE fresh == ActionOf(p) # NoAction /\ undo[ActionOf(p)] = "none"
    <3>0. /\ plan[p] \in PlanType /\ UNCHANGED <<plan, blocked, undo>> /\ pc' = "window"
          /\ call' = [plan |-> p, override |-> o, customHealth |-> c, backend |-> b,
                      ring |-> "canary", success |-> FALSE, outside |-> FALSE,
                      before |-> blocked, fresh |-> fresh]
      BY <1>1, <2>2 DEF Apply, TypeOK, target
    <3>1. /\ call'.plan = p /\ call'.before = blocked
          /\ call'.fresh => ActionOf(p) # NoAction /\ undo[ActionOf(p)] = "none"
      BY <3>0, Zenon
    <3> QED
      BY <3>0, <3>1 DEF FreshCallAccount, ActionOf, PlanType, Untouched
  <2> QED
    BY <2>1, <2>2
<1>2. CASE EngineStep
  <2>0. pc # "idle"
    BY <1>2
    DEF EngineStep, CheckWindow, CheckOverride, CheckRfc, ApplyRing, CheckHealth, RollbackRing,
        SyncRfc, CloseCall
  <2>1. call \in CallType /\ (UseBackend => a \in Actions)
    BY <2>0, CallTyped
  <2> USE DEF FreshCallAccount, ActionOf, UseBackend
  <2>2. CASE CheckWindow
    BY <2>1, <2>2 DEF CheckWindow, Deny, Return, AfterWindow, CallType, CallOrder, Untouched, target
  <2>3. CASE CheckOverride \/ CheckRfc
    BY <2>3 DEF CheckOverride, CheckRfc, Deny, Return, AfterWindow, Goto, CallOrder, Untouched, target
  <2>4. CASE ApplyRing
    <3>1. CASE ~UseBackend
      BY <2>4, <3>1 DEF ApplyRing, Goto, target
    <3>2. CASE UseBackend /\ call.fresh
      <4>1. Untouched(a) \/ InEffect(a)
        BY <2>0, <2>1, <2>4, <3>2 DEF ApplyRing, CallType, Rings
      <4>2. BackendApply(a) /\ UNCHANGED <<plan, call>> /\ pc' = "health"
        BY <2>4, <3>2 DEF ApplyRing, Goto
      <4>3. InEffect(a)'
        BY <2>1, <3>2, <4>1, <4>2 DEF BackendApply, Untouched, InEffect, TypeOK, target
      <4> QED
        BY <2>1, <3>2, <4>2, <4>3
    <3>3. CASE ~call.fresh
      BY <2>4, <3>3 DEF ApplyRing, Goto
    <3> QED
      BY <3>1, <3>2, <3>3
  <2>5. CASE CheckHealth
    BY <2>1, <2>5 DEF CheckHealth, Goto, AfterRollout, CallType, InEffect, target
  <2>6. CASE RollbackRing
    <3>1. CASE ~UseBackend
      BY <2>1, <2>6, <3>1 DEF RollbackRing, Goto, target, CallType
    <3>2. CASE UseBackend /\ call.fresh
      <4>1. Untouched(a) \/ InEffect(a)
        BY <2>0, <2>1, <2>6, <3>2 DEF RollbackRing
      <4>2. /\ BackendRollback(a) /\ UNCHANGED plan /\ pc' \in {"rollback", "close"}
            /\ call'.plan = call.plan /\ call'.before = call.before /\ call'.backend = call.backend
        BY <2>1, <2>6, <3>2 DEF RollbackRing, Goto, CallType
      <4>3. Untouched(a)'
        BY <2>1, <3>2, <4>1, <4>2 DEF BackendRollback, Untouched, InEffect, TypeOK
      <4> QED
        BY <2>1, <3>2, <4>2, <4>3
    <3>3. CASE ~call.fresh
      BY <2>1, <2>6, <3>3 DEF RollbackRing, Goto, CallType
    <3> QED
      BY <3>1, <3>2, <3>3
  <2>7. CASE SyncRfc \/ CloseCall
    BY <2>7 DEF SyncRfc, CloseCall, Return, Goto, CallOrder, target
  <2> QED
    BY <1>2, <2>2, <2>3, <2>4, <2>5, <2>6, <2>7 DEF EngineStep
<1>3. CASE Fault
  BY <1>3 DEF Fault, RaiseInApply, RaiseInRollback, RaiseElsewhere, Crash, Return, FreshCallAccount
<1>4. CASE UNCHANGED <<blocked, undo, pc, call>> /\ (pc # "idle" => UNCHANGED plan)
  BY <1>4 DEF FreshCallAccount, ActionOf, UseBackend, Untouched, InEffect
<1> QED
  BY <1>1, <1>2, <1>3, <1>4, QuietSteps DEF Next, Request

(* A call that began with its action not in effect and whose health gate   *)
(* failed, in either ring, ends with the target as it found it; exceptions *)
(* and crashes of other calls do not matter.                               *)
THEOREM FailedFirstApplySafe == Spec => []FailedFirstApplyRestores
<1>1. Init => CallOrder /\ FreshCallAccount
  BY DEF Init, CallOrder, FreshCallAccount, Steps
<1>2. TypeOK /\ FreshCallAccount => FailedFirstApplyRestores
  BY DEF FreshCallAccount, FailedFirstApplyRestores, Untouched
<1> QED
  BY <1>1, <1>2, TypeInit, TypeStep, OrderStep, FreshStep, PTL DEF Spec

(***************************************************************************)
(* Validation.                                                             *)
(***************************************************************************)

(* The undos in force and the denied ports.                                *)
LEMMA InPlaceTarget ==
  ASSUME TypeOK, InPlaceAccount, [Next]_vars
  PROVE  (\A a \in Actions : undo[a] # "none" /\ SolePort(a) => PortOf[a] \in blocked)'
<1> SUFFICES ASSUME NEW a \in Actions, undo'[a] # "none", SolePort(a)
             PROVE  PortOf[a] \in blocked'
  BY DEF SolePort
<1>0. undo[a] # "none" => PortOf[a] \in blocked
  BY DEF InPlaceAccount
<1>1. CASE UNCHANGED <<blocked, undo>>
  BY <1>0, <1>1
<1>2. ASSUME NEW b \in Actions, BackendApply(b)
      PROVE  PortOf[a] \in blocked'
  BY <1>0, <1>2 DEF BackendApply, target, TypeOK
<1>3. ASSUME NEW b \in Actions, BackendRollback(b)
      PROVE  PortOf[a] \in blocked'
  BY <1>0, <1>3 DEF BackendRollback, SolePort, TypeOK
<1>4. CASE UNCHANGED undo /\ \E b \in Actions : blocked' = blocked \cup {PortOf[b]}
  BY <1>0, <1>4
<1>5. CASE UNCHANGED blocked /\ \E b \in Actions : undo' = [undo EXCEPT ![b] = "none"]
  BY <1>0, <1>5 DEF TypeOK
<1>6. CASE UNCHANGED blocked /\ undo' = [b \in Actions |-> "none"]
  BY <1>6
<1> QED
  BY <1>1, <1>2, <1>3, <1>4, <1>5, <1>6, TargetSteps

LEMMA InPlaceStep ==
  TypeOK /\ CallOrder /\ InPlaceAccount /\ [Next]_vars => InPlaceAccount'
<1> SUFFICES ASSUME TypeOK, CallOrder, InPlaceAccount, [Next]_vars
             PROVE  InPlaceAccount'
  OBVIOUS
<1> DEFINE Rolled == pc \in {"health", "sync"} \/ (pc = "close" /\ call.success)
           a == ActionOf(call.plan)
<1> SUFFICES ASSUME Rolled', UseBackend'
             PROVE  (undo[a] # "none")'
  BY InPlaceTarget DEF InPlaceAccount
<1>1. CASE EngineStep
  <2>0. pc # "idle"
    BY <1>1
    DEF EngineStep, CheckWindow, CheckOverride, CheckRfc, ApplyRing, CheckHealth, RollbackRing,
        SyncRfc, CloseCall
  <2>1. call \in CallType /\ (UseBackend => a \in Actions)
    BY <2>0, CallTyped
  <2>2. CASE ApplyRing
    <3>1. UNCHANGED <<plan, call>> /\ UseBackend /\ BackendApply(a)
      BY <2>2 DEF ApplyRing, Goto, UseBackend, ActionOf
    <3>2. undo'[a] # "none"
      BY <2>1, <3>1 DEF BackendApply, target, TypeOK
    <3> QED
      BY <3>1, <3>2 DEF ActionOf
  <2>3. CASE CheckHealth \/ SyncRfc
    <3>1. /\ pc \in {"health", "sync"} /\ UNCHANGED <<plan, undo>>
          /\ call'.plan = call.plan /\ call'.backend = call.backend
      BY <2>1, <2>3 DEF CheckHealth, SyncRfc, Goto, CallType, target
    <3> QED
      BY <3>1 DEF InPlaceAccount, UseBackend, ActionOf
  <2>4. CASE CheckWindow \/ CheckOverride \/ CheckRfc \/ RollbackRing \/ CloseCall
    <3>1. ~Rolled'
      <4>1. CASE RollbackRing
        BY <2>1, <4>1 DEF RollbackRing, Goto, CallOrder, Steps
      <4>2. CASE ~RollbackRing
        BY <2>4, <4>2
        DEF CheckWindow, CheckOverride, CheckRfc, CloseCall, Goto, Deny, Return, AfterWindow
      <4> QED
        BY <4>1, <4>2
    <3> QED
      BY <3>1
  <2> QED
    BY <1>1, <2>2, <2>3, <2>4 DEF EngineStep
<1>2. CASE Fault
  BY <1>2 DEF Fault, RaiseInApply, RaiseInRollback, RaiseElsewhere, Crash, Return
<1>3. ASSUME NEW p \in Plans, NEW o \in BOOLEAN, NEW c \in BOOLEAN, NEW b \in BOOLEAN, Apply(p, o, c, b)
      PROVE  ~Rolled'
  BY <1>3 DEF Apply, Deny, Return
<1>4. CASE UNCHANGED <<blocked, undo, pc, call>> /\ (pc # "idle" => UNCHANGED plan)
  BY <1>4 DEF InPlaceAccount, ActionOf, UseBackend
<1> QED
  BY <1>1, <1>2, <1>3, <1>4, QuietSteps DEF Next, Request

(* A call that reports a validated fix leaves its port denied if no other  *)
(* action closes the same port: also when the health gate is a caller's    *)
(* and passes anything, and after exceptions and crashes of other calls.   *)
THEOREM ValidatedIsInEffect == Spec => []ValidatedMeansInEffectIfSole
<1>1. Init => CallOrder /\ InPlaceAccount
  BY DEF Init, CallOrder, InPlaceAccount, Steps
<1>2. TypeOK /\ InPlaceAccount => ValidatedMeansInEffectIfSole
  BY CallTyped DEF InPlaceAccount, ValidatedMeansInEffectIfSole, Validate
<1> QED
  BY <1>1, <1>2, TypeInit, TypeStep, OrderStep, InPlaceStep, PTL DEF Spec

(***************************************************************************)
(* The gates.                                                              *)
(***************************************************************************)

(* An entry the engine logs is a typed entry, so the log only grows.       *)
LEMMA AuditGrows ==
  ASSUME TypeOK, [Next]_vars
  PROVE  \A i \in DOMAIN audit : i \in DOMAIN audit' /\ audit'[i] = audit[i]
<1>1. ASSUME NEW e, Log(e)
      PROVE  \A i \in DOMAIN audit : i \in DOMAIN audit' /\ audit'[i] = audit[i]
  <2>1. audit \in Seq(EntryType \cup {e}) /\ e \in EntryType \cup {e}
    BY DEF TypeOK
  <2> QED
    BY <1>1, <2>1, AppendProperties DEF Log
<1>2. CASE UNCHANGED audit
  BY <1>2
<1>3. CASE Request
  BY <1>1, <1>2, <1>3 DEF Request, MakePlan, OpenChangeRequest, Approve, Apply, Deny
<1>4. CASE EngineStep
  BY <1>1, <1>2, <1>4
  DEF EngineStep, CheckWindow, CheckOverride, CheckRfc, ApplyRing, CheckHealth, RollbackRing,
      SyncRfc, CloseCall, Deny
<1>5. CASE Fault \/ Environment \/ UNCHANGED vars
  BY <1>2, <1>5
  DEF Fault, RaiseInApply, RaiseInRollback, RaiseElsewhere, Crash, Environment, CabDecide, Tick, vars
<1> QED
  BY <1>3, <1>4, <1>5 DEF Next

(* An approval on record stays on record.                                  *)
LEMMA RecordStays ==
  ASSUME TypeOK, [Next]_vars, NEW p, ApprovedOnRecord(p)
  PROVE  ApprovedOnRecord(p)'
  BY AuditGrows DEF ApprovedOnRecord

(* A change request's approval is never forgotten, and there is one behind *)
(* every approved state.                                                   *)
LEMMA RfcStep ==
  ASSUME TypeOK, [Next]_vars
  PROVE  \A r \in DOMAIN rfcs :
           /\ r \in DOMAIN rfcs'
           /\ rfcs[r].everApproved => rfcs'[r].everApproved
<1>1. CASE UNCHANGED rfcs
  BY <1>1
<1>2. ASSUME NEW p \in Plans, OpenChangeRequest(p)
      PROVE  \A r \in DOMAIN rfcs : r \in DOMAIN rfcs' /\ rfcs'[r] = rfcs[r]
  BY <1>2 DEF OpenChangeRequest, TypeOK
<1>3. ASSUME NEW q \in DOMAIN rfcs, NEW verdict \in {"approved", "rejected"}, CabDecide(q, verdict)
      PROVE  \A r \in DOMAIN rfcs : r \in DOMAIN rfcs' /\ (rfcs[r].everApproved => rfcs'[r].everApproved)
  BY <1>3 DEF CabDecide, TypeOK
<1>4. CASE SyncRfc
  <2> DEFINE n == plan[call.plan].rfc
             x == [rfcs[n] EXCEPT !.state = "implemented"]
  <2>1. rfcs' = [rfcs EXCEPT ![n] = x]
    BY <1>4 DEF SyncRfc
  <2>2. n \in DOMAIN rfcs => x.everApproved = rfcs[n].everApproved
    BY DEF TypeOK, RfcType
  <2> HIDE DEF n, x
  <2> QED
    BY <2>1, <2>2 DEF TypeOK
<1>5. CASE EngineStep /\ ~SyncRfc
  BY <1>1, <1>5
  DEF EngineStep, CheckWindow, CheckOverride, CheckRfc, ApplyRing, CheckHealth, RollbackRing, CloseCall
<1>6. CASE Fault \/ UNCHANGED vars
  BY <1>1, <1>6 DEF Fault, RaiseInApply, RaiseInRollback, RaiseElsewhere, Crash, vars
<1>7. CASE Request
  BY <1>1, <1>2, <1>7 DEF Request, MakePlan, Approve, Apply
<1>8. CASE Environment
  BY <1>1, <1>3, <1>8 DEF Environment, Tick
<1> QED
  BY <1>4, <1>5, <1>6, <1>7, <1>8 DEF Next

LEMMA EvidenceStep == TypeOK /\ EvidenceAccount /\ [Next]_vars => EvidenceAccount'
<1> SUFFICES ASSUME TypeOK, EvidenceAccount, [Next]_vars
             PROVE  EvidenceAccount'
  OBVIOUS
<1> DEFINE Approvals == \A p \in Plans : plan[p] # NoPlan /\ plan[p].approvedBy # NoOne => ApprovedOnRecord(p)
           Requests  == \A r \in DOMAIN rfcs : rfcs[r].state = "approved" => rfcs[r].everApproved
<1>1. UNCHANGED plan => Approvals'
  BY RecordStays DEF EvidenceAccount
<1>2. UNCHANGED rfcs => Requests'
  BY DEF EvidenceAccount
<1>3. ASSUME NEW p \in Plans, NEW k \in KeysInPlay, NEW a \in Actions \cup {NoAction}, MakePlan(p, k, a)
      PROVE  EvidenceAccount'
  <2>1. \A q \in Plans : plan'[q] # NoPlan /\ plan'[q].approvedBy # NoOne => plan'[q] = plan[q]
    BY <1>3 DEF MakePlan, TypeOK
  <2>2. Approvals'
    BY <2>1, RecordStays DEF EvidenceAccount
  <2> QED
    BY <1>3, <2>2 DEF EvidenceAccount, MakePlan
<1>4. ASSUME NEW p \in Plans, OpenChangeRequest(p)
      PROVE  EvidenceAccount'
  <2>1. plan[p] \in PlanType
    BY <1>4 DEF OpenChangeRequest, TypeOK
  <2>2. \A q \in Plans : plan'[q] # NoPlan /\ plan'[q].approvedBy # NoOne
                         => plan[q] # NoPlan /\ plan[q].approvedBy # NoOne
    BY <1>4, <2>1 DEF OpenChangeRequest, TypeOK, PlanType
  <2>3. Approvals'
    BY <2>2, RecordStays DEF EvidenceAccount
  <2>4. Requests'
    BY <1>4 DEF OpenChangeRequest, TypeOK, EvidenceAccount
  <2> QED
    BY <2>3, <2>4 DEF EvidenceAccount
<1>5. ASSUME NEW p \in Plans, NEW u \in Approvers, Approve(p, u)
      PROVE  EvidenceAccount'
  <2> DEFINE e == [Entry("remediation.approved", p) EXCEPT !.by = u]
  <2>1. e \in EntryType /\ e.event = "remediation.approved" /\ e.plan = p /\ e.by = u
    BY <1>5, EntryTyped DEF Approve, Events, EntryType
  <2>2. ApprovedOnRecord(p)'
    BY <1>5, <2>1, LogTyped DEF Approve, ApprovedOnRecord
  <2>3. \A q \in Plans \ {p} : plan'[q] = plan[q]
    BY <1>5 DEF Approve, TypeOK
  <2>4. Approvals'
    BY <2>2, <2>3, RecordStays DEF EvidenceAccount
  <2> QED
    BY <1>5, <2>4 DEF EvidenceAccount, Approve
<1>6. ASSUME NEW r \in DOMAIN rfcs, NEW verdict \in {"approved", "rejected"}, CabDecide(r, verdict)
      PROVE  EvidenceAccount'
  <2>1. Requests'
    BY <1>6 DEF CabDecide, TypeOK, EvidenceAccount
  <2> QED
    BY <1>1, <1>6, <2>1 DEF EvidenceAccount, CabDecide
<1>7. CASE SyncRfc
  <2> DEFINE n == plan[call.plan].rfc
             x == [rfcs[n] EXCEPT !.state = "implemented"]
  <2>1. rfcs' = [rfcs EXCEPT ![n] = x]
    BY <1>7 DEF SyncRfc
  <2>2. n \in DOMAIN rfcs => x.state = "implemented"
    BY DEF TypeOK, RfcType
  <2> HIDE DEF n, x
  <2>3. Requests'
    BY <2>1, <2>2 DEF TypeOK, EvidenceAccount
  <2> QED
    BY <1>1, <1>7, <2>3 DEF EvidenceAccount, SyncRfc
<1>8. CASE Crash
  <2>1. Approvals'
    BY <1>8 DEF Crash
  <2> QED
    BY <1>8, <2>1 DEF EvidenceAccount, Crash
<1>9. CASE UNCHANGED <<plan, rfcs>>
  BY <1>9, RecordStays DEF EvidenceAccount
<1>10. CASE EngineStep /\ ~SyncRfc
  BY <1>9, <1>10
  DEF EngineStep, CheckWindow, CheckOverride, CheckRfc, ApplyRing, CheckHealth, RollbackRing, CloseCall
<1>11. CASE Fault /\ ~Crash
  BY <1>9, <1>11 DEF Fault, RaiseInApply, RaiseInRollback, RaiseElsewhere
<1>12. ASSUME NEW p \in Plans, NEW o \in BOOLEAN, NEW c \in BOOLEAN, NEW b \in BOOLEAN, Apply(p, o, c, b)
       PROVE  EvidenceAccount'
  BY <1>9, <1>12 DEF Apply
<1>13. CASE Tick \/ UNCHANGED vars
  BY <1>9, <1>13 DEF Tick, vars
<1> QED
  BY <1>3, <1>4, <1>5, <1>6, <1>7, <1>8, <1>10, <1>11, <1>12, <1>13 DEF Next, Request, Environment, Fault

LEMMA GateStep ==
  TypeOK /\ EvidenceAccount /\ GateAccount /\ [Next]_vars => GateAccount'
<1> SUFFICES ASSUME TypeOK, EvidenceAccount, GateAccount, [Next]_vars
             PROVE  GateAccount'
  OBVIOUS
<1>1. ASSUME NEW p \in Plans, NEW o \in BOOLEAN, NEW c \in BOOLEAN, NEW b \in BOOLEAN, Apply(p, o, c, b)
      PROVE  GateAccount'
  <2>1. CASE Deny(p)
    BY <2>1 DEF Deny, Return, GateAccount
  <2>2. CASE ~Deny(p)
    <3>1. /\ GatesOneAndTwo(p) /\ plan[p] # NoPlan
          /\ UNCHANGED plan /\ pc' = "window" /\ call'.plan = p /\ ~call'.outside
      BY <1>1, <2>2 DEF Apply
    <3>2. DecisionOf(p).requiresApproval => ApprovedOnRecord(p)'
      BY <3>1, RecordStays DEF GatesOneAndTwo, EvidenceAccount
    <3> QED
      BY <3>1, <3>2 DEF GateAccount, GatesOneAndTwo, DecisionOf, WindowRespected
  <2> QED
    BY <2>1, <2>2
<1>2. ASSUME pc # "idle", UNCHANGED plan, pc' # "idle", call'.plan = call.plan,
             WindowRespected => WindowRespected',
             UseItsm /\ pc' \in {"apply", "health", "rollback"} =>
               \/ pc \in {"apply", "health", "rollback"}
               \/ plan[call.plan].rfc # 0 /\ rfcs[plan[call.plan].rfc].everApproved
      PROVE  GateAccount'
  <2> DEFINE p == call.plan
  <2>1. plan[p] \in PlanType /\ (plan[p].rfc # 0 => plan[p].rfc \in DOMAIN rfcs)
    BY <1>2, CallTyped DEF TypeOK, PlanType
  <2>2. DecisionOf(p).requiresApproval => ApprovedOnRecord(p)'
    BY <1>2, RecordStays DEF GateAccount
  <2>3. plan[p].rfc # 0 /\ rfcs[plan[p].rfc].everApproved => rfcs'[plan[p].rfc].everApproved
    BY <2>1, RfcStep
  <2> QED
    BY <1>2, <2>2, <2>3 DEF GateAccount, DecisionOf
<1>3. CASE EngineStep
  <2>0. pc # "idle"
    BY <1>3
    DEF EngineStep, CheckWindow, CheckOverride, CheckRfc, ApplyRing, CheckHealth, RollbackRing,
        SyncRfc, CloseCall
  <2>1. call \in CallType
    BY <2>0, CallTyped
  <2>2. CASE pc' = "idle"
    BY <2>2 DEF GateAccount
  <2> SUFFICES ASSUME pc' # "idle"
               PROVE  GateAccount'
    BY <2>2
  <2>3. CASE CheckWindow
    BY <1>2, <2>0, <2>1, <2>3 DEF CheckWindow, Deny, Return, AfterWindow, CallType, WindowRespected
  <2>4. CASE CheckOverride
    BY <1>2, <2>0, <2>4 DEF CheckOverride, Goto, AfterWindow, WindowRespected
  <2>5. CASE CheckRfc
    <3>1. RfcApproved(call.plan) /\ plan[call.plan].rfc \in DOMAIN rfcs
      BY <2>0, <2>5, CallTyped DEF CheckRfc, Deny, Return, RfcApproved, TypeOK, PlanType
    <3>2. rfcs[plan[call.plan].rfc].everApproved
      BY <3>1 DEF RfcApproved, EvidenceAccount
    <3> QED
      BY <1>2, <2>0, <2>5, <3>1, <3>2 DEF CheckRfc, Goto, Deny, Return, RfcApproved, WindowRespected
  <2>6. CASE ApplyRing
    BY <1>2, <2>0, <2>6 DEF ApplyRing, Goto, WindowRespected
  <2>7. CASE CheckHealth
    BY <1>2, <2>0, <2>1, <2>7 DEF CheckHealth, Goto, AfterRollout, CallType, WindowRespected
  <2>8. CASE RollbackRing
    BY <1>2, <2>0, <2>1, <2>8 DEF RollbackRing, Goto, CallType, WindowRespected
  <2>9. CASE SyncRfc
    BY <1>2, <2>0, <2>9 DEF SyncRfc, Goto, WindowRespected
  <2> QED
    BY <1>3, <2>3, <2>4, <2>5, <2>6, <2>7, <2>8, <2>9 DEF EngineStep, CloseCall, Return
<1>4. CASE Fault
  BY <1>4 DEF Fault, RaiseInApply, RaiseInRollback, RaiseElsewhere, Crash, Return, GateAccount
<1>5. CASE UNCHANGED <<pc, call>> /\ (pc # "idle" => UNCHANGED plan)
  BY <1>2, <1>5 DEF GateAccount, WindowRespected
<1> QED
  BY <1>1, <1>3, <1>4, <1>5, QuietSteps DEF Next, Request

(* Every change of the target is made by a call that all the gates let     *)
(* through: the mode automatable, an approval by somebody other than the   *)
(* scanner on record where one is required, a change window open or an     *)
(* override given, and a change request that was approved where an ITSM    *)
(* connector is configured.                                                *)
THEOREM ChangesAreGoverned == Spec => EveryChangeIsGoverned
<1>1. Init => EvidenceAccount /\ GateAccount
  BY DEF Init, EvidenceAccount, GateAccount
<1>2. TypeOK /\ GateAccount /\ [Next]_vars =>
        (blocked' # blocked => pc # "idle" /\ Governed(call.plan) /\ WindowRespected)
  <2> SUFFICES ASSUME TypeOK, GateAccount, [Next]_vars, blocked' # blocked
               PROVE  pc # "idle" /\ Governed(call.plan) /\ WindowRespected
    OBVIOUS
  <2>1. pc \in {"apply", "rollback"}
    <3>1. CASE Request
      BY <3>1 DEF Request, MakePlan, OpenChangeRequest, Approve, Apply, target
    <3>2. CASE EngineStep
      BY <3>2
      DEF EngineStep, CheckWindow, CheckOverride, CheckRfc, ApplyRing, CheckHealth, RollbackRing,
          SyncRfc, CloseCall, target
    <3>3. CASE Fault
      BY <3>3 DEF Fault, RaiseInApply, RaiseInRollback, RaiseElsewhere, Crash, target
    <3>4. CASE Environment \/ UNCHANGED vars
      BY <3>4 DEF Environment, CabDecide, Tick, target, vars
    <3> QED
      BY <3>1, <3>2, <3>3, <3>4 DEF Next
  <2> QED
    BY <2>1 DEF GateAccount, Governed
<1> QED
  BY <1>1, <1>2, TypeInit, TypeStep, EvidenceStep, GateStep, PTL DEF Spec, EveryChangeIsGoverned

(***************************************************************************)
(* The log as an account of the calls, while no call raises and the        *)
(* process lives.                                                          *)
(***************************************************************************)

LEMMA NoFault ==
  ASSUME Faults = {}, ~MayCrash
  PROVE  ~Fault
  BY DEF Fault, RaiseInApply, RaiseInRollback, RaiseElsewhere, Crash

(* The closing record of a call.                                           *)
LEMMA CloseLogs ==
  ASSUME TypeOK, CloseCall
  PROVE  \E e \in EntryType :
           /\ Log(e)
           /\ e.event = IF call.success THEN "remediation.applied" ELSE "remediation.rollback_completed"
           /\ e.event \in Closing
           /\ e.action = ActionOf(call.plan)
<1> DEFINE p == call.plan
           event == IF call.success THEN "remediation.applied" ELSE "remediation.rollback_completed"
           validated == call.success /\ UseBackend
           x == Entry(event, p)
           e == [x EXCEPT !.by = plan[p].approvedBy, !.validated = validated]
<1>1. call \in CallType /\ p \in Plans /\ plan[p] # NoPlan /\ plan[p] \in PlanType
  BY CallTyped DEF CloseCall
<1>2. event \in Events /\ event \in Closing
  BY DEF Events, Closing
<1>3. validated \in BOOLEAN /\ plan[p].approvedBy \in Approvers \cup {NoOne}
  BY <1>1 DEF UseBackend, CallType, PlanType
<1>4. Log(e)
  BY DEF CloseCall
<1>5. x \in EntryType /\ x.event = event
  BY <1>1, <1>2, EntryTyped
<1>6. x.action = ActionOf(p)
  BY DEF Entry, ActionOf
<1> HIDE DEF validated, x
<1>7. e \in EntryType /\ e.event = event /\ e.action = ActionOf(p)
  BY <1>3, <1>5, <1>6 DEF EntryType
<1> QED
  BY <1>2, <1>4, <1>7

ClosingAt == {i \in DOMAIN audit : audit[i].event \in Closing}

(* A closing record counts for one, any other for none.                    *)
LEMMA ClosingCount ==
  ASSUME TypeOK, NEW e \in EntryType, Log(e)
  PROVE  /\ Cardinality(ClosingAt) \in Nat
         /\ Cardinality(ClosingAt') = Cardinality(ClosingAt) + IF e.event \in Closing THEN 1 ELSE 0
<1>1. audit \in Seq(EntryType) /\ Len(audit) \in Nat /\ DOMAIN audit = 1 .. Len(audit)
  BY DEF TypeOK
<1>2. IsFiniteSet(ClosingAt)
  <2>1. IsFiniteSet(1 .. Len(audit))
    BY <1>1, FS_Interval
  <2>2. ClosingAt \subseteq 1 .. Len(audit)
    BY <1>1 DEF ClosingAt
  <2> QED
    BY <2>1, <2>2, FS_Subset
<1>3. Len(audit) + 1 \notin ClosingAt
  BY <1>1 DEF ClosingAt
<1>4. /\ DOMAIN audit' = DOMAIN audit \cup {Len(audit) + 1}
      /\ \A i \in DOMAIN audit : audit'[i] = audit[i]
      /\ audit'[Len(audit) + 1] = e
  BY <1>1 DEF Log
<1>5. CASE e.event \in Closing
  <2>1. ClosingAt' = ClosingAt \cup {Len(audit) + 1}
    BY <1>1, <1>4, <1>5 DEF ClosingAt
  <2> QED
    BY <1>2, <1>3, <1>5, <2>1, FS_AddElement, FS_CardinalityType
<1>6. CASE e.event \notin Closing
  <2>1. ClosingAt' = ClosingAt
    BY <1>1, <1>4, <1>6 DEF ClosingAt
  <2> QED
    BY <1>2, <1>6, <2>1, FS_CardinalityType
<1> QED
  BY <1>5, <1>6

(* What a step does to the log, to the number of calls and to whether a    *)
(* call is in progress.                                                    *)
LEMMA ClosingSteps ==
  ASSUME TypeOK, [Next]_vars, Faults = {}, ~MayCrash
  PROVE  \/ UNCHANGED <<audit, calls>> /\ (pc' = "idle" <=> pc = "idle")
         \/ \E e \in EntryType :
              /\ Log(e) /\ e.event \notin Closing
              /\ UNCHANGED calls /\ (pc' = "idle" <=> pc = "idle")
         \/ \E e \in EntryType :
              /\ Log(e) /\ e.event \in Closing /\ pc' = "idle"
              /\ calls' = calls + IF pc = "idle" THEN 1 ELSE 0
         \/ UNCHANGED audit /\ calls' = calls + 1 /\ pc = "idle" /\ pc' # "idle"
<1> DEFINE p == call.plan
<1>0. calls + 0 = calls
  BY DEF TypeOK
<1>d. ASSUME NEW q \in Plans, plan[q] # NoPlan, Deny(q)
      PROVE  \E e \in EntryType : Log(e) /\ e.event \in Closing /\ pc' = "idle"
  BY <1>d, EntryTyped DEF Deny, Return, Closing, Events
<1>1. ASSUME NEW q \in Plans, OpenChangeRequest(q)
      PROVE  \E e \in EntryType : Log(e) /\ e.event \notin Closing
  <2> DEFINE e == [Entry("change.rfc_created", q) EXCEPT !.rfc = Len(rfcs) + 1]
  <2>1. Len(rfcs) + 1 \in Nat /\ plan[q] # NoPlan
    BY <1>1 DEF OpenChangeRequest, TypeOK
  <2>2. e \in EntryType /\ e.event = "change.rfc_created"
    BY <2>1, EntryTyped DEF Events, EntryType
  <2> QED
    BY <1>1, <2>2 DEF OpenChangeRequest, Closing
<1>2. ASSUME NEW q \in Plans, NEW u \in Approvers, Approve(q, u)
      PROVE  \E e \in EntryType : Log(e) /\ e.event \notin Closing
  <2> DEFINE e == [Entry("remediation.approved", q) EXCEPT !.by = u]
  <2>1. e \in EntryType /\ e.event = "remediation.approved"
    BY <1>2, EntryTyped DEF Approve, Events, EntryType
  <2> QED
    BY <1>2, <2>1 DEF Approve, Closing
<1>3. CASE Request
  BY <1>0, <1>1, <1>2, <1>3, <1>d DEF Request, MakePlan, OpenChangeRequest, Approve, Apply
<1>4. CASE EngineStep
  <2>0. pc # "idle"
    BY <1>4
    DEF EngineStep, CheckWindow, CheckOverride, CheckRfc, ApplyRing, CheckHealth, RollbackRing,
        SyncRfc, CloseCall
  <2>1. call \in CallType /\ p \in Plans /\ plan[p] # NoPlan /\ plan[p] \in PlanType
    BY <2>0, CallTyped
  <2>2. CASE CheckWindow
    BY <1>0, <2>0, <2>1, <2>2, <1>d DEF CheckWindow, AfterWindow
  <2>3. CASE CheckOverride
    BY <2>0, <2>1, <2>3, EntryTyped DEF CheckOverride, Goto, AfterWindow, Closing, Events
  <2>4. CASE CheckRfc
    BY <1>0, <2>0, <2>1, <2>4, <1>d DEF CheckRfc, Goto
  <2>5. CASE ApplyRing \/ CheckHealth \/ SyncRfc
    BY <2>0, <2>5 DEF ApplyRing, CheckHealth, SyncRfc, Goto, AfterRollout
  <2>6. CASE RollbackRing
    <3> DEFINE e == [Entry("remediation.rolled_back", p) EXCEPT !.ring = call.ring]
    <3>1. e \in EntryType /\ e.event = "remediation.rolled_back"
      BY <2>1, EntryTyped DEF Events, EntryType, CallType
    <3> QED
      BY <2>0, <2>6, <3>1 DEF RollbackRing, Goto, Closing
  <2>7. CASE CloseCall
    <3>1. PICK e \in EntryType : Log(e) /\ e.event \in Closing
      BY <2>1, <2>7, CloseLogs
    <3> QED
      BY <1>0, <2>0, <2>7, <3>1 DEF CloseCall, Return
  <2> QED
    BY <1>4, <2>2, <2>3, <2>4, <2>5, <2>6, <2>7 DEF EngineStep
<1>5. CASE Environment \/ UNCHANGED vars
  BY <1>5 DEF Environment, CabDecide, Tick, vars
<1> QED
  BY <1>3, <1>4, <1>5, NoFault DEF Next

LEMMA ClosedOnceStep ==
  ASSUME Faults = {}, ~MayCrash
  PROVE  TypeOK /\ EveryCallIsClosedOnce /\ [Next]_vars => EveryCallIsClosedOnce'
<1> SUFFICES ASSUME TypeOK, EveryCallIsClosedOnce, [Next]_vars
             PROVE  EveryCallIsClosedOnce'
  OBVIOUS
<1> DEFINE Running == IF pc = "idle" THEN 0 ELSE 1
<1>1. Cardinality(ClosingAt) = calls - Running /\ calls \in Nat
  BY DEF EveryCallIsClosedOnce, ClosingAt, TypeOK
<1> SUFFICES Cardinality(ClosingAt') = calls' - Running'
  BY DEF EveryCallIsClosedOnce, ClosingAt
<1>2. UNCHANGED audit => ClosingAt' = ClosingAt
  BY DEF ClosingAt
<1>3. CASE UNCHANGED <<audit, calls>> /\ (pc' = "idle" <=> pc = "idle")
  BY <1>1, <1>2, <1>3
<1>4. ASSUME NEW e \in EntryType, Log(e), e.event \notin Closing,
             UNCHANGED calls /\ (pc' = "idle" <=> pc = "idle")
      PROVE  Cardinality(ClosingAt') = calls' - Running'
  BY <1>1, <1>4, ClosingCount
<1>5. ASSUME NEW e \in EntryType, Log(e), e.event \in Closing, pc' = "idle",
             calls' = calls + IF pc = "idle" THEN 1 ELSE 0
      PROVE  Cardinality(ClosingAt') = calls' - Running'
  BY <1>1, <1>5, ClosingCount
<1>6. CASE UNCHANGED audit /\ calls' = calls + 1 /\ pc = "idle" /\ pc' # "idle"
  BY <1>1, <1>2, <1>6
<1> QED
  BY <1>3, <1>4, <1>5, <1>6, ClosingSteps

(* Whose change is vouched for.                                            *)
LEMMA OwnersStep ==
  ASSUME Faults = {}, ~MayCrash
  PROVE  TypeOK /\ CallOrder /\ OwnersAreTold /\ [Next]_vars => OwnersAreTold'
<1> SUFFICES ASSUME TypeOK, CallOrder, OwnersAreTold, [Next]_vars,
                    NEW a \in Actions, undo'[a] = "was_open"
             PROVE  AppliedOnRecord(a)' \/ Carries(a)'
  BY DEF OwnersAreTold, Owners
<1>1. AppliedOnRecord(a) => AppliedOnRecord(a)'
  BY AuditGrows DEF AppliedOnRecord
<1>2. undo[a] = "was_open" => AppliedOnRecord(a) \/ Carries(a)
  BY DEF OwnersAreTold, Owners
<1>3. CASE EngineStep
  <2>0. pc # "idle"
    BY <1>3
    DEF EngineStep, CheckWindow, CheckOverride, CheckRfc, ApplyRing, CheckHealth, RollbackRing,
        SyncRfc, CloseCall
  <2>1. call \in CallType /\ (UseBackend => ActionOf(call.plan) \in Actions)
    BY <2>0, CallTyped
  <2>2. CASE CheckWindow \/ CheckOverride \/ CheckRfc
    BY <1>1, <1>2, <2>2 DEF CheckWindow, CheckOverride, CheckRfc, target, Carries
  <2>3. CASE ApplyRing
    <3>1. UNCHANGED <<plan, call>> /\ pc = "apply" /\ pc' = "health"
      BY <2>3 DEF ApplyRing, Goto
    <3>2. undo[a] = "was_open" \/ (UseBackend /\ ActionOf(call.plan) = a)
      BY <2>1, <2>3 DEF ApplyRing, BackendApply, target, TypeOK
    <3>3. UseBackend /\ ActionOf(call.plan) = a => Carries(a)'
      BY <3>1 DEF Carries, UseBackend, ActionOf
    <3> QED
      BY <1>1, <1>2, <3>2, <3>3 DEF Carries
  <2>4. CASE CheckHealth \/ SyncRfc
    <3>1. /\ UNCHANGED <<plan, undo>> /\ call'.plan = call.plan /\ call'.backend = call.backend
          /\ pc' \in {"apply", "rollback", "sync"} \/ (pc' = "close" /\ call'.success)
      BY <2>1, <2>4 DEF CheckHealth, SyncRfc, Goto, CallType, AfterRollout, CallOrder, target
    <3> QED
      BY <1>1, <1>2, <3>1 DEF Carries, UseBackend, ActionOf
  <2>5. CASE RollbackRing
    <3>1. /\ UNCHANGED plan /\ undo[a] = "was_open"
          /\ ~(UseBackend /\ ActionOf(call.plan) = a)
      BY <2>1, <2>5 DEF RollbackRing, BackendRollback, target, TypeOK
    <3> QED
      BY <1>1, <1>2, <3>1 DEF Carries
  <2>6. CASE CloseCall
    <3>1. undo[a] = "was_open"
      BY <2>6 DEF CloseCall, target
    <3>2. CASE Carries(a)
      <4>1. call.success /\ ActionOf(call.plan) = a
        BY <2>6, <3>2 DEF CloseCall, Carries
      <4>2. PICK e \in EntryType : Log(e) /\ e.event = "remediation.applied" /\ e.action = a
        BY <2>6, <4>1, CloseLogs
      <4> QED
        BY <4>2, LogTyped DEF AppliedOnRecord
    <3> QED
      BY <1>1, <1>2, <3>1, <3>2
  <2> QED
    BY <1>3, <2>2, <2>3, <2>4, <2>5, <2>6 DEF EngineStep
<1>4. ASSUME NEW p \in Plans, NEW o \in BOOLEAN, NEW c \in BOOLEAN, NEW b \in BOOLEAN, Apply(p, o, c, b)
      PROVE  AppliedOnRecord(a)'
  BY <1>1, <1>2, <1>4 DEF Apply, Carries, target
<1>5. CASE UNCHANGED <<blocked, undo, pc, call>> /\ (pc # "idle" => UNCHANGED plan)
  BY <1>1, <1>2, <1>5 DEF Carries, ActionOf, UseBackend
<1> QED
  BY <1>3, <1>4, <1>5, NoFault, QuietSteps DEF Next, Request

(* What rolling a ring back leaves in the log.                             *)
LEMMA RollbackLogs ==
  ASSUME TypeOK, RollbackRing
  PROVE  \E e \in EntryType :
           Log(e) /\ e.event = "remediation.rolled_back" /\ e.ring = call.ring
<1> DEFINE x == Entry("remediation.rolled_back", call.plan)
           e == [x EXCEPT !.ring = call.ring]
<1>1. call.plan \in Plans /\ plan[call.plan] # NoPlan /\ call.ring \in Rings
  BY CallTyped DEF RollbackRing, CallType
<1>2. x \in EntryType /\ x.event = "remediation.rolled_back"
  BY <1>1, EntryTyped DEF Events
<1>3. Log(e)
  BY DEF RollbackRing
<1> HIDE DEF x
<1>4. e \in EntryType /\ e.event = "remediation.rolled_back" /\ e.ring = call.ring
  BY <1>1, <1>2 DEF EntryType
<1> QED
  BY <1>3, <1>4

LEMMA RolledBackStep ==
  ASSUME Faults = {}, ~MayCrash
  PROVE  TypeOK /\ CallOrder /\ FailedCallIsRolledBack /\ [Next]_vars => FailedCallIsRolledBack'
<1> SUFFICES ASSUME TypeOK, CallOrder, FailedCallIsRolledBack, [Next]_vars,
                    pc' = "close", ~call'.success
             PROVE  /\ (UseBackend => undo[ActionOf(call.plan)] = "none")'
                    /\ (/\ audit # <<>>
                        /\ audit[Len(audit)].event = "remediation.rolled_back"
                        /\ audit[Len(audit)].ring = "canary")'
  BY DEF FailedCallIsRolledBack
<1>1. CASE EngineStep
  <2>0. pc # "idle"
    BY <1>1
    DEF EngineStep, CheckWindow, CheckOverride, CheckRfc, ApplyRing, CheckHealth, RollbackRing,
        SyncRfc, CloseCall
  <2>1. call \in CallType /\ (UseBackend => ActionOf(call.plan) \in Actions)
    BY <2>0, CallTyped
  <2>2. RollbackRing
    BY <1>1, <2>1
    DEF EngineStep, CheckWindow, CheckOverride, CheckRfc, ApplyRing, CheckHealth, SyncRfc, CloseCall,
        Goto, Deny, Return, AfterWindow, AfterRollout, CallType, CallOrder
  <2>3. UNCHANGED <<plan, call>> /\ call.ring = "canary"
    BY <2>1, <2>2 DEF RollbackRing, Goto, CallType, Rings
  <2>4. UseBackend => undo'[ActionOf(call.plan)] = "none"
    BY <2>1, <2>2 DEF RollbackRing, BackendRollback, TypeOK
  <2>5. PICK e \in EntryType : Log(e) /\ e.event = "remediation.rolled_back" /\ e.ring = "canary"
    BY <2>2, <2>3, RollbackLogs
  <2>6. audit' # <<>> /\ audit'[Len(audit')] = e
    BY <2>5, LogTyped DEF TypeOK
  <2> QED
    BY <2>3, <2>4, <2>5, <2>6 DEF UseBackend, ActionOf
<1>2. ASSUME NEW p \in Plans, NEW o \in BOOLEAN, NEW c \in BOOLEAN, NEW b \in BOOLEAN, Apply(p, o, c, b)
      PROVE  FALSE
  BY <1>2 DEF Apply, Deny, Return
<1>3. CASE UNCHANGED <<blocked, undo, pc, call>> /\ (pc # "idle" => UNCHANGED <<plan, audit>>)
  BY <1>3 DEF FailedCallIsRolledBack, ActionOf, UseBackend
<1> QED
  BY <1>1, <1>2, <1>3, NoFault, QuietSteps DEF Next, Request

(* A record that fits behind the last one keeps the telling in order.      *)
IsRing(e, ring) == e.event = "remediation.rolled_back" /\ e.ring = ring

LEMMA ToldAppend ==
  ASSUME TypeOK, RollbackIsToldInOrder, NEW e \in EntryType, Log(e),
         pc = "rollback" /\ call.ring = "canary" => IsRing(e, "canary"),
         e.event = "remediation.rollback_completed" =>
           audit # <<>> /\ IsRing(audit[Len(audit)], "canary"),
         IsRing(e, "fleet") => pc' = "rollback" /\ call'.ring = "canary"
  PROVE  RollbackIsToldInOrder'
<1>1. PICK n \in Nat : n = Len(audit)
  BY DEF TypeOK
<1>2. /\ DOMAIN audit = 1 .. n /\ DOMAIN audit' = 1 .. n + 1 /\ Len(audit') = n + 1
      /\ \A i \in 1 .. n : audit'[i] = audit[i]
      /\ audit'[n + 1] = e
  BY <1>1 DEF TypeOK, Log
<1> SUFFICES ASSUME NEW i \in 1 .. n + 1
             PROVE  /\ audit'[i].event = "remediation.rollback_completed" =>
                         i > 1 /\ IsRing(audit'[i - 1], "canary")
                    /\ IsRing(audit'[i], "fleet") =>
                         IF i = n + 1 THEN pc' = "rollback" /\ call'.ring = "canary"
                         ELSE IsRing(audit'[i + 1], "canary")
  BY <1>2 DEF RollbackIsToldInOrder, IsRing
<1>3. CASE i = n + 1
  <2>1. audit # <<>> => n >= 1 /\ n \in 1 .. n
    BY <1>1 DEF TypeOK
  <2> QED
    BY <1>1, <1>2, <1>3, <2>1
<1>4. CASE i \in 1 .. n
  <2>1. /\ audit[i].event = "remediation.rollback_completed" =>
             i > 1 /\ IsRing(audit[i - 1], "canary")
        /\ IsRing(audit[i], "fleet") =>
             IF i = n THEN pc = "rollback" /\ call.ring = "canary"
             ELSE IsRing(audit[i + 1], "canary")
    BY <1>1, <1>2, <1>4 DEF RollbackIsToldInOrder, IsRing
  <2>2. audit'[i] = audit[i] /\ i # n + 1
    BY <1>2, <1>4
  <2>3. i > 1 => audit'[i - 1] = audit[i - 1]
    BY <1>2, <1>4
  <2>4. IF i = n THEN audit'[i + 1] = e ELSE audit'[i + 1] = audit[i + 1]
    BY <1>2, <1>4
  <2> QED
    BY <2>1, <2>2, <2>3, <2>4
<1> QED
  BY <1>3, <1>4

LEMMA ToldStep ==
  ASSUME Faults = {}, ~MayCrash
  PROVE  TypeOK /\ FailedCallIsRolledBack /\ RollbackIsToldInOrder /\ [Next]_vars
           => RollbackIsToldInOrder'
<1> SUFFICES ASSUME TypeOK, FailedCallIsRolledBack, RollbackIsToldInOrder, [Next]_vars
             PROVE  RollbackIsToldInOrder'
  OBVIOUS
<1> DEFINE Plain(e) == e.event \notin {"remediation.rolled_back", "remediation.rollback_completed"}
           Midway == pc = "rollback" /\ call.ring = "canary"
<1>1. ASSUME UNCHANGED audit, Midway => Midway'
      PROVE  RollbackIsToldInOrder'
  BY <1>1 DEF RollbackIsToldInOrder
<1>2. ASSUME pc # "rollback", NEW e \in EntryType, Log(e), Plain(e)
      PROVE  RollbackIsToldInOrder'
  BY <1>2, ToldAppend DEF IsRing
<1>d. ASSUME pc # "rollback", NEW q \in Plans, plan[q] # NoPlan, Deny(q)
      PROVE  RollbackIsToldInOrder'
  BY <1>2, <1>d, EntryTyped DEF Deny, Events
<1>3. ASSUME NEW q \in Plans, OpenChangeRequest(q)
      PROVE  RollbackIsToldInOrder'
  <2> DEFINE e == [Entry("change.rfc_created", q) EXCEPT !.rfc = Len(rfcs) + 1]
  <2>1. Len(rfcs) + 1 \in Nat /\ plan[q] # NoPlan
    BY <1>3 DEF OpenChangeRequest, TypeOK
  <2>2. e \in EntryType /\ e.event = "change.rfc_created"
    BY <2>1, EntryTyped DEF Events, EntryType
  <2> QED
    BY <1>2, <1>3, <2>2 DEF OpenChangeRequest
<1>4. ASSUME NEW q \in Plans, NEW u \in Approvers, Approve(q, u)
      PROVE  RollbackIsToldInOrder'
  <2> DEFINE e == [Entry("remediation.approved", q) EXCEPT !.by = u]
  <2>1. e \in EntryType /\ e.event = "remediation.approved"
    BY <1>4, EntryTyped DEF Approve, Events, EntryType
  <2> QED
    BY <1>2, <1>4, <2>1 DEF Approve
<1>5. CASE Request
  BY <1>1, <1>3, <1>4, <1>5, <1>d DEF Request, MakePlan, Apply
<1>6. CASE EngineStep
  <2>0. pc # "idle"
    BY <1>6
    DEF EngineStep, CheckWindow, CheckOverride, CheckRfc, ApplyRing, CheckHealth, RollbackRing,
        SyncRfc, CloseCall
  <2>1. call \in CallType /\ call.plan \in Plans /\ plan[call.plan] # NoPlan
    BY <2>0, CallTyped
  <2>2. CASE CheckWindow
    BY <1>1, <1>d, <2>1, <2>2 DEF CheckWindow
  <2>3. CASE CheckOverride
    BY <1>1, <1>2, <2>1, <2>3, EntryTyped DEF CheckOverride, Events
  <2>4. CASE CheckRfc
    BY <1>1, <1>d, <2>1, <2>4 DEF CheckRfc
  <2>5. CASE ApplyRing \/ CheckHealth \/ SyncRfc
    BY <1>1, <2>5 DEF ApplyRing, CheckHealth, SyncRfc
  <2>6. CASE RollbackRing
    <3>1. PICK e \in EntryType : Log(e) /\ IsRing(e, call.ring)
      BY <2>6, RollbackLogs DEF IsRing
    <3>2. call.ring = "fleet" => pc' = "rollback" /\ call'.ring = "canary"
      BY <2>1, <2>6 DEF RollbackRing, CallType
    <3> QED
      BY <3>1, <3>2, ToldAppend DEF IsRing
  <2>7. CASE CloseCall
    <3>1. PICK e \in EntryType :
            /\ Log(e)
            /\ e.event = IF call.success THEN "remediation.applied" ELSE "remediation.rollback_completed"
      BY <2>7, CloseLogs
    <3>2. ~call.success => audit # <<>> /\ IsRing(audit[Len(audit)], "canary")
      BY <2>7 DEF CloseCall, FailedCallIsRolledBack, IsRing
    <3> QED
      BY <2>7, <3>1, <3>2, ToldAppend DEF CloseCall, IsRing
  <2> QED
    BY <1>6, <2>2, <2>3, <2>4, <2>5, <2>6, <2>7 DEF EngineStep
<1>7. CASE Environment \/ UNCHANGED vars
  BY <1>1, <1>7 DEF Environment, CabDecide, Tick, vars
<1> QED
  BY <1>5, <1>6, <1>7, NoFault DEF Next

(* While no call raises and the process lives, the log is an account of    *)
(* the calls: each that ended is closed by exactly one record, every deny  *)
(* the engine added is vouched for by an undo and a record of its action,  *)
(* and a rollback is told ring by ring, last ring first, completion last.  *)
THEOREM LogAccounts ==
  ASSUME Faults = {}, ~MayCrash
  PROVE  Spec => []LogIsAnAccount
<1>1. Init => CallOrder /\ UndoIsAnExactAccount /\ OwnersAreTold /\ FailedCallIsRolledBack
  BY DEF Init, CallOrder, UndoIsAnExactAccount, OwnersAreTold, FailedCallIsRolledBack, Owners, Steps
<1>2. Init => EveryCallIsClosedOnce /\ RollbackIsToldInOrder
  <2> SUFFICES ASSUME Init
               PROVE  EveryCallIsClosedOnce /\ RollbackIsToldInOrder
    OBVIOUS
  <2>1. {i \in DOMAIN audit : audit[i].event \in Closing} = {}
    BY DEF Init
  <2> QED
    BY <2>1, FS_EmptySet DEF Init, EveryCallIsClosedOnce, RollbackIsToldInOrder
<1>3. TypeOK /\ UndoIsAnExactAccount /\ OwnersAreTold => EveryDenyIsOnRecord
  BY DEF UndoIsAnExactAccount, OwnersAreTold, EveryDenyIsOnRecord, Carries, Owners
<1>4. "apply" \notin Faults /\ "rollback" \notin Faults
  OBVIOUS
<1> DEFINE Account == /\ TypeOK /\ CallOrder /\ UndoIsAnExactAccount /\ OwnersAreTold
                      /\ FailedCallIsRolledBack /\ EveryCallIsClosedOnce /\ RollbackIsToldInOrder
<1>5. Init => Account
  BY <1>1, <1>2, TypeInit
<1>6. Account /\ [Next]_vars => Account'
  BY <1>4, TypeStep, OrderStep, AccountStep, OwnersStep, RolledBackStep, ClosedOnceStep, ToldStep
<1>7. Account => LogIsAnAccount
  BY <1>3 DEF LogIsAnAccount
<1> QED
  BY <1>5, <1>6, <1>7, PTL DEF Spec

(***************************************************************************)
(* The refinement.                                                         *)
(***************************************************************************)

(* What a change of the denied ports and the undos is to the abstract      *)
(* target.                                                                 *)
LEMMA ApplyMaps ==
  ASSUME TypeOK, NEW a \in Actions, BackendApply(a)
  PROVE  Reversible!Apply(a) \/ UNCHANGED <<PortValue, SavedValue>>
<1>1. CASE undo[a] # "none"
  BY <1>1 DEF BackendApply, target, PortValue, SavedValue
<1>2. CASE undo[a] = "none"
  <2>1. SavedValue[a] = "none" /\ PortOf[a] \in Ports
    BY <1>2, ConstantsAssumption DEF SavedValue
  <2>2. SavedValue' = [SavedValue EXCEPT ![a] = PortValue[PortOf[a]]]
    BY <1>2, <2>1 DEF BackendApply, SavedValue, PortValue, TypeOK
  <2>3. PortValue' = [PortValue EXCEPT ![PortOf[a]] = "denied"]
    BY <1>2, <2>1 DEF BackendApply, PortValue
  <2> QED
    BY <2>1, <2>2, <2>3 DEF Reversible!Apply, Reversible!Put
<1> QED
  BY <1>1, <1>2

LEMMA RollbackMaps ==
  ASSUME TypeOK, NEW a \in Actions, BackendRollback(a)
  PROVE  Reversible!Rollback(a) \/ UNCHANGED <<PortValue, SavedValue>>
<1>0. undo[a] \in {"none", "was_open", "was_blocked"} /\ PortOf[a] \in Ports
  BY ConstantsAssumption DEF TypeOK, Undos
<1>1. CASE undo[a] = "none"
  BY <1>1 DEF BackendRollback, PortValue, SavedValue, TypeOK
<1>2. SavedValue' = [SavedValue EXCEPT ![a] = "none"]
  BY DEF BackendRollback, SavedValue, TypeOK
<1>3. CASE undo[a] = "was_open"
  <2>1. PortValue' = [PortValue EXCEPT ![PortOf[a]] = "open"]
    BY <1>0, <1>3 DEF BackendRollback, PortValue
  <2>2. SavedValue[a] = "open"
    BY <1>3 DEF SavedValue
  <2> QED
    BY <1>2, <2>1, <2>2 DEF Reversible!Rollback, Reversible!Put
<1>4. CASE undo[a] = "was_blocked"
  <2>1. UNCHANGED PortValue
    BY <1>4 DEF BackendRollback, PortValue
  <2>2. SavedValue[a] = "denied"
    BY <1>4 DEF SavedValue
  <2> QED
    BY <1>2, <2>1, <2>2 DEF Reversible!Rollback
<1> QED
  BY <1>0, <1>1, <1>3, <1>4

LEMMA PromiseStep ==
  ASSUME TypeOK, [Next]_vars
  PROVE  [Reversible!Next]_(Reversible!vars)
<1> USE DEF Reversible!Next, Reversible!vars
<1>1. CASE UNCHANGED <<blocked, undo>>
  BY <1>1 DEF PortValue, SavedValue
<1>2. ASSUME NEW a \in Actions, BackendApply(a) \/ BackendRollback(a)
      PROVE  [Reversible!Next]_(Reversible!vars)
  BY <1>2, ApplyMaps, RollbackMaps
<1>3. ASSUME "apply" \in Faults, UNCHANGED undo,
             NEW a \in Actions, undo[a] = "none", blocked' = blocked \cup {PortOf[a]}
      PROVE  [Reversible!Next]_(Reversible!vars)
  <2>1. SavedValue[a] = "none" /\ UNCHANGED SavedValue
    BY <1>3 DEF SavedValue
  <2>2. PortValue' = [PortValue EXCEPT ![PortOf[a]] = "denied"]
    BY <1>3, ConstantsAssumption DEF PortValue
  <2>3. Reversible!Break(a)
    BY <1>3, <2>1, <2>2 DEF Reversible!Break, Reversible!Put
  <2> QED
    BY <2>3
<1>4. ASSUME "rollback" \in Faults, UNCHANGED blocked,
             NEW a \in Actions, undo' = [undo EXCEPT ![a] = "none"]
      PROVE  [Reversible!Next]_(Reversible!vars)
  <2>1. UNCHANGED PortValue /\ SavedValue' = [SavedValue EXCEPT ![a] = "none"]
    BY <1>4 DEF PortValue, SavedValue, TypeOK
  <2>2. CASE SavedValue[a] = "none"
    BY <2>1, <2>2 DEF SavedValue
  <2>3. CASE SavedValue[a] # "none"
    BY <1>4, <2>1, <2>3 DEF Reversible!Break
  <2> QED
    BY <2>2, <2>3
<1>5. CASE UNCHANGED blocked /\ undo' = [a \in Actions |-> "none"]
  BY <1>5 DEF Reversible!Forget, PortValue, SavedValue
<1> QED
  BY <1>1, <1>2, <1>3, <1>4, <1>5, TargetSteps

(* The engine implements ReversibleTarget: through gates, rings,           *)
(* exceptions and crashes a port is denied at most once per undo and       *)
(* gets back exactly what the action found.                                *)
THEOREM ImplementsReversibleTarget == Spec => KeepsThePromise
<1>1. Init => Reversible!Init
  BY DEF Init, Reversible!Init, SavedValue
<1> QED
  BY <1>1, TypeInit, TypeStep, PromiseStep, PTL DEF Spec, KeepsThePromise, Reversible!Spec

=============================================================================
