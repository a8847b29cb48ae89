------------------------- MODULE PluginRunnerProofs -------------------------
(***************************************************************************)
(* Proofs about PluginRunner, for any number of plugins.                   *)
(*                                                                         *)
(* The argument: a check's queue is empty until its thread has answered,   *)
(* and from then on holds that answer or nothing.  The scanner takes it    *)
(* only from a thread that has ended, and what it takes otherwise is the   *)
(* error of a check that was late.  So a result that is not that error is  *)
(* the check's own answer, which no thread changes any more, and the       *)
(* findings are the plugins whose result was a fail, in the order they ran.*)
(***************************************************************************)
EXTENDS PluginRunner, SequenceTheorems, TLAPS

-----------------------------------------------------------------------------
(* The inductive invariant.                                                *)

HasResult(p) == p < current \/ (p = current /\ pc \in {"emit", "done", "raised"})

(* Where the scanner is says what the thread it waits for has gone through.*)
ScannerInStep ==
  /\ pc = "start" <=> worker[current] = "unstarted"
  /\ pc = "alive" => worker[current] = "dead" \/ current \in late
  /\ pc = "get" => worker[current] = "dead"
  /\ pc = "done" => current = Plugins

(* A queue holds nothing before its check answers, and nothing else after. *)
QueuesHoldAnswers ==
  \A p \in 1 .. Plugins :
    /\ worker[p] \in {"unstarted", "running"} => queue[p] = "empty"
    /\ queue[p] # "empty" => queue[p] = answered[p]

(* A result is the answer of a check that has ended, or a late one's error.*)
ResultsAreAnswers ==
  \A p \in 1 .. Plugins :
    /\ HasResult(p) <=> result[p] # "none"
    /\ result[p] # "none" =>
         \/ worker[p] = "dead" /\ result[p] = answered[p]
         \/ p \in late /\ result[p] = "error"

(* The findings are the failing results so far, each plugin's after those  *)
(* of the plugins before it.                                               *)
FindingsAreResults ==
  /\ pc = "raised" => findings = <<>>
  /\ pc # "raised" =>
       \A p \in 1 .. Plugins : FindingOf(p) <=> Reported(p) /\ result[p] = "fail"
  /\ \A i, j \in DOMAIN findings : i < j => findings[i] < findings[j]

IInv ==
  /\ TypeOK
  /\ ScannerInStep
  /\ QueuesHoldAnswers
  /\ ResultsAreAnswers
  /\ FindingsAreResults

-----------------------------------------------------------------------------
(* Every initial state satisfies the invariant.                            *)
LEMMA InvInit == Init => IInv
  BY RunnerConstantsAssumption
  DEF Init, IInv, TypeOK, ScannerInStep, QueuesHoldAnswers, ResultsAreAnswers,
      FindingsAreResults, HasResult, Reported, FindingOf

(* Steps that leave the reports alone leave them as sound as they were.    *)
LEMMA FindingsUntouched ==
  ASSUME FindingsAreResults, UNCHANGED <<current, findings>>,
         pc = "raised" <=> pc' = "raised", pc = "done" <=> pc' = "done",
         \A p \in 1 .. Plugins : Reported(p) => result'[p] = result[p]
  PROVE  FindingsAreResults'
  BY DEF FindingsAreResults, FindingOf, Reported

(* A check's thread changes its own queue and nothing of the scanner's.    *)
LEMMA InvWorker ==
  ASSUME IInv, NEW q \in 1 .. Plugins, WorkerAnswers(q) \/ WorkerEnds(q) \/ WorkerExits(q)
  PROVE  IInv'
<1>0. UNCHANGED <<current, pc, result, findings, late>>
  BY DEF WorkerAnswers, WorkerEnds, WorkerExits
<1>1. TypeOK'
  <2>1. Answers \subseteq Answers \cup {"empty"} /\ Answers \subseteq Answers \cup {"none"}
    OBVIOUS
  <2>2. CASE WorkerAnswers(q)
    BY <2>1, <2>2 DEF IInv, TypeOK, WorkerAnswers
  <2>3. CASE WorkerEnds(q)
    BY <2>3 DEF IInv, TypeOK, WorkerEnds
  <2>4. CASE WorkerExits(q)
    BY <2>4 DEF IInv, TypeOK, WorkerExits
  <2> QED
    BY <2>2, <2>3, <2>4
<1>2. ScannerInStep'
  BY <1>0 DEF IInv, TypeOK, ScannerInStep, WorkerAnswers, WorkerEnds, WorkerExits
<1>3. QueuesHoldAnswers'
  <2>1. QueuesHoldAnswers /\ TypeOK
    BY DEF IInv
  <2>2. CASE WorkerAnswers(q)
    BY <2>1, <2>2 DEF TypeOK, QueuesHoldAnswers, WorkerAnswers
  <2>3. CASE WorkerEnds(q) \/ WorkerExits(q)
    BY <2>1, <2>3 DEF TypeOK, QueuesHoldAnswers, WorkerEnds, WorkerExits
  <2> QED
    BY <2>2, <2>3
<1>4. ResultsAreAnswers'
  BY <1>0 DEF IInv, TypeOK, ResultsAreAnswers, HasResult, WorkerAnswers, WorkerEnds, WorkerExits
<1>5. FindingsAreResults'
  BY <1>0, FindingsUntouched DEF IInv
<1> QED
  BY <1>1, <1>2, <1>3, <1>4, <1>5 DEF IInv

(* Starting, waiting and asking: the scanner has no result yet.            *)
LEMMA InvWait == IInv /\ (StartWorker \/ Join \/ JoinTimesOut) => IInv'
<1> SUFFICES ASSUME IInv, StartWorker \/ Join \/ JoinTimesOut
             PROVE  IInv'
  OBVIOUS
<1>0. /\ UNCHANGED <<current, queue, result, findings, answered>>
      /\ pc \in {"start", "join"} /\ pc' \in {"join", "alive"}
  BY DEF StartWorker, Join, JoinTimesOut
<1>1. TypeOK'
  <2>1. /\ worker' \in [1 .. Plugins -> {"unstarted", "running", "ending", "dead"}]
        /\ late' \subseteq 1 .. Plugins
        /\ \A p \in 1 .. Plugins : p > current => worker'[p] = "unstarted"
    <3>1. TypeOK /\ current \in Nat
      BY DEF IInv, TypeOK
    <3>2. CASE StartWorker
      BY <3>1, <3>2 DEF TypeOK, StartWorker
    <3>3. CASE Join \/ JoinTimesOut
      BY <3>1, <3>3 DEF TypeOK, Join, JoinTimesOut
    <3> QED
      BY <3>2, <3>3
  <2> QED
    BY <1>0, <2>1 DEF IInv, TypeOK
<1>2. ScannerInStep'
  BY <1>0 DEF IInv, TypeOK, ScannerInStep, StartWorker, Join, JoinTimesOut
<1>3. QueuesHoldAnswers'
  BY <1>0 DEF IInv, TypeOK, ScannerInStep, QueuesHoldAnswers, StartWorker, Join, JoinTimesOut
<1>4. ResultsAreAnswers'
  BY <1>0 DEF IInv, TypeOK, ScannerInStep, ResultsAreAnswers, HasResult,
              StartWorker, Join, JoinTimesOut
<1>5. FindingsAreResults'
  BY <1>0, FindingsUntouched DEF IInv
<1> QED
  BY <1>1, <1>2, <1>3, <1>4, <1>5 DEF IInv

(* A result is the error of a late check, or the answer of a dead thread.  *)
LEMMA InvTakeResult == IInv /\ (AskAlive \/ GetResult) => IInv'
<1> SUFFICES ASSUME IInv, AskAlive \/ GetResult
             PROVE  IInv'
  OBVIOUS
<1>0. /\ UNCHANGED <<current, worker, findings, answered, late>>
      /\ pc \in {"alive", "get"} /\ pc' \in {"get", "emit"}
  BY DEF AskAlive, GetResult
<1>1. TypeOK'
  BY <1>0 DEF IInv, TypeOK, AskAlive, GetResult, Answers, Statuses
<1>2. ScannerInStep'
  BY <1>0 DEF IInv, TypeOK, ScannerInStep, AskAlive, GetResult
<1>3. QueuesHoldAnswers'
  BY <1>0 DEF IInv, TypeOK, QueuesHoldAnswers, AskAlive, GetResult
<1>4. ResultsAreAnswers'
  <2>1. CASE AskAlive
    <3>1. TypeOK /\ ScannerInStep /\ ResultsAreAnswers
      BY DEF IInv
    <3>2. CASE worker[current] # "dead"
      BY <1>0, <2>1, <3>1, <3>2 DEF TypeOK, ScannerInStep, ResultsAreAnswers, HasResult, AskAlive
    <3>3. CASE worker[current] = "dead"
      BY <1>0, <2>1, <3>1, <3>3 DEF TypeOK, ResultsAreAnswers, HasResult, AskAlive
    <3> QED
      BY <3>2, <3>3
  <2>2. CASE GetResult
    <3>1. /\ worker[current] = "dead" /\ queue[current] = answered[current]
          /\ result' = [result EXCEPT ![current] = answered[current]]
      BY <2>2 DEF IInv, TypeOK, ScannerInStep, QueuesHoldAnswers, GetResult
    <3>2. answered[current] # "none"
      BY <2>2, <3>1 DEF IInv, TypeOK, Answers, Statuses, GetResult
    <3> QED
      BY <1>0, <2>2, <3>1, <3>2 DEF IInv, TypeOK, ResultsAreAnswers, HasResult, GetResult
  <2> QED
    BY <2>1, <2>2
<1>5. FindingsAreResults'
  <2>1. \A p \in 1 .. Plugins : Reported(p) => result'[p] = result[p]
    <3>1. current \in Nat /\ result \in [1 .. Plugins -> Answers \cup {"none"}]
      BY DEF IInv, TypeOK
    <3>2. \A p \in 1 .. Plugins : Reported(p) => p # current
      BY <1>0, <3>1 DEF Reported
    <3> QED
      BY <3>1, <3>2 DEF AskAlive, GetResult
  <2> QED
    BY <1>0, <2>1, FindingsUntouched DEF IInv
<1> QED
  BY <1>1, <1>2, <1>3, <1>4, <1>5 DEF IInv

(* The plugin's finding, if it failed, goes behind those found before.     *)
LEMMA InvEmit == IInv /\ EmitFinding => IInv'
<1> SUFFICES ASSUME IInv, EmitFinding
             PROVE  IInv'
  OBVIOUS
<1>0. /\ UNCHANGED <<worker, queue, result, answered, late>>
      /\ pc = "emit" /\ pc' \in {"start", "done"}
      /\ findings' = IF result[current] = "fail" THEN Append(findings, current) ELSE findings
      /\ IF current = Plugins THEN pc' = "done" /\ current' = current
                              ELSE pc' = "start" /\ current' = current + 1
  BY DEF EmitFinding, NextPlugin
<1>1. TypeOK'
  <2>1. current' \in 1 .. Plugins /\ findings' \in Seq(1 .. Plugins)
    <3>1. current \in 1 .. Plugins /\ findings \in Seq(1 .. Plugins)
      BY DEF IInv, TypeOK
    <3>2. Append(findings, current) \in Seq(1 .. Plugins)
      BY <3>1
    <3>3. findings' \in Seq(1 .. Plugins)
      BY <1>0, <3>1, <3>2
    <3>4. current' \in 1 .. Plugins
      BY <1>0, <3>1, RunnerConstantsAssumption
    <3> QED
      BY <3>3, <3>4
  <2>2. \A p \in 1 .. Plugins : p > current' => worker'[p] = "unstarted"
    BY <1>0, RunnerConstantsAssumption DEF IInv, TypeOK
  <2> QED
    BY <1>0, <2>1, <2>2 DEF IInv, TypeOK
<1>2. ScannerInStep'
  BY <1>0, RunnerConstantsAssumption DEF IInv, TypeOK, ScannerInStep
<1>3. QueuesHoldAnswers'
  BY <1>0 DEF IInv, QueuesHoldAnswers
<1>4. ResultsAreAnswers'
  BY <1>0, RunnerConstantsAssumption DEF IInv, TypeOK, ResultsAreAnswers, HasResult
<1>5. FindingsAreResults'
  <2>1. \A p \in 1 .. Plugins : Reported(p)' <=> Reported(p) \/ p = current
    BY <1>0, RunnerConstantsAssumption DEF IInv, TypeOK, Reported
  <2>2. ~Reported(current)
    BY <1>0 DEF IInv, TypeOK, Reported
  <2>3. CASE result[current] = "fail"
    <3>1. /\ Len(findings') = Len(findings) + 1
          /\ DOMAIN findings = 1 .. Len(findings) /\ DOMAIN findings' = 1 .. Len(findings) + 1
          /\ Len(findings) \in Nat
          /\ findings'[Len(findings) + 1] = current
          /\ \A i \in 1 .. Len(findings) : findings'[i] = findings[i]
      BY <1>0, <2>3 DEF IInv, TypeOK
    <3>2. \A p \in 1 .. Plugins : FindingOf(p)' <=> FindingOf(p) \/ p = current
      BY <3>1 DEF FindingOf
    <3>3. \A i \in DOMAIN findings : findings[i] < current
      <4> TAKE i \in DOMAIN findings
      <4>1. findings[i] \in 1 .. Plugins /\ FindingOf(findings[i])
        <5>1. findings \in Seq(1 .. Plugins) /\ i \in 1 .. Len(findings)
          BY <3>1 DEF IInv, TypeOK
        <5> QED
          BY <5>1, ElementOfSeq DEF FindingOf
      <4>2. Reported(findings[i])
        BY <4>1, <1>0 DEF IInv, FindingsAreResults
      <4> QED
        BY <4>2, <1>0 DEF Reported
    <3>4. \A i, j \in DOMAIN findings' : i < j => findings'[i] < findings'[j]
      BY <3>1, <3>3 DEF IInv, FindingsAreResults
    <3> QED
      BY <1>0, <2>1, <2>3, <3>2, <3>4 DEF IInv, FindingsAreResults
  <2>4. CASE result[current] # "fail"
    <3>1. \A p \in 1 .. Plugins : FindingOf(p)' <=> FindingOf(p)
      BY <1>0, <2>4 DEF FindingOf
    <3> QED
      BY <1>0, <2>1, <2>4, <3>1 DEF IInv, FindingsAreResults
  <2> QED
    BY <2>3, <2>4
<1> QED
  BY <1>1, <1>2, <1>3, <1>4, <1>5 DEF IInv

(* A result the scanner cannot handle loses the findings so far.           *)
LEMMA InvRaise == IInv /\ ScanRaises => IInv'
<1> SUFFICES ASSUME IInv, ScanRaises
             PROVE  IInv'
  OBVIOUS
<1>1. /\ UNCHANGED <<current, worker, queue, result, answered, late>>
      /\ pc = "emit" /\ pc' = "raised" /\ findings' = <<>>
  BY DEF ScanRaises
<1>2. TypeOK' /\ ScannerInStep' /\ QueuesHoldAnswers'
  BY <1>1 DEF IInv, TypeOK, ScannerInStep, QueuesHoldAnswers
<1>3. ResultsAreAnswers' /\ FindingsAreResults'
  BY <1>1 DEF IInv, TypeOK, ResultsAreAnswers, HasResult, FindingsAreResults
<1> QED
  BY <1>2, <1>3 DEF IInv

LEMMA InvStutter == IInv /\ UNCHANGED vars => IInv'
  BY DEF IInv, TypeOK, ScannerInStep, QueuesHoldAnswers, ResultsAreAnswers,
         FindingsAreResults, HasResult, Reported, FindingOf, vars

(* The invariant is inductive.                                             *)
THEOREM Inductive == Spec => []IInv
<1>1. IInv /\ [Next]_vars => IInv'
  BY InvWorker, InvWait, InvTakeResult, InvEmit, InvRaise, InvStutter DEF Next, Scanner
<1> QED
  BY InvInit, <1>1, PTL DEF Spec

-----------------------------------------------------------------------------
(* Every variable keeps its type, and no check is started twice or out of  *)
(* turn, however many plugins there are.                                   *)
THEOREM TypeCorrect == Spec => []TypeOK
  BY Inductive, PTL DEF IInv

(* A result other than the error of a late check is its thread's answer.   *)
LEMMA ResultIsAnswer ==
  ASSUME IInv, NEW p \in 1 .. Plugins, result[p] # "none", result[p] # "error" \/ p \notin late
  PROVE  worker[p] = "dead" /\ result[p] = answered[p]
  BY DEF IInv, ResultsAreAnswers

(* What run_plugins reports is what the checks found: a finding for each   *)
(* check that answered FAIL within its budget, none for one that answered  *)
(* anything else or nothing, each plugin's own and in their order; and     *)
(* what is reported never comes from a check that is still running, unless *)
(* it is the error that says so.                                           *)
THEOREM ReportsSound == Spec => []ReportsAreSound
<1>1. IInv => FindingsAreTheFails
  <2> SUFFICES ASSUME IInv
               PROVE  FindingsAreTheFails
    OBVIOUS
  <2>1. ASSUME pc # "raised", NEW p \in 1 .. Plugins, Reported(p), p \notin late
        PROVE  FindingOf(p) <=> answered[p] = "fail"
    <3>1. result[p] # "none"
      <4>1. current \in 1 .. Plugins /\ p \in 1 .. Plugins /\ ResultsAreAnswers
        BY <2>1 DEF IInv, TypeOK
      <4>2. p \in Nat /\ current \in Nat /\ p \leq Plugins
        BY <4>1, RunnerConstantsAssumption
      <4>3. pc = "done" => current = Plugins
        BY DEF IInv, ScannerInStep
      <4> QED
        BY <2>1, <4>1, <4>2, <4>3, RunnerConstantsAssumption
        DEF ResultsAreAnswers, HasResult, Reported
    <3> QED
      BY <2>1, <3>1, ResultIsAnswer DEF IInv, FindingsAreResults
  <2>2. ASSUME NEW p \in 1 .. Plugins, FindingOf(p)
        PROVE  answered[p] = "fail"
    <3>1. pc # "raised"
      BY <2>2 DEF IInv, FindingsAreResults, FindingOf
    <3>2. result[p] = "fail"
      BY <2>2, <3>1 DEF IInv, FindingsAreResults
    <3> QED
      BY <3>2, ResultIsAnswer
  <2>3. \A i, j \in DOMAIN findings : i < j => findings[i] < findings[j]
    BY DEF IInv, FindingsAreResults
  <2> QED
    BY <2>1, <2>2, <2>3 DEF FindingsAreTheFails
<1>2. IInv => OnlyLateChecksLinger
  BY ResultIsAnswer DEF OnlyLateChecksLinger
<1> QED
  BY <1>1, <1>2, Inductive, PTL DEF ReportsAreSound

=============================================================================
