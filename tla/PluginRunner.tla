---------------------------- MODULE PluginRunner ----------------------------
(***************************************************************************)
(* The sandboxed plugin runner: run_check of avmp/plugin_sdk.py and the    *)
(* loop of ScannerNode.run_plugins (avmp/scanner.py) around it.            *)
(*                                                                         *)
(* Each check runs in a daemon thread of its own, with a queue of its own, *)
(* while the scanner waits in join(timeout).  A check that outlives its    *)
(* budget is reported as an error and left running: it may still answer,   *)
(* into a queue nobody reads, while later checks run.  The plugin decides  *)
(* what its check does; it may hang for ever.                              *)
(***************************************************************************)
EXTENDS Naturals, Sequences, FiniteSets

CONSTANTS
  Plugins,      \* how many plugins the scan runs: 1 .. Plugins, in order
  MayExit,      \* may a check raise outside Exception (SystemExit)?
  MayMisreport  \* may a check's answer make run_plugins raise?

ASSUME RunnerConstantsAssumption ==
  /\ Plugins \in Nat \ {0}
  /\ {MayExit, MayMisreport} \subseteq BOOLEAN

VARIABLES
  current,   \* the plugin whose check is running or is about to
  pc,        \* where the scanner thread is
  worker,    \* the state of each check's thread
  queue,     \* what each check's result_q holds, or "empty"
  result,    \* what run_check returned for each plugin, or "none"
  findings,  \* the plugins that run_plugins has findings of, in order
  answered,  \* history: what each check itself answered, or "none"
  late       \* history: the plugins whose check ran out of its budget

vars == <<current, pc, worker, queue, result, findings, answered, late>>

-----------------------------------------------------------------------------
(* junk is a result run_plugins cannot handle: it has no status, or a      *)
(* failing plugin's severity is not one of Severity's.                     *)
Statuses == {"pass", "fail", "error", "not_applicable"}
Answers == Statuses \cup (IF MayMisreport THEN {"junk"} ELSE {})

Init ==
  /\ current = 1
  /\ pc = "start"
  /\ worker = [p \in 1 .. Plugins |-> "unstarted"]
  /\ queue = [p \in 1 .. Plugins |-> "empty"]
  /\ result = [p \in 1 .. Plugins |-> "none"]
  /\ findings = <<>>
  /\ answered = [p \in 1 .. Plugins |-> "none"]
  /\ late = {}

-----------------------------------------------------------------------------
(* The worker threads.  A thread that puts is alive until it ends: the     *)
(* put and the end are two steps.                                          *)

(* The check returns an answer, or raises an Exception, which _worker      *)
(* turns into an error.                                                    *)
WorkerAnswers(p) ==
  /\ worker[p] = "running"
  /\ \E answer \in Answers :
       /\ queue' = [queue EXCEPT ![p] = answer]
       /\ answered' = [answered EXCEPT ![p] = answer]
  /\ worker' = [worker EXCEPT ![p] = "ending"]
  /\ UNCHANGED <<current, pc, result, findings, late>>

WorkerEnds(p) ==
  /\ worker[p] = "ending"
  /\ worker' = [worker EXCEPT ![p] = "dead"]
  /\ UNCHANGED <<current, pc, queue, result, findings, answered, late>>

(* SystemExit, KeyboardInterrupt: `except Exception` lets them pass, and   *)
(* the thread ends with nothing in its queue.                              *)
WorkerExits(p) ==
  /\ MayExit
  /\ worker[p] = "running"
  /\ worker' = [worker EXCEPT ![p] = "dead"]
  /\ UNCHANGED <<current, pc, queue, result, findings, answered, late>>

-----------------------------------------------------------------------------
(* The scanner thread.                                                     *)

(* run_check: a fresh queue and thread; t.start().                         *)
StartWorker ==
  /\ pc = "start"
  /\ worker' = [worker EXCEPT ![current] = "running"]
  /\ pc' = "join"
  /\ UNCHANGED <<current, queue, result, findings, answered, late>>

(* Slip: the thread is asked before it was waited for.                     *)
JoinAtOnce ==
  /\ pc = "join"
  /\ pc' = "alive"
  /\ UNCHANGED <<current, worker, queue, result, findings, answered, late>>

(* t.join returns because the thread ended.                                *)
Join ==
  /\ pc = "join"
  /\ worker[current] = "dead"
  /\ pc' = "alive"
  /\ UNCHANGED <<current, worker, queue, result, findings, answered, late>>

(* t.join returns because the budget is spent; the thread is still alive,  *)
(* but may end before it is asked.                                         *)
JoinTimesOut ==
  /\ pc = "join"
  /\ worker[current] # "dead"
  /\ pc' = "alive"
  /\ late' = late \cup {current}
  /\ UNCHANGED <<current, worker, queue, result, findings, answered>>

(* Slip: a thread that is still alive is waited for in its queue.          *)
AskAliveThenGet ==
  /\ pc = "alive"
  /\ pc' = "get"
  /\ UNCHANGED <<current, worker, queue, result, findings, answered, late>>

(* if t.is_alive(): the structured timeout error.                          *)
AskAlive ==
  /\ pc = "alive"
  /\ IF worker[current] # "dead"
     THEN pc' = "emit" /\ result' = [result EXCEPT ![current] = "error"]
     ELSE pc' = "get" /\ UNCHANGED result
  /\ UNCHANGED <<current, worker, queue, findings, answered, late>>

(* Slip: one queue for all checks, so any answer there is will do.         *)
GetResultShared ==
  /\ pc = "get"
  /\ \E p \in 1 .. Plugins :
       /\ queue[p] # "empty"
       /\ result' = [result EXCEPT ![current] = queue[p]]
       /\ queue' = [queue EXCEPT ![p] = "empty"]
  /\ pc' = "emit"
  /\ UNCHANGED <<current, worker, findings, answered, late>>

(* result_q.get() blocks until there is a result.                          *)
GetResult ==
  /\ pc = "get"
  /\ queue[current] # "empty"
  /\ result' = [result EXCEPT ![current] = queue[current]]
  /\ queue' = [queue EXCEPT ![current] = "empty"]
  /\ pc' = "emit"
  /\ UNCHANGED <<current, worker, findings, answered, late>>

NextPlugin ==
  IF current = Plugins
  THEN pc' = "done" /\ UNCHANGED current
  ELSE pc' = "start" /\ current' = current + 1

(* run_plugins: a finding for a FAIL, nothing for the others.              *)
EmitFinding ==
  /\ pc = "emit"
  /\ result[current] # "junk"
  /\ findings' = IF result[current] = "fail" THEN Append(findings, current) ELSE findings
  /\ NextPlugin
  /\ UNCHANGED <<worker, queue, result, answered, late>>

(* run_plugins raises, and what it found so far is lost.                   *)
ScanRaises ==
  /\ pc = "emit"
  /\ result[current] = "junk"
  /\ findings' = <<>>
  /\ pc' = "raised"
  /\ UNCHANGED <<current, worker, queue, result, answered, late>>

Scanner ==
  \/ StartWorker \/ Join \/ JoinTimesOut \/ AskAlive \/ GetResult
  \/ EmitFinding \/ ScanRaises

Next ==
  \/ Scanner
  \/ \E p \in 1 .. Plugins : WorkerAnswers(p) \/ WorkerEnds(p) \/ WorkerExits(p)

Spec == Init /\ [][Next]_vars

(* The scanner thread is scheduled and time passes; nothing is asked of a  *)
(* check.                                                                  *)
FairSpec == Spec /\ WF_vars(Scanner)

-----------------------------------------------------------------------------
(* Properties.                                                             *)

(* Every variable keeps its type, and the scan never starts a check twice  *)
(* or one it was not given.                                                *)
TypeOK ==
  /\ current \in 1 .. Plugins
  /\ pc \in {"start", "join", "alive", "get", "emit", "done", "raised"}
  /\ worker \in [1 .. Plugins -> {"unstarted", "running", "ending", "dead"}]
  /\ queue \in [1 .. Plugins -> Answers \cup {"empty"}]
  /\ result \in [1 .. Plugins -> Answers \cup {"none"}]
  /\ findings \in Seq(1 .. Plugins)
  /\ answered \in [1 .. Plugins -> Answers \cup {"none"}]
  /\ late \subseteq 1 .. Plugins
  /\ \A p \in 1 .. Plugins : p > current => worker[p] = "unstarted"

Reported(p) == p < current \/ pc = "done"
FindingOf(p) == \E i \in DOMAIN findings : findings[i] = p

(* A check that answered within its budget has a finding exactly if it     *)
(* answered FAIL; a late one has one only if it did answer FAIL; and each  *)
(* check's findings are its own, at most one, in the order of the plugins, *)
(* whatever the abandoned checks answer in the meantime.                   *)
FindingsAreTheFails ==
  /\ pc # "raised" =>
       \A p \in 1 .. Plugins : Reported(p) /\ p \notin late =>
         (FindingOf(p) <=> answered[p] = "fail")
  /\ \A p \in 1 .. Plugins : FindingOf(p) => answered[p] = "fail"
  /\ \A i, j \in DOMAIN findings : i < j => findings[i] < findings[j]

(* A check still runs after run_check has returned only if it outlived its *)
(* budget and was reported as an error: an answer that is used never comes *)
(* from a check that is still at work on the target.                       *)
OnlyLateChecksLinger ==
  \A p \in 1 .. Plugins :
    result[p] # "none" /\ worker[p] # "dead" => p \in late /\ result[p] = "error"

(* A scan reports what its checks found: findings are the fails, and none  *)
(* is taken from a check still at work.                                    *)
ReportsAreSound == FindingsAreTheFails /\ OnlyLateChecksLinger

(* A scan ends, whichever checks hang, raise an Exception or are late,     *)
(* unless the check it waits for has exited its thread without an answer.  *)
EveryScanEnds ==
  <>(\/ pc \in {"done", "raised"}
     \/ pc = "get" /\ worker[current] = "dead" /\ answered[current] = "none")

=============================================================================
