# TLA+ models of AVMP (sentinelfix)

AVMP scans assets for vulnerabilities, decides by policy what may be done about
each finding, and, where the policy allows, changes the target under approval,
change control and a canary roll-out, writing everything to a tamper-evident
audit log. These modules model the parts of `src/avmp/` whose correctness
depends on *order*: what happens between two reads of the clock, between a gate
and the change it guards, between two critical sections, between a row and its
replica, between the lookup of one CVE and the next. The arithmetic in between
(scores, contributions, SLA bands) is modelled in fixed point. TLC checks them on
small instances; TLAPS proves every safety and action property that holds on them,
and the refinements, for every value of the constants.

Contents: [inventory](#1-inventory) · [modules](#2-modules-and-the-code-they-model) ·
[runs](#3-runs) · [what the code does
differently](#4-where-the-code-and-its-documents-disagree) · [proofs](#5-proofs) ·
[limits](#6-limits) · [plan](#7-plan)

## 1. Inventory

All paths are under `src/avmp/`. The full list, with the reason for every part
that is left out, is in `PROJECT.json` under `components`; the hazards of each
part, with their lines, are there under `hazards`.

| Component | State it keeps | Operations | Interacts with | What makes it correct |
|---|---|---|---|---|
| Remediation engine (`remediation.py`) | per plan: approval, action, RFC id | `plan`, `open_change_request`, `approve`, `apply` | matrix, ITSM, canary, backend, audit store | no change outside the gates; every call closed on record; a failed call undone |
| Canary controller (`canary.py`) | none (locals of one roll-out) | `staged_rollout` | calls back into engine and backend | rings roll back in reverse, all of them |
| Backends (`backends.py`, `azure_client.py`) | `_undo` by action id, in memory | `apply`, `validate`, `rollback` | target hosts, Azure NSGs | the undos account exactly for the target |
| Targets (`targets.py`) | firewall denies, services, secrets | block, unblock, set | backends | pre-existing denies survive |
| ITSM (`itsm.py`) | change requests | create, approve, reject, `set_state` | engine; the board, at any time | a change rides on an approved request |
| Policy matrix (`policy_matrix.py`, `models.py`) | none; an override table | `resolve` | engine | a worse finding never meets a more open gate |
| Audit log (`store.py`) | `audit` rows; an RLock per `Store` object | `append_audit`, `iter_audit`, `verify_audit_chain` | everybody | the chain verifies unless somebody tampered |
| Checkpoints (`worm.py`) | `checkpoints` rows | `create_checkpoint`, `verify_all` | audit log | no false alarm; lost rows are noticed |
| HA cluster (`ha.py`) | two Stores, an up flag | `append_audit`, `failover`, `audit_loss` | two audit logs | acknowledged records survive a failover |
| Plugin runner (`plugin_sdk.py`), scanner (`scanner.py`) | a thread and a queue per check | `run_check`, `run_plugins` | plugins | findings are the failed checks'; the scan ends |
| Manual workflow (`workflow.py`) | tickets | `open_ticket`, `transition`, `assign`, `mark_false_positive` | store, audit | verified only after a passing re-scan; every transition on record |
| Playbooks (`playbooks.py`, `ui.py`) | templates by id and version | create, save, submit, publish, new version | HTTP threads, store | one published version; nobody publishes alone what they wrote |
| VDB ingestion (`ingest.py`, `vdb.py`) | `vdb` rows, a bundle file | feed parsers, `export_bundle`, `ingest_feeds`, `ingest_offline` | other importers, whoever puts a bundle in place | only verified entries, unless the file is exchanged in between; an import that returned is whole; signed entries carry their release's date |
| Scoring, enrichment (`scoring.py`, `enrichment.py`) | none | `score`, `enrich` | console, workflow | bounded, monotone, explained |
| Authentication (`authn.py`), RBAC (`rbac.py`) | users, sessions | `add_user`, `login`, `verify_mfa`, `authorize` | UI, engine | no privileged action without MFA and role; duties stay apart |
| Console (`console.py`) | assets, findings, tickets, risk snapshots (`store.py`) | `register_asset`, `scan_asset`, `record_risk_snapshot` | all of the above | a completed scan is whole; totals, tickets and trend agree |

The rest (`api.py`, `cli.py`, most of `reporting.py`, `sbom.py`, `probes.py`,
`benchmark.py`, `crypto.py`, `supplychain.py`, the re-export shims in
`services/` and `packages/`) is I/O, formatting, cryptography or demonstration;
[Limits](#6-limits) says which and why.

What is hard here:

* **Two actors, one object.** The change advisory board decides while `apply`
  runs; threads share a `Store`; processes share its file; a late check answers
  while the next one runs; a failover falls into the middle of an append.
* **Check, then act.** The RFC's state, the clock, the rows a checkpoint pins,
  the bundle that was verified, the existing deny: each is read in one step and used
  in a later one.
* **Undo.** `_undo` is keyed by an action id that recurs, is shared by both
  rings, and is lost with the process.
* **Partial failure.** Nothing in `apply` catches an exception; bundles are
  imported, and scans stored, one committed row at a time.
* **Two formulas, two copies.** Reports and tickets score differently; sessions
  keep a copy of the roles, scans a copy of the asset, tickets a copy of the score.

## 2. Modules and the code they model

```
PolicyMatrix <-- Scoring <-- Rescoring <--- MCRescoring, RiskProofs
     ^              ^------- VdbIngest <--- Console <--- MCConsole, RiskProofs
     |              ^------- Workflow <---- MCWorkflow, WorkflowProofs
     +-------- Remediation <--------------- MCRemediation, RemediationProofs
                    :
                    v
             ReversibleTarget
                    ^
                    :
                Backends <----------------- MCBackends, BackendsProofs
AuditChain <-- AuditLog <------------------ MCAuditLog, AuditProofs
     ^             :
     |             v
     +--------- WormLog
     |             ^
     |             :
     +-------- HACluster <----------------- MCHACluster, AuditProofs
Auth <------------------------------------- MCAuth, AuthProofs
Playbooks <-------------------------------- MCPlaybooks, PlaybooksProofs
PluginRunner <----------------------------- PluginRunnerProofs
```

`<--` is EXTENDS, the dotted lines are refinements (`INSTANCE ... WITH`).

Comments that begin with "Slip:" introduce a wrong variant of the definition
that follows it; no specification uses them. They are the plausible mistakes
each property is measured against (`mutants` in `PROJECT.json`).

**PolicyMatrix** has `resolve()` as operators, one per group of rules, and the
two notions the engine derives from a decision (`AutoApplicable`, and
`Closedness`, which orders decisions by how closed the gate is).
**Scoring** goes on from there: which database entry speaks for a finding
(`Enrich`), the score and its breakdown, the other score the reports sort by,
and the SLA. CVSS is in tenths, EPSS in hundredths, scores in tenths of a point,
and the code's `round()` is rounding to the nearest (a tie, where Python rounds
to the even neighbour of a binary float, may differ by one unit; the properties
that compare two roundings allow for it).
**Rescoring** walks over findings, entries and assets in the order of risk. Its
steps are no code: they enumerate the inputs the pipeline's answers are compared
on, before and after something got worse.

**ReversibleTarget** is the promise of the interface `RemediationBackend`: apply saves
the setting it finds and sets the wanted one, once; rollback brings the saved one
back, once; a call that raises may have changed the target or dropped the saved
value; the end of the process drops all of them. **Backends** has the code that
keeps it: `HostModelBackend` on the firewall, services and secrets of a host, and
`AzureNsgBackend` on the rules of a security group, simulated or live. Any rule may
have been there before under any name, the backend's own included: a deny for all, for
some sources only (the port is then "partly" denied), or none, as an Allow or outbound
rule is. The undo of a group is one bit, and `UndoTells` says where that bit is enough:
apply found no rule of its name or the very rule it adds, no rule named for another port
denies this one, and on a live group no foreign rule did. What maps to the abstract
`saved` is the undo entry, except that a rule-group undo that would delete the backend's
own rule brings back what a rule under another name still says of the port. `inForce`,
`original`, `found`, `inOrder` and `broken` are history.

**VdbIngest** is the `vdb` table, the bundle file, and processes that import side by
side: from feeds (`OpenBundle`, `WriteBundle`: `write_text` truncates, then writes) or
from the file that is there, which is read once to be verified and again to be loaded;
then row by row. `Deliver` puts another bundle in place, sound or not. The hash and the
signature cover the payload and not the manifest, so a bundle is a release, a form and a
`created` date of its own, and a "whole" one verifies whatever that date is; a row whose
entry has no date takes it (`DateOf`). A bundle that was exchanged for the verified one may
hold anything: `UpsertStrangeRow` writes any CVE with any of `StrangeEntries` and
`StrangeDates`, out of scale, below zero, long ago or far ahead, and `from`, which is
history, tells such rows apart for the properties. `RefuseRow` is
the entry whose constructor raises, `DieImporting` the end of the process. What an
import has left to load, and a scan to store, is the set of positions not yet reached,
the smallest of which is next. **Console** extends it with `scan_asset`, each statement
on the store a step (`LookUp` per CVE, `StoreFinding`, `OpenTicket`, `TellOpened`,
`EndScan`), and with `record_risk_snapshot` (two reads and an insert). A scan is told an
asset object by its caller, the registered one or any other. The plugin run
inside a scan is PluginRunner's subject: here it is any subset of `Problems`.

**Auth** is users, sessions and a clock of 30-second steps. A code is a secret and a
step. `authorize` changes nothing and is an operator. Users may be enrolled again,
with other roles and another secret, at any time; `rolesOf`, `basis` and `proof` are
history.

**Remediation** is one engine with one target. `pc` is the statement of `apply`
that comes next, `call` its arguments and locals.

| Action | Code |
|---|---|
| `MakePlan`, `OpenChangeRequest`, `Approve` | `plan`, `open_change_request`, `approve` |
| `Apply` | entry of `apply`, gates 1 and 2 (they read only the plan) |
| `CheckWindow`, `CheckOverride` | gate 3's two reads of the clock |
| `CheckRfc` | gate 4 |
| `ApplyRing`, `CheckHealth`, `RollbackRing` | `staged_rollout` with the engine's callbacks and `HostModelBackend` |
| `SyncRfc`, `CloseCall` | `set_state(IMPLEMENTED)`, the closing audit record |
| `RaiseInApply`, `RaiseInRollback`, `RaiseElsewhere`, `Crash` | exceptions, which nothing catches; the end of the process |
| `CabDecide`, `Tick` | the board, the clock: possible between any two of the above |

`action_from_finding` builds only `close_port` actions, so an action is an id and a
port. The audit log is the sequence of its events; its chain is AuditLog's subject.
`call.outside` (what gate 3 first read), `call.before`, `call.fresh`, `everApproved` and
`preexisting` are history: nothing reads them but properties. A plan is made once;
engine calls do not overlap, because nothing in the repository runs an engine on two
threads.

**AuditChain** has the chain and the checkpoint as operators. A signature stands
for the sequence of record ids it was computed over, which is exactly what a
collision-free HMAC chain gives. **AuditLog** runs threads over it, a step per
SQL statement or critical section; `StoreOf` says which `Store` object (and so
which RLock) a thread uses. `LoseRows` and `DamageRow` are the accidents a
chain and checkpoints are for.

**WormLog** is what the log promises whoever reads it: rows are only added, at the end,
one at a time, under a number of their own and signed over the whole log before them,
until an accident happens that the log has no say in. AuditLog implements it with one
Store, its read and insert being one abstract step; losses and damage are the accidents.
HACluster implements it across the failover: the log is the standby's table, or the
primary's while a row is on its way from one to the other, and mishaps are the accidents.

**HACluster** has two such tables. Each append and import is atomic (AuditLog's
result for threads that share a Store); between the two, anything may happen.
Callers told of the failover write to the promoted Store; `MayCallStale` adds
some that were not. `mishaps` records which of three departures from "one call
after the other" took place.

**PluginRunner** has the scanner thread and one worker thread and queue per
check, so that a late answer has somewhere to go.

**Playbooks** is the versions of one playbook id in the store, and the request threads
of the authoring UI. Every handler is split where the code goes to the store: `publish`
is `ReadForPublish` (state and separation of duties, on one read), `ReadOthers`, one
`ArchiveOther` per version and `Publish`; edits, submissions and new versions are a read
and a write. `CutShort` is the request that ends between any two of its steps.
`Attached` is what `match()` and `attach()` find. A content is a number; `author` and
`alone` (whether nobody else handled the version since its author wrote it, under their
own name) and `mishaps` are history. The name a draft stores is the form field as typed,
or "author" for nothing (`ui.py:248`), while submit and publish compare a stripped one
(`ui.py:277`): `NoName` stands for every stored name that no stripped name equals, and with
`MayMisname` an author may be stored under it. The form for a new version always sends
"author" (`ui.py:198`), so for clones that is the usual case. `mishaps` names what the code leaves to
chance: two publishes archiving at once, a row written over that changed since it was
read, version 1 created again, the shipped library saved again by another `Console`, a
request cut short. Roles are a form field compared with a table and are left out.

**Workflow** is the ticket of one finding and its users' calls: `ReadTicket` (up to
the guard), `Rescan` (`verify_fn`), `WriteTicket`, `AppendAudit`, and what `assign`
and `mark_false_positive` do after `transition()` returned. `Crash` ends a call
between any two of them. `rescanned` and `mishaps` are history.

## 3. Runs

Every bound is a constant of the configuration. Where a module states a property in
parts (`HistoryIsSound` is `HistoryIsLegal` and `VerifiedAfterRescan` over the types),
the run checks the whole and there is a mutant for every part; the text below speaks of
the parts. `TypeOK` of Remediation, AuditLog, PluginRunner and Playbooks is proved and
not run. Deadlock checking is off where the system may stop (no more calls, records or
checks to make) and on for `AuditLogOneStore`, where some thread can always verify.

| Run | States | Shows |
|---|---|---|
| `Rescoring` | 7.3 k | findings with none, one or two CVEs, every severity, criticality and exposure: nothing that gets worse opens the gate, lowers the score or lengthens the SLA, while the same CVE speaks for the finding, shipped overrides included; the breakdown adds up; reports never claim more than tickets |
| `RemediationTarget` | 3.1 M | two plans, an action each on one port, no exceptions, 4 calls: the undos account exactly for the denies; a failed first call restores; each deny is on record; each call is closed once; rollbacks are told in order |
| `RemediationGates` | 338 k | approval needed and never automated, a window across midnight, overrides, change control, an exception at every step and process death, 2 calls: no change escapes the gates; pre-existing denies survive; a sole action validated is in effect; every call ends; the engine's use of its backend implements ReversibleTarget |
| `RollbackOfReapply` | – | the counterexample of section 4 |
| `AuditLogOneStore` | 466 k | 2 threads, 4 records, 2 checkpoints, 1 fault: the chain holds, no false alarm, `verify_all` = intact means the checkpointed rows are there; all of it implements WormLog |
| `HACluster` | 3.8 k | 2 callers, 5 records, lost imports, failover, stale callers: acknowledged records are on the standby; the lag is the calls in flight; the standby's chain holds, and the two Stores are one append-only log (WormLog), while calls follow one another |
| `PluginRunner` | 36 k | 3 checks that answer, raise, hang, exit or come late: findings are exactly the failed checks'; only late checks linger; the scan ends unless a check exits its thread |
| `Playbooks` | 6.6 M | 2 request threads, 2 actors, names misspelt or left out, 2 versions, 2 contents, requests cut short anywhere: one published version unless two publishes archive at once or the shipped library is reloaded; nobody publishes alone what they wrote under their own name; the lifecycle kept and non-drafts frozen while no stale row is written; `match()` answers except while a publish stands between archiving and publishing |
| `Workflow` | 6.3 M | 2 users, 7 calls, crashes: histories are legal paths; verified only after a re-scan; every transition on record without crashes; none lost without stale writes |
| `Backends` | 119 k | 7 actions on 2 ports, a service and a secret, on each of three targets, any earlier state of them and any rules under any name, calls that raise, restarts: the latest action in force rules; ports, and the rules of their names, come back in any order of rollbacks; validation tells in force from not; all of it implements ReversibleTarget; each where the undo can tell what was found |
| `Console` | 2.9 M | 2 importers, 3 releases of the feeds (one without a date and with an entry that does not parse, one that takes a KEV entry back), bundles with another manifest, foreign and altered ones, exchanged at any time; scans of up to 2 problems, told the registered asset or another, and snapshots; 3 calls: imports fail closed; a returned import is whole; rows of signed payloads are entries of a release under its date; a completed scan is whole; tickets add up to the total; findings carry numbers the database had; the trend never falls; types, where numbers out of scale and below zero come in |
| `Auth` | 182 k | 2 users, 2 sessions, 4 role lists, 3 enrolments, codes early, late, reused and of other secrets: MFA is proved by the right device; rights are those of the enrolment; duties stay apart |

Why the bounds are enough. *Remediation:* the interesting collisions need two
actions on one port and a call that follows another: with four calls each action
can be applied and used again after the other one changed the port. The gates read
one plan and the clock, so one plan serves for them, with two calls because what
the first leaves behind (an undo, a request's state, an approval) is what the
second reads. Two times of day give a window with an inside, an outside, both
edges and a midnight to wrap around; unattended plans are RemediationTarget's.
*AuditLog:* a fork needs two appenders; truncation that new rows mask needs a
checkpoint over at least one row, one loss and as many appends; a race with
verification needs one verifier and one appender. *HACluster:* reordering needs
two callers, and a chain needs three rows to show a break in its middle.
*PluginRunner:* a late answer that could be taken for another's needs two checks,
and a third to follow. *Playbooks:* every conflict is between two handlers on one or
two versions; two contents tell an edit from what it replaced; one value stands for every
name that does not compare. *Workflow:* seven calls
take a ticket from open to closed; conflicts are between two calls. *Rescoring:* two
CVEs are enough for one to overtake the other; the scores lie on and beside the
thresholds (EPSS 0.29 and 0.30, CVSS 0 and 9.8), so that caps bind and do not.
*Backends:* two actions per kind of setting give every order of apply and rollback,
and a second port, which nobody listens on, the case where validation cannot tell; the
rule one port's name stands for may be about the other port.
*Console:* an import needs one call, another beside it or over it a second, and the
exchange of a file one more; a scan, an import and the exchange of its file are three,
and so are two snapshots with a scan in between, or a registration, a scan and a
snapshot, the asset being registered or not at first. The table starts with the second
release, so that an older one can come later. One strange entry with both numbers out
of scale, on either side, and a date of no release tell what the properties tell apart.
Two CVEs let an import move between two lookups, and two problems a scan stop when some
of its tickets are open. *Auth:* a role that was taken
away needs two enrolments, another user a third; three time steps outlast a code.
Users, handlers, actors, importers and tokens are only compared, so TLC uses their
symmetry.

**Fairness.** `Remediation!FairSpec` assumes weak fairness of the engine's own
steps: `apply` is straight-line code on a running thread. Nothing is assumed of
the operator, the board or the clock. `PluginRunner!FairSpec` assumes it of the
scanner thread (which includes the passing of the join's time-out) and nothing of
a check, which may hang for ever.

## 4. Where the code and its documents disagree

One disagreement is a run TLC ends with a counterexample; `PROJECT.json` quotes the
sentence it contradicts. In `RollbackOfReapply` apply succeeds; a second apply of the
same action changes nothing, its health gate fails, and its rollback removes the
*first* call's deny. `FailedFirstApplyRestores` states what does hold beside it.

Two more sentences are not so, and the model has the behaviours that break them; the
properties state exactly what is left.

* "Every action records an undo so rollback is exact" (`backends.py:12`; "if it did,
  rollback leaves it untouched", `docs/azure-live-switch.md:46`). Whether a deny
  existed is asked of the simulated group by name only (`backends.py:224`). A rule
  `deny-<port>` that allowed the port, denied some sources only or was about another port
  is replaced by apply, and rollback leaves the replacement: the port stays denied, and
  `validate` says so. A live group is asked for any deny of the port, so a rule of
  that name is replaced and then deleted, or left if another rule denied the port.
  `RollbackIsExact`, `ValidationTellsInForce` and `KeepsThePromise` hold where `UndoTells`.
* "The author/last editor cannot publish their own playbook" (`playbooks.py:100`; "author
  != publisher", `ui.py:10`; `docs/phase2-deliverables.md:34`). `submit_for_review` makes the
  submitter the last editor, so the author of a draft that somebody else submitted
  publishes it; and an author stored with a blank around the name, or as "author", publishes
  a draft no one else has seen. `NobodyPublishesAlone` says that there is no third way.

Other weak spots show in the conditions of properties that hold; most are listed as
hazards.

*Remediation.* `EveryChangeIsGoverned` asks for a change request that was approved at
some time: gate 4 reads its state once, so the board may reject it before the change is
made, and `set_state` then overwrites the rejection; and it asks that an override was
given, not recorded: gate 3 reads the clock twice, and if a window opens in between no
record is written. `ValidatedMeansInEffectIfSole` needs an action alone on its port:
with two actions on one port and a caller's health gate, `validated` is set while the
port is open. `EveryDenyIsOnRecord` is checked where no step raises: a health gate that
raises leaves its change with neither rollback nor closing record.

*Backends.* Services and secrets rolled back in another order than
last first get another action's value; a port or secret may validate without having
been changed (`CanTell`); a live call that raises leaves its change without an undo.

*Audit log, HA cluster, plugins.* The lock that keeps the chain belongs to the Store
object, so `ChainUnbroken` is about threads of one process: two processes on one
file can chain two rows to the same one. `HACluster.append_audit` holds no lock
across its two tables, so overlapping calls can be imported in the other order,
after which the standby's chain does not verify (`StandbyChainVerifies` is about
calls that follow one another). `StandbyLagsOnlyByCallsInFlight` stops at the
failover: afterwards `audit_loss()`, which subtracts row counts, can be 0 while the
standby lacks a record. A check that leaves its thread by `SystemExit` blocks the
scanner for ever (`EveryScanEnds` names it).

*Playbooks, workflow.* `OnePublishedVersion`, `LifecycleIsKept`, `LibraryAnswers` and the
`Workflow` properties name the overlaps that would break them. Publishing archives
first: in between, and for ever if the request ends there, findings find no playbook.

*Database, scoring, console.* The bundle that is verified need not be the one that is
loaded, and what comes in that way may hold any number and date (`ImportFailsClosed`,
`ProvenanceIsTrue`); a negative number gives a finding a negative risk, which is not
capped as one above 100 is. The `created_at` that dates entries without a date of their own is
covered neither by the hash nor by the signature, so whoever hands over a bundle can date
them. An older release may be imported over a newer one; a partial import makes
the database look as new as its newest row. A higher CVSS score of one CVE takes
another's EPSS and KEV flag out of the finding's numbers, and its gate may open
(`SameCveCounts`). Where a criticality of 1.2 or more carries the score past 100, the
contributions add up to more than the score. Findings are never removed or
repriced, so the total risk the trend shows does not fall when something is fixed.

*Auth.* Roles are copied at login; a role taken away stays in force for the session.
Separation of duties is per role: a user with two roles holds both.

## 5. Proofs

The theorems hold for any sets of plans, actions, ports, windows, threads, Stores,
callers, users, plugins, versions and secrets, without the bounds of the runs. They
assume what the `ASSUME`s of the modules say of the constants: types, that a value
standing for "nothing" is not one of the things it is told from, that a rule
group's own names for ports differ from each other and from the one foreign name, and
that users of a ticket and callers of a cluster are finitely many (they are counted).
Where a theorem needs more, its statement says so. Every strengthening was checked with TLC on
the component's run before it was proved.

**RemediationProofs**

* `TypeCorrect`: `Spec => []TypeOK`.
* `PreexistingSafe`: `Spec => []PreexistingDenySurvives`, exceptions and process
  death included. Not inductive alone: an undo that opens a port must know the
  port was not denied before. `PreexistingAccount` adds that.
* `ExactAccount`: `UndoIsAnExactAccount`, assuming that the backend itself does not
  raise and the process lives. Inductive together with `TypeOK`.
* `FailedFirstApplySafe`: `FailedFirstApplyRestores`. Not inductive: it speaks of
  the end of a call. `FreshCallAccount` says where a call stands at each step
  (target untouched before the canary ring, the one port added after it, untouched
  again after a rollback), and `CallOrder` which ring and result each step can
  have.
* `ValidatedIsInEffect`: `ValidatedMeansInEffectIfSole`, whatever health gate a caller
  passes. `InPlaceAccount`: past its rollout a call has its undo, and an undo in force
  has its port denied if no other action can open it. An exception may leave a deny
  without its undo, never the reverse.
* `LogAccounts`: `LogIsAnAccount`, assuming that no step raises and the process lives (a
  step that raises leaves its call without a closing record, section 4). Three
  arguments: the closing records are counted (`ClosingSteps` says what each step adds
  to the log, to the calls and to those in progress); `OwnersAreTold` says that an undo
  that opens a port is on record or is the running call's; `FailedCallIsRolledBack`
  says what the last record is when a failed call is about to close.
* `ChangesAreGoverned`: `Spec => EveryChangeIsGoverned`. The gates read fields
  (`approved_by`, the RFC's state); the property asks for evidence (an audit
  record, the request's history). `EvidenceAccount` ties the first to the second,
  `GateAccount` carries what a gate established to the step that changes the
  target, and lemma `AuditGrows` keeps evidence from disappearing.
* `ImplementsReversibleTarget`: `Spec => KeepsThePromise`, that is, the engine's use of
  its backend implements ReversibleTarget, exceptions and process death included.
  Lemmas `ApplyMaps` and `RollbackMaps` say that a backend call is an abstract apply
  or rollback, or changes nothing; `PromiseStep` maps every action of `Next`, using
  `TypeOK` before the step.

**BackendsProofs**, for the three kinds of targets at once

* `TypeCorrect`, and `Inductive`: `Spec => []IInv`.
* `RollbackExact`: `RollbackIsExact`. What the backend has of a port is the host's mark or
  the deny it adds (`Owns`). What was there of it at first no undo takes away
  (`FirstOnesStay`), and what is there more than that exactly one undo in force removes
  (`OneUndoOpens`, where the undo tells what was found); the rules of others only the
  found ones say (`OriginalIs`, `TargetTyped`). So the port
  comes back with the last undo, whichever order they are used in. For services
  and secrets, each undo in force holds what the action before it wants
  (`OthersInOrder`), and that is enough as long as rollbacks are last in, first out
  (`PortsInOrder` is the same of ports).
* `ValidationTells`: `ValidationTellsInForce`, from the same invariant.
* `Promise`: `Spec => KeepsThePromise`. Every apply, rollback, restart and live call
  that raises, on each of the targets, is a step of ReversibleTarget or changes
  nothing it sees, if the undo tells what was found of every port. The hard case is the rule-group undo, which deletes a rule rather
  than writing back a value: what that brings back is what other rules say.

**AuditProofs**, for AuditLog and for HACluster

* `TypeCorrect`: types, and that a lock is held exactly by the thread between its
  read and its insert.
* `OneStoreKeepsChain` and `OneStoreNoFalseAlarm`: if all threads share one
  Store, an undamaged log verifies and `verify_all` never calls it broken. The
  invariant, `UntouchedLogAccount`, says that a thread about to insert still holds
  the last signature, which is where the shared lock is needed, and that every
  checkpoint, written or about to be, matches the rows.
* `FileImplementsWormLog`: `FileIsOneLog`, under the same assumption and from the same
  invariant: the insert signs over the table as it is then, because the thread that
  inserts still holds the last signature, and its record is new, because the chain
  verifies and every signature ends in a number used before (`NextIsNew`).
* `IntactIsPinned`: `IntactMeansPinned`, however the file is shared. Two invariants.
  `PinningAccount`: a row found at the place and under the signature a checkpoint pins
  is the row it was taken over, and so are the rows before it, but for damage, because
  rows are only lost from the end and a record's number is never used again; in a
  chain that verifies nothing is damaged. `SweepAccount`: what `verify_all` has behind
  it still matches, if nothing was lost or damaged since it began.
* `NothingAcknowledgedIsLost`: `NoAuditLoss`. Until the failover, without lost imports,
  the primary is as long as the standby and the rows in flight together
  (`LagIsInFlight`); what is in flight is on the primary.
* `StandbyVerifies`: `StandbyChainVerifies`. While calls follow one another the primary
  is the standby, or the standby and the one row in flight (`OneCallAtATime`), and
  after the failover the standby is a chain of its own.
* `ClusterImplementsWormLog`: `ClusterIsOneLog`, from `OneCallAtATime`. An append to the
  primary is the abstract append; the import is no step, since the standby becomes what
  the primary was; nor is the failover, whenever it comes.

**WorkflowProofs**

* `HistorySound`: `HistoryIsSound`. Every ticket in play, stored or in the locals of a
  call, is legal (`LegalTicket`), so it does not matter which of them is written last.
  For the re-scan: without a stale write no call holds a longer history than the
  stored one (`RescanHolds`), so a ticket that was remediated again is told from the
  one the re-scan was for.
* `TransitionsLogged`: `EveryTransitionIsLogged`. The inequality between history and log
  is carried for every ticket that may still be written (`LogKeepsUp`).
* `NothingLost`: `Spec => NoTransitionIsLost`.

**PlaybooksProofs**

* `TypeCorrect`, and `OneAnswers`: `OneVersionAnswers`. Unless publishes overlap or the
  library is reloaded, a handler that archives or publishes is the only one that does,
  and every published version but its own is one it is about to archive
  (`PublisherIsAlone`); without mishaps it is also the only reason why none may be
  published (`SomeoneAnswers`).
* `NobodyAlone`: `NobodyPublishesAlone`. A row that nobody but its author has handled has
  the author's name on it, and the publisher was compared with the name on the row it
  writes back (`RowsAreHandled`).
* `Lifecycle`: `Spec => LifecycleIsKept`. Without a stale write, a handler's row is the
  one in the store (`RowsAreAsRead`).

**AuthProofs**: `MfaProved`, `SessionsSound`, `DutiesApart`, for any users, tokens, roles and
role lists. A session's roles are those of the enrolment it is based on and its flag
is set only with the proof (`SessionsAreBased`); an enrolment stays what it was.

**PluginRunnerProofs**: `TypeCorrect` and `ReportsSound`, for any number of plugins. A
queue is empty or holds its own check's answer (`QueuesHoldAnswers`); a result is that
answer, or the error of a check that was late (`ResultsAreAnswers`); the findings are
the fails among the results so far, in order.

**RiskProofs**, for Rescoring and for Console with VdbIngest: any CVEs, releases, bundles,
problems, criticalities and number of importers.

* `RescoringTyped`: scores lie in 0 .. 100 points, and the matrix has a decision for
  every finding. `ReportsAgree`: `ReportAgreesWithTicket`; `ScoreExplained`:
  `BreakdownExplainsTheScore`; `EscalationNeverRewarded`: the action property that
  nothing which gets worse opens a gate, lowers a score or lengthens an SLA. Under them
  lie lemmas on the operators: rounding is monotone and off by at most a half, the
  base and the score grow in each input (`ScoreIs` says what the score is, case by
  case), gates close as bands rise, and what `Enrich` answers when entries change.
  The additions of a breakdown are rounded one by one, and the bound counts them.
* `VdbInductive`: `VdbSpec => []VdbInv`, about imports and whoever brings bundles:
  rows of signed payloads are entries of a release, with a date of its
  (`RowsAreReleased`); what is being
  loaded was verified, unless the file was replaced (`OnlyWholeBundles`); an import
  that nobody interfered with has its rows in place up to the position it has reached
  (`ImportsProgress`), so when it returns the release is there whole.
  `ConsoleInductive`: `Spec => []ConsoleInv`, of which `VdbInv` is the first part.
  From the two, for the database alone and beside the console, `FailsClosed`
  (`ImportFailsClosed`) and `DatabaseIsReleased` (`DatabaseIsTrue`).
* `CompletedIsWhole`: `CompletedScanIsWhole`, which speaks of the end of a scan and is not
  inductive. `ScanProgress` adds where the scan stands: what it stored and what remains
  are its count, and all it stored but the finding at hand is ticketed and told of, or
  nothing is; ids are fresh, so no other scan disturbs the account.
* `TotalsAlwaysAgree`: `TotalsAgree`. `open_ticket` uses the scan's copy of the asset, the
  snapshot reads the table: `SteadyIsTold` says they are the same as long as every scan was
  told what is registered, and `SnapshotsGrow` that no total, recorded or read and
  about to be, is above what the findings come to now, if no number of a finding is below
  zero.
* `NumbersAreSeen`: `NumbersAreOfTheDatabase`. `LookedUp` says of each CVE looked up that
  some database seen meanwhile had that entry; where the entries stay the same between
  the lookups, enrichment gives what that one database gives.
* `ConsoleTyped`: `TypeOK`, with any numbers in the table: a ticket's risk is at most 100
  points for any, and at least 0 where no number is below zero.

Tables are finite sets, and totals are sums over them. What such a sum is would
be an induction over sets, which the provers cannot instantiate (below). It is shown
by a least counterexample instead: among the subsets on which a claim about sums
fails one is smallest, and taking an element away leaves a smaller one. That needs
only that finite sets have cardinalities and the natural numbers are well-founded.

The assumptions on the constants are types but for these. Rescoring's numbers are in
scale, CVSS 0 .. 10 and EPSS 0 .. 1, what the feeds publish. VdbIngest's and Console's are
any but the one that stands for what `float()` refuses (section 6): nothing in the code
asks for their scale.
The entry of a release that does not parse is one of its entries. A release without
entries has date 0: a date reaches the table with an entry (`ingest.py:135`), so no
reader could tell another. The release the table starts with has no entry that does
not parse, as an import that returned would have left it.

*Only model-checked:* liveness (`EveryCallEnds`, `EveryScanEnds`), for which the prover
has no rules of fairness and ENABLED.

## 6. Limits

* Cryptography is perfect and checkpoints are not altered. Two TOTP codes are equal
  if their secrets and steps are.
* In Remediation a backend is one host's firewall and engine calls do not overlap;
  the other kinds of targets are in Backends, without the engine around them.
* SQLite statements are atomic and durable, and reading a table is one step.
* A bundle that was exchanged for the verified one writes rows out of two sets of the
  configuration. A number -0.1 stands for what `float()`
  refuses (`NoScore`) and is not itself among the numbers.
* One asset, one scan and one snapshot at a time in Console: calls of the console do
  not overlap in the repository, importing processes do.
* Wording, layout and parsing are left out, except for what the feed parsers drop.

**Not modelled**, with the reason:

* Scanner pool: flags and a search for the first that is up.
* REST API, built-in probes, Azure credentials and polling: I/O. The threads of the
  API server are AuditLog's.
* Cryptography, supply chain: signatures and hashes of files, in one pass.
* SBOM, most of reporting, HTML of the authoring UI: formatting.
* Benchmark, the demonstration commands of the CLI, service shims: no behaviour of
  their own.
* The signing key's file (`store.py:45`): two processes that open a new store at the
  same moment write different keys. It can happen once in the life of an
  installation and breaks the assumption that all Stores of a log share a key.
* `float()` taking `nan` and `inf` in a feed, and values of another type in a bundle; MTTR's choice of the first remediation
  (`reporting.py:164`): no document promises otherwise.

## 7. Plan

Done, in order: PolicyMatrix; Remediation with its proofs; AuditChain and AuditLog
with their proofs; HACluster; PluginRunner; Playbooks; Workflow; ReversibleTarget
with Remediation's refinement and its proof; Backends; Scoring and Rescoring;
VdbIngest and Console; Auth. Then the proofs of PluginRunner, Auth, Workflow, HACluster,
Backends with its refinement, Playbooks, the rest of Remediation and AuditLog, and
last those of Rescoring, VdbIngest and Console, and WormLog with its two refinements.

What could follow: the engine's records in AuditLog's table instead of a sequence of its
own, so that `LogIsAnAccount` is about rows that verify; Console beside Workflow, so
that a ticket a scan opened is the one a user moves.
