------------------------------ MODULE Console -------------------------------
(***************************************************************************)
(* The console facade (avmp/console.py) over the entity tables of the      *)
(* store (avmp/store.py): an asset is registered, scanned while other      *)
(* processes import into the database (VdbIngest), and each finding is     *)
(* enriched, stored, scored and ticketed; the total risk is recorded for   *)
(* the trend.  Every statement on the store is a step of its own, and the  *)
(* process may die between any two.                                        *)
(***************************************************************************)
EXTENDS VdbIngest, FiniteSets, Functions

CONSTANTS
  Problems,      \* what the plugins can find: [severity, cves], in order
  Objects,       \* what an Asset object says: [criticality, internet]
  Builtin        \* the built-in entry of each CVE, or NoEntry

ASSUME ConsoleAssumption ==
  /\ Problems \in Seq([severity : Severities, cves : Seq(Cves)])
  /\ Objects \subseteq [criticality : Criticalities, internet : BOOLEAN]
  /\ Builtin \in [Cves -> VdbEntry \cup {NoEntry}]

VARIABLES
  asset,         \* the row of the asset, or NoAsset
  findings,      \* the rows of the findings table
  tickets,       \* the rows of the tickets table: [finding, risk]
  audit,         \* the records of the log: [action, subject, count]
  snapshots,     \* the rows of risk_snapshots: [total, count], and as which
                 \*   asset the findings were counted (history)
  scan, snap,    \* the calls of scan_asset and of record_risk_snapshot
  steady         \* history: the asset row says what every scan was told

tables == <<asset, findings, tickets, audit, snapshots>>
database == <<file, rows, import, last, swapped>>
vars == <<vdbVars, tables, scan, snap, steady>>

NoAsset == [criticality |-> "medium", internet |-> FALSE, known |-> FALSE]
Registered(o) == [criticality |-> o.criticality, internet |-> o.internet, known |-> TRUE]

(* ScoringModel.score; a finding without an asset counts as on one of      *)
(* medium criticality that is not exposed.                                 *)
RiskOf(f, a) == Score(f, a.criticality, a.internet)

(* The sum of record_risk_snapshot.                                        *)
TotalRisk(fs, a) == SumFunction([f \in fs |-> RiskOf(f, a)])

Record(action, subject, count) == [action |-> action, subject |-> subject, count |-> count]

(* A call of scan_asset: number, asset object, problems left, CVEs looked  *)
(* up and what they gave, the databases seen meanwhile (history), whether  *)
(* tickets are opened, the finding at hand and how many were found.        *)
NoScan == [pc |-> "idle", no |-> 0, asset |-> NoAsset, todo |-> {}, looked |-> 0,
           read |-> [c \in Cves |-> NoEntry], seen |-> {}, ticketed |-> FALSE,
           finding |-> {}, count |-> 0]
NoSnap == [pc |-> "idle", asset |-> NoAsset, total |-> 0, count |-> 0]

(* The asset may have been registered and never been scanned.              *)
Assets == {NoAsset} \cup {Registered(o) : o \in Objects}

Init ==
  /\ VdbInit
  /\ asset \in Assets
  /\ findings = {} /\ tickets = {} /\ audit = {} /\ snapshots = <<>>
  /\ scan = NoScan /\ snap = NoSnap
  /\ steady = TRUE

-----------------------------------------------------------------------------
(* register_asset: the row, and then the record of it unless the process   *)
(* dies before.                                                            *)
RegisterAsset(o) ==
  /\ Begin
  /\ asset' = Registered(o)
  /\ audit' \in {audit, audit \cup {Record("asset.registered", <<operations'>>, 0)}}
  /\ steady' = (steady /\ (asset' = asset \/ (findings = {} /\ scan = NoScan)))
  /\ UNCHANGED <<database, findings, tickets, snapshots, scan, snap>>

-----------------------------------------------------------------------------
(* scan_asset.                                                             *)

Database == [c \in Cves |-> Lookup(Ingested, Builtin, c)]

(* The findings of run_plugins, whose steps are PluginRunner's: any of the *)
(* problems.  The asset object is the caller's; it need not be what is     *)
(* registered, if anything is.                                             *)
BeginScan ==
  /\ scan.pc = "idle"
  /\ Begin
  /\ \E found \in SUBSET DOMAIN Problems, o \in Objects, t \in BOOLEAN :
       /\ scan' = [NoScan EXCEPT !.pc = "enrich", !.no = operations', !.asset = Registered(o),
                     !.todo = found, !.seen = {Database}, !.ticketed = t,
                     !.count = Cardinality(found)]
       /\ steady' = (steady /\ Registered(o) = asset)
  /\ UNCHANGED <<database, tables, snap>>

(* The loop takes the findings in the order of the plugins.                *)
Current == Min(scan.todo)
Problem == Problems[Current]

(* uuid4.                                                                  *)
FreshId == <<scan.no, Current>>

Raw == [id |-> FreshId, scan |-> scan.no, severity |-> Problem.severity, cves |-> Problem.cves,
        cvss |-> NoScore, epss |-> NoScore, kev |-> FALSE]

Looking == scan.pc = "enrich" /\ scan.todo # {} /\ scan.looked < Len(Problem.cves)

(* Slip: the built-in entry hides the ingested one.                        *)
LookUpBuiltinFirst ==
  /\ Looking
  /\ LET cve == Problem.cves[scan.looked + 1]
     IN scan' = [scan EXCEPT !.looked = @ + 1, !.read[cve] = Lookup(Builtin, Ingested, cve)]
  /\ UNCHANGED <<vdbVars, tables, snap, steady>>

(* enrich() asks the database for one CVE after the other.                 *)
LookUp ==
  /\ Looking
  /\ LET cve == Problem.cves[scan.looked + 1]
     IN scan' = [scan EXCEPT !.looked = @ + 1, !.read[cve] = Database[cve]]
  /\ UNCHANGED <<vdbVars, tables, snap, steady>>

NextProblem(s) ==
  [s EXCEPT !.pc = "enrich", !.todo = @ \ {Min(@)}, !.looked = 0,
            !.read = [c \in Cves |-> NoEntry], !.seen = {Database}, !.finding = {}]

(* enrich() is done; upsert_finding.                                       *)
StoreFinding ==
  /\ scan.pc = "enrich" /\ scan.todo # {} /\ ~Looking
  /\ LET f == Enrich(Raw, scan.read)
     IN /\ findings' = {g \in findings : g.id # f.id} \cup {f}
        /\ scan' = IF scan.ticketed
                   THEN [scan EXCEPT !.pc = "ticket", !.finding = {f}]
                   ELSE NextProblem(scan)
  /\ UNCHANGED <<vdbVars, asset, tickets, audit, snapshots, snap, steady>>

PutTicket(f, risk) ==
  /\ scan.pc = "ticket" /\ scan.finding = {f}
  /\ tickets' = {t \in tickets : t.finding # f.id} \cup {[finding |-> f.id, risk |-> risk]}
  /\ scan' = [scan EXCEPT !.pc = "opened"]
  /\ UNCHANGED <<vdbVars, asset, findings, audit, snapshots, snap, steady>>

(* Slip: the score is taken of the finding as the scanner made it.         *)
OpenTicketUnenriched == \E f \in scan.finding : PutTicket(f, RiskOf(Raw, scan.asset))

(* score() of the enriched finding and upsert_ticket of open_ticket.       *)
OpenTicket == \E f \in scan.finding : PutTicket(f, RiskOf(f, scan.asset))

(* The record of open_ticket.                                              *)
TellOpened ==
  /\ scan.pc = "opened"
  /\ audit' = audit \cup {Record("workflow.opened", f.id, 0) : f \in scan.finding}
  /\ scan' = NextProblem(scan)
  /\ UNCHANGED <<vdbVars, asset, findings, tickets, snapshots, snap, steady>>

TellCompleted ==
  /\ audit' = audit \cup {Record("scan.completed", <<scan.no>>, scan.count)}
  /\ scan' = NoScan
  /\ UNCHANGED <<vdbVars, asset, findings, tickets, snapshots, snap, steady>>

(* Slip: the record is written whether or not the loop came to its end.    *)
EndScanFinally == scan.pc = "enrich" /\ TellCompleted

EndScan == scan.pc = "enrich" /\ scan.todo = {} /\ TellCompleted

DieScanning ==
  /\ scan.pc # "idle"
  /\ scan' = NoScan
  /\ UNCHANGED <<vdbVars, tables, snap, steady>>

-----------------------------------------------------------------------------
(* record_risk_snapshot: two reads and an insert.                          *)

ListAssets ==
  /\ snap.pc = "idle"
  /\ Begin
  /\ snap' = [NoSnap EXCEPT !.pc = "sum", !.asset = asset]
  /\ UNCHANGED <<database, tables, scan, steady>>

(* Slip: a finding that has a ticket is taken for settled.                 *)
SumFindingsUnticketed ==
  /\ snap.pc = "sum"
  /\ LET counted == {f \in findings : \A t \in tickets : t.finding # f.id}
     IN snap' = [snap EXCEPT !.pc = "append", !.total = TotalRisk(counted, snap.asset),
                             !.count = Cardinality(counted)]
  /\ UNCHANGED <<vdbVars, tables, scan, steady>>

SumFindings ==
  /\ snap.pc = "sum"
  /\ snap' = [snap EXCEPT !.pc = "append", !.total = TotalRisk(findings, snap.asset),
                          !.count = Cardinality(findings)]
  /\ UNCHANGED <<vdbVars, tables, scan, steady>>

AppendSnapshot ==
  /\ snap.pc = "append"
  /\ snapshots' = Append(snapshots, [total |-> snap.total, count |-> snap.count, as |-> snap.asset])
  /\ snap' = NoSnap
  /\ UNCHANGED <<vdbVars, asset, findings, tickets, audit, scan, steady>>

DieRecording ==
  /\ snap.pc # "idle"
  /\ snap' = NoSnap
  /\ UNCHANGED <<vdbVars, tables, scan, steady>>

(* An importer's step; a scan that is enriching sees its effect.           *)
ImporterMoves ==
  /\ VdbNext
  /\ scan' = IF scan.pc = "enrich" THEN [scan EXCEPT !.seen = @ \cup {Database'}] ELSE scan
  /\ UNCHANGED <<tables, snap, steady>>

Next ==
  \/ \E o \in Objects : RegisterAsset(o)
  \/ BeginScan \/ LookUp \/ StoreFinding \/ OpenTicket \/ TellOpened \/ EndScan \/ DieScanning
  \/ ListAssets \/ SumFindings \/ AppendSnapshot \/ DieRecording
  \/ ImporterMoves

Spec == Init /\ [][Next]_vars

-----------------------------------------------------------------------------
(* Properties.                                                             *)

(* Nothing keeps a number of an entry from lying below zero.               *)
BelowZero(f) == Cvss(f) < 0 \/ Epss(f) < 0
NothingBelowZero == \A f \in findings : ~BelowZero(f)

(* The variables of the console keep their types.  Findings take whatever  *)
(* numbers were imported; no ticket's risk is above 100 points for it, nor *)
(* below none unless a number is.                                          *)
TypeOK ==
  /\ VdbTypeOK
  /\ asset \in Assets
  /\ \A f \in findings : f.scan \in 1 .. operations /\ f.cvss \in Int /\ f.epss \in Numbers
  /\ \A t \in tickets : t.risk \in Int /\ t.risk <= 1000 /\ (NothingBelowZero => t.risk >= 0)
  /\ scan.pc \in {"idle", "enrich", "ticket", "opened"}
  /\ snap.pc \in {"idle", "sum", "append"}

(* A record scan.completed says how many findings the scan stored; all of  *)
(* them are there, and either none has a ticket or each has one the log    *)
(* tells of.  A scan that died half way has no such record.                *)
CompletedScanIsWhole ==
  \A r \in audit : r.action = "scan.completed" =>
    LET stored == {f \in findings : f.scan = r.subject[1]}
        ticketed == {f \in stored : \E t \in tickets : t.finding = f.id}
    IN /\ Cardinality(stored) = r.count
       /\ ticketed \in {{}, stored}
       /\ \A f \in ticketed : Record("workflow.opened", f.id, 0) \in audit

(* Tickets and snapshots price findings the same: the risks of the tickets *)
(* add up to the total of the findings that have one, as long as the       *)
(* asset's row says what the scans were told.  And a ticket never comes    *)
(* before the row of its finding.                                          *)
TicketsAgreeWithTotal ==
  LET ticketed == {f \in findings : \E t \in tickets : t.finding = f.id}
      sum == SumFunction([t \in tickets |-> t.risk])
  IN /\ Cardinality(ticketed) = Cardinality(tickets)
     /\ steady => sum = TotalRisk(ticketed, asset)

(* The numbers a finding is stored with are what enrichment makes of       *)
(* entries each CVE had while it was being enriched, though an import may  *)
(* have moved between the lookups of two CVEs: never of an entry that was  *)
(* replaced before, or of a built-in one that an ingested one hides.       *)
NumbersAreOfTheDatabase ==
  [][\A f \in findings' \ findings :
       \E at \in [Cves -> scan.seen] :
         f = Enrich(Raw, [c \in Cves |-> at[c][c]])]_vars

(* Findings are stored anew by every scan, under fresh ids, and none is    *)
(* ever removed or repriced: the trend of the executive summary            *)
(* (reporting.py:142) never falls, whatever was fixed or taken out of KEV  *)
(* meanwhile, unless the asset was registered otherwise in between, or a   *)
(* number below zero was imported.                                         *)
TrendNeverFalls ==
  \A k \in 1 .. Len(snapshots) - 1 :
    snapshots[k].as = snapshots[k + 1].as =>
      /\ NothingBelowZero => snapshots[k].total <= snapshots[k + 1].total
      /\ snapshots[k].count <= snapshots[k + 1].count

(* Tickets, totals and trend tell one story: what is ticketed adds up to   *)
(* the total, and the total never falls from snapshot to snapshot.         *)
TotalsAgree == TicketsAgreeWithTotal /\ TrendNeverFalls

=============================================================================
