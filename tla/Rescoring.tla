----------------------------- MODULE Rescoring ------------------------------
(***************************************************************************)
(* A walk over the inputs of the risk pipeline in the order of risk: a     *)
(* finding, the entries of its CVEs in the vulnerability database and its  *)
(* asset.  Each step makes one of them worse.  The steps model no code of  *)
(* their own: they enumerate the comparable inputs, so that the properties *)
(* compare what enrichment, scoring, SLA and policy matrix answer before   *)
(* and after.                                                              *)
(***************************************************************************)
EXTENDS Scoring

CONSTANTS
  CveLists,     \* the cve_ids findings come with
  CveIds,         \* the CVEs in them
  CvssValues,   \* the scores entries have, in tenths
  EpssValues    \* the probabilities entries have, in hundredths

ASSUME RescoringConstantsAssumption ==
  /\ CveLists \subseteq Seq(CveIds)
  /\ CvssValues \subseteq 0 .. 100
  /\ EpssValues \subseteq 0 .. 100

VARIABLES
  severity, cves,         \* the finding as the scanner made it
  vdb,                    \* the database entry of each CVE, or NoEntry
  criticality, internet   \* the asset

inputs == <<severity, cves, vdb, criticality, internet>>

Entry == [cvss : CvssValues, epss : EpssValues, kev : BOOLEAN]

RawFinding == [severity |-> severity, cves |-> cves, cvss |-> NoScore, epss |-> NoScore, kev |-> FALSE]
Finding == Enrich(RawFinding, vdb)

CritRank(c) == CASE c = "low" -> 0 [] c = "medium" -> 1 [] c = "high" -> 2 [] OTHER -> 3
SevRank(s)  == CASE s = "informational" -> 0 [] s = "low" -> 1 [] s = "medium" -> 2
                 [] s = "high" -> 3 [] OTHER -> 4

Listed(list) == {list[i] : i \in DOMAIN list}

RescoringInit ==
  /\ severity \in Severities
  /\ cves \in CveLists
  /\ vdb \in [CveIds -> Entry \cup {NoEntry}]
  /\ \A c \in CveIds \ Listed(cves) : vdb[c] = NoEntry
  /\ criticality \in Criticalities
  /\ internet \in BOOLEAN

RaiseCriticality ==
  /\ criticality' \in Criticalities
  /\ CritRank(criticality') > CritRank(criticality)
  /\ UNCHANGED <<severity, cves, vdb, internet>>

RaiseSeverity ==
  /\ severity' \in Severities
  /\ SevRank(severity') > SevRank(severity)
  /\ UNCHANGED <<cves, vdb, criticality, internet>>

BecomeExposed ==
  /\ ~internet /\ internet' = TRUE
  /\ UNCHANGED <<severity, cves, vdb, criticality>>

(* A CVE gets a higher CVSS or EPSS score, or enters KEV.                  *)
RaiseEntry(c) ==
  /\ vdb[c] # NoEntry
  /\ \/ \E v \in CvssValues : v > vdb[c].cvss /\ vdb' = [vdb EXCEPT ![c].cvss = v]
     \/ \E v \in EpssValues : v > vdb[c].epss /\ vdb' = [vdb EXCEPT ![c].epss = v]
     \/ ~vdb[c].kev /\ vdb' = [vdb EXCEPT ![c].kev = TRUE]
  /\ UNCHANGED <<severity, cves, criticality, internet>>

Worsen ==
  \/ RaiseCriticality \/ RaiseSeverity \/ BecomeExposed
  \/ \E c \in CveIds : RaiseEntry(c)

RescoringSpec == RescoringInit /\ [][Worsen]_inputs

-----------------------------------------------------------------------------
(* Properties.                                                             *)

Risk == Score(Finding, criticality, internet)
Gate == Resolve(KeyOf(Finding, criticality))

(* Scores stay within 0 .. 100 points, and every finding has a decision:   *)
(* resolve() is total.                                                     *)
RescoringTypeOK ==
  /\ KeyOf(Finding, criticality) \in MatrixKeys
  /\ Gate \in Decisions
  /\ Risk \in 0 .. 1000
  /\ RiskScore(Finding, criticality) \in 0 .. 1000

(* enrich() takes all its numbers from one CVE, the one with the highest   *)
(* CVSS score.  Raising another CVE above it replaces its EPSS and KEV.    *)
SameCveCounts == BestEntry(cves, vdb) = BestEntry(cves, vdb')

(* A finding that gets worse never meets a more open gate than before ("it *)
(* FAILS CLOSED"), the shipped overrides included, nor gets a lower score  *)
(* or a longer SLA, unless another of its CVEs now speaks for it.  Below   *)
(* severity low there is no action rather than a closed gate.              *)
EscalationIsNeverRewarded ==
  [][SameCveCounts =>
       /\ severity # "informational" => Closedness(Gate') >= Closedness(Gate)
       /\ Risk' >= Risk /\ SlaHours(Risk') <= SlaHours(Risk)]_inputs

(* The contributions of the breakdown add up to the score, but for their   *)
(* rounding ("every score is explainable", scoring.py:6), unless the       *)
(* criticality carried the score beyond 100: then they add up to more.     *)
Explained ==
  Contribution("cvss", Finding, criticality, internet)
    + Contribution("epss", Finding, criticality, internet)
    + Contribution("kev", Finding, criticality, internet)
    + Contribution("exposure", Finding, criticality, internet)

BreakdownExplainsTheScore ==
  /\ Explained >= Risk * 10 - 7
  /\ Risk < 1000 => Explained <= Risk * 10 + 7

(* The reports sort by another formula than the one that set the SLA       *)
(* (reporting.py:22, console.py:66).  The two agree on every asset that is *)
(* not internet-facing, and the reports never claim more than the ticket.  *)
ReportAgreesWithTicket ==
  LET report == RiskScore(Finding, criticality)
  IN report <= Risk + 1 /\ (~internet => Risk <= report + 1)

=============================================================================
