------------------------------ MODULE Scoring -------------------------------
(***************************************************************************)
(* From a finding to a number: enrichment (avmp/enrichment.py), the two    *)
(* risk scores (avmp/scoring.py and Finding.risk_score of avmp/models.py)  *)
(* and the SLA that follows (avmp/workflow.py).  All of it is pure.        *)
(*                                                                         *)
(* Numbers are fixed point: CVSS in tenths (0 .. 100), EPSS in hundredths  *)
(* (0 .. 100), a base in 1/10000, a score in tenths of a point (0 .. 1000).*)
(***************************************************************************)
EXTENDS PolicyMatrix, Integers, Sequences, FiniteSetsExt

NoScore == -1       \* a score that is None
NoEntry == [cvss |-> NoScore, epss |-> NoScore, kev |-> FALSE]

(* A quotient rounded to the nearest integer.                              *)
Rounded(n, d) == (2 * n + d) \div (2 * d)

-----------------------------------------------------------------------------
(* Enrichment.  cves is the sequence of a finding's CVE ids, vdb the entry *)
(* (or NoEntry) of each.                                                   *)

(* Enricher._lookup: an ingested entry before the built-in one.            *)
Lookup(ingested, builtin, cve) ==
  IF ingested[cve] # NoEntry THEN ingested[cve] ELSE builtin[cve]

(* The first CVE of the highest CVSS score.                                *)
BestEntry(cves, vdb) ==
  LET known == {i \in DOMAIN cves : vdb[cves[i]] # NoEntry}
      cvss(i) == vdb[cves[i]].cvss
  IN IF known = {} THEN "none"
     ELSE cves[CHOOSE i \in known :
            \A j \in known : cvss(j) <= cvss(i) /\ (j < i => cvss(j) < cvss(i))]

SeverityDefaultEpss(s) ==
  CASE s = "informational" -> 1 [] s = "low" -> 5 [] s = "medium" -> 15
    [] s = "high" -> 40 [] s = "critical" -> 70

(* Enricher.enrich: the best entry's fields, or an EPSS guessed from the   *)
(* severity.                                                               *)
Enrich(f, vdb) ==
  LET best == BestEntry(f.cves, vdb)
  IN IF best = "none"
     THEN [f EXCEPT !.epss = IF @ = NoScore THEN SeverityDefaultEpss(f.severity) ELSE @]
     ELSE [f EXCEPT !.cvss = vdb[best].cvss, !.epss = vdb[best].epss, !.kev = vdb[best].kev]

-----------------------------------------------------------------------------
(* The scores of an enriched finding f.                                    *)

SeverityCvssFloor(s) ==
  CASE s = "informational" -> 0 [] s = "low" -> 39 [] s = "medium" -> 60
    [] s = "high" -> 80 [] s = "critical" -> 95

CriticalityWeight(c) ==
  CASE c = "low" -> 8 [] c = "medium" -> 10 [] c = "high" -> 12 [] c = "mission_critical" -> 14

Cvss(f) == IF f.cvss = NoScore THEN SeverityCvssFloor(f.severity) ELSE f.cvss
Epss(f) == IF f.epss = NoScore THEN 0 ELSE f.epss

(* raw_contribs of ScoringModel.score: base points before criticality.     *)
BasePoints(factor, f, internet) ==
  CASE factor = "cvss"     -> Cvss(f) * 50
    [] factor = "epss"     -> Epss(f) * 30
    [] factor = "kev"      -> IF f.kev THEN 2000 ELSE 0
    [] factor = "exposure" -> IF internet THEN 1000 ELSE 0

BaseTotal(f, internet) ==
  BasePoints("cvss", f, internet) + BasePoints("epss", f, internet)
    + BasePoints("kev", f, internet) + BasePoints("exposure", f, internet)

Capped(base) == Min({base, 10000})

Score(f, crit, internet) ==
  Min({Rounded(Capped(BaseTotal(f, internet)) * CriticalityWeight(crit), 100), 1000})

(* Slip: contributions are of the uncapped base.                           *)
ContributionUncapped(factor, f, crit, internet) ==
  Rounded(BasePoints(factor, f, internet) * CriticalityWeight(crit), 10)

(* What the breakdown says a factor added, in hundredths of a point.       *)
Contribution(factor, f, crit, internet) ==
  LET total == BaseTotal(f, internet)
  IN IF total <= 0 THEN 0
     ELSE Rounded(BasePoints(factor, f, internet) * Capped(total) * CriticalityWeight(crit),
                  10 * total)

(* What Finding.risk_score knows of the exposure of the asset: nothing.    *)
Unexposed == FALSE

(* Slip: the report forgets the criticality of the asset.                  *)
RiskScoreOfFinding(f, crit) == Rounded(Capped(BaseTotal(f, Unexposed)), 10)

(* Finding.risk_score: the cap comes after the weight.                     *)
RiskScore(f, crit) ==
  Rounded(Min({BaseTotal(f, Unexposed) * CriticalityWeight(crit), 100000}), 100)

(* Slip: the bands the wrong way round at the top.                         *)
SlaHoursShuffled(risk) ==
  IF risk >= 900 THEN 72 ELSE IF risk >= 700 THEN 24 ELSE IF risk >= 400 THEN 168 ELSE 720

SlaHours(risk) ==
  IF risk >= 900 THEN 24 ELSE IF risk >= 700 THEN 72 ELSE IF risk >= 400 THEN 168 ELSE 720

(* The key of the policy matrix for a finding on an asset.                 *)
KeyOf(f, crit) == Key(crit, f.severity, ExploitLikely(f.kev, Epss(f) >= 30))

=============================================================================
