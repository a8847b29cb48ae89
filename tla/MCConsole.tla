----------------------------- MODULE MCConsole ------------------------------
(***************************************************************************)
(* An instance of Console for TLC: two CVEs, three releases of the feeds,  *)
(* of which the second takes the first's KEV entry back and the third has  *)
(* no date and an entry the importer does not understand.  The table has   *)
(* the second release at first, which says nothing of CVE "a".             *)
(***************************************************************************)
EXTENDS Console, TLC

Read(cve, number) == [cve |-> cve, number |-> number]

MCCveOrder == <<"a", "b">>
MCReleases == <<
  [kev  |-> <<"a", "">>, epss |-> <<Read("a", 94), Read("b", 20), Read("a", NoScore)>>,
   cvss |-> <<Read("a", 70), Read("b", 65)>>, date |-> 1, created |-> 3, odd |-> "none"],
  [kev  |-> <<>>, epss |-> <<Read("", 1), Read("b", 10), Read("b", 35)>>,
   cvss |-> <<Read("b", NoScore)>>, date |-> 2, created |-> 1, odd |-> "none"],
  [kev  |-> <<"a">>, epss |-> <<Read("b", 50)>>, cvss |-> <<>>, date |-> 0, created |-> 4, odd |-> "b"]>>

(* The first and the third release's bundles, the latter with two          *)
(* manifests, and two that are none of ours: out of scale, and long ago.   *)
MCDelivered ==
  {Exported(1, "whole"), Exported(3, "whole"), [Exported(3, "whole") EXCEPT !.created = 9],
   Exported(2, "altered"), Exported(2, "foreign")}
MCStrangeEntries == {[cvss |-> 990, epss |-> -300, kev |-> FALSE]}
MCStrangeDates == {8}

MCBuiltin == [c \in {"a", "b"} |->
  IF c = "a" THEN [cvss |-> 98, epss |-> 94, kev |-> TRUE] ELSE NoEntry]

MCProblems == <<[severity |-> "high", cves |-> <<"a", "b">>], [severity |-> "low", cves |-> <<>>]>>

(* What was registered need not be what a scan is told.  The one object    *)
(* makes the asset less critical than an unknown one, the other more so.   *)
MCObjects ==
  {[criticality |-> "low", internet |-> TRUE], [criticality |-> "high", internet |-> FALSE]}

(* Importers are only ever compared, in action properties as in            *)
(* invariants.                                                             *)
Symmetry == Permutations(Importers)

=============================================================================
