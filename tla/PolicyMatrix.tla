---------------------------- MODULE PolicyMatrix ----------------------------
(***************************************************************************)
(* The policy matrix of avmp/policy_matrix.py: which remediation mode a    *)
(* finding is given, from the criticality of its asset, its severity and   *)
(* whether an exploit is likely.  resolve() is a pure function, and so is  *)
(* Resolve here.  Rescoring and Remediation call it.                       *)
(***************************************************************************)
EXTENDS Naturals

-----------------------------------------------------------------------------
(* The vocabulary of avmp/models.py.                                       *)

Criticalities == {"low", "medium", "high", "mission_critical"}
Severities    == {"informational", "low", "medium", "high", "critical"}
Modes         == {"informational", "advisory", "safe_auto", "staged_patch", "manual_only"}

MatrixKeys == [criticality : Criticalities, severity : Severities, exploitLikely : BOOLEAN]
Decisions  == [mode : Modes, requiresApproval : BOOLEAN]

Key(crit, sev, exploit) == [criticality |-> crit, severity |-> sev, exploitLikely |-> exploit]

Decision(mode, approval) == [mode |-> mode, requiresApproval |-> approval]

(***************************************************************************)
(* EPSS is abstracted to the one comparison made of it (>= 0.30).          *)
(***************************************************************************)
ExploitLikely(inKev, epssHigh) == inKev \/ epssHigh

-----------------------------------------------------------------------------
(* The table and the rules.                                                *)

DefaultOverrides ==
  [k \in {Key("low", "low", FALSE), Key("medium", "low", FALSE)} |-> Decision("safe_auto", FALSE)]

HighCrit == {"high", "mission_critical"}

(* Slip: the exploit likelihood forgotten, and advisory made automatic.    *)
ResolveHighValueLoose(k) ==
  IF k.severity \in {"high", "critical"}
  THEN Decision("manual_only", TRUE)
  ELSE IF k.severity = "informational"
       THEN Decision("informational", FALSE)
       ELSE Decision("safe_auto", ~k.exploitLikely)

(* High and mission-critical assets.                                       *)
ResolveHighValue(k) ==
  IF k.severity \in {"high", "critical"} \/ k.exploitLikely
  THEN Decision("manual_only", TRUE)
  ELSE IF k.severity = "informational"
       THEN Decision("informational", FALSE)
       ELSE Decision("advisory", TRUE)

(* Slip: the last return is missing, so a critical finding gets no mode.   *)
ResolveOrdinaryFallsOff(k) ==
  CASE k.severity = "informational" -> Decision("informational", FALSE)
    [] k.severity = "low"           -> Decision("safe_auto", k.exploitLikely)
    [] k.severity = "medium"        -> Decision("safe_auto", TRUE)
    [] k.severity = "high"          -> Decision("staged_patch", TRUE)
    [] OTHER                        -> Decision("none", FALSE)

(* Low and medium criticality assets; OTHER is the fail-closed default.    *)
ResolveOrdinary(k) ==
  CASE k.severity = "informational" -> Decision("informational", FALSE)
    [] k.severity = "low"           -> Decision("safe_auto", k.exploitLikely)
    [] k.severity = "medium"        -> Decision("safe_auto", TRUE)
    [] k.severity = "high"          -> Decision("staged_patch", TRUE)
    [] OTHER                        -> Decision("manual_only", TRUE)

ResolveRules(k) ==
  IF k.criticality \in HighCrit THEN ResolveHighValue(k) ELSE ResolveOrdinary(k)

ResolveWith(overrides, k) ==
  IF k \in DOMAIN overrides THEN overrides[k] ELSE ResolveRules(k)

Resolve(k) == ResolveWith(DefaultOverrides, k)

(* RemediationPlan.auto_applicable                                         *)
AutoApplicable(d) == d.mode \in {"safe_auto", "staged_patch"}

(* How closed the gate is: 0 unattended automation, 1 automation after an  *)
(* approval, 2 no automation.                                              *)
Closedness(d) ==
  IF ~AutoApplicable(d) THEN 2 ELSE IF d.requiresApproval THEN 1 ELSE 0

=============================================================================
