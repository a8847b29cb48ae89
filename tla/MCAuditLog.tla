----------------------------- MODULE MCAuditLog -----------------------------
(***************************************************************************)
(* Instances of AuditLog for TLC.                                          *)
(***************************************************************************)
EXTENDS AuditLog, TLC

CONSTANTS t1, t2, s1

(* All threads of one process: the API and UI servers' worker threads.     *)
OneStore == [t \in {t1, t2} |-> s1]

Symmetry == Permutations({t1, t2})

=============================================================================
