------------------------------ MODULE WormLog -------------------------------
(***************************************************************************)
(* What the audit log promises whoever reads it ("Append-only, hash-       *)
(* chained, HMAC-signed. No update/delete exists.", store.py:171): rows    *)
(* are only ever added, at the end, one at a time, each for a record of    *)
(* its own and signed over the whole log before it.  The promise ends with *)
(* the first accident the log has no say in.                               *)
(*                                                                         *)
(* AuditLog implements this with threads that share a Store, HACluster     *)
(* with two Stores and a failover between them.                            *)
(***************************************************************************)
EXTENDS AuditChain

VARIABLES
  log,    \* the rows
  sound   \* no accident so far

vars == <<log, sound>>

Init == log = <<>> /\ sound = TRUE

AppendRecord ==
  /\ sound /\ sound'
  /\ \E id \in IdsOf(log') \ IdsOf(log) : log' = Append(log, Row(id, LastSignature(log)))

Accident == ~sound'

Next == AppendRecord \/ Accident

Spec == Init /\ [][Next]_vars

=============================================================================
