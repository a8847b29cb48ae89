----------------------------- MODULE AuditChain -----------------------------
(***************************************************************************)
(* The hash chain of avmp/store.py and the checkpoints of avmp/worm.py,    *)
(* as operators on a sequence of rows.                                     *)
(*                                                                         *)
(* An HMAC over (record, previous signature) is taken to be free of        *)
(* collisions.  Then a signature says exactly which records, in which      *)
(* order, it was computed over, and that sequence of record ids stands for *)
(* it; GENESIS is the empty one.  The checkpoint's own signature is        *)
(* abstracted away: checkpoints are never altered here.                    *)
(***************************************************************************)
EXTENDS Sequences, Naturals

Genesis == <<>>

(* signing_payload is the record and prev_signature.                       *)
Sign(id, prev) == Append(prev, id)

Row(id, prev) == [id |-> id, prev |-> prev, sig |-> Sign(id, prev)]
RowType == [id : Nat, prev : Seq(Nat), sig : Seq(Nat)]

(* SELECT signature FROM audit ORDER BY seq DESC LIMIT 1                   *)
LastSignature(rows) == IF rows = <<>> THEN Genesis ELSE rows[Len(rows)].sig

(* verify_audit_chain: every link and every signature.                     *)
ChainVerifies(rows) ==
  \A i \in DOMAIN rows :
    /\ rows[i].prev = IF i = 1 THEN Genesis ELSE rows[i - 1].sig
    /\ Sign(rows[i].id, rows[i].prev) = rows[i].sig

(* create_checkpoint: the count and the last signature of one read.        *)
CheckpointOf(rows) == [count |-> Len(rows), last |-> LastSignature(rows)]

(* Slip: only the number of rows is compared.                              *)
CheckpointMatchesCount(rows, cp) == Len(rows) >= cp.count

(* The part of verify_checkpoint before the chain is verified.             *)
CheckpointMatches(rows, cp) ==
  /\ Len(rows) >= cp.count
  /\ cp.count > 0 => rows[cp.count].sig = cp.last

Ids(rows) == [i \in DOMAIN rows |-> rows[i].id]
IdsOf(rows) == {rows[i].id : i \in DOMAIN rows}

=============================================================================
