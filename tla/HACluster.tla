----------------------------- MODULE HACluster ------------------------------
(***************************************************************************)
(* HACluster of avmp/ha.py: audit writes go to a primary Store and are     *)
(* replicated, row by row, to a standby Store; failover promotes the       *)
(* standby.                                                                *)
(*                                                                         *)
(* HACluster.append_audit holds no lock of its own: the append to the      *)
(* primary and the import into the standby are two critical sections, and  *)
(* other calls and a failover fit between them.  Each of them is atomic    *)
(* (AuditLog shows it for threads that share a Store).  Callers that were  *)
(* told of the failover append to the Store it returned; one that was not  *)
(* goes on calling HACluster.append_audit, which never asks which Store is *)
(* active.                                                                 *)
(***************************************************************************)
EXTENDS AuditChain, FiniteSets, SequencesExt

CONSTANTS
  Callers,        \* threads that append audit records
  MayFailImport,  \* may an import raise, or the primary die before it?
  MayCallStale,   \* may a caller miss the failover?
  MaxIssued       \* bound on records

ASSUME ClusterConstantsAssumption ==
  /\ IsFiniteSet(Callers)
  /\ {MayFailImport, MayCallStale} \subseteq BOOLEAN
  /\ MaxIssued \in Nat

VARIABLES
  primary,     \* the audit rows of the primary
  standby,     \* the audit rows of the standby
  primaryUp,   \* _primary_up
  inFlight,    \* the row each caller has yet to import, or NoRow
  issued,      \* records ever appended
  acked,       \* history: the records whose append returned
  mishaps      \* history: what happened besides one call after the other

clusterVars == <<primary, standby, primaryUp, inFlight, issued, acked, mishaps>>

-----------------------------------------------------------------------------
NoRow == Row(0, Genesis)
Mishaps == {"overlap", "lost_import", "stale_call"}

Idle(c) == inFlight[c] = NoRow
Pending == {c \in Callers : ~Idle(c)}

(* Two calls overlap when one begins while another has yet to import.      *)
NoteOverlap == IF Pending = {} THEN {} ELSE {"overlap"}

ClusterInit ==
  /\ primary = <<>>
  /\ standby = <<>>
  /\ primaryUp = TRUE
  /\ inFlight = [c \in Callers |-> NoRow]
  /\ issued = 0
  /\ acked = {}
  /\ mishaps = {}

-----------------------------------------------------------------------------
(* Slip: the primary is left out once it is down.                          *)
AppendToPrimaryIfUp(c) ==
  /\ Idle(c)
  /\ issued < MaxIssued
  /\ primaryUp \/ MayCallStale
  /\ LET row == Row(issued + 1, LastSignature(primary)) IN
       /\ primary' = IF primaryUp THEN Append(primary, row) ELSE primary
       /\ inFlight' = [inFlight EXCEPT ![c] = row]
  /\ issued' = issued + 1
  /\ mishaps' = mishaps \cup NoteOverlap \cup (IF primaryUp THEN {} ELSE {"stale_call"})
  /\ UNCHANGED <<standby, primaryUp, acked>>

(* append_audit: rec = self.primary.append_audit(record)                   *)
AppendToPrimary(c) ==
  /\ Idle(c)
  /\ issued < MaxIssued
  /\ primaryUp \/ MayCallStale
  /\ LET row == Row(issued + 1, LastSignature(primary)) IN
       /\ primary' = Append(primary, row)
       /\ inFlight' = [inFlight EXCEPT ![c] = row]
  /\ issued' = issued + 1
  /\ mishaps' = mishaps \cup NoteOverlap \cup (IF primaryUp THEN {} ELSE {"stale_call"})
  /\ UNCHANGED <<standby, primaryUp, acked>>

(* Slip: the primary's last row is read back and imported.                 *)
ImportLatestIntoStandby(c) ==
  /\ ~Idle(c)
  /\ standby' = Append(standby, primary[Len(primary)])
  /\ acked' = acked \cup {inFlight[c].id}
  /\ inFlight' = [inFlight EXCEPT ![c] = NoRow]
  /\ UNCHANGED <<primary, primaryUp, issued, mishaps>>

(* Slip: the record goes through the standby's own append_audit.           *)
ImportIntoStandbyResigned(c) ==
  /\ ~Idle(c)
  /\ standby' = Append(standby, Row(inFlight[c].id, LastSignature(standby)))
  /\ acked' = acked \cup {inFlight[c].id}
  /\ inFlight' = [inFlight EXCEPT ![c] = NoRow]
  /\ UNCHANGED <<primary, primaryUp, issued, mishaps>>

(* Slip: a Store that was promoted refuses rows of the old primary.        *)
ImportUnlessPromoted(c) ==
  /\ ~Idle(c)
  /\ IF primaryUp
     THEN standby' = Append(standby, inFlight[c]) /\ acked' = acked \cup {inFlight[c].id}
     ELSE UNCHANGED <<standby, acked>>
  /\ inFlight' = [inFlight EXCEPT ![c] = NoRow]
  /\ UNCHANGED <<primary, primaryUp, issued, mishaps>>

(* append_audit: self.standby.import_audit_row(...), and the call returns. *)
(* The row is inserted verbatim.                                           *)
ImportIntoStandby(c) ==
  /\ ~Idle(c)
  /\ standby' = Append(standby, inFlight[c])
  /\ acked' = acked \cup {inFlight[c].id}
  /\ inFlight' = [inFlight EXCEPT ![c] = NoRow]
  /\ UNCHANGED <<primary, primaryUp, issued, mishaps>>

(* The import raises, or the process dies before it: the row stays on the  *)
(* primary alone and the call does not return.                             *)
LoseImport(c) ==
  /\ MayFailImport
  /\ ~Idle(c)
  /\ inFlight' = [inFlight EXCEPT ![c] = NoRow]
  /\ mishaps' = mishaps \cup {"lost_import"}
  /\ UNCHANGED <<primary, standby, primaryUp, issued, acked>>

(* Slip: the promoted Store signs the record on the primary's chain.       *)
AppendToPromotedForeign(c) ==
  /\ Idle(c)
  /\ ~primaryUp
  /\ issued < MaxIssued
  /\ standby' = Append(standby, Row(issued + 1, LastSignature(primary)))
  /\ issued' = issued + 1
  /\ acked' = acked \cup {issued + 1}
  /\ mishaps' = mishaps \cup NoteOverlap
  /\ UNCHANGED <<primary, primaryUp, inFlight>>

(* Store.append_audit on the Store failover() returned.                    *)
AppendToPromoted(c) ==
  /\ Idle(c)
  /\ ~primaryUp
  /\ issued < MaxIssued
  /\ standby' = Append(standby, Row(issued + 1, LastSignature(standby)))
  /\ issued' = issued + 1
  /\ acked' = acked \cup {issued + 1}
  /\ mishaps' = mishaps \cup NoteOverlap
  /\ UNCHANGED <<primary, primaryUp, inFlight>>

(* failover, and fail_primary: a flag that only `active` reads.            *)
Failover ==
  /\ primaryUp
  /\ primaryUp' = FALSE
  /\ UNCHANGED <<primary, standby, inFlight, issued, acked, mishaps>>

ClusterNext ==
  \/ \E c \in Callers :
       \/ AppendToPrimary(c) \/ ImportIntoStandby(c) \/ LoseImport(c)
       \/ AppendToPromoted(c)
  \/ Failover

ClusterSpec == ClusterInit /\ [][ClusterNext]_clusterVars

-----------------------------------------------------------------------------
(* Properties.                                                             *)

(* Every variable keeps its type; a row in flight is on the primary.       *)
ClusterTypeOK ==
  /\ primary \in Seq(RowType)
  /\ standby \in Seq(RowType)
  /\ primaryUp \in BOOLEAN
  /\ inFlight \in [Callers -> RowType]
  /\ \A c \in Pending : inFlight[c].id \in IdsOf(primary)
  /\ issued \in Nat
  /\ acked \subseteq 1 .. issued
  /\ mishaps \subseteq Mishaps

(* "Promoted with zero audit loss": a record whose append returned is on   *)
(* the standby, whatever the calls, failures and failovers around it.      *)
AcknowledgedOnStandby == acked \subseteq IdsOf(standby)

(* While calls follow one another, reach the active Store and complete,    *)
(* the standby's chain verifies, also when the failover falls in the       *)
(* middle of a call and the promoted Store is appended to.                 *)
StandbyChainVerifies == mishaps = {} => ChainVerifies(standby)

(* What the standby lacks is what is on its way or was lost: up to the     *)
(* failover, and without lost imports, rows in flight account for exactly  *)
(* the difference audit_loss() reports, and the rest is byte-identical.    *)
AuditLoss == Len(primary) - Len(standby)
StandbyLagsOnlyByCallsInFlight ==
  primaryUp /\ "lost_import" \notin mishaps =>
    /\ AuditLoss = Cardinality(Pending)
    /\ \A i \in DOMAIN standby : \E j \in DOMAIN primary : standby[i] = primary[j]
    /\ mishaps = {} => IsPrefix(standby, primary)

(* No audit loss: acknowledged records are on the standby, and before the  *)
(* failover nothing is missing but what is on its way.                     *)
NoAuditLoss == ClusterTypeOK /\ AcknowledgedOnStandby /\ StandbyLagsOnlyByCallsInFlight

(* "The failover semantics and the zero-loss guarantee" (ha.py:10): as     *)
(* long as calls follow one another, reach the active Store and complete,  *)
(* two Stores and a failover are one append-only log.  A call's record is  *)
(* written when it is on the primary; that row is not lost, doubled or     *)
(* signed over when the standby takes over before it has been imported.    *)
ClusterLog == IF Pending = {} THEN standby ELSE primary

ClusterAsWormLog == INSTANCE WormLog WITH log <- ClusterLog, sound <- mishaps = {}

ClusterIsOneLog == ClusterAsWormLog!Spec

=============================================================================
