------------------------------ MODULE AuditLog ------------------------------
(***************************************************************************)
(* The WORM audit log: Store.append_audit, iter_audit, verify_audit_chain  *)
(* and the checkpoint calls (avmp/store.py), create_checkpoint and         *)
(* verify_all (avmp/worm.py), run by threads on one SQLite file.           *)
(*                                                                         *)
(* append_audit reads the last signature and then inserts, holding the     *)
(* RLock of its Store object.  A thread of another process has a Store     *)
(* object, and so an RLock, of its own: StoreOf says which.  Every SQL     *)
(* statement is a step; the environment may lose the last rows of the      *)
(* table (an older copy of the file is put back) or damage one.            *)
(***************************************************************************)
EXTENDS AuditChain, FiniteSets

CONSTANTS
  Threads,
  Stores,          \* Store objects opened on the file
  StoreOf,         \* the Store object each thread uses
  Nobody,
  MaxRecords,      \* bound on records ever appended
  MaxCheckpoints,  \* bound on checkpoints
  MaxFaults        \* bound on losses and damages of rows

ASSUME LogConstantsAssumption ==
  /\ StoreOf \in [Threads -> Stores]
  /\ Nobody \notin Threads
  /\ {MaxRecords, MaxCheckpoints, MaxFaults} \subseteq Nat

VARIABLES
  rows,         \* the audit table, in the order of seq
  checkpoints,  \* the checkpoints table; ids is history: what was pinned
  lock,         \* the holder of each Store's RLock
  pc,           \* what each thread is doing
  local,        \* the locals of the call each thread is in
  verdict,      \* what each thread's last verify_all returned
  records,      \* records ever appended; the next one is records + 1
  faults        \* rows lost or damaged so far

vars == <<rows, checkpoints, lock, pc, local, verdict, records, faults>>

-----------------------------------------------------------------------------
Damaged == 0

CheckpointType == [count : Nat, last : Seq(Nat), ids : Seq(Nat)]

(* sig: the signature append_audit read; cp: the checkpoint being written; *)
(* listed, at: the checkpoints verify_all listed and the one it is at;     *)
(* faults: history, their number when verify_all began.                    *)
NoCheckpoint == [count |-> 0, last |-> <<>>, ids |-> <<>>]
NoLocals == [sig |-> <<>>, cp |-> NoCheckpoint, listed |-> 0, at |-> 0, faults |-> 0]

LocalsType == [sig : Seq(Nat), cp : CheckpointType, listed : Nat, at : Nat, faults : Nat]

Free(t) == lock[StoreOf[t]] = Nobody

Done(t) ==
  /\ pc' = [pc EXCEPT ![t] = "idle"]
  /\ local' = [local EXCEPT ![t] = NoLocals]

-----------------------------------------------------------------------------
Init ==
  /\ rows = <<>>
  /\ checkpoints = <<>>
  /\ lock = [s \in Stores |-> Nobody]
  /\ pc = [t \in Threads |-> "idle"]
  /\ local = [t \in Threads |-> NoLocals]
  /\ verdict = [t \in Threads |-> "none"]
  /\ records = 0
  /\ faults = 0

-----------------------------------------------------------------------------
(* append_audit.                                                           *)

(* Slip: the last signature is read before the lock is taken.              *)
ReadLastSignatureUnlocked(t) ==
  /\ pc[t] = "idle"
  /\ records < MaxRecords
  /\ pc' = [pc EXCEPT ![t] = "insert"]
  /\ local' = [local EXCEPT ![t].sig = LastSignature(rows)]
  /\ UNCHANGED <<rows, checkpoints, lock, verdict, records, faults>>

ReadLastSignature(t) ==
  /\ pc[t] = "idle"
  /\ Free(t)
  /\ records < MaxRecords
  /\ lock' = [lock EXCEPT ![StoreOf[t]] = t]
  /\ pc' = [pc EXCEPT ![t] = "insert"]
  /\ local' = [local EXCEPT ![t].sig = LastSignature(rows)]
  /\ UNCHANGED <<rows, checkpoints, verdict, records, faults>>

(* Slip: the last row is updated, and signed anew.                         *)
UpdateLastRow(t) ==
  /\ pc[t] = "insert"
  /\ LET kept == SubSeq(rows, 1, Len(rows) - 1)
     IN rows' = Append(kept, Row(records + 1, LastSignature(kept)))
  /\ records' = records + 1
  /\ lock' = [lock EXCEPT ![StoreOf[t]] = Nobody]
  /\ Done(t)
  /\ UNCHANGED <<checkpoints, verdict, faults>>

InsertRow(t) ==
  /\ pc[t] = "insert"
  /\ rows' = Append(rows, Row(records + 1, local[t].sig))
  /\ records' = records + 1
  /\ lock' = [lock EXCEPT ![StoreOf[t]] = Nobody]
  /\ Done(t)
  /\ UNCHANGED <<checkpoints, verdict, faults>>

-----------------------------------------------------------------------------
(* create_checkpoint: the rows are read under the lock, the checkpoint is  *)
(* inserted under the lock, and the lock is free in between.               *)

ReadForCheckpoint(t) ==
  /\ pc[t] = "idle"
  /\ Free(t)
  /\ Len(checkpoints) < MaxCheckpoints
  /\ pc' = [pc EXCEPT ![t] = "checkpoint"]
  /\ LET cp == CheckpointOf(rows) IN
       local' = [local EXCEPT ![t].cp = [count |-> cp.count, last |-> cp.last, ids |-> Ids(rows)]]
  /\ UNCHANGED <<rows, checkpoints, lock, verdict, records, faults>>

(* Slip: the count is taken afresh when the checkpoint is written.         *)
WriteCheckpointRecounted(t) ==
  /\ pc[t] = "checkpoint"
  /\ Free(t)
  /\ checkpoints' = Append(checkpoints, [local[t].cp EXCEPT !.count = Len(rows)])
  /\ Done(t)
  /\ UNCHANGED <<rows, lock, verdict, records, faults>>

WriteCheckpoint(t) ==
  /\ pc[t] = "checkpoint"
  /\ Free(t)
  /\ checkpoints' = Append(checkpoints, local[t].cp)
  /\ Done(t)
  /\ UNCHANGED <<rows, lock, verdict, records, faults>>

-----------------------------------------------------------------------------
(* verify_all: list the checkpoints, then verify_checkpoint each, which    *)
(* reads the rows twice: for the count and last signature, and again for   *)
(* the chain.  all() stops at the first checkpoint that does not verify.   *)

Conclude(t, v) == verdict' = [verdict EXCEPT ![t] = v] /\ Done(t)

ListCheckpoints(t) ==
  /\ pc[t] = "idle"
  /\ Free(t)
  /\ IF checkpoints = <<>>
     THEN Conclude(t, "intact")
     ELSE /\ pc' = [pc EXCEPT ![t] = "match"]
          /\ local' = [local EXCEPT ![t].listed = Len(checkpoints), ![t].at = 1,
                                    ![t].faults = faults]
          /\ verdict' = [verdict EXCEPT ![t] = "none"]
  /\ UNCHANGED <<rows, checkpoints, lock, records, faults>>

MatchCheckpoint(t) ==
  /\ pc[t] = "match"
  /\ Free(t)
  /\ IF CheckpointMatches(rows, checkpoints[local[t].at])
     THEN pc' = [pc EXCEPT ![t] = "chain"] /\ UNCHANGED <<local, verdict>>
     ELSE Conclude(t, "broken")
  /\ UNCHANGED <<rows, checkpoints, lock, records, faults>>

VerifyChain(t) ==
  /\ pc[t] = "chain"
  /\ Free(t)
  /\ \/ /\ ~ChainVerifies(rows)
        /\ Conclude(t, "broken")
     \/ /\ ChainVerifies(rows)
        /\ local[t].at = local[t].listed
        /\ Conclude(t, "intact")
     \/ /\ ChainVerifies(rows)
        /\ local[t].at < local[t].listed
        /\ pc' = [pc EXCEPT ![t] = "match"]
        /\ local' = [local EXCEPT ![t].at = @ + 1]
        /\ UNCHANGED verdict
  /\ UNCHANGED <<rows, checkpoints, lock, records, faults>>

-----------------------------------------------------------------------------
(* The environment.                                                        *)

LoseRows ==
  /\ faults < MaxFaults
  /\ \E n \in 0 .. Len(rows) - 1 : rows' = SubSeq(rows, 1, n)
  /\ faults' = faults + 1
  /\ UNCHANGED <<checkpoints, lock, pc, local, verdict, records>>

DamageRow ==
  /\ faults < MaxFaults
  /\ \E i \in DOMAIN rows : rows' = [rows EXCEPT ![i].id = Damaged]
  /\ faults' = faults + 1
  /\ UNCHANGED <<checkpoints, lock, pc, local, verdict, records>>

Next ==
  \/ \E t \in Threads :
       \/ ReadLastSignature(t) \/ InsertRow(t)
       \/ ReadForCheckpoint(t) \/ WriteCheckpoint(t)
       \/ ListCheckpoints(t) \/ MatchCheckpoint(t) \/ VerifyChain(t)
  \/ LoseRows
  \/ DamageRow

Spec == Init /\ [][Next]_vars

-----------------------------------------------------------------------------
(* Properties.                                                             *)

(* Every variable keeps its type, and a lock is held exactly by a thread   *)
(* that is about to insert.                                                *)
TypeOK ==
  /\ rows \in Seq(RowType)
  /\ checkpoints \in Seq(CheckpointType)
  /\ lock \in [Stores -> Threads \cup {Nobody}]
  /\ pc \in [Threads -> {"idle", "insert", "checkpoint", "match", "chain"}]
  /\ local \in [Threads -> LocalsType]
  /\ verdict \in [Threads -> {"none", "intact", "broken"}]
  /\ records \in Nat
  /\ faults \in Nat
  /\ \A t \in Threads : pc[t] = "insert" <=> lock[StoreOf[t]] = t
  /\ \A t \in Threads :
       pc[t] \in {"match", "chain"} => local[t].at \in 1 .. local[t].listed
                                       /\ local[t].listed <= Len(checkpoints)

(* While no row was lost or damaged, the chain verifies, whoever appends.  *)
ChainUnbroken == faults = 0 => ChainVerifies(rows)

(* Nothing was lost or damaged: verify_all says so, however appends and    *)
(* checkpoints fall between its reads ("return False on any tamper").      *)
NoFalseAlarm == \A t \in Threads : verdict[t] = "broken" => faults > 0

(* verify_all says intact: every checkpoint it listed still finds the very *)
(* rows it was taken over at the head of the table, even when lost rows    *)
(* have been replaced by as many new ones, provided nothing was lost or    *)
(* damaged while it ran ("no rows were altered or truncated below the      *)
(* checkpointed count", worm.py:35).                                       *)
PinnedRowsIntact(cp) ==
  Len(rows) >= Len(cp.ids) /\ SubSeq(Ids(rows), 1, Len(cp.ids)) = cp.ids

IntactMeansPinned ==
  [][\A t \in Threads :
       pc[t] = "chain" /\ verdict'[t] = "intact" /\ local[t].faults = faults =>
         \A c \in 1 .. local[t].listed : PinnedRowsIntact(checkpoints[c])]_vars

(* Between two threads of one process, append_audit is one step of an      *)
(* append-only log: what is inserted is signed over the table as it is     *)
(* then, and nothing but loss and damage takes a row out or alters it      *)
(* (store.py:171).                                                         *)
FileAsWormLog == INSTANCE WormLog WITH log <- rows, sound <- faults = 0

FileIsOneLog == FileAsWormLog!Spec

-----------------------------------------------------------------------------
(* Strengthenings: what AuditProofs carries from step to step.             *)

UntouchedLogAccount ==
  faults = 0 =>
    /\ ChainVerifies(rows)
    /\ \A t \in Threads : pc[t] = "insert" => local[t].sig = LastSignature(rows)
    /\ \A c \in DOMAIN checkpoints : CheckpointMatches(rows, checkpoints[c])
    /\ \A t \in Threads : pc[t] = "checkpoint" => CheckpointMatches(rows, local[t].cp)
    /\ \A t \in Threads : verdict[t] # "broken"

(* The record a row was signed over is the last of its signature: an id    *)
(* that is never used again, so that a row found under a checkpoint's      *)
(* signature is the row it was taken over, with the rows before it, save   *)
(* for what was damaged.                                                   *)
RowsAreSigned ==
  \A i \in DOMAIN rows :
    rows[i].sig # <<>> /\ rows[i].sig[Len(rows[i].sig)] \in 1 .. records

Pins(cp) ==
  /\ cp.count = Len(cp.ids)
  /\ cp.count > 0 =>
       /\ cp.last # <<>> /\ cp.last[Len(cp.last)] \in 1 .. records
       /\ Len(rows) >= cp.count /\ rows[cp.count].sig = cp.last =>
            \A i \in 1 .. cp.count : rows[i].id \in {cp.ids[i], Damaged}

PinningAccount ==
  /\ RowsAreSigned
  /\ \A c \in DOMAIN checkpoints : Pins(checkpoints[c])
  /\ \A t \in Threads : pc[t] = "checkpoint" => Pins(local[t].cp)

(* The checkpoints a sweep has behind it still match, if nothing was lost  *)
(* or damaged since it began.                                              *)
Matched(t) ==
  {c \in 1 .. local[t].listed : c < local[t].at \/ (c = local[t].at /\ pc[t] = "chain")}

SweepAccount ==
  \A t \in Threads : pc[t] \in {"match", "chain"} =>
    /\ verdict[t] = "none"
    /\ local[t].faults <= faults
    /\ local[t].faults = faults => \A c \in Matched(t) : CheckpointMatches(rows, checkpoints[c])

=============================================================================
