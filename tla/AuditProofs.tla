---------------------------- MODULE AuditProofs -----------------------------
(***************************************************************************)
(* Theorems of AuditLog and of HACluster, which rest on the same chain.    *)
(*                                                                         *)
(* AuditLog, for any number of threads, records and checkpoints.  Type     *)
(* correctness holds however the file is shared; the chain only when every *)
(* thread uses the same Store object.                                      *)
(*                                                                         *)
(* HACluster, for any finite set of callers and any number of records,     *)
(* with lost imports and stale calls or without.  The argument: an append  *)
(* puts its row on the primary and in flight, an import puts the row in    *)
(* flight on the standby, so up to the failover the rows in flight are the *)
(* difference.  While nothing but one call after the other happens, the    *)
(* row in flight is the one that comes next on the standby: the standby is *)
(* the primary, or the primary but for that row, until the failover, and a *)
(* chain of its own after it.                                              *)
(* Both are also shown to be the append-only log of WormLog, the table     *)
(* with one Store object and the cluster across its failover.              *)
(***************************************************************************)
EXTENDS AuditLog, HACluster, FiniteSetTheorems, SequenceTheorems, TLAPS

(***************************************************************************)
(* Lemmas about the chain.                                                 *)
(***************************************************************************)

LEMMA LastSignatureTyped ==
  ASSUME NEW r \in Seq(RowType)
  PROVE  LastSignature(r) \in Seq(Nat)
<1>1. CASE r = <<>>
  BY <1>1 DEF LastSignature, Genesis
<1>2. CASE r # <<>>
  <2>1. Len(r) \in DOMAIN r
    BY <1>2, EmptySeq, LenProperties
  <2>2. r[Len(r)] \in RowType
    BY <2>1, ElementOfSeq
  <2> QED
    BY <1>2, <2>2 DEF LastSignature, RowType
<1> QED
  BY <1>1, <1>2

LEMMA RowTyped ==
  ASSUME NEW id \in Nat, NEW prev \in Seq(Nat)
  PROVE  /\ Row(id, prev) \in RowType
         /\ Row(id, prev).id = id
         /\ Row(id, prev).prev = prev
         /\ Row(id, prev).sig = Sign(id, prev)
<1>1. Sign(id, prev) \in Seq(Nat)
  BY AppendProperties DEF Sign
<1> QED
  BY <1>1 DEF Row, RowType

(* A row signed over the last signature extends a chain that verifies.     *)
LEMMA ChainExtends ==
  ASSUME NEW r \in Seq(RowType), ChainVerifies(r), NEW id \in Nat
  PROVE  ChainVerifies(Append(r, Row(id, LastSignature(r))))
<1> DEFINE new == Row(id, LastSignature(r))
           s   == Append(r, new)
<1>1. /\ new \in RowType /\ new.id = id /\ new.prev = LastSignature(r)
      /\ new.sig = Sign(id, LastSignature(r))
  BY LastSignatureTyped, RowTyped
<1> HIDE DEF new
<1>2. /\ s \in Seq(RowType) /\ Len(s) = Len(r) + 1
      /\ \A i \in 1 .. Len(r) : s[i] = r[i]
      /\ s[Len(r) + 1] = new
  BY <1>1, AppendProperties
<1> HIDE DEF s
<1> SUFFICES ASSUME NEW i \in 1 .. Len(s)
             PROVE  /\ s[i].prev = IF i = 1 THEN Genesis ELSE s[i - 1].sig
                    /\ Sign(s[i].id, s[i].prev) = s[i].sig
  BY <1>2 DEF ChainVerifies, s, new
<1>3. CASE i \in 1 .. Len(r)
  <2>1. s[i] = r[i] /\ (i # 1 => s[i - 1] = r[i - 1])
    BY <1>2, <1>3
  <2> QED
    BY <1>3, <2>1 DEF ChainVerifies
<1>4. CASE i = Len(r) + 1
  <2>1. s[i] = new /\ (i # 1 => s[i - 1] = r[Len(r)])
    BY <1>2, <1>4
  <2>2. r = <<>> <=> i = 1
    BY <1>4
  <2> QED
    BY <1>1, <1>4, <2>1, <2>2 DEF LastSignature
<1> QED
  BY <1>2, <1>3, <1>4

(* Appending a row to a table.                                             *)
LEMMA TableGrows ==
  ASSUME NEW r \in Seq(RowType), NEW row \in RowType
  PROVE  /\ Append(r, row) \in Seq(RowType)
         /\ Len(r) \in Nat /\ Len(Append(r, row)) = Len(r) + 1
         /\ DOMAIN r = 1 .. Len(r) /\ DOMAIN Append(r, row) = 1 .. Len(r) + 1
         /\ \A i \in DOMAIN r : Append(r, row)[i] = r[i]
         /\ Append(r, row)[Len(r) + 1] = row
         /\ IdsOf(Append(r, row)) = IdsOf(r) \cup {row.id}
         /\ IsPrefix(r, Append(r, row)) /\ IsPrefix(r, r)
<1> DEFINE n == Len(r)
           g == Append(r, row)
<1>1. /\ n \in Nat /\ DOMAIN r = 1 .. n
      /\ g \in Seq(RowType) /\ Len(g) = n + 1 /\ DOMAIN g = 1 .. n + 1
      /\ \A i \in 1 .. n : g[i] = r[i]
      /\ g[n + 1] = row
  BY LenProperties, AppendProperties
<1> HIDE DEF g
<1>2. IdsOf(g) = IdsOf(r) \cup {row.id}
  <2>1. \A i \in DOMAIN g : g[i].id \in IdsOf(r) \cup {row.id}
    BY <1>1 DEF IdsOf
  <2>2. \A x \in IdsOf(r) \cup {row.id} : \E i \in DOMAIN g : g[i].id = x
    BY <1>1 DEF IdsOf
  <2> QED
    BY <2>1, <2>2 DEF IdsOf
<1>3. IsPrefix(r, g) /\ IsPrefix(r, r)
  <2>1. \A i \in 1 .. n : g[i] \in RowType /\ r[i] \in RowType
    BY <1>1, ElementOfSeq
  <2>2. /\ SubSeq(r, 1, n) \in Seq(RowType) /\ SubSeq(g, 1, n) \in Seq(RowType)
        /\ Len(SubSeq(r, 1, n)) = n /\ Len(SubSeq(g, 1, n)) = n
        /\ \A i \in 1 .. n : SubSeq(r, 1, n)[i] = r[i] /\ SubSeq(g, 1, n)[i] = g[i]
    BY <1>1, <2>1, SubSeqProperties
  <2>3. SubSeq(r, 1, n) = SubSeq(g, 1, n)
    BY <1>1, <2>2, SeqEqual
  <2> QED
    BY <1>1, <2>3 DEF IsPrefix
<1> QED
  BY <1>1, <1>2, <1>3 DEF g

(* Appending never takes a checkpoint's row away, or changes it.           *)
LEMMA MatchesExtends ==
  ASSUME NEW r \in Seq(RowType), NEW row \in RowType,
         NEW cp \in CheckpointType, CheckpointMatches(r, cp)
  PROVE  CheckpointMatches(Append(r, row), cp)
  BY AppendProperties DEF CheckpointMatches, CheckpointType

(***************************************************************************)
(* Type correctness.                                                       *)
(***************************************************************************)

(* Ending a call, or changing its locals, touches one thread only.         *)
LEMMA DoneTyped ==
  ASSUME TypeOK, NEW t \in Threads, Done(t)
  PROVE  /\ local' \in [Threads -> LocalsType]
         /\ pc' \in [Threads -> {"idle", "insert", "checkpoint", "match", "chain"}]
         /\ pc'[t] = "idle"
         /\ \A u \in Threads \ {t} : pc'[u] = pc[u] /\ local'[u] = local[u]
<1>1. NoLocals \in LocalsType
  BY DEF NoLocals, NoCheckpoint, LocalsType, CheckpointType
<1> QED
  BY <1>1 DEF Done, TypeOK

LEMMA LocalsTyped ==
  ASSUME TypeOK, NEW t \in Threads, NEW l \in LocalsType, local' = [local EXCEPT ![t] = l]
  PROVE  /\ local' \in [Threads -> LocalsType]
         /\ local'[t] = l
         /\ \A u \in Threads \ {t} : local'[u] = local[u]
  BY DEF TypeOK

(* A verifier that goes on to the next checkpoint.                         *)
LEMMA NextCheckpointTyped ==
  ASSUME NEW loc \in LocalsType
  PROVE  LET l == [loc EXCEPT !.at = loc.at + 1]
         IN  l \in LocalsType /\ l.listed = loc.listed /\ l.at = loc.at + 1
  BY DEF LocalsType

LEMMA TypeInit == Init => TypeOK
<1> SUFFICES ASSUME Init PROVE TypeOK
  OBVIOUS
<1>1. NoLocals \in LocalsType
  BY DEF NoLocals, NoCheckpoint, LocalsType, CheckpointType
<1> QED
  BY <1>1, LogConstantsAssumption DEF Init, TypeOK

LEMMA TypeStep == TypeOK /\ [Next]_vars => TypeOK'
<1> SUFFICES ASSUME TypeOK, [Next]_vars
             PROVE  TypeOK'
  OBVIOUS
<1>0. NoLocals \in LocalsType
  BY DEF NoLocals, NoCheckpoint, LocalsType, CheckpointType
<1> USE LogConstantsAssumption
<1>1. ASSUME NEW t \in Threads, ReadLastSignature(t)
      PROVE  TypeOK'
  <2>1. LastSignature(rows) \in Seq(Nat)
    BY LastSignatureTyped DEF TypeOK
  <2> DEFINE l == [local[t] EXCEPT !.sig = LastSignature(rows)]
  <2>2. local[t] \in LocalsType
    BY DEF TypeOK
  <2>3. l \in LocalsType
    BY <2>1, <2>2 DEF LocalsType
  <2>4. local' = [local EXCEPT ![t] = l]
    BY <1>1 DEF ReadLastSignature
  <2> HIDE DEF l
  <2>5. local' \in [Threads -> LocalsType] /\ \A u \in Threads \ {t} : local'[u] = local[u]
    BY <2>3, <2>4, LocalsTyped
  <2> QED
    BY <1>1, <2>5 DEF ReadLastSignature, Free, TypeOK
<1>2. ASSUME NEW t \in Threads, InsertRow(t)
      PROVE  TypeOK'
  <2>1. Row(records + 1, local[t].sig) \in RowType
    BY RowTyped DEF TypeOK, LocalsType
  <2>2. rows' \in Seq(RowType)
    BY <1>2, <2>1, AppendProperties DEF InsertRow, TypeOK
  <2> QED
    BY <1>0, <1>2, <2>2 DEF InsertRow, Done, TypeOK
<1>3. ASSUME NEW t \in Threads, ReadForCheckpoint(t)
      PROVE  TypeOK'
  <2> DEFINE cp == [count |-> Len(rows), last |-> LastSignature(rows), ids |-> Ids(rows)]
             l  == [local[t] EXCEPT !.cp = cp]
  <2>1. LastSignature(rows) \in Seq(Nat) /\ Len(rows) \in Nat
    BY LastSignatureTyped DEF TypeOK
  <2>2. Ids(rows) \in Seq(Nat)
    <3>0. \A i \in 1 .. Len(rows) : rows[i] \in RowType
      BY DEF TypeOK
    <3>1. \A i \in 1 .. Len(rows) : rows[i].id \in Nat
      BY <3>0 DEF RowType
    <3>2. Len(rows) \in Nat /\ DOMAIN rows = 1 .. Len(rows)
      BY DEF TypeOK
    <3>3. Ids(rows) \in [1 .. Len(rows) -> Nat]
      BY <3>1, <3>2 DEF Ids
    <3> QED
      BY <3>2, <3>3, SeqDef
  <2>3. cp \in CheckpointType
    BY <2>1, <2>2 DEF CheckpointType
  <2> HIDE DEF cp
  <2>4. local[t] \in LocalsType
    BY DEF TypeOK
  <2>5. l \in LocalsType
    BY <2>3, <2>4 DEF LocalsType
  <2>6. local' = [local EXCEPT ![t] = l]
    BY <1>3 DEF ReadForCheckpoint, CheckpointOf, cp
  <2> HIDE DEF l
  <2>7. local' \in [Threads -> LocalsType] /\ \A u \in Threads \ {t} : local'[u] = local[u]
    BY <2>5, <2>6, LocalsTyped
  <2> QED
    BY <1>3, <2>7 DEF ReadForCheckpoint, TypeOK
<1>4. ASSUME NEW t \in Threads, WriteCheckpoint(t)
      PROVE  TypeOK'
  <2>1. local[t].cp \in CheckpointType
    BY DEF TypeOK, LocalsType
  <2>2. checkpoints' \in Seq(CheckpointType) /\ Len(checkpoints') = Len(checkpoints) + 1
    BY <1>4, <2>1, AppendProperties DEF WriteCheckpoint, TypeOK
  <2>3. Done(t) /\ pc[t] = "checkpoint" /\ UNCHANGED <<rows, lock, verdict, records, faults>>
    BY <1>4 DEF WriteCheckpoint
  <2>4. \A u \in Threads : pc'[u] = "insert" <=> lock'[StoreOf[u]] = u
    BY <2>3, DoneTyped DEF TypeOK
  <2>5. \A u \in Threads : pc'[u] \in {"match", "chain"} =>
          local'[u].at \in 1 .. local'[u].listed /\ local'[u].listed <= Len(checkpoints')
    <3> SUFFICES ASSUME NEW u \in Threads, pc'[u] \in {"match", "chain"}
                 PROVE  local'[u].at \in 1 .. local'[u].listed /\ local'[u].listed <= Len(checkpoints')
      OBVIOUS
    <3>1. u # t /\ pc[u] = pc'[u] /\ local'[u] = local[u]
      BY <2>3, DoneTyped
    <3>2. local[u].listed \in Nat /\ Len(checkpoints) \in Nat
      BY DEF TypeOK, LocalsType
    <3> QED
      BY <2>2, <3>1, <3>2 DEF TypeOK
  <2> QED
    BY <2>2, <2>3, <2>4, <2>5, DoneTyped DEF TypeOK
<1>5. ASSUME NEW t \in Threads, ListCheckpoints(t)
      PROVE  TypeOK'
  <2>1. CASE checkpoints = <<>>
    BY <1>0, <1>5, <2>1 DEF ListCheckpoints, Conclude, Done, TypeOK
  <2>2. CASE checkpoints # <<>>
    <3> DEFINE l == [local[t] EXCEPT !.listed = Len(checkpoints), !.at = 1, !.faults = faults]
    <3>0. local[t] \in LocalsType /\ faults \in Nat /\ Len(checkpoints) \in Nat \ {0}
      BY <2>2, EmptySeq, LenProperties DEF TypeOK
    <3>1. l \in LocalsType /\ l.listed = Len(checkpoints) /\ l.at = 1
      BY <3>0 DEF LocalsType
    <3>2. local' = [local EXCEPT ![t] = l]
      BY <1>5, <2>2 DEF ListCheckpoints
    <3> HIDE DEF l
    <3>3. /\ local' \in [Threads -> LocalsType] /\ local'[t] = l
          /\ \A u \in Threads \ {t} : local'[u] = local[u]
      BY <3>1, <3>2, LocalsTyped
    <3>4. /\ pc[t] = "idle" /\ pc' = [pc EXCEPT ![t] = "match"]
          /\ verdict' \in [Threads -> {"none", "intact", "broken"}]
          /\ UNCHANGED <<rows, checkpoints, lock, records, faults>>
      BY <1>5, <2>2 DEF ListCheckpoints, TypeOK
    <3> QED
      BY <3>0, <3>1, <3>3, <3>4 DEF TypeOK
  <2> QED
    BY <2>1, <2>2
<1>6. ASSUME NEW t \in Threads, MatchCheckpoint(t)
      PROVE  TypeOK'
  <2>1. CASE Conclude(t, "broken")
    BY <1>0, <1>6, <2>1 DEF MatchCheckpoint, Conclude, Done, TypeOK
  <2>2. CASE pc' = [pc EXCEPT ![t] = "chain"] /\ UNCHANGED <<local, verdict>>
    BY <1>6, <2>2 DEF MatchCheckpoint, TypeOK
  <2> QED
    BY <1>6, <2>1, <2>2 DEF MatchCheckpoint
<1>7. ASSUME NEW t \in Threads, VerifyChain(t)
      PROVE  TypeOK'
  <2>1. ASSUME NEW v \in {"intact", "broken"}, Conclude(t, v)
        PROVE  TypeOK'
    BY <1>0, <1>7, <2>1 DEF VerifyChain, Conclude, Done, TypeOK
  <2>2. CASE pc' = [pc EXCEPT ![t] = "match"]
    <3>1. CASE Conclude(t, "intact") \/ Conclude(t, "broken")
      BY <2>1, <3>1
    <3> DEFINE l == [local[t] EXCEPT !.at = local[t].at + 1]
    <3>2. CASE ~(Conclude(t, "intact") \/ Conclude(t, "broken"))
      <4>1. /\ local' = [local EXCEPT ![t] = l] /\ local[t].at < local[t].listed
            /\ UNCHANGED <<rows, checkpoints, lock, records, faults, verdict>>
        BY <1>7, <3>2 DEF VerifyChain
      <4>0. local[t] \in LocalsType
        BY DEF TypeOK
      <4>2. l \in LocalsType /\ l.listed = local[t].listed /\ l.at = local[t].at + 1
        BY <4>0, NextCheckpointTyped
      <4>3. l.at \in 1 .. l.listed /\ l.listed <= Len(checkpoints)
        BY <1>7, <4>1, <4>2 DEF VerifyChain, TypeOK, LocalsType
      <4> HIDE DEF l
      <4> QED
        BY <1>7, <2>2, <4>1, <4>2, <4>3 DEF VerifyChain, TypeOK
    <3> QED
      BY <3>1, <3>2
  <2> QED
    BY <1>7, <2>1, <2>2 DEF VerifyChain
<1>8. CASE LoseRows
  <2>1. rows' \in Seq(RowType)
    BY <1>8, SubSeqProperties DEF LoseRows, TypeOK
  <2> QED
    BY <1>8, <2>1 DEF LoseRows, TypeOK
<1>9. CASE DamageRow
  <2>1. PICK i \in DOMAIN rows : rows' = [rows EXCEPT ![i].id = Damaged]
    BY <1>9 DEF DamageRow
  <2>2. [rows[i] EXCEPT !.id = Damaged] \in RowType
    <3>1. rows[i] \in RowType
      BY ElementOfSeq DEF TypeOK
    <3> QED
      BY <3>1 DEF RowType, Damaged
  <2>3. rows' \in Seq(RowType)
    BY <2>1, <2>2, ExceptSeq DEF TypeOK
  <2> QED
    BY <1>9, <2>3 DEF DamageRow, TypeOK
<1>10. CASE UNCHANGED vars
  BY <1>10 DEF vars, TypeOK
<1> QED
  BY <1>1, <1>2, <1>3, <1>4, <1>5, <1>6, <1>7, <1>8, <1>9, <1>10 DEF Next

(* Every variable keeps its type, and a Store's lock is held exactly by    *)
(* the thread between its read of the last signature and its insert.       *)
THEOREM TypeCorrect == Spec => []TypeOK
  BY TypeInit, TypeStep, PTL DEF Spec

(***************************************************************************)
(* The log nobody damages.                                                 *)
(***************************************************************************)

LEMMA UntouchedStep ==
  ASSUME \A t, u \in Threads : StoreOf[t] = StoreOf[u]
  PROVE  TypeOK /\ UntouchedLogAccount /\ [Next]_vars => UntouchedLogAccount'
<1> SUFFICES ASSUME TypeOK, UntouchedLogAccount, [Next]_vars, faults' = 0
             PROVE  UntouchedLogAccount'
  BY DEF UntouchedLogAccount
<1>0. faults = 0 /\ ~LoseRows /\ ~DamageRow
  <2>1. LoseRows \/ DamageRow => faults' = faults + 1
    BY DEF LoseRows, DamageRow
  <2>2. faults \in Nat
    BY DEF TypeOK
  <2>3. ~LoseRows /\ ~DamageRow
    BY <2>1, <2>2
  <2>4. UNCHANGED vars => faults' = faults
    BY DEF vars
  <2>5. ASSUME NEW t \in Threads,
               \/ ReadLastSignature(t) \/ InsertRow(t)
               \/ ReadForCheckpoint(t) \/ WriteCheckpoint(t)
               \/ ListCheckpoints(t) \/ MatchCheckpoint(t) \/ VerifyChain(t)
        PROVE  faults' = faults
    BY <2>5 DEF ReadLastSignature, InsertRow, ReadForCheckpoint, WriteCheckpoint,
                ListCheckpoints, MatchCheckpoint, VerifyChain
  <2> QED
    BY <2>3, <2>4, <2>5 DEF Next
<1>a. /\ ChainVerifies(rows)
      /\ \A t \in Threads : pc[t] = "insert" => local[t].sig = LastSignature(rows)
      /\ \A c \in DOMAIN checkpoints : CheckpointMatches(rows, checkpoints[c])
      /\ \A t \in Threads : pc[t] = "checkpoint" => CheckpointMatches(rows, local[t].cp)
      /\ \A t \in Threads : verdict[t] # "broken"
  BY <1>0 DEF UntouchedLogAccount
<1>1. ASSUME NEW t \in Threads, ReadLastSignature(t)
      PROVE  UntouchedLogAccount'
  <2>1. /\ pc' = [pc EXCEPT ![t] = "insert"] /\ UNCHANGED <<rows, checkpoints, verdict>>
        /\ local' = [local EXCEPT ![t].sig = LastSignature(rows)]
    BY <1>1 DEF ReadLastSignature
  <2>2. local'[t].sig = LastSignature(rows)
    BY <2>1 DEF TypeOK, LocalsType
  <2> QED
    BY <1>a, <2>1, <2>2 DEF UntouchedLogAccount, TypeOK
<1>2. ASSUME NEW t \in Threads, InsertRow(t)
      PROVE  UntouchedLogAccount'
  <2> DEFINE new == Row(records + 1, LastSignature(rows))
  <2>1. /\ rows' = Append(rows, new) /\ Done(t)
        /\ pc[t] = "insert" /\ UNCHANGED <<checkpoints, verdict>>
    BY <1>2, <1>a DEF InsertRow
  <2>2. new \in RowType
    BY RowTyped, LastSignatureTyped DEF TypeOK
  <2>3. ChainVerifies(rows')
    BY <1>a, <2>1, ChainExtends DEF TypeOK
  <2>4. \A u \in Threads : pc'[u] # "insert"
    BY <2>1, DoneTyped DEF TypeOK
  <2> HIDE DEF new
  <2>5. \A c \in DOMAIN checkpoints : CheckpointMatches(rows', checkpoints[c])
    <3> SUFFICES ASSUME NEW c \in DOMAIN checkpoints
                 PROVE  CheckpointMatches(rows', checkpoints[c])
      OBVIOUS
    <3>1. checkpoints[c] \in CheckpointType
      BY DEF TypeOK
    <3> QED
      BY <1>a, <2>1, <2>2, <3>1, MatchesExtends DEF TypeOK
  <2>6. \A u \in Threads : pc'[u] = "checkpoint" => CheckpointMatches(rows', local'[u].cp)
    <3> SUFFICES ASSUME NEW u \in Threads, pc'[u] = "checkpoint"
                 PROVE  CheckpointMatches(rows', local'[u].cp)
      OBVIOUS
    <3>1. pc[u] = "checkpoint" /\ local'[u] = local[u]
      BY <2>1, DoneTyped
    <3>2. local[u].cp \in CheckpointType
      BY DEF TypeOK, LocalsType
    <3> QED
      BY <1>a, <2>1, <2>2, <3>1, <3>2, MatchesExtends DEF TypeOK
  <2> QED
    BY <1>a, <2>1, <2>3, <2>4, <2>5, <2>6 DEF UntouchedLogAccount
<1>3. ASSUME NEW t \in Threads, ReadForCheckpoint(t)
      PROVE  UntouchedLogAccount'
  <2> DEFINE cp == [count |-> Len(rows), last |-> LastSignature(rows), ids |-> Ids(rows)]
             l  == [local[t] EXCEPT !.cp = cp]
  <2>1. /\ pc' = [pc EXCEPT ![t] = "checkpoint"] /\ UNCHANGED <<rows, checkpoints, verdict>>
        /\ local' = [local EXCEPT ![t] = l]
    BY <1>3 DEF ReadForCheckpoint, CheckpointOf
  <2>2. cp.count = Len(rows) /\ cp.last = LastSignature(rows)
    OBVIOUS
  <2>3. CheckpointMatches(rows, cp)
    BY <2>2, EmptySeq, LenProperties DEF CheckpointMatches, LastSignature, TypeOK
  <2> HIDE DEF cp
  <2>4. l.cp = cp
    BY DEF TypeOK, LocalsType
  <2> HIDE DEF l
  <2>5. local'[t] = l /\ \A u \in Threads \ {t} : local'[u] = local[u] /\ pc'[u] = pc[u]
    BY <2>1 DEF TypeOK
  <2>6. pc'[t] = "checkpoint"
    BY <2>1 DEF TypeOK
  <2> QED
    BY <1>a, <2>1, <2>3, <2>4, <2>5, <2>6 DEF UntouchedLogAccount
<1>4. ASSUME NEW t \in Threads, WriteCheckpoint(t)
      PROVE  UntouchedLogAccount'
  <2>1. /\ pc[t] = "checkpoint" /\ Done(t) /\ UNCHANGED <<rows, verdict>>
        /\ checkpoints' = Append(checkpoints, local[t].cp)
    BY <1>4 DEF WriteCheckpoint
  <2>2. local[t].cp \in CheckpointType
    BY DEF TypeOK, LocalsType
  <2>3. \A c \in DOMAIN checkpoints' :
          \/ c \in DOMAIN checkpoints /\ checkpoints'[c] = checkpoints[c]
          \/ checkpoints'[c] = local[t].cp
    BY <2>1, <2>2, AppendProperties DEF TypeOK
  <2> QED
    BY <1>a, <2>1, <2>3, DoneTyped DEF UntouchedLogAccount
<1>5. ASSUME NEW t \in Threads, Done(t), UNCHANGED <<rows, checkpoints>>,
             \A u \in Threads : verdict'[u] # "broken"
      PROVE  UntouchedLogAccount'
  BY <1>a, <1>5, DoneTyped DEF UntouchedLogAccount
<1>6. ASSUME NEW t \in Threads, UNCHANGED <<rows, checkpoints>>,
             \A u \in Threads : verdict'[u] # "broken",
             \A u \in Threads \ {t} : pc'[u] = pc[u] /\ local'[u] = local[u],
             pc'[t] \in {"match", "chain"}
      PROVE  UntouchedLogAccount'
  BY <1>a, <1>6 DEF UntouchedLogAccount
<1>7. ASSUME NEW t \in Threads, ListCheckpoints(t)
      PROVE  UntouchedLogAccount'
  <2>1. \A u \in Threads : verdict'[u] # "broken"
    BY <1>a, <1>7 DEF ListCheckpoints, Conclude, TypeOK
  <2>2. CASE checkpoints = <<>>
    BY <1>5, <1>7, <2>1, <2>2 DEF ListCheckpoints, Conclude
  <2>3. CASE checkpoints # <<>>
    <3>1. \A u \in Threads \ {t} : pc'[u] = pc[u] /\ local'[u] = local[u]
      BY <1>7, <2>3 DEF ListCheckpoints, TypeOK
    <3>2. pc'[t] = "match"
      BY <1>7, <2>3 DEF ListCheckpoints, TypeOK
    <3> QED
      BY <1>6, <1>7, <2>1, <3>1, <3>2 DEF ListCheckpoints
  <2> QED
    BY <2>2, <2>3
<1>8. ASSUME NEW t \in Threads, MatchCheckpoint(t)
      PROVE  UntouchedLogAccount'
  <2>1. local[t].at \in DOMAIN checkpoints
    BY <1>8 DEF MatchCheckpoint, TypeOK, LocalsType
  <2>2. CheckpointMatches(rows, checkpoints[local[t].at])
    BY <1>a, <2>1
  <2> QED
    BY <1>6, <1>8, <1>a, <2>2 DEF MatchCheckpoint, TypeOK
<1>9. ASSUME NEW t \in Threads, VerifyChain(t)
      PROVE  UntouchedLogAccount'
  <2>1. CASE Conclude(t, "intact")
    <3>1. \A u \in Threads : verdict'[u] # "broken"
      BY <1>a, <2>1 DEF Conclude, TypeOK
    <3> QED
      BY <1>5, <1>9, <2>1, <3>1 DEF VerifyChain, Conclude
  <2>2. CASE ~Conclude(t, "intact")
    <3>1. /\ pc' = [pc EXCEPT ![t] = "match"] /\ UNCHANGED <<rows, checkpoints, verdict>>
          /\ local' = [local EXCEPT ![t].at = local[t].at + 1]
      BY <1>9, <1>a, <2>2 DEF VerifyChain
    <3> QED
      BY <1>6, <1>a, <3>1 DEF TypeOK
  <2> QED
    BY <2>1, <2>2
<1>10. CASE UNCHANGED vars
  BY <1>a, <1>10 DEF vars, UntouchedLogAccount
<1> QED
  BY <1>0, <1>1, <1>2, <1>3, <1>4, <1>7, <1>8, <1>9, <1>10 DEF Next

LEMMA UntouchedInit == Init => UntouchedLogAccount
  BY DEF Init, UntouchedLogAccount, ChainVerifies

(* Threads that share one Store object never break the chain: append_audit *)
(* is atomic under its lock, for any number of threads and records.        *)
THEOREM OneStoreKeepsChain ==
  ASSUME \A t, u \in Threads : StoreOf[t] = StoreOf[u]
  PROVE  Spec => []ChainUnbroken
<1>1. UntouchedLogAccount => ChainUnbroken
  BY DEF UntouchedLogAccount, ChainUnbroken
<1> QED
  BY <1>1, TypeInit, TypeStep, UntouchedInit, UntouchedStep, PTL DEF Spec

(* Under the same assumption verify_all never reports an untouched log as  *)
(* broken, wherever appends and checkpoints fall between its reads.        *)
THEOREM OneStoreNoFalseAlarm ==
  ASSUME \A t, u \in Threads : StoreOf[t] = StoreOf[u]
  PROVE  Spec => []NoFalseAlarm
<1>1. TypeOK /\ UntouchedLogAccount => NoFalseAlarm
  BY DEF UntouchedLogAccount, NoFalseAlarm, TypeOK
<1> QED
  BY <1>1, TypeInit, TypeStep, UntouchedInit, UntouchedStep, PTL DEF Spec

(***************************************************************************)
(* The log somebody damages.                                               *)
(***************************************************************************)

(* A step adds one row, signed over a record that is new, or keeps, loses  *)
(* and damages rows.                                                       *)
RowsGrow ==
  /\ Len(rows') = Len(rows) + 1
  /\ \A i \in 1 .. Len(rows) : rows'[i] = rows[i]
  /\ LET new == rows'[Len(rows) + 1].sig
     IN  new # <<>> /\ new[Len(new)] = records + 1
  /\ records' = records + 1

RowsAreKept ==
  /\ Len(rows') <= Len(rows)
  /\ \A i \in 1 .. Len(rows') :
       rows'[i].sig = rows[i].sig /\ rows'[i].id \in {rows[i].id, Damaged}
  /\ records' = records

LEMMA RowSteps ==
  ASSUME TypeOK, [Next]_vars
  PROVE  RowsGrow \/ RowsAreKept
<1>0. rows \in Seq(RowType) /\ Len(rows) \in Nat
  BY DEF TypeOK
<1>1. UNCHANGED <<rows, records>> => RowsAreKept
  BY <1>0 DEF RowsAreKept
<1>2. ASSUME NEW t \in Threads, InsertRow(t)
      PROVE  RowsGrow
  <2> DEFINE row == Row(records + 1, local[t].sig)
  <2>1. local[t].sig \in Seq(Nat) /\ records + 1 \in Nat
    BY DEF TypeOK, LocalsType
  <2>2. row \in RowType /\ row.sig = Append(local[t].sig, records + 1)
    BY <2>1, RowTyped DEF Sign
  <2>3. row.sig # <<>> /\ row.sig[Len(row.sig)] = records + 1
    BY <2>1, <2>2, AppendProperties
  <2>4. rows' = Append(rows, row) /\ records' = records + 1
    BY <1>2 DEF InsertRow
  <2> HIDE DEF row
  <2> QED
    BY <1>0, <2>2, <2>3, <2>4, AppendProperties DEF RowsGrow
<1>3. CASE LoseRows
  <2>1. PICK n \in 0 .. Len(rows) - 1 : rows' = SubSeq(rows, 1, n)
    BY <1>3 DEF LoseRows
  <2>2. Len(rows') = n /\ \A i \in 1 .. n : rows'[i] = rows[i]
    BY <1>0, <2>1
  <2> QED
    BY <1>0, <1>3, <2>2 DEF LoseRows, RowsAreKept
<1>4. CASE DamageRow
  <2>1. PICK i \in DOMAIN rows : rows' = [rows EXCEPT ![i].id = Damaged]
    BY <1>4 DEF DamageRow
  <2> DEFINE row == [rows[i] EXCEPT !.id = Damaged]
  <2>2. row.sig = rows[i].sig /\ row.id = Damaged
    <3>1. rows[i] \in RowType
      BY <1>0
    <3> QED
      BY <3>1 DEF RowType
  <2>3. rows' = [rows EXCEPT ![i] = row]
    BY <2>1
  <2> HIDE DEF row
  <2>4. Len(rows') = Len(rows) /\ \A j \in 1 .. Len(rows) : rows'[j] = IF j = i THEN row ELSE rows[j]
    BY <1>0, <2>1, <2>3
  <2> QED
    BY <1>0, <1>4, <2>2, <2>4 DEF DamageRow, RowsAreKept
<1>5. ASSUME NEW t \in Threads,
             \/ ReadLastSignature(t) \/ ReadForCheckpoint(t) \/ WriteCheckpoint(t)
             \/ ListCheckpoints(t) \/ MatchCheckpoint(t) \/ VerifyChain(t)
      PROVE  UNCHANGED <<rows, records>>
  BY <1>5 DEF ReadLastSignature, ReadForCheckpoint, WriteCheckpoint,
              ListCheckpoints, MatchCheckpoint, VerifyChain
<1>6. CASE UNCHANGED vars
  BY <1>6, <1>1 DEF vars
<1> QED
  BY <1>1, <1>2, <1>3, <1>4, <1>5, <1>6 DEF Next

LEMMA SignedStep == TypeOK /\ RowsAreSigned /\ [Next]_vars => RowsAreSigned'
<1> SUFFICES ASSUME TypeOK, RowsAreSigned, [Next]_vars
             PROVE  RowsAreSigned'
  OBVIOUS
<1>0. /\ DOMAIN rows = 1 .. Len(rows) /\ Len(rows) \in Nat /\ records \in Nat
      /\ DOMAIN rows' = 1 .. Len(rows') /\ Len(rows') \in Nat
  BY TypeStep DEF TypeOK
<1>1. CASE RowsGrow
  BY <1>0, <1>1 DEF RowsGrow, RowsAreSigned
<1>2. CASE RowsAreKept
  BY <1>0, <1>2 DEF RowsAreKept, RowsAreSigned
<1> QED
  BY <1>1, <1>2, RowSteps

(* A checkpoint pins its rows for good.                                    *)
LEMMA PinsStep ==
  ASSUME TypeOK, [Next]_vars, NEW cp \in CheckpointType, Pins(cp)
  PROVE  Pins(cp)'
<1>0. /\ Len(rows) \in Nat /\ Len(rows') \in Nat /\ records \in Nat
      /\ cp.count \in Nat
  BY TypeStep DEF TypeOK, CheckpointType
<1>1. CASE RowsGrow
  <2>1. records' = records + 1 /\ Len(rows') = Len(rows) + 1
    BY <1>1 DEF RowsGrow
  <2>2. CASE cp.count = Len(rows) + 1
    <3>1. cp.last # <<>> /\ cp.last[Len(cp.last)] \in 1 .. records
      BY <1>0, <2>2 DEF Pins
    <3>2. rows'[cp.count].sig # cp.last
      BY <1>0, <1>1, <2>2, <3>1 DEF RowsGrow
    <3> QED
      BY <1>0, <2>1, <3>1, <3>2 DEF Pins
  <2>3. CASE cp.count # Len(rows) + 1
    <3>1. Len(rows') >= cp.count => \A i \in 1 .. cp.count : i \in 1 .. Len(rows) /\ rows'[i] = rows[i]
      BY <1>0, <1>1, <2>1, <2>3 DEF RowsGrow
    <3> QED
      BY <1>0, <2>1, <2>3, <3>1 DEF Pins
  <2> QED
    BY <2>2, <2>3
<1>2. CASE RowsAreKept
  <2>1. records' = records /\ Len(rows') <= Len(rows)
    BY <1>2 DEF RowsAreKept
  <2>2. Len(rows') >= cp.count =>
          \A i \in 1 .. cp.count : /\ rows'[i].sig = rows[i].sig
                                   /\ rows'[i].id \in {rows[i].id, Damaged}
    BY <1>0, <1>2 DEF RowsAreKept
  <2> QED
    BY <1>0, <2>1, <2>2 DEF Pins
<1> QED
  BY <1>1, <1>2, RowSteps

(* The checkpoint a read of the rows makes pins them.                      *)
LEMMA PinsRead ==
  ASSUME TypeOK, RowsAreSigned, NEW cp,
         cp.count = Len(rows), cp.last = LastSignature(rows), cp.ids = Ids(rows)
  PROVE  Pins(cp)
<1>1. /\ rows \in Seq(RowType) /\ DOMAIN rows = 1 .. Len(rows) /\ Len(rows) \in Nat
  BY DEF TypeOK
<1>2. Len(cp.ids) = Len(rows) /\ \A i \in 1 .. Len(rows) : cp.ids[i] = rows[i].id
  BY <1>1 DEF Ids
<1>3. Len(rows) > 0 => rows # <<>> /\ cp.last = rows[Len(rows)].sig /\ Len(rows) \in DOMAIN rows
  BY <1>1 DEF LastSignature
<1> QED
  BY <1>1, <1>2, <1>3 DEF Pins, RowsAreSigned

(* Where the checkpoints of the next state come from.                      *)
LEMMA CheckpointSteps ==
  ASSUME TypeOK, [Next]_vars
  PROVE  /\ \A c \in DOMAIN checkpoints : c \in DOMAIN checkpoints' /\ checkpoints'[c] = checkpoints[c]
         /\ \A c \in DOMAIN checkpoints' :
              \/ c \in DOMAIN checkpoints
              \/ \E t \in Threads : pc[t] = "checkpoint" /\ checkpoints'[c] = local[t].cp
         /\ \A t \in Threads : pc'[t] = "checkpoint" =>
              \/ pc[t] = "checkpoint" /\ local'[t] = local[t]
              \/ ReadForCheckpoint(t)
<1>1. /\ \A c \in DOMAIN checkpoints : c \in DOMAIN checkpoints' /\ checkpoints'[c] = checkpoints[c]
      /\ \A c \in DOMAIN checkpoints' :
           \/ c \in DOMAIN checkpoints
           \/ \E t \in Threads : pc[t] = "checkpoint" /\ checkpoints'[c] = local[t].cp
  <2>1. CASE UNCHANGED checkpoints
    BY <2>1
  <2>2. ASSUME NEW t \in Threads, WriteCheckpoint(t)
        PROVE  /\ pc[t] = "checkpoint"
               /\ \A c \in DOMAIN checkpoints : c \in DOMAIN checkpoints' /\ checkpoints'[c] = checkpoints[c]
               /\ \A c \in DOMAIN checkpoints' : c \in DOMAIN checkpoints \/ checkpoints'[c] = local[t].cp
    <3>1. /\ pc[t] = "checkpoint" /\ checkpoints \in Seq(CheckpointType) /\ local[t].cp \in CheckpointType
          /\ checkpoints' = Append(checkpoints, local[t].cp)
      BY <2>2 DEF WriteCheckpoint, TypeOK, LocalsType
    <3> QED
      BY <3>1, AppendProperties
  <2>3. (\E t \in Threads : WriteCheckpoint(t)) \/ UNCHANGED checkpoints
    BY DEF Next, vars, ReadLastSignature, InsertRow, ReadForCheckpoint, ListCheckpoints,
           MatchCheckpoint, VerifyChain, LoseRows, DamageRow
  <2> QED
    BY <2>1, <2>2, <2>3
<1>2. ASSUME NEW t \in Threads, pc'[t] = "checkpoint"
      PROVE  \/ pc[t] = "checkpoint" /\ local'[t] = local[t]
             \/ ReadForCheckpoint(t)
  <2>1. ASSUME NEW u \in Threads,
               \/ ReadLastSignature(u) \/ InsertRow(u) \/ WriteCheckpoint(u)
               \/ ListCheckpoints(u) \/ MatchCheckpoint(u) \/ VerifyChain(u)
        PROVE  u # t /\ pc[t] = "checkpoint" /\ local'[t] = local[t]
    BY <1>2, <2>1
    DEF ReadLastSignature, InsertRow, WriteCheckpoint, ListCheckpoints, MatchCheckpoint,
        VerifyChain, Conclude, Done, TypeOK
  <2>2. ASSUME NEW u \in Threads \ {t}, ReadForCheckpoint(u)
        PROVE  pc[t] = "checkpoint" /\ local'[t] = local[t]
    BY <1>2, <2>2 DEF ReadForCheckpoint, TypeOK
  <2>3. CASE LoseRows \/ DamageRow \/ UNCHANGED vars
    BY <1>2, <2>3 DEF LoseRows, DamageRow, vars
  <2> QED
    BY <2>1, <2>2, <2>3 DEF Next
<1> QED
  BY <1>1, <1>2

LEMMA PinningStep == TypeOK /\ PinningAccount /\ [Next]_vars => PinningAccount'
<1> SUFFICES ASSUME TypeOK, PinningAccount, [Next]_vars
             PROVE  PinningAccount'
  OBVIOUS
<1>0. RowsAreSigned'
  BY SignedStep DEF PinningAccount
<1>1. ASSUME NEW c \in DOMAIN checkpoints'
      PROVE  Pins(checkpoints[c])'
  <2>1. PICK cp \in CheckpointType : cp = checkpoints'[c] /\ Pins(cp)
    <3>1. CASE c \in DOMAIN checkpoints
      BY <3>1, CheckpointSteps DEF PinningAccount, TypeOK
    <3>2. CASE c \notin DOMAIN checkpoints
      <4>1. PICK t \in Threads : pc[t] = "checkpoint" /\ checkpoints'[c] = local[t].cp
        BY <3>2, CheckpointSteps
      <4>2. local[t].cp \in CheckpointType /\ Pins(local[t].cp)
        BY <4>1 DEF PinningAccount, TypeOK, LocalsType
      <4> QED
        BY <4>1, <4>2
    <3> QED
      BY <3>1, <3>2
  <2>2. Pins(cp)'
    BY <2>1, PinsStep
  <2> QED
    BY <2>1, <2>2 DEF Pins
<1>2. ASSUME NEW t \in Threads, pc'[t] = "checkpoint"
      PROVE  Pins(local[t].cp)'
  <2>1. PICK cp \in CheckpointType : cp = local'[t].cp /\ Pins(cp)
    <3>1. CASE pc[t] = "checkpoint" /\ local'[t] = local[t]
      BY <3>1 DEF PinningAccount, TypeOK, LocalsType
    <3>2. CASE ReadForCheckpoint(t)
      <4> DEFINE cp == [count |-> Len(rows), last |-> LastSignature(rows), ids |-> Ids(rows)]
                 l  == [local[t] EXCEPT !.cp = cp]
      <4>1. local' = [local EXCEPT ![t] = l]
        BY <3>2 DEF ReadForCheckpoint, CheckpointOf
      <4>2. l.cp = cp
        BY DEF TypeOK, LocalsType
      <4>3. Pins(cp)
        BY PinsRead DEF PinningAccount
      <4> HIDE DEF l, cp
      <4>4. local'[t].cp = cp
        BY <4>1, <4>2 DEF TypeOK
      <4>5. cp \in CheckpointType
        <5>1. local'[t] \in LocalsType
          BY TypeStep DEF TypeOK
        <5> QED
          BY <4>4, <5>1 DEF LocalsType
      <4> QED
        BY <4>3, <4>4, <4>5
    <3> QED
      BY <1>2, <3>1, <3>2, CheckpointSteps
  <2>2. Pins(cp)'
    BY <2>1, PinsStep
  <2> QED
    BY <2>1, <2>2 DEF Pins
<1> QED
  BY <1>0, <1>1, <1>2 DEF PinningAccount

(* A checkpoint that matched goes on matching until something is lost or   *)
(* damaged.                                                                *)
LEMMA MatchStays ==
  ASSUME TypeOK, [Next]_vars, faults' = faults, NEW cp \in CheckpointType,
         CheckpointMatches(rows, cp)
  PROVE  CheckpointMatches(rows', cp)
<1>1. CASE UNCHANGED rows
  BY <1>1
<1>2. ASSUME NEW t \in Threads, InsertRow(t)
      PROVE  CheckpointMatches(rows', cp)
  <2>1. Row(records + 1, local[t].sig) \in RowType
    BY RowTyped DEF TypeOK, LocalsType
  <2> QED
    BY <1>2, <2>1, MatchesExtends DEF InsertRow, TypeOK
<1>3. ~LoseRows /\ ~DamageRow
  <2>1. LoseRows \/ DamageRow => faults' = faults + 1
    BY DEF LoseRows, DamageRow
  <2> QED
    BY <2>1 DEF TypeOK
<1>4. (\E t \in Threads : InsertRow(t)) \/ UNCHANGED rows
  BY <1>3 DEF Next, vars, ReadLastSignature, ReadForCheckpoint, WriteCheckpoint, ListCheckpoints,
              MatchCheckpoint, VerifyChain
<1> QED
  BY <1>1, <1>2, <1>4

(* A thread inside verify_all goes on by its own step only.                *)
LEMMA SweepSteps ==
  ASSUME TypeOK, [Next]_vars, NEW t \in Threads, pc'[t] \in {"match", "chain"}
  PROVE  \/ pc'[t] = pc[t] /\ local'[t] = local[t] /\ verdict'[t] = verdict[t]
         \/ ListCheckpoints(t) \/ MatchCheckpoint(t) \/ VerifyChain(t)
<1>1. ASSUME NEW u \in Threads \ {t},
             \/ ReadLastSignature(u) \/ InsertRow(u) \/ ReadForCheckpoint(u) \/ WriteCheckpoint(u)
             \/ ListCheckpoints(u) \/ MatchCheckpoint(u) \/ VerifyChain(u)
      PROVE  pc'[t] = pc[t] /\ local'[t] = local[t] /\ verdict'[t] = verdict[t]
  BY <1>1 DEF ReadLastSignature, InsertRow, ReadForCheckpoint, WriteCheckpoint, ListCheckpoints,
              MatchCheckpoint, VerifyChain, Conclude, Done, TypeOK
<1>2. ~ReadLastSignature(t) /\ ~InsertRow(t) /\ ~ReadForCheckpoint(t) /\ ~WriteCheckpoint(t)
  BY DEF ReadLastSignature, InsertRow, ReadForCheckpoint, WriteCheckpoint, Done, TypeOK
<1>3. CASE LoseRows \/ DamageRow \/ UNCHANGED vars
  BY <1>3 DEF LoseRows, DamageRow, vars
<1> QED
  BY <1>1, <1>2, <1>3 DEF Next

LEMMA FaultsGrow ==
  ASSUME TypeOK, [Next]_vars
  PROVE  faults' \in Nat /\ faults <= faults'
<1>1. faults \in Nat
  BY DEF TypeOK
<1>2. faults' = faults \/ faults' = faults + 1
  BY DEF Next, vars, ReadLastSignature, InsertRow, ReadForCheckpoint, WriteCheckpoint,
         ListCheckpoints, MatchCheckpoint, VerifyChain, LoseRows, DamageRow
<1> QED
  BY <1>1, <1>2

LEMMA SweepStep == TypeOK /\ SweepAccount /\ [Next]_vars => SweepAccount'
<1> SUFFICES ASSUME TypeOK, SweepAccount, [Next]_vars,
                    NEW t \in Threads, pc'[t] \in {"match", "chain"}
             PROVE  /\ verdict'[t] = "none"
                    /\ local'[t].faults <= faults'
                    /\ local'[t].faults = faults' =>
                         \A c \in Matched(t)' : CheckpointMatches(rows', checkpoints'[c])
  BY DEF SweepAccount
<1>0. faults \in Nat /\ faults' \in Nat /\ faults <= faults' /\ local[t] \in LocalsType
  BY FaultsGrow DEF TypeOK
<1>a. pc[t] \in {"match", "chain"} =>
        /\ verdict[t] = "none"
        /\ local[t].faults <= faults
        /\ local[t].faults = faults => \A c \in Matched(t) : CheckpointMatches(rows, checkpoints[c])
        /\ local[t].at \in 1 .. local[t].listed
        /\ local[t].listed <= Len(checkpoints)
  BY DEF SweepAccount, TypeOK
<1>1. CASE pc'[t] = pc[t] /\ local'[t] = local[t] /\ verdict'[t] = verdict[t]
  <2>1. Matched(t)' = Matched(t)
    BY <1>1 DEF Matched
  <2>2. ASSUME local[t].faults = faults', NEW c \in Matched(t)
        PROVE  CheckpointMatches(rows', checkpoints'[c])
    <3>1. faults' = faults /\ local[t].faults = faults
      BY <1>0, <1>1, <1>a, <2>2 DEF LocalsType
    <3>2. c \in DOMAIN checkpoints
      BY <1>0, <1>1, <1>a DEF Matched, TypeOK, LocalsType
    <3>3. checkpoints[c] \in CheckpointType /\ checkpoints'[c] = checkpoints[c]
      BY <3>2, CheckpointSteps DEF TypeOK
    <3>4. CheckpointMatches(rows, checkpoints[c])
      BY <1>1, <1>a, <3>1
    <3> QED
      BY <3>1, <3>3, <3>4, MatchStays
  <2> QED
    BY <1>0, <1>1, <1>a, <2>1, <2>2 DEF LocalsType
<1>2. CASE ListCheckpoints(t)
  <2> DEFINE l == [local[t] EXCEPT !.listed = Len(checkpoints), !.at = 1, !.faults = faults]
  <2>1. /\ local' = [local EXCEPT ![t] = l] /\ pc' = [pc EXCEPT ![t] = "match"]
        /\ verdict' = [verdict EXCEPT ![t] = "none"] /\ faults' = faults
    BY <1>2 DEF ListCheckpoints, Conclude, Done, TypeOK
  <2>2. l.at = 1 /\ l.faults = faults
    BY <1>0 DEF LocalsType
  <2> HIDE DEF l
  <2>3. local'[t] = l /\ verdict'[t] = "none" /\ pc'[t] = "match"
    BY <2>1 DEF TypeOK
  <2>4. Matched(t)' = {}
    BY <2>2, <2>3 DEF Matched
  <2> QED
    BY <1>0, <2>1, <2>2, <2>3, <2>4
<1>3. CASE MatchCheckpoint(t)
  <2>1. /\ CheckpointMatches(rows, checkpoints[local[t].at])
        /\ pc' = [pc EXCEPT ![t] = "chain"] /\ pc[t] = "match"
        /\ UNCHANGED <<local, verdict, rows, checkpoints, faults>>
    BY <1>3 DEF MatchCheckpoint, Conclude, Done, TypeOK
  <2>2. Matched(t)' \subseteq Matched(t) \cup {local[t].at}
    BY <2>1 DEF Matched
  <2> QED
    BY <1>a, <2>1, <2>2
<1>4. CASE VerifyChain(t)
  <2> DEFINE l == [local[t] EXCEPT !.at = local[t].at + 1]
  <2>1. /\ pc[t] = "chain" /\ local' = [local EXCEPT ![t] = l] /\ pc' = [pc EXCEPT ![t] = "match"]
        /\ UNCHANGED <<verdict, rows, checkpoints, faults>>
    BY <1>4 DEF VerifyChain, Conclude, Done, TypeOK
  <2>2. l.at = local[t].at + 1 /\ l.listed = local[t].listed /\ l.faults = local[t].faults
    BY <1>0 DEF LocalsType
  <2> HIDE DEF l
  <2>3. local'[t] = l /\ pc'[t] = "match"
    BY <2>1 DEF TypeOK
  <2>4. Matched(t)' = Matched(t)
    BY <1>0, <1>a, <2>1, <2>2, <2>3 DEF Matched, LocalsType
  <2> QED
    BY <1>a, <2>1, <2>2, <2>3, <2>4
<1> QED
  BY <1>1, <1>2, <1>3, <1>4, SweepSteps

(* In a chain that verifies, a checkpoint that matches finds its own rows. *)
LEMMA MatchedIsPinned ==
  ASSUME TypeOK, RowsAreSigned, ChainVerifies(rows),
         NEW cp \in CheckpointType, Pins(cp), CheckpointMatches(rows, cp)
  PROVE  PinnedRowsIntact(cp)
<1> DEFINE n == cp.count
<1>1. /\ n \in Nat /\ cp.ids \in Seq(Nat) /\ Len(cp.ids) = n /\ Len(rows) \in Nat /\ n <= Len(rows)
      /\ rows \in Seq(RowType)
  BY DEF CheckpointType, Pins, CheckpointMatches, TypeOK
<1>2. ASSUME NEW i \in 1 .. n
      PROVE  rows[i].id = cp.ids[i]
  <2>1. rows[i].id \in {cp.ids[i], Damaged}
    BY <1>1 DEF Pins, CheckpointMatches
  <2>2. i \in DOMAIN rows /\ rows[i] \in RowType
    BY <1>1
  <2>3. rows[i].sig = Append(rows[i].prev, rows[i].id) /\ rows[i].prev \in Seq(Nat)
    BY <2>2 DEF ChainVerifies, Sign, RowType
  <2>4. rows[i].sig[Len(rows[i].sig)] = rows[i].id
    BY <2>2, <2>3, AppendProperties DEF RowType
  <2>5. rows[i].sig[Len(rows[i].sig)] \in 1 .. records
    BY <2>2 DEF RowsAreSigned
  <2> QED
    BY <2>1, <2>4, <2>5 DEF Damaged, TypeOK
<1>3. Ids(rows) = [i \in 1 .. Len(rows) |-> rows[i].id]
  BY <1>1 DEF Ids
<1>4. Ids(rows) \in Seq(Nat) /\ Len(Ids(rows)) = Len(rows)
  <2>1. \A i \in 1 .. Len(rows) : rows[i] \in RowType
    BY <1>1
  <2>2. \A i \in 1 .. Len(rows) : rows[i].id \in Nat
    BY <2>1 DEF RowType
  <2>3. Ids(rows) \in [1 .. Len(rows) -> Nat]
    BY <1>3, <2>2
  <2> QED
    BY <1>1, <2>3, SeqDef
<1> DEFINE s == SubSeq(Ids(rows), 1, n)
<1>5. s \in Seq(Nat) /\ Len(s) = n /\ \A i \in 1 .. n : s[i] = Ids(rows)[i]
  BY <1>1, <1>4
<1> HIDE DEF s
<1>6. ASSUME NEW i \in 1 .. n
      PROVE  s[i] = cp.ids[i]
  <2>1. i \in 1 .. Len(rows)
    BY <1>1
  <2>2. Ids(rows)[i] = rows[i].id
    BY <1>3, <2>1
  <2> QED
    BY <1>2, <1>5, <2>2
<1>7. s = cp.ids
  BY <1>1, <1>5, <1>6, SeqEqual
<1> QED
  BY <1>1, <1>7 DEF PinnedRowsIntact, s

(* A verdict is only ever the answer of the thread's own verify_all.       *)
LEMMA OwnVerdict ==
  ASSUME TypeOK, [Next]_vars, NEW t \in Threads, pc[t] = "chain", verdict'[t] # verdict[t]
  PROVE  VerifyChain(t)
<1>1. ASSUME NEW u \in Threads,
             \/ ReadLastSignature(u) \/ InsertRow(u) \/ ReadForCheckpoint(u) \/ WriteCheckpoint(u)
             \/ ListCheckpoints(u) \/ MatchCheckpoint(u)
      PROVE  verdict'[t] = verdict[t]
  BY <1>1 DEF ReadLastSignature, InsertRow, ReadForCheckpoint, WriteCheckpoint, ListCheckpoints,
              MatchCheckpoint, Conclude, TypeOK
<1>2. ASSUME NEW u \in Threads \ {t}, VerifyChain(u)
      PROVE  verdict'[t] = verdict[t]
  BY <1>2 DEF VerifyChain, Conclude, TypeOK
<1>3. CASE LoseRows \/ DamageRow \/ UNCHANGED vars
  BY <1>3 DEF LoseRows, DamageRow, vars
<1> QED
  BY <1>1, <1>2, <1>3 DEF Next

(* When verify_all answers intact, every checkpoint it listed finds the    *)
(* very rows it was taken over at the head of the table, whatever was lost *)
(* or damaged before it began and however the file is shared.              *)
THEOREM IntactIsPinned == Spec => IntactMeansPinned
<1>1. Init => PinningAccount /\ SweepAccount
  BY DEF Init, PinningAccount, SweepAccount, RowsAreSigned
<1>2. TypeOK /\ PinningAccount /\ SweepAccount /\ [Next]_vars =>
        \A t \in Threads :
          pc[t] = "chain" /\ verdict'[t] = "intact" /\ local[t].faults = faults =>
            \A c \in 1 .. local[t].listed : PinnedRowsIntact(checkpoints[c])
  <2> SUFFICES ASSUME TypeOK, PinningAccount, SweepAccount, [Next]_vars, NEW t \in Threads,
                      pc[t] = "chain", verdict'[t] = "intact", local[t].faults = faults,
                      NEW c \in 1 .. local[t].listed
               PROVE  PinnedRowsIntact(checkpoints[c])
    OBVIOUS
  <2>0. verdict[t] = "none" /\ local[t] \in LocalsType
    BY DEF SweepAccount, TypeOK
  <2>1. VerifyChain(t) /\ ChainVerifies(rows) /\ local[t].at = local[t].listed
    <3>1. VerifyChain(t)
      BY <2>0, OwnVerdict
    <3> QED
      BY <2>0, <3>1 DEF VerifyChain, Conclude, TypeOK
  <2>2. c \in Matched(t)
    BY <2>0, <2>1 DEF Matched, LocalsType
  <2>3. CheckpointMatches(rows, checkpoints[c])
    BY <2>2 DEF SweepAccount
  <2>4. c \in DOMAIN checkpoints
    BY <2>0 DEF TypeOK, LocalsType
  <2>5. checkpoints[c] \in CheckpointType /\ Pins(checkpoints[c])
    BY <2>4 DEF PinningAccount, TypeOK
  <2> QED
    BY <2>1, <2>3, <2>5, MatchedIsPinned DEF PinningAccount
<1> QED
  BY <1>1, <1>2, TypeInit, TypeStep, PinningStep, SweepStep, PTL DEF Spec, IntactMeansPinned

(***************************************************************************)
(* The table as an append-only log.                                        *)
(***************************************************************************)

(* The chain WormLog speaks of is AuditChain's.                            *)
LEMMA SameChainOfFile ==
  /\ \A r : FileAsWormLog!IdsOf(r) = IdsOf(r) /\ FileAsWormLog!LastSignature(r) = LastSignature(r)
  /\ \A id, prev : FileAsWormLog!Row(id, prev) = Row(id, prev)
BY DEF FileAsWormLog!IdsOf, IdsOf, FileAsWormLog!LastSignature, LastSignature, FileAsWormLog!Row, Row,
       FileAsWormLog!Sign, Sign, FileAsWormLog!Genesis, Genesis

(* In a chain that verifies, the next record's number is not in use.       *)
LEMMA NextIsNew ==
  ASSUME TypeOK, RowsAreSigned, ChainVerifies(rows)
  PROVE  records + 1 \notin IdsOf(rows)
<1> SUFFICES ASSUME NEW i \in DOMAIN rows
             PROVE  rows[i].id # records + 1
  BY DEF IdsOf
<1>1. rows[i] \in RowType /\ records \in Nat
  BY ElementOfSeq DEF TypeOK
<1>2. rows[i].sig = Append(rows[i].prev, rows[i].id)
  BY DEF ChainVerifies, Sign
<1>3. rows[i].prev \in Seq(Nat) /\ rows[i].id \in Nat
  BY <1>1 DEF RowType
<1>4. rows[i].sig[Len(rows[i].sig)] = rows[i].id
  BY <1>2, <1>3, AppendProperties
<1>5. rows[i].id \in 1 .. records
  BY <1>4 DEF RowsAreSigned
<1> QED
  BY <1>1, <1>5

LEMMA InsertIsAppend ==
  ASSUME TypeOK, UntouchedLogAccount, RowsAreSigned, faults = 0,
         NEW t \in Threads, InsertRow(t)
  PROVE  FileAsWormLog!AppendRecord
<1> DEFINE row == Row(records + 1, LastSignature(rows))
<1>1. /\ pc[t] = "insert" /\ faults' = faults
      /\ rows' = Append(rows, Row(records + 1, local[t].sig))
  BY DEF InsertRow
<1>2. local[t].sig = LastSignature(rows) /\ ChainVerifies(rows)
  BY <1>1 DEF UntouchedLogAccount
<1>3. rows' = Append(rows, row)
  BY <1>1, <1>2
<1>4. rows \in Seq(RowType) /\ row \in RowType /\ row.id = records + 1
  BY LastSignatureTyped, RowTyped DEF TypeOK
<1>5. row = Row(records + 1, LastSignature(rows))
  OBVIOUS
<1> HIDE DEF row
<1>6. IdsOf(rows') = IdsOf(rows) \cup {records + 1}
  BY <1>3, <1>4, TableGrows
<1>7. records + 1 \in IdsOf(rows') \ IdsOf(rows)
  BY <1>2, <1>6, NextIsNew
<1> QED
  BY <1>1, <1>3, <1>5, <1>7, SameChainOfFile DEF FileAsWormLog!AppendRecord

LEMMA FileSteps ==
  ASSUME TypeOK, UntouchedLogAccount, RowsAreSigned, [Next]_vars
  PROVE  [FileAsWormLog!Next]_(FileAsWormLog!vars)
<1>1. CASE faults' # 0
  BY <1>1 DEF FileAsWormLog!Next, FileAsWormLog!Accident
<1>2. CASE faults' = 0
  <2>1. faults = 0
    BY <1>2, FaultsGrow DEF TypeOK
  <2>2. ASSUME NEW t \in Threads, InsertRow(t)
        PROVE  FileAsWormLog!Next
    BY <2>1, <2>2, InsertIsAppend DEF FileAsWormLog!Next
  <2>3. ASSUME NEW t \in Threads,
               \/ ReadLastSignature(t) \/ ReadForCheckpoint(t) \/ WriteCheckpoint(t)
               \/ ListCheckpoints(t) \/ MatchCheckpoint(t) \/ VerifyChain(t)
        PROVE  rows' = rows
    BY <2>3 DEF ReadLastSignature, ReadForCheckpoint, WriteCheckpoint,
                ListCheckpoints, MatchCheckpoint, VerifyChain
  <2>4. ~LoseRows /\ ~DamageRow
    BY <1>2, <2>1 DEF LoseRows, DamageRow
  <2>5. UNCHANGED vars => rows' = rows
    BY DEF vars
  <2>6. rows' = rows => UNCHANGED FileAsWormLog!vars
    BY <1>2, <2>1 DEF FileAsWormLog!vars
  <2> QED
    BY <2>2, <2>3, <2>4, <2>5, <2>6 DEF Next
<1> QED
  BY <1>1, <1>2

(* The threads of one process, however they interleave, write an append-   *)
(* only log: append_audit's read and insert are one step of it, and        *)
(* checkpoints and verification none (store.py:171).                       *)
THEOREM FileImplementsWormLog ==
  ASSUME \A t, u \in Threads : StoreOf[t] = StoreOf[u]
  PROVE  Spec => FileIsOneLog
<1>1. Init => FileAsWormLog!Init
  BY DEF Init, FileAsWormLog!Init
<1>2. Init => RowsAreSigned
  BY DEF Init, RowsAreSigned
<1> QED
  BY <1>1, <1>2, TypeInit, TypeStep, UntouchedInit, UntouchedStep, SignedStep, FileSteps, PTL
  DEF Spec, FileIsOneLog, FileAsWormLog!Spec

(***************************************************************************)
(* The cluster.                                                            *)
(***************************************************************************)

(* The inductive invariant.                                                *)

(* A row in flight is one of the primary's, and has a record's number.      *)
InFlightIsOnPrimary ==
  /\ IdsOf(primary) \subseteq 1 .. issued
  /\ \A c \in Pending : \E j \in DOMAIN primary : inFlight[c] = primary[j]

LagIsInFlight ==
  primaryUp /\ "lost_import" \notin mishaps =>
    /\ Len(primary) = Len(standby) + Cardinality(Pending)
    /\ \A i \in DOMAIN standby : \E j \in DOMAIN primary : standby[i] = primary[j]

OneCallAtATime ==
  mishaps = {} =>
    /\ ChainVerifies(standby)
    /\ \A c \in Pending : /\ Pending = {c}
                          /\ primary = Append(standby, inFlight[c])
                          /\ ChainVerifies(primary)
    /\ primaryUp /\ Pending = {} => primary = standby

ClusterInv ==
  /\ ClusterTypeOK
  /\ AcknowledgedOnStandby
  /\ InFlightIsOnPrimary
  /\ LagIsInFlight
  /\ OneCallAtATime

-----------------------------------------------------------------------------
(* Lemmas about rows in flight.                                            *)

(* The row of no call is none that was ever appended.                      *)
LEMMA NoRowTyped == NoRow \in RowType /\ NoRow.id = 0
<1>1. Genesis \in Seq(Nat) /\ 0 \in Nat
  BY DEF Genesis
<1> QED
  BY <1>1, RowTyped DEF NoRow

(* What is in flight changes by one call at a time.                        *)
LEMMA PendingStep ==
  ASSUME ClusterTypeOK, NEW c \in Callers, NEW row \in RowType,
         inFlight' = [inFlight EXCEPT ![c] = row]
  PROVE  /\ inFlight' \in [Callers -> RowType] /\ inFlight'[c] = row
         /\ \A d \in Callers : d # c => inFlight'[d] = inFlight[d]
         /\ Cardinality(Pending) \in Nat
         /\ row = NoRow /\ c \in Pending =>
              Pending' = Pending \ {c} /\ Cardinality(Pending)' = Cardinality(Pending) - 1
         /\ row # NoRow /\ c \notin Pending =>
              Pending' = Pending \cup {c} /\ Cardinality(Pending)' = Cardinality(Pending) + 1
<1>1. /\ inFlight' \in [Callers -> RowType] /\ inFlight'[c] = row
      /\ \A d \in Callers : d # c => inFlight'[d] = inFlight[d]
  BY DEF ClusterTypeOK
<1>2. IsFiniteSet(Pending)
  <2>1. Pending \in SUBSET Callers
    BY DEF Pending
  <2> QED
    BY <2>1, ClusterConstantsAssumption, FS_Subset
<1>3. /\ row = NoRow => Pending' = Pending \ {c}
      /\ row # NoRow => Pending' = Pending \cup {c}
  BY <1>1 DEF Pending, Idle
<1>4. /\ c \in Pending => Cardinality(Pending \ {c}) = Cardinality(Pending) - 1
      /\ c \notin Pending => Cardinality(Pending \cup {c}) = Cardinality(Pending) + 1
      /\ Cardinality(Pending) \in Nat
  BY <1>2, FS_AddElement, FS_RemoveElement, FS_CardinalityType
<1> QED
  BY <1>1, <1>3, <1>4

-----------------------------------------------------------------------------
(* The steps.                                                              *)

LEMMA ClusterInitHolds == ClusterInit => ClusterInv
<1> SUFFICES ASSUME ClusterInit
             PROVE  ClusterInv
  OBVIOUS
<1>1. Pending = {} /\ Cardinality(Pending) = 0
  BY FS_EmptySet DEF ClusterInit, Pending, Idle
<1>2. ClusterTypeOK
  BY <1>1, NoRowTyped DEF ClusterInit, ClusterTypeOK
<1>3. AcknowledgedOnStandby /\ InFlightIsOnPrimary
  BY <1>1 DEF ClusterInit, AcknowledgedOnStandby, InFlightIsOnPrimary, IdsOf
<1>4. LagIsInFlight
  BY <1>1 DEF ClusterInit, LagIsInFlight
<1>5. OneCallAtATime
  BY <1>1 DEF ClusterInit, OneCallAtATime, ChainVerifies
<1> QED
  BY <1>2, <1>3, <1>4, <1>5 DEF ClusterInv

LEMMA InvAppendToPrimary ==
  ASSUME ClusterInv, NEW c \in Callers, AppendToPrimary(c)
  PROVE  ClusterInv'
<1> DEFINE row == Row(issued + 1, LastSignature(primary))
<1>1. /\ c \notin Pending /\ (primaryUp \/ mishaps' # {})
      /\ primary' = Append(primary, row)
      /\ inFlight' = [inFlight EXCEPT ![c] = row]
      /\ issued' = issued + 1
      /\ mishaps' = mishaps \cup NoteOverlap \cup (IF primaryUp THEN {} ELSE {"stale_call"})
      /\ UNCHANGED <<standby, primaryUp, acked>>
  BY DEF AppendToPrimary, Pending
<1>2. row \in RowType /\ row.id = issued + 1 /\ row # NoRow
  BY LastSignatureTyped, RowTyped, NoRowTyped DEF ClusterInv, ClusterTypeOK
<1>3. mishaps' = {} => /\ mishaps = {} /\ Pending = {} /\ primaryUp
                       /\ primary = standby /\ ChainVerifies(standby)
  BY <1>1 DEF NoteOverlap, ClusterInv, OneCallAtATime
<1>4. mishaps' = {} => ChainVerifies(primary')
  <2>1. primary \in Seq(RowType) /\ issued + 1 \in Nat
    BY DEF ClusterInv, ClusterTypeOK
  <2>2. ChainVerifies(primary) => ChainVerifies(Append(primary, row))
    BY <2>1, ChainExtends
  <2> HIDE DEF row
  <2>3. mishaps' = {} => ChainVerifies(primary)
    BY <1>3
  <2> QED
    BY <1>1, <2>2, <2>3
<1> HIDE DEF row
<1>5. /\ inFlight' \in [Callers -> RowType] /\ inFlight'[c] = row
      /\ \A d \in Callers : d # c => inFlight'[d] = inFlight[d]
      /\ Pending' = Pending \cup {c} /\ Cardinality(Pending)' = Cardinality(Pending) + 1
      /\ Cardinality(Pending) \in Nat
  BY <1>1, <1>2, PendingStep DEF ClusterInv
<1>6. /\ primary' \in Seq(RowType) /\ Len(primary) \in Nat /\ Len(primary') = Len(primary) + 1
      /\ \A j \in DOMAIN primary : j \in DOMAIN primary' /\ primary'[j] = primary[j]
      /\ Len(primary) + 1 \in DOMAIN primary' /\ primary'[Len(primary) + 1] = row
      /\ IdsOf(primary') = IdsOf(primary) \cup {row.id}
  BY <1>1, <1>2, TableGrows DEF ClusterInv, ClusterTypeOK
<1>7. ClusterTypeOK'
  <2>1. \A d \in Pending' : inFlight'[d].id \in IdsOf(primary')
    BY <1>5, <1>6 DEF ClusterInv, ClusterTypeOK, Pending
  <2>2. mishaps' \subseteq Mishaps
    BY <1>1 DEF ClusterInv, ClusterTypeOK, NoteOverlap, Mishaps
  <2>3. issued' \in Nat /\ acked' \subseteq 1 .. issued'
    BY <1>1 DEF ClusterInv, ClusterTypeOK
  <2> QED
    BY <1>1, <1>5, <1>6, <2>1, <2>2, <2>3 DEF ClusterInv, ClusterTypeOK
<1>8. AcknowledgedOnStandby'
  BY <1>1 DEF ClusterInv, AcknowledgedOnStandby
<1>9. InFlightIsOnPrimary'
  <2>0. IdsOf(primary') \subseteq 1 .. issued'
    BY <1>1, <1>2, <1>6 DEF ClusterInv, ClusterTypeOK, InFlightIsOnPrimary
  <2> SUFFICES ASSUME NEW d \in Pending'
               PROVE  \E j \in DOMAIN primary' : inFlight'[d] = primary'[j]
    BY <2>0 DEF InFlightIsOnPrimary
  <2>1. CASE d = c
    BY <1>5, <1>6, <2>1
  <2>2. CASE d # c
    <3>1. d \in Pending /\ inFlight'[d] = inFlight[d]
      BY <1>5, <2>2 DEF Pending
    <3> QED
      BY <1>6, <3>1 DEF ClusterInv, InFlightIsOnPrimary
  <2> QED
    BY <2>1, <2>2
<1>10. LagIsInFlight'
  <2> SUFFICES ASSUME primaryUp, "lost_import" \notin mishaps'
               PROVE  /\ Len(primary') = Len(standby) + Cardinality(Pending)'
                      /\ \A i \in DOMAIN standby : \E j \in DOMAIN primary' : standby[i] = primary'[j]
    BY <1>1 DEF LagIsInFlight
  <2>1. "lost_import" \notin mishaps
    BY <1>1
  <2>2. Len(standby) \in Nat
    BY LenProperties DEF ClusterInv, ClusterTypeOK
  <2> QED
    BY <1>5, <1>6, <2>1, <2>2 DEF ClusterInv, LagIsInFlight
<1>11. OneCallAtATime'
  BY <1>1, <1>3, <1>4, <1>5 DEF OneCallAtATime
<1> QED
  BY <1>7, <1>8, <1>9, <1>10, <1>11 DEF ClusterInv

LEMMA InvImport ==
  ASSUME ClusterInv, NEW c \in Callers, ImportIntoStandby(c)
  PROVE  ClusterInv'
<1> DEFINE row == inFlight[c]
<1>1. /\ c \in Pending /\ standby' = Append(standby, row)
      /\ acked' = acked \cup {row.id}
      /\ inFlight' = [inFlight EXCEPT ![c] = NoRow]
      /\ UNCHANGED <<primary, primaryUp, issued, mishaps>>
  BY DEF ImportIntoStandby, Pending
<1>2. row \in RowType /\ \E j \in DOMAIN primary : row = primary[j]
  BY <1>1 DEF ClusterInv, ClusterTypeOK, InFlightIsOnPrimary
<1> HIDE DEF row
<1>3. /\ inFlight' \in [Callers -> RowType] /\ inFlight'[c] = NoRow
      /\ \A d \in Callers : d # c => inFlight'[d] = inFlight[d]
      /\ Pending' = Pending \ {c} /\ Cardinality(Pending)' = Cardinality(Pending) - 1
      /\ Cardinality(Pending) \in Nat
  BY <1>1, NoRowTyped, PendingStep DEF ClusterInv
<1>4. /\ standby' \in Seq(RowType) /\ Len(standby) \in Nat /\ Len(standby') = Len(standby) + 1
      /\ DOMAIN standby = 1 .. Len(standby) /\ DOMAIN standby' = 1 .. Len(standby) + 1
      /\ \A j \in DOMAIN standby : standby'[j] = standby[j]
      /\ standby'[Len(standby) + 1] = row
      /\ IdsOf(standby') = IdsOf(standby) \cup {row.id}
  BY <1>1, <1>2, TableGrows DEF ClusterInv, ClusterTypeOK
<1>5. \A d \in Pending' : d \in Pending /\ inFlight'[d] = inFlight[d]
  BY <1>3 DEF Pending
<1>6. ClusterTypeOK'
  <2>1. row.id \in 1 .. issued
    BY <1>2 DEF ClusterInv, InFlightIsOnPrimary, IdsOf
  <2> QED
    BY <1>1, <1>3, <1>4, <1>5, <2>1 DEF ClusterInv, ClusterTypeOK
<1>7. AcknowledgedOnStandby'
  BY <1>1, <1>4 DEF ClusterInv, AcknowledgedOnStandby
<1>8. InFlightIsOnPrimary'
  BY <1>1, <1>5 DEF ClusterInv, InFlightIsOnPrimary
<1>9. LagIsInFlight'
  <2> SUFFICES ASSUME primaryUp, "lost_import" \notin mishaps
               PROVE  /\ Len(primary) = Len(standby') + Cardinality(Pending)'
                      /\ \A i \in DOMAIN standby' : \E j \in DOMAIN primary : standby'[i] = primary[j]
    BY <1>1 DEF LagIsInFlight
  <2>1. /\ Len(primary) = Len(standby) + Cardinality(Pending)
        /\ \A i \in DOMAIN standby : \E j \in DOMAIN primary : standby[i] = primary[j]
    BY DEF ClusterInv, LagIsInFlight
  <2>2. ASSUME NEW i \in DOMAIN standby'
        PROVE  \E j \in DOMAIN primary : standby'[i] = primary[j]
    BY <1>2, <1>4, <2>1
  <2> QED
    BY <1>3, <1>4, <2>1, <2>2
<1>10. OneCallAtATime'
  <2> SUFFICES ASSUME mishaps = {}
               PROVE  Pending' = {} /\ standby' = primary /\ ChainVerifies(primary)
    BY <1>1 DEF OneCallAtATime
  <2> QED
    BY <1>1, <1>3 DEF ClusterInv, OneCallAtATime, row
<1> QED
  BY <1>6, <1>7, <1>8, <1>9, <1>10 DEF ClusterInv

LEMMA InvLoseImport ==
  ASSUME ClusterInv, NEW c \in Callers, LoseImport(c)
  PROVE  ClusterInv'
<1>1. /\ inFlight' = [inFlight EXCEPT ![c] = NoRow]
      /\ mishaps' = mishaps \cup {"lost_import"}
      /\ UNCHANGED <<primary, standby, primaryUp, issued, acked>>
  BY DEF LoseImport
<1>2. /\ inFlight' \in [Callers -> RowType]
      /\ \A d \in Pending' : d \in Pending /\ inFlight'[d] = inFlight[d]
  BY <1>1, NoRowTyped, PendingStep DEF ClusterInv, Pending, Idle
<1>3. ClusterTypeOK'
  BY <1>1, <1>2 DEF ClusterInv, ClusterTypeOK, Mishaps
<1>4. AcknowledgedOnStandby'
  BY <1>1 DEF ClusterInv, AcknowledgedOnStandby
<1>5. InFlightIsOnPrimary'
  BY <1>1, <1>2 DEF ClusterInv, InFlightIsOnPrimary
<1>6. LagIsInFlight' /\ OneCallAtATime'
  BY <1>1 DEF LagIsInFlight, OneCallAtATime
<1> QED
  BY <1>3, <1>4, <1>5, <1>6 DEF ClusterInv

LEMMA InvAppendToPromoted ==
  ASSUME ClusterInv, NEW c \in Callers, AppendToPromoted(c)
  PROVE  ClusterInv'
<1> DEFINE row == Row(issued + 1, LastSignature(standby))
<1>1. /\ ~primaryUp
      /\ standby' = Append(standby, row)
      /\ issued' = issued + 1 /\ acked' = acked \cup {issued + 1}
      /\ mishaps' = mishaps \cup NoteOverlap
      /\ UNCHANGED <<primary, primaryUp, inFlight>>
  BY DEF AppendToPromoted
<1>2. row \in RowType /\ row.id = issued + 1
  BY LastSignatureTyped, RowTyped DEF ClusterInv, ClusterTypeOK
<1>3. mishaps' = {} => mishaps = {} /\ Pending = {}
  BY <1>1 DEF NoteOverlap
<1>4. mishaps' = {} => ChainVerifies(standby')
  <2>1. standby \in Seq(RowType) /\ issued + 1 \in Nat
    BY DEF ClusterInv, ClusterTypeOK
  <2>2. ChainVerifies(standby) => ChainVerifies(Append(standby, row))
    BY <2>1, ChainExtends
  <2> HIDE DEF row
  <2>3. mishaps' = {} => ChainVerifies(standby)
    BY <1>3 DEF ClusterInv, OneCallAtATime
  <2> QED
    BY <1>1, <2>2, <2>3
<1> HIDE DEF row
<1>5. /\ standby' \in Seq(RowType)
      /\ IdsOf(standby') = IdsOf(standby) \cup {row.id}
  BY <1>1, <1>2, TableGrows DEF ClusterInv, ClusterTypeOK
<1>6. Pending' = Pending
  BY <1>1 DEF Pending, Idle
<1>7. ClusterTypeOK'
  <2>1. mishaps' \subseteq Mishaps
    BY <1>1 DEF ClusterInv, ClusterTypeOK, NoteOverlap, Mishaps
  <2>2. issued' \in Nat /\ acked' \subseteq 1 .. issued'
    BY <1>1 DEF ClusterInv, ClusterTypeOK
  <2> QED
    BY <1>1, <1>5, <1>6, <2>1, <2>2 DEF ClusterInv, ClusterTypeOK
<1>8. AcknowledgedOnStandby'
  BY <1>1, <1>2, <1>5 DEF ClusterInv, AcknowledgedOnStandby
<1>9. InFlightIsOnPrimary'
  BY <1>1, <1>6 DEF ClusterInv, ClusterTypeOK, InFlightIsOnPrimary
<1>10. LagIsInFlight' /\ OneCallAtATime'
  BY <1>1, <1>3, <1>4, <1>6 DEF LagIsInFlight, OneCallAtATime
<1> QED
  BY <1>7, <1>8, <1>9, <1>10 DEF ClusterInv

LEMMA InvFailover == ClusterInv /\ (Failover \/ UNCHANGED clusterVars) => ClusterInv'
<1> SUFFICES ASSUME ClusterInv, Failover \/ UNCHANGED clusterVars
             PROVE  ClusterInv'
  OBVIOUS
<1>1. /\ UNCHANGED <<primary, standby, inFlight, issued, acked, mishaps>>
      /\ primaryUp' => primaryUp
      /\ primaryUp' \in BOOLEAN
  <2>1. primaryUp \in BOOLEAN
    BY DEF ClusterInv, ClusterTypeOK
  <2>2. CASE Failover
    BY <2>2 DEF Failover
  <2>3. CASE UNCHANGED clusterVars
    BY <2>1, <2>3 DEF clusterVars
  <2> QED
    BY <2>2, <2>3
<1>2. Pending' = Pending
  BY <1>1 DEF Pending, Idle
<1>3. ClusterTypeOK' /\ AcknowledgedOnStandby' /\ InFlightIsOnPrimary'
  BY <1>1, <1>2 DEF ClusterInv, ClusterTypeOK, AcknowledgedOnStandby, InFlightIsOnPrimary
<1>4. LagIsInFlight' /\ OneCallAtATime'
  BY <1>1, <1>2 DEF ClusterInv, LagIsInFlight, OneCallAtATime
<1> QED
  BY <1>3, <1>4 DEF ClusterInv

(* The invariant is inductive.                                             *)
THEOREM ClusterInductive == ClusterSpec => []ClusterInv
<1>1. ClusterInv /\ [ClusterNext]_clusterVars => ClusterInv'
  BY InvAppendToPrimary, InvImport, InvLoseImport, InvAppendToPromoted, InvFailover DEF ClusterNext
<1> QED
  BY ClusterInitHolds, <1>1, PTL DEF ClusterSpec

-----------------------------------------------------------------------------
(* What follows from it.                                                   *)

(* A record whose append returned is on the standby, whatever the calls,   *)
(* lost imports and failovers; and until the failover, without a lost      *)
(* import, the standby lacks exactly the rows in flight, and is a prefix   *)
(* of the primary if calls did not overlap.                                *)
THEOREM NothingAcknowledgedIsLost == ClusterSpec => []NoAuditLoss
<1>1. ClusterInv => StandbyLagsOnlyByCallsInFlight
  <2> SUFFICES ASSUME ClusterInv, primaryUp, "lost_import" \notin mishaps
               PROVE  /\ AuditLoss = Cardinality(Pending)
                      /\ \A i \in DOMAIN standby : \E j \in DOMAIN primary : standby[i] = primary[j]
                      /\ mishaps = {} => IsPrefix(standby, primary)
    BY DEF StandbyLagsOnlyByCallsInFlight
  <2>1. /\ Len(primary) = Len(standby) + Cardinality(Pending)
        /\ \A i \in DOMAIN standby : \E j \in DOMAIN primary : standby[i] = primary[j]
    BY DEF ClusterInv, LagIsInFlight
  <2>2. Len(primary) \in Nat /\ Len(standby) \in Nat /\ Cardinality(Pending) \in Nat
    <3>1. Pending \in SUBSET Callers
      BY DEF Pending
    <3>2. Cardinality(Pending) \in Nat
      BY <3>1, ClusterConstantsAssumption, FS_Subset, FS_CardinalityType
    <3> QED
      BY <3>2, LenProperties DEF ClusterInv, ClusterTypeOK
  <2>3. mishaps = {} => IsPrefix(standby, primary)
    <3>1. ASSUME mishaps = {}, Pending = {}
          PROVE  IsPrefix(standby, primary)
      BY <3>1, NoRowTyped, TableGrows DEF ClusterInv, ClusterTypeOK, OneCallAtATime
    <3>2. ASSUME mishaps = {}, NEW c \in Pending
          PROVE  IsPrefix(standby, primary)
      <4>1. inFlight[c] \in RowType /\ primary = Append(standby, inFlight[c])
        BY <3>2 DEF ClusterInv, ClusterTypeOK, OneCallAtATime, Pending
      <4> QED
        BY <4>1, TableGrows DEF ClusterInv, ClusterTypeOK
    <3> QED
      BY <3>1, <3>2
  <2> QED
    BY <2>1, <2>2, <2>3 DEF AuditLoss
<1>2. ClusterInv => NoAuditLoss
  BY <1>1 DEF ClusterInv, NoAuditLoss
<1> QED
  BY <1>2, ClusterInductive, PTL

(* While calls follow one another, reach the active Store and complete,    *)
(* the standby's chain verifies, across the failover and after it.         *)
THEOREM StandbyVerifies == ClusterSpec => []StandbyChainVerifies
<1>1. ClusterInv => StandbyChainVerifies
  BY DEF ClusterInv, OneCallAtATime, StandbyChainVerifies
<1> QED
  BY <1>1, ClusterInductive, PTL

-----------------------------------------------------------------------------
(* The cluster as an append-only log.                                      *)

(* The chain WormLog speaks of is AuditChain's.                            *)
LEMMA SameChainOfCluster ==
  /\ \A r : ClusterAsWormLog!IdsOf(r) = IdsOf(r) /\ ClusterAsWormLog!LastSignature(r) = LastSignature(r)
  /\ \A id, prev : ClusterAsWormLog!Row(id, prev) = Row(id, prev)
BY DEF ClusterAsWormLog!IdsOf, IdsOf, ClusterAsWormLog!LastSignature, LastSignature, ClusterAsWormLog!Row, Row,
       ClusterAsWormLog!Sign, Sign, ClusterAsWormLog!Genesis, Genesis

StandbyIsIssued == IdsOf(standby) \subseteq 1 .. issued

LEMMA IssuedStep ==
  ASSUME ClusterInv, StandbyIsIssued, [ClusterNext]_clusterVars
  PROVE  StandbyIsIssued'
<1>1. issued \in Nat /\ standby \in Seq(RowType) /\ 1 .. issued \subseteq 1 .. issued + 1
  BY DEF ClusterInv, ClusterTypeOK
<1>2. ASSUME NEW c \in Callers, AppendToPrimary(c) \/ LoseImport(c)
      PROVE  StandbyIsIssued'
  <2>1. standby' = standby /\ issued' \in {issued, issued + 1}
    BY <1>2 DEF AppendToPrimary, LoseImport
  <2> QED
    BY <1>1, <2>1 DEF StandbyIsIssued
<1>3. ASSUME NEW c \in Callers, ImportIntoStandby(c)
      PROVE  StandbyIsIssued'
  <2>1. /\ standby' = Append(standby, inFlight[c]) /\ issued' = issued
        /\ inFlight[c] \in RowType /\ c \in Pending
    BY <1>3 DEF ImportIntoStandby, ClusterInv, ClusterTypeOK, Pending
  <2>2. IdsOf(standby') = IdsOf(standby) \cup {inFlight[c].id}
    BY <1>1, <2>1, TableGrows
  <2>3. inFlight[c].id \in 1 .. issued
    BY <2>1 DEF ClusterInv, ClusterTypeOK, InFlightIsOnPrimary
  <2> QED
    BY <2>1, <2>2, <2>3 DEF StandbyIsIssued
<1>4. ASSUME NEW c \in Callers, AppendToPromoted(c)
      PROVE  StandbyIsIssued'
  <2>1. PICK row \in RowType : row.id = issued + 1 /\ standby' = Append(standby, row)
    <3>1. standby' = Append(standby, Row(issued + 1, LastSignature(standby)))
      BY <1>4 DEF AppendToPromoted
    <3> QED
      BY <1>1, <3>1, LastSignatureTyped, RowTyped
  <2>2. IdsOf(standby') = IdsOf(standby) \cup {issued + 1}
    BY <1>1, <2>1, TableGrows
  <2>3. issued' = issued + 1
    BY <1>4 DEF AppendToPromoted
  <2> QED
    BY <1>1, <2>2, <2>3 DEF StandbyIsIssued
<1>5. ASSUME Failover \/ UNCHANGED clusterVars
      PROVE  StandbyIsIssued'
  BY <1>5 DEF Failover, clusterVars, StandbyIsIssued
<1> QED
  BY <1>2, <1>3, <1>4, <1>5 DEF ClusterNext

(* A row signed over a table and put at its end.                           *)
LEMMA SignedIsAppend ==
  ASSUME ClusterInv, mishaps = {}, mishaps' = {}, ClusterLog \in Seq(RowType),
         IdsOf(ClusterLog) \subseteq 1 .. issued,
         ClusterLog' = Append(ClusterLog, Row(issued + 1, LastSignature(ClusterLog)))
  PROVE  ClusterAsWormLog!AppendRecord
<1> DEFINE row == Row(issued + 1, LastSignature(ClusterLog))
<1>1. issued \in Nat
  BY DEF ClusterInv, ClusterTypeOK
<1>2. row \in RowType /\ row.id = issued + 1
  BY <1>1, LastSignatureTyped, RowTyped
<1>3. IdsOf(ClusterLog') = IdsOf(ClusterLog) \cup {issued + 1}
  <2> HIDE DEF row
  <2>1. ClusterLog' = Append(ClusterLog, row)
    BY DEF row
  <2> QED
    BY <1>2, <2>1, TableGrows
<1>4. issued + 1 \in IdsOf(ClusterLog') \ IdsOf(ClusterLog)
  BY <1>1, <1>3
<1> QED
  BY <1>4, SameChainOfCluster DEF ClusterAsWormLog!AppendRecord

LEMMA ClusterSteps ==
  ASSUME ClusterInv, StandbyIsIssued, [ClusterNext]_clusterVars
  PROVE  [ClusterAsWormLog!Next]_(ClusterAsWormLog!vars)
<1>1. CASE mishaps' # {}
  BY <1>1 DEF ClusterAsWormLog!Next, ClusterAsWormLog!Accident
<1>2. CASE mishaps' = {}
  <2>1. mishaps = {} /\ \A c \in Callers : ~LoseImport(c)
    <3>1. mishaps \subseteq mishaps'
      BY DEF ClusterNext, clusterVars, AppendToPrimary, ImportIntoStandby, LoseImport,
             AppendToPromoted, Failover
    <3>2. \A c \in Callers : ~LoseImport(c)
      BY <1>2 DEF LoseImport
    <3> QED
      BY <1>2, <3>1, <3>2
  <2>2. /\ primary \in Seq(RowType) /\ standby \in Seq(RowType)
        /\ \A c \in Callers : inFlight[c] \in RowType
        /\ \A c \in Pending : Pending = {c} /\ primary = Append(standby, inFlight[c])
        /\ primaryUp /\ Pending = {} => primary = standby
    BY <2>1 DEF ClusterInv, ClusterTypeOK, OneCallAtATime, Pending
  <2>3. ASSUME NEW c \in Callers, AppendToPrimary(c)
        PROVE  ClusterAsWormLog!Next
    <3>1. /\ primary' = Append(primary, Row(issued + 1, LastSignature(primary)))
          /\ inFlight' = [inFlight EXCEPT ![c] = Row(issued + 1, LastSignature(primary))]
          /\ primaryUp /\ Pending = {} /\ primary = standby
      BY <1>2, <2>2, <2>3 DEF AppendToPrimary, NoteOverlap
    <3>2. ClusterLog = primary /\ IdsOf(primary) \subseteq 1 .. issued
      BY <3>1 DEF ClusterLog, ClusterInv, InFlightIsOnPrimary
    <3>3. ClusterLog' = primary'
      <4>1. Row(issued + 1, LastSignature(primary)) \in RowType
        BY <2>2, LastSignatureTyped, RowTyped DEF ClusterInv, ClusterTypeOK
      <4>2. Row(issued + 1, LastSignature(primary)) # NoRow
        BY <2>2, LastSignatureTyped, RowTyped, NoRowTyped DEF ClusterInv, ClusterTypeOK
      <4>3. c \in Pending'
        BY <3>1, <4>1, <4>2, PendingStep DEF ClusterInv
      <4> QED
        BY <4>3 DEF ClusterLog
    <3>4. ClusterAsWormLog!AppendRecord
      BY <1>2, <2>1, <2>2, <3>1, <3>2, <3>3, SignedIsAppend
    <3> QED
      BY <3>4 DEF ClusterAsWormLog!Next
  <2>4. ASSUME NEW c \in Callers, ImportIntoStandby(c)
        PROVE  UNCHANGED ClusterLog
    <3>1. /\ standby' = Append(standby, inFlight[c]) /\ c \in Pending
          /\ inFlight' = [inFlight EXCEPT ![c] = NoRow]
      BY <2>4 DEF ImportIntoStandby, Pending
    <3>2. Pending' = {} /\ standby' = primary
      BY <2>2, <3>1, NoRowTyped, PendingStep DEF ClusterInv
    <3> QED
      BY <3>1, <3>2 DEF ClusterLog
  <2>5. ASSUME NEW c \in Callers, AppendToPromoted(c)
        PROVE  ClusterAsWormLog!Next
    <3>1. /\ standby' = Append(standby, Row(issued + 1, LastSignature(standby)))
          /\ inFlight' = inFlight /\ Pending = {}
      BY <1>2, <2>5 DEF AppendToPromoted, NoteOverlap
    <3>2. Pending' = {}
      BY <3>1 DEF Pending, Idle
    <3>3. ClusterLog = standby /\ ClusterLog' = standby'
      BY <3>1, <3>2 DEF ClusterLog
    <3>4. ClusterAsWormLog!AppendRecord
      BY <1>2, <2>1, <2>2, <3>1, <3>3, SignedIsAppend DEF StandbyIsIssued
    <3> QED
      BY <3>4 DEF ClusterAsWormLog!Next
  <2>6. ASSUME Failover \/ UNCHANGED clusterVars
        PROVE  UNCHANGED ClusterLog
    BY <2>6 DEF Failover, clusterVars, ClusterLog, Pending, Idle
  <2>7. UNCHANGED ClusterLog => UNCHANGED ClusterAsWormLog!vars
    BY <1>2, <2>1 DEF ClusterAsWormLog!vars
  <2> QED
    BY <2>1, <2>3, <2>4, <2>5, <2>6, <2>7 DEF ClusterNext
<1> QED
  BY <1>1, <1>2

(* Two Stores and a failover are one append-only log, as long as calls     *)
(* follow one another, reach the active Store and complete: a row that was *)
(* on its way when the standby took over is where it was (ha.py:10).       *)
THEOREM ClusterImplementsWormLog == ClusterSpec => ClusterIsOneLog
<1>1. ClusterInit => ClusterAsWormLog!Init /\ StandbyIsIssued
  BY DEF ClusterInit, ClusterAsWormLog!Init, ClusterLog, StandbyIsIssued, IdsOf
<1> QED
  BY <1>1, ClusterInductive, IssuedStep, ClusterSteps, PTL
  DEF ClusterSpec, ClusterIsOneLog, ClusterAsWormLog!Spec

=============================================================================
