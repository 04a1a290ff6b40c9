----------------------------- MODULE SyncProofs -----------------------------
(* Proofs about Sync for every value of its constants: any models, paths,  *)
(* environments, containment and number of overlapping sessions.           *)
EXTENDS Sync, TLAPS

Row == Content \union {Nothing}
StateRow == SyncState \union {Nothing}
FsCandidate == [path : Paths, c : Content]

-----------------------------------------------------------------------------
(* compute_sync_ops (sync.rs:229-310) makes at most one operation for a    *)
(* model, with every field that apply will read of it filled in; what it   *)
(* has written to a file is the shared row that calculate read.            *)
LEMMA OpsForShape ==
    ASSUME NEW m \in Models, NEW d \in Row, NEW st \in StateRow,
           NEW f \in FsCandidate \union {Nothing}, NEW op \in OpsFor(m, d, st, f)
    PROVE  /\ op \in SyncOp /\ op.id = m /\ WellFormedOp(op)
           /\ op.type \in FsWrites => op.c = d /\ Shared(m, d)
           /\ OpsFor(m, d, st, f) = {op}
<1> DEFINE Only(o) == OpsFor(m, d, st, f) = {o}
<1> USE ConstantsAssumption, NothingAssumption
<1>1. Home[m] \in Paths
  OBVIOUS
<1>2. f # Nothing => f.c \in Content /\ f.path \in Paths
  BY DEF FsCandidate
<1>3. st # Nothing => st.path \in Paths /\ st.sid \in StateIds
  BY DEF SyncState, StateRow
<1>4. Shared(m, d) => d \in Content
  BY DEF Shared, Row
<1>5. \/ f # Nothing /\ st = Nothing /\ Only(Op("DbCreate", m, f.c, f.path, Nothing))
      \/ Shared(m, d) /\ Only(Op("FsCreate", m, d, Home[m], Nothing))
      \/ st # Nothing /\ Only(Op("FsForget", m, Nothing, st.path, st.sid))
      \/ st # Nothing /\ Only(Op("FsDelete", m, Nothing, st.path, st.sid))
      \/ st # Nothing /\ Only(Op("DbDelete", m, Nothing, st.path, st.sid))
      \/ st # Nothing /\ f # Nothing /\ Only(Op("DbUpdate", m, f.c, f.path, st.sid))
      \/ st # Nothing /\ Shared(m, d) /\ Only(Op("FsUpdate", m, d, st.path, st.sid))
  BY DEF OpsFor, NoCandidate, Added, Deleted, Modified, Unmodified
<1> USE DEF Op, SyncOp, WellFormedOp, OpTypes, FsWrites, DbUpserts, Row
<1>6. CASE f # Nothing /\ st = Nothing /\ Only(Op("DbCreate", m, f.c, f.path, Nothing))
  <2>1. op = Op("DbCreate", m, f.c, f.path, Nothing)
    BY <1>6
  <2> QED
    BY <1>6, <2>1, <1>2
<1>7. CASE Shared(m, d) /\ Only(Op("FsCreate", m, d, Home[m], Nothing))
  <2>1. op = Op("FsCreate", m, d, Home[m], Nothing)
    BY <1>7
  <2> QED
    BY <1>7, <2>1, <1>1, <1>4
<1>8. CASE st # Nothing /\ Only(Op("FsForget", m, Nothing, st.path, st.sid))
  <2>1. op = Op("FsForget", m, Nothing, st.path, st.sid)
    BY <1>8
  <2> QED
    BY <1>8, <2>1, <1>3
<1>9. CASE st # Nothing /\ Only(Op("FsDelete", m, Nothing, st.path, st.sid))
  <2>1. op = Op("FsDelete", m, Nothing, st.path, st.sid)
    BY <1>9
  <2> QED
    BY <1>9, <2>1, <1>3
<1>10. CASE st # Nothing /\ Only(Op("DbDelete", m, Nothing, st.path, st.sid))
  <2>1. op = Op("DbDelete", m, Nothing, st.path, st.sid)
    BY <1>10
  <2> QED
    BY <1>10, <2>1, <1>3
<1>11. CASE st # Nothing /\ f # Nothing /\ Only(Op("DbUpdate", m, f.c, f.path, st.sid))
  <2>1. op = Op("DbUpdate", m, f.c, f.path, st.sid)
    BY <1>11
  <2> QED
    BY <1>11, <2>1, <1>2, <1>3
<1>12. CASE st # Nothing /\ Shared(m, d) /\ Only(Op("FsUpdate", m, d, st.path, st.sid))
  <2>1. op = Op("FsUpdate", m, d, st.path, st.sid)
    BY <1>12
  <2> QED
    BY <1>12, <2>1, <1>3, <1>4
<1> QED
  BY <1>5, <1>6, <1>7, <1>8, <1>9, <1>10, <1>11, <1>12


\* The state change that goes with an operation is as well formed as it is.
LEMMA StateOpShape ==
    ASSUME NEW op \in SyncOp, WellFormedOp(op)
    PROVE  StateOp(op) \in SyncStateOp /\ WellFormedStateOp(StateOp(op)) /\ StateOp(op).id = op.id
BY DEF StateOp, SyncOp, SyncStateOp, WellFormedOp, WellFormedStateOp, OpTypes, FsWrites, DbUpserts

\* Flushing a state change leaves a row that is stamped now, or what was there.
LEMMA RowAfterShape ==
    ASSUME StoreTypeOK, NEW so \in SyncStateOp, WellFormedStateOp(so), NEW row \in RowAfter(so)
    PROVE  /\ row \in StateRow
           /\ row # Nothing => row.flushed = clock \/ row = states[so.id]
           /\ so.type = "Delete" => row = Nothing \/ row = states[so.id]
<1>1. ASSUME NEW i \in StateIds, so.sum \in Content
      PROVE  Flushed(i, so) \in SyncState /\ Flushed(i, so).flushed = clock
  BY <1>1 DEF Flushed, SyncState, SyncStateOp, StoreTypeOK
<1>2. states[so.id] \in StateRow
  BY DEF StoreTypeOK, SyncStateOp, StateRow
<1>3. CASE so.type = "Create"
  <2>1. PICK i \in FreshIds(so.id) : row = Flushed(i, so)
    BY <1>3 DEF RowAfter
  <2>2. i \in StateIds
    BY DEF FreshIds, FreeIds
  <2> QED
    BY <1>1, <1>3, <2>1, <2>2 DEF WellFormedStateOp, StateRow
<1>4. CASE so.type = "Update"
  <2>1. row = Flushed(so.sid, so)
    BY <1>4 DEF RowAfter
  <2> QED
    BY <1>1, <1>4, <2>1 DEF WellFormedStateOp, StateRow
<1>5. CASE so.type = "Delete"
  <2>1. row \in {Nothing, states[so.id]}
    BY <1>5 DEF RowAfter
  <2> QED
    BY <1>2, <1>5, <2>1 DEF StateRow
<1> QED
  BY <1>3, <1>4, <1>5 DEF SyncStateOp

\* The merges that a scan may promise are pairs of a row and a file.
LEMMA FileOfType ==
    ASSUME StoreTypeOK, NEW m \in Models
    PROVE  FileOf(m) \in Row
<1>1. OnDisk(m) \subseteq Content
  BY DEF OnDisk, Holding, StoreTypeOK, File
<1> QED
  BY <1>1 DEF FileOf, Row

LEMMA MergeOfType ==
    ASSUME NEW m \in Models, NEW d \in Row, NEW st \in StateRow, NEW f \in Row
    PROVE  MergeOf(m, d, st, f) \in {Nothing} \union SUBSET (Row \X Row)
BY DEF MergeOf, Row, Private, Shared

LEMMA FsCandidateType ==
    ASSUME StoreTypeOK, NEW m \in Models, NEW f \in FsCandidates(m)
    PROVE  f \in FsCandidate \union {Nothing}
BY DEF FsCandidates, Holding, FsCandidate, StoreTypeOK, File


-----------------------------------------------------------------------------
LEMMA TypeInit == Init => TypeOK /\ Shape
<1> SUFFICES ASSUME Init PROVE TypeOK /\ Shape
  OBVIOUS
<1>1. 1 \in Time
  BY ConstantsAssumption DEF Time
<1>2. StoreTypeOK
  <2>1. [val |-> 1, upd |-> 1, pub |-> TRUE] \in Content
    BY <1>1 DEF Content
  <2>2. db \in [Models -> Content \union {Nothing}]
    BY <2>1 DEF Init
  <2> QED
    BY <1>1, <2>2 DEF Init, StoreTypeOK
<1>3. SessionTypeOK
  BY DEF Init, SessionTypeOK, NoGoal
<1>4. Shape
  BY DEF Init, Shape
<1> QED
  BY <1>2, <1>3, <1>4 DEF TypeOK

\* A session that ends, for whatever reason, leaves nothing of itself behind.
LEMMA ResetType ==
    ASSUME SessionTypeOK, Shape, NEW s \in Sessions, Reset(s)
    PROVE  SessionTypeOK' /\ Shape'
BY DEF SessionTypeOK, Shape, Reset, NoGoal, WellFormedOp, WellFormedStateOp

LEMMA ScanDbType ==
    ASSUME TypeOK, Shape, NEW s \in Sessions, ScanDb(s)
    PROVE  TypeOK' /\ Shape'
<1> DEFINE c == [m \in Models |-> <<db[m], states[m]>>]
<1>1. c \in [Models -> Row \X StateRow]
  BY DEF TypeOK, StoreTypeOK, Row, StateRow
<1>2. c # Nothing
  BY <1>1, NothingAssumption DEF Row, StateRow
<1>3. SessionTypeOK'
  BY <1>1 DEF ScanDb, TypeOK, SessionTypeOK, Row, StateRow
<1>4. Shape'
  BY <1>2 DEF ScanDb, TypeOK, SessionTypeOK, Shape, WellFormedOp, WellFormedStateOp
<1> QED
  BY <1>3, <1>4 DEF ScanDb, TypeOK, StoreTypeOK

LEMMA ScanFsType ==
    ASSUME TypeOK, Shape, NEW s \in Sessions, ScanFs(s)
    PROVE  TypeOK' /\ Shape'
<1> USE DEF TypeOK
<1>1. PICK f \in [Models -> UNION {FsCandidates(m) : m \in Models}] :
        /\ \A m \in Models : f[m] \in FsCandidates(m)
        /\ ops' = [ops EXCEPT ![s] =
                UNION {OpsFor(m, cand[s][m][1], cand[s][m][2], f[m]) : m \in Models}]
  BY DEF ScanFs
<1>2. cand[s] \in [Models -> Row \X StateRow]
  BY DEF ScanFs, SessionTypeOK, Shape, Row, StateRow
<1>3. \A op \in ops'[s] : op \in SyncOp /\ WellFormedOp(op)
  <2> SUFFICES ASSUME NEW op \in ops'[s] PROVE op \in SyncOp /\ WellFormedOp(op)
    OBVIOUS
  <2>1. PICK m \in Models : op \in OpsFor(m, cand[s][m][1], cand[s][m][2], f[m])
    BY <1>1 DEF SessionTypeOK
  <2>2. f[m] \in FsCandidate \union {Nothing}
    BY <1>1, FsCandidateType
  <2>3. cand[s][m][1] \in Row /\ cand[s][m][2] \in StateRow
    BY <1>2
  <2> QED
    BY <2>1, <2>2, <2>3, OpsForShape
<1>4. \A m \in Models : MergeOf(m, db[m], states[m], FileOf(m)) \in {Nothing} \union SUBSET (Row \X Row)
  BY MergeOfType, FileOfType DEF StoreTypeOK, Row, StateRow
<1>5. SessionTypeOK'
  <2>1. ops' \in [Sessions -> SUBSET SyncOp]
    BY <1>1, <1>3 DEF SessionTypeOK
  <2>2. goal' \in [Sessions -> [Models -> {Nothing} \union SUBSET (Row \X Row)]]
    BY <1>4 DEF ScanFs, SessionTypeOK, Row
  <2> QED
    BY <2>1, <2>2 DEF ScanFs, SessionTypeOK, Row
<1>6. Shape'
  BY <1>1, <1>3 DEF ScanFs, Shape, SessionTypeOK, WellFormedOp, WellFormedStateOp
<1> QED
  BY <1>5, <1>6 DEF ScanFs, StoreTypeOK

\* What the applied operations of a session have in common.
LEMMA FinishedType ==
    ASSUME SessionTypeOK, Shape, NEW s \in Sessions, NEW op \in ops[s], Finished(s, op),
           UNCHANGED <<cand, goal>>, cur' = cur \/ cur' = [cur EXCEPT ![s] = Nothing],
           pc[s] \notin {"idle", "scanned"}
    PROVE  SessionTypeOK' /\ Shape'
<1>1. op \in SyncOp /\ WellFormedOp(op)
  BY DEF SessionTypeOK, Shape
<1>2. StateOp(op) \in SyncStateOp /\ WellFormedStateOp(StateOp(op))
  BY <1>1, StateOpShape
<1>3. SessionTypeOK'
  BY <1>2 DEF Finished, SessionTypeOK
<1>4. Shape'
  BY <1>2 DEF Finished, SessionTypeOK, Shape, WellFormedOp, WellFormedStateOp
<1> QED
  BY <1>3, <1>4

LEMMA DropRowsType ==
    ASSUME StoreTypeOK, NEW ms \in SUBSET Models, DropRows(ms)
    PROVE  /\ db' \in [Models -> Content \union {Nothing}]
           /\ states' \in [Models -> SyncState \union {Nothing}]
           /\ edited' \subseteq Models
BY DEF DropRows, StoreTypeOK

LEMMA ApplyOpType ==
    ASSUME TypeOK, Shape, NEW s \in Sessions, ApplyOp(s)
    PROVE  TypeOK' /\ Shape'
<1> USE DEF TypeOK
<1>1. CASE OpenFile(s)
  <2>1. PICK op \in ops[s] : /\ Applying(s) /\ op.type \in FsWrites
                             /\ files' = [files EXCEPT ![op.path] = Garbage]
                             /\ cur' = [cur EXCEPT ![s] = op]
                             /\ pc' = [pc EXCEPT ![s] = "writing"]
                             /\ disturbed' \subseteq disturbed \union Models
                             /\ UNCHANGED <<clock, db, states, cand, ops, sops, edited, goal>>
    BY <1>1 DEF OpenFile, StoreTypeOK
  <2>2. op \in SyncOp
    BY DEF SessionTypeOK
  <2>3. StoreTypeOK'
    BY <2>1, <2>2 DEF StoreTypeOK
  <2>4. SessionTypeOK' /\ Shape'
    BY <2>1, <2>2 DEF SessionTypeOK, Shape, WellFormedOp, WellFormedStateOp
  <2> QED
    BY <2>3, <2>4
<1>2. CASE WriteFile(s)
  <2>1. cur[s] \in ops[s] /\ cur[s] \in SyncOp /\ cur[s].c \in Content
    BY <1>2 DEF WriteFile, Shape, SessionTypeOK, WellFormedOp, FsWrites
  <2>2. [id |-> cur[s].id, c |-> cur[s].c] \in File
    BY <2>1 DEF File, SyncOp
  <2>3. StoreTypeOK'
    <3>1. files' \in [Paths -> File \union {Garbage, Nothing}]
      BY <1>2, <2>1, <2>2 DEF WriteFile, StoreTypeOK, SyncOp
    <3>2. disturbed' \subseteq Models
      BY <1>2, <2>1 DEF WriteFile, DisturbOthers, StoreTypeOK, SyncOp
    <3> QED
      BY <1>2, <3>1, <3>2 DEF WriteFile, StoreTypeOK
  <2>4. SessionTypeOK' /\ Shape'
    BY <1>2, <2>1, FinishedType DEF WriteFile
  <2> QED
    BY <2>3, <2>4
<1>3. CASE RemoveFile(s)
  <2>1. PICK op \in ops[s] : /\ Applying(s)
                             /\ files' = [files EXCEPT ![op.path] = Nothing]
                             /\ Finished(s, op)
                             /\ DisturbOthers(s, {m \in Models : m = op.id \/ op.path \in Holding(m)})
                             /\ UNCHANGED <<clock, db, states, cand, cur, edited, goal>>
    BY <1>3 DEF RemoveFile
  <2>2. StoreTypeOK'
    BY <2>1 DEF StoreTypeOK, DisturbOthers
  <2>3. SessionTypeOK' /\ Shape'
    BY <2>1, FinishedType DEF Applying
  <2> QED
    BY <2>2, <2>3
<1>4. CASE RemoveFileFails(s)
  BY <1>4, ResetType DEF RemoveFileFails, StoreTypeOK
<1>5. CASE ForgetFile(s)
  BY <1>5, FinishedType DEF ForgetFile, StoreTypeOK, Applying
<1>6. CASE DeleteRow(s)
  <2>1. PICK op \in ops[s] : /\ Applying(s) /\ DropRows(Inside[op.id]) /\ Finished(s, op)
                             /\ disturbed' \subseteq disturbed \union Inside[op.id] \union {op.id}
                             /\ UNCHANGED <<clock, files, cand, cur, goal>>
    BY <1>6 DEF DeleteRow
  <2>2. op.id \in Models /\ Inside[op.id] \subseteq Models
    BY ConstantsAssumption DEF SessionTypeOK, SyncOp
  <2>3. StoreTypeOK'
    BY <2>1, <2>2, DropRowsType DEF StoreTypeOK
  <2>4. SessionTypeOK' /\ Shape'
    BY <2>1, FinishedType DEF Applying
  <2> QED
    BY <2>3, <2>4
<1>7. CASE CommitUpserts(s)
  <2>1. \A op \in ops[s] : op \in SyncOp /\ WellFormedOp(op)
    BY DEF SessionTypeOK, Shape
  <2>2. \A op \in ops[s] : StateOp(op) \in SyncStateOp /\ WellFormedStateOp(StateOp(op))
    BY <2>1, StateOpShape
  <2>3. StoreTypeOK'
    <3>1. db' \in [Models -> Content \union {Nothing}]
      BY <1>7, <2>1 DEF CommitUpserts, StoreTypeOK, SyncOp
    <3>2. edited' \subseteq Models /\ disturbed' \subseteq Models
      BY <1>7, <2>1 DEF CommitUpserts, StoreTypeOK, DisturbOthers, SyncOp
    <3> QED
      BY <1>7, <3>1, <3>2 DEF CommitUpserts, StoreTypeOK
  <2>4. SessionTypeOK' /\ Shape'
    BY <1>7, <2>2 DEF CommitUpserts, SessionTypeOK, Shape, WellFormedOp, WellFormedStateOp, Applying
  <2> QED
    BY <2>3, <2>4
<1>8. CASE CommitFails(s)
  BY <1>8, ResetType DEF CommitFails, StoreTypeOK
<1> QED
  BY <1>1, <1>2, <1>3, <1>4, <1>5, <1>6, <1>7, <1>8 DEF ApplyOp

LEMMA ApplyStatesType ==
    ASSUME TypeOK, Shape, NEW s \in Sessions, ApplyStates(s)
    PROVE  TypeOK' /\ Shape'
<1> USE DEF TypeOK
<1>1. CASE FlushState(s)
  <2>1. PICK so \in sops[s] :
          /\ pc[s] = "flushing"
          /\ \E row \in RowAfter(so) : states' = [states EXCEPT ![so.id] = row]
          /\ sops' = [sops EXCEPT ![s] = @ \ {so}]
          /\ edited' = IF so.sum = db[so.id] THEN edited \ {so.id} ELSE edited
          /\ DisturbOthers(s, {so.id})
          /\ UNCHANGED <<clock, db, files, pc, cand, ops, cur, goal>>
    BY <1>1 DEF FlushState
  <2>2. so \in SyncStateOp /\ so.id \in Models /\ WellFormedStateOp(so)
    BY DEF SessionTypeOK, Shape, SyncStateOp
  <2>3. states' \in [Models -> SyncState \union {Nothing}]
    BY <2>1, <2>2, RowAfterShape DEF StoreTypeOK, StateRow
  <2>4. StoreTypeOK'
    BY <2>1, <2>2, <2>3 DEF StoreTypeOK, DisturbOthers
  <2>5. SessionTypeOK' /\ Shape'
    BY <2>1 DEF SessionTypeOK, Shape, WellFormedOp, WellFormedStateOp
  <2> QED
    BY <2>4, <2>5
<1>2. CASE FlushFails(s)
  BY <1>2, ResetType DEF FlushFails, StoreTypeOK
<1>3. CASE Finish(s)
  BY <1>3, ResetType DEF Finish, StoreTypeOK
<1> QED
  BY <1>1, <1>2, <1>3 DEF ApplyStates

LEMMA Tick ==
    ASSUME StoreTypeOK, clock < MaxClock, clock' = clock + 1
    PROVE  clock' \in Time /\ clock < clock'
<1>1. MaxClock \in Nat
  BY ConstantsAssumption
<1> QED
  BY <1>1 DEF StoreTypeOK, Time

LEMMA MishapType ==
    ASSUME TypeOK, Shape, Mishap
    PROVE  TypeOK' /\ Shape'
<1> USE DEF TypeOK
<1>1. CASE Crash
  <2>1. StoreTypeOK'
    BY <1>1, Tick DEF Crash, StoreTypeOK
  <2>2. SessionTypeOK' /\ Shape'
    BY <1>1 DEF Crash, SessionTypeOK, Shape, NoGoal
  <2> QED
    BY <2>1, <2>2
<1>2. ASSUME NEW s \in Sessions, Decline(s) \/ IoError(s)
      PROVE  TypeOK' /\ Shape'
  BY <1>2, Tick, ResetType DEF Decline, IoError, StoreTypeOK
<1> QED
  BY <1>1, <1>2 DEF Mishap

LEMMA UserType ==
    ASSUME TypeOK, Shape, User
    PROVE  TypeOK' /\ Shape'
<1> USE DEF TypeOK
<1>1. ASSUME NEW m \in Models, Save(m)
      PROVE  TypeOK' /\ Shape'
  <2>1. clock' \in Time
    BY <1>1, Tick DEF Save
  <2>2. db' \in [Models -> Content \union {Nothing}]
    <3>1. PICK b \in Visibility(m) :
            db' = [db EXCEPT ![m] = [val |-> clock', upd |-> clock', pub |-> b]]
      BY <1>1 DEF Save
    <3>2. [val |-> clock', upd |-> clock', pub |-> b] \in Content
      BY <2>1, <3>1 DEF Content, Visibility
    <3> QED
      BY <3>1, <3>2 DEF StoreTypeOK
  <2>3. StoreTypeOK'
    BY <1>1, <2>1, <2>2 DEF Save, StoreTypeOK, DisturbAll
  <2>4. SessionTypeOK' /\ Shape'
    BY <1>1 DEF Save, SessionTypeOK, Shape, WellFormedOp, WellFormedStateOp
  <2> QED
    BY <2>3, <2>4
<1>2. ASSUME NEW m \in Models, DeleteModel(m)
      PROVE  TypeOK' /\ Shape'
  <2>1. Inside[m] \subseteq Models
    BY ConstantsAssumption
  <2>2. StoreTypeOK'
    BY <1>2, <2>1, Tick, DropRowsType DEF DeleteModel, StoreTypeOK, DisturbAll
  <2>3. SessionTypeOK' /\ Shape'
    BY <1>2 DEF DeleteModel, SessionTypeOK, Shape, WellFormedOp, WellFormedStateOp
  <2> QED
    BY <2>2, <2>3
<1> QED
  BY <1>1, <1>2 DEF User, EditModel, CreateModel

LEMMA SessionsUnchanged ==
    ASSUME SessionTypeOK, Shape, UNCHANGED sessVars
    PROVE  SessionTypeOK' /\ Shape'
BY DEF sessVars, SessionTypeOK, Shape, WellFormedOp, WellFormedStateOp

LEMMA OutsideType ==
    ASSUME TypeOK, Shape, Outside
    PROVE  TypeOK' /\ Shape'
<1> USE DEF TypeOK
<1>1. ASSUME NEW p \in Paths, NEW m \in Models, WriteOutside(p, m)
      PROVE  StoreTypeOK'
  <2>1. clock' \in Time /\ clock \in Time
    BY <1>1, Tick DEF WriteOutside, StoreTypeOK
  <2>2. \A u \in {1, clock'} \union {files[q].c.upd : q \in Holding(m)} : u \in Time
    <3>1. 1 \in Time
      BY ConstantsAssumption DEF Time
    <3> QED
      BY <2>1, <3>1 DEF Holding, File, Content
  <2>3. files' \in [Paths -> File \union {Garbage, Nothing}]
    <3>1. PICK u \in {1, clock'} \union {files[q].c.upd : q \in Holding(m)}, b \in Visibility(m) :
            files' = [files EXCEPT ![p] =
              [id |-> m, c |-> [val |-> clock', upd |-> u, pub |-> b]]]
      BY <1>1 DEF WriteOutside
    <3>2. [val |-> clock', upd |-> u, pub |-> b] \in Content
      BY <2>1, <2>2, <3>1 DEF Content, Visibility
    <3>3. [id |-> m, c |-> [val |-> clock', upd |-> u, pub |-> b]] \in File
      BY <3>2 DEF File
    <3> QED
      BY <3>1, <3>3 DEF StoreTypeOK
  <2>4. disturbed' \subseteq Models
    BY <1>1 DEF WriteOutside, Strays, Owners, StoreTypeOK
  <2> QED
    BY <1>1, <2>1, <2>3, <2>4 DEF WriteOutside, StoreTypeOK
<1>2. ASSUME NEW p \in Paths, RemoveOutside(p) \/ CorruptOutside(p)
      PROVE  StoreTypeOK'
  BY <1>2, Tick DEF RemoveOutside, CorruptOutside, StoreTypeOK, DisturbAll, Owners
<1>3. ASSUME NEW p \in Paths, NEW q \in Paths, RenameOutside(p, q)
      PROVE  StoreTypeOK'
  BY <1>3, Tick DEF RenameOutside, StoreTypeOK, Owners
<1>4. UNCHANGED sessVars
  BY DEF Outside, WriteOutside, RemoveOutside, CorruptOutside, RenameOutside
<1> QED
  BY <1>1, <1>2, <1>3, <1>4, SessionsUnchanged DEF Outside

LEMMA TypeNext == TypeOK /\ Shape /\ [Next]_vars => TypeOK' /\ Shape'
<1> SUFFICES ASSUME TypeOK, Shape, [Next]_vars PROVE TypeOK' /\ Shape'
  OBVIOUS
<1>1. CASE SyncStep
  BY <1>1, ScanDbType, ScanFsType, ApplyOpType, ApplyStatesType DEF SyncStep, Calculate
<1>2. CASE UNCHANGED vars
  BY <1>2, SessionsUnchanged DEF vars, sessVars, TypeOK, StoreTypeOK
<1> QED
  BY <1>1, <1>2, MishapType, UserType, OutsideType DEF Next

(* Every variable keeps its type, in particular what a step writes to a    *)
(* row, a file or a sync state is well formed (sync.rs, models.rs).        *)
THEOREM TypeCorrect == Spec => []TypeOK
<1>1. Spec => [](TypeOK /\ Shape)
  BY TypeInit, TypeNext, PTL DEF Spec
<1> QED
  BY <1>1, PTL

-----------------------------------------------------------------------------
(* Only calculate makes operations.                                        *)
LEMMA OpsShrink ==
    ASSUME TypeOK, [Next]_vars, NEW t \in Sessions, ~ScanFs(t)
    PROVE  ops'[t] \subseteq ops[t]
<1> USE DEF TypeOK, SessionTypeOK
<1>1. ASSUME NEW s \in Sessions, Reset(s) PROVE ops'[t] \subseteq ops[t]
  BY <1>1 DEF Reset
<1>2. ASSUME NEW s \in Sessions, NEW op \in ops[s], Finished(s, op) PROVE ops'[t] \subseteq ops[t]
  BY <1>2 DEF Finished
<1>3. ASSUME NEW s \in Sessions, ApplyOp(s) PROVE ops'[t] \subseteq ops[t]
  <2>1. CASE OpenFile(s)
    BY <2>1 DEF OpenFile
  <2>2. CASE WriteFile(s)
    BY <2>2 DEF WriteFile, Finished
  <2>3. CASE RemoveFile(s) \/ ForgetFile(s) \/ DeleteRow(s)
    BY <1>2, <2>3 DEF RemoveFile, ForgetFile, DeleteRow
  <2>4. CASE RemoveFileFails(s) \/ CommitFails(s)
    BY <1>1, <2>4 DEF RemoveFileFails, CommitFails
  <2>5. CASE CommitUpserts(s)
    BY <2>5 DEF CommitUpserts
  <2> QED
    BY <1>3, <2>1, <2>2, <2>3, <2>4, <2>5 DEF ApplyOp
<1>4. ASSUME NEW s \in Sessions, ApplyStates(s) PROVE ops'[t] \subseteq ops[t]
  BY <1>1, <1>4 DEF ApplyStates, FlushState, FlushFails, Finish
<1>5. ASSUME NEW s \in Sessions, Calculate(s) PROVE ops'[t] \subseteq ops[t]
  <2>1. CASE s = t
    BY <1>5, <2>1 DEF Calculate, ScanDb
  <2>2. CASE s # t
    BY <1>5, <2>2 DEF Calculate, ScanDb, ScanFs
  <2> QED
    BY <2>1, <2>2
<1>6. CASE Mishap
  BY <1>1, <1>6 DEF Mishap, Crash, Decline, IoError
<1>7. CASE User \/ Outside \/ UNCHANGED vars
  BY <1>7 DEF User, EditModel, CreateModel, Save, DeleteModel, Outside, WriteOutside,
     RemoveOutside, CorruptOutside, RenameOutside, sessVars, vars
<1> QED
  BY <1>3, <1>4, <1>5, <1>6, <1>7 DEF Next, SyncStep

\* Where the operations of a scan come from.
LEMMA ScannedOps ==
    ASSUME TypeOK, Shape, NEW s \in Sessions, ScanFs(s), NEW op \in ops'[s]
    PROVE  \E m \in Models, f \in FsCandidate \union {Nothing} :
              /\ OpsFor(m, cand[s][m][1], cand[s][m][2], f) = {op}
              /\ op.id = m
              /\ op.type \in FsWrites => op.c = cand[s][m][1] /\ Shared(m, cand[s][m][1])
              /\ \A o \in ops'[s] : o.id = m => o = op
<1>1. PICK f \in [Models -> UNION {FsCandidates(m) : m \in Models}] :
        /\ \A m \in Models : f[m] \in FsCandidates(m)
        /\ ops' = [ops EXCEPT ![s] =
                UNION {OpsFor(m, cand[s][m][1], cand[s][m][2], f[m]) : m \in Models}]
  BY DEF ScanFs
<1>2. cand[s] \in [Models -> Row \X StateRow]
  BY DEF ScanFs, TypeOK, SessionTypeOK, Shape, Row, StateRow
<1>3. \A o \in ops'[s] : \E m \in Models : o \in OpsFor(m, cand[s][m][1], cand[s][m][2], f[m])
  BY <1>1 DEF TypeOK, SessionTypeOK
<1>4. ASSUME NEW o, NEW m \in Models, o \in OpsFor(m, cand[s][m][1], cand[s][m][2], f[m])
      PROVE  /\ f[m] \in FsCandidate \union {Nothing}
             /\ OpsFor(m, cand[s][m][1], cand[s][m][2], f[m]) = {o}
             /\ o.id = m
             /\ o.type \in FsWrites => o.c = cand[s][m][1] /\ Shared(m, cand[s][m][1])
  <2>1. f[m] \in FsCandidate \union {Nothing}
    BY <1>1, FsCandidateType DEF TypeOK
  <2>2. cand[s][m][1] \in Row /\ cand[s][m][2] \in StateRow
    BY <1>2
  <2> QED
    BY <1>4, <2>1, <2>2, OpsForShape
<1>5. PICK m \in Models : op \in OpsFor(m, cand[s][m][1], cand[s][m][2], f[m])
  BY <1>3
<1>6. \A o \in ops'[s] : o.id = m => o = op
  <2> SUFFICES ASSUME NEW o \in ops'[s], o.id = m PROVE o = op
    OBVIOUS
  <2>1. PICK n \in Models : o \in OpsFor(n, cand[s][n][1], cand[s][n][2], f[n])
    BY <1>3
  <2>2. n = m
    BY <1>4, <2>1
  <2>3. o \in OpsFor(m, cand[s][m][1], cand[s][m][2], f[m])
    BY <2>1, <2>2
  <2>4. OpsFor(m, cand[s][m][1], cand[s][m][2], f[m]) = {op}
    BY <1>4, <1>5
  <2> QED
    BY <2>3, <2>4
<1> QED
  BY <1>4, <1>5, <1>6

LEMMA PrivateNext ==
    ASSUME TypeOK, Shape, CarriesNothingPrivate, [Next]_vars
    PROVE  CarriesNothingPrivate'
<1> SUFFICES ASSUME NEW t \in Sessions, NEW op \in ops'[t], op.type \in FsWrites
             PROVE  ~Private(op.id, op.c)
  BY DEF CarriesNothingPrivate, Private
<1>1. CASE ScanFs(t)
  BY <1>1, ScannedOps DEF Shared
<1>2. CASE ~ScanFs(t)
  BY <1>2, OpsShrink DEF CarriesNothingPrivate
<1> QED
  BY <1>1, <1>2

(* Only a file that is opened for an operation is written, and then with   *)
(* what the operation holds, so get_db_candidates' filter (sync.rs:129)    *)
(* protects a private environment's contents however old they are.         *)
THEOREM PrivateStaysInDatabase == Spec => PrivateNeverWritten
<1>1. Init => CarriesNothingPrivate
  BY DEF Init, CarriesNothingPrivate
<1>2. ASSUME TypeOK, Shape, CarriesNothingPrivate, [Next]_vars
      PROVE  [SyncStep => \A p \in Paths : files'[p] # files[p] =>
                ~(files'[p] \in File /\ Private(files'[p].id, files'[p].c))]_vars
  <2> SUFFICES ASSUME NEW s \in Sessions, Calculate(s) \/ ApplyOp(s) \/ ApplyStates(s),
                      NEW p \in Paths, files'[p] # files[p], files'[p] \in File
               PROVE  ~Private(files'[p].id, files'[p].c)
    BY DEF SyncStep
  <2> USE NothingAssumption DEF TypeOK, StoreTypeOK, SessionTypeOK
  <2>1. CASE OpenFile(s)
    <3>1. files'[p] = Garbage
      BY <2>1 DEF OpenFile
    <3> QED
      BY <3>1
  <2>2. CASE WriteFile(s)
    <3>1. cur[s] \in ops[s] /\ cur[s].type \in FsWrites
      BY <1>2, <2>2 DEF WriteFile, Shape
    <3> DEFINE new == [id |-> cur[s].id, c |-> cur[s].c]
    <3>2. PICK out \in {files[cur[s].path], new, Garbage, Nothing} :
            files' = [files EXCEPT ![cur[s].path] = out]
      BY <2>2 DEF WriteFile
    <3>3. p = cur[s].path /\ files'[p] = out
      BY <3>2
    <3>4. files'[p] = new
      BY <3>2, <3>3
    <3> QED
      BY <1>2, <3>1, <3>4 DEF CarriesNothingPrivate
  <2>3. CASE RemoveFile(s)
    <3>1. files'[p] = Nothing
      BY <2>3 DEF RemoveFile
    <3> QED
      BY <3>1
  <2>4. CASE ~OpenFile(s) /\ ~WriteFile(s) /\ ~RemoveFile(s)
    BY <2>4 DEF Calculate, ScanDb, ScanFs, ApplyOp, RemoveFileFails, ForgetFile, DeleteRow,
       CommitUpserts, CommitFails, ApplyStates, FlushState, FlushFails, Finish
  <2> QED
    BY <2>1, <2>2, <2>3, <2>4
<1>3. Spec => [](TypeOK /\ Shape /\ CarriesNothingPrivate)
  BY <1>1, TypeInit, TypeNext, PrivateNext, PTL DEF Spec
<1> QED
  BY <1>2, <1>3, PTL DEF Spec, PrivateNeverWritten

-----------------------------------------------------------------------------
(* EditsDetected.                                                          *)

LEMMA OneOpNext ==
    ASSUME TypeOK, Shape, OneOpPerModel, [Next]_vars
    PROVE  OneOpPerModel'
<1> USE DEF TypeOK, SessionTypeOK
<1>1. ASSUME NEW t \in Sessions, ops'[t] \subseteq ops[t], sops'[t] \subseteq sops[t]
      PROVE  /\ \A o1, o2 \in ops'[t] : o1.id = o2.id => o1 = o2
             /\ \A op \in ops'[t], so \in sops'[t] : op.id # so.id
  BY <1>1 DEF OneOpPerModel
<1>2. ASSUME NEW s \in Sessions, NEW op \in ops[s], Finished(s, op)
      PROVE  OneOpPerModel'
  <2>1. StateOp(op).id = op.id
    BY <1>2, StateOpShape DEF Shape
  <2>2. ops'[s] = ops[s] \ {op} /\ sops'[s] = sops[s] \union {StateOp(op)}
    BY <1>2 DEF Finished
  <2>3. \A t \in Sessions \ {s} : ops'[t] = ops[t] /\ sops'[t] = sops[t]
    BY <1>2 DEF Finished
  <2> QED
    BY <2>1, <2>2, <2>3 DEF OneOpPerModel
<1>3. ASSUME NEW s \in Sessions, ScanFs(s)
      PROVE  OneOpPerModel'
  <2>1. sops' = sops /\ sops[s] = {}
    BY <1>3 DEF ScanFs, Shape
  <2>2. \A o1, o2 \in ops'[s] : o1.id = o2.id => o1 = o2
    BY <1>3, ScannedOps
  <2>3. \A t \in Sessions \ {s} : ops'[t] = ops[t]
    BY <1>3 DEF ScanFs
  <2> QED
    BY <2>1, <2>2, <2>3 DEF OneOpPerModel
<1>4. ASSUME NEW s \in Sessions, CommitUpserts(s)
      PROVE  OneOpPerModel'
  <2>1. ops'[s] = {} /\ \A t \in Sessions \ {s} : ops'[t] = ops[t] /\ sops'[t] = sops[t]
    BY <1>4 DEF CommitUpserts
  <2> QED
    BY <2>1 DEF OneOpPerModel
<1>5. CASE /\ \A s \in Sessions : ~ScanFs(s) /\ ~CommitUpserts(s)
           /\ \A s \in Sessions : \A op \in ops[s] : ~Finished(s, op)
  <2>1. \A t \in Sessions : ops'[t] \subseteq ops[t]
    BY <1>5, OpsShrink
  <2>2. \A t \in Sessions : sops'[t] \subseteq sops[t]
    <3>1. ASSUME NEW s \in Sessions, Reset(s) PROVE \A t \in Sessions : sops'[t] \subseteq sops[t]
      BY <3>1 DEF Reset
    <3>2. ASSUME NEW s \in Sessions, ApplyOp(s) PROVE \A t \in Sessions : sops'[t] \subseteq sops[t]
      <4>1. ~(WriteFile(s) \/ RemoveFile(s) \/ ForgetFile(s) \/ DeleteRow(s))
        BY <1>5 DEF WriteFile, RemoveFile, ForgetFile, DeleteRow, Shape
      <4> QED
        BY <1>5, <3>1, <3>2, <4>1 DEF ApplyOp, OpenFile, RemoveFileFails, CommitFails
    <3>3. ASSUME NEW s \in Sessions, ApplyStates(s) PROVE \A t \in Sessions : sops'[t] \subseteq sops[t]
      BY <3>1, <3>3 DEF ApplyStates, FlushState, FlushFails, Finish
    <3>4. ASSUME NEW s \in Sessions, Calculate(s) PROVE \A t \in Sessions : sops'[t] \subseteq sops[t]
      BY <1>5, <3>4 DEF Calculate, ScanDb
    <3>5. CASE Mishap
      BY <3>1, <3>5 DEF Mishap, Crash, Decline, IoError
    <3>6. CASE User \/ Outside \/ UNCHANGED vars
      BY <3>6 DEF User, EditModel, CreateModel, Save, DeleteModel, Outside, WriteOutside,
         RemoveOutside, CorruptOutside, RenameOutside, sessVars, vars
    <3> QED
      BY <3>2, <3>3, <3>4, <3>5, <3>6 DEF Next, SyncStep
  <2> QED
    BY <1>1, <2>1, <2>2 DEF OneOpPerModel
<1> QED
  BY <1>2, <1>3, <1>4, <1>5

LEMMA FlushedPastNext ==
    ASSUME TypeOK, Shape, FlushedPast, [Next]_vars
    PROVE  FlushedPast'
<1> USE DEF TypeOK, StoreTypeOK
<1>1. clock \in Nat /\ clock' \in Nat /\ clock =< clock'
  <2>1. clock' = clock \/ clock' = clock + 1
    BY DEF Next, SyncStep, Calculate, ScanDb, ScanFs, ApplyOp, OpenFile, WriteFile, RemoveFile,
       RemoveFileFails, ForgetFile, DeleteRow, CommitUpserts, CommitFails, ApplyStates, FlushState,
       FlushFails, Finish, Mishap, Crash, Decline, IoError, User, EditModel, CreateModel,
       Save, DeleteModel, Outside, WriteOutside, RemoveOutside, CorruptOutside, RenameOutside, vars
  <2> QED
    BY <2>1 DEF Time
<1>2. \A m \in Models : states[m] # Nothing => states[m].flushed \in Nat
  BY DEF SyncState, Time
<1>3. ASSUME NEW ms \in SUBSET Models, DropRows(ms)
      PROVE  FlushedPast'
  BY <1>1, <1>2, <1>3 DEF DropRows, FlushedPast
<1>4. ASSUME NEW s \in Sessions, FlushState(s)
      PROVE  FlushedPast'
  <2>1. PICK so \in sops[s] : \E row \in RowAfter(so) :
          states' = [states EXCEPT ![so.id] = row] /\ clock' = clock
    BY <1>4 DEF FlushState
  <2> PICK row \in RowAfter(so) : states' = [states EXCEPT ![so.id] = row] /\ clock' = clock
    BY <2>1
  <2>2. so \in SyncStateOp /\ so.id \in Models /\ WellFormedStateOp(so)
    BY DEF SessionTypeOK, Shape, SyncStateOp
  <2>3. row = Nothing \/ row.flushed = clock \/ row = states[so.id]
    BY <2>2, RowAfterShape
  <2> QED
    BY <1>1, <2>1, <2>2, <2>3 DEF FlushedPast
<1>5. ASSUME NEW s \in Sessions, DeleteRow(s)
      PROVE  FlushedPast'
  BY <1>3, <1>5, ConstantsAssumption DEF DeleteRow, SessionTypeOK, SyncOp
<1>6. ASSUME NEW m \in Models, DeleteModel(m)
      PROVE  FlushedPast'
  BY <1>3, <1>6, ConstantsAssumption DEF DeleteModel
<1>7. CASE states' = states
  BY <1>1, <1>2, <1>7 DEF FlushedPast
<1>8. UNCHANGED states \/ (\E s \in Sessions : FlushState(s) \/ DeleteRow(s))
                       \/ \E m \in Models : DeleteModel(m)
  BY DEF Next, SyncStep, Calculate, ScanDb, ScanFs, ApplyOp, OpenFile, WriteFile, RemoveFile,
     RemoveFileFails, ForgetFile, CommitUpserts, CommitFails, ApplyStates,
     FlushFails, Finish, Mishap, Crash, Decline, IoError, User, EditModel, CreateModel,
     Save, Outside, WriteOutside, RemoveOutside, CorruptOutside, RenameOutside, vars
<1> QED
  BY <1>4, <1>5, <1>6, <1>7, <1>8

\* A session goes on carrying the rows as long as it takes on nothing new and
\* what changes in the database disturbs it.
LEMMA CarriesKept ==
    ASSUME Shape, CarriesRows, NEW t \in Sessions,
           pc'[t] = "scanned" => pc[t] = "scanned" /\ cand'[t] = cand[t],
           ops'[t] \subseteq ops[t], sops'[t] \subseteq sops[t],
           disturbed \subseteq disturbed', TypeOK,
           Busy(t) => \A m \in Models \ disturbed' : db'[m] = db[m]
    PROVE  Carries(t)'
<1>1. CASE Busy(t)
  <2>1. \A op \in ops[t] : op.id \in Models
    BY DEF TypeOK, SessionTypeOK, SyncOp
  <2>2. \A so \in sops[t] : so.id \in Models
    BY DEF TypeOK, SessionTypeOK, SyncStateOp
  <2> QED
    BY <1>1, <2>1, <2>2 DEF CarriesRows, Carries
<1>2. CASE ~Busy(t)
  <2>1. ops'[t] = {} /\ sops'[t] = {} /\ pc'[t] # "scanned"
    BY <1>2 DEF Busy, Shape
  <2> QED
    BY <2>1 DEF Carries
<1> QED
  BY <1>1, <1>2

\* An operation on a file hands what it carries on to the state change.
LEMMA CarriesFinished ==
    ASSUME TypeOK, Shape, CarriesRows, NEW s \in Sessions, NEW op \in ops[s], Finished(s, op),
           op.type \notin DbUpserts, UNCHANGED <<db, cand>>, disturbed \subseteq disturbed'
    PROVE  CarriesRows'
<1>1. ASSUME NEW t \in Sessions \ {s} PROVE Carries(t)'
  BY CarriesKept DEF Finished, TypeOK, SessionTypeOK
<1>2. Carries(s)'
  <2>1. op \in SyncOp /\ op.type \in OpTypes
    BY DEF TypeOK, SessionTypeOK, SyncOp
  <2>2. StateOp(op).type # "Delete" => op.type \in FsWrites
    BY <2>1 DEF StateOp, FsWrites, DbUpserts, OpTypes
  <2>3. StateOp(op).id = op.id /\ StateOp(op).sum = op.c
    BY DEF StateOp
  <2>4. pc'[s] = "applying" /\ ops'[s] \subseteq ops[s] /\ sops'[s] = sops[s] \union {StateOp(op)}
    BY DEF Finished, TypeOK, SessionTypeOK
  <2> QED
    BY <2>2, <2>3, <2>4 DEF CarriesRows, Carries
<1> QED
  BY <1>1, <1>2 DEF CarriesRows

LEMMA CarriesScan ==
    ASSUME TypeOK, Shape, CarriesRows, NEW s \in Sessions, Calculate(s)
    PROVE  CarriesRows'
<1>1. ASSUME NEW t \in Sessions \ {s} PROVE Carries(t)'
  BY CarriesKept DEF Calculate, ScanDb, ScanFs, TypeOK, SessionTypeOK
<1>2. CASE ScanDb(s)
  <2>1. pc'[s] = "scanned" /\ ops'[s] = {} /\ sops'[s] = {}
    BY <1>2 DEF ScanDb, Shape, TypeOK, SessionTypeOK
  <2>2. \A m \in Models : cand'[s][m][1] = db'[m]
    BY <1>2 DEF ScanDb, TypeOK, SessionTypeOK
  <2>3. Carries(s)'
    BY <2>1, <2>2 DEF Carries
  <2> QED
    BY <1>1, <2>3 DEF CarriesRows
<1>3. CASE ScanFs(s)
  <2>1. pc[s] = "scanned" /\ pc'[s] # "scanned" /\ sops'[s] = {} /\ UNCHANGED <<db, disturbed>>
    BY <1>3 DEF ScanFs, Shape, TypeOK, SessionTypeOK
  <2>2. ASSUME NEW op \in ops'[s], op.type \in FsWrites, op.id \notin disturbed
        PROVE  op.c = db[op.id]
    <3>1. op.id \in Models /\ op.c = cand[s][op.id][1]
      BY <1>3, <2>2, ScannedOps
    <3> QED
      BY <2>1, <2>2, <3>1 DEF CarriesRows, Carries
  <2>3. Carries(s)'
    BY <2>1, <2>2 DEF Carries
  <2> QED
    BY <1>1, <2>3 DEF CarriesRows
<1> QED
  BY <1>2, <1>3 DEF Calculate

LEMMA CarriesReset ==
    ASSUME TypeOK, Shape, CarriesRows, NEW s \in Sessions, Reset(s), UNCHANGED <<db, disturbed>>
    PROVE  CarriesRows'
BY CarriesKept DEF CarriesRows, Reset, TypeOK, SessionTypeOK

LEMMA CarriesDeleteRow ==
    ASSUME TypeOK, Shape, CarriesRows, OneOpPerModel, NEW s \in Sessions, DeleteRow(s)
    PROVE  CarriesRows'
<1> USE DEF TypeOK, SessionTypeOK, StoreTypeOK
<1>1. PICK op \in ops[s] :
        /\ Applying(s) /\ op.type = "DbDelete"
        /\ DropRows(Inside[op.id])
        /\ Finished(s, op)
        /\ disturbed' = disturbed \union (Inside[op.id] \ {op.id}) \union
              {m \in {op.id} : \E t \in Sessions \ {s} : Busy(t)}
        /\ UNCHANGED <<clock, files, cand, cur, goal>>
  BY DEF DeleteRow
<1>2. op.id \in Models
  BY DEF SyncOp
<1>3. \A m \in Models \ disturbed' : db'[m] = db[m] \/ m = op.id
  BY <1>1 DEF DropRows
<1>4. ASSUME NEW t \in Sessions \ {s} PROVE Carries(t)'
  <2>1. Busy(t) => \A m \in Models \ disturbed' : db'[m] = db[m]
    BY <1>1, <1>3
  <2> QED
    BY <1>1, <2>1, CarriesKept DEF Finished
<1>5. Carries(s)'
  <2>1. /\ pc'[s] = "applying" /\ ops'[s] = ops[s] \ {op}
        /\ sops'[s] = sops[s] \union {StateOp(op)} /\ disturbed \subseteq disturbed'
    BY <1>1 DEF Finished
  <2>2. StateOp(op).type = "Delete"
    BY <1>1 DEF StateOp
  <2>3. \A o \in ops[s] \ {op} : o.id \in Models /\ o.id # op.id
    BY DEF OneOpPerModel, SyncOp
  <2>4. \A so \in sops[s] : so.id \in Models /\ so.id # op.id
    BY DEF OneOpPerModel, SyncStateOp
  <2> QED
    BY <1>3, <2>1, <2>2, <2>3, <2>4 DEF CarriesRows, Carries
<1> QED
  BY <1>4, <1>5 DEF CarriesRows

LEMMA CarriesCommit ==
    ASSUME TypeOK, Shape, CarriesRows, OneOpPerModel, NEW s \in Sessions, CommitUpserts(s)
    PROVE  CarriesRows'
<1> USE DEF TypeOK, SessionTypeOK, StoreTypeOK
<1>1. \A m \in Models : (\A op \in ops[s] : op.id # m) => db'[m] = db[m]
  BY DEF CommitUpserts
<1>2. \A op \in ops[s] : op.id \in Models
  BY DEF SyncOp
<1>3. ASSUME NEW t \in Sessions \ {s} PROVE Carries(t)'
  <2>1. Busy(t) => disturbed' = disturbed \union {op.id : op \in ops[s]}
    BY DEF CommitUpserts, DisturbOthers
  <2>2. Busy(t) => \A m \in Models \ disturbed' : db'[m] = db[m]
    BY <1>1, <2>1
  <2>3. disturbed \subseteq disturbed'
    BY DEF CommitUpserts, DisturbOthers
  <2> QED
    BY <2>2, <2>3, CarriesKept DEF CommitUpserts
<1>4. Carries(s)'
  <2>1. /\ pc'[s] = "flushing" /\ ops'[s] = {} /\ disturbed \subseteq disturbed'
        /\ sops'[s] = sops[s] \union {StateOp(op) : op \in ops[s]}
    BY DEF CommitUpserts, DisturbOthers
  <2>2. \A op \in ops[s] : db'[op.id] = op.c
    <3> SUFFICES ASSUME NEW op \in ops[s] PROVE db'[op.id] = op.c
      OBVIOUS
    <3>1. db'[op.id] = (CHOOSE o \in ops[s] : o.id = op.id).c
      BY <1>2 DEF CommitUpserts
    <3>2. (CHOOSE o \in ops[s] : o.id = op.id) = op
      BY DEF OneOpPerModel
    <3> QED
      BY <3>1, <3>2
  <2>3. \A op \in ops[s] : StateOp(op).id = op.id /\ StateOp(op).sum = op.c
    BY DEF StateOp
  <2>4. \A so \in sops[s] : db'[so.id] = db[so.id]
    BY <1>1 DEF OneOpPerModel, SyncStateOp
  <2>5. ASSUME NEW so \in sops'[s], so.type # "Delete", so.id \notin disturbed'
        PROVE  so.sum = db'[so.id]
    <3>1. CASE so \in sops[s]
      BY <2>1, <2>4, <2>5, <3>1 DEF CarriesRows, Carries
    <3>2. ASSUME NEW op \in ops[s], so = StateOp(op) PROVE so.sum = db'[so.id]
      BY <2>2, <2>3, <3>2
    <3> QED
      BY <2>1, <3>1, <3>2
  <2> QED
    BY <2>1, <2>5 DEF Carries
<1> QED
  BY <1>3, <1>4 DEF CarriesRows

LEMMA CarriesNext ==
    ASSUME TypeOK, Shape, CarriesRows, OneOpPerModel, [Next]_vars
    PROVE  CarriesRows'
<1> USE DEF TypeOK, SessionTypeOK, StoreTypeOK
<1>1. ASSUME NEW s \in Sessions, ApplyOp(s) PROVE CarriesRows'
  <2>1. CASE OpenFile(s)
    <3>1. /\ disturbed \subseteq disturbed' /\ UNCHANGED <<db, cand, ops, sops>>
          /\ \A t \in Sessions : pc'[t] = "scanned" => pc[t] = "scanned"
      BY <2>1 DEF OpenFile
    <3> QED
      BY <3>1, CarriesKept DEF CarriesRows
  <2>2. CASE WriteFile(s)
    <3>1. cur[s] \in ops[s] /\ cur[s].type \notin DbUpserts
      BY <2>2 DEF WriteFile, Shape, FsWrites, DbUpserts
    <3> QED
      BY <2>2, <3>1, CarriesFinished DEF WriteFile, DisturbOthers
  <2>3. CASE RemoveFile(s)
    <3>1. PICK op \in ops[s] : /\ op.type = "FsDelete" /\ Finished(s, op)
                               /\ UNCHANGED <<db, cand>> /\ disturbed \subseteq disturbed'
      BY <2>3 DEF RemoveFile, DisturbOthers
    <3> QED
      BY <3>1, CarriesFinished DEF DbUpserts
  <2>4. CASE ForgetFile(s)
    <3>1. PICK op \in ops[s] : /\ op.type = "FsForget" /\ Finished(s, op)
                               /\ UNCHANGED <<db, cand, disturbed>>
      BY <2>4 DEF ForgetFile
    <3> QED
      BY <3>1, CarriesFinished DEF DbUpserts
  <2>5. CASE RemoveFileFails(s) \/ CommitFails(s)
    BY <2>5, CarriesReset DEF RemoveFileFails, CommitFails
  <2> QED
    BY <1>1, <2>1, <2>2, <2>3, <2>4, <2>5, CarriesDeleteRow, CarriesCommit DEF ApplyOp
<1>2. ASSUME NEW s \in Sessions, ApplyStates(s) PROVE CarriesRows'
  <2>1. CASE FlushState(s)
    <3>1. /\ disturbed \subseteq disturbed' /\ UNCHANGED <<db, pc, cand, ops>>
          /\ \A t \in Sessions : sops'[t] \subseteq sops[t]
      BY <2>1 DEF FlushState, DisturbOthers
    <3> QED
      BY <3>1, CarriesKept DEF CarriesRows
  <2>2. CASE FlushFails(s) \/ Finish(s)
    BY <2>2, CarriesReset DEF FlushFails, Finish
  <2> QED
    BY <1>2, <2>1, <2>2 DEF ApplyStates
<1>3. CASE Mishap
  <2>1. CASE Crash
    BY <2>1 DEF Crash, CarriesRows, Carries
  <2>2. ASSUME NEW s \in Sessions, Decline(s) \/ IoError(s) PROVE CarriesRows'
    BY <2>2, CarriesReset DEF Decline, IoError
  <2> QED
    BY <1>3, <2>1, <2>2 DEF Mishap
<1>4. CASE User
  <2>1. ASSUME NEW m \in Models, Save(m) \/ DeleteModel(m), NEW t \in Sessions
        PROVE  Carries(t)'
    <3>1. UNCHANGED sessVars
      BY <2>1 DEF Save, DeleteModel, sessVars
    <3>2. disturbed \subseteq disturbed'
      BY <2>1 DEF Save, DeleteModel, DisturbAll
    <3>3. Busy(t) => \A n \in Models \ disturbed' : db'[n] = db[n]
      <4>1. CASE Save(m)
        BY <4>1 DEF Save, DisturbAll
      <4>2. CASE DeleteModel(m)
        BY <4>2 DEF DeleteModel, DisturbAll, DropRows
      <4> QED
        BY <2>1, <4>1, <4>2
    <3> QED
      BY <3>1, <3>2, <3>3, CarriesKept DEF sessVars
  <2> QED
    BY <1>4, <2>1 DEF User, EditModel, CreateModel, CarriesRows
<1>5. CASE Outside \/ UNCHANGED vars
  <2>1. UNCHANGED <<db, pc, cand, ops, sops>> /\ disturbed \subseteq disturbed'
    BY <1>5 DEF Outside, WriteOutside, RemoveOutside, CorruptOutside, RenameOutside, DisturbAll,
       sessVars, vars
  <2> QED
    BY <2>1, CarriesKept DEF CarriesRows
<1> QED
  BY <1>1, <1>2, <1>3, <1>4, <1>5, CarriesScan DEF Next, SyncStep

LEMMA EditsNext ==
    ASSUME EditsInv, [Next]_vars
    PROVE  EditsDetected'
<1> USE DEF EditsInv, TypeOK, SessionTypeOK, StoreTypeOK
<1>1. ASSUME edited' \subseteq edited, disturbed \subseteq disturbed',
             \A m \in edited' : db'[m] = db[m],
             \A m \in edited' : states'[m] = states[m] \/ states'[m] = Nothing
      PROVE  EditsDetected'
  BY <1>1 DEF EditsDetected, EditDetected, Shared, Private, Added, Modified
<1>2. ASSUME NEW s \in Sessions, FlushState(s) PROVE EditsDetected'
  <2>1. PICK so \in sops[s] :
          /\ \E row \in RowAfter(so) : states' = [states EXCEPT ![so.id] = row]
          /\ edited' = IF so.sum = db[so.id] THEN edited \ {so.id} ELSE edited
          /\ DisturbOthers(s, {so.id})
          /\ UNCHANGED db
    BY <1>2 DEF FlushState
  <2>2. so \in SyncStateOp /\ so.id \in Models /\ WellFormedStateOp(so)
    BY DEF Shape, SyncStateOp
  <2>3. PICK row \in RowAfter(so) : states' = [states EXCEPT ![so.id] = row]
    BY <2>1
  <2>4. disturbed \subseteq disturbed'
    BY <2>1 DEF DisturbOthers
  <2>5. ASSUME NEW m \in edited' \ disturbed', m # so.id PROVE EditDetected(m)'
    BY <2>1, <2>2, <2>3, <2>4, <2>5 DEF EditsDetected, EditDetected, Shared, Private, Added, Modified
  <2>6. ASSUME so.id \in edited' \ disturbed' PROVE EditDetected(so.id)'
    <3>1. so.sum # db[so.id] /\ so.id \in edited \ disturbed
      BY <2>1, <2>4, <2>6
    <3>2. so.type = "Delete"
      BY <3>1 DEF CarriesRows, Carries
    <3>3. row = Nothing \/ row = states[so.id]
      BY <2>2, <3>2, RowAfterShape
    <3> QED
      BY <2>1, <2>2, <2>3, <3>1, <3>3 DEF EditsDetected, EditDetected, Shared, Private, Added, Modified
  <2> QED
    BY <2>5, <2>6 DEF EditsDetected
<1>3. ASSUME NEW s \in Sessions, DeleteRow(s) PROVE EditsDetected'
  BY <1>1, <1>3 DEF DeleteRow, DropRows
<1>4. ASSUME NEW s \in Sessions, CommitUpserts(s) PROVE EditsDetected'
  BY <1>1, <1>4 DEF CommitUpserts, DisturbOthers
<1>5. ASSUME NEW m \in Models, Save(m) PROVE EditsDetected'
  <2>1. PICK b \in Visibility(m) :
          db' = [db EXCEPT ![m] = [val |-> clock', upd |-> clock', pub |-> b]]
    BY <1>5 DEF Save
  <2>2. UNCHANGED states /\ clock' = clock + 1 /\ disturbed \subseteq disturbed'
        /\ edited' = edited \union {m}
    BY <1>5 DEF Save, DisturbAll
  <2>3. EditDetected(m)'
    <3>1. db'[m].upd = clock + 1
      BY <2>1, <2>2
    <3>2. states[m] # Nothing => states[m].flushed \in Time /\ states[m].flushed =< clock
      BY DEF FlushedPast, SyncState
    <3>3. states[m] # Nothing => db'[m].upd > states[m].flushed
      BY <3>1, <3>2 DEF Time
    <3> QED
      BY <2>2, <3>3 DEF EditDetected, Added, Modified
  <2>4. ASSUME NEW n \in edited \ disturbed, n # m PROVE EditDetected(n)'
    BY <2>1, <2>2, <2>4 DEF EditsDetected, EditDetected, Shared, Private, Added, Modified
  <2> QED
    BY <2>2, <2>3, <2>4 DEF EditsDetected
<1>6. ASSUME NEW m \in Models, DeleteModel(m) PROVE EditsDetected'
  BY <1>1, <1>6 DEF DeleteModel, DropRows, DisturbAll
<1>7. CASE \/ UNCHANGED <<db, states, edited>> /\ disturbed \subseteq disturbed'
  BY <1>1, <1>7
<1>8. \/ UNCHANGED <<db, states, edited>> /\ disturbed \subseteq disturbed'
      \/ \E s \in Sessions : FlushState(s) \/ DeleteRow(s) \/ CommitUpserts(s)
      \/ \E m \in Models : Save(m) \/ DeleteModel(m)
  BY DEF Next, SyncStep, Calculate, ScanDb, ScanFs, ApplyOp, OpenFile, WriteFile, RemoveFile,
     RemoveFileFails, ForgetFile, CommitFails, ApplyStates, FlushFails, Finish, Mishap, Crash,
     Decline, IoError, User, EditModel, CreateModel, Outside, WriteOutside, RemoveOutside,
     CorruptOutside, RenameOutside, DisturbOthers, DisturbAll, vars
<1> QED
  BY <1>2, <1>3, <1>4, <1>5, <1>6, <1>7, <1>8

(* An edit that no session and no stray file name disturbed is never lost  *)
(* from sight: get_db_candidates (sync.rs:137) goes on reporting it until  *)
(* it is in the directory, whatever sessions crash or fail in between.     *)
THEOREM EditsAreDetected == Spec => []EditsDetected
<1>1. Init => EditsInv
  <2> SUFFICES ASSUME Init PROVE EditsInv
    OBVIOUS
  <2>1. OneOpPerModel /\ CarriesRows /\ FlushedPast
    BY DEF Init, OneOpPerModel, CarriesRows, Carries, FlushedPast
  <2>2. EditsDetected
    BY DEF Init, EditsDetected, EditDetected, Added
  <2> QED
    BY <2>1, <2>2, TypeInit DEF EditsInv
<1>2. EditsInv /\ [Next]_vars => EditsInv'
  BY TypeNext, OneOpNext, FlushedPastNext, CarriesNext, EditsNext DEF EditsInv
<1>3. EditsInv => EditsDetected
  BY DEF EditsInv
<1> QED
  BY <1>1, <1>2, <1>3, PTL DEF Spec

-----------------------------------------------------------------------------
(* What a session has planned fits what it finds, for every value of the   *)
(* constants: InSyncMeansEqual, MergesAsPromised and OnePassSuffices.      *)
(*                                                                         *)
(* A model that is not disturbed has its file at home, nobody but the      *)
(* session under way touches its row, its sync state and that file, and    *)
(* the session has one operation or one state change for it.  Whatever     *)
(* calculate saw is then still so when apply comes to it.                  *)

\* The names under which something of model m may be kept: its own, and once
\* it is among the disturbed any that the application gives to no model.
NamesOf(m, ms) ==
    {p \in Paths : p = Home[m] \/ (m \in ms /\ \A n \in Models : p # Home[n])}

\* Contents were made, and carry a timestamp, by the time t.
MadeBy(c, t) == c # Nothing => c.val =< t /\ c.upd =< t

\* What may be in the directory, in a sync state, in an operation and in a
\* state change, at the time t with the models ms disturbed.
FileOK(p, f, t, ms) == f \in File => p \in NamesOf(f.id, ms) /\ MadeBy(f.c, t)
StateOK(m, st, t, ms) ==
    st # Nothing => /\ st.path \in NamesOf(m, ms)
                    /\ MadeBy(st.sum, t) /\ st.sum.upd =< st.flushed
OpOK(op, t, ms) == op.path \in NamesOf(op.id, ms) /\ MadeBy(op.c, t)
StateOpOK(so, t, ms) == so.path \in NamesOf(so.id, ms) /\ MadeBy(so.sum, t)

RecordsOK ==
    /\ \A m \in Models : MadeBy(db[m], clock) /\ StateOK(m, states[m], clock, disturbed)
    /\ \A p \in Paths : FileOK(p, files[p], clock, disturbed)
    /\ \A s \in Sessions : pc[s] = "scanned" => \A m \in Models :
          /\ MadeBy(cand[s][m][1], clock)
          /\ StateOK(m, cand[s][m][2], clock, disturbed)
    /\ \A s \in Sessions : \A op \in ops[s] : OpOK(op, clock, disturbed)
    /\ \A s \in Sessions : \A so \in sops[s] : StateOpOK(so, clock, disturbed)

OneStatePerModel ==
    \A s \in Sessions : \A s1, s2 \in sops[s] : s1.id = s2.id => s1 = s2

\* The contents of m's file at home, and m as get_fs_candidates finds it there.
HomeFile(m) == IF files[Home[m]] \in File THEN files[Home[m]].c ELSE Nothing
HomeCandidate(m) ==
    IF files[Home[m]] \in File THEN [path |-> Home[m], c |-> files[Home[m]].c] ELSE Nothing

\* An unmodified row whose file is as last synced is as last synced itself.
RowIsBase ==
    \A m \in Models \ disturbed :
        Unmodified(m, db[m], states[m]) /\ HomeFile(m) = states[m].sum
            => db[m] = states[m].sum

SameSid(m, sid) == states[m] # Nothing => sid = states[m].sid

\* An operation of an undisturbed model still fits row, state and file.
OpFits(op) ==
    /\ op.type \in DbUpserts => HomeFile(op.id) = op.c
    /\ op.type \in {"FsDelete", "FsForget"} => ~Shared(op.id, db[op.id])
    /\ op.type \in {"FsForget", "DbDelete"} => HomeFile(op.id) = Nothing
    /\ SameSid(op.id, op.sid)

\* A state change of an undisturbed model fits what its operation has left.
StateOpFits(so) ==
    /\ so.type # "Delete" => HomeFile(so.id) = so.sum
    /\ so.type = "Delete" => HomeFile(so.id) = Nothing /\ ~Shared(so.id, db[so.id])
    /\ SameSid(so.id, so.sid)

\* Row and file as the operation is going to leave them.
Outcome(op) ==
    << IF op.type \in DbUpserts THEN op.c
       ELSE IF op.type = "DbDelete" THEN Nothing ELSE db[op.id],
       IF op.type \in FsWrites THEN op.c
       ELSE IF op.type = "FsDelete" THEN Nothing ELSE HomeFile(op.id) >>

Calculated(s) == pc[s] \in {"ready", "applying", "writing", "flushing"}
Untouched(s, m) == \A op \in ops[s] : op.id # m
Recorded(s, m) == \A so \in sops[s] : so.id # m
InSync(m) == OpsFor(m, db[m], states[m], HomeCandidate(m)) = {}

\* What session s holds about the model m fits it.
FitsModel(s, m) ==
    /\ pc[s] = "scanned" => cand[s][m] = <<db[m], states[m]>>
    /\ \A op \in ops[s] : op.id = m =>
          OpFits(op) /\ (goal[s][m] # Nothing => Outcome(op) \in goal[s][m])
    /\ \A so \in sops[s] : so.id = m => StateOpFits(so)
    /\ Calculated(s) /\ Untouched(s, m) /\ goal[s][m] # Nothing
          => <<db[m], HomeFile(m)>> \in goal[s][m]
    /\ Calculated(s) /\ Untouched(s, m) /\ Recorded(s, m) /\ ~Private(m, db[m]) => InSync(m)
    /\ pc[s] = "writing" /\ cur[s].id = m => files[Home[m]] = Garbage

PlansFit == \A s \in Sessions : \A m \in Models \ disturbed : FitsModel(s, m)

FlushesLast == \A s \in Sessions : pc[s] = "flushing" => ops[s] = {}

\* The inductive invariant.
MergeInv ==
    EditsInv /\ RecordsOK /\ OneStatePerModel /\ FlushesLast /\ RowIsBase /\ PlansFit

-----------------------------------------------------------------------------
\* compute_sync_ops once more (sync.rs:229-310), with the condition of every branch.
LEMMA OpsForCases ==
    ASSUME NEW m \in Models, NEW d \in Row, NEW st \in StateRow,
           NEW f \in FsCandidate \union {Nothing}
    PROVE  \/ /\ NoCandidate(m, d, st) /\ f # Nothing
              /\ OpsFor(m, d, st, f) = {Op("DbCreate", m, f.c, f.path, Nothing)}
           \/ /\ Added(m, d, st)
              /\ OpsFor(m, d, st, f) = {Op("FsCreate", m, d, Home[m], Nothing)}
           \/ /\ Deleted(m, d, st) /\ f = Nothing
              /\ OpsFor(m, d, st, f) = {Op("FsForget", m, Nothing, st.path, st.sid)}
           \/ /\ Deleted(m, d, st) /\ f # Nothing
              /\ OpsFor(m, d, st, f) = {Op("FsDelete", m, Nothing, st.path, st.sid)}
           \/ /\ Unmodified(m, d, st) /\ f = Nothing
              /\ OpsFor(m, d, st, f) = {Op("DbDelete", m, Nothing, st.path, st.sid)}
           \/ /\ f # Nothing /\ f.c # st.sum
              /\ Unmodified(m, d, st) \/ (Modified(m, d, st) /\ d.upd < f.c.upd)
              /\ OpsFor(m, d, st, f) = {Op("DbUpdate", m, f.c, f.path, st.sid)}
           \/ /\ Modified(m, d, st)
              /\ f = Nothing \/ f.c = st.sum \/ ~(d.upd < f.c.upd)
              /\ OpsFor(m, d, st, f) = {Op("FsUpdate", m, d, st.path, st.sid)}
           \/ /\ NoCandidate(m, d, st) /\ f = Nothing
              /\ OpsFor(m, d, st, f) = {}
           \/ /\ Unmodified(m, d, st) /\ f # Nothing /\ f.c = st.sum
              /\ OpsFor(m, d, st, f) = {}
BY DEF OpsFor, NoCandidate, Added, Deleted, Modified, Unmodified

\* Where an undisturbed model's file is.
LEMMA AtHome ==
    ASSUME TypeOK, RecordsOK, NEW m \in Models
    PROVE  /\ Home[m] \in Paths
           /\ files[Home[m]] \in File => files[Home[m]].id = m
           /\ HomeFile(m) \in Row /\ HomeCandidate(m) \in FsCandidate \union {Nothing}
           /\ m \notin disturbed =>
                 /\ FileOf(m) = HomeFile(m) /\ FsCandidates(m) = {HomeCandidate(m)}
                 /\ states[m] # Nothing => states[m].path = Home[m]
<1>1. Home[m] \in Paths
  BY ConstantsAssumption
<1>2. files[Home[m]] \in File => files[Home[m]].id = m
  <2>1. SUFFICES ASSUME files[Home[m]] \in File PROVE files[Home[m]].id = m
    OBVIOUS
  <2>2. Home[m] \in NamesOf(files[Home[m]].id, disturbed) /\ files[Home[m]].id \in Models
    BY <1>1, <2>1 DEF RecordsOK, FileOK, File
  <2>3. Home[m] = Home[files[Home[m]].id]
    BY <2>2 DEF NamesOf
  <2> QED
    BY <2>2, <2>3, ConstantsAssumption
<1>3. files[Home[m]] \in File => files[Home[m]].c \in Content
  BY DEF File
<1>4. HomeFile(m) \in Row /\ HomeCandidate(m) \in FsCandidate \union {Nothing}
  BY <1>1, <1>3 DEF HomeFile, HomeCandidate, Row, FsCandidate
<1>5. ASSUME m \notin disturbed
      PROVE  /\ FileOf(m) = HomeFile(m) /\ FsCandidates(m) = {HomeCandidate(m)}
             /\ states[m] # Nothing => states[m].path = Home[m]
  <2>1. NamesOf(m, disturbed) = {Home[m]}
    BY <1>1, <1>5 DEF NamesOf
  <2>2. Holding(m) \subseteq {Home[m]}
    BY <2>1 DEF Holding, RecordsOK, FileOK
  <2>3. Holding(m) = IF files[Home[m]] \in File THEN {Home[m]} ELSE {}
    BY <1>1, <1>2, <2>2 DEF Holding
  <2>4. CASE files[Home[m]] \in File
    <3>1. Holding(m) = {Home[m]}
      BY <2>3, <2>4
    <3>2. OnDisk(m) = {files[Home[m]].c}
      BY <3>1 DEF OnDisk
    <3>3. FsCandidates(m) = {[path |-> Home[m], c |-> files[Home[m]].c]}
      BY <3>1 DEF FsCandidates
    <3> QED
      BY <2>1, <2>4, <3>2, <3>3 DEF FileOf, HomeFile, HomeCandidate, RecordsOK, StateOK
  <2>5. CASE files[Home[m]] \notin File
    <3>1. Holding(m) = {}
      BY <2>3, <2>5
    <3>2. OnDisk(m) = {} /\ FsCandidates(m) = {Nothing}
      BY <3>1 DEF OnDisk, FsCandidates
    <3> QED
      BY <2>1, <2>5, <3>2 DEF FileOf, HomeFile, HomeCandidate, RecordsOK, StateOK
  <2> QED
    BY <2>4, <2>5
<1> QED
  BY <1>1, <1>2, <1>4, <1>5

\* get_fs_candidates finds the file at home exactly when it parses.
LEMMA FoundAtHome ==
    ASSUME TypeOK, NEW m \in Models
    PROVE  \/ HomeFile(m) = Nothing /\ HomeCandidate(m) = Nothing /\ files[Home[m]] \notin File
           \/ /\ HomeFile(m) # Nothing /\ HomeFile(m) \in Content
              /\ HomeCandidate(m) # Nothing /\ HomeCandidate(m).path = Home[m]
              /\ HomeCandidate(m).c = HomeFile(m) /\ files[Home[m]] # Garbage
<1> DEFINE f == HomeCandidate(m)  c == HomeFile(m)
<1>1. CASE files[Home[m]] \in File
  <2>1. f = [path |-> Home[m], c |-> c] /\ c \in Content
    BY <1>1 DEF HomeCandidate, HomeFile, File
  <2>2. f \in [path : Paths, c : Content]
    BY <2>1, ConstantsAssumption
  <2>3. f # Nothing
    BY <2>2, NothingAssumption
  <2> HIDE DEF f, c
  <2>4. f.path = Home[m] /\ f.c = c
    BY <2>1
  <2>5. c # Nothing /\ files[Home[m]] # Garbage
    BY <1>1, <2>1, NothingAssumption
  <2> QED
    BY <2>1, <2>3, <2>4, <2>5 DEF f, c
<1>2. CASE files[Home[m]] \notin File
  BY <1>2 DEF HomeCandidate, HomeFile
<1> QED
  BY <1>1, <1>2

\* A name at home is m's alone.
LEMMA HomeIsOwn ==
    ASSUME NEW m \in Models, NEW n \in Models, NEW ms, Home[m] \in NamesOf(n, ms)
    PROVE  n = m
BY ConstantsAssumption DEF NamesOf

\* What was all right stays so while time passes and models are disturbed.
LEMMA OKLater ==
    ASSUME NEW t \in Nat, NEW u \in Nat, t =< u, NEW ms, NEW ns, ms \subseteq ns
    PROVE  /\ \A c \in Row : MadeBy(c, t) => MadeBy(c, u)
           /\ \A p, f : FileOK(p, f, t, ms) => FileOK(p, f, u, ns)
           /\ \A m, st : st \in StateRow /\ StateOK(m, st, t, ms) => StateOK(m, st, u, ns)
           /\ \A op \in SyncOp : OpOK(op, t, ms) => OpOK(op, u, ns)
           /\ \A so \in SyncStateOp : StateOpOK(so, t, ms) => StateOpOK(so, u, ns)
<1>1. \A m : NamesOf(m, ms) \subseteq NamesOf(m, ns)
  BY DEF NamesOf
<1>2. ASSUME NEW c \in Row, MadeBy(c, t) PROVE MadeBy(c, u)
  <2>1. c # Nothing => c.val \in Nat /\ c.upd \in Nat
    BY DEF Row, Content, Time
  <2> QED
    BY <1>2, <2>1 DEF MadeBy
<1>3. ASSUME NEW p, NEW f, FileOK(p, f, t, ms) PROVE FileOK(p, f, u, ns)
  <2>1. f \in File => f.c \in Row
    BY DEF File, Row
  <2> QED
    BY <1>1, <1>2, <1>3, <2>1 DEF FileOK
<1>4. ASSUME NEW m, NEW st \in StateRow, StateOK(m, st, t, ms) PROVE StateOK(m, st, u, ns)
  <2>1. st # Nothing => st.sum \in Row
    BY DEF StateRow, SyncState, Row
  <2> QED
    BY <1>1, <1>2, <1>4, <2>1 DEF StateOK
<1>5. ASSUME NEW op \in SyncOp, OpOK(op, t, ms) PROVE OpOK(op, u, ns)
  <2>1. op.c \in Row
    BY DEF SyncOp, Row
  <2> QED
    BY <1>1, <1>2, <1>5, <2>1 DEF OpOK
<1>6. ASSUME NEW so \in SyncStateOp, StateOpOK(so, t, ms) PROVE StateOpOK(so, u, ns)
  <2>1. so.sum \in Row
    BY DEF SyncStateOp, Row
  <2> QED
    BY <1>1, <1>2, <1>6, <2>1 DEF StateOpOK
<1> QED
  BY <1>2, <1>3, <1>4, <1>5, <1>6

LEMMA Passing ==
    ASSUME TypeOK, [Next]_vars
    PROVE  /\ clock \in Nat /\ clock' \in Nat /\ clock =< clock'
           /\ disturbed \subseteq disturbed'
<1>1. clock \in Nat
  BY DEF TypeOK, StoreTypeOK, Time
<1>2. clock' = clock \/ clock' = clock + 1
  BY DEF Next, SyncStep, Calculate, ScanDb, ScanFs, ApplyOp, OpenFile, WriteFile, RemoveFile,
     RemoveFileFails, ForgetFile, DeleteRow, CommitUpserts, CommitFails, ApplyStates, FlushState,
     FlushFails, Finish, Mishap, Crash, Decline, IoError, User, EditModel, CreateModel,
     Save, DeleteModel, Outside, WriteOutside, RemoveOutside, CorruptOutside, RenameOutside, vars
<1>3. disturbed \subseteq disturbed'
  BY DEF Next, SyncStep, Calculate, ScanDb, ScanFs, ApplyOp, OpenFile, WriteFile, RemoveFile,
     RemoveFileFails, ForgetFile, DeleteRow, CommitUpserts, CommitFails, ApplyStates, FlushState,
     FlushFails, Finish, Mishap, Crash, Decline, IoError, User, EditModel, CreateModel,
     Save, DeleteModel, Outside, WriteOutside, RemoveOutside, CorruptOutside, RenameOutside, vars,
     DisturbOthers, DisturbAll
<1> QED
  BY <1>1, <1>2, <1>3

-----------------------------------------------------------------------------
(* RecordsOK.                                                              *)

\* It is enough to look at what is new.
LEMMA RecordsKept ==
    ASSUME TypeOK, Shape, RecordsOK, [Next]_vars,
           \A m \in Models : db'[m] = db[m] \/ MadeBy(db'[m], clock'),
           \A m \in Models : states'[m] = states[m] \/ StateOK(m, states'[m], clock', disturbed'),
           \A p \in Paths : files'[p] = files[p] \/ FileOK(p, files'[p], clock', disturbed'),
           \A s \in Sessions : pc'[s] = "scanned" =>
              \/ pc[s] = "scanned" /\ cand'[s] = cand[s]
              \/ \A m \in Models : /\ MadeBy(cand'[s][m][1], clock')
                                   /\ StateOK(m, cand'[s][m][2], clock', disturbed'),
           \A s \in Sessions : \A op \in ops'[s] :
              op \in ops[s] \/ OpOK(op, clock', disturbed'),
           \A s \in Sessions : \A so \in sops'[s] :
              so \in sops[s] \/ StateOpOK(so, clock', disturbed')
    PROVE  RecordsOK'
<1>1. /\ \A c \in Row : MadeBy(c, clock) => MadeBy(c, clock')
      /\ \A p, f : FileOK(p, f, clock, disturbed) => FileOK(p, f, clock', disturbed')
      /\ \A m, st : st \in StateRow /\ StateOK(m, st, clock, disturbed)
            => StateOK(m, st, clock', disturbed')
      /\ \A op \in SyncOp : OpOK(op, clock, disturbed) => OpOK(op, clock', disturbed')
      /\ \A so \in SyncStateOp : StateOpOK(so, clock, disturbed)
            => StateOpOK(so, clock', disturbed')
  BY Passing, OKLater
<1>2. \A m \in Models : MadeBy(db'[m], clock') /\ StateOK(m, states'[m], clock', disturbed')
  <2>1. \A m \in Models : db[m] \in Row /\ states[m] \in StateRow
    BY DEF TypeOK, StoreTypeOK, Row, StateRow
  <2> QED
    BY <1>1, <2>1 DEF RecordsOK
<1>3. \A p \in Paths : FileOK(p, files'[p], clock', disturbed')
  BY <1>1 DEF RecordsOK
<1>4. ASSUME NEW s \in Sessions, pc'[s] = "scanned", NEW m \in Models
      PROVE  MadeBy(cand'[s][m][1], clock') /\ StateOK(m, cand'[s][m][2], clock', disturbed')
  <2>1. CASE pc[s] = "scanned" /\ cand'[s] = cand[s]
    <3>1. cand[s] \in [Models -> Row \X StateRow]
      BY <2>1 DEF TypeOK, SessionTypeOK, Shape, Row, StateRow
    <3>2. cand[s][m][1] \in Row /\ cand[s][m][2] \in StateRow
      BY <3>1
    <3> QED
      BY <1>1, <2>1, <3>2 DEF RecordsOK
  <2> QED
    BY <1>4, <2>1
<1>5. \A s \in Sessions : \A op \in ops'[s] : OpOK(op, clock', disturbed')
  <2>1. \A s \in Sessions : ops[s] \subseteq SyncOp
    BY DEF TypeOK, SessionTypeOK
  <2> QED
    BY <1>1, <2>1 DEF RecordsOK
<1>6. \A s \in Sessions : \A so \in sops'[s] : StateOpOK(so, clock', disturbed')
  <2>1. \A s \in Sessions : sops[s] \subseteq SyncStateOp
    BY DEF TypeOK, SessionTypeOK
  <2> QED
    BY <1>1, <2>1 DEF RecordsOK
<1> QED
  BY <1>2, <1>3, <1>4, <1>5, <1>6 DEF RecordsOK

\* The operations of a scan, model by model.
LEMMA ScanChoice ==
    ASSUME TypeOK, Shape, NEW s \in Sessions, ScanFs(s), NEW m \in Models
    PROVE  \E f \in FsCandidates(m) :
              /\ f \in FsCandidate \union {Nothing}
              /\ {op \in ops'[s] : op.id = m} = OpsFor(m, cand[s][m][1], cand[s][m][2], f)
<1>1. PICK f \in [Models -> UNION {FsCandidates(n) : n \in Models}] :
        /\ \A n \in Models : f[n] \in FsCandidates(n)
        /\ ops' = [ops EXCEPT ![s] =
                UNION {OpsFor(n, cand[s][n][1], cand[s][n][2], f[n]) : n \in Models}]
  BY DEF ScanFs
<1>2. cand[s] \in [Models -> Row \X StateRow]
  BY DEF ScanFs, TypeOK, SessionTypeOK, Shape, Row, StateRow
<1>3. ASSUME NEW n \in Models, NEW o \in OpsFor(n, cand[s][n][1], cand[s][n][2], f[n])
      PROVE  o.id = n
  <2>1. f[n] \in FsCandidate \union {Nothing}
    BY <1>1, FsCandidateType DEF TypeOK
  <2>2. cand[s][n][1] \in Row /\ cand[s][n][2] \in StateRow
    BY <1>2
  <2> QED
    BY <2>1, <2>2, OpsForShape
<1>4. ops'[s] = UNION {OpsFor(n, cand[s][n][1], cand[s][n][2], f[n]) : n \in Models}
  BY <1>1 DEF TypeOK, SessionTypeOK
<1>5. {op \in ops'[s] : op.id = m} = OpsFor(m, cand[s][m][1], cand[s][m][2], f[m])
  BY <1>3, <1>4
<1>6. f[m] \in FsCandidate \union {Nothing}
  BY <1>1, FsCandidateType DEF TypeOK
<1> QED
  BY <1>1, <1>5, <1>6

\* An operation is filled in from what was read.
LEMMA ScannedOK ==
    ASSUME TypeOK, Shape, RecordsOK, NEW s \in Sessions, ScanFs(s), NEW op \in ops'[s], TypeOK'
    PROVE  OpOK(op, clock, disturbed)
<1>1. op.id \in Models
  BY DEF TypeOK, SessionTypeOK, SyncOp
<1> DEFINE m == op.id  d == cand[s][m][1]  st == cand[s][m][2]
<1>2. PICK f \in FsCandidates(m) :
              /\ f \in FsCandidate \union {Nothing}
              /\ {o \in ops'[s] : o.id = m} = OpsFor(m, d, st, f)
  BY <1>1, ScanChoice
<1>3. op \in OpsFor(m, d, st, f)
  BY <1>2
<1>4. pc[s] = "scanned" /\ cand[s] \in [Models -> Row \X StateRow]
  BY DEF ScanFs, TypeOK, SessionTypeOK, Shape, Row, StateRow
<1>5. d \in Row /\ st \in StateRow /\ MadeBy(d, clock) /\ StateOK(m, st, clock, disturbed)
  BY <1>1, <1>4 DEF RecordsOK
<1>6. f # Nothing => f.path \in NamesOf(m, disturbed) /\ MadeBy(f.c, clock)
  BY <1>2 DEF FsCandidates, Holding, RecordsOK, FileOK
<1>7. Home[m] \in NamesOf(m, disturbed)
  BY <1>1, ConstantsAssumption DEF NamesOf
<1>8. \/ f # Nothing /\ op.path = f.path /\ op.c = f.c
      \/ op.path = Home[m] /\ op.c = d
      \/ st # Nothing /\ op.path = st.path /\ op.c \in {Nothing, d}
  <2> HIDE DEF m, d, st
  <2>1. m \in Models
    BY <1>1 DEF m
  <2>2. \/ f # Nothing /\ op = Op("DbCreate", m, f.c, f.path, Nothing)
        \/ op = Op("FsCreate", m, d, Home[m], Nothing)
        \/ st # Nothing /\ op = Op("FsForget", m, Nothing, st.path, st.sid)
        \/ st # Nothing /\ op = Op("FsDelete", m, Nothing, st.path, st.sid)
        \/ st # Nothing /\ op = Op("DbDelete", m, Nothing, st.path, st.sid)
        \/ f # Nothing /\ op = Op("DbUpdate", m, f.c, f.path, st.sid)
        \/ st # Nothing /\ op = Op("FsUpdate", m, d, st.path, st.sid)
    BY <1>2, <1>3, <1>5, <2>1, OpsForCases DEF Deleted, Unmodified, Modified
  <2> QED
    BY <2>2 DEF Op
<1> QED
  BY <1>5, <1>6, <1>7, <1>8 DEF OpOK, StateOK, MadeBy

LEMMA RecordsScan ==
    ASSUME TypeOK, Shape, RecordsOK, NEW s \in Sessions, Calculate(s), TypeOK'
    PROVE  RecordsOK'
<1> USE DEF TypeOK, SessionTypeOK, StoreTypeOK
<1>0. [Next]_vars
  BY DEF Next, SyncStep
<1>1. CASE ScanDb(s)
  <2>1. UNCHANGED <<clock, disturbed, db, states, files, ops, sops>>
    BY <1>1 DEF ScanDb
  <2>2. \A m \in Models : cand'[s][m][1] = db[m] /\ cand'[s][m][2] = states[m]
    BY <1>1 DEF ScanDb
  <2>3. \A t \in Sessions \ {s} : pc'[t] = pc[t] /\ cand'[t] = cand[t]
    BY <1>1 DEF ScanDb
  <2>4. \A m \in Models : /\ MadeBy(cand'[s][m][1], clock')
                          /\ StateOK(m, cand'[s][m][2], clock', disturbed')
    BY <2>1, <2>2 DEF RecordsOK
  <2> QED
    BY <1>0, <2>1, <2>3, <2>4, RecordsKept
<1>2. CASE ScanFs(s)
  <2>1. UNCHANGED <<clock, disturbed, db, states, files, sops>>
    BY <1>2 DEF ScanFs
  <2>2. \A op \in ops'[s] : OpOK(op, clock', disturbed')
    BY <1>2, <2>1, ScannedOK
  <2>3. \A t \in Sessions \ {s} : pc'[t] = pc[t] /\ cand'[t] = cand[t] /\ ops'[t] = ops[t]
    BY <1>2 DEF ScanFs
  <2>4. pc'[s] # "scanned"
    BY <1>2 DEF ScanFs
  <2> QED
    BY <1>0, <2>1, <2>2, <2>3, <2>4, RecordsKept
<1> QED
  BY <1>1, <1>2 DEF Calculate

LEMMA RecordsReset ==
    ASSUME TypeOK, Shape, RecordsOK, NEW s \in Sessions, Reset(s), [Next]_vars,
           UNCHANGED <<db, states, files, disturbed>>
    PROVE  RecordsOK'
<1>1. \A t \in Sessions : /\ pc'[t] = "scanned" => pc[t] = "scanned" /\ cand'[t] = cand[t]
                          /\ ops'[t] \subseteq ops[t] /\ sops'[t] \subseteq sops[t]
  BY DEF Reset, TypeOK, SessionTypeOK
<1> QED
  BY <1>1, RecordsKept

\* A state change is filled in from its operation.
LEMMA StateOpMade ==
    ASSUME TypeOK, Shape, RecordsOK, NEW s \in Sessions, NEW op \in ops[s], [Next]_vars
    PROVE  StateOpOK(StateOp(op), clock', disturbed')
<1>1. op \in SyncOp /\ OpOK(op, clock, disturbed)
  BY DEF TypeOK, SessionTypeOK, RecordsOK
<1>2. OpOK(op, clock', disturbed')
  BY <1>1, Passing, OKLater
<1> QED
  BY <1>2 DEF OpOK, StateOpOK, StateOp

\* An applied operation, with what it did to the directory and the database.
LEMMA RecordsFinished ==
    ASSUME TypeOK, Shape, RecordsOK, NEW s \in Sessions, NEW op \in ops[s], Finished(s, op),
           [Next]_vars, cand' = cand,
           \A m \in Models : db'[m] = db[m] \/ db'[m] = Nothing,
           \A m \in Models : states'[m] = states[m] \/ states'[m] = Nothing,
           \A p \in Paths : files'[p] = files[p] \/ FileOK(p, files'[p], clock', disturbed')
    PROVE  RecordsOK'
<1>1. StateOpOK(StateOp(op), clock', disturbed')
  BY StateOpMade
<1>2. \A t \in Sessions : pc'[t] = "scanned" => pc[t] = "scanned"
  BY DEF Finished, TypeOK, SessionTypeOK
<1>3. \A t \in Sessions : ops'[t] \subseteq ops[t]
  BY DEF Finished, TypeOK, SessionTypeOK
<1>4. \A t \in Sessions : sops'[t] \subseteq sops[t] \union {StateOp(op)}
  BY DEF Finished, TypeOK, SessionTypeOK
<1>5. \A m \in Models : db'[m] = db[m] \/ MadeBy(db'[m], clock')
  BY DEF MadeBy
<1>6. \A m \in Models : states'[m] = states[m] \/ StateOK(m, states'[m], clock', disturbed')
  BY DEF StateOK
<1> QED
  BY <1>1, <1>2, <1>3, <1>4, <1>5, <1>6, RecordsKept

LEMMA RecordsApply ==
    ASSUME TypeOK, Shape, RecordsOK, OneOpPerModel, NEW s \in Sessions, ApplyOp(s)
    PROVE  RecordsOK'
<1> USE DEF TypeOK, SessionTypeOK, StoreTypeOK
<1>0. [Next]_vars
  BY DEF Next, SyncStep
<1>g. Garbage \notin File /\ Nothing \notin File
  BY NothingAssumption
<1>1. CASE OpenFile(s)
  <2>1. PICK op \in ops[s] : files' = [files EXCEPT ![op.path] = Garbage]
    BY <1>1 DEF OpenFile
  <2>2. \A p \in Paths : files'[p] = files[p] \/ FileOK(p, files'[p], clock', disturbed')
    BY <1>g, <2>1 DEF FileOK
  <2>3. UNCHANGED <<db, states, cand, ops, sops>>
        /\ \A t \in Sessions : pc'[t] = "scanned" => pc[t] = "scanned"
    BY <1>1 DEF OpenFile
  <2> QED
    BY <1>0, <2>2, <2>3, RecordsKept
<1>2. CASE WriteFile(s)
  <2> DEFINE op == cur[s]  new == [id |-> op.id, c |-> op.c]
  <2>1. op \in ops[s] /\ op \in SyncOp
    BY <1>2 DEF WriteFile, Shape
  <2>2. OpOK(op, clock', disturbed')
    <3>1. OpOK(op, clock, disturbed)
      BY <2>1 DEF RecordsOK
    <3> QED
      BY <1>0, <2>1, <3>1, Passing, OKLater
  <2>3. \A p \in Paths : files'[p] = files[p] \/ FileOK(p, files'[p], clock', disturbed')
    <3>1. PICK out \in {new, Nothing, files[op.path], Garbage} :
            files' = [files EXCEPT ![op.path] = out]
      BY <1>2 DEF WriteFile
    <3>2. op.path \in Paths
      BY <2>1 DEF SyncOp
    <3>3. \A p \in Paths : files'[p] = files[p] \/ (p = op.path /\ files'[p] = out)
      BY <3>1, <3>2
    <3>4. FileOK(op.path, new, clock', disturbed')
      BY <2>2 DEF FileOK, OpOK
    <3>5. FileOK(op.path, Nothing, clock', disturbed') /\ FileOK(op.path, Garbage, clock', disturbed')
      BY <1>g DEF FileOK
    <3> HIDE DEF new, op
    <3> QED
      BY <3>1, <3>3, <3>4, <3>5
  <2>4. Finished(s, op) /\ UNCHANGED <<db, states, cand>>
    BY <1>2 DEF WriteFile
  <2> QED
    BY <1>0, <2>1, <2>3, <2>4, RecordsFinished
<1>3. CASE RemoveFile(s)
  <2>1. PICK op \in ops[s] : /\ files' = [files EXCEPT ![op.path] = Nothing]
                             /\ Finished(s, op) /\ UNCHANGED <<db, states, cand>>
    BY <1>3 DEF RemoveFile
  <2>2. \A p \in Paths : files'[p] = files[p] \/ FileOK(p, files'[p], clock', disturbed')
    BY <1>g, <2>1 DEF FileOK
  <2> QED
    BY <1>0, <2>1, <2>2, RecordsFinished
<1>4. CASE ForgetFile(s)
  <2>1. PICK op \in ops[s] : Finished(s, op) /\ UNCHANGED <<db, states, files, cand>>
    BY <1>4 DEF ForgetFile
  <2> QED
    BY <1>0, <2>1, RecordsFinished
<1>5. CASE DeleteRow(s)
  <2>1. PICK op \in ops[s] : DropRows(Inside[op.id]) /\ Finished(s, op) /\ UNCHANGED <<files, cand>>
    BY <1>5 DEF DeleteRow
  <2>2. /\ \A m \in Models : db'[m] = db[m] \/ db'[m] = Nothing
        /\ \A m \in Models : states'[m] = states[m] \/ states'[m] = Nothing
    BY <2>1 DEF DropRows
  <2> QED
    BY <1>0, <2>1, <2>2, RecordsFinished
<1>6. CASE CommitUpserts(s)
  <2>1. /\ UNCHANGED <<states, files, cand>>
        /\ \A t \in Sessions : /\ pc'[t] = "scanned" => pc[t] = "scanned"
                               /\ ops'[t] \subseteq ops[t]
                               /\ sops'[t] \subseteq sops[t] \union {StateOp(op) : op \in ops[s]}
    BY <1>6 DEF CommitUpserts
  <2>2. \A op \in ops[s] : StateOpOK(StateOp(op), clock', disturbed')
    BY <1>0, StateOpMade
  <2>3. ASSUME NEW m \in Models PROVE db'[m] = db[m] \/ MadeBy(db'[m], clock')
    <3>1. CASE \A op \in ops[s] : op.id # m
      BY <1>6, <3>1 DEF CommitUpserts
    <3>2. ASSUME NEW op \in ops[s], op.id = m PROVE MadeBy(db'[m], clock')
      <4>1. (CHOOSE o \in ops[s] : o.id = m) = op
        BY <3>2 DEF OneOpPerModel
      <4>2. db'[m] = op.c
        BY <1>6, <3>2, <4>1 DEF CommitUpserts
      <4>3. clock' = clock /\ MadeBy(op.c, clock)
        BY <1>6 DEF CommitUpserts, RecordsOK, OpOK
      <4> QED
        BY <4>2, <4>3
    <3> QED
      BY <3>1, <3>2
  <2> QED
    BY <1>0, <2>1, <2>2, <2>3, RecordsKept
<1>7. CASE RemoveFileFails(s) \/ CommitFails(s)
  BY <1>0, <1>7, RecordsReset DEF RemoveFileFails, CommitFails
<1> QED
  BY <1>1, <1>2, <1>3, <1>4, <1>5, <1>6, <1>7 DEF ApplyOp

LEMMA RecordsStates ==
    ASSUME TypeOK, Shape, RecordsOK, NEW s \in Sessions, ApplyStates(s)
    PROVE  RecordsOK'
<1> USE DEF TypeOK, SessionTypeOK, StoreTypeOK
<1>0. [Next]_vars
  BY DEF Next, SyncStep
<1>1. CASE FlushState(s)
  <2>1. PICK so \in sops[s] : \E row \in RowAfter(so) : states' = [states EXCEPT ![so.id] = row]
    BY <1>1 DEF FlushState
  <2>2. PICK row \in RowAfter(so) : states' = [states EXCEPT ![so.id] = row]
    BY <2>1
  <2>3. /\ UNCHANGED <<clock, db, files, pc, cand, ops>>
        /\ \A t \in Sessions : sops'[t] \subseteq sops[t]
    BY <1>1 DEF FlushState
  <2>4. so \in SyncStateOp /\ WellFormedStateOp(so) /\ StateOpOK(so, clock, disturbed)
    BY DEF Shape, RecordsOK
  <2>5. StateOpOK(so, clock', disturbed')
    BY <1>0, <2>4, Passing, OKLater
  <2>6. states'[so.id] = states[so.id] \/ StateOK(so.id, states'[so.id], clock', disturbed')
    <3>1. row = states[so.id] \/ row = Nothing \/ (so.type # "Delete" /\ \E i : row = Flushed(i, so))
      BY <2>4 DEF RowAfter, SyncStateOp
    <3>2. ASSUME NEW i, row = Flushed(i, so), so.type # "Delete"
          PROVE  StateOK(so.id, row, clock', disturbed')
      <4>1. so.sum # Nothing
        BY <2>4, <3>2, NothingAssumption DEF WellFormedStateOp
      <4>2. row.path = so.path /\ row.sum = so.sum /\ row.flushed = clock
        BY <3>2 DEF Flushed
      <4> QED
        BY <2>3, <2>5, <4>1, <4>2 DEF StateOK, StateOpOK, MadeBy
    <3>3. so.id \in Models
      BY <2>4 DEF SyncStateOp
    <3> QED
      BY <2>2, <3>1, <3>2, <3>3 DEF StateOK
  <2>7. \A m \in Models : states'[m] = states[m] \/ StateOK(m, states'[m], clock', disturbed')
    BY <2>2, <2>6
  <2> QED
    BY <1>0, <2>3, <2>7, RecordsKept
<1>2. CASE FlushFails(s) \/ Finish(s)
  BY <1>0, <1>2, RecordsReset DEF FlushFails, Finish
<1> QED
  BY <1>1, <1>2 DEF ApplyStates

LEMMA RecordsUser ==
    ASSUME TypeOK, Shape, RecordsOK, User
    PROVE  RecordsOK'
<1> USE DEF TypeOK, SessionTypeOK, StoreTypeOK
<1>0. [Next]_vars
  BY DEF Next
<1>1. ASSUME NEW m \in Models, Save(m) PROVE RecordsOK'
  <2>1. PICK b \in Visibility(m) :
          db' = [db EXCEPT ![m] = [val |-> clock', upd |-> clock', pub |-> b]]
    BY <1>1 DEF Save
  <2>2. UNCHANGED <<states, files, pc, cand, ops, sops>>
    BY <1>1 DEF Save
  <2>3. MadeBy([val |-> clock', upd |-> clock', pub |-> b], clock')
    <3>1. clock' \in Nat
      BY <1>0, Passing
    <3> QED
      BY <3>1 DEF MadeBy
  <2>4. \A n \in Models : db'[n] = db[n] \/ MadeBy(db'[n], clock')
    BY <2>1, <2>3
  <2> QED
    BY <1>0, <2>2, <2>4, RecordsKept
<1>2. ASSUME NEW m \in Models, DeleteModel(m) PROVE RecordsOK'
  <2>1. \A n \in Models : db'[n] = db[n] \/ MadeBy(db'[n], clock')
    BY <1>2 DEF DeleteModel, DropRows, MadeBy
  <2>2. \A n \in Models : states'[n] = states[n] \/ StateOK(n, states'[n], clock', disturbed')
    BY <1>2 DEF DeleteModel, DropRows, StateOK
  <2>3. UNCHANGED <<files, pc, cand, ops, sops>>
    BY <1>2 DEF DeleteModel
  <2> QED
    BY <1>0, <2>1, <2>2, <2>3, RecordsKept
<1> QED
  BY <1>1, <1>2 DEF User, EditModel, CreateModel

LEMMA RecordsOutside ==
    ASSUME TypeOK, Shape, RecordsOK, Outside
    PROVE  RecordsOK'
<1> USE DEF TypeOK, SessionTypeOK, StoreTypeOK
<1>0. [Next]_vars
  BY DEF Next
<1>g. Garbage \notin File /\ Nothing \notin File
  BY NothingAssumption
<1>u. ASSUME \A p \in Paths : files'[p] = files[p] \/ FileOK(p, files'[p], clock', disturbed'),
             UNCHANGED <<db, states, pc, cand, ops, sops>>
      PROVE  RecordsOK'
  BY <1>0, <1>u, RecordsKept
<1>1. ASSUME NEW p \in Paths, NEW m \in Models,
             p \notin {Home[n] : n \in Models \ {m}}, WriteOutside(p, m)
      PROVE  RecordsOK'
  <2>1. PICK u \in {1, clock'} \union {files[q].c.upd : q \in Holding(m)}, b \in Visibility(m) :
          files' = [files EXCEPT ![p] = [id |-> m, c |-> [val |-> clock', upd |-> u, pub |-> b]]]
    BY <1>1 DEF WriteOutside
  <2>2. clock \in Nat /\ clock' = clock + 1 /\ 1 =< clock
    BY <1>1 DEF WriteOutside, Time
  <2>3. u =< clock'
    <3>1. \A q \in Holding(m) : files[q].c.upd =< clock /\ files[q].c.upd \in Nat
      <4>1. \A q \in Holding(m) : files[q].c \in Content /\ MadeBy(files[q].c, clock)
        BY DEF Holding, RecordsOK, FileOK, File
      <4> QED
        BY <4>1, NothingAssumption DEF MadeBy, Content, Time
    <3> QED
      BY <2>1, <2>2, <3>1
  <2>4. p \in NamesOf(m, disturbed')
    <3>1. CASE p = Home[m]
      BY <3>1 DEF NamesOf
    <3>2. CASE p # Home[m]
      <4>1. m \in disturbed'
        BY <1>1, <3>2 DEF WriteOutside, Strays
      <4>2. \A n \in Models : p # Home[n]
        BY <1>1, <3>2
      <4> QED
        BY <4>1, <4>2 DEF NamesOf
    <3> QED
      BY <3>1, <3>2
  <2>5. MadeBy([val |-> clock', upd |-> u, pub |-> b], clock')
    BY <2>2, <2>3 DEF MadeBy
  <2>6. \A q \in Paths : files'[q] = files[q] \/ FileOK(q, files'[q], clock', disturbed')
    <3>1. files'[p] = [id |-> m, c |-> [val |-> clock', upd |-> u, pub |-> b]]
      BY <2>1
    <3>2. FileOK(p, files'[p], clock', disturbed')
      BY <2>4, <2>5, <3>1 DEF FileOK
    <3> QED
      BY <2>1, <3>2
  <2> QED
    BY <1>1, <1>u, <2>6 DEF WriteOutside, sessVars
<1>2. ASSUME NEW p \in Paths, RemoveOutside(p) \/ CorruptOutside(p)
      PROVE  RecordsOK'
  <2>1. files' = [files EXCEPT ![p] = Nothing] \/ files' = [files EXCEPT ![p] = Garbage]
    BY <1>2 DEF RemoveOutside, CorruptOutside
  <2>2. \A q \in Paths : files'[q] = files[q] \/ FileOK(q, files'[q], clock', disturbed')
    BY <1>g, <2>1 DEF FileOK
  <2> QED
    BY <1>2, <1>u, <2>2 DEF RemoveOutside, CorruptOutside, sessVars
<1>3. ASSUME NEW p \in Paths, NEW q \in Paths, RenameOutside(p, q)
      PROVE  RecordsOK'
  <2>1. /\ files[p] \in File /\ files' = [files EXCEPT ![p] = Nothing, ![q] = files[p]]
        /\ q \notin {Home[m] : m \in Models}
        /\ disturbed' = disturbed \union Owners(p)
    BY <1>3 DEF RenameOutside
  <2>2. files[p].id \in disturbed'
    BY <2>1 DEF Owners, Holding, File
  <2>3. FileOK(q, files[p], clock', disturbed')
    <3>1. FileOK(p, files[p], clock', disturbed')
      BY <1>0, Passing, OKLater DEF RecordsOK
    <3>2. q \in NamesOf(files[p].id, disturbed')
      BY <2>1, <2>2 DEF NamesOf
    <3> QED
      BY <3>1, <3>2 DEF FileOK
  <2>4. \A x \in Paths : files'[x] = files[x] \/ files'[x] = Nothing \/ (x = q /\ files'[x] = files[p])
    BY <2>1
  <2>5. \A x \in Paths : files'[x] = files[x] \/ FileOK(x, files'[x], clock', disturbed')
    BY <1>g, <2>3, <2>4 DEF FileOK
  <2> QED
    BY <1>3, <1>u, <2>5 DEF RenameOutside, sessVars
<1> QED
  BY <1>1, <1>2, <1>3 DEF Outside

LEMMA RecordsNext ==
    ASSUME TypeOK, Shape, RecordsOK, OneOpPerModel, [Next]_vars
    PROVE  RecordsOK'
<1>1. TypeOK'
  BY TypeNext
<1>2. CASE Mishap
  <2>1. CASE Crash
    <3>1. UNCHANGED <<db, states, files>>
          /\ \A s \in Sessions : pc'[s] # "scanned" /\ ops'[s] = {} /\ sops'[s] = {}
      BY <2>1 DEF Crash
    <3> QED
      BY <3>1, RecordsKept
  <2>2. ASSUME NEW s \in Sessions, Decline(s) \/ IoError(s) PROVE RecordsOK'
    BY <2>2, RecordsReset DEF Decline, IoError
  <2> QED
    BY <1>2, <2>1, <2>2 DEF Mishap
<1>3. CASE UNCHANGED vars
  <2>1. UNCHANGED <<db, states, files, pc, cand, ops, sops>>
    BY <1>3 DEF vars
  <2> QED
    BY <2>1, RecordsKept
<1> QED
  BY <1>1, <1>2, <1>3, RecordsScan, RecordsApply, RecordsStates, RecordsUser, RecordsOutside
     DEF Next, SyncStep

\* A session owes at most one state change per model.
LEMMA OneStateNext ==
    ASSUME TypeOK, Shape, OneOpPerModel, OneStatePerModel, [Next]_vars
    PROVE  OneStatePerModel'
<1> USE DEF TypeOK, SessionTypeOK
<1>1. ASSUME NEW s \in Sessions, NEW op \in ops[s], Finished(s, op) PROVE OneStatePerModel'
  <2>1. StateOp(op).id = op.id /\ sops'[s] = sops[s] \union {StateOp(op)}
    BY <1>1 DEF Finished, StateOp
  <2>2. \A so \in sops[s] : so.id # op.id
    BY DEF OneOpPerModel
  <2>3. \A t \in Sessions \ {s} : sops'[t] = sops[t]
    BY <1>1 DEF Finished
  <2>4. \A s1, s2 \in sops'[s] : s1.id = s2.id => s1 = s2
    BY <2>1, <2>2 DEF OneStatePerModel
  <2> QED
    BY <2>3, <2>4 DEF OneStatePerModel
<1>2. ASSUME NEW s \in Sessions, CommitUpserts(s) PROVE OneStatePerModel'
  <2>1. sops'[s] = sops[s] \union {StateOp(op) : op \in ops[s]}
    BY <1>2 DEF CommitUpserts
  <2>2. \A op \in ops[s] : StateOp(op).id = op.id
    BY DEF StateOp
  <2>3. \A t \in Sessions \ {s} : sops'[t] = sops[t]
    BY <1>2 DEF CommitUpserts
  <2>4. \A op \in ops[s], so \in sops[s] : StateOp(op).id # so.id
    BY <2>2 DEF OneOpPerModel
  <2>5. \A o1, o2 \in ops[s] : StateOp(o1).id = StateOp(o2).id => StateOp(o1) = StateOp(o2)
    <3>1. \A o1, o2 \in ops[s] : o1.id = o2.id => o1 = o2
      BY DEF OneOpPerModel
    <3> QED
      BY <2>2, <3>1
  <2>6. \A s1, s2 \in sops'[s] : s1.id = s2.id => s1 = s2
    BY <2>1, <2>4, <2>5 DEF OneStatePerModel
  <2> QED
    BY <2>3, <2>6 DEF OneStatePerModel
<1>3. ASSUME \A t \in Sessions : sops'[t] \subseteq sops[t] PROVE OneStatePerModel'
  BY <1>3 DEF OneStatePerModel
<1>4. ASSUME NEW s \in Sessions, Reset(s) PROVE OneStatePerModel'
  <2>1. \A t \in Sessions : sops'[t] \subseteq sops[t]
    BY <1>4 DEF Reset
  <2> QED
    BY <1>3, <2>1
<1>5. ASSUME NEW s \in Sessions, ApplyOp(s) PROVE OneStatePerModel'
  <2>1. CASE WriteFile(s)
    BY <1>1, <2>1 DEF WriteFile, Shape
  <2>2. CASE RemoveFile(s) \/ ForgetFile(s) \/ DeleteRow(s)
    BY <1>1, <2>2 DEF RemoveFile, ForgetFile, DeleteRow
  <2>3. CASE OpenFile(s)
    BY <1>3, <2>3 DEF OpenFile
  <2>4. CASE RemoveFileFails(s) \/ CommitFails(s)
    BY <1>4, <2>4 DEF RemoveFileFails, CommitFails
  <2> QED
    BY <1>2, <1>5, <2>1, <2>2, <2>3, <2>4 DEF ApplyOp
<1>6. ASSUME NEW s \in Sessions, Calculate(s) \/ ApplyStates(s) PROVE OneStatePerModel'
  <2>1. CASE FlushState(s)
    BY <1>3, <2>1 DEF FlushState
  <2>2. CASE FlushFails(s) \/ Finish(s)
    BY <1>4, <2>2 DEF FlushFails, Finish
  <2>3. CASE Calculate(s)
    BY <1>3, <2>3 DEF Calculate, ScanDb, ScanFs
  <2> QED
    BY <1>6, <2>1, <2>2, <2>3 DEF ApplyStates
<1>7. CASE Mishap
  <2>1. CASE Crash
    BY <1>3, <2>1 DEF Crash
  <2>2. ASSUME NEW s \in Sessions, Decline(s) \/ IoError(s) PROVE OneStatePerModel'
    BY <1>4, <2>2 DEF Decline, IoError
  <2> QED
    BY <1>7, <2>1, <2>2 DEF Mishap
<1>8. CASE User \/ Outside \/ UNCHANGED vars
  BY <1>3, <1>8 DEF User, EditModel, CreateModel, Save, DeleteModel, Outside, WriteOutside,
     RemoveOutside, CorruptOutside, RenameOutside, sessVars, vars
<1> QED
  BY <1>5, <1>6, <1>7, <1>8 DEF Next, SyncStep

-----------------------------------------------------------------------------
(* Whoever changes what a session under way relies on disturbs the model.  *)

Unmoved(m) == db'[m] = db[m] /\ states'[m] = states[m] /\ files'[Home[m]] = files[Home[m]]

\* A file at m's home is only ever touched on behalf of m.
LEMMA HomeUntouched ==
    ASSUME TypeOK, RecordsOK, NEW s \in Sessions, NEW op \in ops[s],
           NEW m \in Models, m # op.id, NEW x, files' = [files EXCEPT ![op.path] = x]
    PROVE  files'[Home[m]] = files[Home[m]]
<1>1. op.path \in NamesOf(op.id, disturbed) /\ op.id \in Models
  BY DEF RecordsOK, OpOK, TypeOK, SessionTypeOK, SyncOp
<1>2. op.path # Home[m]
  BY <1>1, HomeIsOwn
<1> QED
  BY <1>2 DEF TypeOK, StoreTypeOK

LEMMA ApplyMoves ==
    ASSUME TypeOK, Shape, RecordsOK, NEW t \in Sessions, ApplyOp(t),
           NEW s \in Sessions \ {t}, Busy(s), NEW m \in Models \ disturbed'
    PROVE  Unmoved(m)
<1> USE DEF TypeOK, SessionTypeOK, StoreTypeOK
<1>1. CASE OpenFile(t)
  <2>1. PICK op \in ops[t] :
        /\ files' = [files EXCEPT ![op.path] = Garbage]
        /\ disturbed' = disturbed \union
              {n \in Models : \/ n = op.id /\ Holding(n) \ {op.path} # {}
                              \/ n # op.id /\ op.path \in Holding(n)
                              \/ n = op.id /\ \E u \in Sessions \ {t} : Busy(u)}
        /\ UNCHANGED <<db, states>>
    BY <1>1 DEF OpenFile
  <2>2. m # op.id
    BY <2>1
  <2> QED
    BY <2>1, <2>2, HomeUntouched DEF Unmoved
<1>2. CASE WriteFile(t)
  <2>1. cur[t] \in ops[t] /\ UNCHANGED <<db, states>>
    BY <1>2 DEF WriteFile, Shape
  <2>0. PICK x : files' = [files EXCEPT ![cur[t].path] = x]
    BY <1>2 DEF WriteFile
  <2>2. m # cur[t].id
    BY <1>2 DEF WriteFile, DisturbOthers
  <2> QED
    BY <2>0, <2>1, <2>2, HomeUntouched DEF Unmoved
<1>3. CASE RemoveFile(t)
  <2>1. PICK op \in ops[t] :
        /\ files' = [files EXCEPT ![op.path] = Nothing]
        /\ DisturbOthers(t, {n \in Models : n = op.id \/ op.path \in Holding(n)})
        /\ UNCHANGED <<db, states>>
    BY <1>3 DEF RemoveFile
  <2>2. m # op.id
    BY <2>1 DEF DisturbOthers
  <2> QED
    BY <2>1, <2>2, HomeUntouched DEF Unmoved
<1>4. CASE RemoveFileFails(t) \/ ForgetFile(t) \/ CommitFails(t)
  BY <1>4 DEF RemoveFileFails, ForgetFile, CommitFails, Unmoved
<1>5. CASE DeleteRow(t)
  <2>1. PICK op \in ops[t] :
        /\ DropRows(Inside[op.id])
        /\ disturbed' = disturbed \union (Inside[op.id] \ {op.id}) \union
              {n \in {op.id} : \E u \in Sessions \ {t} : Busy(u)}
        /\ UNCHANGED files
    BY <1>5 DEF DeleteRow
  <2>2. m \notin Inside[op.id]
    BY <2>1
  <2>3. op.id \in Models
    BY DEF SyncOp
  <2>4. Root \notin Inside[op.id]
    BY <2>2, <2>3, ConstantsAssumption
  <2> QED
    BY <2>1, <2>2, <2>4 DEF DropRows, Unmoved
<1>6. CASE CommitUpserts(t)
  <2>1. \A op \in ops[t] : op.id # m
    BY <1>6 DEF CommitUpserts, DisturbOthers
  <2> QED
    BY <1>6, <2>1 DEF CommitUpserts, Unmoved
<1> QED
  BY <1>1, <1>2, <1>3, <1>4, <1>5, <1>6 DEF ApplyOp

LEMMA StatesMove ==
    ASSUME TypeOK, Shape, RecordsOK, NEW t \in Sessions, ApplyStates(t) \/ Calculate(t),
           NEW s \in Sessions \ {t}, Busy(s), NEW m \in Models \ disturbed'
    PROVE  Unmoved(m)
<1>1. CASE FlushState(t)
  <2>1. PICK so \in sops[t] :
        /\ \E row \in RowAfter(so) : states' = [states EXCEPT ![so.id] = row]
        /\ DisturbOthers(t, {so.id})
        /\ UNCHANGED <<db, files>>
    BY <1>1 DEF FlushState
  <2>2. m # so.id
    BY <2>1 DEF DisturbOthers
  <2> QED
    BY <2>1, <2>2 DEF Unmoved, TypeOK, StoreTypeOK
<1>2. CASE FlushFails(t) \/ Finish(t) \/ Calculate(t)
  BY <1>2 DEF FlushFails, Finish, Calculate, ScanDb, ScanFs, Unmoved
<1> QED
  BY <1>1, <1>2 DEF ApplyStates

LEMMA WorldMoves ==
    ASSUME TypeOK, Shape, RecordsOK, Mishap \/ User \/ Outside \/ UNCHANGED vars,
           NEW s \in Sessions, Busy(s), NEW m \in Models \ disturbed'
    PROVE  Unmoved(m)
<1> USE DEF TypeOK, StoreTypeOK
<1>0. Home[m] \in Paths
  BY ConstantsAssumption
<1>1. CASE Mishap \/ UNCHANGED vars
  BY <1>1 DEF Mishap, Crash, Decline, IoError, vars, Unmoved
<1>2. ASSUME NEW n \in Models, Save(n) PROVE Unmoved(m)
  <2>1. m # n
    BY <1>2 DEF Save, DisturbAll
  <2> QED
    BY <1>2, <2>1 DEF Save, Unmoved
<1>3. ASSUME NEW n \in Models, DeleteModel(n) PROVE Unmoved(m)
  <2>1. m \notin Inside[n]
    BY <1>3 DEF DeleteModel, DisturbAll
  <2>2. Root \notin Inside[n]
    BY <2>1, ConstantsAssumption
  <2> QED
    BY <1>3, <2>1, <2>2 DEF DeleteModel, DropRows, Unmoved
<1>4. ASSUME NEW p \in Paths, NEW n \in Models,
             p \notin {Home[k] : k \in Models \ {n}}, WriteOutside(p, n)
      PROVE  Unmoved(m)
  <2>1. m # n
    BY <1>4 DEF WriteOutside
  <2>2. p # Home[m]
    BY <1>4, <2>1
  <2> QED
    BY <1>0, <1>4, <2>2 DEF WriteOutside, Unmoved
<1>5. ASSUME NEW p \in Paths, RemoveOutside(p) \/ CorruptOutside(p) PROVE Unmoved(m)
  <2>1. p # Home[m]
    BY <1>5 DEF RemoveOutside, CorruptOutside, DisturbAll, Owners
  <2> QED
    BY <1>0, <1>5, <2>1 DEF RemoveOutside, CorruptOutside, Unmoved
<1>6. ASSUME NEW p \in Paths, NEW q \in Paths, RenameOutside(p, q) PROVE Unmoved(m)
  <2>1. p # Home[m] /\ q # Home[m]
    BY <1>6 DEF RenameOutside, Owners
  <2> QED
    BY <1>0, <1>6, <2>1 DEF RenameOutside, Unmoved
<1> QED
  BY <1>1, <1>2, <1>3, <1>4, <1>5, <1>6 DEF User, EditModel, CreateModel, Outside

-----------------------------------------------------------------------------
(* RowIsBase.                                                              *)

\* For one model, as long as nothing about it moves, or its file goes.
LEMMA BaseKept ==
    ASSUME RowIsBase, NEW m \in Models \ disturbed,
           db'[m] = db[m], states'[m] = states[m],
           files'[Home[m]] = files[Home[m]] \/ files'[Home[m]] \notin File,
           TypeOK
    PROVE  Unmodified(m, db'[m], states'[m]) /\ HomeFile(m)' = states'[m].sum
              => db'[m] = states'[m].sum
<1>1. CASE files'[Home[m]] = files[Home[m]]
  BY <1>1 DEF RowIsBase, HomeFile
<1>2. CASE files'[Home[m]] \notin File
  <2>1. HomeFile(m)' = Nothing
    BY <1>2 DEF HomeFile
  <2>2. states[m] # Nothing => states[m].sum # Nothing
    BY NothingAssumption DEF TypeOK, StoreTypeOK, SyncState
  <2> QED
    BY <2>1, <2>2 DEF Unmodified
<1> QED
  BY <1>1, <1>2

LEMMA BaseApply ==
    ASSUME TypeOK, Shape, RecordsOK, OneOpPerModel, CarriesRows, PlansFit, RowIsBase,
           NEW t \in Sessions, ApplyOp(t)
    PROVE  RowIsBase'
<1> USE DEF TypeOK, SessionTypeOK, StoreTypeOK
<1>0. disturbed \subseteq disturbed'
  BY Passing DEF Next, SyncStep
<1>g. Garbage \notin File /\ Nothing \notin File
  BY NothingAssumption
<1> SUFFICES ASSUME NEW m \in Models \ disturbed'
             PROVE  Unmodified(m, db'[m], states'[m]) /\ HomeFile(m)' = states'[m].sum
                       => db'[m] = states'[m].sum
  BY DEF RowIsBase
<1>h. Home[m] \in Paths /\ m \in Models \ disturbed
  BY <1>0, ConstantsAssumption
<1>1. CASE OpenFile(t)
  <2>1. PICK op \in ops[t] : files' = [files EXCEPT ![op.path] = Garbage] /\ UNCHANGED <<db, states>>
    BY <1>1 DEF OpenFile
  <2>2. files'[Home[m]] = files[Home[m]] \/ files'[Home[m]] = Garbage
    BY <1>h, <2>1
  <2> QED
    BY <1>g, <1>h, <2>1, <2>2, BaseKept
<1>2. CASE WriteFile(t)
  <2> DEFINE op == cur[t]  new == [id |-> op.id, c |-> op.c]
  <2>1. op \in ops[t] /\ op.type \in FsWrites /\ UNCHANGED <<db, states>>
    BY <1>2 DEF WriteFile, Shape
  <2>2. PICK out \in {new, Nothing, files[op.path], Garbage} :
          files' = [files EXCEPT ![op.path] = out]
    BY <1>2 DEF WriteFile
  <2>3. CASE op.path = Home[m] /\ out = new
    <3>1. op.id = m
      <4>1. Home[m] \in NamesOf(op.id, disturbed) /\ op.id \in Models
        BY <2>1, <2>3 DEF RecordsOK, OpOK, SyncOp
      <4> QED
        BY <4>1, HomeIsOwn
    <3>2. op.c = db[m]
      BY <1>h, <2>1, <3>1 DEF CarriesRows, Carries
    <3>3. files'[Home[m]] = new
      BY <1>h, <2>2, <2>3
    <3>4. HomeFile(m)' \in {op.c, Nothing}
      BY <3>3 DEF HomeFile
    <3>5. states[m] # Nothing => states[m].sum # Nothing
      BY NothingAssumption DEF SyncState
    <3> HIDE DEF op, new
    <3> QED
      BY <2>1, <3>2, <3>4, <3>5 DEF Unmodified
  <2>4. CASE ~(op.path = Home[m] /\ out = new)
    <3>1. files'[Home[m]] = files[Home[m]] \/ files'[Home[m]] \notin File
      BY <1>g, <1>h, <2>2, <2>4
    <3> QED
      BY <1>h, <2>1, <3>1, BaseKept
  <2> QED
    BY <2>3, <2>4
<1>3. CASE RemoveFile(t)
  <2>1. PICK op \in ops[t] : files' = [files EXCEPT ![op.path] = Nothing] /\ UNCHANGED <<db, states>>
    BY <1>3 DEF RemoveFile
  <2>2. files'[Home[m]] = files[Home[m]] \/ files'[Home[m]] = Nothing
    BY <1>h, <2>1
  <2> QED
    BY <1>g, <1>h, <2>1, <2>2, BaseKept
<1>4. CASE RemoveFileFails(t) \/ ForgetFile(t) \/ CommitFails(t)
  BY <1>4, <1>h, BaseKept DEF RemoveFileFails, ForgetFile, CommitFails
<1>5. CASE DeleteRow(t)
  <2>1. PICK op \in ops[t] : DropRows(Inside[op.id]) /\ UNCHANGED files
    BY <1>5 DEF DeleteRow
  <2>2. CASE db'[m] = Nothing \/ states'[m] = Nothing
    BY <2>2 DEF Unmodified, Shared
  <2>3. CASE db'[m] # Nothing /\ states'[m] # Nothing
    <3>1. db'[m] = db[m] /\ states'[m] = states[m]
      BY <2>1, <2>3 DEF DropRows
    <3> QED
      BY <1>h, <2>1, <3>1, BaseKept
  <2> QED
    BY <2>2, <2>3
<1>6. CASE CommitUpserts(t)
  <2>1. UNCHANGED <<states, files>>
    BY <1>6 DEF CommitUpserts
  <2>2. CASE \A op \in ops[t] : op.id # m
    <3>1. db'[m] = db[m]
      BY <1>6, <2>2 DEF CommitUpserts
    <3> QED
      BY <1>h, <2>1, <3>1, BaseKept
  <2>3. ASSUME NEW op \in ops[t], op.id = m
        PROVE  HomeFile(m)' = states'[m].sum => db'[m] = states'[m].sum
    <3>1. (CHOOSE o \in ops[t] : o.id = m) = op
      BY <2>3 DEF OneOpPerModel
    <3>2. db'[m] = op.c
      BY <1>6, <2>3, <3>1 DEF CommitUpserts
    <3>3. OpFits(op) /\ op.type \in DbUpserts
      BY <1>6, <1>h, <2>3 DEF PlansFit, FitsModel, CommitUpserts
    <3>4. HomeFile(m) = op.c
      BY <2>3, <3>3 DEF OpFits
    <3>5. HomeFile(m)' = HomeFile(m)
      BY <2>1 DEF HomeFile
    <3> QED
      BY <2>1, <3>2, <3>4, <3>5
  <2> QED
    BY <2>2, <2>3
<1> QED
  BY <1>1, <1>2, <1>3, <1>4, <1>5, <1>6 DEF ApplyOp

LEMMA BaseStates ==
    ASSUME TypeOK, Shape, RecordsOK, CarriesRows, RowIsBase,
           NEW t \in Sessions, ApplyStates(t)
    PROVE  RowIsBase'
<1> USE DEF TypeOK, SessionTypeOK, StoreTypeOK
<1>0. disturbed \subseteq disturbed'
  BY Passing DEF Next, SyncStep
<1> SUFFICES ASSUME NEW m \in Models \ disturbed'
             PROVE  Unmodified(m, db'[m], states'[m]) /\ HomeFile(m)' = states'[m].sum
                       => db'[m] = states'[m].sum
  BY DEF RowIsBase
<1>1. CASE FlushState(t)
  <2>1. PICK so \in sops[t] : \E row \in RowAfter(so) : states' = [states EXCEPT ![so.id] = row]
    BY <1>1 DEF FlushState
  <2>2. PICK row \in RowAfter(so) : states' = [states EXCEPT ![so.id] = row]
    BY <2>1
  <2>3. UNCHANGED <<db, files>> /\ so \in SyncStateOp
    BY <1>1 DEF FlushState
  <2>4. CASE so.id # m \/ row = states[m]
    <3>1. states'[m] = states[m]
      BY <2>2, <2>4
    <3> QED
      BY <1>0, <2>3, <3>1, BaseKept
  <2>5. CASE so.id = m /\ row = Nothing
    <3>1. states'[m] = Nothing
      BY <2>2, <2>5
    <3> QED
      BY <3>1 DEF Unmodified
  <2>6. CASE so.id = m /\ row # Nothing /\ row # states[m]
    <3>1. so.type # "Delete" /\ row.sum = so.sum
      BY <2>3, <2>6 DEF RowAfter, Flushed, SyncStateOp
    <3>2. so.sum = db[m]
      BY <1>0, <2>6, <3>1 DEF CarriesRows, Carries
    <3>3. states'[m] = row
      BY <2>2, <2>6
    <3> QED
      BY <2>3, <3>1, <3>2, <3>3
  <2> QED
    BY <2>4, <2>5, <2>6
<1>2. CASE FlushFails(t) \/ Finish(t)
  BY <1>0, <1>2, BaseKept DEF FlushFails, Finish
<1> QED
  BY <1>1, <1>2 DEF ApplyStates

LEMMA BaseUser ==
    ASSUME TypeOK, FlushedPast, RowIsBase, User
    PROVE  RowIsBase'
<1> USE DEF TypeOK, StoreTypeOK
<1>0. disturbed \subseteq disturbed' /\ clock \in Nat
  BY Passing DEF Next
<1> SUFFICES ASSUME NEW m \in Models \ disturbed'
             PROVE  Unmodified(m, db'[m], states'[m]) /\ HomeFile(m)' = states'[m].sum
                       => db'[m] = states'[m].sum
  BY DEF RowIsBase
<1>1. ASSUME NEW n \in Models, Save(n)
      PROVE  Unmodified(m, db'[m], states'[m]) /\ HomeFile(m)' = states'[m].sum
                => db'[m] = states'[m].sum
  <2>1. UNCHANGED <<states, files>> /\ clock' = clock + 1
    BY <1>1 DEF Save
  <2>2. CASE m = n
    <3>1. db'[m].upd = clock + 1
      BY <1>1, <2>1, <2>2 DEF Save
    <3>2. states[m] # Nothing => states[m].flushed \in Nat /\ states[m].flushed =< clock
      BY DEF FlushedPast, SyncState, Time
    <3>3. states[m] # Nothing => db'[m].upd > states[m].flushed
      BY <1>0, <3>1, <3>2
    <3> QED
      BY <2>1, <3>3 DEF Unmodified
  <2>3. CASE m # n
    <3>1. db'[m] = db[m]
      BY <1>1, <2>3 DEF Save
    <3> QED
      BY <1>0, <2>1, <3>1, BaseKept
  <2> QED
    BY <2>2, <2>3
<1>2. ASSUME NEW n \in Models, DeleteModel(n)
      PROVE  Unmodified(m, db'[m], states'[m]) /\ HomeFile(m)' = states'[m].sum
                => db'[m] = states'[m].sum
  <2>1. DropRows(Inside[n]) /\ UNCHANGED files
    BY <1>2 DEF DeleteModel
  <2>2. CASE db'[m] = Nothing \/ states'[m] = Nothing
    BY <2>2 DEF Unmodified, Shared
  <2>3. CASE db'[m] # Nothing /\ states'[m] # Nothing
    <3>1. db'[m] = db[m] /\ states'[m] = states[m]
      BY <2>1, <2>3 DEF DropRows
    <3> QED
      BY <1>0, <2>1, <3>1, BaseKept
  <2> QED
    BY <2>2, <2>3
<1> QED
  BY <1>1, <1>2 DEF User, EditModel, CreateModel

LEMMA BaseOutside ==
    ASSUME TypeOK, RecordsOK, RowIsBase, Outside
    PROVE  RowIsBase'
<1> USE DEF TypeOK, StoreTypeOK
<1>0. disturbed \subseteq disturbed' /\ clock \in Nat
  BY Passing DEF Next
<1>g. Garbage \notin File /\ Nothing \notin File
  BY NothingAssumption
<1>d. UNCHANGED <<db, states>>
  BY DEF Outside, WriteOutside, RemoveOutside, CorruptOutside, RenameOutside
<1> SUFFICES ASSUME NEW m \in Models \ disturbed'
             PROVE  Unmodified(m, db'[m], states'[m]) /\ HomeFile(m)' = states'[m].sum
                       => db'[m] = states'[m].sum
  BY DEF RowIsBase
<1>h. Home[m] \in Paths /\ m \in Models \ disturbed
  BY <1>0, ConstantsAssumption
<1>1. ASSUME NEW p \in Paths, NEW n \in Models, WriteOutside(p, n)
      PROVE  Unmodified(m, db'[m], states'[m]) /\ HomeFile(m)' = states'[m].sum
                => db'[m] = states'[m].sum
  <2>1. CASE p # Home[m]
    <3>1. files'[Home[m]] = files[Home[m]]
      BY <1>h, <1>1, <2>1 DEF WriteOutside
    <3> QED
      BY <1>d, <1>h, <3>1, BaseKept
  <2>2. CASE p = Home[m]
    <3>1. clock' = clock + 1 /\ files'[Home[m]].c.val = clock + 1
      BY <1>h, <1>1, <2>2 DEF WriteOutside
    <3>2. states[m] # Nothing => states[m].sum.val =< clock /\ states[m].sum \in Content
      BY NothingAssumption DEF RecordsOK, StateOK, MadeBy, SyncState
    <3>3. states[m] # Nothing => states[m].sum.val \in Nat /\ states[m].sum # Nothing
      BY <3>2, NothingAssumption DEF Content, Time
    <3>4. HomeFile(m)' = Nothing \/ HomeFile(m)'.val = clock + 1
      BY <3>1 DEF HomeFile
    <3>5. states[m] # Nothing => HomeFile(m)' # states[m].sum
      BY <1>0, <3>2, <3>3, <3>4
    <3> QED
      BY <1>d, <3>5 DEF Unmodified
  <2> QED
    BY <2>1, <2>2
<1>2. ASSUME NEW p \in Paths, RemoveOutside(p) \/ CorruptOutside(p)
      PROVE  Unmodified(m, db'[m], states'[m]) /\ HomeFile(m)' = states'[m].sum
                => db'[m] = states'[m].sum
  <2>1. files' = [files EXCEPT ![p] = Nothing] \/ files' = [files EXCEPT ![p] = Garbage]
    BY <1>2 DEF RemoveOutside, CorruptOutside
  <2>2. files'[Home[m]] = files[Home[m]] \/ files'[Home[m]] \notin File
    BY <1>g, <1>h, <2>1
  <2> QED
    BY <1>d, <1>h, <2>2, BaseKept
<1>3. ASSUME NEW p \in Paths, NEW q \in Paths, RenameOutside(p, q)
      PROVE  Unmodified(m, db'[m], states'[m]) /\ HomeFile(m)' = states'[m].sum
                => db'[m] = states'[m].sum
  <2>1. q # Home[m] /\ files' = [files EXCEPT ![p] = Nothing, ![q] = files[p]]
    BY <1>3 DEF RenameOutside
  <2>2. files'[Home[m]] = files[Home[m]] \/ files'[Home[m]] \notin File
    BY <1>g, <1>h, <2>1
  <2> QED
    BY <1>d, <1>h, <2>2, BaseKept
<1> QED
  BY <1>1, <1>2, <1>3 DEF Outside

LEMMA BaseNext ==
    ASSUME TypeOK, Shape, RecordsOK, OneOpPerModel, CarriesRows, FlushedPast, PlansFit, RowIsBase,
           [Next]_vars
    PROVE  RowIsBase'
<1>1. CASE Mishap \/ UNCHANGED vars \/ \E s \in Sessions : Calculate(s)
  <2>1. UNCHANGED <<db, states, files, disturbed>>
    BY <1>1 DEF Mishap, Crash, Decline, IoError, vars, Calculate, ScanDb, ScanFs
  <2> QED
    BY <2>1 DEF RowIsBase, HomeFile
<1> QED
  BY <1>1, BaseApply, BaseStates, BaseUser, BaseOutside DEF Next, SyncStep


-----------------------------------------------------------------------------
(* PlansFit: what calculate plans.                                         *)

LEMMA ScanPlans ==
    ASSUME TypeOK, RecordsOK, EditsDetected, RowIsBase, NEW m \in Models \ disturbed
    PROVE  LET planned == OpsFor(m, db[m], states[m], HomeCandidate(m))
               merge == MergeOf(m, db[m], states[m], HomeFile(m))
           IN /\ \A op \in planned : OpFits(op) /\ (merge # Nothing => Outcome(op) \in merge)
              /\ planned = {} /\ merge # Nothing => <<db[m], HomeFile(m)>> \in merge
<1> DEFINE d == db[m]  st == states[m]  f == HomeCandidate(m)  c == HomeFile(m)
           planned == OpsFor(m, d, st, f)
           merge == MergeOf(m, d, st, c)
<1>1. /\ d \in Row /\ st \in StateRow /\ f \in FsCandidate \union {Nothing} /\ c \in Row
      /\ Home[m] \in Paths
      /\ st # Nothing => st.path = Home[m]
  BY AtHome DEF TypeOK, StoreTypeOK, Row, StateRow
<1>2. \/ /\ f = Nothing /\ c = Nothing
      \/ /\ f # Nothing /\ f.c = c /\ f.path = Home[m] /\ c \in Content /\ c # Nothing
         /\ files[Home[m]] # Garbage
  BY FoundAtHome
<1>7. st # Nothing => st.sum \in Content /\ st.sum # Nothing /\ st.flushed \in Nat
                      /\ st.sum.upd \in Nat /\ st.sum.upd =< st.flushed
  <2>1. StateOK(m, st, clock, disturbed)
    BY DEF RecordsOK
  <2> QED
    BY <1>1, <2>1, NothingAssumption DEF StateOK, StateRow, SyncState, Content, Time
<1>8. m \in edited => EditDetected(m)
  BY DEF EditsDetected
<1>9. Unmodified(m, d, st) /\ c = st.sum => d = st.sum
  BY DEF RowIsBase
<1>10. d # Nothing => d \in Content /\ d.upd \in Nat
  BY <1>1 DEF Row, Content, Time
<1>e. d = db[m] /\ st = states[m] /\ c = HomeFile(m)
  OBVIOUS
<1> HIDE DEF d, st, f, c
<1> USE DEF Private, Shared, NoCandidate, Added, Deleted, Modified, Unmodified
<1>11. \A o : o.id = m => /\ o.type \in DbUpserts => Outcome(o) = <<o.c, c>>
                          /\ o.type \in FsWrites => Outcome(o) = <<d, o.c>>
                          /\ o.type = "FsForget" => Outcome(o) = <<d, c>>
                          /\ o.type = "FsDelete" => Outcome(o) = <<d, Nothing>>
                          /\ o.type = "DbDelete" => Outcome(o) = <<Nothing, c>>
  BY <1>e DEF Outcome, DbUpserts, FsWrites
<1>12. \A o : o.id = m /\ (st # Nothing => o.sid = st.sid) =>
          /\ o.type \in FsWrites => OpFits(o)
          /\ o.type \in DbUpserts /\ o.c = c => OpFits(o)
          /\ o.type = "FsDelete" /\ ~Shared(m, d) => OpFits(o)
          /\ o.type = "FsForget" /\ ~Shared(m, d) /\ c = Nothing => OpFits(o)
          /\ o.type = "DbDelete" /\ c = Nothing => OpFits(o)
  BY <1>e DEF OpFits, SameSid, DbUpserts, FsWrites
<1>13. \A t, x, p, i : LET o == Op(t, m, x, p, i)
                       IN o.type = t /\ o.id = m /\ o.c = x /\ o.sid = i
  BY DEF Op
<1>14. "DbCreate" \in DbUpserts /\ "DbUpdate" \in DbUpserts /\ "FsCreate" \in FsWrites
       /\ "FsUpdate" \in FsWrites
  BY DEF DbUpserts, FsWrites
<1> DEFINE Fine == /\ \A o \in planned : OpFits(o) /\ (merge # Nothing => Outcome(o) \in merge)
                   /\ planned = {} /\ merge # Nothing => <<d, c>> \in merge
<1> SUFFICES Fine
  BY DEF d, st, f, c
<1>21. CASE NoCandidate(m, d, st) /\ f # Nothing
            /\ planned = {Op("DbCreate", m, f.c, f.path, Nothing)}
  <2>1. merge # Nothing => <<c, c>> \in merge
    BY <1>2, <1>21 DEF MergeOf
  <2> HIDE DEF planned, merge
  <2> QED
    BY <1>2, <1>11, <1>12, <1>13, <1>14, <1>21, <2>1
<1>22. CASE Added(m, d, st) /\ planned = {Op("FsCreate", m, d, Home[m], Nothing)}
  <2>1. <<d, d>> \in merge
    BY <1>22 DEF MergeOf
  <2> HIDE DEF planned, merge
  <2> QED
    BY <1>11, <1>12, <1>13, <1>14, <1>22, <2>1
<1>23. CASE Deleted(m, d, st) /\ f = Nothing
            /\ planned = {Op("FsForget", m, Nothing, st.path, st.sid)}
  <2>1. <<d, Nothing>> \in merge
    BY <1>23 DEF MergeOf
  <2> HIDE DEF planned, merge
  <2> QED
    BY <1>2, <1>11, <1>12, <1>13, <1>14, <1>23, <2>1
<1>24. CASE Deleted(m, d, st) /\ f # Nothing
            /\ planned = {Op("FsDelete", m, Nothing, st.path, st.sid)}
  <2>1. <<d, Nothing>> \in merge
    BY <1>24 DEF MergeOf
  <2> HIDE DEF planned, merge
  <2> QED
    BY <1>2, <1>11, <1>12, <1>13, <1>14, <1>24, <2>1
<1>25. CASE Unmodified(m, d, st) /\ f = Nothing
            /\ planned = {Op("DbDelete", m, Nothing, st.path, st.sid)}
  <2>1. m \notin edited
    BY <1>8, <1>e, <1>25 DEF EditDetected
  <2>2. merge # Nothing => <<Nothing, Nothing>> \in merge
    BY <1>2, <1>7, <1>25, <2>1 DEF MergeOf
  <2> HIDE DEF planned, merge
  <2> QED
    BY <1>2, <1>11, <1>12, <1>13, <1>14, <1>25, <2>2
<1>26. CASE f # Nothing /\ f.c # st.sum
            /\ (Unmodified(m, d, st) \/ (Modified(m, d, st) /\ d.upd < f.c.upd))
            /\ planned = {Op("DbUpdate", m, f.c, f.path, st.sid)}
  <2>1. Unmodified(m, d, st) => m \notin edited
    BY <1>8, <1>e DEF EditDetected
  <2>2. merge # Nothing => <<c, c>> \in merge
    BY <1>1, <1>2, <1>7, <1>26, <2>1 DEF MergeOf
  <2> HIDE DEF planned, merge
  <2> QED
    BY <1>2, <1>11, <1>12, <1>13, <1>14, <1>26, <2>2
<1>27. CASE Modified(m, d, st) /\ (f = Nothing \/ f.c = st.sum \/ ~(d.upd < f.c.upd))
            /\ planned = {Op("FsUpdate", m, d, st.path, st.sid)}
  <2>1. d # st.sum
    BY <1>7, <1>10, <1>27
  <2>2. merge # Nothing => <<d, d>> \in merge
    BY <1>1, <1>2, <1>7, <1>27, <2>1 DEF MergeOf
  <2> HIDE DEF planned, merge
  <2> QED
    BY <1>2, <1>11, <1>12, <1>13, <1>14, <1>27, <2>2
<1>28. CASE NoCandidate(m, d, st) /\ f = Nothing /\ planned = {}
  <2>1. <<d, Nothing>> \in merge
    BY <1>2, <1>28 DEF MergeOf
  <2> HIDE DEF planned, merge
  <2> QED
    BY <1>2, <1>28, <2>1
<1>29. CASE Unmodified(m, d, st) /\ f # Nothing /\ f.c = st.sum /\ planned = {}
  <2>1. d = st.sum /\ c = d
    BY <1>2, <1>9, <1>29
  <2>2. merge # Nothing => <<d, c>> \in merge
    BY <1>2, <1>7, <1>29, <2>1 DEF MergeOf
  <2> HIDE DEF planned, merge
  <2> QED
    BY <1>29, <2>2
<1>30. planned = OpsFor(m, d, st, f)
  OBVIOUS
<1> HIDE DEF Fine, planned, merge
<1> QED
  BY <1>1, <1>21, <1>22, <1>23, <1>24, <1>25, <1>26, <1>27, <1>28, <1>29, <1>30, OpsForCases

-----------------------------------------------------------------------------
(* PlansFit: what everybody does to it.                                    *)

\* Nothing moves, for the session or for the model.
LEMMA FitsKept ==
    ASSUME TypeOK, Shape, PlansFit, NEW s \in Sessions, NEW m \in Models \ disturbed,
           Busy(s) => Unmoved(m),
           pc'[s] = pc[s], cand'[s] = cand[s], ops'[s] = ops[s], cur'[s] = cur[s],
           sops'[s] = sops[s], goal'[s] = goal[s]
    PROVE  FitsModel(s, m)'
<1>1. CASE Busy(s)
  <2>1. FitsModel(s, m)
    BY DEF PlansFit
  <2>2. db'[m] = db[m] /\ states'[m] = states[m] /\ files'[Home[m]] = files[Home[m]]
    BY <1>1 DEF Unmoved
  <2> QED
    BY <2>1, <2>2 DEF FitsModel, OpFits, StateOpFits, Outcome, Calculated, Untouched, Recorded,
       InSync, HomeFile, HomeCandidate, SameSid
<1>2. CASE ~Busy(s)
  <2>1. pc[s] = "idle" /\ ops[s] = {} /\ sops[s] = {}
    BY <1>2 DEF Busy, Shape
  <2> QED
    BY <2>1 DEF FitsModel, Calculated
<1> QED
  BY <1>1, <1>2

LEMMA FitsIdle ==
    ASSUME NEW s \in Sessions, pc'[s] = "idle", ops'[s] = {}, sops'[s] = {}, NEW m \in Models
    PROVE  FitsModel(s, m)'
BY DEF FitsModel, Calculated

LEMMA ResetFits ==
    ASSUME TypeOK, NEW s \in Sessions, Reset(s), NEW m \in Models
    PROVE  FitsModel(s, m)'
<1>1. pc'[s] = "idle" /\ ops'[s] = {} /\ sops'[s] = {}
  BY DEF Reset, TypeOK, SessionTypeOK
<1> QED
  BY <1>1, FitsIdle

LEMMA OthersFit ==
    ASSUME TypeOK, Shape, RecordsOK, PlansFit, NEW t \in Sessions,
           Calculate(t) \/ ApplyOp(t) \/ ApplyStates(t),
           NEW s \in Sessions \ {t}, NEW m \in Models \ disturbed'
    PROVE  FitsModel(s, m)'
<1>1. m \in Models \ disturbed
  BY Passing DEF Next, SyncStep
<1>2. Busy(s) => Unmoved(m)
  BY ApplyMoves, StatesMove
<1>3. /\ pc'[s] = pc[s] /\ cand'[s] = cand[s] /\ ops'[s] = ops[s] /\ cur'[s] = cur[s]
      /\ sops'[s] = sops[s] /\ goal'[s] = goal[s]
  <2> USE DEF TypeOK, SessionTypeOK
  <2>1. CASE Calculate(t)
    BY <2>1 DEF Calculate, ScanDb, ScanFs
  <2>2. CASE ApplyStates(t)
    BY <2>2 DEF ApplyStates, FlushState, FlushFails, Finish, Reset
  <2>3. CASE ApplyOp(t)
    BY <2>3 DEF ApplyOp, OpenFile, WriteFile, RemoveFile, RemoveFileFails, ForgetFile, DeleteRow,
       CommitUpserts, CommitFails, Reset, Finished
  <2> QED
    BY <2>1, <2>2, <2>3
<1> QED
  BY <1>1, <1>2, <1>3, FitsKept

LEMMA WorldFits ==
    ASSUME TypeOK, Shape, RecordsOK, PlansFit, Mishap \/ User \/ Outside \/ UNCHANGED vars,
           NEW s \in Sessions, NEW m \in Models \ disturbed'
    PROVE  FitsModel(s, m)'
<1>1. m \in Models \ disturbed
  BY Passing DEF Next
<1>2. Busy(s) => Unmoved(m)
  BY WorldMoves
<1>3. CASE Crash
  BY <1>3, FitsIdle DEF Crash
<1>4. CASE \E t \in Sessions : Decline(t) \/ IoError(t)
  <2>1. PICK t \in Sessions : Reset(t)
    BY <1>4 DEF Decline, IoError
  <2>2. CASE s = t
    BY <2>1, <2>2, ResetFits
  <2>3. CASE s # t
    BY <1>1, <1>2, <2>1, <2>3, FitsKept DEF Reset, TypeOK, SessionTypeOK
  <2> QED
    BY <2>2, <2>3
<1>5. CASE User \/ Outside \/ UNCHANGED vars
  <2>1. UNCHANGED sessVars
    BY <1>5 DEF User, EditModel, CreateModel, Save, DeleteModel, Outside, WriteOutside,
       RemoveOutside, CorruptOutside, RenameOutside, sessVars, vars
  <2> QED
    BY <1>1, <1>2, <2>1, FitsKept DEF sessVars
<1> QED
  BY <1>3, <1>4, <1>5 DEF Mishap

-----------------------------------------------------------------------------
(* PlansFit: what the session itself does.                                 *)

LEMMA ScanFits ==
    ASSUME TypeOK, Shape, RecordsOK, EditsDetected, RowIsBase, PlansFit,
           NEW s \in Sessions, Calculate(s), NEW m \in Models \ disturbed'
    PROVE  FitsModel(s, m)'
<1> USE DEF TypeOK, SessionTypeOK
<1>1. m \in Models \ disturbed /\ UNCHANGED <<db, states, files>>
  BY DEF Calculate, ScanDb, ScanFs
<1>2. CASE ScanDb(s)
  <2>1. pc'[s] = "scanned" /\ cand'[s][m] = <<db[m], states[m]>> /\ ops'[s] = {} /\ sops'[s] = {}
    BY <1>2 DEF ScanDb, Shape
  <2> QED
    BY <1>1, <2>1 DEF FitsModel, Calculated
<1>3. CASE ScanFs(s)
  <2> DEFINE planned == OpsFor(m, db[m], states[m], HomeCandidate(m))
             merge == MergeOf(m, db[m], states[m], HomeFile(m))
  <2>1. pc[s] = "scanned" /\ sops'[s] = {} /\ pc'[s] \in {"flushing", "ready"}
    BY <1>3 DEF ScanFs, Shape
  <2>2. cand[s][m][1] = db[m] /\ cand[s][m][2] = states[m]
    <3>1. cand[s][m] = <<db[m], states[m]>>
      BY <1>1, <2>1 DEF PlansFit, FitsModel
    <3> QED
      BY <3>1
  <2>3. {op \in ops'[s] : op.id = m} = planned
    BY <1>1, <1>3, <2>2, AtHome, ScanChoice
  <2>4. goal'[s][m] = merge
    BY <1>1, <1>3, AtHome DEF ScanFs
  <2>5. /\ \A op \in planned : OpFits(op) /\ (merge # Nothing => Outcome(op) \in merge)
        /\ planned = {} /\ merge # Nothing => <<db[m], HomeFile(m)>> \in merge
    BY <1>1, ScanPlans
  <2>6. HomeFile(m)' = HomeFile(m) /\ HomeCandidate(m)' = HomeCandidate(m)
    BY <1>1 DEF HomeFile, HomeCandidate
  <2> HIDE DEF planned, merge
  <2>7. \A op \in ops'[s] : op.id = m =>
           OpFits(op)' /\ (goal'[s][m] # Nothing => Outcome(op)' \in goal'[s][m])
    <3>1. SUFFICES ASSUME NEW op \in ops'[s], op.id = m
                   PROVE  OpFits(op)' /\ (goal'[s][m] # Nothing => Outcome(op)' \in goal'[s][m])
      OBVIOUS
    <3>2. OpFits(op) /\ (merge # Nothing => Outcome(op) \in merge)
      BY <2>3, <2>5, <3>1
    <3>3. OpFits(op)' = OpFits(op)
      BY <1>1, <2>6, <3>1 DEF OpFits, SameSid
    <3>4. Outcome(op)' = Outcome(op)
      BY <1>1, <2>6, <3>1 DEF Outcome
    <3> QED
      BY <2>4, <3>2, <3>3, <3>4
  <2>8. Untouched(s, m)' => planned = {}
    BY <2>3 DEF Untouched
  <2>9. Untouched(s, m)' /\ goal'[s][m] # Nothing => <<db'[m], HomeFile(m)'>> \in goal'[s][m]
    BY <1>1, <2>4, <2>5, <2>6, <2>8
  <2>10. Untouched(s, m)' => InSync(m)'
    BY <1>1, <2>6, <2>8 DEF InSync, planned
  <2> QED
    BY <2>1, <2>7, <2>9, <2>10 DEF FitsModel
<1> QED
  BY <1>2, <1>3 DEF Calculate

\* The session goes on with another model.
LEMMA PartKept ==
    ASSUME NEW s \in Sessions, NEW m \in Models, FitsModel(s, m), Unmoved(m), Calculated(s),
           pc'[s] # "scanned", pc'[s] = "writing" => cur'[s].id # m, goal'[s] = goal[s],
           \A op \in ops[s] \union ops'[s] : op.id = m => op \in ops[s] /\ op \in ops'[s],
           \A so \in sops[s] \union sops'[s] : so.id = m => so \in sops[s] /\ so \in sops'[s]
    PROVE  FitsModel(s, m)'
<1>1. db'[m] = db[m] /\ states'[m] = states[m] /\ files'[Home[m]] = files[Home[m]]
  BY DEF Unmoved
<1>2. HomeFile(m)' = HomeFile(m) /\ HomeCandidate(m)' = HomeCandidate(m)
  BY <1>1 DEF HomeFile, HomeCandidate
<1>3. \A op : op.id = m => /\ OpFits(op)' = OpFits(op) /\ Outcome(op)' = Outcome(op)
                           /\ StateOpFits(op)' = StateOpFits(op)
  BY <1>1, <1>2 DEF OpFits, StateOpFits, Outcome, SameSid
<1>4. InSync(m)' = InSync(m)
  BY <1>1, <1>2 DEF InSync
<1>5. Untouched(s, m)' = Untouched(s, m) /\ Recorded(s, m)' = Recorded(s, m)
  BY DEF Untouched, Recorded
<1>6. \A op \in ops'[s] : op.id = m =>
          OpFits(op)' /\ (goal'[s][m] # Nothing => Outcome(op)' \in goal'[s][m])
  BY <1>3 DEF FitsModel
<1>7. \A so \in sops'[s] : so.id = m => StateOpFits(so)'
  BY <1>3 DEF FitsModel
<1>8. Untouched(s, m)' /\ goal'[s][m] # Nothing => <<db'[m], HomeFile(m)'>> \in goal'[s][m]
  BY <1>1, <1>2, <1>5 DEF FitsModel
<1>9. Untouched(s, m)' /\ Recorded(s, m)' /\ ~Private(m, db'[m]) => InSync(m)'
  BY <1>1, <1>4, <1>5 DEF FitsModel
<1> QED
  BY <1>6, <1>7, <1>8, <1>9 DEF FitsModel

\* The file of an operation on an undisturbed model.
LEMMA OpAtHome ==
    ASSUME TypeOK, RecordsOK, NEW s \in Sessions, NEW op \in ops[s], op.id \notin disturbed
    PROVE  op.path = Home[op.id] /\ op.id \in Models /\ op \in SyncOp
BY DEF RecordsOK, OpOK, NamesOf, TypeOK, SessionTypeOK, SyncOp

LEMMA OpenFits ==
    ASSUME TypeOK, Shape, RecordsOK, OneOpPerModel, PlansFit,
           NEW s \in Sessions, OpenFile(s), NEW m \in Models \ disturbed'
    PROVE  FitsModel(s, m)'
<1> USE DEF TypeOK, SessionTypeOK, StoreTypeOK
<1>1. PICK op \in ops[s] :
        /\ Applying(s) /\ op.type \in FsWrites
        /\ files' = [files EXCEPT ![op.path] = Garbage]
        /\ cur' = [cur EXCEPT ![s] = op]
        /\ pc' = [pc EXCEPT ![s] = "writing"]
        /\ disturbed \subseteq disturbed'
        /\ UNCHANGED <<clock, db, states, cand, ops, sops, goal>>
  BY DEF OpenFile
<1>2. FitsModel(s, m)
  BY <1>1 DEF PlansFit
<1>3. pc'[s] = "writing" /\ cur'[s] = op /\ Calculated(s)
  BY <1>1 DEF Applying, Calculated
<1>4. CASE m # op.id
  <2>1. files'[Home[m]] = files[Home[m]]
    BY <1>1, <1>4, HomeUntouched
  <2>2. ops'[s] = ops[s] /\ sops'[s] = sops[s] /\ goal'[s] = goal[s] /\ db' = db /\ states' = states
    BY <1>1
  <2> QED
    BY <1>1, <1>2, <1>3, <1>4, <2>1, <2>2, PartKept DEF Unmoved
<1>5. CASE m = op.id
  <2>1. files'[Home[m]] = Garbage
    BY <1>1, <1>5, OpAtHome, AtHome
  <2>2. ~Untouched(s, m)'
    BY <1>1, <1>5 DEF Untouched
  <2>3. \A o \in ops[s] : o.id = m => o = op
    BY <1>5 DEF OneOpPerModel
  <2>4. OpFits(op)' /\ Outcome(op)' = Outcome(op)
    BY <1>1, <1>2, <1>5 DEF FitsModel, OpFits, Outcome, SameSid, FsWrites, DbUpserts
  <2>5. \A so \in sops[s] : so.id # m
    BY <1>5 DEF OneOpPerModel
  <2> QED
    BY <1>1, <1>2, <1>3, <1>5, <2>1, <2>2, <2>3, <2>4, <2>5 DEF FitsModel
<1> QED
  BY <1>4, <1>5

\* An operation is done: on another model, or leaving what it should.
LEMMA FinishedFits ==
    ASSUME TypeOK, Shape, OneOpPerModel, PlansFit,
           NEW s \in Sessions, NEW op \in ops[s], Finished(s, op), Calculated(s),
           NEW m \in Models \ disturbed, goal' = goal,
           m # op.id => Unmoved(m),
           m = op.id => /\ StateOpFits(StateOp(op))'
                        /\ goal[s][m] # Nothing => <<db'[m], HomeFile(m)'>> \in goal[s][m]
    PROVE  FitsModel(s, m)'
<1> USE DEF TypeOK, SessionTypeOK
<1>1. ops'[s] = ops[s] \ {op} /\ sops'[s] = sops[s] \union {StateOp(op)} /\ pc'[s] = "applying"
  BY DEF Finished
<1>2. StateOp(op).id = op.id
  BY DEF StateOp
<1>3. FitsModel(s, m)
  BY DEF PlansFit
<1>4. CASE m # op.id
  BY <1>1, <1>2, <1>3, <1>4, PartKept
<1>5. CASE m = op.id
  <2>1. (\A o \in ops'[s] : o.id # m) /\ (\A so \in sops'[s] : so.id = m => so = StateOp(op))
    BY <1>1, <1>2, <1>5 DEF OneOpPerModel
  <2>2. ~Recorded(s, m)'
    BY <1>1, <1>2, <1>5 DEF Recorded
  <2> QED
    BY <1>1, <1>5, <2>1, <2>2 DEF FitsModel
<1> QED
  BY <1>4, <1>5

LEMMA WriteFits ==
    ASSUME TypeOK, Shape, RecordsOK, OneOpPerModel, PlansFit,
           NEW s \in Sessions, WriteFile(s), NEW m \in Models \ disturbed'
    PROVE  FitsModel(s, m)'
<1> USE DEF TypeOK, SessionTypeOK, StoreTypeOK
<1>0. PICK op \in ops[s] :
        /\ op = cur[s] /\ op.type \in FsWrites /\ WellFormedOp(op)
        /\ \E out : /\ files[op.path] = Garbage => out = [id |-> op.id, c |-> op.c]
                    /\ files' = [files EXCEPT ![op.path] = out]
        /\ Finished(s, op)
        /\ UNCHANGED <<db, states, goal>>
  BY DEF WriteFile, Shape
<1>1. PICK out :
        /\ op = cur[s] /\ op.type \in FsWrites /\ WellFormedOp(op)
        /\ files[op.path] = Garbage => out = [id |-> op.id, c |-> op.c]
        /\ files' = [files EXCEPT ![op.path] = out]
        /\ Finished(s, op)
        /\ UNCHANGED <<db, states, goal>>
  BY <1>0
<1>2. pc[s] = "writing" /\ Calculated(s)
  BY DEF WriteFile, Calculated
<1>3. m \in Models \ disturbed
  BY DEF WriteFile, DisturbOthers
<1>4. FitsModel(s, m)
  BY <1>3 DEF PlansFit
<1>5. m # op.id => Unmoved(m)
  BY <1>1, HomeUntouched DEF Unmoved
<1>6. ASSUME m = op.id
      PROVE  /\ StateOpFits(StateOp(op))'
             /\ goal[s][m] # Nothing => <<db'[m], HomeFile(m)'>> \in goal[s][m]
  <2>1. op.path = Home[m] /\ files[Home[m]] = Garbage
    BY <1>1, <1>2, <1>3, <1>4, <1>6, OpAtHome DEF FitsModel
  <2>2. files'[Home[m]] = [id |-> op.id, c |-> op.c]
    BY <1>1, <2>1, AtHome
  <2>3. op.c \in Content
    BY <1>1 DEF WellFormedOp
  <2>4. HomeFile(m)' = op.c
    BY <1>6, <2>2, <2>3 DEF HomeFile, File
  <2>5. OpFits(op) /\ (goal[s][m] # Nothing => Outcome(op) \in goal[s][m])
    BY <1>4, <1>6 DEF FitsModel
  <2>6. Outcome(op) = <<db[m], op.c>>
    BY <1>1, <1>6 DEF Outcome, FsWrites, DbUpserts
  <2>7. StateOp(op).type # "Delete" /\ StateOp(op).id = m /\ StateOp(op).sum = op.c
        /\ StateOp(op).sid = op.sid
    BY <1>1, <1>6 DEF StateOp, FsWrites
  <2>8. StateOpFits(StateOp(op))'
    BY <1>1, <1>6, <2>4, <2>5, <2>7 DEF StateOpFits, OpFits, SameSid
  <2> QED
    BY <1>1, <2>4, <2>5, <2>6, <2>8
<1> QED
  BY <1>1, <1>2, <1>3, <1>5, <1>6, FinishedFits

\* The other deletions: the file is gone, and no row asks for one.
LEMMA GoneFits ==
    ASSUME NEW op \in SyncOp, op.type \in {"FsDelete", "FsForget", "DbDelete"}, OpFits(op),
           HomeFile(op.id)' = Nothing, ~Shared(op.id, db'[op.id]),
           states'[op.id] = states[op.id] \/ states'[op.id] = Nothing
    PROVE  StateOpFits(StateOp(op))'
<1>1. StateOp(op).type = "Delete" /\ StateOp(op).id = op.id /\ StateOp(op).sid = op.sid
  BY DEF StateOp
<1> QED
  BY <1>1 DEF StateOpFits, OpFits, SameSid

LEMMA RemoveFits ==
    ASSUME TypeOK, Shape, RecordsOK, OneOpPerModel, PlansFit,
           NEW s \in Sessions, RemoveFile(s) \/ ForgetFile(s), NEW m \in Models \ disturbed'
    PROVE  FitsModel(s, m)'
<1> USE DEF TypeOK, SessionTypeOK, StoreTypeOK
<1>1. PICK op \in ops[s] :
        /\ \/ /\ op.type = "FsDelete" /\ files' = [files EXCEPT ![op.path] = Nothing]
           \/ op.type = "FsForget" /\ files' = files
        /\ Applying(s) /\ Finished(s, op)
        /\ disturbed \subseteq disturbed'
        /\ UNCHANGED <<db, states, goal>>
  BY DEF RemoveFile, ForgetFile, DisturbOthers
<1>2. Calculated(s) /\ m \in Models \ disturbed /\ op \in SyncOp
  BY <1>1 DEF Applying, Calculated
<1>3. FitsModel(s, m)
  BY <1>2 DEF PlansFit
<1>4. ASSUME m # op.id PROVE Unmoved(m)
  <2>1. CASE files' = files
    BY <1>1, <2>1 DEF Unmoved
  <2>2. CASE files' = [files EXCEPT ![op.path] = Nothing]
    BY <1>1, <1>4, <2>2, HomeUntouched DEF Unmoved
  <2> QED
    BY <1>1, <2>1, <2>2
<1>5. ASSUME m = op.id
      PROVE  /\ StateOpFits(StateOp(op))'
             /\ goal[s][m] # Nothing => <<db'[m], HomeFile(m)'>> \in goal[s][m]
  <2>1. OpFits(op) /\ (goal[s][m] # Nothing => Outcome(op) \in goal[s][m])
    BY <1>3, <1>5 DEF FitsModel
  <2>2. HomeFile(m)' = Nothing
    <3>1. CASE op.type = "FsForget"
      BY <1>1, <1>5, <2>1, <3>1 DEF OpFits, HomeFile
    <3>2. CASE op.type = "FsDelete"
      <4>1. op.path = Home[m] /\ Home[m] \in Paths
        BY <1>2, <1>5, OpAtHome, AtHome
      <4>2. files'[Home[m]] = Nothing
        BY <1>1, <3>2, <4>1
      <4> QED
        BY <4>2, NothingAssumption DEF HomeFile
    <3> QED
      BY <1>1, <3>1, <3>2
  <2>3. Outcome(op) = <<db[m], Nothing>>
    BY <1>1, <1>5, <2>1 DEF Outcome, OpFits, FsWrites, DbUpserts
  <2>4. ~Shared(op.id, db'[op.id])
    BY <1>1, <2>1 DEF OpFits
  <2> QED
    BY <1>1, <1>2, <1>5, <2>1, <2>2, <2>3, <2>4, GoneFits
<1> QED
  BY <1>1, <1>2, <1>4, <1>5, FinishedFits

LEMMA DeleteFits ==
    ASSUME TypeOK, Shape, RecordsOK, OneOpPerModel, PlansFit,
           NEW s \in Sessions, DeleteRow(s), NEW m \in Models \ disturbed'
    PROVE  FitsModel(s, m)'
<1> USE DEF TypeOK, SessionTypeOK, StoreTypeOK
<1>1. PICK op \in ops[s] :
        /\ op.type = "DbDelete" /\ Applying(s) /\ Finished(s, op)
        /\ DropRows(Inside[op.id])
        /\ disturbed' = disturbed \union (Inside[op.id] \ {op.id}) \union
              {n \in {op.id} : \E u \in Sessions \ {s} : Busy(u)}
        /\ UNCHANGED <<files, goal>>
  BY DEF DeleteRow
<1>2. Calculated(s) /\ m \in Models \ disturbed /\ op \in SyncOp
  BY <1>1 DEF Applying, Calculated
<1>3. FitsModel(s, m)
  BY <1>2 DEF PlansFit
<1>4. ASSUME m # op.id PROVE Unmoved(m)
  <2>1. m \notin Inside[op.id] /\ op.id \in Models
    BY <1>1, <1>2, <1>4 DEF SyncOp
  <2>2. Root \notin Inside[op.id]
    BY <2>1, ConstantsAssumption
  <2> QED
    BY <1>1, <2>1, <2>2 DEF DropRows, Unmoved
<1>5. ASSUME m = op.id
      PROVE  /\ StateOpFits(StateOp(op))'
             /\ goal[s][m] # Nothing => <<db'[m], HomeFile(m)'>> \in goal[s][m]
  <2>1. OpFits(op) /\ (goal[s][m] # Nothing => Outcome(op) \in goal[s][m])
    BY <1>3, <1>5 DEF FitsModel
  <2>2. m \in Inside[op.id]
    BY <1>5, ConstantsAssumption
  <2>3. db'[m] = Nothing /\ (states'[m] = states[m] \/ states'[m] = Nothing)
    BY <1>1, <2>2 DEF DropRows
  <2>4. HomeFile(m)' = Nothing
    BY <1>1, <1>5, <2>1 DEF OpFits, HomeFile
  <2>5. Outcome(op) = <<Nothing, Nothing>>
    BY <1>1, <1>5, <2>1 DEF Outcome, OpFits, FsWrites, DbUpserts
  <2>6. ~Shared(op.id, db'[op.id])
    BY <1>5, <2>3 DEF Shared
  <2> QED
    BY <1>1, <1>2, <1>5, <2>1, <2>3, <2>4, <2>5, <2>6, GoneFits
<1> QED
  BY <1>1, <1>2, <1>4, <1>5, FinishedFits

LEMMA CommitFits ==
    ASSUME TypeOK, Shape, RecordsOK, OneOpPerModel, PlansFit,
           NEW s \in Sessions, CommitUpserts(s), NEW m \in Models \ disturbed'
    PROVE  FitsModel(s, m)'
<1> USE DEF TypeOK, SessionTypeOK, StoreTypeOK
<1>1. /\ \A op \in ops[s] : op.type \in DbUpserts
      /\ UNCHANGED <<states, files, goal>> /\ disturbed \subseteq disturbed'
      /\ ops'[s] = {} /\ pc'[s] = "flushing"
      /\ sops'[s] = sops[s] \union {StateOp(op) : op \in ops[s]}
  BY DEF CommitUpserts, DisturbOthers
<1>2. Calculated(s) /\ m \in Models \ disturbed
  BY <1>1 DEF CommitUpserts, Applying, Calculated
<1>3. FitsModel(s, m)
  BY <1>2 DEF PlansFit
<1>4. \A op : StateOp(op).id = op.id
  BY DEF StateOp
<1>5. CASE \A op \in ops[s] : op.id # m
  <2>1. Unmoved(m)
    BY <1>1, <1>5 DEF CommitUpserts, Unmoved
  <2>2. \A so \in sops[s] \union sops'[s] : so.id = m => so \in sops[s] /\ so \in sops'[s]
    BY <1>1, <1>4, <1>5
  <2>3. \A op \in ops[s] \union ops'[s] : op.id = m => op \in ops[s] /\ op \in ops'[s]
    BY <1>1, <1>5
  <2>4. pc'[s] # "scanned" /\ pc'[s] # "writing" /\ goal'[s] = goal[s]
    BY <1>1
  <2> QED
    BY <1>2, <1>3, <2>1, <2>2, <2>3, <2>4, PartKept
<1>6. ASSUME NEW op \in ops[s], op.id = m PROVE FitsModel(s, m)'
  <2>1. (CHOOSE o \in ops[s] : o.id = m) = op
    BY <1>6 DEF OneOpPerModel
  <2>2. db'[m] = op.c
    BY <1>6, <2>1 DEF CommitUpserts
  <2>3. OpFits(op) /\ (goal[s][m] # Nothing => Outcome(op) \in goal[s][m])
    BY <1>3, <1>6 DEF FitsModel
  <2>4. HomeFile(m)' = op.c
    BY <1>1, <1>6, <2>3 DEF OpFits, HomeFile
  <2>5. Outcome(op) = <<op.c, op.c>>
    BY <1>1, <1>6, <2>3 DEF Outcome, OpFits, FsWrites, DbUpserts
  <2>6. StateOp(op).type # "Delete" /\ StateOp(op).sum = op.c /\ StateOp(op).sid = op.sid
    BY <1>1, <1>6 DEF StateOp, DbUpserts
  <2>7. StateOpFits(StateOp(op))'
    BY <1>1, <1>4, <1>6, <2>3, <2>4, <2>6 DEF StateOpFits, OpFits, SameSid
  <2>8. \A so \in sops'[s] : so.id = m => so = StateOp(op)
    BY <1>1, <1>4, <1>6 DEF OneOpPerModel
  <2>9. ~Recorded(s, m)'
    BY <1>1, <1>4, <1>6 DEF Recorded
  <2> QED
    BY <1>1, <1>6, <2>2, <2>3, <2>4, <2>5, <2>7, <2>8, <2>9 DEF FitsModel
<1> QED
  BY <1>5, <1>6

LEMMA FlushFits ==
    ASSUME TypeOK, Shape, RecordsOK, OneStatePerModel, FlushesLast, CarriesRows, PlansFit,
           NEW s \in Sessions, FlushState(s), NEW m \in Models \ disturbed'
    PROVE  FitsModel(s, m)'
<1> USE DEF TypeOK, SessionTypeOK, StoreTypeOK
<1>1. PICK so \in sops[s] : \E row \in RowAfter(so) :
        /\ states' = [states EXCEPT ![so.id] = row]
        /\ sops' = [sops EXCEPT ![s] = @ \ {so}]
        /\ disturbed \subseteq disturbed'
        /\ UNCHANGED <<db, files, pc, ops, cur, goal>>
  BY DEF FlushState, DisturbOthers
<1>2. PICK row \in RowAfter(so) : states' = [states EXCEPT ![so.id] = row]
  BY <1>1
<1>3. pc[s] = "flushing" /\ ops[s] = {} /\ Calculated(s) /\ m \in Models \ disturbed
      /\ so \in SyncStateOp
  BY <1>1 DEF FlushState, FlushesLast, Calculated
<1>4. FitsModel(s, m)
  BY <1>3 DEF PlansFit
<1>5. CASE m # so.id
  <2>1. Unmoved(m)
    BY <1>1, <1>5 DEF Unmoved
  <2> QED
    BY <1>1, <1>3, <1>4, <1>5, <2>1, PartKept
<1>6. CASE m = so.id
  <2>1. StateOpFits(so) /\ WellFormedStateOp(so)
    BY <1>4, <1>6 DEF FitsModel, Shape
  <2>2. states'[m] = row /\ db'[m] = db[m]
    BY <1>1, <1>2, <1>6
  <2>3. HomeFile(m)' = HomeFile(m) /\ HomeCandidate(m)' = HomeCandidate(m)
    BY <1>1 DEF HomeFile, HomeCandidate
  <2>4. goal[s][m] # Nothing => <<db[m], HomeFile(m)>> \in goal[s][m]
    BY <1>3, <1>4 DEF FitsModel, Untouched
  <2>5. \A o \in sops'[s] : o.id # m
    BY <1>1, <1>6 DEF OneStatePerModel
  <2>6. row \in StateRow /\ db[m] \in Row /\ HomeCandidate(m) \in FsCandidate \union {Nothing}
    BY <1>3, <2>1, AtHome, RowAfterShape DEF Row
  <2>7. ~Private(m, db[m]) => InSync(m)'
    <3>1. SUFFICES ASSUME ~Private(m, db[m])
                   PROVE  OpsFor(m, db[m], row, HomeCandidate(m)) = {}
      BY <2>2, <2>3 DEF InSync
    <3>2. CASE so.type = "Delete"
      <4>1. row = Nothing
        BY <1>6, <2>1, <3>2 DEF RowAfter, StateOpFits, SameSid
      <4>2. ~Shared(m, db[m]) /\ HomeCandidate(m) = Nothing
        BY <1>6, <2>1, <3>2, AtHome, NothingAssumption
           DEF StateOpFits, HomeFile, HomeCandidate, File
      <4> QED
        BY <2>6, <4>1, <4>2, OpsForCases DEF NoCandidate, Added, Deleted, Modified, Unmodified
    <3>3. CASE so.type # "Delete"
      <4>1. so.sum = db[m] /\ so.sum \in Content
        BY <1>3, <1>6, <2>1, <3>3 DEF CarriesRows, Carries, WellFormedStateOp
      <4>2. row.sum = so.sum /\ row.flushed = clock /\ row # Nothing
        <5>1. PICK i \in StateIds : row = Flushed(i, so)
          BY <1>3, <2>1, <3>3 DEF RowAfter, FreshIds, FreeIds, WellFormedStateOp, SyncStateOp
        <5>2. row \in SyncState
          BY <1>3, <4>1, <5>1 DEF Flushed, SyncState, SyncStateOp
        <5> QED
          BY <5>1, <5>2, NothingAssumption DEF Flushed
      <4>3. db[m] # Nothing /\ db[m].upd =< clock
        BY <4>1, NothingAssumption DEF RecordsOK, MadeBy
      <4>4. Unmodified(m, db[m], row)
        BY <3>1, <4>1, <4>2, <4>3 DEF Unmodified, Shared, Content, Time
      <4>5. HomeFile(m) = so.sum
        BY <1>6, <2>1, <3>3 DEF StateOpFits
      <4>6. HomeCandidate(m) # Nothing /\ HomeCandidate(m).c = row.sum
        BY <4>1, <4>2, <4>5, FoundAtHome, NothingAssumption
      <4> QED
        BY <2>6, <4>4, <4>6, OpsForCases DEF NoCandidate, Added, Deleted, Modified, Unmodified
    <3> QED
      BY <3>2, <3>3
  <2> QED
    BY <1>1, <1>3, <2>2, <2>3, <2>4, <2>5, <2>7 DEF FitsModel
<1> QED
  BY <1>5, <1>6

LEMMA FitsNext ==
    ASSUME TypeOK, Shape, RecordsOK, OneOpPerModel, OneStatePerModel, FlushesLast, CarriesRows,
           EditsDetected, RowIsBase, PlansFit, [Next]_vars
    PROVE  PlansFit'
<1> SUFFICES ASSUME NEW s \in Sessions, NEW m \in Models \ disturbed'
             PROVE  FitsModel(s, m)'
  BY DEF PlansFit
<1>1. CASE Mishap \/ User \/ Outside \/ UNCHANGED vars
  BY <1>1, WorldFits
<1>2. ASSUME NEW t \in Sessions, Calculate(t) \/ ApplyOp(t) \/ ApplyStates(t)
      PROVE  FitsModel(s, m)'
  <2>1. CASE s # t
    BY <1>2, <2>1, OthersFit
  <2>2. CASE s = t
    <3>1. CASE Calculate(s)
      BY <3>1, ScanFits
    <3>2. CASE ApplyOp(s)
      BY <3>2, OpenFits, WriteFits, RemoveFits, DeleteFits, CommitFits, ResetFits
         DEF ApplyOp, RemoveFileFails, CommitFails
    <3>3. CASE ApplyStates(s)
      BY <3>3, FlushFits, ResetFits DEF ApplyStates, FlushFails, Finish
    <3> QED
      BY <1>2, <2>2, <3>1, <3>2, <3>3
  <2> QED
    BY <2>1, <2>2
<1> QED
  BY <1>1, <1>2 DEF Next, SyncStep

-----------------------------------------------------------------------------
(* The theorems.                                                           *)

LEMMA FlushesLastNext ==
    ASSUME TypeOK, Shape, FlushesLast, [Next]_vars
    PROVE  FlushesLast'
<1> SUFFICES ASSUME NEW s \in Sessions, pc'[s] = "flushing" PROVE ops'[s] = {}
  BY DEF FlushesLast
<1> USE DEF TypeOK, SessionTypeOK
<1>1. CASE ScanFs(s)
  BY <1>1 DEF ScanFs
<1>2. CASE CommitUpserts(s)
  BY <1>2 DEF CommitUpserts
<1>3. CASE ~ScanFs(s) /\ ~CommitUpserts(s)
  <2>1. ops'[s] \subseteq ops[s]
    BY <1>3, OpsShrink
  <2>2. pc'[s] = pc[s] \/ pc'[s] \in {"idle", "scanned", "writing", "applying"}
    <3>1. CASE \E t \in Sessions : Reset(t)
      BY <3>1 DEF Reset
    <3>2. CASE Crash
      BY <3>2 DEF Crash
    <3>3. CASE \E t \in Sessions : ScanDb(t) \/ OpenFile(t)
      BY <3>3 DEF ScanDb, OpenFile
    <3>4. CASE \E t \in Sessions : \E op \in ops[t] \union {cur[t]} : Finished(t, op)
      BY <3>4 DEF Finished
    <3>5. CASE pc' = pc
      BY <3>5
    <3>6. ASSUME NEW t \in Sessions, ScanFs(t) \/ CommitUpserts(t) PROVE pc'[s] = pc[s]
      <4>1. t # s
        BY <1>3, <3>6
      <4> QED
        BY <3>6, <4>1 DEF ScanFs, CommitUpserts
    <3>7. CASE \E t \in Sessions : Calculate(t) \/ ApplyStates(t)
      BY <3>1, <3>3, <3>5, <3>6, <3>7 DEF Calculate, ApplyStates, FlushState, FlushFails, Finish
    <3>8. CASE \E t \in Sessions : ApplyOp(t)
      BY <3>1, <3>3, <3>4, <3>6, <3>8 DEF ApplyOp, WriteFile, RemoveFile, RemoveFileFails,
         ForgetFile, DeleteRow, CommitFails
    <3>9. CASE Mishap \/ User \/ Outside \/ UNCHANGED vars
      BY <3>1, <3>2, <3>5, <3>9 DEF Mishap, Decline, IoError, User, EditModel, CreateModel, Save,
         DeleteModel, Outside, WriteOutside, RemoveOutside, CorruptOutside, RenameOutside,
         sessVars, vars
    <3> QED
      BY <3>7, <3>8, <3>9 DEF Next, SyncStep
  <2> QED
    BY <2>1, <2>2 DEF FlushesLast
<1> QED
  BY <1>1, <1>2, <1>3

LEMMA MergeInit == Init => MergeInv
<1> SUFFICES ASSUME Init PROVE MergeInv
  OBVIOUS
<1>1. TypeOK /\ Shape
  BY TypeInit
<1>2. OneOpPerModel /\ OneStatePerModel /\ FlushesLast /\ FlushedPast
  BY DEF Init, OneOpPerModel, OneStatePerModel, FlushesLast, FlushedPast
<1>3. CarriesRows
  BY DEF Init, CarriesRows, Carries
<1>4. EditsDetected
  BY DEF Init, EditsDetected, EditDetected, Added
<1>5. RecordsOK
  <2>1. \A m \in Models : MadeBy(db[m], clock)
    BY DEF Init, MadeBy
  <2> QED
    BY <2>1, NothingAssumption DEF Init, RecordsOK, StateOK, FileOK
<1>6. RowIsBase
  BY DEF Init, RowIsBase, Unmodified
<1>7. PlansFit
  BY DEF Init, PlansFit, FitsModel, Calculated
<1> QED
  BY <1>1, <1>2, <1>3, <1>4, <1>5, <1>6, <1>7 DEF MergeInv, EditsInv

LEMMA MergeNext == MergeInv /\ [Next]_vars => MergeInv'
<1> SUFFICES ASSUME MergeInv, [Next]_vars PROVE MergeInv'
  OBVIOUS
<1> USE DEF MergeInv, EditsInv
<1>1. TypeOK' /\ Shape'
  BY TypeNext
<1>2. OneOpPerModel' /\ FlushedPast' /\ CarriesRows'
  BY OneOpNext, FlushedPastNext, CarriesNext
<1>3. EditsDetected'
  BY EditsNext
<1>4. RecordsOK' /\ OneStatePerModel' /\ FlushesLast'
  BY RecordsNext, OneStateNext, FlushesLastNext
<1>5. RowIsBase' /\ PlansFit'
  BY BaseNext, FitsNext
<1> QED
  BY <1>1, <1>2, <1>3, <1>4, <1>5

LEMMA MergeInvariant == Spec => []MergeInv
BY MergeInit, MergeNext, PTL DEF Spec

LEMMA InSyncEqual == MergeInv => InSyncMeansEqual
<1> SUFFICES ASSUME MergeInv, NEW m \in Models \ disturbed, Shared(m, db[m]), NothingToDo(m)
             PROVE  FileOf(m) = db[m]
  BY DEF InSyncMeansEqual
<1> USE DEF MergeInv, EditsInv
<1>1. FsCandidates(m) = {HomeCandidate(m)} /\ FileOf(m) = HomeFile(m)
      /\ HomeCandidate(m) \in FsCandidate \union {Nothing}
  BY AtHome
<1>2. OpsFor(m, db[m], states[m], HomeCandidate(m)) = {}
  BY <1>1 DEF NothingToDo
<1>3. db[m] \in Row /\ states[m] \in StateRow
  BY DEF TypeOK, StoreTypeOK, Row, StateRow
<1>4. Unmodified(m, db[m], states[m]) /\ HomeCandidate(m) # Nothing
      /\ HomeCandidate(m).c = states[m].sum
  <2> DEFINE f == HomeCandidate(m)
             planned == OpsFor(m, db[m], states[m], f)
  <2>1. \A o : planned # {o}
    BY <1>2
  <2>2. ~NoCandidate(m, db[m], states[m])
    BY DEF NoCandidate
  <2>3. planned = OpsFor(m, db[m], states[m], f) /\ f \in FsCandidate \union {Nothing}
    BY <1>1
  <2> HIDE DEF planned, f
  <2>4. Unmodified(m, db[m], states[m]) /\ f # Nothing /\ f.c = states[m].sum
    BY <1>3, <2>1, <2>2, <2>3, OpsForCases
  <2> QED
    BY <2>4 DEF f
<1>5. HomeFile(m) = states[m].sum
  BY <1>4, FoundAtHome
<1> QED
  BY <1>1, <1>4, <1>5 DEF RowIsBase

LEMMA AllMerged == MergeInv => MergesAsPromised /\ OnePassSuffices
<1> SUFFICES ASSUME MergeInv, NEW s \in Sessions, Completed(s), NEW m \in Models \ disturbed
             PROVE  /\ goal[s][m] # Nothing => <<db[m], FileOf(m)>> \in goal[s][m]
                    /\ ~Private(m, db[m]) => NothingToDo(m)
  BY DEF MergesAsPromised, OnePassSuffices
<1> USE DEF MergeInv, EditsInv
<1>1. FsCandidates(m) = {HomeCandidate(m)} /\ FileOf(m) = HomeFile(m)
  BY AtHome
<1>2. Calculated(s) /\ Untouched(s, m) /\ Recorded(s, m)
  BY DEF Completed, FlushesLast, Calculated, Untouched, Recorded
<1>3. FitsModel(s, m)
  BY DEF PlansFit
<1>4. goal[s][m] # Nothing => <<db[m], FileOf(m)>> \in goal[s][m]
  BY <1>1, <1>2, <1>3 DEF FitsModel
<1>5. ~Private(m, db[m]) => NothingToDo(m)
  BY <1>1, <1>2, <1>3 DEF FitsModel, InSync, NothingToDo
<1> QED
  BY <1>4, <1>5

(* A model for which calculate finds nothing to do, although it is shared,  *)
(* has the same contents in its row and in its file (sync.rs:215-313), in   *)
(* the middle of a session and after any interrupted one too.               *)
THEOREM InSyncIsEqual == Spec => []InSyncMeansEqual
BY MergeInvariant, InSyncEqual, PTL

(* A session that has applied its operations and recorded them (sync.rs:    *)
(* 356-583) leaves row and file of every undisturbed model as the           *)
(* three-way merge of what it read wants them.                              *)
THEOREM MergesKept == Spec => []MergesAsPromised
BY MergeInvariant, AllMerged, PTL

(* ... and the next calculate has nothing to do for it.                     *)
THEOREM OnePassIsEnough == Spec => []OnePassSuffices
BY MergeInvariant, AllMerged, PTL

=============================================================================
