-------------------------------- MODULE Sync --------------------------------
(***************************************************************************)
(* Two-way synchronisation between the models of one workspace in SQLite   *)
(* and a directory of YAML files (src-tauri/yaak-sync).  A sync session is *)
(*                                                                         *)
(*   calculate (read the database, read the directory, compute operations) *)
(*   -> the window, which asks for confirmation when the database changes  *)
(*   -> apply (files and deletions one by one, upserts in a transaction)   *)
(*   -> one SyncState row written per operation.                           *)
(*                                                                         *)
(* Nothing serialises sessions: every window of the workspace starts its   *)
(* own, a confirmation dialog may stay open while another one runs, and    *)
(* the user and other programs keep editing meanwhile.                     *)
(*                                                                         *)
(* A file's checksum is modelled as its contents (SHA-1 taken as           *)
(* injective).  Time is `clock', advanced by every change made from        *)
(* outside; MaxClock bounds the number of such changes in a behaviour.     *)
(***************************************************************************)
EXTENDS Integers, FiniteSets

CONSTANTS
    Models,     \* ids of the synced models of the workspace
    Root,       \* the workspace's own model
    Envs,       \* the models that are environments, which can be private
    Inside,     \* Inside[m]: what deleting m deletes with it (folder contents)
    Paths,      \* file names in the sync directory
    Home,       \* Home[m]: the derived name "yaak.<id>.yaml"
    StateIds,   \* ids for SyncState rows
    Sessions,   \* sync sessions that may overlap
    MaxClock,   \* bound on the changes made from outside
    Nothing,    \* no row, no file, no candidate
    Garbage     \* a file that exists and does not parse

Time == 1..MaxClock
Content == [val : Time, upd : Time, pub : BOOLEAN]
File == [id : Models, c : Content]
SyncState == [sid : StateIds, sum : Content, path : Paths, flushed : Time]

ASSUME ConstantsAssumption ==
    /\ MaxClock \in Nat \ {0}
    /\ Root \in Models
    /\ Envs \subseteq Models \ {Root}
    /\ Inside \in [Models -> SUBSET Models]
    /\ \A m \in Models : m \in Inside[m]
    /\ Inside[Root] = Models
    /\ \A m \in Models : Root \in Inside[m] => m = Root
    /\ StateIds \subseteq Nat
    /\ Home \in [Models -> Paths]
    /\ \A m, n \in Models : Home[m] = Home[n] => m = n

ASSUME NothingAssumption ==
    /\ Nothing \notin Content /\ Nothing \notin File /\ Nothing \notin SyncState
    /\ Nothing \notin [path : Paths, c : Content]
    /\ Nothing \notin [Models -> (Content \union {Nothing}) \X (SyncState \union {Nothing})]
    /\ Garbage \notin File /\ Garbage # Nothing

VARIABLES
    clock,      \* the latest time handed out
    db,         \* Models -> contents of the row, or Nothing
    states,     \* Models -> SyncState row, or Nothing
    files,      \* Paths -> a model file, Garbage or Nothing
    pc,         \* Sessions -> how far the session is
    cand,       \* Sessions -> what calculate read from the database
    ops,        \* Sessions -> operations calculated and not applied yet
    cur,        \* Sessions -> the operation whose file is open for writing
    sops,       \* Sessions -> SyncState changes not written yet
    edited,     \* history: models whose latest in-app edit is not on disk yet
    disturbed,  \* history: models changed while a session was under way, or
                \* whose file lost the name that the app writes it under
    goal        \* history: Sessions -> Models -> the merges allowed

vars == <<clock, db, states, files, pc, cand, ops, cur, sops,
          edited, disturbed, goal>>
sessVars == <<pc, cand, ops, cur, sops, goal>>

-----------------------------------------------------------------------------
(* Operations and state operations, with what apply reads of each.         *)

FsWrites == {"FsCreate", "FsUpdate"}
DbUpserts == {"DbCreate", "DbUpdate"}
OpTypes == FsWrites \union DbUpserts \union {"FsDelete", "FsForget", "DbDelete"}

SyncOp == [type : OpTypes, id : Models, c : Content \union {Nothing},
           path : Paths, sid : StateIds \union {Nothing}]

SyncStateOp == [type : {"Create", "Update", "Delete"}, id : Models,
                sum : Content \union {Nothing}, path : Paths,
                sid : StateIds \union {Nothing}]

Op(t, m, c, p, i) == [type |-> t, id |-> m, c |-> c, path |-> p, sid |-> i]

\* The SyncState change that goes with an applied operation.
StateOp(op) ==
    [type |-> IF op.type \in {"FsCreate", "DbCreate"} THEN "Create"
              ELSE IF op.type \in {"FsUpdate", "DbUpdate"} THEN "Update"
              ELSE "Delete",
     id |-> op.id, sum |-> op.c, path |-> op.path, sid |-> op.sid]

-----------------------------------------------------------------------------
(* get_db_candidates: what the database says of model m, given its row d   *)
(* and its sync state st.                                                  *)

Private(m, d) == m \in Envs /\ d # Nothing /\ ~d.pub
\* Mutants: a deleted row passes for a shared one; a private environment does.
SharedEvenDeleted(m, d) == ~Private(m, d)
SharedEvenPrivate(m, d) == d # Nothing
Shared(m, d) == d # Nothing /\ ~Private(m, d)

Added(m, d, st) == Shared(m, d) /\ st = Nothing
Deleted(m, d, st) == ~Shared(m, d) /\ st # Nothing
Modified(m, d, st) == Shared(m, d) /\ st # Nothing /\ d.upd > st.flushed
Unmodified(m, d, st) == Shared(m, d) /\ st # Nothing /\ ~(d.upd > st.flushed)
NoCandidate(m, d, st) == ~Shared(m, d) /\ st = Nothing

(* get_fs_candidates: the files whose contents parse as model m.  When     *)
(* several do, the last one listed wins and the order is the directory's.  *)

Holding(m) == {p \in Paths : files[p] \in File /\ files[p].id = m}
FsCandidates(m) ==
    IF Holding(m) = {} THEN {Nothing}
    ELSE {[path |-> p, c |-> files[p].c] : p \in Holding(m)}

\* Mutants of OpsFor: a changed file is only noticed when the row changed too;
\* a conflict goes to the older side.
OpsForUnwatched(m, d, st, f) ==
    IF Modified(m, d, st) THEN {Op("FsUpdate", m, d, st.path, st.sid)}
    ELSE IF Added(m, d, st) THEN {Op("FsCreate", m, d, Home[m], Nothing)} ELSE {}
OpsForOlderWins(m, d, st, f) ==
    IF Modified(m, d, st) /\ f # Nothing /\ f.c # st.sum /\ f.c.upd < d.upd
    THEN {Op("DbUpdate", m, f.c, f.path, st.sid)} ELSE OpsForUnwatched(m, d, st, f)

(* compute_sync_ops, one row of the outer join: f is the file candidate.   *)
OpsFor(m, d, st, f) ==
    CASE NoCandidate(m, d, st) /\ f # Nothing ->
            {Op("DbCreate", m, f.c, f.path, Nothing)}
      [] Added(m, d, st) -> {Op("FsCreate", m, d, Home[m], Nothing)}
      [] Deleted(m, d, st) /\ f = Nothing ->
            {Op("FsForget", m, Nothing, st.path, st.sid)}
      [] Deleted(m, d, st) /\ f # Nothing ->
            {Op("FsDelete", m, Nothing, st.path, st.sid)}
      [] Unmodified(m, d, st) /\ f = Nothing ->
            {Op("DbDelete", m, Nothing, st.path, st.sid)}
      [] /\ f # Nothing /\ f.c # st.sum
         /\ \/ Unmodified(m, d, st)
            \/ Modified(m, d, st) /\ d.upd < f.c.upd ->
            {Op("DbUpdate", m, f.c, f.path, st.sid)}
      [] /\ Modified(m, d, st)
         /\ f = Nothing \/ f.c = st.sum \/ ~(d.upd < f.c.upd) ->
            {Op("FsUpdate", m, d, st.path, st.sid)}
      [] OTHER -> {}

-----------------------------------------------------------------------------
(* A three-way merge that looks at timestamps only when both sides have    *)
(* changed: the reference the operations are measured against.  The base   *)
(* is what the last completed sync recorded.  A row that an interrupted    *)
(* session left behind, neither the base nor an edit, may win or lose.  No *)
(* outcome is promised (Nothing) for a private environment whose file came *)
(* back, nor for a file that does not parse.                               *)

MergeOf(m, d, st, f) ==
    LET both(x) == {<<x, x>>}
        dbChanged == m \in edited
        fsChanged == f # st.sum
        leftover == ~dbChanged /\ d # st.sum
    IN CASE Private(m, d) ->
               IF st # Nothing \/ f = Nothing THEN {<<d, Nothing>>} ELSE Nothing
         [] d = Nothing -> both(IF st = Nothing THEN f ELSE Nothing)
         [] Shared(m, d) /\ st = Nothing -> both(d)
         [] Shared(m, d) /\ st # Nothing /\ files[st.path] = Garbage -> Nothing
         [] OTHER ->
               CASE leftover -> both(d) \union both(f)
                 [] ~leftover /\ ~fsChanged -> both(d)
                 [] ~leftover /\ fsChanged /\ ~dbChanged -> both(f)
                 [] dbChanged /\ fsChanged ->
                       both(IF f # Nothing /\ d.upd < f.upd THEN f ELSE d)

OnDisk(m) == {files[p].c : p \in Holding(m)}
FileOf(m) == IF OnDisk(m) = {} THEN Nothing ELSE CHOOSE c \in OnDisk(m) : TRUE

-----------------------------------------------------------------------------
Busy(s) == pc[s] # "idle"

\* What session s changes disturbs the other sessions, and what anyone else
\* changes disturbs all of them.
DisturbOthers(s, ms) ==
    disturbed' = IF \E t \in Sessions \ {s} : Busy(t)
                 THEN disturbed \union ms ELSE disturbed
DisturbAll(ms) ==
    disturbed' = IF \E t \in Sessions : Busy(t)
                 THEN disturbed \union ms ELSE disturbed

NoGoal == [m \in Models |-> Nothing]

Reset(s) ==
    /\ pc' = [pc EXCEPT ![s] = "idle"]
    /\ cand' = [cand EXCEPT ![s] = Nothing]
    /\ ops' = [ops EXCEPT ![s] = {}]
    /\ cur' = [cur EXCEPT ![s] = Nothing]
    /\ sops' = [sops EXCEPT ![s] = {}]
    /\ goal' = [goal EXCEPT ![s] = NoGoal]

Init ==
    /\ clock = 1
    /\ db \in [Models -> {Nothing, [val |-> 1, upd |-> 1, pub |-> TRUE]}]
    /\ db[Root] # Nothing
    /\ states = [m \in Models |-> Nothing]
    /\ files = [p \in Paths |-> Nothing]
    /\ pc = [s \in Sessions |-> "idle"]
    /\ cand = [s \in Sessions |-> Nothing]
    /\ ops = [s \in Sessions |-> {}]
    /\ cur = [s \in Sessions |-> Nothing]
    /\ sops = [s \in Sessions |-> {}]
    /\ edited = {m \in Models : db[m] # Nothing}
    /\ disturbed = {}
    /\ goal = [s \in Sessions |-> NoGoal]

-----------------------------------------------------------------------------
(* calculate: the database is read before the directory.                   *)

ScanDb(s) ==
    /\ pc[s] = "idle"
    /\ db[Root] # Nothing
    /\ pc' = [pc EXCEPT ![s] = "scanned"]
    /\ cand' = [cand EXCEPT ![s] = [m \in Models |-> <<db[m], states[m]>>]]
    /\ UNCHANGED <<clock, db, states, files, ops, cur, sops, edited,
                   disturbed, goal>>

ScanFs(s) ==
    /\ pc[s] = "scanned"
    /\ \E f \in [Models -> UNION {FsCandidates(m) : m \in Models}] :
        /\ \A m \in Models : f[m] \in FsCandidates(m)
        /\ ops' = [ops EXCEPT ![s] =
                UNION {OpsFor(m, cand[s][m][1], cand[s][m][2], f[m]) : m \in Models}]
    /\ pc' = [pc EXCEPT ![s] = IF ops'[s] = {} THEN "flushing" ELSE "ready"]
    /\ goal' = [goal EXCEPT ![s] =
            [m \in Models |-> MergeOf(m, db[m], states[m], FileOf(m))]]
    /\ cand' = [cand EXCEPT ![s] = Nothing]
    /\ UNCHANGED <<clock, db, states, files, cur, sops, edited, disturbed>>

\* The user rejects the dialog, shown when an operation changes the database.
Decline(s) ==
    /\ pc[s] = "ready" /\ clock < MaxClock
    /\ \E op \in ops[s] : op.type \in DbUpserts \union {"DbDelete"}
    /\ clock' = clock + 1
    /\ Reset(s)
    /\ UNCHANGED <<db, states, files, edited, disturbed>>

-----------------------------------------------------------------------------
(* apply_sync_ops, in the order of the operations' hash set.               *)

Applying(s) == pc[s] \in {"ready", "applying"}

\* The operation leaves the list, and its SyncState change joins the other.
Finished(s, op) ==
    /\ ops' = [ops EXCEPT ![s] = @ \ {op}]
    /\ sops' = [sops EXCEPT ![s] = @ \union {StateOp(op)}]
    /\ pc' = [pc EXCEPT ![s] = "applying"]

\* File::create truncates the file before its contents are written.
OpenFile(s) ==
    \E op \in ops[s] :
        /\ Applying(s) /\ op.type \in FsWrites
        /\ files' = [files EXCEPT ![op.path] = Garbage]
        /\ cur' = [cur EXCEPT ![s] = op]
        /\ pc' = [pc EXCEPT ![s] = "writing"]
        /\ disturbed' = disturbed \union
              {m \in Models : \/ m = op.id /\ Holding(m) \ {op.path} # {}
                              \/ m # op.id /\ op.path \in Holding(m)
                              \/ m = op.id /\ \E t \in Sessions \ {s} : Busy(t)}
        /\ UNCHANGED <<clock, db, states, cand, ops, sops, edited, goal>>

\* Meanwhile the file may have been removed (the write goes to an unlinked
\* file) or written by another session (either version, or a mixture).
WriteFile(s) ==
    /\ pc[s] = "writing"
    /\ LET op == cur[s]
           now == files[op.path]
           new == [id |-> op.id, c |-> op.c]
       IN /\ \E out \in IF now = Garbage THEN {new}
                         ELSE IF now = Nothing THEN {Nothing}
                         ELSE {now, new, Garbage} :
                files' = [files EXCEPT ![op.path] = out]
          /\ Finished(s, op)
          /\ DisturbOthers(s, {op.id})
    /\ cur' = [cur EXCEPT ![s] = Nothing]
    /\ UNCHANGED <<clock, db, states, cand, edited, goal>>

\* remove_file is given the path of the sync state and fails without a file.
RemoveFile(s) ==
    \E op \in ops[s] :
        /\ Applying(s) /\ op.type = "FsDelete"
        /\ files[op.path] # Nothing
        /\ files' = [files EXCEPT ![op.path] = Nothing]
        /\ Finished(s, op)
        /\ DisturbOthers(s, {m \in Models : m = op.id \/ op.path \in Holding(m)})
        /\ UNCHANGED <<clock, db, states, cand, cur, edited, goal>>

RemoveFileFails(s) ==
    /\ \E op \in ops[s] : /\ Applying(s) /\ op.type = "FsDelete"
                           /\ files[op.path] = Nothing
    /\ Reset(s)
    /\ UNCHANGED <<clock, db, states, files, edited, disturbed>>

ForgetFile(s) ==
    \E op \in ops[s] :
        /\ Applying(s) /\ op.type = "FsForget"
        /\ Finished(s, op)
        /\ UNCHANGED <<clock, db, states, files, cand, cur, edited, disturbed, goal>>

\* Deleting a row deletes what is inside it; with the workspace, SQLite's
\* foreign key removes its sync states too.
DropRows(ms) ==
    /\ db' = [m \in Models |-> IF m \in ms THEN Nothing ELSE db[m]]
    /\ states' = IF Root \in ms THEN [m \in Models |-> Nothing] ELSE states
    /\ edited' = edited \ ms

DeleteRow(s) ==
    \E op \in ops[s] :
        /\ Applying(s) /\ op.type = "DbDelete"
        /\ DropRows(Inside[op.id])
        /\ Finished(s, op)
        /\ disturbed' = disturbed \union (Inside[op.id] \ {op.id}) \union
              {m \in {op.id} : \E t \in Sessions \ {s} : Busy(t)}
        /\ UNCHANGED <<clock, files, cand, cur, goal>>

(* Creations and updates of rows are only collected by the loop; they are  *)
(* upserted together at its end, where the foreign key asks for the        *)
(* workspace.                                                              *)
CommitUpserts(s) ==
    /\ Applying(s) /\ \A op \in ops[s] : op.type \in DbUpserts
    /\ ops[s] = {} \/ db[Root] # Nothing \/ \E op \in ops[s] : op.id = Root
    /\ db' = [m \in Models |->
                IF \E op \in ops[s] : op.id = m
                THEN (CHOOSE op \in ops[s] : op.id = m).c ELSE db[m]]
    /\ edited' = edited \ {op.id : op \in ops[s]}
    /\ sops' = [sops EXCEPT ![s] = @ \union {StateOp(op) : op \in ops[s]}]
    /\ ops' = [ops EXCEPT ![s] = {}]
    /\ pc' = [pc EXCEPT ![s] = "flushing"]
    /\ DisturbOthers(s, {op.id : op \in ops[s]})
    /\ UNCHANGED <<clock, states, files, cand, cur, goal>>

CommitFails(s) ==
    /\ Applying(s) /\ ops[s] # {} /\ \A op \in ops[s] : op.type \in DbUpserts
    /\ db[Root] = Nothing /\ \A op \in ops[s] : op.id # Root
    /\ Reset(s)
    /\ UNCHANGED <<clock, db, states, files, edited, disturbed>>

-----------------------------------------------------------------------------
(* apply_sync_state_ops.  sync_states is unique in the model and refers to *)
(* the workspace: the insertion of a second row for a model fails, and so  *)
(* does one without the workspace; either ends the session.                *)

FreeIds(m) == StateIds \ (
    {st.sid : st \in {states[m]} \ {Nothing}}
    \union {op.sid : op \in {o \in UNION {ops[s] \union sops[s] : s \in Sessions} : o.id = m}}
    \union {cand[s][m][2].sid :
              s \in {t \in Sessions : cand[t] # Nothing /\ cand[t][m][2] # Nothing}})

\* Ids are generated; they are compared between rows of one model only.
FreshIds(m) == {i \in FreeIds(m) : \A j \in FreeIds(m) : i =< j}

\* Mutant: the row is stamped later than the write it records.
FlushedLate(i, so) == [sid |-> i, sum |-> so.sum, path |-> so.path, flushed |-> clock + 1]
Flushed(i, so) == [sid |-> i, sum |-> so.sum, path |-> so.path, flushed |-> clock]

\* Mutants: the row of a deleted model stays; an update does not touch the row.
RowAfterKeeping(so) ==
    IF states[so.id] = Nothing THEN {Flushed(i, so) : i \in FreshIds(so.id)}
    ELSE IF so.type = "Update" THEN {Flushed(so.sid, so)} ELSE {states[so.id]}
RowAfterStale(so) ==
    IF states[so.id] = Nothing THEN {Flushed(i, so) : i \in FreshIds(so.id)}
    ELSE IF so.type = "Delete" THEN {Nothing} ELSE {states[so.id]}

\* The row that so leaves for its model: a set, empty when SQLite refuses it.
RowAfter(so) ==
    LET st == states[so.id] IN
    CASE so.type = "Create" ->
            IF st # Nothing \/ db[Root] = Nothing THEN {}
            ELSE {Flushed(i, so) : i \in FreshIds(so.id)}
      [] so.type = "Update" ->
            IF (st # Nothing /\ st.sid # so.sid) \/ (st = Nothing /\ db[Root] = Nothing)
            THEN {} ELSE {Flushed(so.sid, so)}
      [] so.type = "Delete" ->
            IF st # Nothing /\ st.sid = so.sid THEN {Nothing} ELSE {st}

FlushState(s) ==
    \E so \in sops[s] :
        /\ pc[s] = "flushing"
        /\ \E row \in RowAfter(so) : states' = [states EXCEPT ![so.id] = row]
        /\ sops' = [sops EXCEPT ![s] = @ \ {so}]
        /\ edited' = IF so.sum = db[so.id] THEN edited \ {so.id} ELSE edited
        /\ DisturbOthers(s, {so.id})
        /\ UNCHANGED <<clock, db, files, pc, cand, ops, cur, goal>>

FlushFails(s) ==
    /\ pc[s] = "flushing" /\ \E so \in sops[s] : RowAfter(so) = {}
    /\ Reset(s)
    /\ UNCHANGED <<clock, db, states, files, edited, disturbed>>

Finish(s) ==
    /\ pc[s] = "flushing" /\ sops[s] = {}
    /\ Reset(s)
    /\ UNCHANGED <<clock, db, states, files, edited, disturbed>>

-----------------------------------------------------------------------------
(* What may go wrong in the process: a file operation fails, which ends    *)
(* the session where it stands, or the application stops.                  *)

IoError(s) ==
    /\ clock < MaxClock
    /\ \/ pc[s] = "writing"
       \/ Applying(s) /\ \E op \in ops[s] : op.type \in FsWrites \union {"FsDelete"}
    /\ clock' = clock + 1
    /\ Reset(s)
    /\ UNCHANGED <<db, states, files, edited, disturbed>>

Crash ==
    /\ clock < MaxClock /\ \E s \in Sessions : Busy(s)
    /\ clock' = clock + 1
    /\ pc' = [s \in Sessions |-> "idle"]
    /\ cand' = [s \in Sessions |-> Nothing]
    /\ ops' = [s \in Sessions |-> {}]
    /\ cur' = [s \in Sessions |-> Nothing]
    /\ sops' = [s \in Sessions |-> {}]
    /\ goal' = [s \in Sessions |-> NoGoal]
    /\ UNCHANGED <<db, states, files, edited, disturbed>>

(* The user, through the upsert and delete commands: updated_at is set to  *)
(* the time of the change.                                                 *)

Visibility(m) == IF m \in Envs THEN BOOLEAN ELSE {TRUE}

\* Mutant: an edit keeps the old updated_at.
SaveUndated(m) ==
    /\ clock < MaxClock
    /\ clock' = clock + 1
    /\ \E b \in Visibility(m) :
        db' = [db EXCEPT ![m] = [val |-> clock', pub |-> b,
            upd |-> IF db[m] = Nothing THEN clock' ELSE db[m].upd]]
    /\ edited' = edited \union {m}
    /\ DisturbAll({m})
    /\ UNCHANGED <<states, files, pc, cand, ops, cur, sops, goal>>
Save(m) ==
    /\ clock < MaxClock
    /\ clock' = clock + 1
    /\ \E b \in Visibility(m) :
        db' = [db EXCEPT ![m] = [val |-> clock', upd |-> clock', pub |-> b]]
    /\ edited' = edited \union {m}
    /\ DisturbAll({m})
    /\ UNCHANGED <<states, files, pc, cand, ops, cur, sops, goal>>

EditModel(m) == db[m] # Nothing /\ Save(m)

\* A created model gets a new id: nothing in the system knows it yet.
CreateModel(m) ==
    /\ db[m] = Nothing /\ states[m] = Nothing /\ Holding(m) = {}
    /\ db[Root] # Nothing
    /\ \A s \in Sessions : \A op \in ops[s] \union sops[s] : op.id # m
    /\ Save(m)

DeleteModel(m) ==
    /\ clock < MaxClock /\ db[m] # Nothing
    /\ clock' = clock + 1
    /\ DropRows(Inside[m])
    /\ DisturbAll(Inside[m])
    /\ UNCHANGED <<files, pc, cand, ops, cur, sops, goal>>

(* Other programs in the directory: an editor, git, another instance.      *)

\* The models whose file is, or should be, at p.
Owners(p) == {m \in Models : \/ p \in Holding(m) \/ p = Home[m]
                             \/ states[m] # Nothing /\ states[m].path = p}
Strays(m, ps) == {n \in {m} : ~(ps \subseteq {Home[m]})}

\* The new contents may carry a new timestamp, the old one or an ancient one.
WriteOutside(p, m) ==
    /\ clock < MaxClock
    /\ clock' = clock + 1
    /\ \E u \in {1, clock'} \union {files[q].c.upd : q \in Holding(m)},
          b \in Visibility(m) :
        files' = [files EXCEPT ![p] =
            [id |-> m, c |-> [val |-> clock', upd |-> u, pub |-> b]]]
    /\ disturbed' = disturbed \union Strays(m, Holding(m) \union {p}) \union
          {n \in Owners(p) \union {m} : \E s \in Sessions : Busy(s)} \union (Owners(p) \ {m})
    /\ UNCHANGED <<db, states, edited>> /\ UNCHANGED sessVars

RemoveOutside(p) ==
    /\ clock < MaxClock /\ files[p] # Nothing
    /\ clock' = clock + 1
    /\ files' = [files EXCEPT ![p] = Nothing]
    /\ DisturbAll(Owners(p))
    /\ UNCHANGED <<db, states, edited>> /\ UNCHANGED sessVars

\* A merge conflict, say, leaves a file that does not parse.
CorruptOutside(p) ==
    /\ clock < MaxClock /\ files[p] \in File
    /\ clock' = clock + 1
    /\ files' = [files EXCEPT ![p] = Garbage]
    /\ DisturbAll(Owners(p))
    /\ UNCHANGED <<db, states, edited>> /\ UNCHANGED sessVars

RenameOutside(p, q) ==
    /\ clock < MaxClock /\ files[p] \in File /\ files[q] = Nothing
    /\ q \notin {Home[m] : m \in Models}
    /\ clock' = clock + 1
    /\ files' = [files EXCEPT ![p] = Nothing, ![q] = files[p]]
    /\ disturbed' = disturbed \union Owners(p)
    /\ UNCHANGED <<db, states, edited>> /\ UNCHANGED sessVars

-----------------------------------------------------------------------------
Calculate(s) == ScanDb(s) \/ ScanFs(s)

ApplyOp(s) ==
    \/ OpenFile(s) \/ WriteFile(s) \/ RemoveFile(s) \/ RemoveFileFails(s)
    \/ ForgetFile(s) \/ DeleteRow(s) \/ CommitUpserts(s) \/ CommitFails(s)

ApplyStates(s) == FlushState(s) \/ FlushFails(s) \/ Finish(s)

SyncStep == \E s \in Sessions : Calculate(s) \/ ApplyOp(s) \/ ApplyStates(s)

Mishap == Crash \/ \E s \in Sessions : Decline(s) \/ IoError(s)

User == \E m \in Models : EditModel(m) \/ CreateModel(m) \/ DeleteModel(m)

Outside ==
    \/ \E p \in Paths, m \in Models :
          p \notin {Home[n] : n \in Models \ {m}} /\ WriteOutside(p, m)
    \/ \E p \in Paths : RemoveOutside(p) \/ CorruptOutside(p)
    \/ \E p, q \in Paths : RenameOutside(p, q)

Next == SyncStep \/ Mishap \/ User \/ Outside

Spec == Init /\ [][Next]_vars

-----------------------------------------------------------------------------
StoreTypeOK ==
    /\ clock \in Time
    /\ db \in [Models -> Content \union {Nothing}]
    /\ states \in [Models -> SyncState \union {Nothing}]
    /\ files \in [Paths -> File \union {Garbage, Nothing}]
    /\ edited \subseteq Models
    /\ disturbed \subseteq Models

SessionTypeOK ==
    /\ pc \in [Sessions -> {"idle", "scanned", "ready", "applying", "writing", "flushing"}]
    /\ cand \in [Sessions -> {Nothing} \union
          [Models -> (Content \union {Nothing}) \X (SyncState \union {Nothing})]]
    /\ ops \in [Sessions -> SUBSET SyncOp]
    /\ cur \in [Sessions -> SyncOp \union {Nothing}]
    /\ sops \in [Sessions -> SUBSET SyncStateOp]
    /\ goal \in [Sessions -> [Models -> {Nothing} \union
          SUBSET ((Content \union {Nothing}) \X (Content \union {Nothing}))]]

TypeOK == StoreTypeOK /\ SessionTypeOK

(* Sync never puts the contents of a private environment in the directory, *)
(* however stale its operations are (get_db_candidates, sync.rs:129-135).  *)
PrivateNeverWritten ==
    [][SyncStep => \A p \in Paths : files'[p] # files[p] =>
         ~(files'[p] \in File /\ Private(files'[p].id, files'[p].c))]_vars

(* An edit made in the application is seen by the next calculate as an     *)
(* addition or a modification until it has reached the directory.          *)
EditDetected(m) ==
    Shared(m, db[m]) => \/ Added(m, db[m], states[m])
                        \/ Modified(m, db[m], states[m])
EditsDetected == \A m \in edited \ disturbed : EditDetected(m)

(* When calculate finds nothing to do for a model, its row and its file    *)
(* are the same, also halfway through a session and after a crash.         *)
NothingToDo(m) ==
    \A f \in FsCandidates(m) : OpsFor(m, db[m], states[m], f) = {}
InSyncMeansEqual ==
    \A m \in Models \ disturbed :
        Shared(m, db[m]) /\ NothingToDo(m) => FileOf(m) = db[m]

(* A session that completes leaves row and file of every model nobody      *)
(* else touched as the three-way merge of what it started from wants them, *)
(* whatever was crashed, declined or failed before.                        *)
Completed(s) == pc[s] = "flushing" /\ sops[s] = {}
MergesAsPromised ==
    \A s \in Sessions : Completed(s) =>
        \A m \in Models \ disturbed :
            goal[s][m] # Nothing => <<db[m], FileOf(m)>> \in goal[s][m]

(* ... and leaves nothing to do for the next one, except to take a private *)
(* environment's file, just imported, out of the directory.                *)
OnePassSuffices ==
    \A s \in Sessions : Completed(s) =>
        \A m \in Models \ disturbed :
            goal[s][m] # Nothing /\ ~Private(m, db[m]) => NothingToDo(m)

-----------------------------------------------------------------------------
(* Why these hold, conjunct by conjunct: the shape of operations, that a   *)
(* session has one operation per model, and that what it carries of an     *)
(* undisturbed model is still the row.                                     *)

WellFormedOp(op) ==
    /\ op.type \in FsWrites \union DbUpserts => op.c \in Content
    /\ op.type \in {"FsUpdate", "DbUpdate"} => op.sid \in StateIds

WellFormedStateOp(so) ==
    /\ so.type # "Delete" => so.sum \in Content
    /\ so.type = "Update" => so.sid \in StateIds

Shape ==
    \A s \in Sessions :
        /\ pc[s] \in {"idle", "scanned"} => ops[s] = {} /\ sops[s] = {}
        /\ pc[s] = "scanned" => cand[s] # Nothing
        /\ pc[s] = "writing" => cur[s] \in ops[s] /\ cur[s].type \in FsWrites
        /\ \A op \in ops[s] : WellFormedOp(op)
        /\ \A so \in sops[s] : WellFormedStateOp(so)

OneOpPerModel ==
    \A s \in Sessions :
        /\ \A o1, o2 \in ops[s] : o1.id = o2.id => o1 = o2
        /\ \A op \in ops[s], so \in sops[s] : op.id # so.id

FlushedPast == \A m \in Models : states[m] # Nothing => states[m].flushed =< clock

Carries(s) ==
    /\ pc[s] = "scanned" => \A m \in Models \ disturbed : cand[s][m][1] = db[m]
    /\ \A op \in ops[s] :
          op.type \in FsWrites /\ op.id \notin disturbed => op.c = db[op.id]
    /\ \A so \in sops[s] :
          so.type # "Delete" /\ so.id \notin disturbed => so.sum = db[so.id]
CarriesRows == \A s \in Sessions : Carries(s)

\* The inductive invariant behind EditsDetected.
EditsInv == TypeOK /\ Shape /\ OneOpPerModel /\ FlushedPast /\ CarriesRows /\ EditsDetected

\* The one behind PrivateNeverWritten: no operation holds what it may not write.
CarriesNothingPrivate ==
    \A s \in Sessions : \A op \in ops[s] :
        op.type \in FsWrites => ~Private(op.id, op.c)

-----------------------------------------------------------------------------
(* What the comments of sync.rs say and the code does not keep.            *)

(* "DB unchanged <-> FS exists" (sync.rs:262): a row that calculate takes  *)
(* for unchanged was not edited since the last sync.  An edit made between *)
(* calculate and apply is older than the flushed_at that apply writes.     *)
UnchangedMeansUnedited == \A m \in edited : EditDetected(m)

(* "DB unchanged <-> FS missing" (sync.rs:238): when nobody touches        *)
(* the directory: sync alone never deletes a row.  With two windows, one   *)
(* reads the file that the other has just truncated.                       *)
SyncAloneDeletesNothing ==
    [][\A m \in Models : db[m] # Nothing => db'[m] # Nothing]_vars

(* "No sync state yet, so ignore the model" (sync.rs:153): sync leaves the *)
(* row of a private environment alone.  The ignored model is absent from   *)
(* the join, so a file with its id is created over it.                     *)
PrivateLeftAlone ==
    [][SyncStep => \A m \in Models :
         Private(m, db[m]) /\ states[m] = Nothing => db'[m] = db[m]]_vars

(* "Always write the existing path" (sync.rs:399): an update goes to the   *)
(* file that holds the model.  The sync state's path is not refreshed when *)
(* a file is renamed without changing its contents.                        *)
UpdatesExistingPath ==
    [][\A s \in Sessions : ScanFs(s) =>
         \A op \in ops'[s] : op.type = "FsUpdate" /\ Holding(op.id) # {} =>
                                op.path \in Holding(op.id)]_vars

=============================================================================
