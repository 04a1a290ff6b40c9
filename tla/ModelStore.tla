----------------------------- MODULE ModelStore -----------------------------
(***************************************************************************)
(* The copy of the models that every window keeps                          *)
(* (yaak-models/guest-js/store.ts) and the path of a change from the       *)
(* database to it (yaak-models/src: db_context.rs, query_manager.rs,       *)
(* lib.rs, commands.rs).                                                   *)
(*                                                                         *)
(* A model is an id with a version: 0 is "no such row", every write takes  *)
(* the next number.  An upsert outside a transaction writes the row and    *)
(* then sends the event, with other writers in between; a transaction      *)
(* sends its event before it commits, and may roll back.  One forwarder    *)
(* hands the events to all windows in one order.  A window that changes    *)
(* its workspace loads the models of the new one while events go on        *)
(* arriving, and several loads may be under way.                           *)
(***************************************************************************)
EXTENDS Naturals, Sequences, FiniteSets

CONSTANTS
    Windows,        \* the windows of the application
    Ids,            \* the ids of the models
    Workspaces,     \* the workspaces
    Global,         \* the home of a model that belongs to no workspace
    HomeOf,         \* the workspace of each model, or Global
    Private,        \* the key values of the namespace no_sync
    Background,     \* every source that is not a window
    MaxVersion,     \* bound: the number of writes
    MaxLoads        \* bound: the loads of each window that are under way at once

ASSUME Homes == /\ HomeOf \in [Ids -> Workspaces \cup {Global}]
                /\ Global \notin Workspaces
ASSUME PrivateKeyValues == Private \subseteq {i \in Ids : HomeOf[i] = Global}
ASSUME WindowsAndBackground == Background \notin Windows
ASSUME Bounds == MaxVersion \in Nat /\ MaxLoads \in [Windows -> Nat]

VARIABLES
    rows,       \* rows[i]: the version the database holds of i, or 0
    last,       \* the last version given out
    unsent,     \* the changes written outside a transaction and not yet sent
    tx,         \* the open transaction's change, as a set of at most one
    inbox,      \* inbox[w]: the events on their way to the window
    store,      \* store[w][i]: the version the window holds of i, or 0
    active,     \* active[w]: _activeWorkspaceId
    loads,      \* loads[w]: the loads of the window that are under way
    raced,      \* history: ids whose last event is not their last write
    missed      \* history: missed[w], ids whose news a load has overwritten

db == <<rows, last, unsent, tx>>
window == <<store, active, loads, missed>>
vars == <<db, inbox, window, raced>>

Versions == 0..MaxVersion
Sources == Windows \cup {Background}
Change(i, v, s) == [id |-> i, version |-> v, source |-> s]
Changes == [id : Ids, version : Versions, source : Sources]
Asked == <<>>     \* a load that workspace_models has not answered yet
Loads == [n : Nat \ {0}, workspace : Workspaces \cup {Global},
          snapshot : {Asked} \cup [Ids -> Versions], late : SUBSET Ids]

TypeOK ==
    /\ rows \in [Ids -> Versions] /\ last \in Versions
    /\ unsent \subseteq Changes
    /\ tx \subseteq Changes /\ Cardinality(tx) <= 1
    /\ inbox \in [Windows -> Seq(Changes)]
    /\ store \in [Windows -> [Ids -> Versions]]
    /\ active \in [Windows -> Workspaces \cup {Global}]
    /\ loads \in [Windows -> SUBSET Loads]
    /\ \A w \in Windows : \A l \in loads[w] : l.n <= MaxLoads[w]
    /\ raced \subseteq Ids /\ missed \in [Windows -> SUBSET Ids]

-----------------------------------------------------------------------------
(* What the windows are shown. *)

\* the models workspace_models lists for a workspace, or for none
Listed(workspace) == {i \in Ids : HomeOf[i] \in {Global, workspace}}

Snapshot(workspace) ==
    [i \in Ids |-> IF i \in Listed(workspace) THEN rows[i] ELSE 0]

\* Mutant: every change of another window is ignored.
IgnoredFromOthers(w, c) == c.source \in Windows \ {w}

\* Mutant: the models of other workspaces are not ignored.
IgnoredIfPrivate(w, c) == c.source \in Windows \ {w} /\ c.id \in Private

\* shouldIgnoreModel; c: the change, w: the window it has reached
Ignored(w, c) ==
    /\ c.source \in Windows \ {w}
    /\ c.id \notin Listed(active[w]) \/ c.id \in Private

\* an event about i is in the window's queue
Coming(w, i) == \E k \in 1..Len(inbox[w]) : inbox[w][k].id = i

Sent(c) == inbox' = [w \in Windows |-> Append(inbox[w], c)]

\* Mutant: a transaction takes the lock only with its first write.
Deferred == \A c \in tx : c.version # 0

\* SQLite lets one writer in, and with_tx takes the lock when it begins
\* (TransactionBehavior::Immediate)
Unlocked == tx = {}

\* The rows a source can write: a window writes a model that it holds (or one
\* with a new id), the background whatever it has read.
CanWrite(s, i) == s \in Windows => store[s][i] # 0 \/ rows[i] = 0

-----------------------------------------------------------------------------
(* Changes of the database. *)

\* history: the last event about i will be about its last write, unless
\* another write of i has not been sent
Racing(i) == IF \E c \in unsent : c.id = i THEN raced \cup {i} ELSE raced \ {i}

\* upsert_one outside a transaction: the row ...
Upsert(s, i) ==
    /\ CanWrite(s, i) /\ Unlocked /\ last < MaxVersion
    /\ last' = last + 1
    /\ rows' = [rows EXCEPT ![i] = last + 1]
    /\ unsent' = unsent \cup {Change(i, last + 1, s)}
    /\ raced' = Racing(i)
    /\ UNCHANGED <<tx, inbox, window>>

\* ... and then the event
Send(c) ==
    /\ c \in unsent
    /\ unsent' = unsent \ {c}
    /\ Sent(c)
    /\ UNCHANGED <<rows, last, tx, window, raced>>

\* delete or duplicate: the event leaves before the transaction commits
Transact(s, i, v) ==
    /\ Unlocked /\ last < MaxVersion
    /\ last' = last + 1
    /\ \/ v = 0 /\ rows[i] # 0 /\ CanWrite(s, i)
       \/ v = last' /\ rows[i] = 0
    /\ tx' = tx \cup {Change(i, v, s)}
    /\ Sent(Change(i, v, s))
    /\ raced' = Racing(i)
    /\ UNCHANGED <<rows, unsent, window>>

Commit(c) ==
    /\ c \in tx
    /\ tx' = tx \ {c}
    /\ rows' = [rows EXCEPT ![c.id] = c.version]
    /\ UNCHANGED <<last, unsent, inbox, window, raced>>

\* a statement after the first, or the commit, has failed: nothing takes the
\* events back
Rollback(c) ==
    /\ c \in tx
    /\ tx' = tx \ {c}
    /\ raced' = raced \cup {c.id}
    /\ UNCHANGED <<rows, last, unsent, inbox, window>>

-----------------------------------------------------------------------------
(* A window. *)

\* the listeners for upserted_model and deleted_model
Deliver(w) ==
    /\ inbox[w] # <<>>
    /\ LET c == Head(inbox[w])
           taken == {l \in loads[w] : l.snapshot # Asked}
           Late(l) == [l EXCEPT !.late = IF l.snapshot[c.id] = c.version
                                         THEN @ \ {c.id} ELSE @ \cup {c.id}]
       IN  /\ store' = IF Ignored(w, c) THEN store
                       ELSE [store EXCEPT ![w][c.id] = c.version]
           /\ missed' = IF Ignored(w, c) THEN missed
                        ELSE [missed EXCEPT ![w] = @ \ {c.id}]
           /\ loads' = [loads EXCEPT ![w] = (@ \ taken) \cup {Late(l) : l \in taken}]
    /\ inbox' = [inbox EXCEPT ![w] = Tail(@)]
    /\ UNCHANGED <<db, active, raced>>

\* changeModelStoreWorkspace, up to its await
ChangeWorkspace(w, workspace) ==
    \E n \in 1..MaxLoads[w] :
        /\ \A l \in loads[w] : l.n # n
        /\ n # 1 => \E l \in loads[w] : l.n = n - 1
        /\ loads' = [loads EXCEPT ![w] = @ \cup
              {[n |-> n, workspace |-> workspace, snapshot |-> Asked, late |-> {}]}]
        /\ UNCHANGED <<db, inbox, store, active, raced, missed>>

\* workspace_models: the answer to a load, which does not have what the window
\* has heard of a transaction before it commits
ListModels(w, l) ==
    /\ l \in loads[w] /\ l.snapshot = Asked
    /\ loads' = [loads EXCEPT ![w] = (@ \ {l}) \cup
          {[l EXCEPT !.snapshot = Snapshot(l.workspace),
                     !.late = {c.id : c \in {d \in tx : ~Coming(w, d.id)}}]}]
    /\ UNCHANGED <<db, inbox, store, active, raced, missed>>

\* changeModelStoreWorkspace after its await: the answers of two loads come in
\* any order
Install(w, l) ==
    /\ l \in loads[w] /\ l.snapshot # Asked
    /\ store' = [store EXCEPT ![w] = l.snapshot]
    /\ active' = [active EXCEPT ![w] = l.workspace]
    /\ missed' = [missed EXCEPT ![w] = l.late]
    /\ loads' = [loads EXCEPT ![w] = @ \ {l}]
    /\ UNCHANGED <<db, inbox, raced>>

\* main.tsx: the window has loaded the global models
Init ==
    /\ rows = [i \in Ids |-> 0] /\ last = 0
    /\ unsent = {} /\ tx = {}
    /\ inbox = [w \in Windows |-> <<>>]
    /\ store = [w \in Windows |-> [i \in Ids |-> 0]]
    /\ active = [w \in Windows |-> Global]
    /\ loads = [w \in Windows |-> {}]
    /\ raced = {} /\ missed = [w \in Windows |-> {}]

Next ==
    \/ \E s \in Sources, i \in Ids : Upsert(s, i)
    \/ \E s \in Sources, i \in Ids : \E v \in {0, last + 1} : Transact(s, i, v)
    \/ \E c \in unsent : Send(c)
    \/ \E c \in tx : Commit(c) \/ Rollback(c)
    \/ \E w \in Windows :
         \/ Deliver(w)
         \/ \E workspace \in Workspaces : ChangeWorkspace(w, workspace)
         \/ \E l \in loads[w] : ListModels(w, l) \/ Install(w, l)

Spec == Init /\ [][Next]_vars

-----------------------------------------------------------------------------
(* Properties. *)

\* news of i that the window has not got
OnItsWay(w, i) == Coming(w, i) \/ \E c \in unsent \cup tx : c.id = i

\* A window shows every model of its workspace, and every global one, as the
\* database holds it, once no event about the model is on its way to it: so two
\* such windows agree, and an edit (patchModelById writes the window's whole
\* copy back) can only undo a change the window has not been told of.  The
\* exceptions are the ids whose events were sent in another order than their
\* writes or were rolled back, and those whose news came between the snapshot
\* of a load and its installation (or before a transaction committed that the
\* snapshot does not have yet).
ShowsTheRows ==
    \A w \in Windows : \A i \in Listed(active[w]) \ (raced \cup missed[w] \cup Private) :
        OnItsWay(w, i) \/ store[w][i] = rows[i]

\* What other windows do in other workspaces stays out of a window, through all
\* its changes of workspace: a model of a workspace that is not its own gets into
\* its store only by a change of its own or of the background.
NoForeignModels ==
    [][\A w \in Windows, i \in Ids :
         /\ store'[w][i] \notin {0, store[w][i]}
         /\ HomeOf[i] \notin {Global, active'[w]}
         => Head(inbox[w]).source \in {w, Background}]_vars

=============================================================================
