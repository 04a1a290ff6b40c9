# Yaak in TLA+

Specifications of Yaak, a desktop client for HTTP, WebSocket and gRPC APIs: a Rust
backend (`src-tauri`, one Tauri process), React windows (`src-web`), and plugins that run
in a Node.js process (`packages/plugin-runtime`, `plugins`). The modules model the parts
whose correctness depends on the order in which concurrent things happen: the five
components of the core one by one (directory sync, websocket connections, plugins, the
windows' copies of the models, OAuth tokens), and 29 parts of the window with what answers
them in the backend. TLC checks each on small instances; the safety properties of the core,
and most of those of fifteen parts of the window, are theorems for every value of the
constants, checked by TLAPS.

1. [The system](#the-system)
2. [Sync](#sync-a-workspace-and-its-directory),
   [Websocket](#websocket-connections-their-tasks-and-their-rows),
   [Plugins](#plugins-requests-across-two-processes),
   [ModelStore](#modelstore-the-copies-of-the-windows), [OAuth](#oauth-tokens-under-concurrent-calls):
   models, runs and proofs of the core
3. [The window](#the-window)
4. [What is proved and what is only checked](#what-is-proved-and-what-is-only-checked)
5. [Not modelled](#not-modelled), [Plan](#plan)

## The system

| Component | State it keeps | Operations | Talks to |
|---|---|---|---|
| Model database (`yaak-models`) | SQLite: workspaces, folders, environments, requests, responses, connections, events, sync states, key-values | upsert, delete (with cascades), duplicate, batch upsert, history pruning; transactions | sends a change event per write to a forwarder task, which emits it to every window |
| Window model store (`yaak-models/guest-js`) | per window: a copy of one workspace's models | take a snapshot, apply change events, patch | model database by commands and events |
| Directory sync (`yaak-sync`, `src-web/init/sync.ts`, `commands.tsx`) | the sync directory's YAML files, one SyncState row per synced model | calculate, confirm, apply | model database; file system watcher; git and editors through the directory |
| WebSocket connections (`yaak-ws`) | table of open sockets, connection and event rows | connect, send, close, forwarding task | model database, plugins (authentication, templates) |
| gRPC calls (`src/lib.rs`, `yaak-grpc`) | connection and event rows, a 16-slot channel per call, descriptor pools | go, message, commit, cancel | as above |
| HTTP sending (`src/http_request.rs`) | response row, body file, cookie jar | send, stream the body, cancel | as above |
| Plugin manager (`yaak-plugins`) | plugin handles, subscribers, one WebSocket to the Node.js process | boot, reload, remove, install, send and wait, reply | plugin runtime; application handlers in `plugin_events.rs` |
| Plugin runtime (`packages/plugin-runtime`) | plugin instances, pending replies | handle a request, call back the application | plugin manager |
| Encryption keys (`yaak-crypto`) | master key in the keychain, workspace keys encrypted in `workspace_meta`, a challenge in the workspace, two caches | ensure, set, reveal, encrypt, decrypt | model database |
| OAuth 2.0 plugin (`plugins/auth-oauth2`) | tokens in the plugin key-value store | get, refresh, fetch, authorize in a window | HTTP sending through the plugin context |
| Git (`yaak-git`) | none (the repository) | status, commit, branch, pull, push, merge | the sync directory |
| Templates (`yaak-templates`) | none | parse, render, format | plugins for functions |
| User interface (`src-web`) | per window: what is typed, dragged, highlighted, pinned; queries and their caches | editors, forms, menus, panes, dialogs, settings | everything above, by commands and events |
| Importers and exporters (`plugins/importer-*`, `action-copy-*`) | none | translate a file, a command or a request | plugin runtime |
| Other plugins, license, notifications, updates, windows | little or none | single requests | |

What is hard: nothing serialises the commands of several windows; commands run in
parallel on a thread pool and each database call is its own transaction unless it asks
for one; events, replies and snapshots arrive in any order relative to each other; the
directory is shared with other programs; and the process may stop between any two steps.
`PROJECT.json` lists these hazards one by one, at the line where each bites.

What makes each component correct:

* database and stores: a window's copy converges to the rows; no row outlives its parent;
  one base environment per workspace; the history keeps the newest entries;
* sync: no edit is lost, private environments stay private, completed sessions agree with
  a three-way merge, syncs settle;
* connections and responses: every row reaches Closed, nothing is recorded after that, a
  row that says Connected has a socket behind it;
* plugin events: a reply reaches the request that waits for it, once; every request is
  answered or fails; a removed plugin receives nothing;
* keys: what was encrypted with the workspace's key can be decrypted with it later;
* tokens: a valid token is never replaced by an older one or thrown away;
* window: what is shown is what is stored, of the thing it is shown for; what was typed
  gets there; an answer that comes late does not undo what was done since.

## Sync: a workspace and its directory

`Sync.tla` models `yaak-sync` and its sessions, `SyncWindows.tla` the window code that drives
them. A *session* is one run
of `syncWorkspace`: `calculate` reads the database (`ScanDb`, get_db_candidates), then
the directory, and computes operations (`ScanFs`, get_fs_candidates and
compute_sync_ops: `OpsFor` has a case per branch). The window asks for confirmation
(`Decline` is the refusal); `apply` then works through the operations in the arbitrary
order of a hash set: a file is truncated (`OpenFile`) and written (`WriteFile`), removed
(`RemoveFile`, or `RemoveFileFails` when it is gone), a row is deleted with what it contains
(`DeleteRow`); upserts are collected and committed in one transaction at the end
(`CommitUpserts`, `CommitFails`). One SyncState row per operation is written after that
(`FlushState`; `FlushFails` when the unique index or the foreign key refuses it), then
the session ends (`Finish`).

| Variable | Code |
|---|---|
| `db`, `states` | rows of the synced model tables and of `sync_states` |
| `files` | what the directory holds: a model file, `Garbage` (does not parse), `Nothing` |
| `pc`, `cand`, `ops`, `cur`, `sops` | per session: where it is, what `calculate` read, the `SyncOp`s left, the one whose file is open, the `SyncStateOp`s left |
| `clock` | the time; every change made from outside the sessions advances it |
| `edited`, `disturbed`, `goal` | history only: edits not on disk yet, models that were changed under a running session or have stray file names, and the merges a session may produce |

Around the sessions, users edit, create and delete models in the application, other
programs write, remove, rename and corrupt files, file operations fail (`IoError`) and
the application stops (`Crash`); each loses exactly what lives in memory.

`SyncWindows.tla` says when a session starts and what it waits for. Every change of a row or
a file is an event (`Told`) that makes the window's timer run (`due`), and so does opening
the window or coming to the workspace (`Open`, `Restart`). The timer fires, or a Git command
has ended, and a session starts (`Start`; `StartNone` without a workspace). When it has read
both sides (`Reads`) it asks if it would change rows, unless the Git command forces it; the
dialog stays until the person confirms it (`Confirm`) or does not (`Refuse`, also with
Escape), and meanwhile events start other sessions of the same window. A second dialog takes
the place of the first, whose session is never heard of again (`Forgotten`). `Applies` and
`WritesStates` are the steps of a session that may go on; `Errs` ends one. Nothing else
starts a session: not a refusal, not an error.

| Variable | Code |
|---|---|
| `window` | the window whose `syncWorkspace` runs the session |
| `due` | windows with a pending `debouncedSync` |
| `asking`, `agreed` | sessions at `await showConfirm`, and past it |
| `gaveUp` | history: windows whose latest session was refused or failed |

Abstractions: contents are a value number, `updated_at` and the public flag; a checksum is
the contents; the three candidate queries of one `calculate` are one step; a cascade is
one step; upsert normalisation and the directory recorded in `workspace_meta` are left
out. An edit never carries the same timestamp as a flush, although both have millisecond
resolution in the code.

### Properties

* `EditsDetected`: an in-app edit is reported by the next `calculate` until it is on disk.
* `InSyncMeansEqual`: when `calculate` finds nothing to do, row and file are equal, also
  halfway through a session and after a crash or failure.
* `MergesAsPromised`: a completed session leaves the result of a three-way merge
  (`MergeOf`), an independent definition in terms of what changed since the last sync,
  whatever was interrupted before. Timestamps count only when both sides changed.
* `OnePassSuffices`: and leaves nothing to do for the next one.
* `PrivateNeverWritten`: no step of a session writes a private environment's contents.
* `Settles`: once changes, failures and switches stop, the sessions come to an end: nothing
  is left to do, or the latest session asks, was refused or has failed. Two sides may not
  undo each other for ever, and no event may be missed that leaves work. It speaks of all
  models, disturbed or not.

`EditsDetected`, `InSyncMeansEqual`, `MergesAsPromised` and `OnePassSuffices` speak of models
outside `disturbed`. A model is disturbed when it changes
while a session that may hold stale operations for it is under way, or when its file does
not carry the name that the application gives it. For those the promises are false in the
code: see "What is false".

### Runs

| Run | Instance | Shows |
|---|---|---|
| `sync_all` | workspace, environment, a spare file name; 1 session at a time; `MaxClock` 4 | `TypeOK`, `EditsDetected`, `InSyncMeansEqual`, `MergesAsPromised`, `OnePassSuffices`, `PrivateNeverWritten` (3.9 million states) |
| `sync_settles` | workspace, a folder with a request in it; 1 window, 2 sessions; `MaxClock` 3 | `Settles` under `FairSpec`, and `WindowsTypeOK` (780,000 states) |
| `sync_late_edit` | violation of `UnchangedMeansUnedited` | an edit between calculate and apply is older than `flushed_at` and never reaches the directory |

`MaxClock` bounds the changes from outside, refusals, switches, failures and crashes:
`MaxClock - 1` of them in a behaviour. Three are enough for the longest scenario of the code's comments (shared,
edited, synced, edited on both sides, interrupted); sessions themselves are not bounded.
Models interact only through containment and the workspace's foreign key; `sync_all` has the
workspace and one that it contains, `sync_settles` one more level, in which the order of the
hash set counts: a folder's deletion comes before or after what happens to its request. Of
two sessions of a window one waits for its dialog, with operations that grow stale, while the
other is applied. `StateIds` has one
id more than rows and pending changes of a model can hold.

Fairness (`sync_settles`): a timer that runs fires, and a session that was started reads and,
when it need not ask or was confirmed, goes on. Nobody is assumed to confirm, edit, switch or
repair anything, and no session starts without an event. `Works` is a bound: while a session
of a window is calculated or applied, no other of that window is started or confirmed. That
takes less than the second of the debounce, but a Git command does not wait for it. Without
the bound, and with two windows, `Settles` is false: two sessions delete and re-create a row
in turns, or the sync state of one is written after the last event and leaves work that no
event tells of. Nor does it hold with stray file names: of two files with one id, the
directory's order says which is read. The run therefore has one window and no spare name.

### What is false

Met while modelling, and therefore excluded by `disturbed` or not stated:

* one window reads the file that another has truncated, and deletes the row
  (sync.rs:238, 390); two sessions worked on at once may undo each other for ever;
* after a refusal or an error nothing starts a session until the next event
  (init/sync.ts:28); a dialog that another replaces, or that Escape closes, leaves its
  session waiting for ever (lib/dialog.ts:8);
* a file with the id of a private environment overwrites the row that calculate ignored
  (sync.rs:152);
* after a rename in the directory the next edit is written to the old name, and the model
  has two files (sync.rs:399);
* an edit between calculate and apply is taken for unchanged (run `sync_late_edit`).

### Proofs

`SyncProofs.tla` proves for all values of the constants (any number of models, paths and
overlapping sessions) from `ConstantsAssumption` and `NothingAssumption` alone. The first
says that every model has a file name of its own, and that the workspace contains every
model and is contained in none but itself; the second that `Nothing` and `Garbage` are no
contents, files or records.

* `TypeCorrect`, Spec => []TypeOK. `TypeOK` is not inductive: what a file gets is what an
  operation carries, so `Shape` adds that operations that write have contents, updates
  have a sync state id, a session that is writing has the operation it writes, and an idle
  session has no operations.
* `PrivateStaysInDatabase`, Spec => PrivateNeverWritten, from `CarriesNothingPrivate`: the
  filter in get_db_candidates is applied to the row as read, and the contents written
  later are those read then, so no change in between matters.
* `EditsAreDetected`, Spec => []EditsDetected, from `EditsInv`: every sync state was flushed
  in the past (`FlushedPast`), a session has one operation or state change per model
  (`OneOpPerModel`) and what it carries of an undisturbed model is still the row
  (`CarriesRows`). An edit is then newer than any sync state, and a flush that hides an
  edit has just put it on disk.
* `InSyncIsEqual`, `MergesKept` and `OnePassIsEnough`, for `InSyncMeansEqual`,
  `MergesAsPromised` and `OnePassSuffices`, from

      MergeInv == EditsInv /\ RecordsOK /\ OneStatePerModel /\ FlushesLast
                  /\ RowIsBase /\ PlansFit

  `RecordsOK`: whatever is recorded of a model (in a file, a sync state, an operation, a
  candidate) is under a name the model may have, and was made in the past. `RowIsBase`: an
  unmodified row whose file is the base of the last sync is that base, which is what makes
  a checksum of the file enough to leave the row alone. `PlansFit`: what each session holds
  about an undisturbed model (candidates, an operation, a state change) still fits its
  row, its sync state and its file, and leads to a merge that is allowed.

  The argument: a step that changes something a running session relies on puts the model
  among the disturbed ones (`Unmoved`, `HomeIsOwn`); `ScanPlans` compares each branch of
  compute_sync_ops with `MergeOf`; the lemmas named `...Fits` follow an operation through
  its file or row and then its state change. A completed session has nothing left to hold,
  so the row and the file are one of the merges. TLC agreed to `MergeInv` on both instances
  (0.6 and 2.8 million states, of `Sync` alone) before it was proved. It needed what the code takes for
  granted: at most one state change per model (`OneStatePerModel`), that state changes come
  after all operations (`FlushesLast`), and timestamps that no record has ahead of time.

The theorems are about `Sync` alone, where any session may start, be confirmed or refused at
any time, so they hold of every schedule, that of `SyncWindows` and of any number of windows
included. Only `Settles` (liveness) is left to TLC.

## Websocket: connections, their tasks and their rows

`Websocket.tla` models `yaak-ws` for the connections of one request. A command (`cmd[k]`)
is a run of `connect`, `send` or `close`; several are under way at once.

* `connect`: `StartConnect` inserts the row; `Prepared` or `PrepareFails` stands for what
  happens before the manager's lock; with the lock, `Dial` registers the write half and
  spawns the read task (or `DialFails`), `RecordOpen` keeps the handle and stores the Open
  event, `MarkConnected` writes the row and spawns the forwarder (or `ConnectBreaks`).
* `send`: `StartSend`, then `SendNowhere` without a socket, or `StartWrite` and
  `WriteDone` or `WriteFails`.
* `close`: `StartClose` reads the row, `MarkClosing` writes it back, `TakeSocket` takes the
  write half, `SaidGoodbye` or `GoodbyeFails` ends the close frame, `StopReading` aborts
  the read task after 500 ms.
* The read task: `ReadFrame` queues a frame, `StreamEnds` and `Unregister` leave the
  tables, `ReadPanics` is its `unwrap`. The forwarder: `Forward`, `LastForwarded`,
  `MarkClosed`; `ForwardPanics` is its `unwrap`s.

| Variable | Code |
|---|---|
| `row`, `log`, `request` | `websocket_connections`, `websocket_events` and the parent `websocket_requests` row |
| `outer` | the mutex around `WebsocketManager`, holder first, waiters in order |
| (`InnerBusy`) | the mutex of `connections`, held while a frame is written |
| `sockets`, `tasks` | `WebsocketManager.connections`, `read_tasks` |
| `reader`, `queue`, `fwd` | read task, channel, forwarder |
| `peer`, `spoken`, `heard` | the server: its end, the frames it sent, those read |

Users delete connections, all of them, or the request at any moment; every upsert prunes
the history; the application restarts at any moment. A frame is its place in the stream;
rendering, headers, cookies and authentication only decide whether `connect` gets to the
socket. Pruning and the upsert after it are one step.

`Transcript.tla` is the abstract specification of what is stored for a streaming
connection: the opening, the frames in order, one close, then nothing of the server's;
erasing and abandoning are allowed at any time. `RecordsTranscript` says that Websocket
implements it, with `Phase` and `Taken` as the refinement mapping: a connection is open
from its Open event until its forwarder has stored a close, and the frames taken are those
read and no longer in the channel.

### Properties

* `RecordsTranscript`: the events of a connection are a transcript of its stream, through a
  read task that starts before the Open event, a bounded channel and a forwarder.
* `ClosedMeansReleased`: a row says Closed only when socket and read task are gone.
* `ConnectedIsServed`: a row says Connected only while a forwarder is there to close it,
  although it is written from a stale copy and may have been deleted.
* `ReadersCanBeStopped`: a close finds the handle and the write half of every read task.
* `WritersHoldManager`: whoever waits for the other side holds the manager's lock.
* `CommandsReturn`, `ServerEndShows`, `CloseSettles`: liveness, see below.

### Runs

| Run | Instance | Shows |
|---|---|---|
| `ws_one` | 1 connection, 2 commands, 1 frame and a Close, channel of 1, 1 message sent | the safety properties, the refinement and the liveness properties |
| `ws_two` | 2 connections, 1 command at a time, Close frames only, history of 2 | `RecordsTranscript` with a shared lock of the table, pruning and re-inserted rows |

One frame more than the channel holds makes the read task wait and lets an abort lose a
frame. Two commands are enough for every pair of connect, send and close to meet, and
commands of different connections meet only at the locks; the read task of one connection
and a close of the other meet in `ws_two`. Closes, deletions and restarts
are not bounded.

Fairness: `FairSpec` lets tasks and commands run on as tokio does, with mutexes served in
order; handshakes end with an answer or an error. `PatientSpec` adds that a server reads
what is written to it (`Written`), without which `CommandsReturn` is false: `close` says it
waits "a maximum of 1 second", but the Close frame is written without a limit while the
lock is held (manager.rs:85), so a server that does not read stops every command. Nothing
is assumed of users, servers' frames or restarts.

What is false, and therefore not stated: a row marked Closing after its forwarder wrote
Closed stays Closing until the next start; a close before connect has the lock is
forgotten; a connect that fails after inserting its row leaves it Initialized; a deleted
row may be inserted again by the last write of its forwarder; deleting the row of an open
connection kills its forwarder, whose event cannot be stored (`unwrap`, commands.rs:451),
while its socket stays open.

### Proofs

`WebsocketProofs.tla` proves every safety property of `Websocket`, and the refinement, for
any connections, any number of commands, any capacity of the channel and any history, from
`ConnsAssumption` and `BoundsAssumption` alone.

* `TypeCorrect` and `WritersHold` rest on `Typed`, the conjunction of `TypeOK`, `OnConn` (a
  command that is not idle has a connection whose row was born) and `LocksOK` (the queue of
  the manager's lock lists the commands at the steps after `lock()`, each once, and who is
  past the lock is its head). Without the queue being exact and free of repetitions,
  `Release` could hand the lock to a command that does not wait for it.
* `ClosedReleased`, `ConnectedServed` and `ReadersStoppable` add `RowsOK`. A closed row has
  no socket because the forwarder writes it after the read task is gone (`SettlingLast`),
  and a read task that ends while there is a receiver leaves the table first
  (`SendersGone`); it stays so because no other command opens the same connection
  (`OneOpener`, `BeforeDial`). A connected row keeps its forwarder because a forwarder dies
  early only when its row is deleted, and nobody but connect writes Connected
  (`BeforeServed`). A read task stays reachable because close takes socket and handle under
  one lock (`TakenOut`, `Reachable`).
* `ImplementsTranscript` adds `StreamOK`: the channel holds the last frames heard, in
  order, and a forwarder that has stored the Close frame has nothing left to read. Each
  step is then one of `Open`, `Deliver`, `End`, `Note`, `Forget` or a stutter; `AsOpen` and
  the lemmas beside it state those pointwise.

Only model-checked: the liveness properties, which need fairness.
## Plugins: requests across two processes

`Plugins.tla` models the plugin manager (`yaak-plugins/src/manager.rs`), the application's
handler of plugin events (`plugin_events.rs`) and the Node.js runtime
(`packages/plugin-runtime/src`), with the websocket between them. A *call* is a request
of the application: to all plugins or one (`Ask`), a request action that nobody waits for
(`Tell`), and an install, uninstall or reload (`StartBoot`, `Boot`, `Stop`). The runtime
takes events in order (`BootArrives`, `RunArrives`, `StopArrives`, ...); a plugin at work
may ask the application for things (`UseContext`), which the monitor hands to a handler of
its own (`Monitor`), which may in turn ask plugins (`Render`); it answers (`Finish`), throws
(`Throw`), or is disposed of (`Disposed`, `DisposeThrows`). `AskReturns`, `BootReturns`,
`BootTimesOut` and `StopReturns` end a call.

| Variable | Code |
|---|---|
| `plugins` | `PluginManager.plugins` |
| `booter` | the mutex of `app_to_plugin_events_tx`, held while a plugin boots |
| `call`, `toPlugin` | requests under way, events on the websocket |
| `runtime`, `job` | `plugins` of the runtime's `index.ts`, `onMessage` at work |
| `inbox`, `handler` | the monitor's channel, `handle_plugin_event` at work |
| `disturbed` | history: a handle was taken off, an event lost, a handler or dispose failed |

`Requests.tla` is what the manager promises to whoever asks: a request that returns holds
one answer of each plugin it was put to, those of its own request; only one with a time
limit may be given up. `AnswersPaired` says that Plugins implements it, where `asked` and
`answered` are read off the call's record.

Abstractions: a caller's own channel is not bounded, the monitor's channel is (`Capacity`);
events that are no requests do not stay in the monitor's queue; windows opened by plugins,
the reload on a changed file and a crash of the runtime are left out; a reload of all
plugins is a reload of each directory; a job makes one request at a time.

* `RegistryIsSound`: one handle per directory, and what is registered is alive in the
  runtime or being stopped.
* `Served`: unless something was disturbed, whoever waits for a plugin is answered: calls
  into plugins and calls back wait on each other, but never in a circle.
* `BootLockReturns`: the lock of a boot is given back, also when the plugin never answers.

| Run | Instance | Shows |
|---|---|---|
| `plugins` | two plugins in two directories, two calls of any kind, a monitor's channel of 1 | all of the above (62,000 states) |
| `plugins_unanswered` | violation of `CallsReturn` | one call and its callback: a handler that fails on a plugin's request replies nothing, and the plugin waits for ever, although its callers are promised an answer "so the caller doesn't block forever" (PluginInstance.ts) |

Two calls are enough for any pair of requests to meet; a third only repeats what the
second does to the queue, since calls share no state but the registry, the lock and the
queues. Fairness (`FairSpec`) is `WF_vars(System)`: some task or the runtime goes on while
any can; users and installs are free. It is justified by tokio and Node.js each running
what is ready. With two calls a fair system cannot starve one by serving the other for
ever, because each is made once.

What is false: two reloads of one directory at once leave the second waiting; a second
install of a directory leaks the old instance; a plugin whose boot timed out runs
unregistered; a request put to no plugin waits for any event (`disturbed` and the guards
of `Served` exclude these).

`PluginsProofs.tla` proves `TypeOK`, `RegistryIsSound` and `AnswersPaired` for any calls,
plugins, directories and capacity, from the assumptions of the module (handles are not
calls, the plugins at the start are finitely many and go by a directory each, the channel
has room for one event). The inductive invariant `IInv` says beside them: a boot's handle
is not registered before its answer (`Newcomers`, `Beginnings`), an event has been put to
a plugin at most once (`PutOnce`), an answer under way belongs to a request that was put
to its plugin and is not counted yet (`Answers`, `Waits`), and a plugin that has been
stopped is off the registry, or its stop has not been heard (`Stops`, `Boots`). Pairing
answers by `reply_id` alone is sound because of `PutOnce`: an answer cannot come twice.

## ModelStore: the copies of the windows

`ModelStore.tla` models the way of a change from the database to every window
(`db_context.rs`, `query_manager.rs`, `commands.rs`, `guest-js/store.ts`). A model is an id
and a version. `Upsert` writes a row and `Send` sends the event later, with other writers
in between; a transaction sends first (`Transact`) and then commits or rolls back
(`Commit`, `Rollback`). One forwarder keeps one order for all windows (`inbox`).
`Deliver` applies an event or ignores it; `ChangeWorkspace` starts a load, `ListModels` is
the moment the database answers it and `Install` the moment the window takes it, so loads
overlap events and each other.

Abstractions: the snapshot of a load is one read although the code makes several queries;
the base environment that a list may insert and `replaceModelsInStore` are left out.

* `ShowsTheRows`: with no news of a model on its way a window shows it as it is in the
  database, if it belongs to the window's workspace or to none; except where two writes
  sent their events in the other order or one was rolled back (`raced`), and where a load
  overwrote newer news (`missed`). Both exceptions are faults of the code
  (query_manager.rs:117, store.ts:54).
* `NoForeignModels`: a model of a workspace that is not the window's gets into its store
  only by a change of its own or of the background.

| Run | Instance | Shows |
|---|---|---|
| `store` | two windows, a model of the workspace, a private one of none, 2 writes, 2 overlapping loads in one window and 1 in the other | both, and `TypeOK` (3.8 million states) |

Two writes race, two windows differ in what they ignore, and two loads overtake each other;
no guard of the code looks at more. Also false, and not stated: a stale event shows for a
moment after a load; a patch made while news is on its way is applied to the stale copy
and undoes the other's write (`patchModelById`); a rolled-back transaction has told the
windows something that never happened, which lasts if it was the last write.

`ModelStoreProofs.tla` proves the three for any windows, models, workspaces and bounds from
`Homes`, `PrivateKeyValues`, `WindowsAndBackground` and `Bounds`. `IInv` is `TypeOK` with:
one writer at a time in a transaction (`OneWriter`), an event not yet sent tells the row
(`SendsTheRow`), the last event about a model tells what the database will hold
(`LastEventTells`), a window without news shows that (`StoreTells`), a load under way will
(`LoadsTell`), and lists its own workspace (`ListsItsOwn`). `ShowsTheRows` alone says
nothing while news is under way, so it is not inductive.

## OAuth: tokens under concurrent calls

`OAuth.tla` models the plugin `auth-oauth2`: every request that is sent runs `onApply`,
and these runs share the plugin's key-value store and one authorization window. A call
begins (`Begin`), refreshes (`Refreshed`), deletes a token (`Deleted`), opens the window
(`OpenUrl`, `Navigate`, `NavigateError`, `Close`), fetches (`Fetch`, `Fetched`) and stores
(`Stored`); the menu deletes tokens (`DeleteToken`) and tokens expire (`Expire`). A token is
the fields it has, its refresh token and whether it has expired; the server rotates refresh
tokens or not, refuses, fails and loses answers. A configuration is any grant with any
choice of token name, filled URL fields and PKCE.

* `HeaderHasToken`: a call that is done has an access_token when that is the token to
  send: the header never says "Bearer undefined", however calls interleave. For id_token
  this is false, see below.
* `NeverStoresSpent`: no step stores a token whose refresh token the plugin has already had
  replaced.
* `ReadsWhatItShows`: the grant reads only fields the form shows for it, with the
  exceptions below.
* `CallsEnd`: every call ends with a token or an error, unless another's authorization
  window was open when it asked for its own.

| Run | Instance | Shows |
|---|---|---|
| `oauth` | two calls, any number of times each, 3 refresh tokens | all four and `TypeOK` |

Two calls refresh one token at once, which is all the store can be contended for; the
third refresh token lets each replace one and the server issue another. Fairness
(`Proceeds`, `Close`): servers answer or fail, and a person who opens the window closes
it at some time.

False: a second authorization window replaces the first, whose call waits for ever
(window.rs:108; `orphan`); a 401 of one refresh deletes the token that another has just
stored (getOrRefreshAccessToken.ts:75 says otherwise); a refreshed token may come without
the id_token, and "Bearer undefined" is sent; a refresh answer without access_token loses
the new refresh token; tokenName is read for the password and client_credentials grants
that do not show it; the form's field is pkceCodeChallenge, the one read pkceCodeVerifier;
the menu's key is made of all filled URLs, the grant's of those it uses, so that "Delete
Token" may miss it; password and client_credentials share a key; the implicit window stays
open after an error.

`OAuthProofs.tla` proves the four safety statements for any calls and any bound, from
`NoneIsNoCall`, `NoneIsNoToken` and `MaxIssuedNat`. `IInv` says that a call at work holds
what its place needs (`HoldsOne`, `PkceOfCode`), no refresh token is ahead of the server
(`NoneAhead`), and a call about to store a token holds the only copy of its refresh token
(`OnlyCopy`, `FreshUnspent`): that is why two concurrent refreshes never put a spent token
back.

## The window

`MCClient.tla` holds 29 machines that share no state in the code either, or only through
rows and events: the parts of a window with the commands they call. `machine` says which of
them moves, `s1`, `s2`, ... hold its variables in their order, and a behaviour belongs to
one machine from its first state to its last. Each machine has its own module, written and
bounded on its own; the run `client` is the sum of their state spaces, not their product.

Every part is modelled with what makes it hard: other windows and directory sync that write
the same rows, commands whose answers come late or in another order, React effects that run
after the render that caused them, and queries that show their last answer until the next.
An effect runs in the step that causes it, unless the module says otherwise.

The properties of the parts come together under nine names, each a conjunction of what the
parts say under theirs:

| Property | Says of every part it is about |
|---|---|
| `TypeOK` | every machine's variables have their types |
| `EditorsKept` | editors and forms show what is stored, keep what was typed, and what is sent is what they show |
| `RunsTheHighlighted` | menus, palette and keys run what is highlighted or pressed, and offer the right things |
| `TreeKept` | nothing vanishes from the tree of the sidebar, and a drop is where its marker was |
| `PanesShowTheirs` | a pane shows the data of the request, response, connection, workspace, schema or key that it is for |
| `ConvertedWhole` | imports, exports and chained requests keep what there was |
| `MovesAsShown` | a step of the mouse, an arrow or a click does what the screen says it will |
| `WorkIsKept` | no operation of git loses what is not committed, or commits what is not marked |
| `SecretsStayClosed` | what is encrypted is never written in the clear, and what is new is private |

| Module | Code (under `src-web` unless said) | Properties |
|---|---|---|
| `PairEditor` | `core/PairEditor.tsx`, `BulkPairEditor.tsx` | `RowsAreSaved`: what is shown is what was saved, through typing, dragging, dialogs, bulk edits and others' writes; `TypedRowIsNotLast`; `DropIsAtMarker` |
| `TextEditor` | `core/Editor/Editor.tsx`, tag dialogs | `ShownIsSaved`, also after undo, a kept history, formatting; `LookingChangesNothing`: closing a tag's dialog unchanged changes nothing |
| `SecretInput` | `EncryptionInput` in `core/Input.tsx` | `FieldShowsStored`; `MarkedMeansClosed`; `NeverWrittenPlain` |
| `RequestPane` | `HttpRequestPane.tsx`, its hooks | `EditorsShowRequest`, and every placeholder of the URL has a row; `ContentTypeFits`: one Content-Type, that of the body |
| `AuthForm` | `HttpAuthenticationEditor.tsx`, `DynamicForm.tsx`, `useAuthTab` | `FormFits` the stored type and values; `ValuesOfType`; `InheritedIsSent`: what is called inherited is what the sender uses |
| `GrpcPane` | the gRPC request pane, `useGrpc.ts`, `yaak-grpc`'s cache | `MethodExists`; `ServicesAreOwn` |
| `Environments` | `EnvironmentEditDialog.tsx`, the environment menu, `queries/environments.rs` | `AlwaysABase`; `EditorShowsRow`; `NewIsPrivate`; `OthersStayClosed`; `ShowsAnother` after a deletion |
| `Settings` | `SettingsProxy.tsx` and the proxy of `http_request.rs` | `SentAsShown`; `KeepsConfiguration` |
| `Dropdown` | `core/Dropdown.tsx`, `RecentRequestsDropdown.tsx` | `RunsTheHighlighted`, with functions a render old; `MoveIsToAnItem`, or to content |
| `Palette` | the command palette | `RecentFirst`; `ShowsTheBest`; `RunsHighlighted` |
| `HotKeys` | `hooks/useHotKey.ts` | `RunsItsOwn`; `FirstKeyRuns`: no key is held for ever |
| `Sidebar` | `components/sidebar` | `NothingVanishes`: no folder is dropped below itself; `DroppedAtMarker`; violated: `DroppedInPlace` |
| `SidebarKeys` | the sidebar's focus and selection | `KeysAreIts`: Backspace in an editor deletes no request; `ComesToTheActive` |
| `GraphQLDocs` | `graphql/GraphQLDocsExplorer.tsx` | `SearchFindsAll`, once, nearest first, in cyclic schemas; `ItemIsOfSchema`; `ShowsWhatIsAsked` |
| `Introspection` | `hooks/useIntrospectGraphQL.ts` | `StoredIsOwn`; `ShowsStored` |
| `GitCommit` | `GitCommitDialog.tsx`, `yaak-git/index.ts` | `BoxesShowIndex`; `ChangesHaveBoxes`; `WholeSubtree`; `CommitsWhatIsMarked` |
| `GitBranches`, `GitBranchesProofs` | `GitDropdown.tsx`, `yaak-git` branch, merge, pull, push | `WindowShowsBranch`; `RepositoryIsWhole`; `UncommittedKept`; `BranchesGoForward` |
| `Navigation` | workspace switches, recent lists, cookie jars | `JarIsOwn`; `ActiveIsFirst`; `RecentAreOwn` |
| `ConnectionPane` | gRPC and WebSocket response panes | `ListsTheEvents`; `OpensTheAnswer`; `StaysWithIts` |
| `ResponsePane` | `HttpResponsePane.tsx`, the body task and the cancel of `http_request.rs` | `ShowsItsBody`; `EndedIsClosed`, but for two moments of a cancel; `StaysWithIts` |
| `Encryption` | `yaak-crypto/manager.rs`, the workspace's encryption setting | `ValuesReadable`; `ShowsTheKey`; `GoesOnWithKey` |
| `Theme` | `configureTheme`, the theme settings | `DocumentHasTheme` although runs overlap; `StyleIsComplete` |
| `Layout`, `SplitLayout` | the sidebar's width, the panes' division | `IsWherePut`, `NeverNarrow`; `BothAreSeen`, `DividedAsLeft` |
| `PluginSettings` | `SettingsPlugins.tsx`, `yaak-plugins` commands | `ListsWhatRuns` |
| `Dialogs`, `Toasts` | prompts, confirmations, messages | `AskersAreAnswered`; `ClosedOnce` |
| `ChainedRequests` | the response template function, HTTP sending, previews | `PreviewsSendOnce`; `SentWithWhole` |
| `Formats` | `plugins/importer-*`, `action-copy-curl`, `action-copy-grpcurl` | `CurlCopies`: importing a copied command gives the request back; `CurlAnyOrder`; `GrpcurlFindsFiles`; `TreesComplete`; `PostmanContentType`; `ExportMigratesOnce` |

### Runs and bounds

| Run | Instance | Shows |
|---|---|---|
| `client` | all machines | the nine properties |
| `sidebar_in_place` | violation of `DroppedInPlace` | Sidebar.tsx:263 corrects the index of every downward move (`hoveredIndex < index`), also in another folder, so that an item dropped above itself does not stay in place |

All bounds of the run are the definitions at the top of `MCClient.tla`. Where a part is about
order (events, answers, reads, writes under way), two at once are allowed, so that one can
overtake the other: `MaxAnswers`, `MaxUnderWay`, `MaxLoads`, `MaxCalls`, `MaxNews`. The first response is cancelled
(`Cancelled`), while it is the latest and after another was sent; two cancels share no row. Where it is
about things that are distinguished (requests, workspaces, branches, connections,
responses), there are two: this one and another. Lists have three items where an item
moves between others (`MaxPairs`, `Order`, `MaxDialogs`, `MaxToasts`, `Chained`). Schemas,
forms and documents are chosen by hand to have what the code distinguishes: cycles,
unions, inputs reached only through arguments, folders in folders, dangling and cyclic
parents. Trees of the importers have up to four items, and commands up to four flags.

### Fourteen parts, for every instance

`WindowProofs` has an instance of each of fourteen parts under variables of its own, a
section for each with what it takes for granted of the constants, an inductive invariant,
one lemma per action, and the theorems. The constants are the part's own, not those that
`MCClient` gives it, so the theorems are about any number of requests, environments,
connections or keys. Shared lemmas come first: a sequence with an item removed, appended or
moved, and the least and greatest of a set of numbers, which are CHOOSEn and so need an
argument that there is one.

| Part | The invariant, beside the types |
|---|---|
| `SecretInput` | `OneAtATime`: unless answers crossed, the field is in one of four states: its secret is being opened (`IsOpened`), what it has is being encrypted (`IsClosed`), it could not be decrypted (`HasFailed`), or it has what is stored (`Rests`) |
| `HotKeys` | `NothingLeft`: no hook has a key left once all modifiers were seen to be up |
| `Introspection` | `EachItsOwn`: what is fetched, written and read for a request is an answer to it; and unless `overtaken`, a request has one such job at a time (`OneEach`), row and cache differ only by a write on its way, and the editor has the schema of the cache unless it is being cleared (`KeptAndShown`) |
| `Environments` | `Workspace`: the list has each environment once, and a base among them; `AsksOfSelected`: while a deletion is confirmed, the dialog shows what it showed; `EditorIsOfShown` |
| `Settings` | `LastWritten`: the row is what was written last, and a proxy is configured only while it is a custom one; `FilledIsWritten`: what was typed in a field that is there is in the row, unless other news was under way |
| `Theme` | `LastRunIsOfNow`: the last run has read the settings as they are, unless a later one has ended; `DocumentIsOfNow`, `PreviewIsOfNow` |
| `Layout` | `HiddenFollows`: the last write under way, or the row, hides the sidebar as was asked last; `WidthFollows`: the last width that is to follow, or the present one, is the one asked for |
| `SplitLayout` | `IsShare`: a share that was dragged to leaves both panes their least size in the container it was made in; `ShowsItsKey`: the hook shows the value of its key, under which a drag writes, unless it strayed |
| `Dropdown` | `HandleIsOfShown`: the menu's functions are of the present items; those the switcher has too, while the menu is open with the items it was opened with |
| `SidebarKeys` | `FocusInv`: `KeysAreIts` with its marks, which is inductive |
| `GrpcPane` | `KnownIsExpected`: what is known under a key is what it asks for; `KeyIsAsked`: the pane's key was asked for; `MethodIsSeen`: the effect has seen the row with these services, or a patch that brings it back is on its way |
| `ResponsePane` | `RowIs`: the task counts the chunks of its file but for the one being written, and a row, or what a cancel has read of it, has no more; only a cancel closes a row under its task, and one that the task writes over is marked (`hurried`); a row that nobody works on is closed, unless it is marked; `BodyIs`: what the query knows of a row is what its file has, or had before this chunk; `TextIsOf`: the text is what is known of the response that is shown; `NoneOfLater`: nothing is kept for a response to come |
| `ConnectionPane` | `ListsEvents`: unless `mixed`, the reads under way are of the connection that is shown with all it has, and when there is none the list has it; `NoPinOfLater`; `AnswerIsOpen`, for which the events must be finitely many, since the effect compares lengths |
| `Encryption` | `RowFirst` and `OneKey`, see below |

TLC had checked the properties in the run `client`, and checked the invariants that are hard to
see on instances of their own. Three things came out of the attempts all the same:

* `Introspection`: the effect that keeps the schema (useIntrospectGraphQL.ts:106) depends on
  its text alone. When a schema is cleared, and a request with the same text is gone to
  before the row is empty, the effect does not run again, and the editor is left without a
  schema. Two requests of one server have one text, so this happens; the run had given every
  request a text of its own. They share one now, and `overtaken` is set then.
* `ResponsePane`: a response that was deleted while it arrived comes back with its row
  (http_request.rs), and with it the pin that was kept for it: of three responses the pane
  can go to the one that had been pinned, neither new nor pinned now. `StaysWithIts`, checked
  with two, said that it could not; it names this case now.
* `Encryption`: `raced` was at first any second write; that the same key entered twice is no
  race came out of the proof.

What is assumed, and why the code justifies it:

| Assumption | Of | Because |
|---|---|---|
| `TextsAreTexts` | `SecretInput` | an editor can be empty, and the state's `null` is no text |
| `OneKeyEach` | `HotKeys` | each hotkey of `useHotKey.ts:28` is modifiers and one key, and no key is named like a modifier |
| `AnswersAreTexts` | `Introspection` | what a server answers is JSON: neither the `null` nor the empty text that the hook tests for (useIntrospectGraphQL.ts:107) |
| `SomeAreMade` | `Environments` | a workspace has a base environment from its first listing on |
| `TypedIsText` | `Settings` | the marks for "no user" and "not touched" are no texts |
| `SomeRuns` | `Theme` | the first run starts with the window |
| `WidthsAreNumbers` | `Layout` | pixels, which may be negative when the pointer leaves the window |
| `PlaceForBoth` | `SplitLayout` | a share leaves each pane 10 pixels (SplitLayout.tsx:45) of the container it was made in, and side by side nothing keeps them in a smaller one (84): in one ten times as narrow less than a pixel is left. No window is narrower than 300 pixels (window.rs:13), so that this takes a division made at the very edge of a container of thousands |
| `RequestsAreInside` | `SidebarKeys` | the places of the focus are told apart |
| `ServicesAreNamed` | `GrpcPane` | services come from descriptors, which name them; marks are no names |
| `SomeIsActive`, `SomeCalls` | the panes | they are there for a request |
| `KeysAreKeys` | `Encryption` | keys are neither "none" nor a state of the setting |

For the workspace's key most is lost when it is wrong. Its invariant has two halves.
`RowFirst`: whoever has a key (the cache, a command past its transaction, the setting, a read
on its way to it) has it because there is one in the meta row, and stays right when a restart
finds that the row's key cannot be opened, because a restart empties all the others.
`OneKey`: unless two commands wrote different keys (`raced`) or a sync brought another's
workspace over a key (`foreign`), all of those are the key of the row, and a command that
has still to write over none has the key of every value there is; for a key that is typed
`Fits` sees to that, and for one that is made the absence of a challenge.

### Branches, for every instance

`GitBranchesProofs` proves all that the run checks of `GitBranches`, for any branches,
files, edits and number of commits. The invariant is short: the types, `RepositoryIsWhole`
itself, and `History`: a commit is in its own past, its past is among the commits there
are, and contains the past of each commit in it. `Closed` names what a past can be made of; a
commit added upon a closed past keeps `History` (`CommitAdded`), and the pasts of one commit,
or of two that are merged, are closed. With that every step is one of two kinds: `NoneMade`
(branches stay, end, begin at a commit that is here, or step forward) and `OneMade` (one
branch may move to the commit that was made). What is not committed (`UncommittedKept`)
needs the invariant only to see that a step forward is to another commit.

Fairness is not used here: all of these are safety properties. "When nothing is under way"
in them is how an eventual state is said without it.

### What is false

Each property names its exceptions where it is defined. They are faults, or at least
surprises, of the code; the most interesting, by module:

* `ChainedRequests`: a send that overlaps another reads a response that is still arriving;
  circular references render for ever; a failed response counts as one; the error of a
  body that breaks off is overwritten by the final update (http_request.rs:606, 618), so
  that a truncated response looks complete.
* `ResponsePane`: a cancel after the head and before the row is written connected
  (http_request.rs:534, 566), or in the middle of a chunk (591, 677), closes the row; the task
  writes its own copy over it and stops at the next look, and the row stays "connected" with
  nobody working on it. A cancel that read the row before a chunk writes an older size back.
  Deleting a response that is still arriving brings its row back without a file.
* `ConnectionPane`: an event between a read and its answer is lost; events of another
  running connection show in the list; clicking Connect twice makes two connections.
* `GitBranches`: "Force Checkout" of a remote branch always fails (branch.rs:46); push
  always reports "Nothing to push"; a fast-forward discards what is not committed.
* `GitCommit`: a push that fails after its commit leaves the old status, and clicking again
  makes an empty commit; folders without a file hide changes that are committed all the same.
* `Encryption`: two enables at once make two keys (`ensure_workspace_key`); a synced
  challenge over an existing key leaves values that cannot be read.
* `Environments`: cancelling the deletion of the selected environment selects the base one;
  duplicating a base makes every request fail; encrypting all overwrites edits made meanwhile.
* `Settings`: two edits before the news lose the first; editing the bypass field switches
  authentication on (SettingsProxy.tsx:185); switching kinds loses the configuration.
* `Sidebar`: another window's or a sync's change during a drag can make a folder its own
  ancestor, and all of it vanishes; new requests' priorities differ by less than the column
  can hold (createRequestAndNavigate.tsx:15).
* `SidebarKeys`: a focused item that is removed leaves the keys with the sidebar, so that
  Backspace in an editor deletes a request.
* `HotKeys`: a name stays while a modifier is held, and the next hotkey is missed; repeats run.
* `Palette`: Enter before the 150 ms are over runs the item of the old text.
* `PairEditor`: a row dragged below the empty one, or the deletion of the empty one in a
  multipart form, leaves a real row last, which looks switched off though it is sent; bulk
  edits switch pairs on and drop files.
* `Dropdown`: with a filter, arrow keys use the places of the unfiltered list; a menu
  without a choosable item runs its index away; arrow keys and the switcher skip separators
  and hidden items (Dropdown.tsx:336, 356), but stop at content, which cannot be chosen and
  shows no highlight: the first place of the menu that offers a repository
  (GitDropdown.tsx:398) is its banner.
* `TextEditor`: text typed while the formatter works is shown but not saved, or the other
  way round; a dialog's tag replaces what is at its old place after another's write.
* `SecretInput`: two keystrokes' encryptions may be answered in the wrong order.
* `AuthForm`: the old type's form stays while the new one is fetched, and typing in it
  writes its fields; a checkbox' default is applied by the plugin but not shown.
* `RequestPane`: two patches in flight lose the first; headers edited within 100 ms of a
  change of body write the old Content-Type back; send right after typing sends the old URL.
* `GrpcPane`: a schema asked for one URL may be another's; adding files asks under the old key.
* `Introspection`, `GraphQLDocs`: two fetches out of order store the older; clearing during a
  fetch is undone; a type alone is never found by the editor's "show docs"; Enter in the
  search takes a result of before.
* `Navigation`: cancelling the prompt for a new jar leaves none active; two quick
  navigations lose the first; a jar's event in the middle of a switch activates the old
  workspace's.
* `PluginSettings`: a directory added twice has two rows, and uninstalling one stops the
  other's plugin.
* `Theme`, `Layout`, `SplitLayout`: runs may end out of order; the first two moves of the
  handle make two rows of one key; a workspace switched to in the middle of a drag gets the
  other's division.
* `Dialogs`, `Toasts`: Escape on a confirmation leaves its asker waiting for ever; so does
  another dialog of the same id; a third message within the delay is shown twice.
* `Formats`: the base environment that a migrated export gets is not marked as one
  (importer-yaak/src/index.ts:39); a text of a curl command loses a "=" at an end; version 4 of
  Insomnia with two workspaces imports every environment twice; Postman's folder
  authentication is ignored. Values with "&", "%", quotes, or a leading "-" or "@" are not
  modelled.

## What is proved and what is only checked

| Module | Theorems | Property |
|---|---|---|
| `SyncProofs` | `TypeCorrect`, `PrivateStaysInDatabase`, `EditsAreDetected`, `InSyncIsEqual`, `MergesKept`, `OnePassIsEnough` | `TypeOK`, `PrivateNeverWritten`, `EditsDetected`, `InSyncMeansEqual`, `MergesAsPromised`, `OnePassSuffices` |
| `WebsocketProofs` | `TypeCorrect`, `WritersHold`, `ClosedReleased`, `ConnectedServed`, `ReadersStoppable`, `ImplementsTranscript` | `TypeOK`, `WritersHoldManager`, `ClosedMeansReleased`, `ConnectedIsServed`, `ReadersCanBeStopped`, `RecordsTranscript` |
| `PluginsProofs` | `TypeCorrect`, `RegistrySound`, `Pairing` | `TypeOK`, `RegistryIsSound`, `AnswersPaired` |
| `ModelStoreProofs` | `TypeCorrect`, `WindowsShowTheRows`, `ForeignModelsStayOut` | `TypeOK`, `ShowsTheRows`, `NoForeignModels` |
| `OAuthProofs` | `TypeCorrect`, `HeadersHaveTokens`, `OldTokensStayOut`, `ReadsTheForm` | `TypeOK`, `HeaderHasToken`, `NeverStoresSpent`, `ReadsWhatItShows` |
| `WindowProofs`, `SecretInput` | `FieldTypeCorrect`, `FieldShows`, `MarkedIsClosed`, `PlainIsNeverWritten` | `TypeOK`, `FieldShowsStored`, `MarkedMeansClosed`, `NeverWrittenPlain` |
| ... `HotKeys` | `HotKeysTypeCorrect`, `HotKeysRunTheirs` | `TypeOK`, `RunsItsOwn`, `FirstKeyRuns` |
| ... `Introspection` | `SchemaTypeCorrect`, `SchemaIsItsOwn`, `SchemaIsShown` | `TypeOK`, `StoredIsOwn`, `ShowsStored` |
| ... `Environments` | `EnvironmentsTypeCorrect`, `ABaseIsKept`, `EditorHasItsRows`, `MadePrivate`, `SecretsStayWithin`, `DialogShowsAnother` | `TypeOK`, `AlwaysABase`, `EditorShowsRow`, `NewIsPrivate`, `OthersStayClosed`, `ShowsAnother` |
| ... `Settings` | `SettingsTypeCorrect`, `SettingsSentAsShown`, `SettingsKeepConfiguration` | `TypeOK`, `SentAsShown`, `KeepsConfiguration` |
| ... `Theme` | `ThemeTypeCorrect`, `DocumentHasItsTheme`, `StyleHasAll` | `TypeOK`, `DocumentHasTheme`, `StyleIsComplete` |
| ... `Layout` | `LayoutTypeCorrect`, `SidebarIsNeverNarrow`, `SidebarIsWherePut` | `TypeOK`, `NeverNarrow`, `IsWherePut` |
| ... `SplitLayout` | `SplitTypeCorrect`, `SplitAsLeft`, `BothPanesAreSeen` | `TypeOK`, `DividedAsLeft`, `BothAreSeen` |
| ... `Dropdown` | `SwitcherRunsTheHighlighted` | `RunsTheHighlighted` |
| ... `SidebarKeys` | `SidebarKeysAreIts`, `SidebarComesToTheActive` | `KeysAreIts`, `ComesToTheActive` |
| ... `GrpcPane` | `ServicesAreItsOwn`, `ChosenMethodExists` | `ServicesAreOwn`, `MethodExists` |
| ... `ResponsePane` | `ResponsesTypeCorrect`, `EndedIsClosed`, `TextIsOfShown`, `PaneStaysWithIts` | `TypeOK`, `EndedIsClosed`, `ShowsItsBody`, `StaysWithIts` |
| ... `ConnectionPane` | `ListIsOfShown`, `PanesStayWithTheirs`, `AnswerOpens` | `ListsTheEvents`, `StaysWithIts`, `OpensTheAnswer` |
| ... `Encryption` | `KeyTypeCorrect`, `ValuesStayReadable`, `ShownKeyIsIt`, `GoesOnOnlyWithKey` | `TypeOK`, `ValuesReadable`, `ShowsTheKey`, `GoesOnWithKey` |
| `GitBranchesProofs` | `TypeCorrect`, `RepositoryStaysWhole`, `WindowFollowsBranch`, `BranchesLoseNothing`, `EditsSurviveSwitches` | `GitBranches`' `TypeOK`, `RepositoryIsWhole`, `WindowShowsBranch`, `BranchesGoForward`, `UncommittedKept`: parts of `TypeOK`, `PanesShowTheirs` and `WorkIsKept` of the run `client` |

Every safety property that a run of the core checks is a theorem, for every value of the
constants that satisfies the assumptions of the module. Those of the last two modules are
written into their theorems, since no run extends those modules alone: the ones tabled
above, and `Sensible` (the main branch is one, edits are of the files there are). The
run `client` checks the properties of the parts of the window as conjuncts of its nine; it
reaches recursive operators, so that no theorem can name the nine themselves. In each
module the theorem about a property follows from the inductive invariant (described above
with the model) by three facts: it holds at first, every step keeps it, it implies the
property. Each action has its own lemmas; the refinements and action properties take the
invariant as the hypothesis of each step.

Only checked by TLC:

* liveness: `Settles`, `CommandsReturn`, `ServerEndShows`, `CloseSettles`, `Served`,
  `BootLockReturns`, `CallsEnd`. They rest on fairness, and on what is enabled when; the
  prover does not reach ENABLED;
* what is computed by recursion over data, about which induction would be needed: `Sidebar`,
  `Palette`, `GitCommit`, `AuthForm`, `Formats`, `GraphQLDocs`, the item that a move in a
  `Dropdown` arrives at, and the transitive closure in `ChainedRequests`;
* what is computed by folds or `SelectSeq` over lists of rows (`TextEditor`, `PairEditor`,
  `RequestPane`, `Dialogs`, `Toasts`, `PluginSettings`, `Navigation`): these operators are
  recursive where the prover sees them, so it knows nothing of their values;
* the types of `ConnectionPane`, `Dropdown`, `SidebarKeys` and `GrpcPane` as `TypeOK` says
  them: their invariants have the types that the proofs need, and no more.

The models were mutated to see that the properties can fail: for every property of every
passing run there is a change to a definition, the way a bug would change it, after
which TLC finds the property violated (`PROJECT.json`, "mutants"; the mutated forms are the
definitions beside the originals, marked "Mutant").

## Not modelled

* Template parsing (`yaak-templates`), gRPC calls on the wire and reflection (`yaak-grpc`)
  beyond what the pane asks of them, construction of HTTP clients, TLS and DNS.
* The directory watcher (`yaak-sync/src/watch.rs`) but for its events (`Told` in `SyncWindows`):
  what it does when it fails to watch, or loses events.
* License checks, notifications, updates, window management: single requests to services
  without state that others read. Two windows races in `lib.rs` are listed as hazards.
* `queries/environments.rs:31` (two windows insert a base environment at once),
  `yaak-ws/src/commands.rs:167` and `lib.rs:309` are hazards without a property; their
  notes say why.
* Renaming, colours, autocomplete and validation of names in the editors; viewers of
  response bodies; themes, icons, generated bindings and route trees, build scripts, tests.
* A crash of the Node.js process, and of a window.

## Plan

Done: the five modules of the core with their abstract specifications (`Transcript` of a
connection, the merge of `Sync`, the requests of `Plugins`), the parts of the window, and
proofs of every safety property of the core, of the branches and of the fourteen parts of
the window whose properties need no recursion over data.

Next, in this order, because each is nearer to losing data or secrets than the one after:

1. gRPC calls (`cmd_grpc_go` and its tasks) against `Transcript`, as the WebSocket
   connections are now;
2. the lists of `Dialogs`, `Toasts` and `Navigation` as sets with an order, so that
   `AskersAreAnswered`, `ClosedOnce` and `RecentAreOwn` can be proved too;
3. the lemmas about sequences at the head of `WindowProofs` in a module that the proofs of
   the core use as well.
