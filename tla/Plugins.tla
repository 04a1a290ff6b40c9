------------------------------ MODULE Plugins ------------------------------
(* The application and the Node process that runs its plugins exchange     *)
(* events over one websocket.  The plugin manager (yaak-plugins) puts      *)
(* requests to plugins and matches their answers; a plugin at work asks    *)
(* the application for things in turn (its ctx), which may make the        *)
(* application ask plugins again.  Plugins are booted, stopped and         *)
(* replaced meanwhile.                                                     *)
(*                                                                         *)
(* A handle of a plugin is named by the call that boots it.                *)
EXTENDS Naturals, Sequences, FiniteSets, SequencesExt

CONSTANTS
    Calls,    \* requests the application makes, each once; also names of handles
    Dirs,     \* plugin directories
    Built,    \* those of the handles registered when the model starts, by which
              \* those handles go: one for each
    Managed,  \* those the user installs, reloads or uninstalls
    Capacity, \* of the monitor's channel (128 in the code)
    None

ASSUME CallsAndHandles == Calls \cap Built = {} /\ None \notin Calls
ASSUME BuiltFinite == IsFiniteSet(Built)
ASSUME BuiltDirs == Built \subseteq Dirs
ASSUME ManagedDirs == Managed \subseteq Dirs
ASSUME CapacityPositive == Capacity \in Nat \ {0}

VARIABLES
    plugins,   \* PluginManager.plugins: the registered handles
    booter,    \* the call that holds the lock of app_to_plugin_events_tx
    call,      \* each call: its kind, how far it is, whom it asked, who answered
    toPlugin,  \* events on their way to the runtime, in order
    runtime,   \* plugins of index.ts: the handles with an instance
    job,       \* onMessage of an instance at work on the request of a call
    inbox,     \* the channel of the subscriber "app", the monitor
    handler,   \* handle_plugin_event, at work on what a job asked for
    disturbed  \* a handle was taken off plugins, an event was lost, or a
               \* handler or a dispose failed (history: nothing reads it)

vars == <<plugins, booter, call, toPlugin, runtime, job, inbox,
          handler, disturbed>>
appVars == <<plugins, booter, handler>>

Refs == Calls \cup Built
Jobs == Refs \X Calls
Kinds == {"ask", "tell", "boot", "uninstall", "reload"}
ASSUME NoneIsNoKind == None \notin Kinds
CallRecord == [kind : Kinds \cup {None}, dir : Dirs \cup {None},
               at : {"idle", "queued", "waiting", "matched", "done", "failed"},
               asked : SUBSET Refs, got : Seq(Refs), ok : BOOLEAN]
NoCall == [kind |-> None, dir |-> None, at |-> "idle", asked |-> {}, got |-> <<>>, ok |-> TRUE]
Event(type, p, c) == [type |-> type, ref |-> p, of |-> c]
Events == [type : {"boot", "stop", "list", "run", "reply", "answer", "error", "request", "noise"},
           ref : Refs, of : Calls]
DirIs(p) == IF p \in Built THEN p ELSE call[p].dir

Init ==
    /\ plugins = Built /\ runtime = Built
    /\ booter = None /\ disturbed = FALSE
    /\ call = [c \in Calls |-> NoCall]
    /\ toPlugin = <<>>
    /\ job = [j \in Jobs |-> "none"]
    /\ handler = [j \in Jobs |-> "none"]
    /\ inbox = <<>>

-----------------------------------------------------------------------------
(* Requests of the application.                                            *)

\* One event of the given type to each of a set of handles.
SendTo(ps, type, c) ==
    toPlugin' = toPlugin \o [i \in 1..Cardinality(ps) |-> Event(type, SetToSeq(ps)[i], c)]

\* send_to_plugins_and_wait up to the join: subscribe, then send.
Request(c, kind, dir, ps, type) ==
    /\ call' = [call EXCEPT ![c] = [kind |-> kind, dir |-> dir, at |-> "waiting",
                                    asked |-> ps, got |-> <<>>, ok |-> TRUE]]
    /\ SendTo(ps, type, c)

\* Ask every registered plugin (send_and_wait) or one of them.
Ask(c) ==
    /\ call[c].at = "idle"
    /\ \E ps \in {plugins} \cup {{p} : p \in plugins}, type \in {"list", "run"} :
          Request(c, "ask", None, ps, type)
    /\ UNCHANGED <<plugins, booter, runtime, job, inbox, handler, disturbed>>

\* Run a request action of a plugin: sent, and nobody waits for the answer.
Tell(c) ==
    /\ call[c].at = "idle"
    /\ \E p \in plugins : SendTo({p}, "run", c)
    /\ call' = [call EXCEPT ![c].kind = "tell", ![c].at = "done"]
    /\ UNCHANGED <<plugins, booter, runtime, job, inbox, handler, disturbed>>

\* Install, or the second half of a reload: queue for the lock.
StartBoot(c, d) ==
    /\ call[c].at = "idle"
    /\ call' = [call EXCEPT ![c].kind = "boot", ![c].dir = d, ![c].at = "queued"]
    /\ UNCHANGED <<plugins, booter, toPlugin, runtime, job, inbox, handler, disturbed>>

Boot(c) ==
    /\ call[c].at = "queued" /\ booter = None
    /\ booter' = c
    /\ Request(c, "boot", call[c].dir, {c}, "boot")
    /\ UNCHANGED <<plugins, runtime, job, inbox, handler, disturbed>>

\* remove_plugin, of uninstall or of the reload of a directory.
Stop(c, d, kind) ==
    /\ call[c].at = "idle"
    /\ \E p \in plugins : DirIs(p) = d /\ Request(c, kind, d, {p}, "stop")
    /\ UNCHANGED <<plugins, booter, runtime, job, inbox, handler, disturbed>>

\* Mutant: answers are matched by plugin, not by the event they answer.
CountsByRef(c, e) == e.type \in {"answer", "error"} /\ e.ref \in call[c].asked
\* The task that counts the answers to the events that were sent.
Counts(c, e) == e.type \in {"answer", "error"} /\ e.of = c /\ e.ref \in call[c].asked
Matched(c, e) ==
    LET got == IF Counts(c, e) THEN Append(call[c].got, e.ref) ELSE call[c].got
    IN [call[c] EXCEPT !.got = got,
                       !.ok = @ /\ ~(Counts(c, e) /\ e.type = "error"),
                       !.at = IF Len(got) = Cardinality(call[c].asked) THEN "matched" ELSE @]

AskReturns(c) ==
    /\ call[c].kind = "ask" /\ call[c].at = "matched"
    /\ call' = [call EXCEPT ![c].at = "done"]
    /\ UNCHANGED <<plugins, booter, toPlugin, runtime, job, inbox, handler, disturbed>>

\* Mutant: the handle that had the directory stays.
RegistersBoth(c) == plugins \cup {c}
\* The handle takes the place of the one that had its directory.
Registering(c) == {p \in plugins : DirIs(p) # call[c].dir} \cup {c}
BootReturns(c) ==
    /\ call[c].kind = "boot" /\ call[c].at = "matched"
    /\ booter' = None
    /\ plugins' = IF call[c].ok THEN Registering(c) ELSE plugins
    /\ disturbed' = (disturbed \/ plugins \ plugins' # {})
    /\ call' = [call EXCEPT ![c].at = IF call[c].ok THEN "done" ELSE "failed"]
    /\ UNCHANGED <<toPlugin, runtime, job, inbox, handler>>

\* Mutant: no timeout.
NeverTimesOut(c) == FALSE /\ UNCHANGED vars
\* Five seconds: the wait is dropped, and with it the lock.
BootTimesOut(c) ==
    /\ call[c].kind = "boot" /\ call[c].at \in {"waiting", "matched"}
    /\ booter' = None
    /\ call' = [call EXCEPT ![c].at = "failed"]
    /\ UNCHANGED <<plugins, toPlugin, runtime, job, inbox, handler, disturbed>>

\* Mutant: a stopped plugin stays registered.
ForgetsRemoval(c) == plugins
Removing(c) == plugins \ call[c].asked
StopReturns(c) ==
    /\ call[c].kind \in {"uninstall", "reload"} /\ call[c].at = "matched"
    /\ plugins' = Removing(c)
    /\ disturbed' = (disturbed \/ plugins \ plugins' # {})
    /\ call' = [call EXCEPT ![c].kind = IF @ = "reload" THEN "boot" ELSE @,
                            ![c].at = IF call[c].kind = "reload" THEN "queued" ELSE "done"]
    /\ UNCHANGED <<booter, toPlugin, runtime, job, inbox, handler>>

-----------------------------------------------------------------------------
(* The runtime: index.ts and PluginInstance.                               *)

\* Mutant: off by one.
RoomForOneMore == Len(inbox) > Capacity
\* An event of an instance crosses the websocket and the forwarder gives it
\* to every subscriber.  A call's own task takes it at once; the monitor's
\* channel keeps the requests, and a request that finds it full is lost.
Full == Len(inbox) >= Capacity
Emit(type, j) ==
    LET e == Event(type, j[1], j[2])
    IN /\ call' = [c \in Calls |-> IF call[c].at = "waiting" THEN Matched(c, e) ELSE call[c]]
       /\ inbox' = IF type = "request" /\ ~Full THEN Append(inbox, e) ELSE inbox
       /\ disturbed' = (disturbed \/ (type = "request" /\ Full))

\* handleIncoming takes the next event of the websocket.
Incoming(type) ==
    /\ toPlugin # <<>> /\ Head(toPlugin).type = type
    /\ toPlugin' = Tail(toPlugin)
    /\ UNCHANGED <<plugins, booter, handler>>
TheJob == <<Head(toPlugin).ref, Head(toPlugin).of>>
Heard == TheJob[1] \in runtime
Quiet == UNCHANGED <<call, inbox, disturbed>>

\* A boot makes the instance, or throws when the module cannot be loaded,
\* and then nobody answers.
BootArrives ==
    /\ Incoming("boot")
    /\ \/ runtime' = runtime \cup {TheJob[1]} /\ job' = [job EXCEPT ![TheJob] = "fresh"]
       \/ UNCHANGED <<runtime, job>>
    /\ Quiet

\* An event for a handle that has no instance is dropped.
Unheard ==
    /\ \E type \in {"list", "run", "stop", "reply"} : Incoming(type)
    /\ ~Heard
    /\ UNCHANGED <<runtime, job>> /\ Quiet

\* What the plugin offers is listed in the same turn.
ListArrives ==
    /\ Incoming("list") /\ Heard
    /\ Emit("answer", TheJob)
    /\ UNCHANGED <<runtime, job>>

RunArrives ==
    /\ Incoming("run") /\ Heard
    /\ job' = [job EXCEPT ![TheJob] = "fresh"]
    /\ UNCHANGED runtime /\ Quiet

StopArrives ==
    /\ Incoming("stop") /\ Heard
    /\ job' = [job EXCEPT ![TheJob] = "disposing"]
    /\ UNCHANGED runtime /\ Quiet

\* sendAndWaitForReply resolves.  onMessage sees the event too, finds no
\* match for it and sends back an empty response.
ReplyArrives ==
    /\ Incoming("reply") /\ Heard
    /\ job' = [job EXCEPT ![TheJob] = IF @ = "asking" THEN "resumed" ELSE @]
    /\ Emit("noise", TheJob)
    /\ UNCHANGED runtime

\* A plugin's code uses its ctx: one request, awaited.
UseContext(j) ==
    /\ job[j] = "fresh"
    /\ job' = [job EXCEPT ![j] = "asking"]
    /\ Emit("request", j)
    /\ UNCHANGED <<toPlugin, runtime>> /\ UNCHANGED appVars

Ends(j, type) ==
    /\ job[j] \in {"fresh", "resumed"}
    /\ job' = [job EXCEPT ![j] = "over"]
    /\ Emit(type, j)
    /\ UNCHANGED <<toPlugin, runtime>> /\ UNCHANGED appVars
\* The plugin's code returns, or there is none for this request: a result
\* or an empty response.
Finish(j) == Ends(j, "answer")
\* It throws.  The difference matters to a boot only.
Throw(j) == j[1] = j[2] /\ Ends(j, "error")

\* The instance has been disposed of: it leaves the table and answers.
Disposed(j) ==
    /\ job[j] = "disposing"
    /\ job' = [job EXCEPT ![j] = "over"]
    /\ runtime' = runtime \ {j[1]}
    /\ Emit("answer", j)
    /\ UNCHANGED toPlugin /\ UNCHANGED appVars

\* dispose throws outside of onMessage: the instance stays, no answer.
DisposeThrows(j) ==
    /\ job[j] = "disposing"
    /\ job' = [job EXCEPT ![j] = "over"]
    /\ disturbed' = TRUE
    /\ UNCHANGED <<toPlugin, runtime, call, inbox>> /\ UNCHANGED appVars

-----------------------------------------------------------------------------
(* Events that reach the application.                                      *)

\* Mutant: the monitor waits for its handler.
MonitorWaits == \A j \in Jobs : handler[j] \notin {"running"} \cup Calls
\* monitor_plugin_events: a handler of its own for every request, so the
\* monitor is free for the next event.
MonitorFree == TRUE
Monitor ==
    /\ inbox # <<>> /\ MonitorFree
    /\ LET e == Head(inbox)
           j == <<e.ref, e.of>>
       IN handler' = IF e.type = "request" /\ e.ref \in plugins
                     THEN [handler EXCEPT ![j] = "running"] ELSE handler
    /\ inbox' = Tail(inbox)
    /\ UNCHANGED <<plugins, booter, call, toPlugin, runtime, job, disturbed>>

\* What the plugin asked for renders templates: their functions are put to
\* every plugin, the asking one too.
Render(j) ==
    /\ handler[j] = "running"
    /\ \E c \in Calls : /\ call[c].at = "idle"
                        /\ Request(c, "ask", None, plugins, "run")
                        /\ handler' = [handler EXCEPT ![j] = c]
    /\ UNCHANGED <<plugins, booter, runtime, job, inbox, disturbed>>

Ready(j) == \/ handler[j] = "running"
            \/ handler[j] \in Calls /\ call[handler[j]].at = "done"
\* The reply goes to the handle while it is registered.
Reply(j) ==
    /\ Ready(j)
    /\ handler' = [handler EXCEPT ![j] = "over"]
    /\ IF j[1] \in plugins THEN SendTo({j[1]}, "reply", j[2]) ELSE UNCHANGED toPlugin
    /\ UNCHANGED <<plugins, booter, call, runtime, job, inbox, disturbed>>

\* A failed send or rendering ends the handler without a reply.
GiveUp(j) ==
    /\ Ready(j)
    /\ handler' = [handler EXCEPT ![j] = "over"]
    /\ disturbed' = TRUE
    /\ UNCHANGED <<plugins, booter, call, toPlugin, runtime, job, inbox>>

-----------------------------------------------------------------------------
User(c) ==
    \/ Ask(c) \/ Tell(c)
    \/ \E d \in Managed : StartBoot(c, d) \/ Stop(c, d, "uninstall") \/ Stop(c, d, "reload")
Manager(c) == Boot(c) \/ AskReturns(c) \/ BootReturns(c) \/ StopReturns(c)
Arrive ==
    \/ BootArrives \/ Unheard \/ ListArrives \/ RunArrives \/ StopArrives \/ ReplyArrives
Work(j) == UseContext(j) \/ Finish(j) \/ Throw(j) \/ Disposed(j) \/ DisposeThrows(j)
Serve(j) == Render(j) \/ Reply(j) \/ GiveUp(j)

System ==
    \/ \E c \in Calls : Manager(c) \/ BootTimesOut(c)
    \/ Arrive \/ Monitor
    \/ \E j \in Jobs : Work(j) \/ Serve(j)
Next == System \/ \E c \in Calls : User(c)

Spec == Init /\ [][Next]_vars

\* The system does not stop while it has something to do: queues are read,
\* a plugin's own code comes to an end, a boot that is not answered times
\* out.  Every call is made once, so this much fairness is all there is to
\* ask for.  Nothing is asked of the user.
Fairness == WF_vars(System)
FairSpec == Spec /\ Fairness

-----------------------------------------------------------------------------
(* Every variable has its type, and no channel holds more than it can. *)
TypeOK ==
    /\ plugins \subseteq Refs /\ runtime \subseteq Refs 
    /\ booter \in Calls \cup {None} /\ disturbed \in BOOLEAN
    /\ call \in [Calls -> CallRecord]
    /\ toPlugin \in Seq(Events)
    /\ job \in [Jobs -> {"none", "fresh", "asking", "resumed", "disposing", "over"}]
    /\ handler \in [Jobs -> {"none", "running", "over"} \cup Calls]
    /\ inbox \in Seq(Events) /\ Len(inbox) <= Capacity

(* A directory has one registered handle, whatever installs, reloads and   *)
(* uninstalls overlap: get_plugin_by_dir and get_plugin_by_name take the   *)
(* first they find. *)
OnePerDir == \A p, q \in plugins : DirIs(p) = DirIs(q) => p = q

(* A registered handle has an instance in the runtime that will hear what  *)
(* is sent to it, unless somebody is stopping it. *)
BeingStopped(p) == \E c \in Calls : /\ call[c].kind \in {"uninstall", "reload"}
                                    /\ call[c].at \in {"waiting", "matched"}
                                    /\ p \in call[c].asked
RegisteredIsLive == \A p \in plugins : p \in runtime \/ BeingStopped(p)

(* The registry of handles is sound, both ways.                            *)
RegistryIsSound == OnePerDir /\ RegisteredIsLive

(* Requests returned hold one answer of every plugin asked, their own, and *)
(* only a boot is given up: the manager implements Requests. *)
Abstract == INSTANCE Requests WITH
    open <- [c \in Calls |-> call[c].at \in {"waiting", "matched"}],
    timed <- [c \in Calls |-> call[c].kind = "boot" /\ call[c].at # "queued"],
    asked <- [c \in Calls |-> call[c].asked],
    answered <- [c \in Calls |-> {call[c].got[i] : i \in DOMAIN call[c].got}]
AnswersPaired == Abstract!Spec

(* While no handle leaves, no channel overflows and no handler gives up,   *)
(* a request is answered: the calls a plugin makes back into the           *)
(* application, and those the application makes back into plugins on its   *)
(* behalf, wait on each other but never in a circle. *)
Served == \A c \in Calls :
    call[c].at = "waiting" /\ call[c].asked # {} ~> call[c].at # "waiting" \/ disturbed

(* The lock that a boot holds is given back, also when the plugin never    *)
(* answers or asks the application for something first, which the monitor  *)
(* ignores because the handle is not registered yet. *)
BootLockReturns == booter # None ~> booter = None

(* "so the caller doesn't block forever" (PluginInstance.ts, at the end of *)
(* onMessage): a call that waits for plugins does not wait for ever. *)
CallsReturn == \A c \in Calls : call[c].at = "waiting" ~> call[c].at # "waiting"
=============================================================================
