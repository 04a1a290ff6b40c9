--------------------------- MODULE PluginSettings ----------------------------
(***************************************************************************)
(* The page of the settings that lists the installed plugins: a row of the *)
(* database for each, with the version that the application says it runs   *)
(* and the newer one that the registry offers.  One plugin comes from the  *)
(* registry, the other is a directory of the person's own, which is picked *)
(* and added once (a second time would make a second row for it).          *)
(*                                                                         *)
(* An answer is what the application knows when it is given; the news of a *)
(* row is that of its last write.  The registry is modelled by the version *)
(* it has published.                                                       *)
(***************************************************************************)
EXTENDS Integers, Sequences, SequencesExt

CONSTANTS MaxWrites,  \* bound: writes of rows
          MaxVersion, \* bound: versions published
          MaxJobs     \* bound: commands under way

Reg == "reg"
Own == "own"
Ids == {Reg, Own}
Dir(id) == IF id = Reg THEN "registry" ELSE "local"
Dirs == {"registry", "local"}
None == 0

VARIABLES
    rows,      \* the rows of the database: id -> when it was written, or None
    writes,    \* how many there were
    published, \* the version of the registry
    disk,      \* the version in each directory
    running,   \* the version that runs from each, or None
    jobs,      \* commands: [does, id, stage, left], left the directories to reload
    shown,     \* the rows that the window knows, as rows
    info,      \* id -> [version, own, asking]: what is displayed of it, whether it
               \* was answered for this row as it is, whether it is being asked
    offered,   \* [version, asking]: what the registry offers
    clashed    \* two commands for a directory at once

vars == <<rows, writes, published, disk, running, jobs, shown, info, offered,
          clashed>>

Nothing == [version |-> None, own |-> FALSE, asking |-> FALSE]

TypeOK ==
    /\ \A id \in Ids : rows[id] <= writes /\ shown[id] <= writes
    /\ published \in 1..MaxVersion /\ clashed \in BOOLEAN
    /\ \A d \in Dirs : disk[d] \in 1..MaxVersion /\ running[d] \in 0..MaxVersion
    /\ \A id \in Ids : info[id] \in [version : 0..MaxVersion, own : BOOLEAN, asking : BOOLEAN]
    /\ offered \in [version : 0..MaxVersion, asking : BOOLEAN]
    /\ \A i \in DOMAIN jobs : jobs[i].does \in {"update", "add", "uninstall", "reload"}

\* The page is opened: the registry's plugin is there.
Init ==
    /\ rows = [id \in Ids |-> IF id = Reg THEN 1 ELSE None] /\ writes = 1
    /\ published \in 1..MaxVersion
    /\ disk = [d \in Dirs |-> 1]
    /\ running = [d \in Dirs |-> IF d = Dir(Reg) THEN 1 ELSE None]
    /\ jobs = <<>>
    /\ shown = rows
    /\ info = [id \in Ids |-> [Nothing EXCEPT !.asking = rows[id] # None]]
    /\ offered = [version |-> None, asking |-> TRUE]
    /\ clashed = FALSE

-----------------------------------------------------------------------------
(* What the window asks. *)

\* Mutant: the key does not tell when the row was written
IdOnly(id, known) == <<id, known[id] # None>>
\* The key of a plugin's information.
InfoKey(id, known) == <<id, known[id]>>

\* Mutant: the key does not tell when the rows were written
IdsOnly(known) == {id \in Ids : known[id] # None}
\* The key of the updates.
PluginsKey(known) == {<<id, known[id]>> : id \in {i \in Ids : known[i] # None}}

\* The window learns of rows: a key that is new is asked, and what was displayed for the
\* old one stays meanwhile; an offer does not.
Learned(known, all) ==
    /\ shown' = known
    /\ info' = [id \in Ids |->
          IF known[id] = None THEN Nothing
          ELSE IF InfoKey(id, known) # InfoKey(id, shown)
               THEN [info[id] EXCEPT !.own = FALSE, !.asking = TRUE]
          ELSE [info[id] EXCEPT !.asking = @ \/ all]]
    /\ offered' = IF PluginsKey(known) = PluginsKey(shown) THEN offered
                  ELSE [version |-> None, asking |-> TRUE]

News(id) ==
    /\ shown[id] # rows[id]
    /\ Learned([shown EXCEPT ![id] = rows[id]], FALSE)
    /\ UNCHANGED <<rows, writes, published, disk, running, jobs, clashed>>

\* The application knows a plugin that has a row and runs from its directory; an error
\* leaves what was answered before for the same key.
Informed(id) ==
    /\ info[id].asking
    /\ LET known == rows[id] # None /\ running[Dir(id)] # None
       IN  info' = [info EXCEPT ![id] =
             [version |-> IF known THEN running[Dir(id)]
                          ELSE IF info[id].own THEN info[id].version ELSE None,
              own |-> known \/ info[id].own, asking |-> FALSE]]
    /\ UNCHANGED <<rows, writes, published, disk, running, jobs, shown, offered,
                   clashed>>

\* The registry compares the versions in the directories with its own.
Offered ==
    /\ offered.asking
    /\ offered' = [version |-> IF rows[Reg] # None /\ disk[Dir(Reg)] < published
                               THEN published ELSE None,
                   asking |-> FALSE]
    /\ UNCHANGED <<rows, writes, published, disk, running, jobs, shown, info,
                   clashed>>

\* The window gets the focus: all that is displayed is asked again.
Focus ==
    /\ info' = [id \in Ids |-> [info[id] EXCEPT !.asking = shown[id] # None]]
    /\ offered' = [offered EXCEPT !.asking = TRUE]
    /\ UNCHANGED <<rows, writes, published, disk, running, jobs, shown, clashed>>

Publish ==
    /\ published < MaxVersion /\ published' = published + 1
    /\ UNCHANGED <<rows, writes, disk, running, jobs, shown, info, offered, clashed>>

-----------------------------------------------------------------------------
(* The commands. *)

Touches(job) == IF job.does = "reload" THEN Dirs ELSE {Dir(job.id)}

Pending(does) == \E i \in DOMAIN jobs : jobs[i].does = does

\* A command starts.
Start(job) ==
    /\ Len(jobs) < MaxJobs
    /\ jobs' = Append(jobs, job)
    /\ clashed' = (clashed \/ \E i \in DOMAIN jobs : Touches(jobs[i]) \cap Touches(job) # {})

\* The button of a row, there when a newer version is offered.
Update ==
    /\ shown[Reg] # None /\ info[Reg].version # None /\ offered.version # None
    /\ ~Pending("update")
    /\ Start([does |-> "update", id |-> Reg, stage |-> "download", left |-> <<>>])
    /\ UNCHANGED <<rows, writes, published, disk, running, shown, info, offered>>

\* The person says yes to uninstalling the plugin of a row.
Uninstall(id) ==
    /\ shown[id] # None /\ info[id].version # None
    /\ \A i \in DOMAIN jobs : jobs[i].does # "uninstall" \/ jobs[i].id # id
    /\ Start([does |-> "uninstall", id |-> id, stage |-> "delete", left |-> <<>>])
    /\ UNCHANGED <<rows, writes, published, disk, running, shown, info, offered>>

\* A directory is chosen in the footer and added, unless it is there.
Add ==
    /\ rows[Own] = None /\ shown[Own] = None /\ ~Pending("add")
    /\ Start([does |-> "add", id |-> Own, stage |-> "boot", left |-> <<>>])
    /\ UNCHANGED <<rows, writes, published, disk, running, shown, info, offered>>

\* All plugins are to be loaded again: those that have a row now.
Refresh ==
    /\ Start([does |-> "reload", id |-> Reg, stage |-> "boot",
              left |-> SelectSeq(<<Reg, Own>>, LAMBDA id : rows[id] # None)])
    /\ UNCHANGED <<rows, writes, published, disk, running, shown, info, offered>>

Goes(i, stage) == jobs' = [jobs EXCEPT ![i].stage = stage]
Ends(i) == jobs' = RemoveAt(jobs, i)

\* The archive replaces what is in the directory.
Downloaded(i) ==
    /\ jobs[i].stage = "download"
    /\ disk' = [disk EXCEPT ![Dir(Reg)] = published]
    /\ Goes(i, "boot")
    /\ UNCHANGED <<rows, writes, published, running, shown, info, offered, clashed>>

\* The plugin in the directory runs, instead of one that did.
Boot(i) ==
    /\ jobs[i].does # "reload" /\ jobs[i].stage = "boot"
    /\ running' = [running EXCEPT ![Dir(jobs[i].id)] = disk[Dir(jobs[i].id)]]
    /\ Goes(i, "write")
    /\ UNCHANGED <<rows, writes, published, disk, shown, info, offered, clashed>>

\* The row is written: that of the registry's plugin, or a new one.
Write(i) ==
    /\ jobs[i].stage = "write" /\ writes < MaxWrites
    /\ writes' = writes + 1
    /\ rows' = [rows EXCEPT ![jobs[i].id] = writes + 1]
    /\ Ends(i)
    /\ UNCHANGED <<published, disk, running, shown, info, offered, clashed>>

\* The row goes first; it is an error if it is gone.
Delete(i) ==
    /\ jobs[i].stage = "delete"
    /\ rows' = [rows EXCEPT ![jobs[i].id] = None]
    /\ IF rows[jobs[i].id] = None THEN Ends(i) ELSE Goes(i, "terminate")
    /\ UNCHANGED <<writes, published, disk, running, shown, info, offered, clashed>>

\* Then what runs from its directory.
Terminate(i) ==
    /\ jobs[i].stage = "terminate"
    /\ running' = [running EXCEPT ![Dir(jobs[i].id)] = None]
    /\ Ends(i)
    /\ UNCHANGED <<rows, writes, published, disk, shown, info, offered, clashed>>

\* The next plugin is loaded again; after the last the rows are read, and what the
\* window knows of plugins is asked again.
Reload(i) ==
    /\ jobs[i].does = "reload"
    /\ IF jobs[i].left # <<>>
       THEN /\ running' = [running EXCEPT ![Dir(Head(jobs[i].left))] = disk[Dir(Head(jobs[i].left))]]
            /\ jobs' = [jobs EXCEPT ![i].left = Tail(@)]
            /\ UNCHANGED <<shown, info, offered>>
       ELSE Learned(rows, TRUE) /\ Ends(i) /\ UNCHANGED running
    /\ UNCHANGED <<rows, writes, published, disk, clashed>>

Next ==
    \/ \E id \in Ids : News(id) \/ Informed(id) \/ Uninstall(id)
    \/ Offered \/ Focus \/ Publish \/ Update \/ Add \/ Refresh
    \/ \E i \in DOMAIN jobs :
          Downloaded(i) \/ Boot(i) \/ Write(i) \/ Delete(i) \/ Terminate(i) \/ Reload(i)

Spec == Init /\ [][Next]_vars

-----------------------------------------------------------------------------
(* Properties. *)

Settled ==
    /\ jobs = <<>> /\ shown = rows /\ ~offered.asking
    /\ \A id \in Ids : ~info[id].asking

\* When all is done the page lists each plugin with the version that runs, what has no
\* row does not run, and an update is offered only of an older one (usePluginInfo and
\* usePluginUpdates, keyed by when the rows were written); unless commands for one
\* directory met.
ListsWhatRuns ==
    Settled /\ ~clashed =>
        /\ \A id \in Ids : shown[id] # None =>
              info[id].version # None /\ info[id].version = running[Dir(id)]
        /\ \A d \in Dirs : running[d] # None => \E id \in Ids : Dir(id) = d /\ shown[id] # None
        /\ offered.version # None => offered.version > running[Dir(Reg)]
=============================================================================
