----------------------------- MODULE Websocket ------------------------------
(* WebSocket connections of one request (yaak-ws).  A command of a window  *)
(* (connect, send, close) runs beside the commands of other windows; they  *)
(* share the manager behind one outer lock and the manager's table of      *)
(* write halves behind an inner one.  Each open connection has a read task *)
(* that queues the frames of the server and a forwarder that stores them   *)
(* as events of the connection's row; users delete rows at any moment.     *)
EXTENDS Naturals, Sequences, FiniteSets

CONSTANTS
    Conns,      \* connections, numbered in the order their rows are created
    Callers,    \* places for a command under way, of any window
    Capacity,   \* capacity of the channel from read task to forwarder (128)
    History,    \* MAX_HISTORY_ITEMS
    MaxFrames,  \* bound: data frames a server sends on a connection
    MaxSends    \* bound: messages the user sends

ASSUME ConnsAssumption == Conns \subseteq Nat \ {0}
ASSUME BoundsAssumption ==
    /\ Capacity \in Nat \ {0}
    /\ History \in Nat \ {0}
    /\ MaxFrames \in Nat
    /\ MaxSends \in Nat

VARIABLES
    row,      \* row[c]: state of the websocket_connections row, or its absence
    log,      \* log[c]: the websocket_events rows of c
    request,  \* whether the websocket_requests row still exists
    cmd,      \* cmd[k]: the step command k is at, and its connection
    outer,    \* State<Mutex<WebsocketManager>>: its holder, then who waits
    sockets,  \* WebsocketManager.connections: the write halves
    tasks,    \* WebsocketManager.read_tasks: the handles
    reader,   \* reader[c]: the read task
    peer,     \* peer[c]: the server's end of the socket
    spoken,   \* spoken[c]: frames the server has sent
    heard,    \* heard[c]: frames the read task has queued
    queue,    \* queue[c]: the channel to the forwarder
    fwd,      \* fwd[c]: the forwarder
    sends     \* messages the user has sent

rows == <<row, log>>
locks == <<cmd, outer>>
manager == <<sockets, tasks>>
stream == <<reader, heard, queue>>
server == <<peer, spoken>>
vars == <<row, log, request, cmd, outer, sockets, tasks, reader, peer,
          spoken, heard, queue, fwd, sends>>

-----------------------------------------------------------------------------
(* Rows.                                                                   *)

\* Events: a frame of the server by its place in the stream, or a mark.
Frame(n) == [what |-> "frame", n |-> n]
Mark(what) == [what |-> what, n |-> 0]
Events == [what : {"open", "frame", "sent", "close"}, n : Nat]

States == {"initialized", "connected", "closing", "closed"}
Stored == {c \in Conns : row[c] \in States}

Newer(c) == {d \in Stored : d > c}

\* list_websocket_connections_for_request is newest first; what comes after
\* the first History - 1 is deleted, and its events with it.
Pruned == {c \in Stored : Cardinality(Newer(c)) >= History - 1}

\* upsert_websocket_connection inserts the row when it is not there.
Upsert(c, state) ==
    /\ request
    /\ row' = [d \in Conns |-> IF d = c THEN state
                               ELSE IF d \in Pruned THEN "gone" ELSE row[d]]
    /\ log' = [d \in Conns |-> IF d \in Pruned THEN <<>> ELSE log[d]]

\* The foreign keys refuse a connection whose request was deleted...
UpsertFails == ~request /\ UNCHANGED rows

\* ...and an event whose connection was.
AddEvent(c, event) ==
    /\ c \in Stored
    /\ log' = [log EXCEPT ![c] = Append(@, event)]
    /\ UNCHANGED row
AddFails(c) == c \notin Stored /\ UNCHANGED rows

Drop(gone) ==
    /\ row' = [c \in Conns |-> IF c \in gone THEN "gone" ELSE row[c]]
    /\ log' = [c \in Conns |-> IF c \in gone THEN <<>> ELSE log[c]]

-----------------------------------------------------------------------------
(* Commands and locks.                                                     *)

Idle == [at |-> "idle", conn |-> 0]

\* Steps of connect, of send and of close.
Connecting == {"preparing", "dialing", "opened", "recorded"}
Sending == {"sending", "writing"}
Closing == {"marking", "closing", "saying", "grace"}
Steps == Connecting \union Sending \union Closing

Runs(k, step) == cmd[k].at = step
GoTo(k, step) == cmd' = [cmd EXCEPT ![k].at = step]
Begin(k, step, c) == cmd' = [cmd EXCEPT ![k] = [at |-> step, conn |-> c]]
Return(k) == cmd' = [cmd EXCEPT ![k] = Idle]

\* tokio's Mutex serves its waiters in the order they came.
Holds(k) == outer # <<>> /\ Head(outer) = k
Enqueue(k) == outer' = Append(outer, k)
Release == outer' = Tail(outer)

\* The lock of the table of write halves is held while a frame is written.
InnerBusy == \E k \in Callers : cmd[k].at \in {"writing", "saying"}

\* The receiving end of the channel belongs to connect until the forwarder
\* takes it; either drops it when it fails.
ReceiverAlive(c) ==
    \/ fwd[c] \in {"running", "said"}
    \/ \E k \in Callers : cmd[k].conn = c /\ cmd[k].at \in {"opened", "recorded"}

-----------------------------------------------------------------------------
Init ==
    /\ row = [c \in Conns |-> "unborn"]
    /\ log = [c \in Conns |-> <<>>]
    /\ request = TRUE
    /\ cmd = [k \in Callers |-> Idle]
    /\ outer = <<>>
    /\ sockets = {}
    /\ tasks = {}
    /\ reader = [c \in Conns |-> "none"]
    /\ peer = [c \in Conns |-> "none"]
    /\ spoken = [c \in Conns |-> 0]
    /\ heard = [c \in Conns |-> 0]
    /\ queue = [c \in Conns |-> <<>>]
    /\ fwd = [c \in Conns |-> "none"]
    /\ sends = 0

-----------------------------------------------------------------------------
(* connect                                                                 *)

Fresh(c) == row[c] = "unborn" /\ \A d \in Conns : d < c => row[d] # "unborn"

StartConnect(k) == \E c \in Conns :
    /\ Runs(k, "idle")
    /\ Fresh(c)
    /\ Upsert(c, "initialized")
    /\ Begin(k, "preparing", c)
    /\ UNCHANGED <<request, outer, manager, stream, server, fwd, sends>>

\* The URL does not parse; or authentication or the cookie jar fails, and
\* the row stays as it is.
PrepareFails(k) ==
    /\ Runs(k, "preparing")
    /\ Upsert(cmd[k].conn, "closed") \/ UpsertFails \/ UNCHANGED rows
    /\ Return(k)
    /\ UNCHANGED <<request, outer, manager, stream, server, fwd, sends>>

Prepared(k) ==
    /\ Runs(k, "preparing")
    /\ GoTo(k, "dialing")
    /\ Enqueue(k)
    /\ UNCHANGED <<rows, request, manager, stream, server, fwd, sends>>

DialFails(k) ==
    /\ Runs(k, "dialing")
    /\ Holds(k)
    /\ Upsert(cmd[k].conn, "closed") \/ UpsertFails
    /\ Return(k)
    /\ Release
    /\ UNCHANGED <<request, manager, stream, server, fwd, sends>>

\* The handshake succeeded: the write half is in the table, the read task
\* has been spawned.
Dial(k) ==
    /\ Runs(k, "dialing")
    /\ Holds(k)
    /\ ~InnerBusy
    /\ sockets' = sockets \union {cmd[k].conn}
    /\ reader' = [reader EXCEPT ![cmd[k].conn] = "reading"]
    /\ peer' = [peer EXCEPT ![cmd[k].conn] = "open"]
    /\ GoTo(k, "opened")
    /\ UNCHANGED <<rows, request, outer, tasks, spoken, heard, queue, fwd, sends>>

\* The handle is kept and the Open event stored; when it cannot be, connect
\* returns the error with the socket in the table.
RecordOpen(k) ==
    /\ Runs(k, "opened")
    /\ tasks' = tasks \union {cmd[k].conn}
    /\ \/ /\ AddEvent(cmd[k].conn, Mark("open"))
          /\ GoTo(k, "recorded")
          /\ UNCHANGED outer
       \/ /\ AddFails(cmd[k].conn)
          /\ Return(k)
          /\ Release
    /\ UNCHANGED <<request, sockets, stream, server, fwd, sends>>

MarkConnected(k) ==
    /\ Runs(k, "recorded")
    /\ Upsert(cmd[k].conn, "connected")
    /\ fwd' = [fwd EXCEPT ![cmd[k].conn] = "running"]
    /\ Return(k)
    /\ Release
    /\ UNCHANGED <<request, manager, stream, server, sends>>

\* The row cannot be written, or a response header is not text (unwrap).
ConnectBreaks(k) ==
    /\ Runs(k, "recorded")
    /\ Return(k)
    /\ Release
    /\ UNCHANGED <<rows, request, manager, stream, server, fwd, sends>>

-----------------------------------------------------------------------------
(* send                                                                    *)

StartSend(k) == \E c \in Stored :
    /\ Runs(k, "idle")
    /\ sends < MaxSends
    /\ sends' = sends + 1
    /\ Begin(k, "sending", c)
    /\ Enqueue(k)
    /\ UNCHANGED <<rows, request, manager, stream, server, fwd>>

\* send returns: the message is stored as an event, or storing it fails.
NoteSent(k) ==
    /\ AddEvent(cmd[k].conn, Mark("sent")) \/ AddFails(cmd[k].conn)
    /\ Return(k)
    /\ Release

\* No socket: manager.send answers Ok.
SendNowhere(k) ==
    /\ Runs(k, "sending")
    /\ Holds(k)
    /\ cmd[k].conn \notin sockets
    /\ NoteSent(k)
    /\ UNCHANGED <<request, manager, stream, server, fwd, sends>>

\* Mutant: the manager is not locked while the frame is written.
StartWriteUnlocked(k) ==
    /\ Runs(k, "sending")
    /\ cmd[k].conn \in sockets
    /\ ~InnerBusy
    /\ GoTo(k, "writing")
    /\ UNCHANGED <<rows, request, outer, manager, stream, server, fwd, sends>>

StartWrite(k) ==
    /\ Runs(k, "sending")
    /\ Holds(k)
    /\ cmd[k].conn \in sockets
    /\ ~InnerBusy
    /\ GoTo(k, "writing")
    /\ UNCHANGED <<rows, request, outer, manager, stream, server, fwd, sends>>

\* The server's end has taken the frame.
WriteDone(k) ==
    /\ Runs(k, "writing")
    /\ NoteSent(k)
    /\ UNCHANGED <<request, manager, stream, server, fwd, sends>>

WriteFails(k) ==
    /\ Runs(k, "writing")
    /\ peer[cmd[k].conn] # "open"
    /\ Return(k)
    /\ Release
    /\ UNCHANGED <<rows, request, manager, stream, server, fwd, sends>>

-----------------------------------------------------------------------------
(* close                                                                   *)

StartClose(k) == \E c \in Stored :
    /\ Runs(k, "idle")
    /\ Begin(k, "marking", c)
    /\ UNCHANGED <<rows, request, outer, manager, stream, server, fwd, sends>>

MarkClosing(k) ==
    /\ Runs(k, "marking")
    /\ \/ /\ Upsert(cmd[k].conn, "closing")
          /\ GoTo(k, "closing")
          /\ Enqueue(k)
       \/ /\ UpsertFails
          /\ Return(k)
          /\ UNCHANGED outer
    /\ UNCHANGED <<request, manager, stream, server, fwd, sends>>

\* The write half leaves the table; its lock is kept while the close frame
\* is written.
TakeSocket(k) ==
    /\ Runs(k, "closing")
    /\ Holds(k)
    /\ ~InnerBusy
    /\ sockets' = sockets \ {cmd[k].conn}
    /\ GoTo(k, IF cmd[k].conn \in sockets THEN "saying" ELSE "grace")
    /\ UNCHANGED <<rows, request, outer, tasks, stream, server, fwd, sends>>

SaidGoodbye(k) ==
    /\ Runs(k, "saying")
    /\ GoTo(k, "grace")
    /\ UNCHANGED <<rows, request, outer, manager, stream, server, fwd, sends>>

\* The socket is broken: close logs the error and goes on.
GoodbyeFails(k) ==
    /\ Runs(k, "saying")
    /\ peer[cmd[k].conn] # "open"
    /\ GoTo(k, "grace")
    /\ UNCHANGED <<rows, request, outer, manager, stream, server, fwd, sends>>

\* Mutant: the handle is dropped, which detaches the task.
Detached(c) == reader[c]
Aborted(c) == IF c \in tasks THEN "dead" ELSE reader[c]

\* Mutant: close waits for the read task instead of aborting it.
StopReadingWaits(k) ==
    /\ Runs(k, "grace")
    /\ reader[cmd[k].conn] \notin {"reading", "ending"}
    /\ tasks' = tasks \ {cmd[k].conn}
    /\ Return(k)
    /\ Release
    /\ UNCHANGED <<rows, request, sockets, stream, server, fwd, sends>>

\* 500 ms later the read task is aborted if it is still there.
StopReading(k) ==
    /\ Runs(k, "grace")
    /\ tasks' = tasks \ {cmd[k].conn}
    /\ reader' = [reader EXCEPT ![cmd[k].conn] = Aborted(cmd[k].conn)]
    /\ Return(k)
    /\ Release
    /\ UNCHANGED <<rows, request, sockets, heard, queue, server, fwd, sends>>

-----------------------------------------------------------------------------
(* The read task.                                                          *)

\* Mutant: one frame too many.
RoomForOneMore(c) == Len(queue[c]) <= Capacity
Room(c) == Len(queue[c]) < Capacity

ReadFrame(c) ==
    /\ reader[c] = "reading"
    /\ heard[c] < spoken[c]
    /\ ReceiverAlive(c)
    /\ Room(c)
    /\ heard' = [heard EXCEPT ![c] = @ + 1]
    /\ queue' = [queue EXCEPT ![c] = Append(@, heard[c] + 1)]
    /\ UNCHANGED <<rows, request, locks, manager, reader, server, fwd, sends>>

\* tx.send(..).await.unwrap() without a receiver: the task dies and leaves
\* its socket and its handle behind.
ReadPanics(c) ==
    /\ reader[c] = "reading"
    /\ heard[c] < spoken[c]
    /\ ~ReceiverAlive(c)
    /\ reader' = [reader EXCEPT ![c] = "dead"]
    /\ UNCHANGED <<rows, request, locks, manager, heard, queue, server, fwd, sends>>

\* The next read returns None after a Close frame, an error after a failure.
\* Mutant: errors are skipped.
NoneLeft(c) == heard[c] = spoken[c] /\ peer[c] = "closed"
Ended(c) == heard[c] = spoken[c] /\ peer[c] \in {"closed", "lost"}

StreamEnds(c) ==
    /\ reader[c] = "reading"
    /\ Ended(c)
    /\ reader' = [reader EXCEPT ![c] = "ending"]
    /\ UNCHANGED <<rows, request, locks, manager, heard, queue, server, fwd, sends>>

Unregister(c) ==
    /\ reader[c] = "ending"
    /\ ~InnerBusy
    /\ sockets' = sockets \ {c}
    /\ tasks' = tasks \ {c}
    /\ reader' = [reader EXCEPT ![c] = "dead"]
    /\ UNCHANGED <<rows, request, locks, heard, queue, server, fwd, sends>>

-----------------------------------------------------------------------------
(* The forwarder.                                                          *)

\* The last frame of a server that said goodbye is its Close frame.
Event(c, frame) ==
    IF peer[c] = "closed" /\ frame = spoken[c] THEN Mark("close") ELSE Frame(frame)

\* has_written_close; mutant: never set.
ForgetsClose(c) == fwd[c]
AfterForward(c) ==
    IF Event(c, Head(queue[c])) = Mark("close") THEN "said" ELSE fwd[c]

Forward(c) ==
    /\ fwd[c] \in {"running", "said"}
    /\ queue[c] # <<>>
    /\ AddEvent(c, Event(c, Head(queue[c])))
    /\ queue' = [queue EXCEPT ![c] = Tail(@)]
    /\ fwd' = [fwd EXCEPT ![c] = AfterForward(c)]
    /\ UNCHANGED <<request, locks, manager, reader, heard, server, sends>>

\* recv answers None: the sender went with the read task, the channel is
\* empty.  Mutant: the sender goes before the task has unregistered itself.
DrainedEarly(c) == queue[c] = <<>> /\ reader[c] \in {"ending", "dead"}
Drained(c) == queue[c] = <<>> /\ reader[c] = "dead"

\* .unwrap() of an event that cannot be stored: the channel goes with the
\* task (what was in it is left in queue[c], where nobody reads it).
ForwardPanics(c) ==
    /\ fwd[c] \in {"running", "said"}
    /\ queue[c] # <<>> \/ (Drained(c) /\ fwd[c] = "running")
    /\ AddFails(c)
    /\ fwd' = [fwd EXCEPT ![c] = "dead"]
    /\ UNCHANGED <<request, locks, manager, stream, server, sends>>

\* The read task is gone and the channel drained.
LastForwarded(c) ==
    /\ fwd[c] \in {"running", "said"}
    /\ Drained(c)
    /\ IF fwd[c] = "said" THEN UNCHANGED rows ELSE AddEvent(c, Mark("close"))
    /\ fwd' = [fwd EXCEPT ![c] = "settling"]
    /\ UNCHANGED <<request, locks, manager, stream, server, sends>>

MarkClosed(c) ==
    /\ fwd[c] = "settling"
    /\ Upsert(c, "closed") \/ UpsertFails
    /\ fwd' = [fwd EXCEPT ![c] = "dead"]
    /\ UNCHANGED <<request, locks, manager, stream, server, sends>>

-----------------------------------------------------------------------------
(* The server, the user's deletions, and the application's restart.        *)

Speak(c) ==
    /\ peer[c] = "open"
    /\ spoken[c] < MaxFrames
    /\ spoken' = [spoken EXCEPT ![c] = @ + 1]
    /\ UNCHANGED <<rows, request, locks, manager, stream, peer, fwd, sends>>

HangUp(c) ==
    /\ peer[c] = "open"
    /\ spoken' = [spoken EXCEPT ![c] = @ + 1]
    /\ peer' = [peer EXCEPT ![c] = "closed"]
    /\ UNCHANGED <<rows, request, locks, manager, stream, fwd, sends>>

\* The network fails and takes the frames that were on their way.
Disconnect(c) ==
    /\ peer[c] = "open"
    /\ peer' = [peer EXCEPT ![c] = "lost"]
    /\ \E n \in heard[c]..spoken[c] : spoken' = [spoken EXCEPT ![c] = n]
    /\ UNCHANGED <<rows, request, locks, manager, stream, fwd, sends>>

DeleteConnection(c) ==
    /\ c \in Stored
    /\ Drop({c})
    /\ UNCHANGED <<request, locks, manager, stream, server, fwd, sends>>

\* delete_connections
DeleteConnections ==
    /\ Stored # {}
    /\ Drop(Stored)
    /\ UNCHANGED <<request, locks, manager, stream, server, fwd, sends>>

DeleteRequest ==
    /\ request
    /\ request' = FALSE
    /\ Drop(Stored)
    /\ UNCHANGED <<locks, manager, stream, server, fwd, sends>>

\* Mutant: rows survive as they were.
NotCancelled(c) == row[c]
Cancelled(c) == IF c \in Stored THEN "closed" ELSE row[c]

\* Tasks and sockets are gone; cancel_pending_websocket_connections closes
\* the rows before a window can run a command.
Restart ==
    /\ row' = [c \in Conns |-> Cancelled(c)]
    /\ cmd' = [k \in Callers |-> Idle]
    /\ outer' = <<>>
    /\ sockets' = {}
    /\ tasks' = {}
    /\ reader' = [c \in Conns |-> "none"]
    /\ peer' = [c \in Conns |-> "none"]
    /\ fwd' = [c \in Conns |-> "none"]
    /\ UNCHANGED <<log, request, heard, queue, spoken, sends>>

-----------------------------------------------------------------------------
Command(k) ==
    \/ PrepareFails(k) \/ Prepared(k) \/ DialFails(k) \/ Dial(k)
    \/ RecordOpen(k) \/ MarkConnected(k) \/ ConnectBreaks(k)
    \/ SendNowhere(k) \/ StartWrite(k) \/ WriteFails(k)
    \/ MarkClosing(k) \/ TakeSocket(k) \/ GoodbyeFails(k) \/ StopReading(k)

Written(k) == WriteDone(k) \/ SaidGoodbye(k)

User(k) == StartConnect(k) \/ StartSend(k) \/ StartClose(k)

Reader(c) == ReadFrame(c) \/ ReadPanics(c) \/ StreamEnds(c) \/ Unregister(c)

Forwarder(c) ==
    Forward(c) \/ ForwardPanics(c) \/ LastForwarded(c) \/ MarkClosed(c)

Server(c) == Speak(c) \/ HangUp(c) \/ Disconnect(c)

Next ==
    \/ \E k \in Callers : Command(k) \/ Written(k) \/ User(k)
    \/ \E c \in Conns :
          Reader(c) \/ Forwarder(c) \/ Server(c) \/ DeleteConnection(c)
    \/ DeleteConnections \/ DeleteRequest \/ Restart

Spec == Init /\ [][Next]_vars

\* Commands and tasks run on as long as they can (tokio schedules what is
\* ready, its mutexes are fair, and the handshake ends one way or another).
Fairness ==
    /\ \A k \in Callers : WF_vars(Command(k))
    /\ \A c \in Conns : WF_vars(Reader(c)) /\ WF_vars(Forwarder(c))

FairSpec == Spec /\ Fairness

\* The same with servers that go on reading what is written to them.
PatientSpec == FairSpec /\ \A k \in Callers : WF_vars(Written(k))

-----------------------------------------------------------------------------
(* Properties.                                                             *)

\* Every variable keeps its type, and the channel its capacity.
TypeOK ==
    /\ row \in [Conns -> States \union {"unborn", "gone"}]
    /\ log \in [Conns -> Seq(Events)]
    /\ request \in BOOLEAN
    /\ cmd \in [Callers -> [at : Steps \union {"idle"}, conn : Conns \union {0}]]
    /\ outer \in Seq(Callers)
    /\ sockets \subseteq Conns
    /\ tasks \subseteq Conns
    /\ reader \in [Conns -> {"none", "reading", "ending", "dead"}]
    /\ peer \in [Conns -> {"none", "open", "closed", "lost"}]
    /\ spoken \in [Conns -> Nat]
    /\ heard \in [Conns -> Nat]
    /\ queue \in [Conns -> Seq(Nat)]
    /\ \A c \in Conns : Len(queue[c]) <= Capacity
    /\ fwd \in [Conns -> {"none", "running", "said", "settling", "dead"}]
    /\ sends \in Nat

\* A row that says closed has nothing behind it: its write half has left the
\* table and its read task has stopped.  Closed is written by the forwarder,
\* the socket is given up by the read task or by close, in other tasks.
ClosedMeansReleased == \A c \in Conns : row[c] = "closed" =>
    c \notin sockets /\ reader[c] \notin {"reading", "ending"}

\* A row that says connected has a forwarder that will store what the server
\* says and close the row at the end, whatever was deleted and written again
\* in between.
ConnectedIsServed == \A c \in Conns :
    row[c] = "connected" => fwd[c] \in {"running", "said", "settling"}

\* Every running read task can still be stopped: once connect is done its
\* handle is kept, and its write half is in the table unless a close has just
\* taken it and is about to abort the task.
ReadersCanBeStopped == \A c \in Conns : reader[c] \in {"reading", "ending"} =>
    \/ \E k \in Callers : cmd[k].conn = c /\ cmd[k].at = "opened"
    \/ /\ c \in tasks
       /\ \/ c \in sockets
          \/ \E k \in Callers : cmd[k].conn = c /\ cmd[k].at \in {"saying", "grace"}

\* The two locks are taken in one order, so whoever writes to a socket or
\* waits for the last frames of one holds the manager.
WritersHoldManager == \A k \in Callers :
    cmd[k].at \in {"opened", "recorded", "writing", "saying", "grace"} => Holds(k)

(* What the events of a connection promise: they are a Transcript.         *)

Opening(c) == \E k \in Callers : cmd[k].conn = c /\ cmd[k].at = "recorded"
Underway(c) == \E k \in Callers :
    cmd[k].conn = c /\ cmd[k].at \in {"preparing", "dialing", "opened"}

Phase(c) ==
    IF fwd[c] = "running" \/ Opening(c) THEN "open"
    ELSE IF row[c] = "unborn" \/ Underway(c) THEN "new" ELSE "over"

Taken(c) == heard[c] - Len(queue[c])

T == INSTANCE Transcript WITH
        phase <- [c \in Conns |-> Phase(c)],
        count <- [c \in Conns |-> Taken(c)]

\* What is stored for a connection is its Open event, then the frames of the
\* server in order with none skipped, then one close and nothing after it,
\* through the read task, the bounded channel and the forwarder.
RecordsTranscript == T!Spec

\* Every command returns, with servers that go on reading.
CommandsReturn == \A k \in Callers :
    (cmd[k].at # "idle") ~> (cmd[k].at = "idle")

\* When the server is done with a connected connection its row does not stay
\* connected.
ServerEndShows == \A c \in Conns :
    (row[c] = "connected" /\ peer[c] \in {"closed", "lost"})
        ~> (row[c] # "connected")

\* A close marked while the connection is served ends with the row closed or
\* deleted, whatever the server does at the same time.
CloseSettles == \A c \in Conns :
    (row[c] = "closing" /\ fwd[c] \in {"running", "said"})
        ~> (row[c] \in {"closed", "gone"})

\* manager.rs: "Wait a maximum of 1 second for the connection to close".
CloseWaitsBriefly == \A k \in Callers :
    (cmd[k].at = "saying") ~> (cmd[k].at # "saying")

\* commands.rs: the forwarder unwraps every write of an event.
EventsAreStored == [][\A c \in Conns : ~ForwardPanics(c)]_vars
=============================================================================
