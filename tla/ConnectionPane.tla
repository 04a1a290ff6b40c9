--------------------------- MODULE ConnectionPane ---------------------------
(***************************************************************************)
(* The panes of a gRPC or WebSocket request: which of its connections they *)
(* show, the list of that connection's events, and the buttons that make   *)
(* one and send on it.                                                     *)
(*                                                                         *)
(* A connection is its place in the order of making; the panes show the    *)
(* pinned one, or the last.  The store of events holds what was last read  *)
(* for a shown connection and every event that arrived since, of whatever  *)
(* connection.  An effect of React runs in the step that causes it; the    *)
(* news of a row is in the window as soon as it is written.                *)
(***************************************************************************)
EXTENDS Integers, Sequences, FiniteSets, SequencesExt, FiniteSetsExt

CONSTANTS
    Requests,                            \* the requests one can go to
    MaxConnections, MaxEvents, MaxLoads  \* bounds, MaxEvents of each connection

None == 0
Kinds == {"websocket", "unary"}   \* a stream's panes are those of a unary call, without Opened

VARIABLES
    kind,         \* what the requests are: by it, which panes
    request,      \* the active request
    connections,  \* [request, state] in the order they were made
    pins,         \* the connection pinned for a request and its last connection
    count,        \* events of each connection in the database
    events,       \* the store of events
    loads,        \* reads of events on their way: what for, and the count when asked
    selected,     \* the event whose detail is open
    calling,      \* connections asked for, not there yet
    hidden,       \* the response pane waits for the answer of "go"
    mixed,        \* an event came while others were being read, or of another connection
    closed        \* the detail was closed by hand, or stayed with a list as long

vars == <<kind, request, connections, pins, count, events, loads, selected, calling, hidden,
          mixed, closed>>

Ids == 1..MaxConnections
Keys == Requests \X (Ids \cup {None})
Events == UNION {{c} \X (1..MaxEvents[c]) : c \in Ids}
EventsOf(c, counts) == IF c = None THEN {} ELSE {c} \X (1..counts[c])

\* the connections of r, and the one its panes show
ActiveOf(r, cs) == {c \in DOMAIN cs : cs[c].request = r /\ cs[c].state # "deleted"}
LatestOf(r, cs) == Max(ActiveOf(r, cs) \cup {None})
\* Mutant: for the request
RequestKey(r, cs) == <<r, None>>
\* a pin is kept for the request and its latest connection
KeyOf(r, cs) == <<r, LatestOf(r, cs)>>
ShownOf(r, cs, pinned) ==
    LET pin == pinned[KeyOf(r, cs)]
    IN  IF pin \in ActiveOf(r, cs) THEN pin ELSE LatestOf(r, cs)

Shown == ShownOf(request, connections, pins)
IsOpen(c) == c # None /\ connections[c].state = "open"

TypeOK ==
    /\ kind \in Kinds /\ request \in Requests
    /\ \A c \in DOMAIN connections :
          connections[c] \in [request : Requests, state : {"open", "closed", "deleted"}]
    /\ pins \in [Keys -> Ids \cup {None}]
    /\ \A c \in Ids : count[c] \in 0..MaxEvents[c]
    /\ events \subseteq Events /\ selected \in Events \cup {<<>>}
    /\ \A l \in ToSet(loads) : l.of \in Ids /\ l.from \in 0..MaxEvents[l.of]

Init ==
    /\ kind \in Kinds /\ request = (CHOOSE r \in Requests : TRUE)
    /\ connections = <<>> /\ pins = [k \in Keys |-> None] /\ count = [c \in Ids |-> 0]
    /\ events = {} /\ loads = <<>> /\ selected = <<>>
    /\ calling = 0 /\ hidden = FALSE /\ mixed = FALSE /\ closed = FALSE

Answers(es) == {e \in es : e[2] = 2}

\* the event whose content is shown below the list
Detail == IF selected \in events /\ Shown # None /\ ~hidden THEN selected ELSE <<>>

\* Mutant: only when the pane is new
OpenedOnce(open, es, anew) ==
    IF kind = "unary" /\ es # {} /\ open \notin es /\ anew
    THEN IF Answers(es) = {} THEN <<>> ELSE CHOOSE e \in Answers(es) : TRUE
    ELSE open

\* The list of events has become es: a unary call's answer, the second event,
\* is opened when the length has changed, or the pane comes back, and none is open.
Opened(open, es, anew) ==
    IF kind = "unary" /\ (anew \/ ~hidden) /\ es # {} /\ open \notin es
       /\ (anew \/ Cardinality(es) # Cardinality(events))
    THEN IF Answers(es) = {} THEN <<>> ELSE CHOOSE e \in Answers(es) : TRUE
    ELSE open

\* the layout and the pane of a gRPC request both read the events
Readers == IF kind = "websocket" THEN 1 ELSE 2
Reads(c) == [i \in 1..Readers |-> [of |-> c, from |-> count[c]]]

\* The panes go from the connection they show to another: its events are asked for,
\* or the list is emptied.
Follow(to) ==
    IF to = Shown
    THEN UNCHANGED <<events, loads, selected, hidden, mixed, closed>>
    ELSE /\ loads' = IF to = None THEN loads ELSE loads \o Reads(to)
         /\ Len(loads') <= MaxLoads
         /\ events' = IF to = None THEN {} ELSE events
         /\ hidden' = FALSE
         /\ selected' = Opened(selected, events', hidden)
         /\ mixed' = (loads # <<>>)
         /\ closed' = FALSE

Go(r) ==
    /\ r # request
    /\ request' = r
    /\ Follow(ShownOf(r, connections, pins))
    /\ UNCHANGED <<kind, connections, pins, count, calling>>

\* The button connects as long as the shown connection is not known to be open.
CanConnect == ~IsOpen(Shown)
Connect ==
    /\ CanConnect
    /\ Len(connections) + calling < MaxConnections
    /\ calling' = calling + 1
    /\ hidden' = (kind # "websocket")
    /\ selected' = IF kind = "websocket" THEN selected ELSE <<>>
    /\ UNCHANGED <<kind, request, connections, pins, count, events, loads, mixed, closed>>

\* its row is there; that "go" was asked for the active request is left out
Made ==
    /\ calling > 0
    /\ \E r \in Requests :
          /\ connections' = Append(connections, [request |-> r, state |-> "open"])
          /\ Follow(ShownOf(request, connections', pins))
    /\ calling' = calling - 1
    /\ UNCHANGED <<kind, request, pins, count>>

Failed ==
    /\ calling > 0
    /\ calling' = calling - 1
    /\ hidden' = FALSE
    /\ selected' = IF hidden THEN Opened(selected, events, TRUE) ELSE selected
    /\ UNCHANGED <<kind, request, connections, pins, count, events, loads, mixed, closed>>

\* an event of any open connection: a message sent, an answer, or news of it
Arrives(c) ==
    /\ IsOpen(c) /\ count[c] < MaxEvents[c]
    /\ count' = [count EXCEPT ![c] = @ + 1]
    /\ events' = events \cup {<<c, count'[c]>>}
    /\ selected' = Opened(selected, events', FALSE)
    /\ mixed' = (mixed \/ c # Shown \/ loads # <<>>)
    /\ closed' = (closed /\ selected' = selected)
    /\ UNCHANGED <<kind, request, connections, pins, loads, calling, hidden>>

Closes(c) ==
    /\ IsOpen(c)
    /\ connections' = [connections EXCEPT ![c].state = "closed"]
    /\ UNCHANGED <<kind, request, pins, count, events, loads, selected, calling, hidden, mixed, closed>>

Pin(c) ==
    /\ c \in ActiveOf(request, connections)
    /\ pins' = [pins EXCEPT ![KeyOf(request, connections)] = c]
    /\ Follow(ShownOf(request, connections, pins'))
    /\ UNCHANGED <<kind, request, connections, count, calling>>

\* The shown connection, or all of the request, with their events' rows.
Delete(cs) ==
    /\ cs \in {{Shown}, ActiveOf(request, connections)} \ {{}, {None}}
    /\ connections' = [c \in DOMAIN connections |->
                          IF c \in cs THEN [connections[c] EXCEPT !.state = "deleted"]
                          ELSE connections[c]]
    /\ count' = [c \in Ids |-> IF c \in cs THEN 0 ELSE count[c]]
    /\ Follow(ShownOf(request, connections', pins))
    /\ UNCHANGED <<kind, request, pins, calling>>

\* Mutant: the answer is added to what is there
HeldToo(got) == events \cup got
\* The answer replaces whatever the store holds.
Held(got) == got
\* The answer has the rows there were at some time since it was asked for.
Answer(i) ==
    /\ \E n \in {count[loads[i].of]} \cup (loads[i].from..count[loads[i].of]) :
          events' = Held(EventsOf(loads[i].of, [count EXCEPT ![loads[i].of] = n]))
    /\ loads' = RemoveAt(loads, i)
    /\ selected' = Opened(selected, events', FALSE)
    /\ closed' = (Cardinality(events') = Cardinality(events))
    /\ UNCHANGED <<kind, request, connections, pins, count, calling, hidden, mixed>>

\* (in the WebSocket pane nothing depends on the detail that is open)
Click(e) ==
    /\ e \in events /\ ~hidden /\ kind = "unary"
    /\ selected' = IF e = selected THEN <<>> ELSE e
    /\ closed' = (closed \/ selected' = <<>>)
    /\ UNCHANGED <<kind, request, connections, pins, count, events, loads, calling, hidden, mixed>>

Next ==
    \/ \E r \in Requests : Go(r)
    \/ Connect \/ Made \/ Failed
    \/ \E c \in DOMAIN connections : Arrives(c) \/ Closes(c) \/ Pin(c)
    \/ \E cs \in SUBSET DOMAIN connections : Delete(cs)
    \/ \E i \in DOMAIN loads : Answer(i)
    \/ \E e \in events : Click(e)

Spec == Init /\ [][Next]_vars

-----------------------------------------------------------------------------
(* Properties. *)

\* When the reads are done, and no event came while they were under way or from another
\* connection, the list has the events of the connection that is shown (useGrpcEvents,
\* useWebsocketEvents).
ListsTheEvents == loads = <<>> /\ ~mixed => events = EventsOf(Shown, count)

\* The answer of a unary call is opened without a click (GrpcResponsePane.tsx, 52-58).
OpensTheAnswer ==
    kind = "unary" /\ ~hidden /\ ~closed /\ loads = <<>> /\ Answers(events) # {} =>
        Detail # <<>> \/ Shown = None

\* Without going to another request, the panes change to another connection only when
\* one pins it, it is new, or the one shown is deleted; a new one is shown at once.
StaysWithIts ==
    request' = request =>
        LET new == Len(connections') IN
        /\ new > Len(connections) /\ connections'[new].request = request => Shown' = new
        /\ Shown' # Shown =>
              \/ pins' # pins \/ new > Len(connections)
              \/ connections'[Shown].state = "deleted"
=============================================================================
