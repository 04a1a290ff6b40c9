----------------------------- MODULE Transcript -----------------------------
(* What the record of a streaming connection promises, whatever the       *)
(* transport: the events stored for a connection begin with its opening,   *)
(* then list the frames of the server in the order the server sent them,   *)
(* none twice and none skipped, and nothing of the server's after the      *)
(* close.  The client's own messages are noted anywhere.  A user may       *)
(* erase what is stored; a connection may be abandoned, which loses the    *)
(* frames at the end.                                                      *)
EXTENDS Naturals, Sequences

CONSTANT Conns

VARIABLES
    log,     \* log[c]: the stored events of c, in the order they were stored
    phase,   \* phase[c]: "new", "open" or "over"
    count    \* count[c]: how many frames of the server have been stored

vars == <<log, phase, count>>

\* Stored events: a frame of the server, or a mark.
Frame(n) == [what |-> "frame", n |-> n]
Mark(what) == [what |-> what, n |-> 0]

Init ==
    /\ log = [c \in Conns |-> <<>>]
    /\ phase = [c \in Conns |-> "new"]
    /\ count = [c \in Conns |-> 0]

Store(c, entry) == log' = [log EXCEPT ![c] = Append(@, entry)]

Open(c) ==
    /\ phase[c] = "new"
    /\ phase' = [phase EXCEPT ![c] = "open"]
    /\ Store(c, Mark("open"))
    /\ UNCHANGED count

Deliver(c) ==
    /\ phase[c] = "open"
    /\ count' = [count EXCEPT ![c] = @ + 1]
    /\ Store(c, Frame(count[c] + 1))
    /\ UNCHANGED phase

\* The close is a frame of the server, or noticed without one.
End(c) ==
    /\ phase[c] = "open"
    /\ phase' = [phase EXCEPT ![c] = "over"]
    /\ \E frames \in {0, 1} : count' = [count EXCEPT ![c] = @ + frames]
    /\ Store(c, Mark("close"))

Note(c) ==
    /\ Store(c, Mark("sent"))
    /\ UNCHANGED <<phase, count>>

\* The stored events of some connections are erased, others are abandoned.
Forget(erased, abandoned) ==
    /\ log' = [c \in Conns |-> IF c \in erased THEN <<>> ELSE log[c]]
    /\ phase' = [c \in Conns |-> IF c \in abandoned THEN "over" ELSE phase[c]]
    /\ UNCHANGED count

Next ==
    \/ \E c \in Conns : Open(c) \/ Deliver(c) \/ End(c) \/ Note(c)
    \/ \E erased, abandoned \in SUBSET Conns : Forget(erased, abandoned)

Spec == Init /\ [][Next]_vars
=============================================================================
