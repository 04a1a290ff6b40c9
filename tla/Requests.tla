------------------------------ MODULE Requests ------------------------------
(* What the plugin manager promises to whoever asks plugins for something: *)
(* a request that returns holds one answer of every plugin it was put to,  *)
(* no more and no fewer, the answers of its own request.  Only a request   *)
(* with a time limit may be given up before that.                          *)
CONSTANTS Calls,      \* who asks
          Refs        \* the plugins that can be asked

VARIABLES open,       \* open[c]: c waits for answers
          timed,      \* timed[c]: for a limited time
          asked,      \* asked[c]: the plugins the request was put to
          answered    \* answered[c]: those whose answer c holds

vars == <<open, timed, asked, answered>>

Init ==
    /\ open = [c \in Calls |-> FALSE]
    /\ timed = [c \in Calls |-> FALSE]
    /\ asked = [c \in Calls |-> {}]
    /\ answered = [c \in Calls |-> {}]

Ask(c, ps, limited) ==
    /\ ~open[c]
    /\ open' = [open EXCEPT ![c] = TRUE]
    /\ timed' = [timed EXCEPT ![c] = limited]
    /\ asked' = [asked EXCEPT ![c] = ps]
    /\ answered' = [answered EXCEPT ![c] = {}]

Answer(c, p) ==
    /\ open[c]
    /\ p \in asked[c] \ answered[c]
    /\ answered' = [answered EXCEPT ![c] = @ \cup {p}]
    /\ UNCHANGED <<open, timed, asked>>

Return(c) ==
    /\ open[c]
    /\ answered[c] = asked[c] \/ timed[c]
    /\ open' = [open EXCEPT ![c] = FALSE]
    /\ UNCHANGED <<timed, asked, answered>>

Next ==
    \E c \in Calls :
        \/ \E ps \in SUBSET Refs, limited \in BOOLEAN : Ask(c, ps, limited)
        \/ \E p \in Refs : Answer(c, p)
        \/ Return(c)

Spec == Init /\ [][Next]_vars
=============================================================================
