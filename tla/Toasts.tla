------------------------------- MODULE Toasts --------------------------------
(***************************************************************************)
(* The short messages at the corner of a window.  A message of an id that  *)
(* is shown already goes first, and the new one comes after a delay that   *)
(* lets it move out; each goes by itself after its timeout, when it is     *)
(* dismissed, or, all at once, with Escape.  Time is left out: a delay is  *)
(* over, and a timeout has passed, some time.                              *)
(***************************************************************************)
EXTENDS Integers, Sequences, SequencesExt

CONSTANTS Ids,       \* what messages are called
          MaxToasts  \* bound: messages

VARIABLES
    toasts,   \* the messages shown: [id, key]
    delayed,  \* those that are to come: [id, key, timed]
    timers,   \* the keys of those that will go by themselves
    closed,   \* key -> how often the one who showed it heard that it is closed
    quick     \* a message was shown while one of its id was to come

vars == <<toasts, delayed, timers, closed, quick>>

Keys == 1..MaxToasts

TypeOK ==
    /\ toasts \in Seq([id : Ids, key : Keys])
    /\ delayed \subseteq [id : Ids, key : Keys, timed : BOOLEAN]
    /\ timers \subseteq Keys /\ quick \in BOOLEAN
    /\ \A k \in DOMAIN closed : k \in Keys /\ closed[k] \in Nat

Init == toasts = <<>> /\ delayed = {} /\ timers = {} /\ closed = <<>> /\ quick = FALSE

-----------------------------------------------------------------------------
Shown(keys) == \E i \in DOMAIN toasts : toasts[i].key \in keys

\* Messages go; each that was shown is told.
hideToasts(keys) ==
    /\ toasts' = SelectSeq(toasts, LAMBDA t : t.key \notin keys)

\* Mutant: it is told whether it is shown or not
Anyhow(k) == TRUE
\* The message with the key is there.
IsShown(k) == Shown({k})

Told(keys) == [k \in DOMAIN closed |-> closed[k] + IF k \in keys /\ IsShown(k) THEN 1 ELSE 0]

\* Mutant: an older one stays
NoneWith(id) == {}
\* The first message of the id.
WithId(id) ==
    {toasts[i].key : i \in {j \in DOMAIN toasts :
        toasts[j].id = id /\ \A k \in 1..j - 1 : toasts[k].id # id}}

\* A message is to be shown; an older one of its id goes.
showToast(id, timed) ==
    /\ Len(closed) < MaxToasts
    /\ closed' = Append(Told(WithId(id)), 0)
    /\ hideToasts(WithId(id))
    /\ delayed' = delayed \cup {[id |-> id, key |-> Len(closed) + 1, timed |-> timed]}
    /\ quick' = (quick \/ \E d \in delayed : d.id = id)
    /\ UNCHANGED timers

\* The delay is over: the message comes, with its timer.
Comes(d) ==
    /\ delayed' = delayed \ {d}
    /\ toasts' = Append(toasts, [id |-> d.id, key |-> d.key])
    /\ timers' = IF d.timed THEN timers \cup {d.key} ELSE timers
    /\ UNCHANGED <<closed, quick>>

\* The timeout of a message passes, whether it is there still or not.
TimesOut(k) ==
    /\ timers' = timers \ {k}
    /\ hideToasts({k}) /\ closed' = Told({k})
    /\ UNCHANGED <<delayed, quick>>

\* The person dismisses one, or its action does.
Dismiss(k) ==
    /\ Shown({k})
    /\ hideToasts({k}) /\ closed' = Told({k})
    /\ UNCHANGED <<delayed, timers, quick>>

\* Each message hears the key.
Escape ==
    /\ toasts # <<>>
    /\ hideToasts(Keys) /\ closed' = Told(Keys)
    /\ UNCHANGED <<delayed, timers, quick>>

Next ==
    \/ \E id \in Ids, timed \in BOOLEAN : showToast(id, timed)
    \/ \E d \in delayed : Comes(d)
    \/ \E k \in timers : TimesOut(k)
    \/ \E k \in Keys : Dismiss(k)
    \/ Escape

Spec == Init /\ [][Next]_vars

-----------------------------------------------------------------------------
(* Properties. *)

\* A message is there once, its timer only takes itself away, and who showed it hears
\* once that it is closed, whoever closed it (hideToast).
ClosedOnce ==
    /\ \A k \in DOMAIN closed :
          closed[k] = IF Shown({k}) \/ \E d \in delayed : d.key = k THEN 0 ELSE 1
    /\ \A i, j \in DOMAIN toasts : i # j =>
          toasts[i].key # toasts[j].key /\ (quick \/ toasts[i].id # toasts[j].id)
=============================================================================
