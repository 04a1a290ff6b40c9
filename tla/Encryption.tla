----------------------------- MODULE Encryption -----------------------------
(***************************************************************************)
(* The key of a workspace: the setting that enables encryption, asks for   *)
(* the key or shows it, and the manager that keeps the key, encrypted with *)
(* a master key, in the workspace's meta row, and a value encrypted with   *)
(* it, the challenge, in the workspace itself.                             *)
(*                                                                         *)
(* Rows are written in one transaction, and their news is in the window as *)
(* soon as they are; the cache follows later.  A restart loses the cache   *)
(* and may find the master key gone.  A sync brings a workspace with       *)
(* values and a challenge of somebody else's key.                          *)
(***************************************************************************)
EXTENDS Integers, Sequences, SequencesExt

CONSTANTS
    Own, Theirs,          \* the keys made here, in their order, and that of others
    MaxCalls, MaxReveals  \* bounds: commands, and reads of the key, under way

None == "none"
Broken == "broken"       \* a key that the master key does not open
Keys == ToSet(Own) \cup {Theirs}

VARIABLES
    challenge,  \* the key the workspace's challenge is encrypted with
    stored,     \* the key in the meta row
    cache,      \* the key in the manager's cache
    calls,      \* commands under way: [key, entered, phase]
    made,       \* how many of Own were made
    used,       \* keys that values are encrypted with
    key,        \* [key, error]: the setting's state; "loading" when there is none
    reveals,    \* reads of the key on their way: "asked", or what was read
    expanded,   \* the setting is in a dialog that somebody waits for
    dialog,     \* "open", "closed", or "done": what waited for it runs
    raced,      \* two commands wrote, or a read raced one
    foreign     \* a challenge came over a key that was there

vars == <<challenge, stored, cache, calls, made, used, key, reveals, expanded, dialog,
          raced, foreign>>

Loading == [key |-> "loading", error |-> FALSE]
Unread == [key |-> None, error |-> FALSE]

\* The key that encrypts and decrypts.
Got == IF cache # None THEN cache ELSE stored

TypeOK ==
    /\ challenge \in Keys \cup {None} /\ stored \in Keys \cup {None, Broken}
    /\ cache \in Keys \cup {None} /\ made \in 0..Len(Own) /\ used \subseteq Keys
    /\ \A i \in DOMAIN calls :
          calls[i] \in [key : Keys, entered : BOOLEAN, phase : {"write", "cache"}]
    /\ key \in [key : Keys \cup {None, "loading"}, error : BOOLEAN]
    /\ \A i \in DOMAIN reveals : reveals[i] \in Keys \cup {None, Broken, "asked"}

Init ==
    /\ challenge \in {None, Theirs} /\ stored = None /\ cache = None
    /\ calls = <<>> /\ made = 0 /\ used = {challenge} \ {None}
    /\ key = Unread /\ reveals = <<>> /\ expanded \in BOOLEAN
    /\ dialog = "open" /\ raced = FALSE /\ foreign = FALSE

-----------------------------------------------------------------------------
(* The setting. *)

\* What it shows.
View ==
    IF key.key = "loading" THEN "nothing"
    ELSE IF key.error \/ (challenge # None /\ stored = None) THEN "enter"
    ELSE IF stored # None /\ key.key # None THEN "key"
    ELSE "enable"

Seen(view) == dialog = "open" /\ View = view

\* The effect on a new meta row: no key, or one that is asked for.
Asks(row) ==
    IF row = None THEN key' = Unread /\ UNCHANGED reveals
    ELSE /\ Len(reveals) < MaxReveals
         /\ reveals' = Append(reveals, "asked") /\ UNCHANGED key

Calls(k, entered) ==
    /\ Len(calls) < MaxCalls
    /\ calls' = Append(calls, [key |-> k, entered |-> entered, phase |-> "write"])
    /\ UNCHANGED <<challenge, stored, cache, used, key, reveals, expanded, dialog, raced, foreign>>

\* A key is made unless the row has one already, by then.
EnableEncryption ==
    /\ Seen("enable") /\ stored = None
    /\ made < Len(Own) /\ made' = made + 1
    /\ Calls(Own[made'], FALSE)

\* Mutant: any key is taken
AnyKey(k) == TRUE
\* A key opens the challenge, or there is none.
Fits(k) == challenge \in {None, k}

\* A key that was typed; one that does not fit is refused.
SetWorkspaceKey(k) ==
    /\ Seen("enter") /\ Fits(k)
    /\ Calls(k, TRUE)
    /\ UNCHANGED made

\* The button below the key, for who waits.
Done ==
    /\ Seen("key") /\ expanded /\ dialog' = "done"
    /\ UNCHANGED <<challenge, stored, cache, calls, made, used, key, reveals, expanded, raced, foreign>>

\* The setting is opened again.
Open ==
    /\ dialog # "open" /\ dialog' = "open" /\ reveals = <<>> /\ expanded' \in BOOLEAN
    /\ IF stored = None THEN key' = Unread /\ UNCHANGED reveals
       ELSE key' = Loading /\ reveals' = <<"asked">>
    /\ UNCHANGED <<challenge, stored, cache, calls, made, used, raced, foreign>>

-----------------------------------------------------------------------------
(* The manager. *)

\* Both rows, in one transaction.
Writes(i) ==
    /\ calls[i].phase = "write"
    /\ calls' = [calls EXCEPT ![i].phase = "cache"]
    /\ challenge' = calls[i].key /\ stored' = calls[i].key
    /\ raced' = (raced \/ stored \notin {None, Broken, calls[i].key})
    /\ IF dialog # "open" THEN UNCHANGED <<key, reveals>> ELSE Asks(stored')
    /\ UNCHANGED <<cache, made, used, expanded, dialog, foreign>>

\* The command ends; a key that was entered goes on.
Caches(i) ==
    /\ calls[i].phase = "cache"
    /\ cache' = calls[i].key
    /\ calls' = RemoveAt(calls, i)
    /\ dialog' = IF dialog = "open" /\ expanded /\ calls[i].entered THEN "done" ELSE dialog
    /\ UNCHANGED <<challenge, stored, made, used, key, reveals, expanded, raced, foreign>>

Reads(i) ==
    /\ reveals[i] = "asked"
    /\ reveals' = [reveals EXCEPT ![i] = Got]
    /\ UNCHANGED <<challenge, stored, cache, calls, made, used, key, expanded, dialog, raced, foreign>>

\* Its answer, in whatever order, is what the setting has.
Revealed(i) ==
    /\ reveals[i] # "asked"
    /\ key' = IF reveals[i] \in Keys THEN [key |-> reveals[i], error |-> FALSE]
              ELSE [key |-> None, error |-> TRUE]
    /\ reveals' = RemoveAt(reveals, i)
    /\ UNCHANGED <<challenge, stored, cache, calls, made, used, expanded, dialog, raced, foreign>>

\* A value is encrypted.
Encrypts ==
    /\ Got \in Keys /\ used' = used \cup {Got}
    /\ UNCHANGED <<challenge, stored, cache, calls, made, key, reveals, expanded, dialog, raced, foreign>>

Restart ==
    /\ calls = <<>> /\ cache' = None
    /\ stored' \in IF stored = None THEN {None} ELSE {stored, Broken}
    /\ dialog' = "closed" /\ key' = Unread /\ reveals' = <<>>
    /\ UNCHANGED <<challenge, calls, made, used, expanded, raced, foreign>>

\* A sync brings the workspace of somebody else.
Synced ==
    /\ challenge # Theirs /\ challenge' = Theirs /\ used' = used \cup {Theirs}
    /\ foreign' = (foreign \/ stored # None \/ calls # <<>>)
    /\ UNCHANGED <<stored, cache, calls, made, key, reveals, expanded, dialog, raced>>

Next ==
    \/ EnableEncryption \/ Done \/ Open \/ Encrypts \/ Restart \/ Synced
    \/ \E k \in Keys : SetWorkspaceKey(k)
    \/ \E i \in DOMAIN calls : Writes(i) \/ Caches(i)
    \/ \E i \in DOMAIN reveals : Reads(i) \/ Revealed(i)

Spec == Init /\ [][Next]_vars

-----------------------------------------------------------------------------
(* Properties. *)

\* Unless two commands raced, or a sync brought another's workspace over a key, every
\* value was encrypted with the key of the challenge, and that is the one stored and
\* cached (set_human_key, set_workspace_key).
ValuesReadable ==
    ~raced /\ ~foreign =>
        /\ used \subseteq {challenge}
        /\ stored \in Keys => stored = challenge
        /\ cache # None => cache = stored

\* The key that is shown to be copied is the one values are encrypted with.
ShowsTheKey ==
    ~raced /\ ~foreign /\ View = "key" => key.key = Got

\* What waits for the dialog runs only with a key.
GoesOnWithKey == dialog' = "done" /\ dialog = "open" => Got' \in Keys
=============================================================================
