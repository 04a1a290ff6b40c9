---------------------------- MODULE SyncWindows -----------------------------
(***************************************************************************)
(* When a sync session starts, and what it waits for (init/sync.ts,        *)
(* commands.tsx): each window of the workspace starts one when it opens or *)
(* switches to the workspace, and a second after the last event of a row   *)
(* or a file.  A session that would change the database asks first, unless *)
(* a Git command has forced it.  Nothing else starts one: not a refusal,   *)
(* not an error.                                                           *)
(*                                                                         *)
(* A window may have several: an event starts the next one while a dialog  *)
(* is open or a session is applied.  The dialog of the next takes the      *)
(* place of the one before, whose session then waits for ever.             *)
(***************************************************************************)
EXTENDS Sync

CONSTANT Windows    \* those that have the workspace open

VARIABLES
    window,     \* Sessions -> the window that started it last
    due,        \* windows with an event, whose timer runs
    asking,     \* sessions whose dialog is open
    agreed,     \* sessions that need not ask, or were confirmed
    gaveUp      \* windows whose latest session was refused, or failed

windowVars == <<vars, window, due, asking, agreed, gaveUp>>

WindowsTypeOK ==
    /\ window \in [Sessions -> Windows]
    /\ due \subseteq Windows /\ gaveUp \subseteq Windows
    /\ asking \subseteq {s \in Sessions \ agreed : pc[s] = "ready"}
    /\ agreed \subseteq {s \in Sessions : Busy(s)}

WindowsInit ==
    /\ Init
    /\ window \in {[s \in Sessions |-> w] : w \in Windows}
    /\ due = Windows /\ asking = {} /\ agreed = {} /\ gaveUp = {}

\* Every change of a row is emitted to all windows, and each watches the directory.
Told == due' = IF db' = db /\ files' = files THEN due ELSE Windows

-----------------------------------------------------------------------------
(* sync and syncWorkspace. *)

\* Bound: while a session of a window is calculated or applied, no other one of that
\* window is started or confirmed.  An event waits a second, and that takes less; a Git
\* command does not wait.
Works(w) == \E s \in Sessions : window[s] = w /\ (s \in agreed \/ pc[s] \in {"scanned", "flushing"})

\* The timer fires, or a Git command has ended.
Start(w, s) ==
    /\ w \in due /\ ~Works(w) /\ ScanDb(s)
    /\ due' = due \ {w} /\ window' = [window EXCEPT ![s] = w] /\ gaveUp' = gaveUp \ {w}
    /\ UNCHANGED <<asking, agreed>>

\* There is no workspace to sync.
StartNone(w) ==
    /\ w \in due /\ db[Root] = Nothing
    /\ due' = due \ {w}
    /\ UNCHANGED <<vars, window, asking, agreed, gaveUp>>

ChangesRows(os) == \E op \in os : op.type \in DbUpserts \union {"DbDelete"}

Reads(s) ==
    /\ ScanFs(s)
    /\ \E force \in BOOLEAN :
          LET asks == ~force /\ ChangesRows(ops'[s]) IN
          /\ asking' = IF asks THEN {t \in asking : window[t] # window[s]} \union {s} ELSE asking
          /\ agreed' = IF asks THEN agreed ELSE agreed \union {s}
    /\ UNCHANGED <<window, due, gaveUp>>

Confirm(s) ==
    /\ s \in asking /\ ~Works(window[s])
    /\ asking' = asking \ {s} /\ agreed' = agreed \union {s}
    /\ UNCHANGED <<vars, window, due, gaveUp>>

\* The session has ended: well, or not.  Mutant: it stays agreed to.
EndsAgreed(s, well) ==
    /\ asking' = asking \ {s} /\ agreed' = agreed
    /\ gaveUp' = IF well THEN gaveUp ELSE gaveUp \union {window[s]}
    /\ UNCHANGED window
Ends(s, well) ==
    /\ asking' = asking \ {s} /\ agreed' = agreed \ {s}
    /\ gaveUp' = IF well THEN gaveUp ELSE gaveUp \union {window[s]}
    /\ UNCHANGED window
GoesOn == UNCHANGED <<window, asking, agreed, gaveUp>>

Refuse(s) == s \in asking /\ Decline(s) /\ Ends(s, FALSE) /\ UNCHANGED due

\* A session whose dialog was replaced is never heard of again.
Forgotten(s) ==
    /\ pc[s] = "ready" /\ s \notin asking \union agreed
    /\ Reset(s)
    /\ UNCHANGED <<clock, db, states, files, edited, disturbed>>
    /\ UNCHANGED <<window, due, asking, agreed, gaveUp>>

Applies(s) ==
    /\ s \in agreed /\ ApplyOp(s) /\ Told
    /\ IF pc'[s] = "idle" THEN Ends(s, FALSE) ELSE GoesOn

WritesStates(s) ==
    /\ ApplyStates(s) /\ UNCHANGED due
    /\ IF pc'[s] = "idle" THEN Ends(s, sops[s] = {}) ELSE GoesOn

Errs(s) == s \in agreed /\ IoError(s) /\ UNCHANGED due /\ Ends(s, FALSE)

-----------------------------------------------------------------------------

\* The application is started again, and its windows are opened.
Restart ==
    /\ Crash
    /\ due' = Windows /\ asking' = {} /\ agreed' = {} /\ gaveUp' = {} /\ UNCHANGED window

\* A window is opened, or comes to the workspace; or a Git command changed nothing.
Open(w) ==
    /\ w \notin due /\ clock < MaxClock
    /\ clock' = clock + 1 /\ due' = due \union {w}
    /\ UNCHANGED <<db, states, files, edited, disturbed>> /\ UNCHANGED sessVars
    /\ GoesOn

WindowsNext ==
    \/ \E w \in Windows : StartNone(w) \/ Open(w) \/ \E s \in Sessions : Start(w, s)
    \/ \E s \in Sessions :
          \/ Reads(s) \/ Confirm(s) \/ Refuse(s) \/ Forgotten(s)
          \/ Applies(s) \/ WritesStates(s) \/ Errs(s)
    \/ Restart
    \/ (User \/ Outside) /\ Told /\ GoesOn

WindowsSpec == WindowsInit /\ [][WindowsNext]_windowVars

\* A timer fires and what was started runs; nothing is assumed of the person, who may
\* leave a dialog open, nor of users, other programs and failures.
Fairness ==
    /\ \A w \in Windows : WF_windowVars(\E s \in Sessions : Start(w, s))
    /\ \A s \in Sessions :
          /\ WF_windowVars(Reads(s)) /\ WF_windowVars(Forgotten(s))
          /\ WF_windowVars(Applies(s)) /\ WF_windowVars(WritesStates(s))

FairSpec == WindowsSpec /\ Fairness

-----------------------------------------------------------------------------
(* When changes, failures and switches stop, the window's sessions come to *)
(* an end: nothing is left to do, or the latest asks, was refused or has   *)
(* failed.  Two sides may not undo each other for ever, and no event may   *)
(* be missed that leaves something to do (init/sync.ts, sync.rs).          *)
Asked(w) == \E s \in asking : window[s] = w
Settles ==
    <>[](db[Root] # Nothing =>
            \/ \A m \in Models : NothingToDo(m)
            \/ \A w \in Windows : w \in gaveUp \/ Asked(w))
=============================================================================
