------------------------------ MODULE Navigation ------------------------------
(***************************************************************************)
(* Where a window is: the workspace and the request, environment or cookie *)
(* jar in its address, what is active because of it, and the lists of the  *)
(* recent ones, which are kept in the database so that a switch of         *)
(* workspace comes back to where one was.                                  *)
(*                                                                         *)
(* The three kinds are kept by three hooks of one shape (`kind` is which); *)
(* a jar is active only when it is in the window's models, and the first   *)
(* one is made active when there is none.  An effect of React runs in the  *)
(* step that causes it.  A write of a list is on its way until the window  *)
(* has the news of it; what other windows write is left out.               *)
(***************************************************************************)
EXTENDS Integers, Sequences, FiniteSets, SequencesExt

CONSTANTS
    Workspaces, Things,   \* the workspaces, and the things each one has at first
    MaxAsked              \* bound: writes of lists that are on their way at once

None == ""
Kinds == {"request", "environment", "jar"}

VARIABLES
    kind,      \* what this behaviour is about
    url,       \* [ws, id]: the window's address
    active,    \* [ws, id]: the active workspace and thing
    rows,      \* the things of each workspace in the database, in order
    loaded,    \* the workspace whose models the window has; None at the start
    loading,   \* the workspace whose models are asked for; None when none are
    seen,      \* the lists of recent ones that the window knows
    asked,     \* writes on their way to the database and back
    raced,     \* somebody moved while a list was on its way
    cancelled, \* the making of a jar was given up, and none chosen since
    astray     \* jars changed in the middle of a switch

vars == <<kind, url, active, rows, loaded, loading, seen, asked, raced, cancelled, astray>>

Known == UNION {Range(Things[w]) : w \in Workspaces}
HeadOr(s) == IF s = <<>> THEN None ELSE Head(s)
InStore(w) == IF w = None THEN <<>> ELSE rows[w]

TypeOK ==
    /\ kind \in Kinds
    /\ url \in [ws : Workspaces \cup {None}, id : Known \cup {None}]
    /\ active \in [ws : Workspaces \cup {None}, id : Known \cup {None}]
    /\ loaded \in Workspaces \cup {None} /\ loading \in Workspaces \cup {None}
    /\ \A k \in Workspaces : IsInjective(seen[k])

Quiet == asked = {}
Settled == loading = None /\ loaded = url.ws

Init ==
    /\ kind \in Kinds
    /\ url = [ws |-> None, id |-> None] /\ active = url
    /\ rows = Things
    /\ loaded = None /\ loading = None
    /\ \E before \in BOOLEAN :
           seen = [w \in Workspaces |-> IF before THEN <<Last(Things[w])>> ELSE <<>>]
    /\ asked = {}
    /\ raced = FALSE /\ cancelled = FALSE /\ astray = FALSE

-----------------------------------------------------------------------------
\* Mutant: the list grows at its end, as one that is appended to would.
PutLast(key, id) ==
    IF id = None \/ HeadOr(seen[key]) = id THEN {}
    ELSE {[key |-> key, new |-> seen[key] = <<>>,
           list |-> SelectSeq(seen[key], LAMBDA other : other # id) \o <<id>>]}

\* The writes that follow when `id` becomes active: it is put before the others of
\* the list the window sees, unless it is the first already.
Remember(key, id) ==
    IF id = None \/ HeadOr(seen[key]) = id THEN {}
    ELSE {[key |-> key, new |-> seen[key] = <<>>,
           list |-> <<id>> \o SelectSeq(seen[key], LAMBDA other : other # id)]}

\* What is active under an address: a jar must be among the window's.
ActiveOf(u, store) ==
    IF kind = "jar" /\ u.id \notin Range(store) THEN None ELSE u.id

\* Mutant: only an address without a jar gets one.
OnlyWithoutOne(u, store) ==
    IF kind = "jar" /\ store # <<>> /\ u.id = None THEN [u EXCEPT !.id = Head(store)] ELSE u

\* With other jars than before, an address of none of them becomes the first.
Ensured(u, store) ==
    IF kind = "jar" /\ store # <<>> /\ u.id \notin Range(store)
    THEN [u EXCEPT !.id = Head(store)] ELSE u

\* The window's address and jars become these: what is active follows, what has
\* become active is remembered; so is a jar whose row is read `fresh`.
Becomes(u, store, fresh) ==
    LET id == ActiveOf(u, store)
        writes == asked
            \cup (IF u.ws # None /\ (id # active.id \/ (fresh /\ kind = "jar"))
                  THEN Remember(u.ws, id) ELSE {})
    IN  /\ Cardinality(writes) <= MaxAsked
        /\ url' = u
        /\ active' = [ws |-> u.ws, id |-> id]
        /\ asked' = writes
        /\ raced' = (raced \/ (~Quiet /\ u # url))

\* An address that is chosen.
Go(u) ==
    /\ Becomes(u, InStore(loaded), FALSE)
    /\ loading' = IF u.ws # active.ws THEN u.ws ELSE loading
    /\ UNCHANGED <<kind, rows, loaded, seen>>

-----------------------------------------------------------------------------
\* On a switch, and when the window starts (in any workspace: the list of the recent
\* ones is kept like the others), the last thing of the workspace is in the address.
\* One workspace's models are asked for at a time (module ModelStore has more).
Switch(w) ==
    /\ loading = None
    /\ Go([ws |-> w, id |-> HeadOr(seen[w])])
    /\ cancelled' = IF w = url.ws /\ HeadOr(seen[w]) = None THEN cancelled ELSE FALSE
    /\ UNCHANGED astray

\* A request, environment or jar of those the window shows (not in the middle of a
\* switch, when they are the other workspace's).
Select(id) ==
    /\ Settled /\ id \in Range(InStore(loaded)) /\ id # url.id
    /\ Go([url EXCEPT !.id = id])
    /\ cancelled' = FALSE
    /\ UNCHANGED astray

\* The active environment is chosen again: no environment.
Deselect ==
    /\ kind = "environment" /\ active.id # None
    /\ Go([url EXCEPT !.id = None])
    /\ UNCHANGED <<cancelled, astray>>

\* The prompt for a new jar's name is left: the mutation succeeds with null.
CancelJar ==
    /\ kind = "jar" /\ Settled /\ url.id # None
    /\ Go([url EXCEPT !.id = None])
    /\ cancelled' = TRUE
    /\ UNCHANGED astray

-----------------------------------------------------------------------------
\* The answer with the models of a workspace.
Loaded ==
    /\ loading # None
    /\ Becomes(Ensured(url, rows[loading]), rows[loading], TRUE)
    /\ loaded' = loading /\ loading' = None
    /\ cancelled' = FALSE
    /\ UNCHANGED <<kind, rows, seen, astray>>

\* The things of the window's models change: one is made, deleted, or gets a cookie.
\* The last jar cannot be deleted.
Changes(w, things) ==
    /\ rows' = [rows EXCEPT ![w] = things]
    /\ IF w = loaded
       THEN /\ Becomes(Ensured(url, things), things, TRUE)
            /\ cancelled' = (cancelled /\ things = <<>>)
            /\ astray' = (astray \/ ~Settled)
       ELSE UNCHANGED <<url, active, asked, raced, cancelled, astray>>
    /\ UNCHANGED <<kind, loaded, loading, seen>>

Delete(w) ==
    \E id \in Range(rows[w]) :
        /\ kind = "jar" => Len(rows[w]) > 1
        /\ Changes(w, SelectSeq(rows[w], LAMBDA other : other # id))

GetCookie == kind = "jar" /\ loaded # None /\ Changes(loaded, rows[loaded])

-----------------------------------------------------------------------------
\* The database has a list, and the window the news: what was written for a key that
\* the window knew nothing of is a row of its own, not the one that is read.
Write ==
    \E w \in asked :
        /\ asked' = asked \ {w}
        /\ seen' = IF w.new /\ seen[w.key] # <<>> THEN seen ELSE [seen EXCEPT ![w.key] = w.list]
    /\ UNCHANGED <<kind, url, active, rows, loaded, loading, raced, cancelled, astray>>

Next ==
    \/ \E w \in Workspaces : Switch(w)
    \/ \E id \in Known : Select(id)
    \/ Deselect \/ CancelJar
    \/ Loaded \/ \E w \in Workspaces : Delete(w)
    \/ GetCookie
    \/ Write

Spec == Init /\ [][Next]_vars

-----------------------------------------------------------------------------
\* A request is sent with a jar of its own workspace: once the models are there, the
\* active jar is one of them, unless the making of one was given up.
JarIsOwn ==
    kind = "jar" /\ Settled /\ InStore(loaded) # <<>> /\ ~cancelled /\ ~raced
        => active.id \in Range(InStore(loaded))

\* The way back: with no list on its way, the first of the workspace's list is what
\* is active there.
ActiveIsFirst ==
    Quiet /\ ~raced /\ active.id # None /\ active.ws # None
        => HeadOr(seen[active.ws]) = active.id

\* What a workspace's list restores is of that workspace.
RecentAreOwn == ~astray => \A w \in Workspaces : Range(seen[w]) \subseteq Range(Things[w])
=============================================================================
