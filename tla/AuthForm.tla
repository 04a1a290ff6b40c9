------------------------------ MODULE AuthForm ------------------------------
(***************************************************************************)
(* The authentication of a request (components/HttpAuthenticationEditor,   *)
(* DynamicForm, hooks/useAuthTab, useHttpAuthenticationConfig and          *)
(* useInheritedAuthentication): its type, which a folder or the workspace  *)
(* may give, and the form that the plugin of that type sends for the       *)
(* values of now, while the form before it stays on the screen.            *)
(***************************************************************************)
EXTENDS Integers, Sequences, FiniteSets, SequencesExt

CONSTANTS
    Folders,        \* and there are a request and a workspace
    Homes,          \* where the request and the folders may be: functions to
                    \* Folders, or "" for the workspace itself
    Headers,        \* of each model
    Forms,          \* of each type: sequences of [name, kind, default]
    MaxSent         \* a bound

Edited == "request"
Workspace == "workspace"
Owners == Folders \cup {Edited, Workspace}

Inherit == ""       \* authenticationType === null
Types == DOMAIN Forms \cup {Inherit, "none"}
Unset == "unset"
Fields == UNION {{Forms[t][k].name : k \in DOMAIN Forms[t]} : t \in DOMAIN Forms}

VARIABLES
    home,           \* folderId of the request and of each folder
    auth,           \* of each model, in the window: [type, data]
    sent,           \* patches of the request under way
    form,           \* authConfig.data: at most one [type, data] that it was fetched for
    fetching,       \* the query of the present key has no answer yet
    mixed           \* a field of another type's form was typed, or a patch was merged
                    \* before an event had come

vars == <<home, auth, sent, form, fetching, mixed>>

Nothing == [f \in Fields |-> Unset]

-----------------------------------------------------------------------------
(* What is inherited: the window's walk, and the sender's. *)

Up(tree, m) == IF tree[m] # "" THEN tree[m] ELSE Workspace

\* useInheritedAuthentication: at most one model
RECURSIVE Inherited(_, _, _)
Inherited(tree, a, m) ==
    IF m = Workspace THEN IF a[m].type = Inherit THEN <<>> ELSE <<m>>
    ELSE IF a[m].type # Inherit THEN <<m>>
    ELSE Inherited(tree, a, Up(tree, m))

RECURSIVE InheritedHeaders(_, _)
InheritedHeaders(tree, m) ==
    IF m = Workspace THEN <<>>
    ELSE InheritedHeaders(tree, Up(tree, m)) \o Headers[Up(tree, m)]

\* resolve_auth_for_folder, and the like for requests and workspaces
RECURSIVE ResolveAuth(_, _, _)
ResolveAuth(tree, a, m) ==
    IF m = Workspace \/ a[m].type # Inherit THEN [auth |-> a[m], id |-> m]
    ELSE IF tree[m] # "" THEN ResolveAuth(tree, a, tree[m])
    ELSE [auth |-> a[Workspace], id |-> Workspace]

RECURSIVE ResolveHeaders(_, _)
ResolveHeaders(tree, m) ==
    IF m = Workspace THEN Headers[m]
    ELSE (IF tree[m] # "" THEN ResolveHeaders(tree, tree[m]) ELSE Headers[Workspace])
         \o Headers[m]

-----------------------------------------------------------------------------
(* The form: what an input shows, and what the plugin reads. *)

\* TextArg: a default only where nothing was typed
TextShows(input, value) == IF value = Unset THEN input.default ELSE value

\* SelectArg: what is empty is not chosen
SelectShows(input, value) == IF value \in {Unset, ""} THEN input.default ELSE value

\* FormInputs
Shown(input, data) ==
    IF input.kind = "select" THEN SelectShows(input, data[input.name])
    ELSE TextShows(input, data[input.name])

\* applyFormInputDefaults
Read(input, data) == IF data[input.name] = Unset THEN input.default ELSE data[input.name]

Offered(input) == IF input.kind = "select" THEN {"p", "q"} ELSE {"", "x"}

OwnFields(type) == IF type \in DOMAIN Forms THEN {Forms[type][k].name : k \in DOMAIN Forms[type]} ELSE {}

-----------------------------------------------------------------------------

Mine == auth[Edited]

\* Mutant: the values are not part of the key.
TypeOnly(a) == a.type

\* the key of the query
Key(a) == a

\* The store changes: with another key the form is asked for again, and the one before
\* stays, unless the cache has one.
Becomes(a) ==
    /\ auth' = a
    /\ IF Key(a[Edited]) = Key(Mine) THEN UNCHANGED <<form, fetching>>
       ELSE \/ UNCHANGED form /\ fetching' = TRUE
            \/ form' = <<a[Edited]>> /\ fetching' = FALSE

Init ==
    /\ home \in Homes
    /\ auth = [m \in Owners |-> [type |-> IF m = Workspace THEN "none" ELSE Inherit, data |-> Nothing]]
    /\ sent = <<>> /\ form = <<>> /\ fetching = TRUE /\ mixed = FALSE

Patch(a) == Len(sent) < MaxSent /\ sent' = Append(sent, a)

Arrives ==
    /\ sent # <<>> /\ sent' = Tail(sent)
    /\ Becomes([auth EXCEPT ![Edited] = Head(sent)])
    /\ UNCHANGED <<home, mixed>>

\* Mutant: the values stay when the type changes.
OldValues(type) == Mine.data

\* Reset auth if changing types
Values(type) == IF type # Mine.type THEN Nothing ELSE Mine.data

ChangeType(type) ==
    /\ Patch([type |-> type, data |-> Values(type)])
    /\ mixed' = (mixed \/ sent # <<>>)
    /\ UNCHANGED <<home, auth, form, fetching>>

\* setDataAttr: the form on the screen may be that of the type before
TypeIn(input, value) ==
    /\ Mine.type \in DOMAIN Forms /\ form # <<>>
    /\ form[1].type \in DOMAIN Forms /\ input \in ToSet(Forms[form[1].type])
    /\ value # Shown(input, Mine.data)
    /\ Patch([Mine EXCEPT !.data[input.name] = value])
    /\ mixed' = (mixed \/ sent # <<>> \/ input.name \notin OwnFields(Mine.type))
    /\ UNCHANGED <<home, auth, form, fetching>>

\* cmd_get_http_authentication_config
ConfigArrives ==
    /\ fetching /\ fetching' = FALSE /\ form' = <<Mine>>
    /\ UNCHANGED <<home, auth, sent, mixed>>

\* an error: no plugin of that name, or none that answers
ConfigFails ==
    /\ fetching /\ fetching' = FALSE /\ form' = <<>>
    /\ UNCHANGED <<home, auth, sent, mixed>>

\* after an action of the plugin, or a response: the same form again
Refresh == fetching' = TRUE /\ UNCHANGED <<home, auth, sent, form, mixed>>

\* the editor is mounted anew: it has no form before the first
Remount ==
    /\ form # <<>> /\ form' = <<>> /\ fetching' = TRUE
    /\ UNCHANGED <<home, auth, sent, mixed>>

\* the settings of a folder or of the workspace, in any window
SetOther(m, type) ==
    /\ m # Edited /\ type # auth[m].type
    /\ Becomes([auth EXCEPT ![m] = [type |-> type, data |-> Nothing]])
    /\ UNCHANGED <<home, sent, mixed>>

Move(tree) == tree # home /\ home' = tree /\ UNCHANGED <<auth, sent, form, fetching, mixed>>

Next ==
    \/ Arrives \/ ConfigArrives \/ ConfigFails \/ Refresh \/ Remount
    \/ \E type \in Types : ChangeType(type)
    \/ \E t \in DOMAIN Forms : \E input \in ToSet(Forms[t]) :
         \E value \in Offered(input) : TypeIn(input, value)
    \/ \E m \in Owners, type \in Types : SetOther(m, type)
    \/ \E tree \in Homes : Move(tree)

Spec == Init /\ [][Next]_vars

-----------------------------------------------------------------------------
(* Properties. *)

TypeOK ==
    /\ home \in Homes /\ Len(sent) <= MaxSent /\ Len(form) <= 1
    /\ \A m \in Owners : auth[m].type \in Types /\ DOMAIN auth[m].data = Fields

\* What the window says is inherited is what the sender will use: the authentication
\* and its owner, and the headers with their order.
InheritedIsSent ==
    \A m \in Owners :
        LET found == Inherited(home, auth, m)
            used == ResolveAuth(home, auth, m)
        IN  /\ IF found = <<>> THEN used.auth.type = Inherit
               ELSE used = [auth |-> auth[found[1]], id |-> found[1]]
            /\ m # Workspace => ResolveHeaders(home, m) = InheritedHeaders(home, m) \o Headers[m]

\* When nothing is fetched the form, if there is one, is that of the stored type, for
\* the stored values, and the plugin reads what the form shows.
FormFits ==
    ~fetching /\ form # <<>> =>
        /\ form[1] = Mine
        /\ Mine.type \in DOMAIN Forms =>
             \A k \in DOMAIN Forms[Mine.type] :
                 Shown(Forms[Mine.type][k], Mine.data) = Read(Forms[Mine.type][k], Mine.data)

\* Values are never kept under another type than the one they were typed for.
ValuesOfType ==
    ~mixed => \A a \in {Mine} \cup ToSet(sent) :
        \A f \in Fields \ OwnFields(a.type) : a.data[f] = Unset

=============================================================================
