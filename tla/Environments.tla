---------------------------- MODULE Environments ----------------------------
(***************************************************************************)
(* The environments of a workspace: the dialog that edits them and the     *)
(* menu that activates one.                                                *)
(*                                                                         *)
(* An environment is a number, in the order of making; the dialog lists    *)
(* them by name, so that a new one can be anywhere.  Of a variable's value *)
(* it only matters whether it has text in the clear.  The news of a row is *)
(* in the window as soon as it is written, but for the encryption, which   *)
(* renews the rows of the editor at once.  Encryption is set up; renaming, *)
(* colours and the checks of names are left out.                           *)
(***************************************************************************)
EXTENDS Integers, Sequences, SequencesExt, FiniteSetsExt

CONSTANTS
    Names,     \* of variables
    Shareable, \* environments one makes public
    Made       \* bound: environments that are made

None == 0
Ids == 1..Made
Values == [Names -> {"plain", "secure"}]
Secure == [n \in Names |-> "secure"]
NoQuestion == [kind |-> "nothing"]
NoEditor == [of |-> None, vars |-> Secure]

VARIABLES
    envs,       \* the environments, in the order of their names
    isBase,     \* which of all that were made are base environments
    public,     \* and which are shareable
    variables,  \* the values of each that was made
    selected,   \* what the dialog's state says; None: the base environment
    active,     \* the active environment of the workspace, by the location
    asking,     \* the prompt or confirmation that is open
    encrypting, \* what "encrypt all" was clicked for, or no editor
    editor,     \* the environment whose rows are shown, and these rows
    apart       \* the editor was renewed with values older than the row

vars == <<envs, isBase, public, variables, selected, active, asking, encrypting, editor, apart>>

-----------------------------------------------------------------------------
Exists(e) == e \in ToSet(envs)
Fresh == Len(variables) + 1

\* Where the base environments are, and the first of them, or None.
Bases(es, base) == {i \in 1..Len(es) : es[i] \in base}
FirstBase(es, base) ==
    LET at == Bases(es, base) IN IF at = {} THEN None ELSE es[Min(at)]

\* What the dialog shows by its state; None when that is gone.
ShownOf(s, es, base) ==
    IF s = None THEN FirstBase(es, base) ELSE IF s \in ToSet(es) THEN s ELSE None

Shown == ShownOf(selected, envs, isBase)

EditorOf(e, values) == IF e = None THEN NoEditor ELSE [of |-> e, vars |-> values[e]]

TypeOK ==
    /\ ToSet(envs) \subseteq DOMAIN variables /\ IsInjective(envs)
    /\ isBase \cup public \subseteq DOMAIN variables
    /\ variables \in Seq(Values) /\ Len(variables) <= Made
    /\ selected \in Ids \cup {None} /\ active \in Ids \cup {None}
    /\ editor \in [of : Ids \cup {None}, vars : Values]
    /\ encrypting \in [of : Ids \cup {None}, vars : Values]

Init ==
    /\ envs = <<1>> /\ isBase = {1} /\ public = {} /\ variables = <<Secure>>
    /\ selected = None /\ active = None /\ asking = NoQuestion
    /\ encrypting = NoEditor /\ apart = FALSE
    /\ editor = EditorOf(1, variables)

-----------------------------------------------------------------------------
(* What the dialog shows. *)

\* The dialog's state is s: the editor is renewed when the environment is another.
\* (envs', isBase' and variables' are known.)
Show(s) ==
    LET now == ShownOf(s, envs', isBase') IN
    /\ selected' = s
    /\ editor' = IF now = editor.of THEN editor ELSE EditorOf(now, variables')
    /\ apart' = (apart /\ now = editor.of)

RowsStay == UNCHANGED <<envs, isBase, public, variables>>

Select(e) ==
    /\ Exists(e) /\ asking = NoQuestion
    /\ RowsStay /\ Show(e)
    /\ UNCHANGED <<active, asking, encrypting>>

\* The dialog is closed, and opened again at the active environment.
Reopen ==
    /\ asking = NoQuestion /\ encrypting = NoEditor
    /\ RowsStay
    /\ selected' = IF Exists(active) THEN active ELSE None
    /\ editor' = EditorOf(ShownOf(selected', envs, isBase), variables)
    /\ apart' = FALSE
    /\ UNCHANGED <<active, asking, encrypting>>

\* The menu's item for e: the active one is switched off.
Activate(e) ==
    /\ Exists(e) /\ e \notin isBase
    /\ active' = IF e = active THEN None ELSE e
    /\ RowsStay
    /\ UNCHANGED <<selected, asking, encrypting, editor, apart>>

\* a new row, which sorts anywhere
Added(base, values) ==
    /\ Fresh \in Ids
    /\ \E i \in 1..(Len(envs) + 1) : envs' = InsertAt(envs, i, Fresh)
    /\ isBase' = IF base THEN isBase \cup {Fresh} ELSE isBase
    /\ variables' = Append(variables, values)

\* The name was entered: the new one is activated and selected.
Create ==
    /\ FirstBase(envs, isBase) # None /\ asking = NoQuestion
    /\ Added(FALSE, Secure)
    /\ Show(Fresh)
    /\ active' = Fresh
    /\ UNCHANGED <<public, asking, encrypting>>

-----------------------------------------------------------------------------
(* The items of the list's context menu, and their questions. *)

\* A base environment has an item to delete it only while there are others.
Ask(kind, e) ==
    /\ asking = NoQuestion /\ Exists(e)
    /\ kind = "delete" /\ e \in isBase => Cardinality(Bases(envs, isBase)) > 1
    /\ asking' = [kind |-> kind, of |-> e, vars |-> variables[e], selected |-> selected,
                  base |-> FirstBase(envs, isBase)]
    /\ RowsStay
    /\ UNCHANGED <<selected, active, encrypting, editor, apart>>

\* Mutant: the copy is as public as what it is of
StaysPublic(e, of) == IF of \in public THEN public \cup {e} ELSE public
\* A copy is private.
SharedWith(e, of) == public

\* The copy has the values of when its item was clicked.
Duplicated ==
    /\ asking.kind = "duplicate"
    /\ Added(asking.of \in isBase, asking.vars)
    /\ public' = SharedWith(Fresh, asking.of)
    /\ Show(Fresh)
    /\ asking' = NoQuestion
    /\ UNCHANGED <<active, encrypting>>

\* Mutant: no base environment is made for a deleted one
NoBase(es) == /\ envs' = es /\ UNCHANGED <<isBase, variables>>
\* With no base environment left, one is made.
EnsureBase(es) ==
    IF Bases(es, isBase) # {} THEN envs' = es /\ UNCHANGED <<isBase, variables>>
    ELSE /\ Fresh \in Ids
         /\ \E i \in 1..(Len(es) + 1) : envs' = InsertAt(es, i, Fresh)
         /\ isBase' = isBase \cup {Fresh}
         /\ variables' = Append(variables, Secure)

Removed(e) == EnsureBase(RemoveFirst(envs, e))

\* After the confirmation, whatever its answer, the base environment is selected if of
\* was when the item was rendered.
SelectedAfter(of, then, base) == IF then = of THEN base ELSE selected

Answered(confirmed) ==
    /\ asking.kind = "delete"
    /\ IF confirmed THEN Removed(asking.of) ELSE UNCHANGED <<envs, isBase, variables>>
    /\ Show(SelectedAfter(asking.of, asking.selected, asking.base))
    /\ asking' = NoQuestion
    /\ UNCHANGED <<public, active, encrypting>>

CalledOff ==
    /\ asking.kind = "duplicate" /\ asking' = NoQuestion
    /\ RowsStay
    /\ UNCHANGED <<selected, active, encrypting, editor, apart>>

TogglePublic(e) ==
    /\ Exists(e) /\ e \in Shareable /\ asking = NoQuestion
    /\ public' = IF e \in public THEN public \ {e} ELSE public \cup {e}
    /\ UNCHANGED <<envs, isBase, variables, selected, active, asking, encrypting, editor, apart>>

-----------------------------------------------------------------------------
(* The variables of the environment that is shown. *)

\* Text is typed for n: all the rows of the editor are saved.
Edit(n) ==
    /\ editor.of # None /\ asking = NoQuestion
    /\ editor' = [editor EXCEPT !.vars[n] = "plain"]
    /\ variables' = [variables EXCEPT ![editor.of] = editor'.vars]
    /\ apart' = FALSE
    /\ UNCHANGED <<envs, isBase, public, selected, active, asking, encrypting>>

HasPlain(values) == \E n \in Names : values[n] = "plain"

\* The button to encrypt all: the values of now are encrypted, one after the other.
Encrypt ==
    /\ Shown # None /\ HasPlain(variables[Shown]) /\ encrypting = NoEditor
    /\ encrypting' = EditorOf(Shown, variables)
    /\ RowsStay
    /\ UNCHANGED <<selected, active, asking, editor, apart>>

\* They are written, whatever was typed meanwhile, and the editor gets a new key,
\* before or after the news of the row; an environment that is gone is left alone.
Encrypted ==
    /\ encrypting # NoEditor
    /\ encrypting' = NoEditor
    /\ IF Exists(encrypting.of)
       THEN /\ variables' = [variables EXCEPT ![encrypting.of] = Secure]
            /\ \E seen \in {variables, variables'} :
                  /\ editor' = EditorOf(Shown, seen)
                  /\ apart' = (EditorOf(Shown, seen) # EditorOf(Shown, variables'))
       ELSE UNCHANGED <<variables, editor, apart>>
    /\ UNCHANGED <<envs, isBase, public, selected, active, asking>>

\* A value that cannot be parsed ends it.
NotEncrypted ==
    /\ encrypting # NoEditor /\ encrypting' = NoEditor
    /\ RowsStay
    /\ UNCHANGED <<selected, active, asking, editor, apart>>

\* Another window, or a sync, deletes e.
OthersDelete(e) ==
    /\ Exists(e)
    /\ Removed(e)
    /\ Show(selected)
    /\ UNCHANGED <<public, active, asking, encrypting>>

Next ==
    \/ \E e \in ToSet(envs) :
          \/ Select(e) \/ Activate(e) \/ TogglePublic(e) \/ OthersDelete(e)
          \/ \E kind \in {"duplicate", "delete"} : Ask(kind, e)
    \/ Reopen \/ Create \/ Duplicated \/ CalledOff
    \/ \E confirmed \in BOOLEAN : Answered(confirmed)
    \/ \E n \in Names : Edit(n)
    \/ Encrypt \/ Encrypted \/ NotEncrypted

Spec == Init /\ [][Next]_vars

-----------------------------------------------------------------------------
(* Properties. *)

\* However environments are deleted, by whichever window, the workspace has a base
\* environment, without which no request can be sent (get_base_environment).
AlwaysABase == FirstBase(envs, isBase) # None

\* The editor has the rows of the environment that is shown, unless it was renewed
\* before the news came (regenerateForceUpdateKey).
EditorShowsRow == ~apart => editor = EditorOf(Shown, variables)

\* Only the menu's item makes an environment public: a copy of a public one is not.
NewIsPrivate == public' \subseteq public \cup ToSet(envs)

\* A value that is encrypted stays so, but for the one that is typed, as long as the
\* editor has the rows: saving a row saves all of them.
OthersStayClosed ==
    ~apart => \A e \in ToSet(envs) :
        Cardinality({n \in Names : variables[e][n] = "secure" /\ variables'[e][n] = "plain"}) <= 1

\* When a delete was asked for the selected environment, by then not the base one, the
\* dialog does not end with an environment that cannot be found.
ShowsAnother ==
    asking.kind = "delete" /\ asking' = NoQuestion /\ asking.of # asking.base
    /\ Exists(asking.base) => ShownOf(selected, envs, isBase) = None \/ Shown' # None
=============================================================================
