------------------------------- MODULE Layout -------------------------------
(***************************************************************************)
(* The sidebar of the window: whether it is hidden, which is kept as a     *)
(* key-value row that all windows share, and how wide it is, which is kept *)
(* in the window; the handle that is dragged, and the button.  In a narrow *)
(* window it floats above the rest, hidden by a row of its own.            *)
(*                                                                         *)
(* A move of the handle writes the row and, when that is done, the width.  *)
(* A row that is not there yet is made, by each write that found none.     *)
(* The news of a write is there when it is done.                           *)
(***************************************************************************)
EXTENDS Integers, Sequences, SequencesExt

CONSTANTS Widths,    \* where the handle is moved to
          MaxCalls   \* bound: writes under way

Default == 250
Narrow == 50         \* the handle hides the sidebar below this
None == 0

VARIABLES
    rows,       \* the rows of the key, in the order of the store
    calls,      \* writes under way: [value, row, then]; row 0 is to be made,
                \* "then" the width that follows, or None
    width,      \* the width of the sidebar
    dragging,   \* the listeners of a drag are there
    floating,   \* the window is narrow
    floats,     \* the floating sidebar is shown
    wanted,     \* [hidden, width]: what was asked last
    disordered  \* a write was done after a later one, or another window wrote between

vars == <<rows, calls, width, dragging, floating, floats, wanted, disordered>>

\* What useKeyValue finds: the first row, or the fallback.
Hidden == IF rows = <<>> THEN FALSE ELSE rows[1]

TypeOK ==
    /\ rows \in Seq(BOOLEAN) /\ width \in Widths \cup {Default}
    /\ \A i \in DOMAIN calls :
          calls[i].value \in BOOLEAN /\ calls[i].row \in {0, 1}
          /\ calls[i].then \in Widths \cup {Default, None}
    /\ dragging \in BOOLEAN /\ floating \in BOOLEAN /\ floats \in BOOLEAN
    /\ wanted \in [hidden : BOOLEAN, width : Widths \cup {Default}]

Init ==
    /\ rows \in {<<>>, <<FALSE>>, <<TRUE>>}
    /\ calls = <<>> /\ width = Default /\ dragging = FALSE
    /\ floating = FALSE /\ floats = TRUE
    /\ wanted = [hidden |-> Hidden, width |-> Default] /\ disordered = FALSE

-----------------------------------------------------------------------------
\* A row of the key is patched, or made when there is none.
Target == IF rows = <<>> THEN 0 ELSE 1

setKeyValue(value, then) ==
    /\ Len(calls) < MaxCalls
    /\ calls' = Append(calls, [value |-> value, row |-> Target, then |-> then])

\* A drag starts, from the present width; an earlier one's listeners are removed.
ResizeStart ==
    /\ ~floating /\ ~dragging /\ dragging' = TRUE
    /\ UNCHANGED <<rows, calls, width, floating, floats, wanted, disordered>>

\* Mutant: a narrow width is kept
Kept(w) == w
\* The width that follows when the sidebar is hidden or shown.
WidthAfter(w) == IF w < Narrow THEN Default ELSE w

\* The mouse moves: the sidebar would be w wide.
Move(w) ==
    /\ dragging
    /\ setKeyValue(w < Narrow, WidthAfter(w))
    /\ wanted' = [hidden |-> w < Narrow, width |-> IF w < Narrow THEN Default ELSE w]
    /\ UNCHANGED <<rows, width, dragging, floating, floats, disordered>>

Up ==
    /\ dragging /\ dragging' = FALSE
    /\ UNCHANGED <<rows, calls, width, floating, floats, wanted, disordered>>

\* A double click on the handle.
Reset ==
    /\ ~floating /\ ~dragging /\ width' = Default
    /\ wanted' = [wanted EXCEPT !.width = Default]
    /\ disordered' = (disordered \/ calls # <<>>)
    /\ UNCHANGED <<rows, calls, dragging, floating, floats>>

\* The button above the sidebar, or the palette: of the one that is there.
Toggle ==
    /\ ~dragging
    /\ IF floating
       THEN floats' = ~floats /\ UNCHANGED <<calls, wanted>>
       ELSE /\ setKeyValue(~Hidden, None)
            /\ wanted' = [wanted EXCEPT !.hidden = ~Hidden]
            /\ UNCHANGED floats
    /\ UNCHANGED <<rows, width, dragging, floating, disordered>>

\* A click beside the floating sidebar closes it.
Close ==
    /\ floating /\ floats /\ floats' = FALSE
    /\ UNCHANGED <<rows, calls, width, dragging, floating, wanted, disordered>>

\* The window becomes narrow, or wide; a drag's listeners stay.
Resized ==
    /\ floating' = ~floating
    /\ UNCHANGED <<rows, calls, width, dragging, floats, wanted, disordered>>

\* A write is done, and what waited for it goes on.
Written(i) ==
    /\ rows' = IF calls[i].row = 0 THEN Append(rows, calls[i].value)
               ELSE [rows EXCEPT ![1] = calls[i].value]
    /\ width' = IF calls[i].then = None THEN width ELSE calls[i].then
    /\ calls' = RemoveAt(calls, i)
    /\ disordered' = (disordered \/ i > 1)
    /\ UNCHANGED <<dragging, floating, floats, wanted>>

\* Another window hides or shows the sidebar.
Others ==
    /\ rows # <<>>
    /\ rows' = [rows EXCEPT ![1] = ~@]
    /\ wanted' = [wanted EXCEPT !.hidden = rows'[1]]
    /\ disordered' = (disordered \/ calls # <<>>)
    /\ UNCHANGED <<calls, width, dragging, floating, floats>>

Next ==
    \/ \E w \in Widths : Move(w)
    \/ ResizeStart \/ Up \/ Reset \/ Toggle \/ Close \/ Resized \/ Others
    \/ \E i \in DOMAIN calls : Written(i)

Spec == Init /\ [][Next]_vars

-----------------------------------------------------------------------------
(* Properties. *)

\* When the writes are done, in their order, the sidebar is as the last move of the
\* handle, or the button, left it; a key written twice before its row is there has two
\* rows, of which the first is read (setKeyValue).
IsWherePut ==
    calls = <<>> /\ ~disordered /\ Len(rows) <= 1 =>
        Hidden = wanted.hidden /\ width = wanted.width

\* A sidebar that is shown again can be seen.
NeverNarrow == width >= Narrow
=============================================================================
