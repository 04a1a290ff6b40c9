----------------------------- MODULE SidebarKeys -----------------------------
(***************************************************************************)
(* The requests of the sidebar under the keyboard: which one is selected,  *)
(* whether the sidebar thinks that it has the focus, and where the focus   *)
(* of the document really is.  Arrows, Enter and Backspace are heard       *)
(* everywhere and act when the sidebar thinks that it has the focus.  A    *)
(* dialog takes the focus while it is there and gives it back.             *)
(*                                                                         *)
(* Folders are left out, the keys go through their requests in order, and  *)
(* what a request is called.                                               *)
(***************************************************************************)
EXTENDS Integers, Sequences, SequencesExt

CONSTANTS Requests,  \* those there can be
          MaxAsked   \* bound: navigations and patches under way

None == "none"

VARIABLES
    list,      \* the requests in the order of the tree
    active,    \* the request of the location, or None; perhaps not there any more
    hidden,    \* the sidebar is hidden
    hasFocus,  \* what the sidebar thinks
    selected,  \* the selected request, or None; perhaps not there any more
    focus,     \* "sidebar", one of its requests, "field" of a name, "dialog" or "away"
    editing,   \* the request whose name is edited, or None
    asked,     \* the request that is asked about before it is deleted, or None
    calls,     \* navigations, and patches of names, under way: [does, to]
    stray      \* the focus went without a blur, or was only thought to come

vars == <<list, active, hidden, hasFocus, selected, focus, editing, asked, calls, stray>>

Inside == {"sidebar", "field"} \cup Requests
Places == Inside \cup {"dialog", "away"}

TypeOK ==
    /\ ToSet(list) \subseteq Requests /\ IsInjective(list)
    /\ {active, selected, editing, asked} \subseteq Requests \cup {None}
    /\ hidden \in BOOLEAN /\ hasFocus \in BOOLEAN /\ stray \in BOOLEAN
    /\ focus \in Places
    /\ \A i \in DOMAIN calls : calls[i] \in [does : {"go", "name"}, to : Requests]

Init ==
    /\ list \in SetToSeqs(Requests)
    /\ active \in Requests \cup {None}
    /\ hidden = FALSE /\ hasFocus = FALSE /\ selected = None /\ focus = "away"
    /\ editing = None /\ asked = None /\ calls = <<>> /\ stray = FALSE

-----------------------------------------------------------------------------
There(r) == r \in ToSet(list)
IndexOf(r) == IF There(r) THEN CHOOSE i \in DOMAIN list : list[i] = r ELSE 0

\* Mutant: what was selected stays so
KeepSelected == selected
\* What the sidebar selects when it gets the focus: the active request, if it is there.
ActiveItem == IF There(active) THEN active ELSE None

\* Mutant: the focus is thought to stay
StaysOn(inside) == TRUE
\* What the sidebar thinks after the focus left an element of it.
Blurred(inside) == FALSE

\* The document's focus moves to an element, with its blur and focus events.
FocusTo(place) ==
    /\ focus' = place
    /\ LET thinks == IF focus \in Inside THEN Blurred(place \in Inside) ELSE hasFocus
       IN  /\ hasFocus' = (place \in Inside \/ thinks)
           /\ selected' = IF place \in Inside /\ ~thinks THEN ActiveItem ELSE selected
    /\ stray' = (stray /\ place \notin Inside)

\* The person goes to the sidebar with Tab, or elsewhere.
Tab ==
    /\ focus \notin {"dialog", "field"}
    /\ \E place \in {"sidebar", "away"} \ {focus} : FocusTo(place)
    /\ UNCHANGED <<list, active, hidden, editing, asked, calls>>

\* A click on a request: it is focused, and navigated to.
Click(r) ==
    /\ focus \notin {"dialog", "field"} /\ There(r) /\ ~hidden /\ Len(calls) < MaxAsked
    /\ FocusTo(r)
    /\ calls' = Append(calls, [does |-> "go", to |-> r])
    /\ UNCHANGED <<list, active, hidden, editing, asked>>

\* The key that focuses the sidebar: it shows it, or hides it when it has the focus.  With
\* nothing to select the focus is only thought to come.  The focus that is given, and the
\* blur of an element of the sidebar before it, find the handlers of the last rendering.
FocusKey ==
    /\ focus \notin {"dialog", "field"}
    /\ LET id == IF selected = None THEN ActiveItem ELSE selected
       IN  CASE ~hidden /\ hasFocus ->
                  hidden' = TRUE /\ UNCHANGED <<hasFocus, selected, focus, stray>>
             [] ~(~hidden /\ hasFocus) /\ id = None ->
                  /\ hidden' = FALSE /\ hasFocus' = TRUE /\ selected' = None
                  /\ stray' = (focus \notin Inside) /\ UNCHANGED focus
             [] OTHER ->
                  /\ hidden' = FALSE /\ focus' = "sidebar" /\ stray' = FALSE
                  /\ hasFocus' = ~(hasFocus /\ focus \in Requests)
                  /\ selected' = IF hasFocus \/ focus = "sidebar" THEN id ELSE ActiveItem
    /\ UNCHANGED <<list, active, editing, asked, calls>>

\* The arrows go around.
Arrow(step) ==
    /\ hasFocus /\ focus \notin {"dialog", "field"} /\ list # <<>>
    /\ LET i == IndexOf(selected) + step
       IN  selected' = IF i < 1 THEN Last(list)
                       ELSE IF i > Len(list) THEN Head(list) ELSE list[i]
    /\ UNCHANGED <<list, active, hidden, hasFocus, focus, editing, asked, calls,
                   stray>>

\* Enter makes the selected request the active one.
Enter ==
    /\ hasFocus /\ focus \notin {"dialog", "field"} /\ There(selected)
    /\ active' = selected
    /\ UNCHANGED <<list, hidden, hasFocus, selected, focus, editing, asked, calls,
                   stray>>

\* Backspace asks whether to delete the selected request, and the menu of a request
\* whether to delete that one; the dialog gets the focus.
Ask(r) ==
    /\ There(r) /\ asked = None /\ focus \notin {"dialog", "field"}
    /\ asked' = r /\ FocusTo("dialog")
    /\ UNCHANGED <<list, active, hidden, editing, calls>>

Backspace == hasFocus /\ Ask(selected)

\* The answer; the dialog gives the focus back to the sidebar.
Answer(yes) ==
    /\ asked # None /\ asked' = None
    /\ list' = IF yes THEN SelectSeq(list, LAMBDA r : r # asked) ELSE list
    /\ focus' \in {"sidebar", "away"}
    /\ hasFocus' = (focus' = "sidebar")
    /\ selected' = IF focus' = "sidebar" THEN ActiveItem ELSE selected
    /\ stray' = FALSE
    /\ UNCHANGED <<active, hidden, editing, calls>>

\* The menu of a request copies it: the copy comes after it and becomes active.
Duplicate(r) ==
    /\ There(r) /\ focus \notin {"dialog", "field"} /\ Len(calls) < MaxAsked
    /\ \E copy \in Requests \ ToSet(list) :
          /\ editing # copy /\ active # copy /\ selected # copy /\ focus # copy
          /\ list' = InsertAt(list, IndexOf(r) + 1, copy)
          /\ active' = copy
    /\ UNCHANGED <<hidden, hasFocus, selected, focus, editing, asked, calls, stray>>

\* Another window deletes a request; if it had the focus there is no blur.
DeletedElsewhere(r) ==
    /\ There(r)
    /\ list' = SelectSeq(list, LAMBDA q : q # r)
    /\ LET lost == focus = IF editing = r THEN "field" ELSE r
       IN  /\ focus' = IF lost THEN "away" ELSE focus
           /\ stray' = (stray \/ lost)
    /\ editing' = IF editing = r THEN None ELSE editing
    /\ UNCHANGED <<active, hidden, hasFocus, selected, asked, calls>>

-----------------------------------------------------------------------------
(* The name of a request. *)

\* A double click edits it in place.
StartEditing(r) ==
    /\ There(r) /\ editing = None /\ ~hidden /\ focus \notin {"dialog", "field"}
    /\ editing' = r /\ FocusTo("field")
    /\ UNCHANGED <<list, active, hidden, asked, calls>>

\* What is in the field is to be written, by Enter, or because the focus goes.
Submit(goes) ==
    /\ focus = "field" /\ Len(calls) < MaxAsked
    /\ calls' = Append(calls, [does |-> "name", to |-> editing])
    /\ IF goes THEN FocusTo("away") ELSE UNCHANGED <<focus, hasFocus, selected, stray>>
    /\ UNCHANGED <<list, active, hidden, editing, asked>>

\* Escape takes the field away, without a blur.
EscapeName ==
    /\ focus = "field" /\ editing' = None
    /\ focus' = "away" /\ stray' = TRUE
    /\ UNCHANGED <<list, active, hidden, hasFocus, selected, asked, calls>>

\* The first of what is under way is done: a request is navigated to, and the sidebar
\* thinks that it has the focus, wherever it went meanwhile; or a name is written, and
\* its field goes, without a blur.
Done ==
    /\ calls # <<>> /\ calls' = Tail(calls)
    /\ LET c == Head(calls)
       IN  IF c.does = "go"
           THEN /\ active' = c.to /\ hasFocus' = TRUE /\ selected' = c.to
                /\ stray' = (stray \/ focus \notin Inside)
                /\ UNCHANGED <<focus, editing>>
           ELSE /\ editing' = IF editing = c.to THEN None ELSE editing
                /\ focus' = IF focus = "field" /\ editing = c.to THEN "away" ELSE focus
                /\ stray' = (stray \/ focus' # focus)
                /\ UNCHANGED <<active, hasFocus, selected>>
    /\ UNCHANGED <<list, hidden, asked>>

Next ==
    \/ Tab \/ FocusKey \/ Enter \/ Backspace \/ EscapeName \/ Done
    \/ \E r \in Requests :
          Click(r) \/ Ask(r) \/ Duplicate(r) \/ DeletedElsewhere(r) \/ StartEditing(r)
    \/ \E step \in {-1, 1} : Arrow(step)
    \/ \E yes \in BOOLEAN : Answer(yes)
    \/ \E goes \in BOOLEAN : Submit(goes)

Spec == Init /\ [][Next]_vars

-----------------------------------------------------------------------------
(* Properties. *)

\* The keys act on the sidebar only while the focus is in it (hasFocus): Backspace in an
\* editor deletes no request.  Not after an element went away with the focus, and not
\* when a navigation ended after the focus had gone.
KeysAreIts == hasFocus /\ ~stray => focus \in Inside

\* When the focus comes to the sidebar, also back from a dialog or by its key, the active
\* request is selected, whatever was: the keys begin there (focusActiveRequest).
ComesToTheActive ==
    focus \notin Inside /\ ~hasFocus /\ focus' \in {"sidebar"} \cup Requests =>
        selected' = IF There(active) THEN active ELSE None
=============================================================================
