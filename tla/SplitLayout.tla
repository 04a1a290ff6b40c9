----------------------------- MODULE SplitLayout -----------------------------
(***************************************************************************)
(* The pane of the request and the pane of its response, side by side in a *)
(* wide window and one above the other in a narrow one, with a handle      *)
(* between them.  The share of the second pane is kept per workspace and   *)
(* direction in the window's storage, by a hook that shows the value of    *)
(* its key and writes under the key it was rendered with.                  *)
(***************************************************************************)
EXTENDS Integers

CONSTANTS Widths,  \* what the container is wide
          Height,  \* and high
          Asked,   \* what the pointer leaves to the second pane
          Spaces   \* workspaces

MinPx == 10
StackVerticalWidth == 500

VARIABLES
    stored,  \* direction -> workspace -> the share kept for it, or Unset
    shown,   \* direction -> the share the hook returns
    space,   \* the active workspace
    size,    \* the width of the container
    second,  \* there is a second pane
    drag,    \* the listeners: [on, way, of], of the render the drag began in
    crossed  \* the workspace changed in the middle of a drag

vars == <<stored, shown, space, size, second, drag, crossed>>

Ways == {"width", "height"}

\* A share is a size of the second pane and the size it was part of.
Unset == <<0, 0>>
DefaultRatio == <<1, 2>>

vertical == size < StackVerticalWidth
Way == IF vertical THEN "height" ELSE "width"
Whole(way) == IF way = "height" THEN Height ELSE size

\* The share of the second pane: none when it is not there.
Ratio(way) ==
    IF way = "height" /\ ~second THEN <<0, 1>>
    ELSE IF shown[way] = Unset THEN DefaultRatio ELSE shown[way]

NoDrag == [on |-> FALSE, way |-> "width", of |-> CHOOSE w \in Spaces : TRUE]

TypeOK ==
    /\ space \in Spaces /\ size \in Widths /\ second \in BOOLEAN /\ crossed \in BOOLEAN
    /\ drag \in [on : BOOLEAN, way : Ways, of : Spaces]
    /\ \A way \in Ways :
          /\ shown[way][1] <= shown[way][2]
          /\ \A w \in Spaces : stored[way][w][1] <= stored[way][w][2]

Init ==
    /\ stored = [way \in Ways |-> [w \in Spaces |-> Unset]]
    /\ shown = [way \in Ways |-> Unset]
    /\ space \in Spaces /\ size \in Widths /\ second \in BOOLEAN
    /\ drag = NoDrag /\ crossed = FALSE

-----------------------------------------------------------------------------
Lesser(a, b) == IF a < b THEN a ELSE b
Greater(a, b) == IF a < b THEN b ELSE a

clamp(value, low, high) == Lesser(Greater(value, low), high)

\* Mutant: only the second pane keeps its least size
LeastOnly(px, whole) == Greater(px, MinPx)
\* What a pane of px gets: both keep their least size.
Clamped(px, whole) == clamp(px, MinPx, whole - MinPx)

\* The hook's setter: under the key of the render that made it.
set(way, of, ratio) ==
    /\ stored' = [stored EXCEPT ![way][of] = ratio]
    /\ shown' = [shown EXCEPT ![way] = ratio]

\* The handle is only there with a second pane.
ResizeStart ==
    /\ second /\ ~drag.on
    /\ drag' = [on |-> TRUE, way |-> Way, of |-> space]
    /\ UNCHANGED <<stored, shown, space, size, second, crossed>>

\* The pointer moves so that px would be left to the second pane.
Move(px) ==
    /\ drag.on
    /\ LET whole == Whole(drag.way)
       IN  set(drag.way, drag.of, <<Clamped(px, whole), whole>>)
    /\ UNCHANGED <<space, size, second, drag, crossed>>

Up ==
    /\ drag.on /\ drag' = NoDrag
    /\ UNCHANGED <<stored, shown, space, size, second, crossed>>

Reset ==
    /\ second /\ ~drag.on
    /\ set(Way, space, DefaultRatio)
    /\ UNCHANGED <<space, size, second, drag, crossed>>

\* The window is made wider or narrower, between drags.
Resized ==
    /\ ~drag.on /\ size' \in Widths \ {size}
    /\ UNCHANGED <<stored, shown, space, second, drag, crossed>>

\* A response comes or goes; listeners stay.
Responded ==
    /\ second' = ~second
    /\ UNCHANGED <<stored, shown, space, size, drag, crossed>>

\* Mutant: the hook keeps what it shows
KeepsShown(way, w) == shown[way]
\* The hook reads the value of its new key.
Read(way, w) == stored[way][w]

\* Another workspace becomes active, perhaps by a key in the middle of a drag.
Switch ==
    \E w \in Spaces \ {space} :
        /\ space' = w
        /\ shown' = [way \in Ways |-> Read(way, w)]
        /\ crossed' = (crossed \/ drag.on)
        /\ UNCHANGED <<stored, size, second, drag>>

Next ==
    \/ \E px \in Asked : Move(px)
    \/ ResizeStart \/ Up \/ Reset \/ Resized \/ Responded \/ Switch

Spec == Init /\ [][Next]_vars

-----------------------------------------------------------------------------
(* Properties. *)

\* Wherever the handle was dragged, both panes can be seen, and the handle between
\* them, also when the window was made smaller after it (the clamp and the ratio).
BothAreSeen ==
    \A way \in Ways :
        LET px == (Ratio(way)[1] * Whole(way)) \div Ratio(way)[2]
        IN  second => px > 0 /\ px < Whole(way)

\* The panes are divided as they were when this workspace was left (the key of the
\* storage); a workspace that became active in the middle of a drag gets the other's.
DividedAsLeft == crossed \/ \A way \in Ways : shown[way] = stored[way][space]
=============================================================================
