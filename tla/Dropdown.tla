------------------------------ MODULE Dropdown ------------------------------
(***************************************************************************)
(* A dropdown menu (components/core/Dropdown.tsx), driven by the mouse and *)
(* the keyboard, and by the request switcher (RecentRequestsDropdown.tsx), *)
(* which opens it at its second item while Ctrl is held and runs the       *)
(* highlighted one when Ctrl is released.  The switcher calls functions    *)
(* that Dropdown copies from Menu when it renders: they are those of the   *)
(* render before, with the items of that time.                             *)
(***************************************************************************)
EXTENDS Integers, Sequences, FiniteSets

CONSTANTS
    Lists           \* the lists of items: sequences of [name, kind, matches]; each has an
                    \* item that can be chosen (in a list without one the index runs away)

Null == -2          \* no index; -1 is before the first

VARIABLES
    opened,         \* openAtom: "this", another dropdown's or no one's
    items,          \* the items to show
    menuItems,      \* those of the functions that Menu offers
    handleItems,    \* those of the functions that Dropdown offers
    keyItems,       \* those of the arrow keys
    filter,         \* has something been typed?
    selected,       \* selectedIndex
    waiting,        \* an item with waitForOnSelect has not ended
    changed,        \* the items have changed while the menu was open
    ran             \* what the switcher ran, and what was highlighted

vars == <<opened, items, menuItems, handleItems, keyItems, filter, selected, waiting,
          changed, ran>>

-----------------------------------------------------------------------------

Item(list, index) == IF index + 1 \in DOMAIN list THEN {list[index + 1]} ELSE {}

\* Content, such as a banner, is not skipped, nor is an item that is disabled.
Skipped(list, index) == \E item \in Item(list, index) : item.kind \in {"hidden", "separator"}

\* filteredItems
Shown == IF filter THEN SelectSeq(items, LAMBDA item : item.matches) ELSE items

\* handleNext: one turn of its loop
Forward(list, index) ==
    IF Skipped(list, index) THEN index + 1 ELSE IF index >= Len(list) THEN 0 ELSE index

\* handlePrev
Backward(list, index) ==
    IF Skipped(list, index) THEN index - 1 ELSE IF index < 0 THEN Len(list) - 1 ELSE index

\* as many turns as there are items
NextIndex(list) ==
    LET at[n \in 0..Len(list)] ==
            IF n = 0 THEN (IF selected = Null THEN -1 ELSE selected) + 1 ELSE Forward(list, at[n - 1])
    IN  at[Len(list)]

PrevIndex(list) ==
    LET at[n \in 0..Len(list)] ==
            IF n = 0 THEN (IF selected = Null THEN 0 ELSE selected) - 1 ELSE Backward(list, at[n - 1])
    IN  at[Len(list)]

\* an item that can be chosen: no content
CanChoose(list, index) == \E item \in Item(list, index) : item.kind = "item"

Init ==
    /\ items = (CHOOSE list \in Lists : TRUE) /\ menuItems = items
    /\ handleItems = <<>> /\ keyItems = <<>>
    /\ opened = "none" /\ filter = FALSE /\ selected = -1
    /\ waiting = FALSE /\ changed = FALSE /\ ran = <<>>

-----------------------------------------------------------------------------

\* Mutant: the functions stay those of the first render.
FirstHandle == IF handleItems = <<>> THEN menuItems ELSE handleItems

\* useImperativeHandle's dependency on menuRef.current, as it is before Menu renders
Handle == menuItems

Render(list) == items' = list /\ handleItems' = Handle /\ menuItems' = list

\* open: a render of its own
OpenAt(index) ==
    /\ opened' = "this" /\ selected' = index
    /\ keyItems' = items /\ changed' = FALSE
    /\ Render(items)
    /\ UNCHANGED <<filter, waiting, ran>>

\* the button, a hotkey
Open == opened # "this" /\ \E index \in {-1, 0} : OpenAt(index)

\* request_switcher.prev and .next: of an open menu they move the highlight
Switch ==
    \/ /\ opened # "this" /\ \E index \in {-1, 1} : OpenAt(index)
    \/ /\ opened = "this"
       /\ selected' \in {NextIndex(handleItems), PrevIndex(handleItems)}
       /\ UNCHANGED <<opened, items, menuItems, handleItems, keyItems, filter, waiting, changed, ran>>

\* handleClose, and what Dropdown does when it is no longer open
Close ==
    /\ opened' = "none" /\ filter' = FALSE /\ selected' = -1
    /\ Render(items)

Dismiss ==
    /\ opened = "this" /\ Close
    /\ UNCHANGED <<keyItems, waiting, changed, ran>>

\* Escape: the filter goes first
Escape ==
    /\ opened = "this"
    /\ IF filter
       THEN filter' = FALSE /\ UNCHANGED <<opened, items, menuItems, handleItems, selected>>
       ELSE Close
    /\ UNCHANGED <<keyItems, waiting, changed, ran>>

\* A menu elsewhere takes the atom; this one's filter stays.
OpenOther ==
    /\ opened # "other" /\ opened' = "other"
    /\ IF opened = "this" THEN selected' = -1 /\ Render(items)
       ELSE UNCHANGED <<selected, items, menuItems, handleItems>>
    /\ UNCHANGED <<keyItems, filter, waiting, changed, ran>>

ItemsChange(list) ==
    /\ list # items
    /\ Render(list)
    /\ changed' = (changed \/ opened = "this")
    /\ UNCHANGED <<opened, keyItems, filter, selected, waiting, ran>>

\* useKey, whose handlers are those of when the menu was opened
Arrow ==
    /\ opened = "this"
    /\ selected' \in {NextIndex(keyItems), PrevIndex(keyItems)}
    /\ UNCHANGED <<opened, items, menuItems, handleItems, keyItems, filter, waiting, changed, ran>>

\* handleMenuKeyDown
Type ==
    /\ opened = "this"
    /\ \/ filter' = TRUE /\ selected' = 0
       \/ filter /\ filter' = FALSE /\ UNCHANGED selected
    /\ UNCHANGED <<opened, items, menuItems, handleItems, keyItems, waiting, changed, ran>>

\* the mouse enters an item
Hover(index) ==
    /\ opened = "this" /\ CanChoose(Shown, index) /\ selected' = index
    /\ UNCHANGED <<opened, items, menuItems, handleItems, keyItems, filter, waiting, changed, ran>>

\* handleSelect, of an item that closes the menu, keeps it open, or waits
Click ==
    /\ opened = "this" /\ CanChoose(Shown, selected)
    /\ \/ Close /\ UNCHANGED waiting
       \/ /\ selected' = Null /\ waiting' \in {waiting, TRUE}
          /\ UNCHANGED <<opened, items, menuItems, handleItems, filter>>
    /\ UNCHANGED <<keyItems, changed, ran>>

\* A click on content closes the menu; the filter stays.
ClickContent(index) ==
    /\ opened = "this" /\ \E item \in Item(Shown, index) : item.kind = "content"
    /\ opened' = "none" /\ selected' = -1 /\ Render(items)
    /\ UNCHANGED <<keyItems, filter, waiting, changed, ran>>

\* What the item did has ended: onClose, whichever menu is open now.
WaitEnds ==
    /\ waiting /\ waiting' = FALSE /\ Close
    /\ UNCHANGED <<keyItems, changed, ran>>

\* Ctrl is released: select
Release ==
    /\ opened = "this" /\ CanChoose(handleItems, selected)
    /\ ran' = [item |-> Item(handleItems, selected), highlighted |-> Item(Shown, selected),
               plain |-> ~filter /\ ~changed]
    /\ Close
    /\ UNCHANGED <<keyItems, waiting, changed>>

Next ==
    \/ Open \/ Switch \/ Dismiss \/ Escape \/ OpenOther \/ Arrow \/ Type
    \/ Click \/ WaitEnds \/ Release
    \/ \E list \in Lists : ItemsChange(list)
    \/ \E index \in DOMAIN Shown : Hover(index - 1) \/ ClickContent(index - 1)

Spec == Init /\ [][Next]_vars

-----------------------------------------------------------------------------
(* Properties. *)

TypeOK ==
    /\ opened \in {"none", "this", "other"}
    /\ {items, menuItems} \subseteq Lists /\ {handleItems, keyItems} \subseteq Lists \cup {<<>>}
    /\ filter \in BOOLEAN /\ waiting \in BOOLEAN /\ changed \in BOOLEAN
    /\ selected \in Null..6

\* What the switcher runs is what is highlighted, though the functions it calls
\* are a render old; unless the items changed while the menu was open, or a
\* filter is typed (the index is one of the shown items, the functions take it
\* for one of all items).
RunsTheHighlighted == ran # <<>> => (ran.plain => ran.item = ran.highlighted)

MoveIsToAnItem ==
    /\ ~changed /\ items' = items /\ ~filter /\ ~filter'
    /\ opened = "this" /\ opened' = "this"
    /\ selected' # selected /\ selected' # Null
    => \E item \in Item(items, selected') : item.kind \in {"item", "content"}

\* The arrow keys and the switcher always move to an item, past separators and hidden
\* ones and around the ends.  Content has a place in the order too, though it cannot be
\* chosen and nothing is highlighted there: a menu whose first item is a banner
\* (GitDropdown.tsx, 398) has one more place than it shows.
MovesToAnItem == [][MoveIsToAnItem]_vars

=============================================================================
