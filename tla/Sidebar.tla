------------------------------- MODULE Sidebar -------------------------------
(***************************************************************************)
(* The tree of folders and requests (components/sidebar): it is built from *)
(* the folder and the sort priority of every model, and an item is dragged *)
(* to a marker that the mouse leaves between two items.  What a drop       *)
(* changes is written model by model and comes back as events of the store.*)
(***************************************************************************)
EXTENDS Integers, Sequences, SequencesExt, FiniteSets, FiniteSetsExt

CONSTANTS
    Order,              \* the models: identifiers, in the order of the store
    Folders,            \* those that are folders
    Step,               \* between two renumbered items (1000)
    One,                \* the smallest gap that is divided (1), in the unit of Step
    Priorities          \* those of the models before

Models == ToSet(Order)
Root == "root"
Nothing == "nothing"

VARIABLES
    rows,       \* the models of this window's store: folder and sort priority
    arriving,   \* what has been written and is not yet in the store
    collapsed,  \* folders that are closed
    dragging,   \* draggingId
    hover,      \* hoveredTree, as it was then, and hoveredIndex; or <<>>
    crossed,    \* the tree changed during a drag, or was about to
    wanted      \* where the marker of the last drop was

vars == <<rows, arriving, collapsed, dragging, hover, crossed, wanted>>

-----------------------------------------------------------------------------

ChildrenMap(tree) == {m \in DOMAIN rows : rows[m].folder = tree}

\* childItems.sort; the sort is stable
ByPriority(a, b) == a.priority < b.priority \/ (a.priority = b.priority /\ a.rank < b.rank)

Rank(m) == CHOOSE k \in DOMAIN Order : Order[k] = m

\* sidebarTreeAtom: the children of a node
Children(tree) ==
    LET nodes == {[id |-> m, priority |-> rows[m].priority, rank |-> Rank(m)] : m \in ChildrenMap(tree)}
    IN  SetToSortSeq(nodes, ByPriority)

Ids(nodes) == [k \in DOMAIN nodes |-> nodes[k].id]

\* what is found from the root, but not below a folder that is not entered
Found(entered) ==
    LET upTo[n \in 0..Len(Order)] ==
            IF n = 0 THEN ChildrenMap(Root)
            ELSE upTo[n - 1] \cup UNION {ChildrenMap(f) : f \in upTo[n - 1] \cap entered}
    IN  upTo[Len(Order)]

\* SidebarItems: the children of an open folder, unless it is the dragged one
Open == Folders \ (collapsed \cup {dragging})

Init ==
    /\ rows \in [Models -> [folder : {Root} \cup Folders, priority : Priorities]]
    /\ Found(Folders) = Models
    /\ collapsed \in SUBSET Folders
    /\ arriving = <<>> /\ dragging = Nothing /\ hover = <<>>
    /\ crossed = FALSE /\ wanted = <<>>

-----------------------------------------------------------------------------

DragStart(id) ==
    /\ dragging = Nothing /\ id \in Found(Open)
    /\ ~crossed /\ wanted = <<>>          \* one drag: a bound
    /\ dragging' = id /\ hover' = <<>>
    /\ UNCHANGED <<rows, arriving, collapsed, crossed, wanted>>

Place(tree, index) == [tree |-> tree, nodes |-> Children(tree), index |-> index]

IndexOf(nodes, id) == CHOOSE k \in DOMAIN nodes : nodes[k].id = id

\* handleMove: above or below an item; just below an open folder is into it
HoverItem(id, below) ==
    /\ dragging # Nothing /\ id \in Found(Open)
    /\ hover' = IF below /\ id \in Folders \ collapsed THEN Place(id, 0)
                ELSE LET tree == rows[id].folder
                     IN  Place(tree, IndexOf(Children(tree), id) - (IF below THEN 0 ELSE 1))
    /\ UNCHANGED <<rows, arriving, collapsed, dragging, crossed, wanted>>

\* handleMoveToSidebarEnd
HoverEnd ==
    /\ dragging # Nothing
    /\ hover' = Place(Root, Len(Children(Root)))
    /\ UNCHANGED <<rows, arriving, collapsed, dragging, crossed, wanted>>

\* Array.splice, for an insertion
Splice(s, at, x) ==
    InsertAt(s, 1 + IF at < 0 THEN Max({Len(s) + at, 0}) ELSE Min({at, Len(s)}), x)

\* Mutant: the item is counted where it was.
AtMarker(moved, index, from) == index

\* where the item goes among the others
InsertIndex(moved, index, from) == IF moved \/ index < from THEN index ELSE index - 1

\* what is written: one priority between its neighbours, or all of them anew
Patches(tree, nodes, at) ==
    LET before == IF at > 1 THEN nodes[at - 1].priority ELSE 0
        after == IF at < Len(nodes) THEN nodes[at + 1].priority ELSE 0
    IN  IF after - before < One
        THEN [k \in DOMAIN nodes |-> [id |-> nodes[k].id, folder |-> tree, priority |-> (k - 1) * Step]]
        ELSE <<[id |-> nodes[at].id, folder |-> tree, priority |-> after - (after - before) \div 2]>>

\* handleEnd
DragEnd ==
    /\ dragging # Nothing /\ dragging' = Nothing
    /\ hover' = <<>>
    /\ IF hover = <<>> \/ hover.tree = dragging \/ dragging \notin Found(Folders)
       THEN UNCHANGED <<arriving, wanted>>
       ELSE LET parent == rows[dragging].folder
                from == IndexOf(Children(parent), dragging) - 1
                child == Children(parent)[from + 1]
                others == SelectSeq(hover.nodes, LAMBDA node : node.id # dragging)
                moved == hover.tree # parent
                nodes == Splice(others, InsertIndex(moved, hover.index, from), child)
            IN  /\ arriving' = arriving \o Patches(hover.tree, nodes, IndexOf(nodes, dragging))
                /\ wanted' = [id |-> dragging, tree |-> hover.tree,
                              above |-> SubSeq(Ids(hover.nodes), 1, hover.index),
                              below |-> SubSeq(Ids(hover.nodes), hover.index + 1, Len(hover.nodes))]
    /\ UNCHANGED <<rows, collapsed, crossed>>

\* upserted_model
PatchArrives ==
    /\ arriving # <<>> /\ arriving' = Tail(arriving)
    /\ rows' = [m \in DOMAIN rows |->
                  IF m = arriving[1].id
                  THEN [folder |-> arriving[1].folder, priority |-> arriving[1].priority] ELSE rows[m]]
    /\ UNCHANGED <<collapsed, dragging, hover, crossed, wanted>>

ToggleCollapsed(folder) ==
    /\ folder \in Found(Open) /\ dragging = Nothing
    /\ collapsed' = IF folder \in collapsed THEN collapsed \ {folder} ELSE collapsed \cup {folder}
    /\ UNCHANGED <<rows, arriving, dragging, hover, crossed, wanted>>

\* deleteModelWithConfirm; a folder goes with what is in it
Delete(id) ==
    /\ dragging # Nothing /\ ~crossed    \* one change: a bound
    /\ LET inside[n \in 0..Len(Order)] ==
                IF n = 0 THEN {id} ELSE inside[n - 1] \cup UNION {ChildrenMap(f) : f \in inside[n - 1]}
       IN  rows' = Restrict(rows, DOMAIN rows \ inside[Len(Order)])
    /\ crossed' = TRUE
    /\ UNCHANGED <<arriving, collapsed, dragging, hover, wanted>>

\* another window or a sync moves an item
MovedElsewhere(id, tree) ==
    /\ dragging # Nothing /\ ~crossed    \* one change: a bound
    /\ rows[id].folder # tree /\ tree \in {Root} \cup DOMAIN rows
    /\ rows' = [rows EXCEPT ![id].folder = tree]
    /\ Found(Folders)' = DOMAIN rows
    /\ crossed' = TRUE
    /\ UNCHANGED <<arriving, collapsed, dragging, hover, wanted>>

Next ==
    \/ \E id \in DOMAIN rows :
         \/ DragStart(id) \/ Delete(id)
         \/ \E below \in BOOLEAN : HoverItem(id, below)
         \/ \E tree \in {Root} \cup Folders : MovedElsewhere(id, tree)
    \/ \E folder \in Folders : ToggleCollapsed(folder)
    \/ HoverEnd \/ DragEnd \/ PatchArrives

Spec == Init /\ [][Next]_vars

-----------------------------------------------------------------------------
(* Properties. *)

TypeOK ==
    /\ DOMAIN rows \subseteq Models
    /\ \A m \in DOMAIN rows : rows[m].folder \in {Root} \cup Folders /\ rows[m].priority \in Int
    /\ collapsed \subseteq Folders /\ dragging \in Models \cup {Nothing}
    /\ crossed \in BOOLEAN

\* Nothing vanishes from the tree: a folder is never dropped into itself or below
\* itself, however the mouse goes, unless the tree changed while it was dragged.
NothingVanishes == ~crossed => Found(Folders) = DOMAIN rows

OnItself ==
    \/ wanted.above # <<>> /\ Last(wanted.above) = wanted.id
    \/ wanted.below # <<>> /\ wanted.below[1] = wanted.id

ShownAtMarker ==
    wanted # <<>> /\ arriving = <<>> /\ ~crossed =>
        LET others(s) == SelectSeq(s, LAMBDA id : id # wanted.id)
        IN  Ids(Children(wanted.tree)) = others(wanted.above) \o <<wanted.id>> \o others(wanted.below)

\* When a drop has been written, the item is where the marker was and nothing else
\* in that folder has moved, whether one model was written or all.
DroppedAtMarker == (wanted # <<>> => ~OnItself) => ShownAtMarker

\* "Moving up or into a new tree is simply inserting before the hovered item.
\* Moving down has to account for the fact that the original item will be removed":
\* so is an item that is dropped where it was.
DroppedInPlace == ShownAtMarker

=============================================================================
