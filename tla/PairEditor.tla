----------------------------- MODULE PairEditor -----------------------------
(***************************************************************************)
(* The editor of headers, parameters and form fields                       *)
(* (components/core/PairEditor.tsx and BulkPairEditor.tsx).  It keeps its  *)
(* own copy of the pairs, which it takes from the model when it appears    *)
(* and when somebody else writes the model (forceUpdateKey changes), and   *)
(* writes all of them on every change.  Its own writes come back later, as *)
(* events of the model store, and change nothing in it.                    *)
(***************************************************************************)
EXTENDS Naturals, Sequences, SequencesExt, FiniteSets, FiniteSetsExt

CONSTANTS
    PairTexts,      \* what a pair can be, all its fields together; "" is an empty one
    MaxPairs,       \* bound on the rows
    MaxSaves        \* bound on the writes on their way

None == 0           \* identifiers are 1, 2, ...
Theirs == 1         \* the one of a pair that is written elsewhere

VARIABLES
    pairs,      \* the rows of the form
    lines,      \* the text of the bulk editor
    useBulk,    \* which of the two is shown
    focused,    \* the row that is typed in
    dragged,    \* the row that is dragged
    hovered,    \* hoveredIndex: the drop marker is above this row; 0 for null
    asked,      \* the row as it was when its dialog was opened, or <<>>
    stored,     \* the pairs of the model, as the store has them (empty ones, which
                \* nothing reads, left out)
    saves,      \* writes on their way to the store
    crossed     \* an edit was on its way when the editor was switched

vars == <<pairs, lines, useBulk, focused, dragged, hovered, asked, stored, saves, crossed>>

-----------------------------------------------------------------------------

Ids(s) == {s[k].id : k \in DOMAIN s}
InUse ==
    {Theirs} \cup Ids(pairs) \cup Ids(stored) \cup Ids(asked) \cup UNION {Ids(saves[k].pairs) : k \in DOMAIN saves}

\* generateId, for the n-th of several new rows
NewId(n) == CHOOSE i \in 1..(Cardinality(InUse) + n) : i \notin InUse /\ Cardinality({j \in 1..i : j \notin InUse}) = n

IndexOf(s, id) == CHOOSE k \in DOMAIN s : s[k].id = id

IsEmpty(pair) == pair.text = ""
NotEmpty(s) == SelectSeq(s, LAMBDA pair : ~IsEmpty(pair))
EmptyPair == [id |-> NewId(1), text |-> ""]

\* Mutant: no row to type in.
OnlyNotEmpty(original) == NotEmpty(original)

\* the effect on forceUpdateKey: the pairs that say something, and an empty one
Loaded(original) == Append(NotEmpty(original), EmptyPair)

\* pairsText
Lines(s) == [k \in DOMAIN NotEmpty(s) |-> NotEmpty(s)[k].text]

\* lineToPair: every line becomes a pair with an identifier of its own
LinesToPairs(text) ==
    [k \in DOMAIN text |-> [id |-> NewId(k), text |-> text[k]]]

Init ==
    /\ stored = <<[id |-> Theirs, text |-> "a"]>>
    /\ pairs = Append(stored, [id |-> 2, text |-> ""])
    /\ lines = <<>> /\ useBulk = FALSE /\ crossed = FALSE
    /\ focused = None /\ dragged = None /\ hovered = 0
    /\ asked = <<>> /\ saves = <<>>

-----------------------------------------------------------------------------

Save(s) ==
    /\ Len(saves) < MaxSaves /\ Len(NotEmpty(s)) < MaxPairs    \* bounds
    /\ saves' = Append(saves, [toggle |-> FALSE, pairs |-> NotEmpty(s)])

\* Mutant: what is saved is the state of before the change.
SavesThePrevious(s) == pairs' = s /\ Save(pairs)

\* setPairsAndSave
SetPairsAndSave(s) == pairs' = s /\ Save(s)

\* handleFocusName, handleFocusValue: the last row gets another one below it
FocusRow(id) ==
    /\ ~useBulk /\ asked = <<>> /\ dragged = None /\ focused # id
    /\ focused' = id
    /\ pairs' = IF id = Last(pairs).id THEN Append(pairs, EmptyPair) ELSE pairs
    /\ Len(pairs') <= MaxPairs
    /\ UNCHANGED <<lines, useBulk, dragged, hovered, asked, stored, saves, crossed>>

Blur ==
    /\ focused # None /\ focused' = None
    /\ UNCHANGED <<pairs, lines, useBulk, dragged, hovered, asked, stored, saves, crossed>>

\* handleChange
Replace(pair) == [k \in DOMAIN pairs |-> IF pairs[k].id = pair.id THEN pair ELSE pairs[k]]

\* handleChangeName, handleChangeValueText (and, without focus, the checkbox)
TypeInRow(text) ==
    /\ focused # None /\ pairs[IndexOf(pairs, focused)].text # text
    /\ SetPairsAndSave(Replace([pairs[IndexOf(pairs, focused)] EXCEPT !.text = text]))
    /\ UNCHANGED <<lines, useBulk, focused, dragged, hovered, asked, stored, crossed>>

\* handleDelete, from the row's menu; a form's file menu has it in the last row too
DeleteRow(id) ==
    /\ ~useBulk /\ asked = <<>> /\ dragged = None
    /\ focused' = None
    /\ SetPairsAndSave(SelectSeq(pairs, LAMBDA pair : pair.id # id))
    /\ pairs' # <<>>
    /\ UNCHANGED <<lines, useBulk, dragged, hovered, asked, stored, crossed>>

\* handleEditMultiLineValue and the dialogs of FileActionsDropdown keep the row
\* they were opened for, and answer with it changed
\* (opening one while the editor is being switched is left out)
AskAboutRow(id) ==
    /\ \A k \in DOMAIN saves : ~saves[k].toggle
    /\ ~useBulk /\ asked = <<>> /\ dragged = None
    /\ focused' = None
    /\ asked' = <<pairs[IndexOf(pairs, id)]>>
    /\ UNCHANGED <<pairs, lines, useBulk, dragged, hovered, stored, saves, crossed>>

AnswerAboutRow(text) ==
    /\ asked # <<>> /\ asked' = <<>>
    /\ IF text = asked[1].text THEN UNCHANGED <<pairs, saves>>
       ELSE SetPairsAndSave(Replace([asked[1] EXCEPT !.text = text]))
    /\ UNCHANGED <<lines, useBulk, focused, dragged, hovered, stored, crossed>>

\* handleMove: over which half of which row
HoverRow(id, over, below) ==
    /\ saves = <<>>         \* a bound
    /\ ~useBulk /\ asked = <<>> /\ dragged \in {None, id}
    /\ dragged' = id /\ focused' = None
    /\ hovered' = IF below THEN IndexOf(pairs, over) + 1 ELSE IndexOf(pairs, over)
    /\ hovered' # hovered
    /\ UNCHANGED <<pairs, lines, useBulk, asked, stored, saves, crossed>>

\* Mutant: the row's old place is not counted.
WhereHovered(index, at) == at

\* handleEnd: where the row goes once it has been taken out
DropAt(index, at) == IF at > index THEN at - 1 ELSE at

DropRow ==
    /\ dragged # None /\ dragged' = None /\ hovered' = 0
    /\ IF dragged \in Ids(pairs)
       THEN LET index == IndexOf(pairs, dragged)
                without == SelectSeq(pairs, LAMBDA pair : pair.id # dragged)
                \* splice puts what is past the end at the end
                to == Min({DropAt(index, hovered), Len(without) + 1})
            IN  SetPairsAndSave(InsertAt(without, to, pairs[index]))
       ELSE SetPairsAndSave(pairs)
    /\ UNCHANGED <<lines, useBulk, focused, asked, stored, crossed>>

\* BulkPairEditor: handleChange
EditLines(text) ==
    /\ useBulk /\ text # lines
    /\ lines' = text
    /\ Save(LinesToPairs(text))
    /\ UNCHANGED <<pairs, useBulk, focused, dragged, hovered, asked, stored, crossed>>

\* PairOrBulkEditor: setUseBulk writes a preference, which arrives in its turn
SwitchEditor ==
    /\ asked = <<>> /\ dragged = None
    /\ \A k \in DOMAIN saves : ~saves[k].toggle
    /\ Len(saves) < MaxSaves
    /\ saves' = Append(saves, [toggle |-> TRUE, pairs |-> <<>>])
    /\ UNCHANGED <<pairs, lines, useBulk, focused, dragged, hovered, asked, stored, crossed>>

\* An editor appears: it takes the pairs of the model.
Mount(bulk) ==
    /\ useBulk' = bulk
    /\ lines' = IF bulk THEN Lines(stored') ELSE <<>>
    /\ pairs' = IF bulk THEN <<>> ELSE Loaded(stored')
    /\ focused' = IF focused \in Ids(pairs') THEN focused ELSE None
    /\ hovered' = IF bulk THEN 0 ELSE hovered
    /\ dragged' = IF bulk THEN None ELSE dragged

\* a write of this window comes back
SaveArrives ==
    /\ saves # <<>> /\ saves' = Tail(saves)
    /\ IF saves[1].toggle
       THEN /\ crossed' = (Len(saves) > 1)
            /\ UNCHANGED <<stored, asked>>
            /\ Mount(~useBulk)
       ELSE /\ stored' = saves[1].pairs
            /\ UNCHANGED <<pairs, lines, useBulk, focused, dragged, hovered, asked, crossed>>

\* useRequestUpdateKey: another window, a sync or a plugin has written the model
WrittenElsewhere(s) ==
    /\ saves = <<>> /\ s # stored
    /\ stored' = s /\ crossed' = FALSE
    /\ UNCHANGED <<saves, asked>>
    /\ Mount(useBulk)

Next ==
    \/ \E id \in Ids(pairs) :
         \/ FocusRow(id) \/ DeleteRow(id) \/ AskAboutRow(id)
         \/ \E over \in Ids(pairs), below \in BOOLEAN : HoverRow(id, over, below)
    \/ \E text \in PairTexts : TypeInRow(text) \/ AnswerAboutRow(text)
    \/ \E text \in {<<>>} \cup {<<t>> : t \in PairTexts \ {""}} : EditLines(text)
    \/ \E s \in {<<>>, <<[id |-> Theirs, text |-> "a"]>>} : WrittenElsewhere(s)
    \/ Blur \/ DropRow \/ SwitchEditor \/ SaveArrives

Spec == Init /\ [][Next]_vars

-----------------------------------------------------------------------------
(* Properties. *)

TypeOK ==
    /\ \A s \in {pairs, stored} : \A k \in DOMAIN s :
         s[k] \in [id : Nat \ {0}, text : PairTexts]
    /\ Cardinality(Ids(pairs)) = Len(pairs)
    /\ focused \in Ids(pairs) \cup {None} /\ dragged \in Nat
    /\ useBulk \in BOOLEAN /\ crossed \in BOOLEAN
    /\ useBulk <=> pairs = <<>>
    /\ hovered \in 0..(MaxPairs + 1) /\ Len(asked) <= 1

\* the pairs as they are, or will be when the writes have arrived
Latest ==
    LET edits == SelectSeq(saves, LAMBDA save : ~save.toggle)
    IN  IF edits = <<>> THEN stored ELSE Last(edits).pairs

\* What the editor shows is what it has saved, but for empty rows, through
\* typing, dragging, dialogs, bulk edits, switching and others' writes, unless
\* an edit was still on its way when the editor was switched.
RowsAreSaved ==
    ~crossed => IF useBulk THEN lines = Lines(Latest) ELSE NotEmpty(pairs) = Latest

\* The row that the user types in is never the last one, which is drawn as not
\* yet added: unchecked, and with no menu.
TypedRowIsNotLast == focused # None => Last(pairs).id # focused

DropIsAtMarker ==
    dragged # None /\ dragged' = None /\ ~useBulk' /\ dragged \in Ids(pairs) =>
        \A k \in DOMAIN pairs :
            pairs[k].id # dragged =>
                (k < hovered <=> IndexOf(pairs', pairs[k].id) < IndexOf(pairs', dragged))

\* A dropped row goes where the marker was: below the rows that were above it.
DropsAtMarker == [][DropIsAtMarker]_vars

=============================================================================
