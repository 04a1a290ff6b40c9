-------------------------------- MODULE Palette --------------------------------
(***************************************************************************)
(* The command palette: the commands of the workspace, its requests and    *)
(* its environments, the ones used last first; a text that filters them    *)
(* after a pause of 150 ms; an item that is highlighted, with the arrow    *)
(* keys, and run.  Requests come and go and become active meanwhile.       *)
(*                                                                         *)
(* Of each group at most MaxPerGroup items are shown.  How well an item    *)
(* matches a text is a constant, and so is the order of creation; the list *)
(* of workspaces is one like that of the requests.                         *)
(***************************************************************************)
EXTENDS Integers, Sequences, SequencesExt, FiniteSets

CONSTANTS
    Commands, RequestCommands,  \* keys, in the order of their labels; the latter
                                \* are there only with an active request
    Created, Environments,      \* requests and environments in the order they were made
    Score,                      \* [text -> [key -> how well it matches; 0: not]]
    MaxPerGroup

Texts == DOMAIN Score
None == ""

VARIABLES
    opened,    \* whether the palette is open
    requests,  \* the requests that exist
    used,      \* requests and environments that were used, the last one first
    active,    \* [request, environment]: the active ones, or None
    typed,     \* the text in the field
    command,   \* the text that filters, when the pause is over
    selected,  \* the key that was selected, or None
    ran        \* [key, by]: what was run last, by a key or a click

vars == <<opened, requests, used, active, typed, command, selected, ran>>

-----------------------------------------------------------------------------
\* Where a key is in a sequence; 0 when it is not.
IndexOf(s, key) == SelectInSeq(s, LAMBDA k : k = key)

\* Mutant: what was not used has no place, and so comes before what has one.
ByPlace(a, b, recents, made) ==
    LET i == IndexOf(recents, a)
        j == IndexOf(recents, b)
    IN  IF i # j THEN i < j ELSE IndexOf(made, a) < IndexOf(made, b)

\* The one used last comes first, and then the others as they were made.
Before(a, b, recents, made) ==
    LET i == IndexOf(recents, a)
        j == IndexOf(recents, b)
    IN  IF i > 0 /\ j > 0 THEN i < j
        ELSE IF i > 0 \/ j > 0 THEN i > 0
        ELSE IndexOf(made, a) < IndexOf(made, b)

Sorted(ids, recents, made) ==
    SortSeq(ids, LAMBDA a, b : Before(a, b, recents, made))

Existing == SelectSeq(Created, LAMBDA r : r \in requests)
Valid(ids) == SelectSeq(used, LAMBDA id : id \in ids)

Actions == SelectSeq(Commands, LAMBDA c :
                active.request \in requests \/ c \notin Range(RequestCommands))

Groups == <<Actions,
            Sorted(Existing, Valid(requests), Created),
            SelectSeq(Sorted(Environments, Valid(Range(Environments)), Environments),
                      LAMBDA e : e # active.environment)>>

\* The items that match a text, the best first; without a text, all.
Result(all) ==
    LET score == Score[command]
        place == [k \in Range(all) |-> IndexOf(all, k)]
    IN  IF command = "" THEN all
        ELSE SortSeq(SelectSeq(all, LAMBDA k : score[k] > 0),
                     LAMBDA a, b : \/ score[a] > score[b]
                                   \/ score[a] = score[b] /\ place[a] < place[b])

\* Of each group what matches, and no more than there is room for.
ShownGroups ==
    LET groups == Groups
        result == Result(FlattenSeq(groups))
        Items(g) == SelectSeq(result, LAMBDA k : k \in Range(groups[g]))
    IN  [g \in DOMAIN groups |->
            LET items == Items(g)
            IN  SubSeq(items, 1, IF Len(items) < MaxPerGroup THEN Len(items) ELSE MaxPerGroup)]

Shown == FlattenSeq(ShownGroups)

\* What is highlighted: what was selected, or the first when that is not shown.
HighlightedOf(shown) ==
    IF selected \in Range(shown) THEN selected
    ELSE IF shown = <<>> THEN None ELSE shown[1]

Highlighted == HighlightedOf(Shown)

-----------------------------------------------------------------------------
TypeOK ==
    /\ requests \subseteq Range(Created)
    /\ IsInjective(used)
    /\ typed \in Texts /\ command \in Texts
    /\ selected \in Range(Commands \o Created \o Environments) \cup {None}

Init ==
    /\ opened = FALSE /\ requests = {Created[1]} /\ used = <<>>
    /\ active = [request |-> None, environment |-> None]
    /\ typed = "" /\ command = "" /\ selected = None
    /\ ran = [key |-> None, by |-> None]

\* The hotkey, and Escape or the backdrop.
Toggle ==
    /\ opened' = ~opened
    /\ typed' = "" /\ command' = "" /\ selected' = None
    /\ ran' = [key |-> None, by |-> None]
    /\ UNCHANGED <<requests, used, active>>

Type(text) ==
    /\ opened /\ text # typed
    /\ typed' = text
    /\ UNCHANGED <<opened, requests, used, active, command, selected, ran>>

\* The pause is over: another command has nothing selected.
Debounced ==
    /\ opened /\ typed # command
    /\ command' = typed /\ selected' = None
    /\ UNCHANGED <<opened, requests, used, active, typed, ran>>

\* Mutant: the arrow keys go round all items, those without room too.
ArrowOverAll(step) ==
    /\ opened
    /\ LET all == Result(FlattenSeq(Groups))
           n == Len(all)
           i == IndexOf(all, Highlighted)
       IN  n > 0 /\ selected' = all[((i - 1 + step + n) % n) + 1]
    /\ UNCHANGED <<opened, requests, used, active, typed, command, ran>>

\* The arrow keys go round the items that are shown.
Arrow(step) ==
    /\ opened
    /\ LET shown == Shown
           n == Len(shown)
           i == IndexOf(shown, HighlightedOf(shown))
       IN  n > 0 /\ selected' = shown[((i - 1 + step + n) % n) + 1]
    /\ UNCHANGED <<opened, requests, used, active, typed, command, ran>>

\* The palette closes and the item is run: a request or an environment becomes active.
Run(key, by) ==
    /\ opened' = FALSE
    /\ ran' = [key |-> key, by |-> by]
    /\ typed' = "" /\ command' = "" /\ selected' = None
    /\ IF key \in Range(Commands) THEN UNCHANGED <<used, active>>
       ELSE /\ used' = <<key>> \o SelectSeq(used, LAMBDA k : k # key)
            /\ active' = IF key \in Range(Created) THEN [active EXCEPT !.request = key]
                         ELSE [active EXCEPT !.environment = key]
    /\ UNCHANGED requests

Enter == opened /\ Highlighted # None /\ Run(Highlighted, "key")

Click(key) == opened /\ key \in Range(Shown) /\ Run(key, "click")

\* Requests are made and deleted, by this window or another.
Changes(r) ==
    /\ requests' = IF r \in requests THEN requests \ {r} ELSE requests \cup {r}
    /\ UNCHANGED <<opened, used, active, typed, command, selected, ran>>

Next ==
    \/ Toggle \/ Debounced \/ Enter
    \/ \E text \in Texts : Type(text)
    \/ \E step \in {1, -1} : Arrow(step)
    \/ \E key \in Range(Commands \o Created \o Environments) : Click(key)
    \/ \E r \in Range(Created) : Changes(r)

Spec == Init /\ [][Next]_vars

-----------------------------------------------------------------------------
\* Without a text the requests used last come first, in the order of their use, and
\* the others after them: nothing that was used is hidden for something that was not.
RecentFirst ==
    LET shown == ShownGroups[2]
        recents == Valid(requests)
        others == SelectSeq(Existing, LAMBDA r : r \notin Range(recents))
    IN  opened /\ command = "" =>
            \A i \in DOMAIN shown :
                shown[i] = IF i <= Len(recents) THEN recents[i]
                           ELSE others[i - Len(recents)]

\* An item that does not match is not shown, and none that matches better than one of
\* its group is left out for it.
ShowsTheBest ==
    LET groups == Groups
        shown == ShownGroups
        score == Score[command]
    IN  opened /\ command # "" =>
            \A g \in DOMAIN groups : \A other \in Range(shown[g]) :
                /\ score[other] > 0
                /\ \A k \in Range(groups[g]) \ Range(shown[g]) : score[k] <= score[other]

\* The key runs the item that is highlighted, and an arrow key moves the highlight to
\* the item above or below it, whatever groups they are of.
RunsHighlighted ==
    LET shown == Shown
        lit == HighlightedOf(shown)
        Beside(i, j) == j - i \in {1, -1, Len(shown) - 1, 1 - Len(shown)}
    IN  /\ ran'.by = "key" /\ ran' # ran => ran'.key = lit
        /\ opened' /\ command' = command /\ selected' # selected =>
               selected' = lit \/ Beside(IndexOf(shown, lit), IndexOf(shown, selected'))
=============================================================================
