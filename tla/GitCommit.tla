------------------------------ MODULE GitCommit ------------------------------
(***************************************************************************)
(* The commit dialog of a synced workspace (components/GitCommitDialog and *)
(* the hooks of yaak-git/index.ts): the tree that it builds of the status  *)
(* of the repository's files, whose boxes stage and unstage whole subtrees *)
(* while directory sync goes on writing files.                             *)
(***************************************************************************)
EXTENDS Integers, Sequences, SequencesExt

CONSTANTS
    Order,          \* the paths, in the order of the status
    Root,           \* the workspace's
    Contents,       \* of each path: its parent's path, or External; not NoFile
    MaxEdits, MaxUnderWay       \* bounds

NoFile == ""
External == "text"              \* not a model
Paths == ToSet(Order)

VARIABLES
    files,          \* [head, index, work] of each path
    open,           \* the dialog is
    shown,          \* status.data: at most one snapshot of files
    fetching,       \* the status is asked for
    changes,        \* mutations under way: [add, paths]
    edits,
    apart,          \* a mutation failed, or a push after its commit
    asked           \* the last box clicked, if all was quiet: [paths, checked]

vars == <<files, open, shown, fetching, changes, edits, apart, asked>>

-----------------------------------------------------------------------------
(* The status of the repository, git_status. *)

Between(old, new) ==
    IF old = new THEN "current" ELSE IF old = NoFile THEN "untracked"
    ELSE IF new = NoFile THEN "removed" ELSE "modified"

StatusOf(f) ==
    IF f.index # f.head THEN Between(f.head, f.index) ELSE Between(f.index, f.work)

Staged(f) == f.index # f.head

Listed(f) == {f.head, f.index, f.work} # {NoFile}

\* entry.next ?? entry.prev, which an external file has not
Model(f) == IF f.work # NoFile THEN f.work ELSE f.head
Internal(f) == Listed(f) /\ Model(f) \notin {NoFile, External}

-----------------------------------------------------------------------------
(* What the dialog makes of it. *)

Nodes(s) == SelectSeq(Order, LAMBDA p : Internal(s[p]))
Others(s) == {p \in Paths : Listed(s[p]) /\ ~Internal(s[p])}

Children(s, p) == SelectSeq(Nodes(s), LAMBDA q : Model(s[q]) = p)

\* tree: a node and those below it, the children first
RECURSIVE Subtree(_, _)
Subtree(s, p) ==
    IF ~Internal(s[p]) THEN <<>>
    ELSE FlattenSeq([k \in DOMAIN Children(s, p) |-> Subtree(s, Children(s, p)[k])]) \o <<p>>

\* isNodeRelevant
Relevant(s, p) == \E q \in ToSet(Subtree(s, p)) : StatusOf(s[q]) # "current"

\* TreeNodeChildren, ExternalTreeNode
Boxes(s) ==
    {p \in ToSet(Subtree(s, Root)) : Relevant(s, p)}
        \cup {p \in Others(s) : Internal(s[Root]) /\ StatusOf(s[p]) # "current"}

\* nodeCheckedStatus
CheckedStatus(s, p) ==
    LET visited == ToSet(Subtree(s, p))
        current == {q \in visited : StatusOf(s[q]) = "current"}
        checked == {q \in visited \ current : Staged(s[q])}
    IN  IF visited = checked \cup current THEN "yes"
        ELSE IF checked = {} THEN "no" ELSE "indeterminate"

\* Mutant: only the node itself, as for an external file.
NodeAlone(s, p, checked) ==
    SelectSeq(<<p>>, LAMBDA q : StatusOf(s[q]) # "current" /\ Staged(s[q]) # checked)

\* setCheckedAndChildren: what has to be added, or unstaged
ToChange(s, p, checked) ==
    SelectSeq(Subtree(s, p), LAMBDA q : StatusOf(s[q]) # "current" /\ Staged(s[q]) # checked)

-----------------------------------------------------------------------------

Init ==
    /\ \E h \in [Paths -> {NoFile} \cup UNION {Contents[p] : p \in Paths}] :
         /\ \A p \in Paths : h[p] \in Contents[p] \cup {NoFile}
         /\ h[Root] # NoFile
         /\ files = [p \in Paths |-> [head |-> h[p], index |-> h[p], work |-> h[p]]]
    /\ open = TRUE /\ shown = <<>> /\ fetching = TRUE
    /\ changes = <<>> /\ edits = 0 /\ apart = FALSE /\ asked = <<>>

Quiet == changes = <<>> /\ ~fetching

\* Mutant: the status is not asked for again.
Nothing == UNCHANGED fetching

\* onSuccess of every mutation: invalidateQueries
Invalidate == fetching' = TRUE

StatusArrives ==
    /\ fetching /\ fetching' = FALSE /\ shown' = <<files>>
    /\ apart' = (apart /\ changes # <<>>)
    /\ UNCHANGED <<files, open, changes, edits, asked>>

\* Directory sync, or a person, writes or removes a file.
Edit(p, content) ==
    /\ edits < MaxEdits /\ edits' = edits + 1
    /\ content # files[p].work /\ p # Root
    /\ files' = [files EXCEPT ![p].work = content]
    /\ asked' = <<>>
    /\ UNCHANGED <<open, shown, fetching, changes, apart>>

Mutate(add, paths) ==
    /\ Len(changes) < MaxUnderWay
    /\ changes' = IF paths = <<>> THEN changes ELSE Append(changes, [add |-> add, paths |-> paths])

\* checkNode
CheckNode(p) ==
    LET s == shown[1]
        checked == CheckedStatus(s, p) # "yes"
    IN  /\ open /\ shown # <<>> /\ p \in Boxes(s) /\ Internal(s[p])
        /\ Mutate(checked, ToChange(s, p, checked))
        /\ asked' = IF Quiet /\ s = files THEN <<[paths |-> ToSet(Subtree(s, p)), checked |-> checked]>> ELSE <<>>
        /\ UNCHANGED <<files, open, shown, fetching, edits, apart>>

\* checkEntry
CheckEntry(p) ==
    /\ open /\ shown # <<>> /\ p \in Boxes(shown[1]) /\ ~Internal(shown[1][p])
    /\ Mutate(~Staged(shown[1][p]), <<p>>)
    /\ asked' = IF Quiet /\ shown[1] = files THEN <<[paths |-> {p}, checked |-> ~Staged(files[p])]>> ELSE <<>>
    /\ UNCHANGED <<files, open, shown, fetching, edits, apart>>

\* git_add stages what is there, a removal too; git_unstage takes head's back
Index(add, f) == IF add THEN f.work ELSE f.head

\* One path of a mutation, in its turn; after the last the queries are invalidated.
ChangeOne(k) ==
    LET c == changes[k]
        p == Head(c.paths)
    IN  /\ files' = [files EXCEPT ![p].index = Index(c.add, files[p])]
        /\ IF Len(c.paths) = 1
           THEN changes' = RemoveAt(changes, k) /\ Invalidate
           ELSE changes' = [changes EXCEPT ![k].paths = Tail(c.paths)] /\ UNCHANGED fetching
        /\ UNCHANGED <<open, shown, edits, apart, asked>>

\* Another process has locked the index: the paths before stay changed, and nothing is
\* asked for again.
ChangeFails(k) ==
    /\ changes' = RemoveAt(changes, k)
    /\ apart' = TRUE /\ asked' = <<>>
    /\ UNCHANGED <<files, open, shown, fetching, edits>>

HasAddedAnything == \E p \in Paths : Listed(shown[1][p]) /\ Staged(shown[1][p])

\* git_commit
Committed == files' = [p \in Paths |-> [files[p] EXCEPT !.head = files[p].index]]

CanCommit == open /\ shown # <<>> /\ Internal(shown[1][Root]) /\ HasAddedAnything

\* handleCreateCommit
Commit ==
    /\ CanCommit /\ Committed /\ Invalidate
    /\ open' = FALSE /\ asked' = <<>>
    /\ UNCHANGED <<shown, changes, edits, apart>>

\* handleCreateCommitAndPush: a push that fails leaves the commit, and the status as it was
CommitAndPush(pushed) ==
    /\ CanCommit /\ Committed /\ asked' = <<>>
    /\ IF pushed THEN Invalidate /\ open' = FALSE /\ UNCHANGED apart
       ELSE apart' = TRUE /\ UNCHANGED <<open, fetching>>
    /\ UNCHANGED <<shown, changes, edits>>

Close == open /\ open' = FALSE /\ asked' = <<>>
    /\ UNCHANGED <<files, shown, fetching, changes, edits, apart>>

\* The dialog is opened: refetchOnMount.
Open == ~open /\ open' = TRUE /\ Invalidate
    /\ UNCHANGED <<files, shown, changes, edits, apart, asked>>

Next ==
    \/ StatusArrives \/ Commit \/ Close \/ Open
    \/ \E p \in Paths : CheckNode(p) \/ CheckEntry(p)
    \/ \E p \in Paths : \E content \in Contents[p] \cup {NoFile} : Edit(p, content)
    \/ \E k \in DOMAIN changes : ChangeOne(k) \/ ChangeFails(k)
    \/ \E pushed \in BOOLEAN : CommitAndPush(pushed)

Spec == Init /\ [][Next]_vars

-----------------------------------------------------------------------------
(* Properties. *)

TypeOK ==
    /\ \A p \in Paths : \A c \in {files[p].head, files[p].index, files[p].work} :
         c \in Contents[p] \cup {NoFile}
    /\ Len(shown) <= 1
    /\ Len(changes) <= MaxUnderWay /\ edits <= MaxEdits

\* When nothing is under way and nothing has failed, a box is marked as its file is staged.
BoxesShowIndex ==
    Quiet /\ ~apart /\ shown # <<>> => \A p \in Paths : Staged(shown[1][p]) = Staged(files[p])

Orphan(s, p) == Internal(s[p]) /\ p # Root /\ ~Internal(s[Model(s[p])])

\* Every change has a box, but for a model whose folder has no file left.
ChangesHaveBoxes ==
    shown # <<>> => LET s == shown[1] IN
        \A p \in Paths :
            \/ ~Listed(s[p]) \/ StatusOf(s[p]) = "current" \/ p \in Boxes(s)
            \/ Orphan(s, p)

\* A click on a box, once it is done, has staged or unstaged all that is below it.
WholeSubtree ==
    asked # <<>> /\ changes = <<>> =>
        \A p \in asked[1].paths : StatusOf(files[p]) # "current" => Staged(files[p]) = asked[1].checked

\* What is committed is what has a marked box, or is a model without a folder.
CommitsWhatIsMarked ==
    (\E p \in Paths : files'[p].head # files[p].head) /\ Quiet /\ ~apart =>
        LET s == shown[1] IN
        \A p \in Paths : files'[p].head # files[p].head <=>
            Staged(s[p]) /\ (p \in Boxes(s) \/ Orphan(s, p))

=============================================================================
