----------------------------- MODULE GitBranches -----------------------------
(***************************************************************************)
(* The git menu of a synced workspace (components/GitDropdown, with        *)
(* yaak-git's branches, merges, pulls and pushes): what a switch of branch *)
(* does to the working files, and to the models of the window, which a     *)
(* sync brings after them.  One other person pushes to the same remote.    *)
(***************************************************************************)
EXTENDS Integers, Sequences, FiniteSets

CONSTANTS
    Branches, Main,     \* Main is the one that git_init makes
    Files,
    Edits, OtherEdits,  \* [file, content] written here, and by the other person;
                        \* contents are numbers, 0 is no file and 1 the first
    MaxCommits          \* a bound, but for merges

NoCommit == 0
None == [what |-> "nothing", branch |-> Main]

VARIABLES
    repo,           \* there is a repository
    hidden,         \* "Hide This Message"
    commits,        \* all there are, here and there: [tree, past]
    known,          \* the commits whose objects are here
    local, tracked, remote,     \* the commit of each branch: own, origin's as known
                                \* here, and origin's
    upstream,       \* the local branches that have one
    head,           \* the current branch
    work, models,   \* contents of the working files, and of the window's models
    asking,         \* the dialog that is open: [what, branch, force], or none
    syncing,        \* a forced sync is on its way
    stale           \* a pull that changed files has announced nothing

vars == <<repo, hidden, commits, known, local, tracked, remote, upstream, head,
          work, models, asking, syncing, stale>>
store == <<commits, known, local, tracked, remote, upstream, head>>

-----------------------------------------------------------------------------
(* The repository. *)

Tree(c) == IF c = NoCommit THEN [f \in Files |-> 0] ELSE commits[c].tree
Past(c) == IF c = NoCommit THEN {} ELSE commits[c].past
Current == local[head]
Dirty(f) == work[f] # Tree(Current)[f]

NewCommit(tree, past) == Append(commits, [tree |-> tree, past |-> past \cup {Len(commits) + 1}])
Newest == Len(commits) + 1

\* a checkout that is not forced fails for a dirty file that it would change
Conflicts(tree) == \E f \in Files : Dirty(f) /\ work[f] # tree[f] /\ Tree(Current)[f] # tree[f]

\* Mutant: the option is not looked at.
Always(tree, force) == tree

\* checkout_tree
CheckedOut(tree, force) ==
    IF force THEN tree
    ELSE [f \in Files |-> IF tree[f] = Tree(Current)[f] THEN work[f] ELSE tree[f]]

\* the file of a merge of three trees: taken from the side that changed it
MergeConflicts(base, ours, theirs) ==
    \E f \in Files : base[f] # ours[f] /\ base[f] # theirs[f] /\ ours[f] # theirs[f]
Merged(base, ours, theirs) ==
    [f \in Files |-> IF base[f] = ours[f] THEN theirs[f] ELSE ours[f]]

Bases(a, b) == LET both == Past(a) \cap Past(b)
               IN  {c \in both : \A d \in both : c \in Past(d) => c = d}

-----------------------------------------------------------------------------

Init ==
    /\ repo \in BOOLEAN /\ hidden = FALSE
    /\ work = [f \in Files |-> 1] /\ models = work
    /\ commits = IF repo THEN <<[tree |-> work, past |-> {1}]>> ELSE <<>>
    /\ known = 1 .. Len(commits)
    /\ head = Main
    /\ local = [b \in Branches |-> IF b = Main THEN Len(commits) ELSE NoCommit]
    /\ remote = local /\ tracked = local
    /\ upstream = {b \in Branches : local[b] # NoCommit}
    /\ asking = None /\ syncing = FALSE /\ stale = FALSE

\* SetupGitDropdown
InitRepo ==
    /\ ~repo /\ ~hidden /\ repo' = TRUE
    /\ UNCHANGED <<hidden, store, work, models, asking, syncing, stale>>

HideSetup ==
    /\ ~repo /\ hidden' = TRUE
    /\ UNCHANGED <<repo, store, work, models, asking, syncing, stale>>

\* A model is edited and its file written, by either side of directory sync.
Edit(e) ==
    /\ ~syncing /\ ~stale /\ e.content # work[e.file]
    /\ work' = [work EXCEPT ![e.file] = e.content] /\ models' = work'
    /\ UNCHANGED <<repo, hidden, store, asking, syncing, stale>>

\* The commit dialog, all of it marked.
Commit ==
    /\ repo /\ asking = None /\ Newest <= MaxCommits /\ \E f \in Files : Dirty(f)
    /\ commits' = NewCommit(work, Past(Current))
    /\ local' = [local EXCEPT ![head] = Newest] /\ known' = known \cup {Newest}
    /\ UNCHANGED <<repo, hidden, tracked, remote, upstream, head, work, models, asking, syncing, stale>>

Ask(what, b) == asking' = [what |-> what, branch |-> b]
Idle == repo /\ asking = None /\ local[head] # NoCommit

\* sync({ force: true }) after what has changed the files
Sync ==
    /\ syncing /\ syncing' = FALSE /\ models' = work /\ stale' = FALSE
    /\ UNCHANGED <<repo, hidden, store, work, asking>>

\* the watcher of the directory, a second after the files
WatcherSyncs ==
    /\ models # work /\ models' = work /\ stale' = FALSE
    /\ UNCHANGED <<repo, hidden, store, work, asking, syncing>>

\* Mutant: no sync follows.
SwitchQuietly(b, force) ==
    /\ work' = CheckedOut(Tree(local'[b]), force) /\ head' = b
    /\ UNCHANGED syncing /\ asking' = None

\* onSuccess of a checkout
SwitchTo(b, force) ==
    /\ work' = CheckedOut(Tree(local'[b]), force) /\ head' = b
    /\ syncing' = TRUE /\ asking' = None

\* git_checkout_branch
Checkout(b, force) ==
    /\ local[b] # NoCommit /\ UNCHANGED <<local, upstream>>
    /\ IF ~force /\ Conflicts(Tree(local[b]))
       THEN Ask("force", b) /\ UNCHANGED <<head, work, syncing>>
       ELSE SwitchTo(b, force)

\* git_checkout_remote_branch: the local branch is there even when the checkout fails
CheckoutRemote(b, force) ==
    /\ tracked[b] # NoCommit
    /\ IF local[b] # NoCommit
       THEN asking' = None /\ UNCHANGED <<local, upstream, head, work, syncing>>
       ELSE /\ local' = [local EXCEPT ![b] = tracked[b]] /\ upstream' = upstream \cup {b}
            /\ IF ~force /\ Conflicts(Tree(tracked[b]))
               THEN Ask("force origin", b) /\ UNCHANGED <<head, work, syncing>>
               ELSE SwitchTo(b, force)

\* an item of the branches' list
Choose(b) ==
    /\ Idle /\ b # head
    /\ IF local[b] # NoCommit THEN Checkout(b, FALSE) ELSE CheckoutRemote(b, FALSE)
    /\ UNCHANGED <<repo, hidden, commits, known, tracked, remote, models, stale>>

\* The checkout was refused: "force checkout to discard changes".
ConfirmForce ==
    /\ asking # None /\ asking.what \in {"force", "force origin"}
    /\ IF asking.what = "force" THEN Checkout(asking.branch, TRUE)
       ELSE CheckoutRemote(asking.branch, TRUE)
    /\ UNCHANGED <<repo, hidden, commits, known, tracked, remote, models, stale>>

Cancel ==
    /\ asking # None /\ asking' = None
    /\ UNCHANGED <<repo, hidden, store, work, models, syncing, stale>>

\* git_create_branch, and tryCheckout of it
NewBranch(b) ==
    /\ Idle /\ local[b] = NoCommit
    /\ local' = [local EXCEPT ![b] = Current] /\ SwitchTo(b, FALSE)
    /\ UNCHANGED <<repo, hidden, commits, known, tracked, remote, upstream, models, stale>>

AskDelete ==
    /\ Idle /\ Cardinality({b \in Branches : local[b] # NoCommit}) > 1
    /\ Ask("delete", head)
    /\ UNCHANGED <<repo, hidden, store, work, models, syncing, stale>>

\* git_delete_branch: the current branch is left for another one first, by force
Delete ==
    /\ asking # None /\ asking.what = "delete"
    /\ \E b \in Branches \ {asking.branch} :
         /\ local[b] # NoCommit
         /\ work' = Tree(local[b]) /\ head' = b
    /\ local' = [local EXCEPT ![asking.branch] = NoCommit]
    /\ upstream' = upstream \ {asking.branch}
    /\ syncing' = TRUE /\ asking' = None
    /\ UNCHANGED <<repo, hidden, commits, known, tracked, remote, models, stale>>

\* do_merge; a normal merge's checkout_head may leave the files alone
DoMerge(c) ==
    IF c \in Past(Current) THEN UNCHANGED <<commits, local, work>>
    ELSE IF Current \in Past(c)
    THEN /\ local' = [local EXCEPT ![head] = c] /\ work' = Tree(c)
         /\ UNCHANGED commits
    ELSE \E base \in Bases(Current, c) :
         LET tree == Merged(Tree(base), Tree(Current), Tree(c)) IN
         /\ ~MergeConflicts(Tree(base), Tree(Current), Tree(c))
         /\ Newest <= MaxCommits + 1
         /\ commits' = NewCommit(tree, Past(Current) \cup Past(c))
         /\ local' = [local EXCEPT ![head] = Newest]
         /\ work' \in {work, [f \in Files |-> IF Dirty(f) THEN work[f] ELSE tree[f]]}

Made == (1 .. Len(commits')) \ (1 .. Len(commits))

Merge(b) ==
    /\ Idle /\ b # head /\ local[b] # NoCommit
    /\ DoMerge(local[b]) /\ known' = known \cup Made
    /\ syncing' = TRUE
    /\ UNCHANGED <<repo, hidden, tracked, remote, upstream, head, models, asking, stale>>

\* onOpen of the menu: git_fetch_all, which also forgets origin's deleted branches
FetchAll ==
    /\ repo /\ asking = None
    /\ tracked' = remote /\ known' = known \cup UNION {Past(remote[b]) : b \in Branches}
    /\ UNCHANGED <<repo, hidden, commits, local, remote, upstream, head, work, models, asking, syncing, stale>>

\* git_pull; with no object received nothing is synced
Pull ==
    /\ Idle /\ head \in upstream /\ remote[head] # NoCommit
    /\ tracked' = [tracked EXCEPT ![head] = remote[head]]
    /\ DoMerge(remote[head])
    /\ known' = known \cup Past(remote[head]) \cup Made
    /\ IF Past(remote[head]) \subseteq known
       THEN stale' = (stale \/ work' # work) /\ UNCHANGED syncing
       ELSE syncing' = TRUE /\ UNCHANGED stale
    /\ UNCHANGED <<repo, hidden, remote, upstream, head, models, asking>>

\* git_push
Push ==
    /\ Idle /\ remote[head] \in Past(Current) \cup {NoCommit}
    /\ remote' = [remote EXCEPT ![head] = Current] /\ tracked' = [tracked EXCEPT ![head] = Current]
    /\ upstream' = upstream \cup {head}
    /\ UNCHANGED <<repo, hidden, commits, known, local, head, work, models, asking, syncing, stale>>

\* The other person pushes a commit, or deletes a branch there.
OtherPushes(b, e) ==
    /\ remote[Main] # NoCommit /\ Newest <= MaxCommits
    /\ LET from == IF remote[b] = NoCommit THEN remote[Main] ELSE remote[b] IN
       /\ e.content # Tree(from)[e.file]
       /\ commits' = NewCommit([Tree(from) EXCEPT ![e.file] = e.content], Past(from))
    /\ remote' = [remote EXCEPT ![b] = Newest]
    /\ UNCHANGED <<repo, hidden, known, local, tracked, upstream, head, work, models, asking, syncing, stale>>

OtherDeletes(b) ==
    /\ b # Main /\ remote[b] # NoCommit /\ remote' = [remote EXCEPT ![b] = NoCommit]
    /\ UNCHANGED <<repo, hidden, commits, known, local, tracked, upstream, head, work, models, asking, syncing, stale>>

Next ==
    \/ InitRepo \/ HideSetup \/ Commit \/ Sync \/ WatcherSyncs
    \/ ConfirmForce \/ Cancel \/ AskDelete \/ Delete \/ FetchAll \/ Pull \/ Push
    \/ \E b \in Branches : Choose(b) \/ NewBranch(b) \/ Merge(b) \/ OtherDeletes(b)
    \/ \E e \in Edits : Edit(e)
    \/ \E b \in Branches, e \in OtherEdits : OtherPushes(b, e)

Spec == Init /\ [][Next]_vars

-----------------------------------------------------------------------------
(* Properties. *)

TypeOK ==
    /\ \A b \in Branches : {local[b], tracked[b], remote[b]} \subseteq 0 .. Len(commits)
    /\ known \subseteq 1 .. Len(commits) /\ head \in Branches

\* What a branch of this repository needs is here, and the current branch exists.
RepositoryIsWhole ==
    /\ \A b \in Branches : Past(local[b]) \cup Past(tracked[b]) \subseteq known
    /\ (\E b \in Branches : local[b] # NoCommit) => Current # NoCommit

\* Once a switch, a merge or a pull has been followed by its sync, the window shows the
\* branch's files.
WindowShowsBranch == ~syncing /\ ~stale => models = work

\* The switch of a branch, a merge or a pull discards what is not committed only when
\* the person was asked, or by a fast-forward.
UncommittedKept ==
    store' # store =>
        \A f \in Files : Dirty(f) /\ work'[f] # work[f] =>
            \/ asking # None
            \/ head' = head /\ local'[head] # Current /\ UNCHANGED commits

\* No branch loses a commit but by its deletion: merges, pulls and pushes go forward.
BranchesGoForward ==
    \A b \in Branches :
        /\ local'[b] # NoCommit => Past(local[b]) \subseteq commits'[local'[b]].past
        /\ remote'[b] # NoCommit => Past(remote[b]) \subseteq commits'[remote'[b]].past

=============================================================================
