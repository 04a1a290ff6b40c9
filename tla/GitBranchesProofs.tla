------------------------- MODULE GitBranchesProofs -------------------------
(* Proofs about GitBranches, for any branches, files and edits, and however *)
(* many commits the two persons make.                                       *)
EXTENDS GitBranches, TLAPS

\* What the proofs take for granted of the constants: the main branch is one, and
\* edits are of the files there are.
Sensible ==
    /\ Main \in Branches /\ MaxCommits \in Nat
    /\ Edits \subseteq [file : Files, content : Nat]
    /\ OtherEdits \subseteq [file : Files, content : Nat]

Contents == [Files -> Nat]
CommitRecord == [tree : Contents, past : SUBSET Nat]
Question == [what : {"nothing", "force", "force origin", "delete"}, branch : Branches]

Typed ==
    /\ commits \in Seq(CommitRecord)
    /\ local \in [Branches -> 0 .. Len(commits)]
    /\ tracked \in [Branches -> 0 .. Len(commits)]
    /\ remote \in [Branches -> 0 .. Len(commits)]
    /\ known \in SUBSET (1 .. Len(commits))
    /\ upstream \in SUBSET Branches /\ head \in Branches
    /\ work \in Contents /\ models \in Contents
    /\ asking \in Question

\* The past of a commit has the commit, and the past of each commit in it.
History ==
    \A c \in 1 .. Len(commits) :
        /\ c \in commits[c].past /\ commits[c].past \subseteq 1 .. Len(commits)
        /\ \A d \in commits[c].past : commits[d].past \subseteq commits[c].past

IInv == Typed /\ History /\ RepositoryIsWhole

-----------------------------------------------------------------------------
(* Histories. *)

\* The commits are the same, and perhaps one more.
Grows ==
    /\ Len(commits) =< Len(commits')
    /\ \A c \in 1 .. Len(commits) : commits'[c] = commits[c]

\* No commits are what a past can be made of.
Closed(past) == past \subseteq 1 .. Len(commits) /\ \A d \in past : commits[d].past \subseteq past

LEMMA Lengths == ASSUME Typed PROVE Len(commits) \in Nat
  BY DEF Typed

LEMMA Pasts ==
    ASSUME Typed, History, NEW c \in 0 .. Len(commits)
    PROVE  /\ Closed(Past(c)) /\ Past(c) \in SUBSET Nat
           /\ c # NoCommit => c \in Past(c) /\ Past(c) = commits[c].past
<1>1. Len(commits) \in Nat
  BY Lengths
<1>2. CASE c = NoCommit
  BY <1>2 DEF Past, Closed
<1>3. CASE c # NoCommit
  <2>1. c \in 1 .. Len(commits)
    BY <1>1, <1>3 DEF NoCommit
  <2>2. Past(c) = commits[c].past /\ c \in Past(c) /\ Past(c) \subseteq 1 .. Len(commits)
    BY <1>3, <2>1 DEF Past, History
  <2>3. \A d \in Past(c) : commits[d].past \subseteq Past(c)
    BY <2>1, <2>2 DEF History
  <2>4. Past(c) \in SUBSET Nat
    BY <1>1, <2>2
  <2> QED
    BY <2>2, <2>3, <2>4 DEF Closed
<1> QED
  BY <1>2, <1>3

LEMMA Trees ==
    ASSUME Typed, NEW c \in 0 .. Len(commits)
    PROVE  Tree(c) \in Contents
<1>1. CASE c = NoCommit
  BY <1>1 DEF Tree, Contents
<1>2. CASE c # NoCommit
  <2>1. c \in 1 .. Len(commits)
    BY <1>2, Lengths DEF NoCommit
  <2>2. commits[c] \in CommitRecord
    BY <2>1 DEF Typed
  <2> QED
    BY <1>2, <2>2 DEF Tree, CommitRecord
<1> QED
  BY <1>1, <1>2

\* What a commit was, it stays.
LEMMA PastStays ==
    ASSUME Typed, Grows, NEW c \in 0 .. Len(commits)
    PROVE  Past(c)' = Past(c) /\ c \in 0 .. Len(commits')
<1>1. Len(commits) \in Nat /\ c \in 0 .. Len(commits')
  BY Lengths DEF Grows
<1>2. CASE c = NoCommit
  BY <1>1, <1>2 DEF Past
<1>3. CASE c # NoCommit
  <2>1. c \in 1 .. Len(commits)
    BY <1>1, <1>3 DEF NoCommit
  <2>2. commits'[c] = commits[c]
    BY <2>1 DEF Grows
  <2> QED
    BY <1>1, <1>3, <2>2 DEF Past
<1> QED
  BY <1>2, <1>3

\* A commit upon a past that is closed.
LEMMA CommitAdded ==
    ASSUME Typed, History, NEW tree \in Contents, NEW past, Closed(past),
           commits' = NewCommit(tree, past)
    PROVE  /\ commits' \in Seq(CommitRecord) /\ Grows /\ History'
           /\ Len(commits') = Newest /\ Newest \in Nat \ {NoCommit}
           /\ commits'[Newest].past = past \cup {Newest}
           /\ Made = {Newest}
<1> DEFINE new == [tree |-> tree, past |-> past \cup {Newest}]
<1>1. Len(commits) \in Nat /\ Newest \in Nat /\ Newest = Len(commits) + 1
  BY Lengths DEF Newest
<1>0. past \subseteq 1 .. Len(commits) /\ \A d \in past : d \in Nat
  BY <1>1 DEF Closed
<1>2. past \cup {Newest} \in SUBSET Nat
  BY <1>0, <1>1
<1>3. new \in CommitRecord /\ new.past = past \cup {Newest}
  BY <1>2 DEF CommitRecord
<1>4. commits' = Append(commits, new)
  BY DEF NewCommit, Newest
<1> HIDE DEF new
<1>5. /\ commits' \in Seq(CommitRecord) /\ Len(commits') = Len(commits) + 1
      /\ \A c \in 1 .. Len(commits) : commits'[c] = commits[c]
      /\ commits'[Newest] = new
  BY <1>1, <1>3, <1>4 DEF Typed
<1>6. Grows
  BY <1>1, <1>5 DEF Grows
<1>7. History'
  <2>1. ASSUME NEW c \in 1 .. Len(commits')
        PROVE  /\ c \in commits'[c].past /\ commits'[c].past \subseteq 1 .. Len(commits')
               /\ \A d \in commits'[c].past : commits'[d].past \subseteq commits'[c].past
    <3>1. CASE c \in 1 .. Len(commits)
      <4>1. commits'[c] = commits[c] /\ commits[c].past \subseteq 1 .. Len(commits)
        BY <1>5, <3>1 DEF History
      <4>2. \A d \in commits[c].past : commits'[d] = commits[d]
        BY <1>5, <4>1
      <4>3. commits[c].past \subseteq 1 .. Len(commits')
        BY <1>1, <1>5, <4>1
      <4> QED
        BY <3>1, <4>1, <4>2, <4>3 DEF History
    <3>2. CASE c = Newest
      <4>1. commits'[c].past = past \cup {Newest}
        BY <1>3, <1>5, <3>2
      <4>2. past \cup {Newest} \subseteq 1 .. Len(commits')
        <5>1. 1 .. Len(commits) \subseteq 1 .. Len(commits') /\ Newest \in 1 .. Len(commits')
          BY <1>1, <1>5
        <5> QED
          BY <1>0, <5>1
      <4>3. \A d \in past : commits'[d] = commits[d] /\ commits[d].past \subseteq past
        BY <1>5 DEF Closed
      <4> QED
        BY <3>2, <4>1, <4>2, <4>3
    <3> QED
      BY <1>1, <1>5, <3>1, <3>2
  <2> QED
    BY <2>1 DEF History
<1>8. Made = {Newest}
  BY <1>1, <1>5 DEF Made
<1> QED
  BY <1>1, <1>3, <1>5, <1>6, <1>7, <1>8 DEF NoCommit

LEMMA CommitsSame ==
    ASSUME Typed, History, commits' = commits
    PROVE  commits' \in Seq(CommitRecord) /\ Grows /\ History' /\ Made = {}
<1>1. commits' \in Seq(CommitRecord) /\ Grows /\ Made = {}
  BY Lengths DEF Typed, Grows, Made
<1> QED
  BY <1>1 DEF History

-----------------------------------------------------------------------------
(* Steps that make no commit. *)

\* Branches stay, end, begin at a commit that is here, or, origin's, go forward.
LEMMA NoneMade ==
    ASSUME IInv, UNCHANGED commits, Typed', known \subseteq known',
           \A b \in Branches :
              \/ local'[b] \in {local[b], NoCommit}
              \/ local[b] = NoCommit /\ Past(local'[b]) \subseteq known',
           \A b \in Branches : Past(tracked'[b]) \subseteq known',
           \A b \in Branches : remote'[b] = NoCommit \/ Past(remote[b]) \subseteq Past(remote'[b]),
           (\E b \in Branches : local'[b] # NoCommit) => local'[head'] # NoCommit
    PROVE  IInv' /\ BranchesGoForward
<1>1. History'
  BY DEF IInv, History
<1>2. \A b \in Branches : Past(local'[b]) \subseteq known'
  BY DEF IInv, RepositoryIsWhole, Past
<1>3. RepositoryIsWhole'
  BY <1>2 DEF RepositoryIsWhole, Past, Current
<1>4. BranchesGoForward
  BY DEF BranchesGoForward, Past
<1> QED
  BY <1>1, <1>3, <1>4 DEF IInv

LEMMA StoreSame ==
    ASSUME IInv, UNCHANGED store, work' \in Contents, models' \in Contents, asking' \in Question
    PROVE  IInv' /\ BranchesGoForward
<1>1. Typed'
  BY DEF IInv, Typed, store
<1>2. \A b \in Branches : Past(tracked[b]) \subseteq known
  BY DEF IInv, RepositoryIsWhole
<1>3. (\E b \in Branches : local[b] # NoCommit) => local[head] # NoCommit
  BY DEF IInv, RepositoryIsWhole, Current
<1> QED
  BY <1>1, <1>2, <1>3, NoneMade DEF store

LEMMA EditKeeps ==
    ASSUME Sensible, IInv, NEW e \in Edits, Edit(e)
    PROVE  IInv' /\ BranchesGoForward
<1>1. e.file \in Files /\ e.content \in Nat
  BY DEF Sensible
<1>2. work' \in Contents /\ models' \in Contents
  BY <1>1 DEF Edit, IInv, Typed, Contents
<1> QED
  BY <1>2, StoreSame DEF Edit, IInv, Typed

LEMMA AsksKeep ==
    ASSUME Sensible, IInv,
           InitRepo \/ HideSetup \/ Sync \/ WatcherSyncs \/ Cancel \/ AskDelete
    PROVE  IInv' /\ BranchesGoForward
<1>1. None \in Question
  BY DEF Sensible, None, Question
<1>2. [what |-> "delete", branch |-> head] \in Question
  BY DEF IInv, Typed, Question
<1>3. UNCHANGED store /\ work' \in Contents /\ models' \in Contents
  BY DEF InitRepo, HideSetup, Sync, WatcherSyncs, Cancel, AskDelete, IInv, Typed
<1>4. asking' \in Question
  BY <1>1, <1>2 DEF InitRepo, HideSetup, Sync, WatcherSyncs, Cancel, AskDelete, Ask, IInv, Typed
<1> QED
  BY <1>3, <1>4, StoreSame

\* The files of a commit, or some of them.
LEMMA CheckedOutTyped ==
    ASSUME Typed, NEW tree \in Contents, NEW force \in BOOLEAN
    PROVE  CheckedOut(tree, force) \in Contents
  BY DEF CheckedOut, Typed, Contents

\* What a step to a commit leaves: the dialog closed, the commit's files.
LEMMA SwitchTyped ==
    ASSUME Sensible, Typed, NEW b \in Branches, NEW force \in BOOLEAN, NEW c,
           c = local'[b], c \in 0 .. Len(commits), SwitchTo(b, force)
    PROVE  work' \in Contents /\ head' = b /\ asking' \in Question
<1>1. work' = CheckedOut(Tree(c), force) /\ head' = b /\ asking' = None
  BY DEF SwitchTo
<1>2. None \in Question
  BY DEF Sensible, None, Question
<1> QED
  BY <1>1, <1>2, Trees, CheckedOutTyped

LEMMA CheckoutKeeps ==
    ASSUME Sensible, IInv, NEW b \in Branches, NEW force \in BOOLEAN, Checkout(b, force),
           UNCHANGED <<commits, known, tracked, remote, models>>
    PROVE  IInv' /\ BranchesGoForward
<1>1. UNCHANGED <<local, upstream>> /\ local[b] # NoCommit
  BY DEF Checkout
<1>2. local[b] \in 0 .. Len(commits)
  BY DEF IInv, Typed
<1>3. [what |-> "force", branch |-> b] \in Question
  BY DEF Question
<1>4. work' \in Contents /\ head' \in {head, b} /\ asking' \in Question
  <2>1. CASE SwitchTo(b, force)
    BY <1>1, <1>2, <2>1, SwitchTyped DEF IInv
  <2>2. CASE Ask("force", b) /\ UNCHANGED <<head, work, syncing>>
    BY <1>3, <2>2 DEF Ask, IInv, Typed
  <2> QED
    BY <2>1, <2>2 DEF Checkout
<1>5. Typed'
  BY <1>1, <1>4 DEF IInv, Typed
<1>6. \A a \in Branches : Past(tracked[a]) \subseteq known
  BY DEF IInv, RepositoryIsWhole
<1>7. (\E a \in Branches : local[a] # NoCommit) => local'[head'] # NoCommit
  BY <1>1, <1>4 DEF IInv, RepositoryIsWhole, Current
<1> QED
  BY <1>1, <1>5, <1>6, <1>7, NoneMade

LEMMA CheckoutRemoteKeeps ==
    ASSUME Sensible, IInv, NEW b \in Branches, NEW force \in BOOLEAN, CheckoutRemote(b, force),
           force \/ local[head] # NoCommit,
           UNCHANGED <<commits, known, tracked, remote, models>>
    PROVE  IInv' /\ BranchesGoForward
<1>1. CASE local[b] # NoCommit
  <2>1. UNCHANGED store /\ UNCHANGED work /\ asking' = None
    BY <1>1 DEF CheckoutRemote, store
  <2>2. None \in Question
    BY DEF Sensible, None, Question
  <2> QED
    BY <2>1, <2>2, StoreSame DEF IInv, Typed
<1>2. CASE local[b] = NoCommit
  <2>1. tracked[b] \in 0 .. Len(commits) /\ tracked[b] # NoCommit
    BY DEF CheckoutRemote, IInv, Typed
  <2>2. /\ local' = [local EXCEPT ![b] = tracked[b]] /\ upstream' = upstream \cup {b}
        /\ \/ SwitchTo(b, force)
           \/ ~force /\ Ask("force origin", b) /\ UNCHANGED <<head, work, syncing>>
    BY <1>2 DEF CheckoutRemote
  <2>3. local' \in [Branches -> 0 .. Len(commits)] /\ local'[b] = tracked[b]
        /\ \A a \in Branches : a # b => local'[a] = local[a]
    BY <2>1, <2>2 DEF IInv, Typed
  <2>4. [what |-> "force origin", branch |-> b] \in Question
    BY DEF Question
  <2>5. work' \in Contents /\ asking' \in Question
        /\ (head' = b \/ (head' = head /\ local[head] # NoCommit))
    <3>1. CASE SwitchTo(b, force)
      BY <2>1, <2>3, <3>1, SwitchTyped DEF IInv
    <3>2. CASE ~force /\ Ask("force origin", b) /\ UNCHANGED <<head, work, syncing>>
      BY <2>4, <3>2 DEF Ask, IInv, Typed
    <3> QED
      BY <2>2, <3>1, <3>2
  <2>6. head' \in Branches /\ upstream' \in SUBSET Branches
    BY <2>2, <2>5 DEF IInv, Typed
  <2>7. Typed'
    BY <2>3, <2>5, <2>6 DEF IInv, Typed
  <2>8. \A a \in Branches : Past(tracked[a]) \subseteq known
    BY DEF IInv, RepositoryIsWhole
  <2>9. \A a \in Branches :
           \/ local'[a] \in {local[a], NoCommit}
           \/ local[a] = NoCommit /\ Past(local'[a]) \subseteq known'
    BY <1>2, <2>3, <2>8
  <2>10. local'[head'] # NoCommit
    BY <2>1, <2>3, <2>5, <2>6
  <2>11. \A a \in Branches : remote'[a] = NoCommit \/ Past(remote[a]) \subseteq Past(remote'[a])
    OBVIOUS
  <2> QED
    BY <2>7, <2>8, <2>9, <2>10, <2>11, NoneMade
<1> QED
  BY <1>1, <1>2

LEMMA ChooseKeeps ==
    ASSUME Sensible, IInv, NEW b \in Branches, Choose(b)
    PROVE  IInv' /\ BranchesGoForward
<1>1. local[head] # NoCommit /\ UNCHANGED <<commits, known, tracked, remote, models>>
  BY DEF Choose, Idle
<1>2. Checkout(b, FALSE) \/ CheckoutRemote(b, FALSE)
  BY DEF Choose
<1> QED
  BY <1>1, <1>2, CheckoutKeeps, CheckoutRemoteKeeps

LEMMA ConfirmForceKeeps ==
    ASSUME Sensible, IInv, ConfirmForce
    PROVE  IInv' /\ BranchesGoForward
<1>1. PICK b \in Branches : b = asking.branch
  BY DEF IInv, Typed, Question
<1>2. Checkout(b, TRUE) \/ CheckoutRemote(b, TRUE)
  BY <1>1 DEF ConfirmForce
<1>3. UNCHANGED <<commits, known, tracked, remote, models>>
  BY DEF ConfirmForce
<1> QED
  BY <1>2, <1>3, CheckoutKeeps, CheckoutRemoteKeeps

LEMMA NewBranchKeeps ==
    ASSUME Sensible, IInv, NEW b \in Branches, NewBranch(b)
    PROVE  IInv' /\ BranchesGoForward
<1>1. PICK c \in 0 .. Len(commits) : c = local[head]
  BY DEF IInv, Typed
<1>2. c # NoCommit /\ local[b] = NoCommit /\ local' = [local EXCEPT ![b] = c]
  BY <1>1 DEF NewBranch, Idle, Current
<1>3. /\ local' \in [Branches -> 0 .. Len(commits)] /\ local'[b] = c
      /\ \A a \in Branches : a # b => local'[a] = local[a]
  BY <1>2 DEF IInv, Typed
<1>4. work' \in Contents /\ head' = b /\ asking' \in Question
  BY <1>1, <1>3, SwitchTyped DEF NewBranch, IInv
<1>5. UNCHANGED <<commits, known, tracked, remote, upstream, models>>
  BY DEF NewBranch
<1>6. Typed'
  BY <1>3, <1>4, <1>5 DEF IInv, Typed
<1>7. Past(c) \subseteq known /\ \A a \in Branches : Past(tracked[a]) \subseteq known
  BY <1>1 DEF IInv, RepositoryIsWhole, Typed
<1>8. \A a \in Branches :
         \/ local'[a] \in {local[a], NoCommit}
         \/ local[a] = NoCommit /\ Past(local'[a]) \subseteq known'
  BY <1>2, <1>3, <1>5, <1>7
<1>9. local'[head'] # NoCommit
  BY <1>2, <1>3, <1>4
<1> QED
  BY <1>5, <1>6, <1>7, <1>8, <1>9, NoneMade

LEMMA DeleteKeeps ==
    ASSUME Sensible, IInv, Delete
    PROVE  IInv' /\ BranchesGoForward
<1>1. PICK b \in Branches \ {asking.branch} :
         local[b] # NoCommit /\ work' = Tree(local[b]) /\ head' = b
  BY DEF Delete
<1>2. PICK a \in Branches : a = asking.branch
  BY DEF IInv, Typed, Question
<1>3. PICK c \in 0 .. Len(commits) : c = local[b]
  BY <1>1 DEF IInv, Typed
<1>4. work' \in Contents
  BY <1>1, <1>3, Trees DEF IInv
<1>5. 0 \in 0 .. Len(commits)
  BY Lengths DEF IInv
<1>6. /\ local' \in [Branches -> 0 .. Len(commits)] /\ local'[a] = NoCommit
      /\ \A d \in Branches : d # a => local'[d] = local[d]
  BY <1>2, <1>5 DEF Delete, NoCommit, IInv, Typed
<1>7. UNCHANGED <<commits, known, tracked, remote, models>>
  BY DEF Delete
<1>8. None \in Question /\ asking' = None
  BY DEF Delete, Sensible, None, Question
<1>9. Typed'
  BY <1>1, <1>4, <1>6, <1>7, <1>8 DEF Delete, IInv, Typed
<1>10. \A d \in Branches : Past(tracked[d]) \subseteq known
  BY DEF IInv, RepositoryIsWhole
<1>11. local'[head'] # NoCommit
  BY <1>1, <1>2, <1>6
<1> QED
  BY <1>6, <1>7, <1>9, <1>10, <1>11, NoneMade

LEMMA FetchAllKeeps ==
    ASSUME Sensible, IInv, FetchAll
    PROVE  IInv' /\ BranchesGoForward
<1>1. \A b \in Branches : remote[b] \in 0 .. Len(commits)
  BY DEF IInv, Typed
<1>2. \A b \in Branches : Past(remote[b]) \subseteq 1 .. Len(commits)
  BY <1>1, Pasts DEF IInv, Closed
<1>3. known' = known \cup UNION {Past(remote[b]) : b \in Branches}
  BY DEF FetchAll
<1>4. known' \in SUBSET (1 .. Len(commits)) /\ known \subseteq known'
  BY <1>2, <1>3 DEF IInv, Typed
<1>5. \A b \in Branches : Past(remote[b]) \subseteq known'
  BY <1>3
<1>6. /\ UNCHANGED <<commits, local, remote, upstream, head, work, models, asking>>
      /\ tracked' = remote
  BY DEF FetchAll
<1>7. Typed'
  BY <1>4, <1>6 DEF IInv, Typed
<1>8. (\E b \in Branches : local[b] # NoCommit) => local[head] # NoCommit
  BY DEF IInv, RepositoryIsWhole, Current
<1> QED
  BY <1>4, <1>5, <1>6, <1>7, <1>8, NoneMade

\* Origin's branch goes to a commit that has its old one in its past.
LEMMA PushKeeps ==
    ASSUME Sensible, IInv, Push
    PROVE  IInv' /\ BranchesGoForward
<1>1. PICK c \in 0 .. Len(commits) : c = local[head]
  BY DEF IInv, Typed
<1>2. PICK d \in 0 .. Len(commits) : d = remote[head]
  BY DEF IInv, Typed
<1>3. c # NoCommit /\ (d \in Past(c) \/ d = NoCommit)
  BY <1>1, <1>2 DEF Push, Idle, Current
<1>4. Past(d) \subseteq Past(c)
  <2>1. CASE d = NoCommit
    BY <2>1 DEF Past
  <2>2. CASE d # NoCommit
    BY <1>3, <2>2, Pasts DEF IInv, Closed
  <2> QED
    BY <2>1, <2>2
<1>5. /\ remote' = [remote EXCEPT ![head] = c] /\ tracked' = [tracked EXCEPT ![head] = c]
      /\ upstream' = upstream \cup {head}
      /\ UNCHANGED <<commits, known, local, head, work, models, asking>>
  BY <1>1 DEF Push, Current
<1>6. Typed'
  BY <1>5 DEF IInv, Typed
<1>7. \A b \in Branches : Past(local[b]) \subseteq known /\ Past(tracked[b]) \subseteq known
  BY DEF IInv, RepositoryIsWhole
<1>8. head \in Branches /\ Past(c) \subseteq known
  BY <1>1, <1>7 DEF IInv, Typed
<1>9. \A b \in Branches : tracked'[b] = IF b = head THEN c ELSE tracked[b]
  BY <1>5 DEF IInv, Typed
<1>10. \A b \in Branches : remote'[b] = IF b = head THEN c ELSE remote[b]
  BY <1>5 DEF IInv, Typed
<1>11. \A b \in Branches : Past(tracked'[b]) \subseteq known'
  BY <1>5, <1>7, <1>8, <1>9
<1>12. \A b \in Branches : Past(remote[b]) \subseteq Past(remote'[b])
  BY <1>2, <1>4, <1>10
<1> QED
  BY <1>1, <1>3, <1>5, <1>6, <1>11, <1>12, NoneMade

LEMMA OtherDeletesKeeps ==
    ASSUME Sensible, IInv, NEW b \in Branches, OtherDeletes(b)
    PROVE  IInv' /\ BranchesGoForward
<1>1. UNCHANGED <<commits, known, local, tracked, upstream, head, work, models, asking>>
  BY DEF OtherDeletes
<1>2. 0 \in 0 .. Len(commits)
  BY Lengths DEF IInv
<1>3. /\ remote' \in [Branches -> 0 .. Len(commits)] /\ remote'[b] = NoCommit
      /\ \A a \in Branches : a # b => remote'[a] = remote[a]
  BY <1>2 DEF OtherDeletes, NoCommit, IInv, Typed
<1>4. Typed'
  BY <1>1, <1>3 DEF IInv, Typed
<1>5. \A a \in Branches : Past(tracked[a]) \subseteq known
  BY DEF IInv, RepositoryIsWhole
<1>6. (\E a \in Branches : local[a] # NoCommit) => local[head] # NoCommit
  BY DEF IInv, RepositoryIsWhole, Current
<1>7. \A a \in Branches : remote'[a] = NoCommit \/ Past(remote[a]) \subseteq Past(remote'[a])
  BY <1>3
<1> QED
  BY <1>1, <1>4, <1>5, <1>6, <1>7, NoneMade

-----------------------------------------------------------------------------
(* Steps that may make one. *)

LEMMA OneMade ==
    ASSUME IInv, Grows, History', Typed', known \subseteq known',
           \A b \in Branches :
              \/ local'[b] = local[b]
              \/ /\ local'[b] # NoCommit /\ Past(local[b]) \subseteq commits'[local'[b]].past
                 /\ commits'[local'[b]].past \subseteq known',
           \A b \in Branches :
              tracked'[b] \in 0 .. Len(commits) /\ Past(tracked'[b]) \subseteq known',
           \A b \in Branches :
              \/ remote'[b] = remote[b]
              \/ remote'[b] # NoCommit /\ Past(remote[b]) \subseteq commits'[remote'[b]].past,
           (\E b \in Branches : local'[b] # NoCommit) => local'[head'] # NoCommit
    PROVE  IInv' /\ BranchesGoForward
<1>1. \A c \in 1 .. Len(commits) : commits'[c] = commits[c]
  BY DEF Grows
<1>2. \A c \in 0 .. Len(commits) : c # NoCommit => c \in 1 .. Len(commits)
  BY Lengths DEF IInv, NoCommit
<1>3. ASSUME NEW b \in Branches PROVE Past(local[b])' \subseteq known'
  <2>1. CASE local'[b] = local[b]
    <3>1. local[b] \in 0 .. Len(commits) /\ Past(local[b]) \subseteq known
      BY DEF IInv, Typed, RepositoryIsWhole
    <3> QED
      BY <1>1, <1>2, <2>1, <3>1 DEF Past
  <2>2. CASE local'[b] # local[b]
    BY <2>2 DEF Past
  <2> QED
    BY <2>1, <2>2
<1>4. ASSUME NEW b \in Branches PROVE Past(tracked[b])' \subseteq known'
  BY <1>1, <1>2 DEF Past
<1>5. RepositoryIsWhole'
  BY <1>3, <1>4 DEF RepositoryIsWhole, Current
<1>6. ASSUME NEW b \in Branches, local'[b] # NoCommit
      PROVE  Past(local[b]) \subseteq commits'[local'[b]].past
  <2>1. CASE local'[b] = local[b]
    <3>1. local[b] \in 0 .. Len(commits)
      BY DEF IInv, Typed
    <3> QED
      BY <1>1, <1>2, <1>6, <2>1, <3>1 DEF Past
  <2> QED
    BY <1>6, <2>1
<1>7. ASSUME NEW b \in Branches, remote'[b] # NoCommit
      PROVE  Past(remote[b]) \subseteq commits'[remote'[b]].past
  <2>1. CASE remote'[b] = remote[b]
    <3>1. remote[b] \in 0 .. Len(commits)
      BY DEF IInv, Typed
    <3> QED
      BY <1>1, <1>2, <1>7, <2>1, <3>1 DEF Past
  <2> QED
    BY <1>7, <2>1
<1>8. BranchesGoForward
  BY <1>6, <1>7 DEF BranchesGoForward
<1> QED
  BY <1>5, <1>8 DEF IInv

\* The commits of each branch are among those there are.
LEMMA Pointed ==
    ASSUME IInv, NEW b \in Branches
    PROVE  /\ local[b] \in 0 .. Len(commits) /\ tracked[b] \in 0 .. Len(commits)
           /\ remote[b] \in 0 .. Len(commits)
           /\ Past(local[b]) \subseteq known /\ Past(tracked[b]) \subseteq known
  BY DEF IInv, Typed, RepositoryIsWhole

LEMMA CommitKeeps ==
    ASSUME Sensible, IInv, Commit
    PROVE  IInv' /\ BranchesGoForward
<1>1. PICK c \in 0 .. Len(commits) : c = local[head]
  BY DEF IInv, Typed
<1>2. Closed(Past(c)) /\ Past(c) \subseteq known
  BY <1>1, Pasts DEF IInv, RepositoryIsWhole, Typed
<1>3. commits' = NewCommit(work, Past(c)) /\ work \in Contents
  BY <1>1 DEF Commit, Current, IInv, Typed
<1>4. /\ commits' \in Seq(CommitRecord) /\ Grows /\ History'
      /\ Len(commits') = Newest /\ Newest \in Nat \ {NoCommit}
      /\ commits'[Newest].past = Past(c) \cup {Newest}
  BY <1>2, <1>3, CommitAdded DEF IInv
<1>5. PICK n \in Nat \ {NoCommit} : n = Newest
  BY <1>4
<1>6. /\ local' = [local EXCEPT ![head] = n] /\ known' = known \cup {n}
      /\ UNCHANGED <<tracked, remote, upstream, head, work, models, asking>>
  BY <1>5 DEF Commit
<1>7. Len(commits) \in Nat /\ n = Len(commits) + 1
  BY <1>5, Lengths DEF IInv, Newest
<1>8. 0 .. Len(commits) \subseteq 0 .. Len(commits') /\ n \in 1 .. Len(commits')
      /\ 1 .. Len(commits) \subseteq 1 .. Len(commits') /\ n \in 0 .. Len(commits')
  BY <1>4, <1>5, <1>7
<1>9. /\ local' \in [Branches -> 0 .. Len(commits')] /\ local'[head] = n
      /\ \A b \in Branches : b # head => local'[b] = local[b]
  BY <1>6, <1>8 DEF IInv, Typed
<1>10. tracked' \in [Branches -> 0 .. Len(commits')] /\ remote' \in [Branches -> 0 .. Len(commits')]
  BY <1>6, <1>8 DEF IInv, Typed
<1>11. known' \in SUBSET (1 .. Len(commits'))
  BY <1>6, <1>8 DEF IInv, Typed
<1>12. Typed'
  BY <1>4, <1>6, <1>9, <1>10, <1>11 DEF IInv, Typed
<1>13. \A b \in Branches :
          \/ local'[b] = local[b]
          \/ /\ local'[b] # NoCommit /\ Past(local[b]) \subseteq commits'[local'[b]].past
             /\ commits'[local'[b]].past \subseteq known'
  BY <1>1, <1>2, <1>4, <1>5, <1>6, <1>9
<1>14. local'[head'] # NoCommit
  BY <1>5, <1>6, <1>9
<1>15. \A b \in Branches :
          tracked'[b] \in 0 .. Len(commits) /\ Past(tracked'[b]) \subseteq known'
  BY <1>6, Pointed
<1>16. known \subseteq known' /\ \A b \in Branches : remote'[b] = remote[b]
  BY <1>6
<1> QED
  BY <1>4, <1>12, <1>13, <1>14, <1>15, <1>16, OneMade

LEMMA OtherPushesKeeps ==
    ASSUME Sensible, IInv, NEW b \in Branches, NEW e \in OtherEdits, OtherPushes(b, e)
    PROVE  IInv' /\ BranchesGoForward
<1>1. Main \in Branches /\ e.file \in Files /\ e.content \in Nat
  BY DEF Sensible
<1>2. PICK c \in 0 .. Len(commits) : c = IF remote[b] = NoCommit THEN remote[Main] ELSE remote[b]
  BY <1>1, Pointed
<1>3. Closed(Past(c)) /\ Tree(c) \in Contents /\ Past(remote[b]) \subseteq Past(c)
  <2>1. CASE remote[b] = NoCommit
    BY <2>1, Pasts, Trees DEF IInv, Past
  <2>2. CASE remote[b] # NoCommit
    BY <1>2, <2>2, Pasts, Trees DEF IInv
  <2> QED
    BY <2>1, <2>2
<1>4. [Tree(c) EXCEPT ![e.file] = e.content] \in Contents
  BY <1>1, <1>3 DEF Contents
<1>5. commits' = NewCommit([Tree(c) EXCEPT ![e.file] = e.content], Past(c))
  BY <1>2 DEF OtherPushes
<1>6. /\ commits' \in Seq(CommitRecord) /\ Grows /\ History'
      /\ Len(commits') = Newest /\ Newest \in Nat \ {NoCommit}
      /\ commits'[Newest].past = Past(c) \cup {Newest}
  BY <1>3, <1>4, <1>5, CommitAdded DEF IInv
<1>7. PICK n \in Nat \ {NoCommit} : n = Newest
  BY <1>6
<1>8. /\ remote' = [remote EXCEPT ![b] = n]
      /\ UNCHANGED <<known, local, tracked, upstream, head, work, models, asking>>
  BY <1>7 DEF OtherPushes
<1>9. Len(commits) \in Nat /\ n = Len(commits) + 1
  BY <1>7, Lengths DEF IInv, Newest
<1>10. 0 .. Len(commits) \subseteq 0 .. Len(commits') /\ n \in 0 .. Len(commits')
       /\ 1 .. Len(commits) \subseteq 1 .. Len(commits')
  BY <1>6, <1>7, <1>9
<1>11. /\ remote' \in [Branches -> 0 .. Len(commits')] /\ remote'[b] = n
       /\ \A a \in Branches : a # b => remote'[a] = remote[a]
  BY <1>8, <1>10 DEF IInv, Typed
<1>12. tracked' \in [Branches -> 0 .. Len(commits')] /\ local' \in [Branches -> 0 .. Len(commits')]
  BY <1>8, <1>10 DEF IInv, Typed
<1>13. known' \in SUBSET (1 .. Len(commits'))
  BY <1>8, <1>10 DEF IInv, Typed
<1>14. Typed'
  BY <1>6, <1>8, <1>11, <1>12, <1>13 DEF IInv, Typed
<1>15. \A a \in Branches :
          \/ remote'[a] = remote[a]
          \/ remote'[a] # NoCommit /\ Past(remote[a]) \subseteq commits'[remote'[a]].past
  BY <1>3, <1>6, <1>7, <1>11
<1>16. (\E a \in Branches : local'[a] # NoCommit) => local'[head'] # NoCommit
  BY <1>8 DEF IInv, RepositoryIsWhole, Current
<1>17. \A a \in Branches :
          tracked'[a] \in 0 .. Len(commits) /\ Past(tracked'[a]) \subseteq known'
  BY <1>8, Pointed
<1> QED
  BY <1>6, <1>8, <1>14, <1>15, <1>16, <1>17, OneMade

\* A merge of a commit into the current branch: nothing, a step forward to it, or a
\* commit that has both pasts.
LEMMA Merges ==
    ASSUME IInv, NEW c \in 0 .. Len(commits), c # NoCommit, Current # NoCommit, DoMerge(c)
    PROVE  /\ commits' \in Seq(CommitRecord) /\ Grows /\ History'
           /\ local' \in [Branches -> 0 .. Len(commits')]
           /\ \A b \in Branches : b # head => local'[b] = local[b]
           /\ local'[head] # NoCommit /\ work' \in Contents
           /\ Past(Current) \subseteq commits'[local'[head]].past
           /\ commits'[local'[head]].past \subseteq Past(Current) \cup Past(c) \cup Made
           /\ Made \subseteq 1 .. Len(commits')
<1>1. PICK d \in 0 .. Len(commits) : d = Current
  BY Pointed DEF Current, IInv, Typed
<1>2. head \in Branches /\ local[head] = d /\ d # NoCommit /\ work \in Contents
  BY <1>1 DEF Current, IInv, Typed
<1>3. /\ Closed(Past(c)) /\ Past(c) = commits[c].past /\ c \in Past(c)
      /\ Closed(Past(d)) /\ Past(d) = commits[d].past /\ d \in Past(d)
  BY <1>2, Pasts DEF IInv
<1>4. CASE c \in Past(d)
  <2>1. UNCHANGED <<commits, local, work>>
    BY <1>1, <1>4 DEF DoMerge
  <2>2. commits' \in Seq(CommitRecord) /\ Grows /\ History' /\ Made = {}
    BY <2>1, CommitsSame DEF IInv
  <2> QED
    BY <1>1, <1>2, <1>3, <2>1, <2>2 DEF IInv, Typed
<1>5. CASE c \notin Past(d) /\ d \in Past(c)
  <2>1. local' = [local EXCEPT ![head] = c] /\ work' = Tree(c) /\ commits' = commits
    BY <1>1, <1>5 DEF DoMerge
  <2>2. commits' \in Seq(CommitRecord) /\ Grows /\ History' /\ Made = {}
    BY <2>1, CommitsSame DEF IInv
  <2>3. Past(d) \subseteq Past(c)
    BY <1>3, <1>5 DEF Closed
  <2>4. /\ local' \in [Branches -> 0 .. Len(commits)] /\ local'[head] = c
        /\ \A b \in Branches : b # head => local'[b] = local[b]
    BY <1>2, <2>1 DEF IInv, Typed
  <2>5. work' \in Contents
    BY <2>1, Trees DEF IInv
  <2> QED
    BY <1>1, <1>3, <2>1, <2>2, <2>3, <2>4, <2>5
<1>6. CASE c \notin Past(d) /\ d \notin Past(c)
  <2>1. PICK base \in Bases(d, c) :
           LET tree == Merged(Tree(base), Tree(d), Tree(c)) IN
           /\ commits' = NewCommit(tree, Past(d) \cup Past(c))
           /\ local' = [local EXCEPT ![head] = Newest]
           /\ work' \in {work, [f \in Files |-> IF Dirty(f) THEN work[f] ELSE tree[f]]}
    BY <1>1, <1>6 DEF DoMerge
  <2>2. base \in Past(d) /\ Past(d) \subseteq 1 .. Len(commits)
    BY <1>3 DEF Bases, Closed
  <2>3. base \in 0 .. Len(commits)
    BY <2>2, Lengths DEF IInv
  <2>4. PICK tree \in Contents : tree = Merged(Tree(base), Tree(d), Tree(c))
    <3>1. Tree(base) \in Contents /\ Tree(d) \in Contents /\ Tree(c) \in Contents
      BY <2>3, Trees DEF IInv
    <3> QED
      BY <3>1 DEF Merged, Contents
  <2>5. commits' = NewCommit(tree, Past(d) \cup Past(c)) /\ local' = [local EXCEPT ![head] = Newest]
    BY <2>1, <2>4
  <2>6. work' \in Contents
    BY <1>2, <2>1, <2>4 DEF Contents
  <2>7. Closed(Past(d) \cup Past(c))
    BY <1>3 DEF Closed
  <2>8. /\ commits' \in Seq(CommitRecord) /\ Grows /\ History'
        /\ Len(commits') = Newest /\ Newest \in Nat \ {NoCommit}
        /\ commits'[Newest].past = Past(d) \cup Past(c) \cup {Newest}
        /\ Made = {Newest}
    BY <2>5, <2>7, CommitAdded DEF IInv
  <2>9. PICK n \in Nat \ {NoCommit} : n = Newest
    BY <2>8
  <2>10. Len(commits) \in Nat /\ n = Len(commits) + 1
    BY <2>9, Lengths DEF IInv, Newest
  <2>11. 0 .. Len(commits) \subseteq 0 .. Len(commits') /\ n \in 0 .. Len(commits')
         /\ n \in 1 .. Len(commits')
    BY <2>8, <2>9, <2>10
  <2>12. /\ local' \in [Branches -> 0 .. Len(commits')] /\ local'[head] = n
         /\ \A b \in Branches : b # head => local'[b] = local[b]
    BY <1>2, <2>5, <2>9, <2>11 DEF IInv, Typed
  <2> QED
    BY <1>1, <2>6, <2>8, <2>9, <2>11, <2>12
<1> QED
  BY <1>4, <1>5, <1>6

LEMMA MergeStep ==
    ASSUME IInv, NEW c \in 0 .. Len(commits), c # NoCommit, Current # NoCommit, DoMerge(c),
           known' = known \cup Past(c) \cup Made,
           tracked' \in [Branches -> 0 .. Len(commits)],
           \A b \in Branches : tracked'[b] \in {tracked[b], c},
           UNCHANGED <<remote, upstream, head, models, asking>>
    PROVE  IInv' /\ BranchesGoForward
<1>1. /\ commits' \in Seq(CommitRecord) /\ Grows /\ History'
      /\ local' \in [Branches -> 0 .. Len(commits')]
      /\ \A b \in Branches : b # head => local'[b] = local[b]
      /\ local'[head] # NoCommit /\ work' \in Contents
      /\ Past(Current) \subseteq commits'[local'[head]].past
      /\ commits'[local'[head]].past \subseteq Past(Current) \cup Past(c) \cup Made
      /\ Made \subseteq 1 .. Len(commits')
  BY Merges
<1>2. Len(commits) \in Nat /\ Len(commits') \in Nat /\ Len(commits) =< Len(commits')
  BY <1>1, Lengths DEF IInv, Grows
<1>3. 0 .. Len(commits) \subseteq 0 .. Len(commits') /\ 1 .. Len(commits) \subseteq 1 .. Len(commits')
  BY <1>2
<1>4. Past(c) \subseteq 1 .. Len(commits)
  BY Pasts DEF IInv, Closed
<1>5. known' \in SUBSET (1 .. Len(commits')) /\ known \subseteq known'
  BY <1>1, <1>3, <1>4 DEF IInv, Typed
<1>6. tracked' \in [Branches -> 0 .. Len(commits')] /\ remote' \in [Branches -> 0 .. Len(commits')]
  BY <1>3 DEF IInv, Typed
<1>7. Typed'
  BY <1>1, <1>5, <1>6 DEF IInv, Typed
<1>8. head \in Branches /\ Current = local[head] /\ Past(Current) \subseteq known
  BY DEF IInv, Typed, RepositoryIsWhole, Current
<1>9. commits'[local'[head]].past \subseteq known'
  BY <1>1, <1>8
<1>10. \A b \in Branches :
          \/ local'[b] = local[b]
          \/ /\ local'[b] # NoCommit /\ Past(local[b]) \subseteq commits'[local'[b]].past
             /\ commits'[local'[b]].past \subseteq known'
  BY <1>1, <1>8, <1>9
<1>11. \A b \in Branches :
          tracked'[b] \in 0 .. Len(commits) /\ Past(tracked'[b]) \subseteq known'
  BY Pointed
<1>12. local'[head'] # NoCommit
  BY <1>1
<1> QED
  BY <1>1, <1>5, <1>7, <1>10, <1>11, <1>12, OneMade

LEMMA MergeKeeps ==
    ASSUME Sensible, IInv, NEW b \in Branches, Merge(b)
    PROVE  IInv' /\ BranchesGoForward
<1>1. PICK c \in 0 .. Len(commits) : c = local[b] /\ Past(c) \subseteq known
  BY Pointed
<1>2. c # NoCommit /\ Current # NoCommit /\ DoMerge(c) /\ known' = known \cup Made
  BY <1>1 DEF Merge, Idle, Current
<1>3. known' = known \cup Past(c) \cup Made
  BY <1>1, <1>2
<1>4. UNCHANGED <<tracked, remote, upstream, head, models, asking>>
  BY DEF Merge
<1>5. tracked' \in [Branches -> 0 .. Len(commits)]
  BY <1>4 DEF IInv, Typed
<1> QED
  BY <1>2, <1>3, <1>4, <1>5, MergeStep

LEMMA PullKeeps ==
    ASSUME Sensible, IInv, Pull
    PROVE  IInv' /\ BranchesGoForward
<1>1. PICK c \in 0 .. Len(commits) : c = remote[head]
  BY DEF IInv, Typed
<1>2. /\ c # NoCommit /\ Current # NoCommit /\ DoMerge(c)
      /\ known' = known \cup Past(c) \cup Made /\ tracked' = [tracked EXCEPT ![head] = c]
      /\ UNCHANGED <<remote, upstream, head, models, asking>>
  BY <1>1 DEF Pull, Idle, Current
<1>3. tracked' \in [Branches -> 0 .. Len(commits)]
  BY <1>2 DEF IInv, Typed
<1>4. \A b \in Branches : tracked'[b] \in {tracked[b], c}
  BY <1>2 DEF IInv, Typed
<1> QED
  BY <1>2, <1>3, <1>4, MergeStep

LEMMA NextKeeps ==
    ASSUME Sensible, IInv, [Next]_vars
    PROVE  IInv' /\ [BranchesGoForward]_vars
<1>1. CASE UNCHANGED vars
  <2>1. UNCHANGED store /\ work' \in Contents /\ models' \in Contents /\ asking' \in Question
    BY <1>1 DEF vars, store, IInv, Typed
  <2> QED
    BY <2>1, StoreSame
<1> QED
  BY <1>1, AsksKeep, EditKeeps, ChooseKeeps, ConfirmForceKeeps, NewBranchKeeps, DeleteKeeps,
     FetchAllKeeps, PushKeeps, OtherDeletesKeeps, CommitKeeps, OtherPushesKeeps, MergeKeeps,
     PullKeeps DEF Next

LEMMA InitHolds == ASSUME Sensible, Init PROVE IInv
<1>1. work \in Contents /\ models \in Contents
  BY DEF Init, Contents
<1>2. None \in Question
  BY DEF Sensible, None, Question
<1>3. /\ commits \in Seq(CommitRecord) /\ Len(commits) \in Nat
      /\ \A c \in 1 .. Len(commits) : commits[c].past = {1} /\ c = 1
  <2>1. CASE repo
    <3>1. PICK first \in CommitRecord : first = [tree |-> work, past |-> {1}]
      <4>1. {1} \in SUBSET Nat
        OBVIOUS
      <4> QED
        BY <1>1, <4>1 DEF CommitRecord
    <3>2. commits = <<first>> /\ first.past = {1}
      BY <2>1, <3>1 DEF Init
    <3> QED
      BY <3>2
  <2>2. CASE ~repo
    BY <2>2 DEF Init
  <2> QED
    BY <2>1, <2>2
<1>4. /\ local \in [Branches -> 0 .. Len(commits)] /\ remote = local /\ tracked = local
      /\ \A b \in Branches : local[b] = IF b = Main THEN Len(commits) ELSE NoCommit
  BY <1>3 DEF Init, NoCommit
<1>5. /\ known = 1 .. Len(commits) /\ upstream \in SUBSET Branches /\ head \in Branches
      /\ asking = None /\ head = Main
  BY DEF Init, Sensible
<1>6. Typed
  BY <1>1, <1>2, <1>3, <1>4, <1>5 DEF Typed
<1>7. History
  BY <1>3 DEF History
<1>8. \A b \in Branches : Past(local[b]) \subseteq known
  <2>1. ASSUME NEW b \in Branches PROVE Past(local[b]) \subseteq known
    <3>1. local[b] \in 0 .. Len(commits)
      BY <1>4
    <3> QED
      BY <1>5, <1>6, <1>7, <3>1, Pasts DEF Closed
  <2> QED
    BY <2>1
<1>9. (\E b \in Branches : local[b] # NoCommit) => local[head] # NoCommit
  BY <1>4, <1>5
<1> QED
  BY <1>4, <1>6, <1>7, <1>8, <1>9 DEF IInv, RepositoryIsWhole, Current

-----------------------------------------------------------------------------
(* What is not committed. *)

\* A switch that is not refused leaves the files alone that were edited.
LEMMA SwitchKeepsEdits ==
    ASSUME NEW b, NEW c, c = local'[b], SwitchTo(b, FALSE), ~Conflicts(Tree(c)),
           NEW f \in Files, Dirty(f)
    PROVE  work'[f] = work[f]
  BY DEF SwitchTo, CheckedOut, Conflicts

\* ... and so does a merge that is not a step forward.
LEMMA MergeKeepsEdits ==
    ASSUME IInv, NEW c, Current # NoCommit, DoMerge(c), UNCHANGED head,
           NEW f \in Files, Dirty(f), work'[f] # work[f]
    PROVE  local'[head] # Current /\ UNCHANGED commits
<1>1. PICK d \in 0 .. Len(commits) : d = Current
  BY Pointed DEF Current, IInv, Typed
<1>2. head \in Branches /\ d \in Past(d)
  BY <1>1, Pasts DEF IInv, Typed
<1>3. CASE c \in Past(d)
  BY <1>1, <1>3 DEF DoMerge
<1>4. CASE c \notin Past(d) /\ d \in Past(c)
  <2>1. local' = [local EXCEPT ![head] = c] /\ commits' = commits /\ c # d
    BY <1>1, <1>2, <1>4 DEF DoMerge
  <2> QED
    BY <1>1, <1>2, <2>1 DEF IInv, Typed
<1>5. CASE c \notin Past(d) /\ d \notin Past(c)
  BY <1>1, <1>5 DEF DoMerge
<1> QED
  BY <1>3, <1>4, <1>5

LEMMA NextKeepsEdits == ASSUME Sensible, IInv, Next PROVE UncommittedKept
<1> SUFFICES ASSUME store' # store, NEW f \in Files, Dirty(f), work'[f] # work[f], asking = None
    PROVE  head' = head /\ local'[head] # Current /\ UNCHANGED commits
  BY DEF UncommittedKept
<1>1. CASE \E b \in Branches : Choose(b)
  <2>1. PICK b \in Branches : Choose(b)
    BY <1>1
  <2>2. CASE Checkout(b, FALSE)
    <3>1. PICK c : c = local[b] /\ c = local'[b]
      BY <2>2 DEF Checkout
    <3>2. SwitchTo(b, FALSE) /\ ~Conflicts(Tree(c))
      BY <2>2, <3>1 DEF Checkout
    <3> QED
      BY <3>1, <3>2, SwitchKeepsEdits
  <2>3. CASE CheckoutRemote(b, FALSE)
    <3>1. CASE local[b] # NoCommit
      BY <2>3, <3>1 DEF CheckoutRemote
    <3>2. CASE local[b] = NoCommit
      <4>1. PICK c : c = tracked[b] /\ c = local'[b]
        BY <2>3, <3>2 DEF CheckoutRemote, IInv, Typed
      <4>2. SwitchTo(b, FALSE) /\ ~Conflicts(Tree(c))
        BY <2>3, <3>2, <4>1 DEF CheckoutRemote
      <4> QED
        BY <4>1, <4>2, SwitchKeepsEdits
    <3> QED
      BY <3>1, <3>2
  <2> QED
    BY <2>1, <2>2, <2>3 DEF Choose
<1>2. CASE \E b \in Branches : NewBranch(b)
  <2>1. PICK b \in Branches : NewBranch(b)
    BY <1>2
  <2>2. PICK c : c = Current /\ c = local'[b]
    BY <2>1 DEF NewBranch, IInv, Typed
  <2>3. SwitchTo(b, FALSE) /\ ~Conflicts(Tree(c))
    BY <2>1, <2>2 DEF NewBranch, Conflicts
  <2> QED
    BY <2>2, <2>3, SwitchKeepsEdits
<1>3. CASE \E b \in Branches : Merge(b)
  <2>1. PICK b \in Branches : Merge(b)
    BY <1>3
  <2>2. UNCHANGED head /\ Current # NoCommit /\ DoMerge(local[b])
    BY <2>1 DEF Merge, Idle, Current
  <2> QED
    BY <2>2, MergeKeepsEdits
<1>4. CASE Pull
  <2>1. UNCHANGED head /\ Current # NoCommit /\ DoMerge(remote[head])
    BY <1>4 DEF Pull, Idle, Current
  <2> QED
    BY <2>1, MergeKeepsEdits
<1>5. ASSUME \/ InitRepo \/ HideSetup \/ Commit \/ Sync \/ WatcherSyncs \/ Cancel \/ AskDelete
             \/ FetchAll \/ Push
             \/ \E b \in Branches : OtherDeletes(b)
             \/ \E b \in Branches, e \in OtherEdits : OtherPushes(b, e)
      PROVE  work' = work
  BY <1>5 DEF InitRepo, HideSetup, Commit, Sync, WatcherSyncs, Cancel, AskDelete, FetchAll, Push,
     OtherDeletes, OtherPushes
<1>6. ASSUME NEW e \in Edits, Edit(e) PROVE FALSE
  BY <1>6 DEF Edit
<1>7. ~ConfirmForce /\ ~Delete
  BY DEF ConfirmForce, Delete
<1> QED
  BY <1>1, <1>2, <1>3, <1>4, <1>5, <1>6, <1>7 DEF Next

-----------------------------------------------------------------------------
(* What a sync follows. *)

LEMMA SwitchSyncs ==
    ASSUME NEW b, NEW force \in BOOLEAN, Checkout(b, force) \/ CheckoutRemote(b, force)
    PROVE  syncing' = TRUE \/ UNCHANGED <<work, syncing>>
<1>1. CASE Checkout(b, force)
  BY <1>1 DEF Checkout, SwitchTo
<1>2. CASE CheckoutRemote(b, force)
  BY <1>2 DEF CheckoutRemote, SwitchTo
<1> QED
  BY <1>1, <1>2

-----------------------------------------------------------------------------
(* The theorems. *)

LEMMA Inductive == ASSUME Sensible PROVE Spec => []IInv
<1>1. Init => IInv
  BY InitHolds
<1>2. IInv /\ [Next]_vars => IInv'
  BY NextKeeps
<1> QED
  BY <1>1, <1>2, PTL DEF Spec

\* Branches are at commits there are, and the current branch is one.
THEOREM TypeCorrect == ASSUME Sensible PROVE Spec => []TypeOK
<1>1. IInv => TypeOK
  BY DEF IInv, Typed, TypeOK
<1> QED
  BY <1>1, Inductive, PTL

\* Whatever is fetched, pulled, deleted here or there and switched, what a branch of this
\* repository needs is here, and the current branch exists as long as any does.
THEOREM RepositoryStaysWhole == ASSUME Sensible PROVE Spec => []RepositoryIsWhole
<1>1. IInv => RepositoryIsWhole
  BY DEF IInv
<1> QED
  BY <1>1, Inductive, PTL

\* Merges, pulls, pushes and switches take no commit from a branch, here or at origin:
\* only its deletion does (do_merge, git_pull, git_push without force).
THEOREM BranchesLoseNothing == ASSUME Sensible PROVE Spec => [][BranchesGoForward]_vars
<1>1. IInv /\ [Next]_vars => [BranchesGoForward]_vars
  BY NextKeeps
<1> QED
  BY <1>1, Inductive, PTL DEF Spec

\* An edit that is not committed is lost to a switch, merge or pull only when the person
\* was asked, or by a step forward to another's commit, which checks nothing
\* (merge_fast_forward's forced checkout).
THEOREM EditsSurviveSwitches == ASSUME Sensible PROVE Spec => [][UncommittedKept]_vars
<1>1. IInv /\ [Next]_vars => [UncommittedKept]_vars
  BY NextKeepsEdits
<1> QED
  BY <1>1, Inductive, PTL DEF Spec

\* The window shows the files of the branch, unless a sync is on its way, or is missing
\* because a pull took only commits that were fetched before.
THEOREM WindowFollowsBranch == Spec => []WindowShowsBranch
<1>1. Init => WindowShowsBranch
  BY DEF Init, WindowShowsBranch
<1>2. ASSUME WindowShowsBranch, Next PROVE WindowShowsBranch'
  <2>1. CASE \E b \in Branches : Choose(b)
    <3>1. UNCHANGED <<models, stale>> /\ (syncing' = TRUE \/ UNCHANGED <<work, syncing>>)
      BY <2>1, SwitchSyncs DEF Choose
    <3> QED
      BY <1>2, <3>1 DEF WindowShowsBranch
  <2>2. CASE ConfirmForce
    <3>1. UNCHANGED <<models, stale>> /\ (syncing' = TRUE \/ UNCHANGED <<work, syncing>>)
      BY <2>2, SwitchSyncs DEF ConfirmForce
    <3> QED
      BY <1>2, <3>1 DEF WindowShowsBranch
  <2>3. CASE Pull
    BY <1>2, <2>3 DEF Pull, WindowShowsBranch
  <2>4. CASE \E b \in Branches : NewBranch(b)
    <3>1. syncing' = TRUE
      BY <2>4 DEF NewBranch, SwitchTo
    <3> QED
      BY <3>1 DEF WindowShowsBranch
  <2>9. CASE \E b \in Branches : Merge(b) \/ OtherDeletes(b)
    BY <1>2, <2>9 DEF Merge, OtherDeletes, WindowShowsBranch
  <2>5. CASE Delete \/ FetchAll \/ Push \/ Commit
    BY <1>2, <2>5 DEF Delete, FetchAll, Push, Commit, WindowShowsBranch
  <2>6. CASE InitRepo \/ HideSetup \/ Sync \/ WatcherSyncs \/ Cancel \/ AskDelete
    BY <1>2, <2>6 DEF InitRepo, HideSetup, Sync, WatcherSyncs, Cancel, AskDelete, Ask,
       WindowShowsBranch
  <2>7. CASE \E e \in Edits : Edit(e)
    BY <1>2, <2>7 DEF Edit, WindowShowsBranch
  <2>8. CASE \E b \in Branches, e \in OtherEdits : OtherPushes(b, e)
    BY <1>2, <2>8 DEF OtherPushes, WindowShowsBranch
  <2> QED
    BY <1>2, <2>1, <2>2, <2>3, <2>4, <2>5, <2>6, <2>7, <2>8, <2>9 DEF Next
<1>3. WindowShowsBranch /\ UNCHANGED vars => WindowShowsBranch'
  BY DEF vars, WindowShowsBranch
<1> QED
  BY <1>1, <1>2, <1>3, PTL DEF Spec

=============================================================================
