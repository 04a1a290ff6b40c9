-------------------------- MODULE ModelStoreProofs --------------------------
(***************************************************************************)
(* Theorems about ModelStore, for every set of windows, models and         *)
(* workspaces, every number of writes and of overlapping loads.            *)
(*                                                                         *)
(* The inductive invariant follows a change from its write to the windows. *)
(* For a model whose writes and events have not raced, the change that is  *)
(* still to be sent is the row's; otherwise the last event about it in     *)
(* every queue is what the database holds, or will hold when the open      *)
(* transaction commits; and with no event left, that is what the window's  *)
(* store and the answer of each of its loads hold, unless news of it came  *)
(* between the answer and its installation.                                *)
(***************************************************************************)
EXTENDS ModelStore, SequenceTheorems, FiniteSetTheorems, TLAPS

\* SQLite has one writer.
OneWriter == tx = {} \/ \E c \in Changes : tx = {c}

\* v is what the database holds of i once the open transaction commits
Settled(i, v) ==
    \/ (\A c \in tx : c.id # i) /\ rows[i] = v
    \/ \E c \in tx : c.id = i /\ c.version = v

\* a change of i waits to be sent
Waiting(i) == \E c \in unsent : c.id = i

\* A change that has not raced and waits to be sent is the row's, and the only one.
SendsTheRow ==
    \A c \in unsent : c.id \notin raced =>
        /\ c.version = rows[c.id]
        /\ \A d \in unsent : d.id = c.id => d = c
        /\ \A d \in tx : d.id # c.id

\* event k of the window is the last about its model
IsLast(q, k) == \A m \in (k+1)..Len(q) : q[m].id # q[k].id

\* The last event about a model tells what the database holds.
LastEventTells ==
    \A w \in Windows : \A k \in 1..Len(inbox[w]) :
        LET c == inbox[w][k]
        IN  IsLast(inbox[w], k) /\ c.id \notin raced /\ ~Waiting(c.id) => Settled(c.id, c.version)

\* the models whose copies in a window are promised to be right
Promised(w, workspace, late) ==
    {i \in Listed(workspace) \ (raced \cup late \cup Private) : ~Coming(w, i) /\ ~Waiting(i)}

\* With no event left, the window holds it ...
StoreTells ==
    \A w \in Windows : \A i \in Promised(w, active[w], missed[w]) : Settled(i, store[w][i])

\* ... and so does the answer to a load.
LoadsTell ==
    \A w \in Windows : \A l \in loads[w] : l.snapshot # Asked =>
        \A i \in Promised(w, l.workspace, l.late) : Settled(i, l.snapshot[i])

\* workspace_models lists the models of the workspace only.
ListsItsOwn ==
    \A w \in Windows : \A l \in loads[w] : l.snapshot # Asked =>
        \A i \in Ids \ Listed(l.workspace) : l.snapshot[i] = 0

IInv ==
    /\ TypeOK /\ OneWriter /\ SendsTheRow /\ LastEventTells
    /\ StoreTells /\ LoadsTell /\ ListsItsOwn

-----------------------------------------------------------------------------
(* Queues of events. *)

\* the queue has an event about i
Has(q, i) == \E k \in 1..Len(q) : q[k].id = i

LEMMA AppendLast ==
    ASSUME NEW q \in Seq(Changes), NEW c \in Changes, NEW p, p = Append(q, c)
    PROVE  /\ p \in Seq(Changes)
           /\ \A i : Has(p, i) <=> Has(q, i) \/ c.id = i
           /\ \A k \in 1..Len(p) : IsLast(p, k) =>
                \/ p[k] = c
                \/ k \in 1..Len(q) /\ p[k] = q[k] /\ IsLast(q, k) /\ q[k].id # c.id
<1>1. /\ Len(q) \in Nat /\ p \in Seq(Changes) /\ Len(p) = Len(q) + 1
      /\ \A k \in 1..Len(q) : p[k] = q[k]
      /\ p[Len(q) + 1] = c
  BY LenProperties, AppendProperties
<1>2. \A k \in 1..Len(p) : k \in 1..Len(q) \/ k = Len(q) + 1
  BY <1>1
<1>3. \A k \in 1..Len(q) : k \in 1..Len(p) /\ Len(q) + 1 \in (k+1)..Len(p)
  BY <1>1
<1>4. Len(q) + 1 \in 1..Len(p)
  BY <1>1
<1>5. \A i : Has(p, i) <=> Has(q, i) \/ c.id = i
  BY <1>1, <1>2, <1>3, <1>4 DEF Has
<1>6. ASSUME NEW k \in 1..Len(p), IsLast(p, k), p[k] # c
      PROVE  k \in 1..Len(q) /\ p[k] = q[k] /\ IsLast(q, k) /\ q[k].id # c.id
  <2>1. k \in 1..Len(q) /\ p[k] = q[k]
    BY <1>1, <1>2, <1>6
  <2>2. q[k].id # c.id
    BY <1>1, <1>3, <1>6, <2>1 DEF IsLast
  <2>3. \A m \in (k+1)..Len(q) : m \in 1..Len(q) /\ m \in (k+1)..Len(p)
    BY <1>1, <2>1
  <2>4. IsLast(q, k)
    BY <1>1, <1>6, <2>1, <2>3 DEF IsLast
  <2>5. QED
    BY <2>1, <2>2, <2>4
<1>7. QED
  BY <1>1, <1>5, <1>6

LEMMA TailLast ==
    ASSUME NEW q \in Seq(Changes), q # <<>>, NEW p, p = Tail(q)
    PROVE  /\ Head(q) \in Changes /\ p \in Seq(Changes)
           /\ \A i : Has(q, i) <=> Has(p, i) \/ Head(q).id = i
           /\ 1 \in 1..Len(q) /\ q[1] = Head(q)
           /\ ~Has(p, Head(q).id) => IsLast(q, 1)
           /\ \A k \in 1..Len(p) : k + 1 \in 1..Len(q) /\ p[k] = q[k+1]
                                   /\ (IsLast(p, k) => IsLast(q, k + 1))
<1>1. /\ Len(q) \in Nat /\ Len(q) > 0 /\ Head(q) \in Changes /\ p \in Seq(Changes)
      /\ Len(p) = Len(q) - 1 /\ Len(p) \in Nat
      /\ \A k \in 1..Len(p) : p[k] = q[k+1]
  BY LenProperties, EmptySeq, HeadTailProperties
<1>2. q[1] = Head(q) /\ 1 \in 1..Len(q)
  BY <1>1
<1>3. \A k \in 1..Len(p) : k + 1 \in 1..Len(q)
  BY <1>1
<1>4. \A m \in 2..Len(q) : m - 1 \in 1..Len(p) /\ (m - 1) + 1 = m
  BY <1>1
<1>5. \A m \in 1..Len(q) : m = 1 \/ m \in 2..Len(q)
  BY <1>1
<1>6. \A m \in 2..Len(q) : q[m] = p[m - 1]
  BY <1>1, <1>4
<1>7. \A i : Has(q, i) <=> Has(p, i) \/ Head(q).id = i
  BY <1>1, <1>2, <1>3, <1>4, <1>5, <1>6 DEF Has
<1>8. ~Has(p, Head(q).id) => IsLast(q, 1)
  BY <1>2, <1>4, <1>6 DEF Has, IsLast
<1>9. ASSUME NEW k \in 1..Len(p), IsLast(p, k) PROVE IsLast(q, k + 1)
  <2>1. \A m \in ((k+1)+1)..Len(q) : m \in 2..Len(q) /\ m - 1 \in (k+1)..Len(p)
    BY <1>1
  <2>2. p[k] = q[k+1]
    BY <1>1
  <2>3. QED
    BY <1>6, <1>9, <2>1, <2>2 DEF IsLast
<1>10. QED
  BY <1>1, <1>2, <1>3, <1>7, <1>8, <1>9

LEMMA ComingHas ==
    \A w, i : /\ Coming(w, i) <=> Has(inbox[w], i)
              /\ Coming(w, i)' <=> Has(inbox'[w], i)
BY DEF Coming, Has

\* An event that is sent reaches the end of every queue.
LEMMA SentReaches ==
    ASSUME inbox \in [Windows -> Seq(Changes)], NEW c \in Changes, Sent(c)
    PROVE  /\ inbox' \in [Windows -> Seq(Changes)]
           /\ \A w \in Windows : \A i : Coming(w, i)' <=> Coming(w, i) \/ c.id = i
           /\ \A w \in Windows : \A k \in 1..Len(inbox'[w]) : IsLast(inbox'[w], k) =>
                \/ inbox'[w][k] = c
                \/ /\ k \in 1..Len(inbox[w]) /\ inbox'[w][k] = inbox[w][k]
                   /\ IsLast(inbox[w], k) /\ inbox[w][k].id # c.id
<1>1. \A w \in Windows : inbox[w] \in Seq(Changes) /\ inbox'[w] = Append(inbox[w], c)
  BY DEF Sent
<1>2. \A w \in Windows :
        /\ inbox'[w] \in Seq(Changes)
        /\ \A i : Has(inbox'[w], i) <=> Has(inbox[w], i) \/ c.id = i
        /\ \A k \in 1..Len(inbox'[w]) : IsLast(inbox'[w], k) =>
                \/ inbox'[w][k] = c
                \/ /\ k \in 1..Len(inbox[w]) /\ inbox'[w][k] = inbox[w][k]
                   /\ IsLast(inbox[w], k) /\ inbox[w][k].id # c.id
  BY <1>1, AppendLast
<1>3. inbox' \in [Windows -> Seq(Changes)]
  BY <1>2 DEF Sent
<1>4. QED
  BY <1>2, <1>3, ComingHas

-----------------------------------------------------------------------------
(* Steps of the database. *)

\* A step that changes nothing in the windows keeps what they hold true, if it
\* keeps what they could be promised.
LEMMA WindowsKept ==
    ASSUME IInv, UNCHANGED <<store, active, loads, missed>>,
           \A w \in Windows : \A i \in Ids :
             i \notin raced' /\ ~Coming(w, i)' /\ ~Waiting(i)' =>
                /\ i \notin raced /\ ~Coming(w, i) /\ ~Waiting(i)
                /\ \A v : Settled(i, v) => Settled(i, v)'
    PROVE  StoreTells' /\ LoadsTell' /\ ListsItsOwn'
<1>1. ASSUME NEW w \in Windows, NEW i, NEW workspace, NEW late,
             i \in Promised(w, workspace, late)'
      PROVE  i \in Promised(w, workspace, late) /\ \A v : Settled(i, v) => Settled(i, v)'
  BY <1>1 DEF Promised, Listed
<1>2. StoreTells'
  <2>1. ASSUME NEW w \in Windows, NEW i \in Promised(w, active[w], missed[w])'
        PROVE  Settled(i, store[w][i])'
    BY <1>1, <2>1 DEF IInv, StoreTells, Promised, Listed
  <2>2. QED
    BY <2>1 DEF StoreTells
<1>3. LoadsTell'
  <2>1. ASSUME NEW w \in Windows, NEW l \in loads[w], l.snapshot # Asked,
               NEW i \in Promised(w, l.workspace, l.late)'
        PROVE  Settled(i, l.snapshot[i])'
    BY <1>1, <2>1 DEF IInv, LoadsTell
  <2>2. QED
    BY <2>1 DEF LoadsTell
<1>4. ListsItsOwn'
  BY DEF IInv, ListsItsOwn, Listed
<1>5. QED
  BY <1>2, <1>3, <1>4
LEMMA InitInv == Init => IInv
<1> SUFFICES ASSUME Init PROVE IInv
  OBVIOUS
<1>1. TypeOK
  <2>1. inbox \in [Windows -> Seq(Changes)]
    BY EmptySeq DEF Init
  <2>2. 0 \in Versions
    BY Bounds DEF Versions
  <2>3. Cardinality(tx) <= 1
    BY FS_EmptySet DEF Init
  <2>4. QED
    BY <2>1, <2>2, <2>3 DEF Init, TypeOK
<1>2. OneWriter /\ SendsTheRow /\ LoadsTell /\ ListsItsOwn
  BY DEF Init, OneWriter, SendsTheRow, LoadsTell, ListsItsOwn
<1>3. LastEventTells
  BY EmptySeq DEF Init, LastEventTells
<1>4. StoreTells
  BY DEF Init, StoreTells, Settled, Promised, Listed
<1>5. QED
  BY <1>1, <1>2, <1>3, <1>4 DEF IInv

\* What a write can be.
LEMMA NewVersion ==
    ASSUME TypeOK, last < MaxVersion
    PROVE  last + 1 \in Versions /\ 0 \in Versions
BY Bounds DEF TypeOK, Versions

LEMMA UpsertInv ==
    ASSUME IInv, NEW s \in Sources, NEW i \in Ids, Upsert(s, i)
    PROVE  IInv'
<1> DEFINE new == Change(i, last + 1, s)
<1>1. last + 1 \in Versions /\ tx = {} /\ tx' = {}
  BY NewVersion DEF IInv, Upsert, Unlocked
<1>2. new \in Changes /\ new.id = i /\ new.version = last + 1
  BY <1>1 DEF Changes, Change
<1>3. /\ unsent' = unsent \cup {new} /\ UNCHANGED <<inbox, store, active, loads, missed>>
      /\ rows' = [rows EXCEPT ![i] = last + 1] /\ last' = last + 1
      /\ raced' = IF Waiting(i) THEN raced \cup {i} ELSE raced \ {i}
  BY DEF Upsert, window, Racing, Waiting
<1>4. /\ rows' \in [Ids -> Versions] /\ rows'[i] = last + 1
      /\ \A j \in Ids \ {i} : rows'[j] = rows[j]
  BY <1>1, <1>3 DEF IInv, TypeOK
<1>5. TypeOK'
  <2>1. Cardinality(tx') <= 1
    BY <1>1, FS_EmptySet
  <2>2. QED
    BY <1>1, <1>2, <1>3, <1>4, <2>1 DEF IInv, TypeOK
<1>6. OneWriter'
  BY <1>1 DEF OneWriter
<1>7. \A j \in Ids : j \notin raced' /\ ~Waiting(j)' =>
        /\ j # i /\ j \notin raced /\ ~Waiting(j)
        /\ \A v : Settled(j, v) => Settled(j, v)'
  BY <1>1, <1>2, <1>3, <1>4 DEF Waiting, Settled
<1>8. \A c \in unsent' : c \in unsent \/ c = new
  BY <1>3
<1>9. \A c \in unsent : c.id \in Ids
  BY DEF IInv, TypeOK, Changes
<1>10. SendsTheRow'
  <2>1. ASSUME NEW c \in unsent', c.id \notin raced'
        PROVE  c.version = rows'[c.id] /\ \A d \in unsent' : d.id = c.id => d = c
    <3>1. CASE c.id = i
      <4>1. ~Waiting(i)
        BY <1>3, <2>1, <3>1
      <4>2. \A d \in unsent' : d.id = i => d = new
        BY <1>8, <4>1 DEF Waiting
      <4>3. QED
        BY <1>2, <1>4, <2>1, <3>1, <4>2
    <3>2. CASE c.id # i
      <4>1. c \in unsent /\ c.id \notin raced /\ c.id \in Ids
        BY <1>2, <1>3, <1>8, <1>9, <2>1, <3>2
      <4>2. QED
        BY <1>2, <1>4, <1>8, <3>2, <4>1 DEF IInv, SendsTheRow
    <3>3. QED
      BY <3>1, <3>2
  <2>2. QED
    BY <1>1, <2>1 DEF SendsTheRow
<1>11. LastEventTells'
  <2>1. ASSUME NEW w \in Windows, NEW k \in 1..Len(inbox[w])
        PROVE  inbox[w][k].id \in Ids
    BY ElementOfSeq DEF IInv, TypeOK, Changes
  <2>2. QED
    BY <1>3, <1>7, <2>1 DEF IInv, LastEventTells
<1>12. StoreTells' /\ LoadsTell' /\ ListsItsOwn'
  BY <1>3, <1>7, WindowsKept DEF Coming
<1>13. QED
  BY <1>5, <1>6, <1>10, <1>11, <1>12 DEF IInv

\* A change that is sent brings its model's news to every window: what the
\* invariant says of queues and windows stays true, if the change is what the
\* database holds and nothing is promised of other models that was not before.
LEMMA Announced ==
    ASSUME IInv, UNCHANGED <<store, active, loads, missed>>, NEW c \in Changes, Sent(c),
           c.id \notin raced' /\ ~Waiting(c.id)' => Settled(c.id, c.version)',
           \A j \in Ids \ {c.id} : j \notin raced' /\ ~Waiting(j)' =>
                /\ j \notin raced /\ ~Waiting(j)
                /\ \A v : Settled(j, v) => Settled(j, v)'
    PROVE  LastEventTells' /\ StoreTells' /\ LoadsTell' /\ ListsItsOwn'
<1>1. /\ inbox \in [Windows -> Seq(Changes)] /\ inbox' \in [Windows -> Seq(Changes)]
      /\ \A w \in Windows : \A i : Coming(w, i)' <=> Coming(w, i) \/ c.id = i
      /\ \A w \in Windows : \A k \in 1..Len(inbox'[w]) : IsLast(inbox'[w], k) =>
           \/ inbox'[w][k] = c
           \/ /\ k \in 1..Len(inbox[w]) /\ inbox'[w][k] = inbox[w][k]
              /\ IsLast(inbox[w], k) /\ inbox[w][k].id # c.id
  BY SentReaches DEF IInv, TypeOK
<1>2. LastEventTells'
  <2>1. ASSUME NEW w \in Windows, NEW k \in 1..Len(inbox'[w]), IsLast(inbox'[w], k),
               NEW i, NEW v, inbox'[w][k].id = i, inbox'[w][k].version = v,
               i \notin raced', ~Waiting(i)'
        PROVE  Settled(i, v)'
    <3>1. CASE inbox'[w][k] = c
      <4>1. c.id = i /\ c.version = v
        BY <2>1, <3>1
      <4>2. QED
        BY <2>1, <4>1
    <3>2. CASE /\ k \in 1..Len(inbox[w]) /\ inbox'[w][k] = inbox[w][k]
               /\ IsLast(inbox[w], k) /\ inbox[w][k].id # c.id
      <4>1. i \in Ids \ {c.id} /\ inbox[w][k].id = i /\ inbox[w][k].version = v
        <5>1. inbox[w] \in Seq(Changes) /\ inbox[w][k] \in Changes
          BY <1>1, <3>2, ElementOfSeq
        <5>2. QED
          BY <2>1, <3>2, <5>1 DEF Changes
      <4>2. i \notin raced /\ ~Waiting(i) /\ (Settled(i, v) => Settled(i, v)')
        BY <2>1, <4>1
      <4>3. Settled(i, v)
        BY <3>2, <4>1, <4>2 DEF IInv, LastEventTells
      <4>4. QED
        BY <4>2, <4>3
    <3>3. QED
      BY <1>1, <2>1, <3>1, <3>2
  <2>2. QED
    BY <2>1 DEF LastEventTells
<1>3. StoreTells' /\ LoadsTell' /\ ListsItsOwn'
  BY <1>1, WindowsKept
<1>4. QED
  BY <1>2, <1>3

LEMMA SendInv ==
    ASSUME IInv, NEW c \in unsent, Send(c)
    PROVE  IInv'
<1>1. /\ unsent' = unsent \ {c} /\ Sent(c)
      /\ UNCHANGED <<rows, last, tx, store, active, loads, missed, raced>>
  BY DEF Send, window
<1>2. c \in Changes /\ c.id \in Ids
  BY DEF IInv, TypeOK, Changes
<1>3. TypeOK'
  BY <1>1, <1>2, SentReaches DEF IInv, TypeOK
<1>4. OneWriter'
  BY <1>1 DEF IInv, OneWriter
<1>5. SendsTheRow'
  BY <1>1 DEF IInv, SendsTheRow
<1>6. c.id \notin raced' /\ ~Waiting(c.id)' => Settled(c.id, c.version)'
  BY <1>1 DEF IInv, SendsTheRow, Settled
<1>7. \A j \in Ids \ {c.id} : j \notin raced' /\ ~Waiting(j)' =>
        /\ j \notin raced /\ ~Waiting(j)
        /\ \A v : Settled(j, v) => Settled(j, v)'
  BY <1>1 DEF Waiting, Settled
<1>8. LastEventTells' /\ StoreTells' /\ LoadsTell' /\ ListsItsOwn'
  BY <1>1, <1>2, <1>6, <1>7, Announced
<1>9. QED
  BY <1>3, <1>4, <1>5, <1>8 DEF IInv

LEMMA TransactInv ==
    ASSUME IInv, NEW s \in Sources, NEW i \in Ids, NEW v \in {0, last + 1}, Transact(s, i, v)
    PROVE  IInv'
<1> DEFINE c == Change(i, v, s)
<1>1. v \in Versions /\ last + 1 \in Versions /\ tx = {}
  BY NewVersion DEF IInv, Transact, Unlocked
<1>2. c \in Changes /\ c.id = i /\ c.version = v
  BY <1>1 DEF Changes, Change
<1>3. /\ tx' = {c} /\ Sent(c) /\ last' = last + 1
      /\ UNCHANGED <<rows, unsent, store, active, loads, missed>>
      /\ raced' = IF Waiting(i) THEN raced \cup {i} ELSE raced \ {i}
  BY <1>1 DEF Transact, window, Racing, Waiting
<1>4. TypeOK'
  <2>1. Cardinality(tx') <= 1
    <3>1. PICK x : tx' = {x}
      BY <1>3
    <3>2. Cardinality({x}) = 1
      BY FS_Singleton
    <3>3. QED
      BY <3>1, <3>2
  <2>2. tx' \subseteq Changes
    BY <1>2, <1>3
  <2>3. inbox' \in [Windows -> Seq(Changes)]
    BY <1>2, <1>3, SentReaches DEF IInv, TypeOK
  <2>4. QED
    BY <1>1, <1>3, <2>1, <2>2, <2>3 DEF IInv, TypeOK
<1>5. OneWriter'
  BY <1>2, <1>3 DEF OneWriter
<1>6. SendsTheRow'
  BY <1>1, <1>2, <1>3 DEF IInv, SendsTheRow, Waiting
<1>7. c.id \notin raced' /\ ~Waiting(c.id)' => Settled(c.id, c.version)'
  BY <1>3 DEF Settled
<1>8. \A j \in Ids \ {c.id} : j \notin raced' /\ ~Waiting(j)' =>
        /\ j \notin raced /\ ~Waiting(j)
        /\ \A u : Settled(j, u) => Settled(j, u)'
  BY <1>1, <1>2, <1>3 DEF Waiting, Settled
<1>9. LastEventTells' /\ StoreTells' /\ LoadsTell' /\ ListsItsOwn'
  BY <1>2, <1>3, <1>7, <1>8, Announced
<1>10. QED
  BY <1>4, <1>5, <1>6, <1>9 DEF IInv

\* The end of a transaction changes what the database holds to what it was
\* going to hold, or marks the model as raced.
LEMMA EndsInv ==
    ASSUME IInv, NEW c \in tx, Commit(c) \/ Rollback(c)
    PROVE  IInv'
<1>1. tx = {c} /\ tx' = {} /\ c \in Changes /\ c.id \in Ids /\ c.version \in Versions
  BY DEF IInv, TypeOK, OneWriter, Changes, Commit, Rollback
<1>2. /\ UNCHANGED <<last, unsent, inbox, store, active, loads, missed>>
      /\ \/ rows' = [rows EXCEPT ![c.id] = c.version] /\ raced' = raced
         \/ rows' = rows /\ raced' = raced \cup {c.id}
  BY DEF Commit, Rollback, window
<1>3. rows' \in [Ids -> Versions] /\ \A j \in Ids \ {c.id} : rows'[j] = rows[j]
  BY <1>1, <1>2 DEF IInv, TypeOK
<1>4. c.id \in raced' \/ (rows'[c.id] = c.version /\ raced' = raced)
  BY <1>1, <1>2 DEF IInv, TypeOK
<1>5. \A j \in Ids : j \notin raced' =>
        j \notin raced /\ \A v : Settled(j, v) => Settled(j, v)'
  <2>1. ASSUME NEW j \in Ids, j \notin raced' PROVE j \notin raced
    BY <1>2, <2>1
  <2>2. ASSUME NEW j \in Ids, j \notin raced', NEW v, Settled(j, v) PROVE Settled(j, v)'
    <3>1. CASE j = c.id
      BY <1>1, <1>4, <2>2, <3>1 DEF Settled
    <3>2. CASE j # c.id
      BY <1>1, <1>3, <2>2, <3>2 DEF Settled
    <3>3. QED
      BY <3>1, <3>2
  <2>3. QED
    BY <2>1, <2>2
<1>6. TypeOK'
  <2>1. Cardinality(tx') <= 1
    BY <1>1, FS_EmptySet
  <2>2. QED
    BY <1>1, <1>2, <1>3, <2>1 DEF IInv, TypeOK
<1>7. OneWriter'
  BY <1>1 DEF OneWriter
<1>8. SendsTheRow'
  <2>1. ASSUME NEW d \in unsent, d.id \notin raced' PROVE d.version = rows'[d.id]
    <3>1. d.id \in Ids /\ d.id \notin raced
      BY <1>5, <2>1 DEF IInv, TypeOK, Changes
    <3>2. d.id # c.id /\ d.version = rows[d.id]
      BY <2>1, <3>1 DEF IInv, SendsTheRow
    <3>3. QED
      BY <1>3, <3>1, <3>2
  <2>2. QED
    BY <1>1, <1>2, <2>1 DEF IInv, SendsTheRow
<1>9. LastEventTells'
  <2>1. ASSUME NEW w \in Windows, NEW k \in 1..Len(inbox[w])
        PROVE  inbox[w][k].id \in Ids
    BY ElementOfSeq DEF IInv, TypeOK, Changes
  <2>2. QED
    BY <1>2, <1>5, <2>1 DEF IInv, LastEventTells, Waiting
<1>10. StoreTells' /\ LoadsTell' /\ ListsItsOwn'
  BY <1>2, <1>5, WindowsKept DEF Coming, Waiting
<1>11. QED
  BY <1>6, <1>7, <1>8, <1>9, <1>10 DEF IInv

-----------------------------------------------------------------------------
(* Steps of a window. *)

\* What the database holds, and who waits, is not the window's.
LEMMA DbKept ==
    ASSUME UNCHANGED <<rows, unsent, tx, raced>>
    PROVE  \A i : /\ Waiting(i)' <=> Waiting(i)
                  /\ \A v : Settled(i, v)' <=> Settled(i, v)
BY DEF Waiting, Settled

\* What hearing an event about i of version v does to the answer of a load.
HeardLate(l, i, v) == IF l.snapshot[i] = v THEN l.late \ {i} ELSE l.late \cup {i}

LEMMA DeliverInv ==
    ASSUME IInv, NEW w \in Windows, Deliver(w)
    PROVE  IInv'
<1>1. PICK c : c = Head(inbox[w])
  OBVIOUS
<1>2. /\ UNCHANGED <<rows, last, unsent, tx, active, raced>>
      /\ inbox[w] # <<>> /\ inbox' = [inbox EXCEPT ![w] = Tail(inbox[w])]
      /\ store' = IF Ignored(w, c) THEN store ELSE [store EXCEPT ![w][c.id] = c.version]
      /\ missed' = IF Ignored(w, c) THEN missed
                   ELSE [missed EXCEPT ![w] = missed[w] \ {c.id}]
  BY <1>1 DEF Deliver, db
<1>3. /\ inbox \in [Windows -> Seq(Changes)] /\ loads \in [Windows -> SUBSET Loads]
      /\ store \in [Windows -> [Ids -> Versions]] /\ missed \in [Windows -> SUBSET Ids]
  BY DEF IInv, TypeOK
<1>4. inbox'[w] = Tail(inbox[w]) /\ inbox[w] \in Seq(Changes)
  BY <1>2, <1>3
<1>5. /\ c \in Changes /\ inbox'[w] \in Seq(Changes)
      /\ \A i : Has(inbox[w], i) <=> Has(inbox'[w], i) \/ c.id = i
      /\ 1 \in 1..Len(inbox[w]) /\ inbox[w][1] = c
      /\ ~Has(inbox'[w], c.id) => IsLast(inbox[w], 1)
      /\ \A k \in 1..Len(inbox'[w]) :
           /\ k + 1 \in 1..Len(inbox[w]) /\ inbox'[w][k] = inbox[w][k+1]
           /\ (IsLast(inbox'[w], k) => IsLast(inbox[w], k + 1))
  BY <1>1, <1>2, <1>4, TailLast
<1>6. c.id \in Ids /\ c.version \in Versions /\ c.source \in Sources
  BY <1>5 DEF Changes
<1>7. \A q \in Windows \ {w} : /\ inbox'[q] = inbox[q] /\ store'[q] = store[q]
                               /\ missed'[q] = missed[q]
  BY <1>2, <1>3
<1>8. \A i : \A q \in Windows :
        /\ q # w => (Coming(q, i)' <=> Coming(q, i))
        /\ q = w => (Coming(q, i) <=> Coming(q, i)' \/ c.id = i)
  BY <1>5, <1>7, ComingHas
<1>9. \A i : /\ Waiting(i)' <=> Waiting(i)
             /\ \A v : Settled(i, v)' <=> Settled(i, v)
  BY <1>2, DbKept
<1>10. ~Coming(w, c.id)' /\ ~Waiting(c.id) /\ c.id \notin raced => Settled(c.id, c.version)
  <2>1. ~Coming(w, c.id)' => IsLast(inbox[w], 1)
    BY <1>5, ComingHas
  <2>2. IsLast(inbox[w], 1) /\ ~Waiting(c.id) /\ c.id \notin raced => Settled(c.id, c.version)
    BY <1>5 DEF IInv, LastEventTells
  <2>3. QED
    BY <2>1, <2>2
\* the loads
<1>11. /\ loads' \in [Windows -> SUBSET Loads]
       /\ \A q \in Windows \ {w} : loads'[q] = loads[q]
       /\ \A m \in loads'[w] : \E l \in loads[w] :
            /\ m.n = l.n /\ m.workspace = l.workspace /\ m.snapshot = l.snapshot
            /\ l.snapshot # Asked => m.late = HeardLate(l, c.id, c.version)
  <2> DEFINE taken == {l \in loads[w] : l.snapshot # Asked}
             Late(l) == [l EXCEPT !.late = IF l.snapshot[c.id] = c.version
                                           THEN l.late \ {c.id} ELSE l.late \cup {c.id}]
  <2>1. loads' = [loads EXCEPT ![w] = (loads[w] \ taken) \cup {Late(l) : l \in taken}]
    BY <1>1 DEF Deliver
  <2>2. \A l \in Loads : /\ Late(l) \in Loads
                         /\ Late(l).n = l.n /\ Late(l).workspace = l.workspace
                         /\ Late(l).snapshot = l.snapshot
                         /\ Late(l).late = HeardLate(l, c.id, c.version)
    BY <1>6 DEF Loads, HeardLate
  <2>3. /\ loads'[w] = (loads[w] \ taken) \cup {Late(l) : l \in taken}
        /\ \A q \in Windows \ {w} : loads'[q] = loads[q]
    BY <1>3, <2>1
  <2>4. \A m \in loads'[w] : m \in Loads /\ \E l \in loads[w] :
            /\ m.n = l.n /\ m.workspace = l.workspace /\ m.snapshot = l.snapshot
            /\ l.snapshot # Asked => m.late = HeardLate(l, c.id, c.version)
    <3>1. ASSUME NEW m \in loads[w] \ taken
          PROVE  m \in Loads /\ m \in loads[w] /\ m.snapshot = Asked
      BY <1>3
    <3>2. ASSUME NEW l \in taken
          PROVE  /\ Late(l) \in Loads /\ l \in loads[w] /\ Late(l).n = l.n
                 /\ Late(l).workspace = l.workspace /\ Late(l).snapshot = l.snapshot
                 /\ Late(l).late = HeardLate(l, c.id, c.version)
      BY <1>3, <2>2
    <3> HIDE DEF taken, Late
    <3>3. \A m \in loads'[w] : m \in loads[w] \ taken \/ \E l \in taken : m = Late(l)
      BY <2>3
    <3>4. QED
      BY <3>1, <3>2, <3>3
  <2>5. QED
    BY <1>3, <2>1, <2>3, <2>4
<1>12. TypeOK'
  <2>1. inbox' \in [Windows -> Seq(Changes)]
    BY <1>2, <1>3, <1>4, <1>5
  <2>2. store' \in [Windows -> [Ids -> Versions]] /\ missed' \in [Windows -> SUBSET Ids]
    BY <1>2, <1>3, <1>6
  <2>3. \A q \in Windows : \A l \in loads'[q] : l.n <= MaxLoads[q]
    BY <1>11 DEF IInv, TypeOK
  <2>4. QED
    BY <1>2, <1>11, <2>1, <2>2, <2>3 DEF IInv, TypeOK
<1>13. OneWriter' /\ SendsTheRow'
  BY <1>2 DEF IInv, OneWriter, SendsTheRow
<1>14. LastEventTells'
  <2>1. ASSUME NEW q \in Windows, NEW k \in 1..Len(inbox'[q]), IsLast(inbox'[q], k),
               NEW i, NEW v, inbox'[q][k].id = i, inbox'[q][k].version = v,
               i \notin raced, ~Waiting(i)
        PROVE  Settled(i, v)
    <3>1. CASE q = w
      BY <1>5, <2>1, <3>1 DEF IInv, LastEventTells
    <3>2. CASE q # w
      BY <1>7, <2>1, <3>2 DEF IInv, LastEventTells
    <3>3. QED
      BY <3>1, <3>2
  <2>2. QED
    BY <1>2, <1>9, <2>1 DEF LastEventTells
<1>15. StoreTells'
  <2>1. ASSUME NEW q \in Windows, NEW i \in Listed(active[q]),
               i \notin raced, i \notin missed'[q], i \notin Private,
               ~Coming(q, i)', ~Waiting(i)
        PROVE  Settled(i, store'[q][i])
    <3>1. CASE q = w /\ i = c.id
      <4>1. ~Ignored(w, c)
        BY <2>1, <3>1 DEF Ignored
      <4>2. store'[w][i] = c.version
        BY <1>2, <1>3, <1>6, <3>1, <4>1
      <4>3. QED
        BY <1>10, <2>1, <3>1, <4>2
    <3>2. CASE q # w \/ i # c.id
      <4>1. ~Coming(q, i) /\ i \in Ids
        BY <1>8, <2>1, <3>2 DEF Listed
      <4>2. store'[q][i] = store[q][i] /\ i \notin missed[q]
        BY <1>2, <1>3, <1>6, <1>7, <2>1, <3>2, <4>1
      <4>3. i \in Promised(q, active[q], missed[q])
        BY <2>1, <4>1, <4>2 DEF Promised
      <4>4. QED
        BY <4>2, <4>3 DEF IInv, StoreTells
    <3>3. QED
      BY <3>1, <3>2
  <2>2. QED
    BY <1>2, <1>9, <2>1 DEF StoreTells, Promised, Listed
<1>16. LoadsTell'
  <2>1. ASSUME NEW q \in Windows, NEW m \in loads'[q], m.snapshot # Asked,
               NEW i \in Listed(m.workspace),
               i \notin raced, i \notin m.late, i \notin Private,
               ~Coming(q, i)', ~Waiting(i)
        PROVE  Settled(i, m.snapshot[i])
    <3>1. CASE q = w
      <4>1. PICK l \in loads[w] :
              /\ m.workspace = l.workspace /\ m.snapshot = l.snapshot
              /\ m.late = HeardLate(l, c.id, c.version)
        BY <1>11, <2>1, <3>1
      <4>2. CASE i = c.id
        <5>1. l.snapshot[i] = c.version
          BY <2>1, <4>1, <4>2 DEF HeardLate
        <5>2. QED
          BY <1>10, <2>1, <3>1, <4>1, <4>2, <5>1
      <4>3. CASE i # c.id
        <5>1. i \notin l.late /\ ~Coming(w, i)
          BY <1>8, <2>1, <3>1, <4>1, <4>3 DEF HeardLate
        <5>2. i \in Promised(w, l.workspace, l.late)
          BY <2>1, <4>1, <5>1 DEF Promised
        <5>3. QED
          BY <2>1, <4>1, <5>2 DEF IInv, LoadsTell
      <4>4. QED
        BY <4>2, <4>3
    <3>2. CASE q # w
      <4>1. m \in loads[q] /\ i \in Promised(q, m.workspace, m.late)
        BY <1>8, <1>11, <2>1, <3>2 DEF Promised
      <4>2. QED
        BY <2>1, <4>1 DEF IInv, LoadsTell
    <3>3. QED
      BY <3>1, <3>2
  <2>2. QED
    BY <1>2, <1>9, <2>1 DEF LoadsTell, Promised, Listed
<1>17. ListsItsOwn'
  BY <1>11 DEF IInv, ListsItsOwn, Listed
<1>18. QED
  BY <1>12, <1>13, <1>14, <1>15, <1>16, <1>17 DEF IInv

LEMMA ChangeWorkspaceInv ==
    ASSUME IInv, NEW w \in Windows, NEW workspace \in Workspaces, ChangeWorkspace(w, workspace)
    PROVE  IInv'
<1>1. PICK n \in 1..MaxLoads[w] :
        /\ loads' = [loads EXCEPT ![w] = loads[w] \cup
              {[n |-> n, workspace |-> workspace, snapshot |-> Asked, late |-> {}]}]
        /\ UNCHANGED <<rows, last, unsent, tx, inbox, store, active, raced, missed>>
  BY DEF ChangeWorkspace, db
<1> DEFINE new == [n |-> n, workspace |-> workspace, snapshot |-> Asked, late |-> {}]
<1>2. /\ new \in Loads /\ new.n <= MaxLoads[w] /\ new.snapshot = Asked
  BY <1>1, Bounds DEF Loads
<1> HIDE DEF new
<1>3. /\ loads' \in [Windows -> SUBSET Loads] /\ loads'[w] = loads[w] \cup {new}
      /\ \A q \in Windows \ {w} : loads'[q] = loads[q]
  BY <1>1, <1>2 DEF IInv, TypeOK, new
<1>4. \A q \in Windows : \A l \in loads'[q] :
        l \in loads[q] \/ (q = w /\ l.n <= MaxLoads[w] /\ l.snapshot = Asked)
  BY <1>2, <1>3
<1>5. TypeOK'
  BY <1>1, <1>3, <1>4 DEF IInv, TypeOK
<1>6. OneWriter' /\ SendsTheRow'
  BY <1>1 DEF IInv, OneWriter, SendsTheRow
<1>7. \A q, i : /\ Waiting(i)' <=> Waiting(i)
                /\ Coming(q, i)' <=> Coming(q, i)
                /\ \A v : Settled(i, v)' <=> Settled(i, v)
  BY <1>1 DEF Waiting, Coming, Settled
<1>8. LastEventTells'
  BY <1>1, <1>7 DEF IInv, LastEventTells
<1>9. StoreTells'
  BY <1>1, <1>7 DEF IInv, StoreTells, Promised, Listed
<1>10. LoadsTell'
  <2>1. ASSUME NEW q \in Windows, NEW l \in loads'[q], l.snapshot # Asked,
               NEW i \in Promised(q, l.workspace, l.late)
        PROVE  Settled(i, l.snapshot[i])
    BY <1>4, <2>1 DEF IInv, LoadsTell
  <2>2. QED
    BY <1>1, <1>7, <2>1 DEF LoadsTell, Promised, Listed
<1>11. ListsItsOwn'
  BY <1>4 DEF IInv, ListsItsOwn, Listed
<1>12. QED
  BY <1>5, <1>6, <1>8, <1>9, <1>10, <1>11 DEF IInv

LEMMA ListModelsInv ==
    ASSUME IInv, NEW w \in Windows, NEW l \in loads[w], ListModels(w, l)
    PROVE  IInv'
<1> DEFINE late == {c.id : c \in {d \in tx : ~Coming(w, d.id)}}
<1>1. l \in Loads /\ loads \in [Windows -> SUBSET Loads]
  BY DEF IInv, TypeOK
<1>2. Snapshot(l.workspace) \in [Ids -> Versions] /\ late \subseteq Ids
  BY Bounds DEF IInv, TypeOK, Snapshot, Listed, Changes, Versions
<1>3. PICK new \in Loads :
        /\ new.n = l.n /\ new.workspace = l.workspace
        /\ new.snapshot = Snapshot(l.workspace) /\ new.late = late
        /\ loads' = [loads EXCEPT ![w] = (loads[w] \ {l}) \cup {new}]
  BY <1>1, <1>2 DEF ListModels, Loads
<1>4. UNCHANGED <<rows, last, unsent, tx, inbox, store, active, raced, missed>>
  BY DEF ListModels, db
<1>5. /\ loads' \in [Windows -> SUBSET Loads] /\ loads'[w] = (loads[w] \ {l}) \cup {new}
      /\ \A q \in Windows \ {w} : loads'[q] = loads[q]
  BY <1>1, <1>3
<1>6. \A q \in Windows : \A m \in loads'[q] : m \in loads[q] \/ (q = w /\ m = new)
  BY <1>5
<1>7. TypeOK'
  <2>1. new.n <= MaxLoads[w]
    BY <1>3 DEF IInv, TypeOK
  <2>2. \A q \in Windows : \A m \in loads'[q] : m.n <= MaxLoads[q]
    BY <1>6, <2>1 DEF IInv, TypeOK
  <2>3. QED
    BY <1>4, <1>5, <2>2 DEF IInv, TypeOK
<1>8. OneWriter' /\ SendsTheRow'
  BY <1>4 DEF IInv, OneWriter, SendsTheRow
<1>9. \A q, i : /\ Waiting(i)' <=> Waiting(i)
                /\ Coming(q, i)' <=> Coming(q, i)
                /\ \A v : Settled(i, v)' <=> Settled(i, v)
  BY <1>4 DEF Waiting, Coming, Settled
<1>10. LastEventTells'
  BY <1>4, <1>9 DEF IInv, LastEventTells
<1>11. StoreTells'
  BY <1>4, <1>9 DEF IInv, StoreTells, Promised, Listed
<1>12. \A i \in Ids : /\ i \in Listed(l.workspace) => new.snapshot[i] = rows[i]
                      /\ i \notin Listed(l.workspace) => new.snapshot[i] = 0
  BY <1>3 DEF Snapshot
<1>13. LoadsTell'
  <2>1. ASSUME NEW i \in Promised(w, new.workspace, new.late)
        PROVE  Settled(i, new.snapshot[i])
    <3>1. i \in Ids /\ i \in Listed(l.workspace) /\ ~Coming(w, i) /\ i \notin late
      BY <1>3, <2>1 DEF Promised, Listed
    <3>2. \A c \in tx : c.id # i
      BY <3>1
    <3>3. QED
      BY <1>12, <3>1, <3>2 DEF Settled
  <2>2. ASSUME NEW q \in Windows, NEW m \in loads'[q], m.snapshot # Asked,
               NEW i \in Promised(q, m.workspace, m.late)
        PROVE  Settled(i, m.snapshot[i])
    BY <1>6, <2>1, <2>2 DEF IInv, LoadsTell
  <2>3. QED
    BY <1>4, <1>9, <2>2 DEF LoadsTell, Promised, Listed
<1>14. ListsItsOwn'
  <2>1. \A i \in Ids \ Listed(new.workspace) : new.snapshot[i] = 0
    BY <1>3, <1>12
  <2>2. QED
    BY <1>6, <2>1 DEF IInv, ListsItsOwn, Listed
<1>15. QED
  BY <1>7, <1>8, <1>10, <1>11, <1>13, <1>14 DEF IInv

LEMMA InstallInv ==
    ASSUME IInv, NEW w \in Windows, NEW l \in loads[w], Install(w, l)
    PROVE  IInv'
<1>1. l \in Loads /\ l.snapshot # Asked /\ loads \in [Windows -> SUBSET Loads]
  BY DEF IInv, TypeOK, Install
<1>2. l.snapshot \in [Ids -> Versions] /\ l.workspace \in Workspaces \cup {Global}
      /\ l.late \in SUBSET Ids
  BY <1>1 DEF Loads
<1>3. /\ store' = [store EXCEPT ![w] = l.snapshot] /\ active' = [active EXCEPT ![w] = l.workspace]
      /\ missed' = [missed EXCEPT ![w] = l.late] /\ loads' = [loads EXCEPT ![w] = loads[w] \ {l}]
      /\ UNCHANGED <<rows, last, unsent, tx, inbox, raced>>
  BY DEF Install, db
<1>4. \A q \in Windows : loads'[q] \subseteq loads[q]
  BY <1>1, <1>3
<1>5. TypeOK'
  BY <1>1, <1>2, <1>3, <1>4 DEF IInv, TypeOK
<1>6. OneWriter' /\ SendsTheRow'
  BY <1>3 DEF IInv, OneWriter, SendsTheRow
<1>7. \A q, i : /\ Waiting(i)' <=> Waiting(i)
                /\ Coming(q, i)' <=> Coming(q, i)
                /\ \A v : Settled(i, v)' <=> Settled(i, v)
  BY <1>3 DEF Waiting, Coming, Settled
<1>8. LastEventTells'
  BY <1>3, <1>7 DEF IInv, LastEventTells
<1>9. StoreTells'
  <2>1. ASSUME NEW q \in Windows, NEW i \in Promised(q, active'[q], missed'[q])
        PROVE  Settled(i, store'[q][i])
    <3>1. CASE q = w
      <4>1. active'[w] = l.workspace /\ missed'[w] = l.late /\ store'[w] = l.snapshot
        BY <1>3 DEF IInv, TypeOK
      <4>2. QED
        BY <1>1, <2>1, <3>1, <4>1 DEF IInv, LoadsTell
    <3>2. CASE q # w
      <4>1. active'[q] = active[q] /\ missed'[q] = missed[q] /\ store'[q] = store[q]
        BY <1>3, <3>2 DEF IInv, TypeOK
      <4>2. QED
        BY <2>1, <4>1 DEF IInv, StoreTells
    <3>3. QED
      BY <3>1, <3>2
  <2>2. QED
    BY <1>3, <1>7, <2>1 DEF StoreTells, Promised, Listed
<1>10. LoadsTell'
  BY <1>3, <1>4, <1>7 DEF IInv, LoadsTell, Promised, Listed
<1>11. ListsItsOwn'
  BY <1>4 DEF IInv, ListsItsOwn, Listed
<1>12. QED
  BY <1>5, <1>6, <1>8, <1>9, <1>10, <1>11 DEF IInv

-----------------------------------------------------------------------------
(* The theorems. *)

LEMMA NextInv == IInv /\ [Next]_vars => IInv'
<1> SUFFICES ASSUME IInv, [Next]_vars PROVE IInv'
  OBVIOUS
<1>1. CASE \E s \in Sources, i \in Ids : Upsert(s, i)
  BY <1>1, UpsertInv
<1>2. CASE \E s \in Sources, i \in Ids : \E v \in {0, last + 1} : Transact(s, i, v)
  BY <1>2, TransactInv
<1>3. CASE \E c \in unsent : Send(c)
  BY <1>3, SendInv
<1>4. CASE \E c \in tx : Commit(c) \/ Rollback(c)
  BY <1>4, EndsInv
<1>5. CASE \E w \in Windows :
             \/ Deliver(w)
             \/ \E workspace \in Workspaces : ChangeWorkspace(w, workspace)
             \/ \E l \in loads[w] : ListModels(w, l) \/ Install(w, l)
  BY <1>5, DeliverInv, ChangeWorkspaceInv, ListModelsInv, InstallInv
<1>6. CASE UNCHANGED vars
  <2>1. UNCHANGED <<rows, last, unsent, tx, inbox, store, active, loads, raced, missed>>
    BY <1>6 DEF vars, db, window
  <2>2. TypeOK' /\ OneWriter' /\ SendsTheRow'
    BY <2>1 DEF IInv, TypeOK, OneWriter, SendsTheRow
  <2>3. LastEventTells' /\ StoreTells' /\ LoadsTell' /\ ListsItsOwn'
    BY <2>1 DEF IInv, LastEventTells, StoreTells, LoadsTell, ListsItsOwn, Promised, Listed,
                Waiting, Coming, Settled
  <2>4. QED
    BY <2>2, <2>3 DEF IInv
<1>7. QED
  BY <1>1, <1>2, <1>3, <1>4, <1>5, <1>6 DEF Next

\* The inductive invariant holds in every reachable state.
THEOREM Invariance == Spec => []IInv
<1>1. QED
  BY InitInv, NextInv, PTL DEF Spec

\* Type correctness, with at most one transaction open.
THEOREM TypeCorrect == Spec => []TypeOK
<1>1. IInv => TypeOK
  BY DEF IInv
<1>2. QED
  BY <1>1, Invariance, PTL

\* Once no event about a model is on its way to a window, the window shows it
\* as the database holds it.
THEOREM WindowsShowTheRows == Spec => []ShowsTheRows
<1>1. IInv => ShowsTheRows
  <2> SUFFICES ASSUME IInv, NEW w \in Windows,
                      NEW i \in Listed(active[w]) \ (raced \cup missed[w] \cup Private),
                      ~OnItsWay(w, i)
               PROVE  store[w][i] = rows[i]
    BY DEF ShowsTheRows
  <2>1. i \in Promised(w, active[w], missed[w]) /\ \A c \in tx : c.id # i
    BY DEF OnItsWay, Promised, Waiting
  <2>2. QED
    BY <2>1 DEF IInv, StoreTells, Settled
<1>2. QED
  BY <1>1, Invariance, PTL

\* A model of another workspace gets into a window's store only by a change of
\* its own or of the background.
THEOREM ForeignModelsStayOut == Spec => NoForeignModels
<1> DEFINE Own == \A w \in Windows, i \in Ids :
                    /\ store'[w][i] \notin {0, store[w][i]}
                    /\ HomeOf[i] \notin {Global, active'[w]}
                    => Head(inbox[w]).source \in {w, Background}
<1>1. IInv /\ [Next]_vars => [Own]_vars
  <2> SUFFICES ASSUME IInv, Next PROVE Own
    OBVIOUS
  <2>1. ASSUME NEW q \in Windows, Deliver(q) PROVE Own
    <3>1. PICK c : c = Head(inbox[q])
      OBVIOUS
    <3>2. /\ store' = IF Ignored(q, c) THEN store ELSE [store EXCEPT ![q][c.id] = c.version]
          /\ active' = active /\ inbox[q] # <<>>
      BY <2>1, <3>1 DEF Deliver
    <3>3. c \in Changes /\ c.source \in Sources /\ store \in [Windows -> [Ids -> Versions]]
      <4>1. inbox[q] \in Seq(Changes)
        BY DEF IInv, TypeOK
      <4>2. c \in Changes
        BY <3>1, <3>2, <4>1, HeadTailProperties
      <4>3. QED
        BY <4>2 DEF IInv, TypeOK, Changes
    <3>4. ASSUME NEW w \in Windows, NEW i \in Ids, store'[w][i] # store[w][i]
          PROVE  w = q /\ i = c.id /\ ~Ignored(q, c)
      BY <3>2, <3>3, <3>4
    <3>5. ASSUME ~Ignored(q, c), HomeOf[c.id] \notin {Global, active[q]}
          PROVE  c.source \in {q, Background}
      BY <3>3, <3>5 DEF Ignored, Listed, Sources
    <3>6. QED
      BY <3>1, <3>2, <3>4, <3>5
  <2>2. ASSUME NEW q \in Windows, NEW l \in loads[q], Install(q, l) PROVE Own
    <3>1. /\ store' = [store EXCEPT ![q] = l.snapshot] /\ active' = [active EXCEPT ![q] = l.workspace]
          /\ l.snapshot # Asked
      BY <2>2 DEF Install
    <3>2. \A i \in Ids : HomeOf[i] \notin {Global, l.workspace} => l.snapshot[i] = 0
      BY <3>1 DEF IInv, ListsItsOwn, Listed
    <3>3. QED
      BY <3>1, <3>2 DEF IInv, TypeOK
  <2>3. ASSUME \/ \E s \in Sources, i \in Ids : Upsert(s, i)
               \/ \E s \in Sources, i \in Ids : \E v \in {0, last + 1} : Transact(s, i, v)
               \/ \E c \in unsent : Send(c)
               \/ \E c \in tx : Commit(c) \/ Rollback(c)
               \/ \E w \in Windows : \E workspace \in Workspaces : ChangeWorkspace(w, workspace)
               \/ \E w \in Windows : \E l \in loads[w] : ListModels(w, l)
        PROVE  Own
    <3>1. UNCHANGED store
      BY <2>3 DEF Upsert, Transact, Send, Commit, Rollback, ChangeWorkspace, ListModels, window
    <3>2. QED
      BY <3>1
  <2>4. QED
    BY <2>1, <2>2, <2>3 DEF Next
<1>2. QED
  BY <1>1, Invariance, PTL DEF Spec, NoForeignModels

=============================================================================
