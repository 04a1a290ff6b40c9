---------------------------- MODULE PluginsProofs ----------------------------
(***************************************************************************)
(* Theorems about Plugins, for every number of plugins, directories and    *)
(* calls and every capacity of the monitor's channel.                      *)
(*                                                                         *)
(* The inductive invariant follows an event of a call to the plugin that   *)
(* it was put to.  A plugin can still answer a call while the event is on  *)
(* its way, or its code at work on it; it is put to it once, and has not   *)
(* answered before.  A handle has an instance from the answer to its boot  *)
(* until a stop, and whoever stops it waits until it is off the registry.  *)
(***************************************************************************)
EXTENDS Plugins, SequenceTheorems, FiniteSetTheorems, TLAPS

\* an event that makes a plugin work and answer
Primary(e) == e.type \in {"boot", "stop", "list", "run"}

\* position k of the queue has such an event for handle p, of call c
IsFor(q, k, p, c) == Primary(q[k]) /\ q[k].ref = p /\ q[k].of = c
OnWay(q, p, c) == \E k \in 1..Len(q) : IsFor(q, k, p, c)
StopOnWay(q, p, c) == \E k \in 1..Len(q) : q[k].type = "stop" /\ q[k].ref = p /\ q[k].of = c

\* Each is sent once.
Once(q) ==
    \A p \in Refs, c \in Calls : \A k, m \in 1..Len(q) :
        IsFor(q, k, p, c) /\ IsFor(q, m, p, c) => k = m

AtWork(p, c) == job[<<p, c>>] \in {"fresh", "asking", "resumed", "disposing"}

\* p may still answer c
Pending(p, c) == OnWay(toPlugin, p, c) \/ AtWork(p, c)

Stopping(p, c) == StopOnWay(toPlugin, p, c) \/ job[<<p, c>>] = "disposing"

\* the handles whose answer c holds
Answered(c) == {call[c].got[i] : i \in DOMAIN call[c].got}

\* A call that has not begun has nothing, and one that queues for the lock has
\* nothing left under way.
Beginnings ==
    \A c \in Calls :
        /\ call[c].at = "idle" =>
              /\ call[c].kind = None /\ call[c].asked = {} /\ call[c].got = <<>>
              /\ \A p \in Refs : job[<<p, c>>] = "none" /\ ~OnWay(toPlugin, p, c)
        /\ call[c].at = "queued" => /\ call[c].kind = "boot"
                                    /\ \A p \in Refs : ~Pending(p, c)

\* Handles that may have been registered: those of the start, and those of a
\* call that has come to its end.
WasRegistered(p) == p \in Built \/ (p \in Calls /\ call[p].at = "done")

\* A handle that is booting has heard nothing but its boot.
Newcomers ==
    /\ \A p \in plugins : WasRegistered(p)
    /\ \A p \in Refs, c \in Calls :
         OnWay(toPlugin, p, c) \/ job[<<p, c>>] # "none" =>
            WasRegistered(p) \/ (p = c /\ call[c].kind = "boot" /\ call[c].at # "queued")

\* A plugin is put to a call once.
PutOnce ==
    /\ Once(toPlugin)
    /\ \A p \in Refs, c \in Calls : OnWay(toPlugin, p, c) => job[<<p, c>>] = "none"

\* What a call holds are answers of plugins it asked, one of each; those that
\* may still answer are others of them.
Answers ==
    \A c \in Calls :
        /\ IsFiniteSet(call[c].asked) /\ Answered(c) \subseteq call[c].asked
        /\ Cardinality(Answered(c)) = Len(call[c].got)
        /\ \A p \in Refs : Pending(p, c) =>
              /\ p \notin Answered(c)
              /\ p \in call[c].asked \/ call[c].kind = "tell"

\* A call waits until as many have answered as it asked.
Waits ==
    \A c \in Calls :
        /\ call[c].at = "waiting" =>
              call[c].asked = {} \/ Len(call[c].got) # Cardinality(call[c].asked)
        /\ call[c].at = "matched" => Len(call[c].got) = Cardinality(call[c].asked)
        /\ call[c].at \in {"waiting", "matched"} => call[c].kind \in Kinds \ {"tell"}

\* A plugin that is being stopped is so by a call that waits for it.
Stops ==
    \A p \in Refs, c \in Calls : Stopping(p, c) =>
        /\ call[c].kind \in {"uninstall", "reload"} /\ call[c].at = "waiting"
        /\ call[c].asked = {p} /\ WasRegistered(p)

\* A boot asks its own handle, which has an instance once it has heard of it.
Boots ==
    \A c \in Calls : call[c].kind = "boot" /\ call[c].at \in {"waiting", "matched"} =>
        /\ call[c].asked = {c}
        /\ job[<<c, c>>] # "none" \/ call[c].got # <<>> => c \in runtime

IInv ==
    /\ TypeOK /\ IsFiniteSet(plugins) /\ RegistryIsSound
    /\ Beginnings /\ Newcomers /\ PutOnce /\ Answers /\ Waits /\ Stops /\ Boots

-----------------------------------------------------------------------------
(* Events on their way. *)

\* SetToSeq lists a finite set, each element once.
LEMMA SetToSeqLists ==
    ASSUME NEW S, IsFiniteSet(S)
    PROVE  /\ Cardinality(S) \in Nat /\ SetToSeq(S) \in [1..Cardinality(S) -> S]
           /\ \A i, k \in 1..Cardinality(S) : SetToSeq(S)[i] = SetToSeq(S)[k] => i = k
<1>1. PICK n \in Nat : ExistsBijection(1..n, S)
  BY FS_NatBijection
<1>2. Cardinality(S) = n
  BY <1>1, FS_CountingElements
<1>3. \E f \in [1..Cardinality(S) -> S] : IsInjective(f)
  BY <1>1, <1>2 DEF ExistsBijection, Bijection, Injection
<1>4. SetToSeq(S) \in [1..Cardinality(S) -> S] /\ IsInjective(SetToSeq(S))
  BY <1>3 DEF SetToSeq
<1>5. QED
  BY <1>2, <1>4 DEF IsInjective

EventTypes == {"boot", "stop", "list", "run", "reply", "answer", "error", "request", "noise"}

LEMMA EventIsEvent ==
    ASSUME NEW type \in EventTypes, NEW p \in Refs, NEW c \in Calls
    PROVE  /\ Event(type, p, c) \in Events
           /\ Event(type, p, c).type = type /\ Event(type, p, c).ref = p
           /\ Event(type, p, c).of = c
BY DEF Event, Events, EventTypes

\* What is sent goes to the end of the queue, once to each handle.
LEMMA Sends ==
    ASSUME toPlugin \in Seq(Events), NEW ps \in SUBSET Refs, IsFiniteSet(ps),
           NEW type \in EventTypes, NEW c \in Calls, SendTo(ps, type, c)
    PROVE  /\ toPlugin' \in Seq(Events)
           /\ \A p \in Refs, d \in Calls : OnWay(toPlugin', p, d) =>
                OnWay(toPlugin, p, d) \/ (p \in ps /\ d = c /\ type \in {"boot", "stop", "list", "run"})
           /\ \A p \in Refs, d \in Calls : StopOnWay(toPlugin', p, d) =>
                StopOnWay(toPlugin, p, d) \/ (p \in ps /\ d = c /\ type = "stop")
           /\ Once(toPlugin) /\ (type = "reply" \/ \A p \in ps : ~OnWay(toPlugin, p, c))
                => Once(toPlugin')
<1> DEFINE n == Cardinality(ps)
           f == SetToSeq(ps)
           new == [i \in 1..n |-> Event(type, f[i], c)]
           L == Len(toPlugin)
<1>1. /\ n \in Nat /\ f \in [1..n -> ps]
      /\ \A i, k \in 1..n : f[i] = f[k] => i = k
  BY SetToSeqLists
<1>2. /\ new \in Seq(Events) /\ Len(new) = n /\ \A i \in 1..n : new[i] = Event(type, f[i], c)
  <2>1. \A i \in 1..n : Event(type, f[i], c) \in Events
    BY <1>1, EventIsEvent
  <2>2. QED
    BY <1>1, <2>1
<1>3. toPlugin' = toPlugin \o new
  BY DEF SendTo
<1> HIDE DEF n, f, new
<1>4. L \in Nat /\ toPlugin' \in Seq(Events) /\ Len(toPlugin') = L + n
  <2>1. L \in Nat
    BY LenProperties
  <2>2. toPlugin \o new \in Seq(Events) /\ Len(toPlugin \o new) = Len(toPlugin) + Len(new)
    BY <1>2, ConcatProperties
  <2>3. QED
    BY <1>2, <1>3, <2>1, <2>2
<1>5. \A k \in 1..L : toPlugin'[k] = toPlugin[k]
  BY <1>1, <1>2, <1>3, <1>4, LenProperties, ConcatProperties
<1>6. \A k \in 1..(L + n) : k \in 1..L \/ (k - L \in 1..n /\ toPlugin'[k] = new[k - L])
  BY <1>1, <1>2, <1>3, <1>4, LenProperties, ConcatProperties
<1>7. \A k \in 1..(L + n) : k \in 1..L \/
        /\ k - L \in 1..n /\ toPlugin'[k].type = type /\ toPlugin'[k].of = c
        /\ toPlugin'[k].ref = f[k - L] /\ f[k - L] \in ps
  BY <1>1, <1>2, <1>6, EventIsEvent
<1>8. ASSUME NEW p \in Refs, NEW d \in Calls, OnWay(toPlugin', p, d)
      PROVE  OnWay(toPlugin, p, d) \/ (p \in ps /\ d = c /\ type \in {"boot", "stop", "list", "run"})
  BY <1>4, <1>5, <1>7, <1>8 DEF OnWay, IsFor, Primary
<1>9. ASSUME NEW p \in Refs, NEW d \in Calls, StopOnWay(toPlugin', p, d)
      PROVE  StopOnWay(toPlugin, p, d) \/ (p \in ps /\ d = c /\ type = "stop")
  BY <1>4, <1>5, <1>7, <1>9 DEF StopOnWay
<1>10. ASSUME Once(toPlugin), type = "reply" \/ \A p \in ps : ~OnWay(toPlugin, p, c)
       PROVE  Once(toPlugin')
  <2> SUFFICES ASSUME NEW p \in Refs, NEW d \in Calls,
                      NEW k \in 1..(L + n), NEW m \in 1..(L + n),
                      IsFor(toPlugin', k, p, d), IsFor(toPlugin', m, p, d)
               PROVE  k = m
    BY <1>4 DEF Once
  <2>1. CASE k \in 1..L /\ m \in 1..L
    BY <1>5, <1>10, <2>1 DEF Once, IsFor, Primary
  <2>2. CASE k \notin 1..L /\ m \notin 1..L
    <3>1. k - L = m - L
      BY <1>1, <1>7, <2>2 DEF IsFor
    <3>2. QED
      BY <1>1, <1>4, <3>1
  <2>3. ASSUME NEW a \in 1..L, NEW b \in 1..(L + n), b \notin 1..L,
               IsFor(toPlugin', a, p, d), IsFor(toPlugin', b, p, d)
        PROVE  FALSE
    <3>1. p \in ps /\ d = c /\ type # "reply"
      BY <1>7, <2>3 DEF IsFor, Primary
    <3>2. OnWay(toPlugin, p, c)
      BY <1>5, <2>3, <3>1 DEF OnWay, IsFor, Primary
    <3>3. QED
      BY <1>10, <3>1, <3>2
  <2>4. QED
    BY <2>1, <2>2, <2>3
<1>11. QED
  BY <1>4, <1>8, <1>9, <1>10

\* The event that the runtime takes has left the queue.
LEMMA Takes ==
    ASSUME toPlugin \in Seq(Events), toPlugin # <<>>, toPlugin' = Tail(toPlugin)
    PROVE  LET e == Head(toPlugin)
           IN  /\ e \in Events /\ toPlugin' \in Seq(Events)
               /\ \A p \in Refs, c \in Calls :
                    /\ OnWay(toPlugin', p, c) => OnWay(toPlugin, p, c)
                    /\ StopOnWay(toPlugin', p, c) => StopOnWay(toPlugin, p, c)
               /\ Primary(e) => OnWay(toPlugin, e.ref, e.of)
               /\ e.type = "stop" => StopOnWay(toPlugin, e.ref, e.of)
               /\ Once(toPlugin) => Once(toPlugin')
               /\ Once(toPlugin) /\ Primary(e) => ~OnWay(toPlugin', e.ref, e.of)
<1>1. PICK e : e = Head(toPlugin)
  OBVIOUS
<1>2. PICK q : q = Tail(toPlugin)
  OBVIOUS
<1>3. /\ Len(toPlugin) \in Nat /\ e \in Events /\ q \in Seq(Events)
      /\ Len(q) = Len(toPlugin) - 1 /\ Len(q) \in Nat
      /\ \A k \in 1..Len(q) : q[k] = toPlugin[k + 1]
  BY <1>1, <1>2, LenProperties, EmptySeq, HeadTailProperties
<1>4. 1 \in 1..Len(toPlugin) /\ toPlugin[1] = e
  BY <1>1, <1>3
<1>5. \A k \in 1..Len(q) : k + 1 \in 1..Len(toPlugin) /\ k + 1 # 1
  BY <1>3
<1>6. \A p \in Refs, c \in Calls : /\ OnWay(q, p, c) => OnWay(toPlugin, p, c)
                                   /\ StopOnWay(q, p, c) => StopOnWay(toPlugin, p, c)
  BY <1>3, <1>5 DEF OnWay, StopOnWay, IsFor, Primary
<1>7. Primary(e) => OnWay(toPlugin, e.ref, e.of)
  BY <1>4 DEF OnWay, IsFor, Primary
<1>8. e.type = "stop" => StopOnWay(toPlugin, e.ref, e.of)
  BY <1>4 DEF StopOnWay
<1>9. ASSUME Once(toPlugin) PROVE Once(q)
  <2>1. ASSUME NEW p \in Refs, NEW c \in Calls, NEW k \in 1..Len(q), NEW m \in 1..Len(q),
               IsFor(q, k, p, c), IsFor(q, m, p, c)
        PROVE  k = m
    <3>1. IsFor(toPlugin, k + 1, p, c) /\ IsFor(toPlugin, m + 1, p, c)
      BY <1>3, <2>1 DEF IsFor, Primary
    <3>2. k + 1 = m + 1
      BY <1>5, <1>9, <3>1 DEF Once
    <3>3. QED
      BY <1>3, <3>2
  <2>2. QED
    BY <2>1 DEF Once
<1>10. ASSUME Once(toPlugin), Primary(e), OnWay(q, e.ref, e.of) PROVE FALSE
  <2>1. PICK k \in 1..Len(q) : IsFor(q, k, e.ref, e.of)
    BY <1>10 DEF OnWay
  <2>2. IsFor(toPlugin, k + 1, e.ref, e.of) /\ IsFor(toPlugin, 1, e.ref, e.of)
    BY <1>3, <1>4, <1>10, <2>1 DEF IsFor, Primary
  <2>3. e.ref \in Refs /\ e.of \in Calls
    BY <1>3 DEF Events
  <2>4. QED
    BY <1>4, <1>5, <1>10, <2>2, <2>3 DEF Once
<1>11. QED
  BY <1>1, <1>2, <1>3, <1>6, <1>7, <1>8, <1>9, <1>10

-----------------------------------------------------------------------------
(* Steps of the application. *)

LEMMA InitInv == Init => IInv
<1> SUFFICES ASSUME Init PROVE IInv
  OBVIOUS
<1>1. /\ plugins = Built /\ runtime = Built /\ booter = None /\ disturbed = FALSE
      /\ toPlugin = <<>> /\ inbox = <<>>
      /\ \A j \in Jobs : job[j] = "none" /\ handler[j] = "none"
      /\ \A c \in Calls : call[c] = NoCall
  BY DEF Init
<1>2. Len(<<>>) = 0 /\ \A S : <<>> \in Seq(S)
  BY EmptySeq
<1>3. NoCall \in CallRecord
  BY <1>2 DEF NoCall, CallRecord
<1>4. TypeOK
  <2>1. call \in [Calls -> CallRecord] /\ toPlugin \in Seq(Events) /\ inbox \in Seq(Events)
    BY <1>1, <1>2, <1>3 DEF Init
  <2>2. Len(inbox) <= Capacity
    BY <1>1, <1>2, CapacityPositive
  <2>3. QED
    BY <1>1, <2>1, <2>2 DEF Init, TypeOK, Refs
<1>5. \A p, c : ~OnWay(toPlugin, p, c) /\ ~StopOnWay(toPlugin, p, c)
  BY <1>1, <1>2 DEF OnWay, StopOnWay
<1>6. IsFiniteSet(plugins) /\ RegistryIsSound
  BY <1>1, BuiltFinite DEF RegistryIsSound, OnePerDir, RegisteredIsLive, DirIs
<1>7. Once(toPlugin)
  BY <1>1, <1>2 DEF Once
<1>8. \A p \in Refs, c \in Calls : <<p, c>> \in Jobs
  BY DEF Jobs
<1>9. \A c \in Calls : Answered(c) = {}
  BY <1>1 DEF Answered, NoCall
<1>10. Beginnings /\ Newcomers /\ PutOnce
  BY <1>1, <1>5, <1>7, <1>8 DEF Beginnings, Newcomers, PutOnce, WasRegistered, NoCall
<1>11. Answers
  <2>1. \A p \in Refs, c \in Calls : ~Pending(p, c)
    BY <1>1, <1>5, <1>8 DEF Pending, AtWork
  <2>2. Cardinality({}) = 0 /\ IsFiniteSet({})
    BY FS_EmptySet
  <2>3. \A c \in Calls : call[c].asked = {} /\ call[c].got = <<>>
    BY <1>1 DEF NoCall
  <2>4. Len(<<>>) = 0
    BY <1>2
  <2>5. QED
    BY <1>9, <2>1, <2>2, <2>3, <2>4 DEF Answers
<1>12. Waits /\ Stops /\ Boots
  BY <1>1, <1>5, <1>8 DEF Waits, Stops, Stopping, Boots, NoCall
<1>13. QED
  BY <1>4, <1>6, <1>10, <1>11, <1>12 DEF IInv

\* A call that asks plugins which have not heard of it keeps the invariant.
LEMMA AsksKeeps ==
    ASSUME IInv, NEW c \in Calls, call[c].at \in {"idle", "queued"},
           NEW kind \in {"ask", "boot", "uninstall", "reload"}, NEW dir \in Dirs \cup {None},
           NEW ps \in SUBSET Refs, IsFiniteSet(ps), NEW type \in {"boot", "stop", "list", "run"},
           Request(c, kind, dir, ps, type),
           \A p \in ps : /\ job[<<p, c>>] = "none" /\ ~OnWay(toPlugin, p, c)
                         /\ WasRegistered(p) \/ (p = c /\ kind = "boot"),
           kind = "boot" => ps = {c} /\ ~WasRegistered(c),
           type = "stop" => /\ kind \in {"uninstall", "reload"}
                            /\ \E p \in Refs : ps = {p} /\ WasRegistered(p),
           UNCHANGED <<plugins, runtime, job, inbox, disturbed>>,
           booter' \in Calls \cup {None},
           handler' \in [Jobs -> {"none", "running", "over"} \cup Calls]
    PROVE  IInv'
<1>1. /\ toPlugin' \in Seq(Events) /\ Once(toPlugin')
      /\ \A p \in Refs, d \in Calls : OnWay(toPlugin', p, d) =>
            OnWay(toPlugin, p, d) \/ (p \in ps /\ d = c)
      /\ \A p \in Refs, d \in Calls : StopOnWay(toPlugin', p, d) =>
            StopOnWay(toPlugin, p, d) \/ (p \in ps /\ d = c /\ type = "stop")
  <2>1. toPlugin \in Seq(Events) /\ type \in EventTypes /\ SendTo(ps, type, c) /\ Once(toPlugin)
    BY DEF IInv, TypeOK, EventTypes, Request, PutOnce
  <2>2. \A p \in ps : ~OnWay(toPlugin, p, c)
    OBVIOUS
  <2>3. QED
    BY <2>1, <2>2, Sends
<1>2. /\ call' \in [Calls -> CallRecord]
      /\ \A d \in Calls \ {c} : call'[d] = call[d]
      /\ call'[c].kind = kind /\ call'[c].dir = dir /\ call'[c].at = "waiting"
      /\ call'[c].asked = ps /\ call'[c].got = <<>>
  BY EmptySeq DEF IInv, TypeOK, Request, CallRecord, Kinds
<1>3. ~WasRegistered(c) /\ c \notin plugins /\ c \notin Built
  BY CallsAndHandles DEF IInv, Newcomers, WasRegistered
<1>4. \A p : WasRegistered(p)' <=> WasRegistered(p)
  BY <1>2, <1>3 DEF WasRegistered
<1>5. TypeOK'
  BY <1>1, <1>2 DEF IInv, TypeOK
<1>6. RegistryIsSound'
  <2>1. \A p \in plugins : DirIs(p)' = DirIs(p)
    <3>1. \A p \in plugins : p \in Built \/ p \in Calls \ {c}
      BY <1>3 DEF IInv, TypeOK, Refs
    <3>2. QED
      BY <1>2, <3>1 DEF DirIs
  <2>2. \A p \in plugins : BeingStopped(p) => BeingStopped(p)'
    <3>1. ASSUME NEW p \in plugins, NEW d \in Calls,
                 call[d].kind \in {"uninstall", "reload"}, call[d].at \in {"waiting", "matched"},
                 p \in call[d].asked
          PROVE  call'[d] = call[d]
      BY <1>2, <3>1
    <3>2. QED
      BY <3>1 DEF BeingStopped
  <2>3. QED
    BY <2>1, <2>2 DEF IInv, RegistryIsSound, OnePerDir, RegisteredIsLive
<1>7. Beginnings'
  <2>1. ASSUME NEW d \in Calls \ {c}
        PROVE  \A p \in Refs : /\ OnWay(toPlugin', p, d) => OnWay(toPlugin, p, d)
                               /\ Pending(p, d)' => Pending(p, d)
    BY <1>1 DEF Pending, AtWork
  <2>2. QED
    BY <1>2, <2>1 DEF IInv, Beginnings
<1>8. Newcomers'
  <2>1. ASSUME NEW p \in Refs, NEW d \in Calls, OnWay(toPlugin', p, d) \/ job[<<p, d>>] # "none"
        PROVE  WasRegistered(p) \/ (p = d /\ call'[d].kind = "boot" /\ call'[d].at # "queued")
    <3>1. CASE p \in ps /\ d = c
      BY <1>2, <3>1
    <3>2. CASE OnWay(toPlugin, p, d) \/ job[<<p, d>>] # "none"
      <4>1. WasRegistered(p) \/ (p = d /\ call[d].kind = "boot" /\ call[d].at # "queued")
        BY <3>2 DEF IInv, Newcomers
      <4>2. d # c \/ WasRegistered(p)
        BY <3>2, <4>1 DEF IInv, Beginnings
      <4>3. QED
        BY <1>2, <4>1, <4>2
    <3>3. QED
      BY <1>1, <2>1, <3>1, <3>2
  <2>2. QED
    BY <1>4, <2>1 DEF IInv, Newcomers
<1>9. PutOnce'
  BY <1>1 DEF IInv, PutOnce
<1>10. \A p \in Refs : ~Pending(p, c)
  BY DEF IInv, Beginnings, Pending, AtWork
<1>11. Answered(c)' = {} /\ \A d \in Calls \ {c} : Answered(d)' = Answered(d)
  BY <1>2 DEF Answered
<1>12. Answers'
  <2>1. \A p \in Refs, d \in Calls : Pending(p, d)' => Pending(p, d) \/ (p \in ps /\ d = c)
    BY <1>1 DEF Pending, AtWork
  <2>2. Cardinality({}) = 0 /\ Len(<<>>) = 0
    BY FS_EmptySet, EmptySeq
  <2>3. ASSUME NEW d \in Calls
        PROVE  /\ IsFiniteSet(call'[d].asked) /\ Answered(d)' \subseteq call'[d].asked
               /\ Cardinality(Answered(d)') = Len(call'[d].got)
    BY <1>2, <1>11, <2>2 DEF IInv, Answers
  <2>4. ASSUME NEW d \in Calls, NEW p \in Refs, Pending(p, d)'
        PROVE  p \notin Answered(d)' /\ (p \in call'[d].asked \/ call'[d].kind = "tell")
    BY <1>2, <1>10, <1>11, <2>1, <2>4 DEF IInv, Answers
  <2>5. QED
    BY <2>3, <2>4 DEF Answers
<1>13. Waits'
  <2>1. ps = {} \/ 0 # Cardinality(ps)
    BY FS_EmptySet
  <2>2. Len(<<>>) = 0
    BY EmptySeq
  <2>3. QED
    BY <1>2, <2>1, <2>2 DEF IInv, Waits, Kinds
<1>14. Stops'
  <2>1. ASSUME NEW p \in Refs, NEW d \in Calls, Stopping(p, d)'
        PROVE  /\ call'[d].kind \in {"uninstall", "reload"} /\ call'[d].at = "waiting"
               /\ call'[d].asked = {p} /\ WasRegistered(p)
    <3>1. CASE p \in ps /\ d = c /\ type = "stop"
      BY <1>2, <3>1
    <3>2. CASE Stopping(p, d)
      <4>1. d # c
        BY <3>2 DEF IInv, Stops
      <4>2. QED
        BY <1>2, <3>2, <4>1 DEF IInv, Stops
    <3>3. QED
      BY <1>1, <2>1, <3>1, <3>2 DEF Stopping
  <2>2. QED
    BY <1>4, <2>1 DEF Stops
<1>15. Boots'
  <2>1. kind = "boot" => job[<<c, c>>] = "none"
    OBVIOUS
  <2>2. QED
    BY <1>2, <2>1 DEF IInv, Boots
<1>16. QED
  BY <1>5, <1>6, <1>7, <1>8, <1>9, <1>12, <1>13, <1>14, <1>15 DEF IInv

-----------------------------------------------------------------------------
(* Steps of the runtime. *)

\* What an event of plugin p for call d does to the calls: those that wait may
\* become matched, and d may have one more answer.
Heeds(p, d) ==
    \A c \in Calls :
        /\ call'[c].kind = call[c].kind /\ call'[c].dir = call[c].dir
        /\ call'[c].asked = call[c].asked
        /\ call[c].at # "waiting" => call'[c] = call[c]
        /\ call[c].at = "waiting" => call'[c].at \in {"waiting", "matched"}
        /\ call'[c] # call[c] =>
              (call'[c].at = "matched" <=> Len(call'[c].got) = Cardinality(call[c].asked))
        /\ \/ call'[c].got = call[c].got
           \/ /\ c = d /\ call[c].at = "waiting" /\ p \in call[c].asked
              /\ call'[c].got = Append(call[c].got, p)

LEMMA EmitHeeds ==
    ASSUME TypeOK, NEW type \in EventTypes, NEW p \in Refs, NEW d \in Calls,
           Emit(type, <<p, d>>)
    PROVE  /\ call' \in [Calls -> CallRecord] /\ Heeds(p, d)
           /\ inbox' \in Seq(Events) /\ Len(inbox') <= Capacity /\ disturbed' \in BOOLEAN
           /\ type \in {"answer", "error"} \/ \A c \in Calls : call'[c].got = call[c].got
<1>1. PICK e : e = Event(type, p, d)
  OBVIOUS
<1>2. e \in Events /\ e.type = type /\ e.ref = p /\ e.of = d
  BY <1>1, EventIsEvent
<1>3. \A c \in Calls : call'[c] = IF call[c].at = "waiting" THEN Matched(c, e) ELSE call[c]
  BY <1>1 DEF Emit
<1>4. ASSUME NEW c \in Calls
      PROVE  /\ call[c] \in CallRecord /\ call[c].got \in Seq(Refs)
             /\ Append(call[c].got, p) \in Seq(Refs)
  <2>1. call[c] \in CallRecord
    BY DEF TypeOK
  <2>2. call[c].got \in Seq(Refs)
    BY <2>1 DEF CallRecord
  <2>3. QED
    BY <2>1, <2>2, AppendProperties
<1>5. ASSUME NEW c \in Calls, call[c].at = "waiting"
      PROVE  LET got == IF Counts(c, e) THEN Append(call[c].got, p) ELSE call[c].got
             IN  /\ got \in Seq(Refs) /\ Matched(c, e) \in CallRecord
                 /\ Matched(c, e).got = got
                 /\ Matched(c, e).kind = call[c].kind /\ Matched(c, e).dir = call[c].dir
                 /\ Matched(c, e).asked = call[c].asked
                 /\ Matched(c, e).at =
                       IF Len(got) = Cardinality(call[c].asked) THEN "matched" ELSE "waiting"
  <2>1. PICK got : got = IF Counts(c, e) THEN Append(call[c].got, p) ELSE call[c].got
    OBVIOUS
  <2>2. got \in Seq(Refs)
    BY <1>4, <2>1
  <2>3. Matched(c, e) = [call[c] EXCEPT
            !.got = got, !.ok = @ /\ ~(Counts(c, e) /\ e.type = "error"),
            !.at = IF Len(got) = Cardinality(call[c].asked) THEN "matched" ELSE @]
    BY <1>2, <2>1 DEF Matched
  <2>4. QED
    BY <1>4, <1>5, <2>1, <2>2, <2>3 DEF CallRecord
<1>6. call' \in [Calls -> CallRecord]
  BY <1>1, <1>3, <1>4, <1>5 DEF Emit
<1>7. ASSUME NEW c \in Calls, call[c].at = "waiting"
      PROVE  Counts(c, e) => type \in {"answer", "error"} /\ c = d /\ p \in call[c].asked
  BY <1>2 DEF Counts
<1>8. Heeds(p, d)
  <2>1. ASSUME NEW c \in Calls, call[c].at # "waiting" PROVE call'[c] = call[c]
    BY <1>3, <2>1
  <2>2. ASSUME NEW c \in Calls, call[c].at = "waiting"
        PROVE  /\ call'[c].kind = call[c].kind /\ call'[c].dir = call[c].dir
               /\ call'[c].asked = call[c].asked
               /\ call'[c].at =
                     IF Len(call'[c].got) = Cardinality(call[c].asked) THEN "matched" ELSE "waiting"
               /\ \/ call'[c].got = call[c].got
                  \/ /\ c = d /\ p \in call[c].asked
                     /\ call'[c].got = Append(call[c].got, p)
    <3>1. PICK got : got = IF Counts(c, e) THEN Append(call[c].got, p) ELSE call[c].got
      OBVIOUS
    <3>2. PICK new : new = call'[c]
      OBVIOUS
    <3>3. new = Matched(c, e)
      BY <1>3, <2>2, <3>2
    <3>4. /\ new.kind = call[c].kind /\ new.dir = call[c].dir /\ new.asked = call[c].asked
          /\ new.got = got
          /\ new.at = IF Len(got) = Cardinality(call[c].asked) THEN "matched" ELSE "waiting"
      BY <1>5, <2>2, <3>1, <3>3
    <3>5. \/ got = call[c].got
          \/ c = d /\ p \in call[c].asked /\ got = Append(call[c].got, p)
      BY <1>7, <2>2, <3>1
    <3>6. QED
      BY <3>2, <3>4, <3>5
  <2>3. SUFFICES ASSUME NEW c \in Calls
        PROVE  /\ call'[c].kind = call[c].kind /\ call'[c].dir = call[c].dir
               /\ call'[c].asked = call[c].asked
               /\ call[c].at # "waiting" => call'[c] = call[c]
               /\ call[c].at = "waiting" => call'[c].at \in {"waiting", "matched"}
               /\ call'[c] # call[c] =>
                  (call'[c].at = "matched" <=> Len(call'[c].got) = Cardinality(call[c].asked))
               /\ \/ call'[c].got = call[c].got
                  \/ /\ c = d /\ call[c].at = "waiting" /\ p \in call[c].asked
                     /\ call'[c].got = Append(call[c].got, p)
    BY DEF Heeds
  <2>4. CASE call[c].at # "waiting"
    BY <2>1, <2>4
  <2>5. CASE call[c].at = "waiting"
    BY <2>2, <2>5
  <2>6. QED
    BY <2>4, <2>5
<1>9. inbox' \in Seq(Events) /\ Len(inbox') <= Capacity /\ disturbed' \in BOOLEAN
  <2>1. inbox \in Seq(Events) /\ Len(inbox) \in Nat /\ Len(inbox) <= Capacity /\ Capacity \in Nat
    BY LenProperties, CapacityPositive DEF TypeOK
  <2>2. Append(inbox, e) \in Seq(Events) /\ Len(Append(inbox, e)) = Len(inbox) + 1
    BY <1>2, <2>1, AppendProperties
  <2>3. inbox' = IF type = "request" /\ ~(Len(inbox) >= Capacity) THEN Append(inbox, e) ELSE inbox
    BY <1>1 DEF Emit, Full
  <2>4. disturbed' \in BOOLEAN
    BY DEF Emit, TypeOK
  <2>5. QED
    BY <2>1, <2>2, <2>3, <2>4
<1>10. QED
  BY <1>3, <1>5, <1>6, <1>7, <1>8, <1>9

JobStates == {"none", "fresh", "asking", "resumed", "disposing", "over"}

\* A step of the runtime on what p does for d keeps the invariant; so does one
\* of the monitor or of a handler, which changes less.
LEMMA WorkKeeps ==
    ASSUME IInv, NEW p \in Refs, NEW d \in Calls,
           UNCHANGED plugins, booter' \in Calls \cup {None},
           handler' \in [Jobs -> {"none", "running", "over"} \cup Calls],
           inbox' \in Seq(Events) /\ Len(inbox') <= Capacity /\ disturbed' \in BOOLEAN,
           \* the queue has lost an event, or none
           toPlugin' \in Seq(Events) /\ Once(toPlugin'),
           \A r \in Refs, c \in Calls : /\ OnWay(toPlugin', r, c) => OnWay(toPlugin, r, c)
                                        /\ StopOnWay(toPlugin', r, c) => StopOnWay(toPlugin, r, c),
           \* the job has gone on
           job' \in [Jobs -> JobStates], \A j \in Jobs : j # <<p, d>> => job'[j] = job[j],
           job'[<<p, d>>] = job[<<p, d>>] \/
              (job'[<<p, d>>] # "none" /\ (OnWay(toPlugin, p, d) \/ job[<<p, d>>] # "none")),
           AtWork(p, d)' => Pending(p, d),
           job'[<<p, d>>] = "disposing" => Stopping(p, d),
           OnWay(toPlugin', p, d) => job'[<<p, d>>] = "none",
           \* the instance is made, or disposed of
           runtime' \in SUBSET Refs,
           \/ runtime' \in {runtime, runtime \cup {p}}
           \/ runtime' = runtime \ {p} /\ job[<<p, d>>] = "disposing",
           job'[<<p, d>>] = job[<<p, d>>] \/ job[<<p, d>>] # "none" \/ p \in runtime',
           \* d may have been answered
           call' \in [Calls -> CallRecord], Heeds(p, d),
           \/ call'[d].got = call[d].got
           \/ /\ Pending(p, d) /\ ~Pending(p, d)'
              /\ job[<<p, d>>] # "none" \/ p \in runtime'
    PROVE  IInv'
<1>1. /\ \A c \in Calls : call[c] \in CallRecord /\ call[c].got \in Seq(Refs)
      /\ \A r \in Refs, c \in Calls : <<r, c>> \in Jobs
  BY DEF IInv, TypeOK, CallRecord, Jobs
<1>2. \A r \in Refs, c \in Calls :
        /\ Pending(r, c)' => Pending(r, c)
        /\ Stopping(r, c)' => Stopping(r, c)
        /\ job'[<<r, c>>] # "none" => OnWay(toPlugin, r, c) \/ job[<<r, c>>] # "none"
  <2>1. ASSUME NEW r \in Refs, NEW c \in Calls, <<r, c>> # <<p, d>>
        PROVE  job'[<<r, c>>] = job[<<r, c>>]
    BY <1>1, <2>1
  <2>2. ASSUME NEW r \in Refs, NEW c \in Calls, Pending(r, c)' PROVE Pending(r, c)
    BY <2>1, <2>2 DEF Pending, AtWork
  <2>3. ASSUME NEW r \in Refs, NEW c \in Calls, Stopping(r, c)' PROVE Stopping(r, c)
    BY <2>1, <2>3 DEF Stopping
  <2>4. QED
    BY <2>1, <2>2, <2>3
<1>3. \A c \in Calls :
        /\ call'[c].at \in {"waiting", "matched"} <=> call[c].at \in {"waiting", "matched"}
        /\ call'[c].at \notin {"waiting", "matched"} => call'[c] = call[c]
        /\ call'[c].at = "waiting" => call[c].at = "waiting"
  BY DEF Heeds
<1>4. \A r : WasRegistered(r)' <=> WasRegistered(r)
  BY <1>3 DEF WasRegistered
<1>5. TypeOK'
  BY DEF IInv, TypeOK, JobStates
<1>6. RegistryIsSound'
  <2>1. \A r \in plugins : DirIs(r)' = DirIs(r)
    BY DEF DirIs, Heeds, IInv, TypeOK, Refs
  <2>2. \A r \in plugins : BeingStopped(r) => BeingStopped(r)'
    BY <1>3 DEF BeingStopped, Heeds
  <2>3. ASSUME NEW r \in plugins, r \in runtime, r \notin runtime'
        PROVE  BeingStopped(r)
    <3>1. r = p /\ Stopping(p, d)
      BY <2>3 DEF Stopping
    <3>2. QED
      BY <3>1 DEF IInv, Stops, BeingStopped
  <2>4. QED
    BY <2>1, <2>2, <2>3 DEF IInv, RegistryIsSound, OnePerDir, RegisteredIsLive
<1>7. Beginnings'
  <2>1. ASSUME NEW c \in Calls, call'[c].at = "idle"
        PROVE  /\ call'[c].kind = None /\ call'[c].asked = {} /\ call'[c].got = <<>>
               /\ \A r \in Refs : job'[<<r, c>>] = "none" /\ ~OnWay(toPlugin', r, c)
    <3>1. call'[c] = call[c] /\ call[c].at = "idle"
      BY <1>3, <2>1
    <3>2. /\ call[c].kind = None /\ call[c].asked = {} /\ call[c].got = <<>>
          /\ \A r \in Refs : job[<<r, c>>] = "none" /\ ~OnWay(toPlugin, r, c)
      BY <3>1 DEF IInv, Beginnings
    <3>3. QED
      BY <1>2, <3>1, <3>2
  <2>2. ASSUME NEW c \in Calls, call'[c].at = "queued"
        PROVE  call'[c].kind = "boot" /\ \A r \in Refs : ~(Pending(r, c)')
    <3>1. call'[c] = call[c] /\ call[c].at = "queued"
      BY <1>3, <2>2
    <3>2. call[c].kind = "boot" /\ \A r \in Refs : ~Pending(r, c)
      BY <3>1 DEF IInv, Beginnings
    <3>3. QED
      BY <1>2, <3>1, <3>2
  <2>3. QED
    BY <2>1, <2>2 DEF Beginnings
<1>8. Newcomers'
  BY <1>2, <1>3, <1>4 DEF IInv, Newcomers, Heeds
<1>9. PutOnce'
  <2>1. ASSUME NEW r \in Refs, NEW c \in Calls, OnWay(toPlugin', r, c)
        PROVE  job'[<<r, c>>] = "none"
    <3>1. job[<<r, c>>] = "none"
      BY <2>1 DEF IInv, PutOnce
    <3>2. QED
      BY <1>1, <2>1, <3>1
  <2>2. QED
    BY <2>1 DEF PutOnce
<1>10. \A c \in Calls : \/ call'[c].got = call[c].got /\ Answered(c)' = Answered(c)
                        \/ /\ c = d /\ p \in call[d].asked /\ Pending(p, d) /\ ~Pending(p, d)'
                           /\ job[<<p, d>>] # "none" \/ p \in runtime'
                           /\ call'[d].got \in Seq(Refs)
                           /\ Len(call'[d].got) = Len(call[d].got) + 1
                           /\ Answered(d)' = Answered(d) \cup {p}
  <2>1. ASSUME NEW c \in Calls, call'[c].got = call[c].got PROVE Answered(c)' = Answered(c)
    BY <2>1 DEF Answered
  <2>2. ASSUME call'[d].got # call[d].got
        PROVE  /\ call'[d].got \in Seq(Refs) /\ Len(call'[d].got) = Len(call[d].got) + 1
               /\ Answered(d)' = Answered(d) \cup {p}
    <3>1. PICK s, t : s = call[d].got /\ t = call'[d].got /\ s \in Seq(Refs)
      BY <1>1
    <3>2. t = Append(s, p)
      BY <2>2, <3>1 DEF Heeds
    <3>3. /\ Len(s) \in Nat /\ t \in Seq(Refs) /\ Len(t) = Len(s) + 1
          /\ \A i \in 1..Len(s) : t[i] = s[i]
          /\ t[Len(s) + 1] = p
      BY <3>1, <3>2, AppendProperties, LenProperties
    <3>4. DOMAIN s = 1..Len(s) /\ DOMAIN t = 1..Len(t)
      BY <3>3, LenProperties
    <3>5. {t[i] : i \in DOMAIN t} = {s[i] : i \in DOMAIN s} \cup {p}
      <4>1. \A i \in 1..Len(t) : i \in 1..Len(s) \/ i = Len(s) + 1
        BY <3>3
      <4>2. \A i \in 1..Len(s) : i \in 1..Len(t)
        BY <3>3
      <4>3. Len(s) + 1 \in 1..Len(t)
        BY <3>3
      <4>4. QED
        BY <3>3, <3>4, <4>1, <4>2, <4>3
    <3>6. Answered(d)' = {t[i] : i \in DOMAIN t} /\ Answered(d) = {s[i] : i \in DOMAIN s}
      BY <3>1 DEF Answered
    <3>7. QED
      BY <3>1, <3>3, <3>5, <3>6
  <2>3. QED
    BY <2>1, <2>2 DEF Heeds
<1>11. Answers'
  <2>1. ASSUME NEW c \in Calls
        PROVE  /\ IsFiniteSet(call'[c].asked) /\ Answered(c)' \subseteq call'[c].asked
               /\ Cardinality(Answered(c)') = Len(call'[c].got)
    <3>1. /\ IsFiniteSet(call[c].asked) /\ call'[c].asked = call[c].asked
          /\ Answered(c) \subseteq call[c].asked /\ Cardinality(Answered(c)) = Len(call[c].got)
      BY DEF IInv, Answers, Heeds
    <3>2. CASE call'[c].got = call[c].got /\ Answered(c)' = Answered(c)
      BY <3>1, <3>2
    <3>3. CASE /\ c = d /\ p \in call[d].asked /\ Pending(p, d)
               /\ Len(call'[d].got) = Len(call[d].got) + 1 /\ Answered(d)' = Answered(d) \cup {p}
      <4>1. p \notin Answered(d) /\ IsFiniteSet(Answered(d))
        BY <3>1, <3>3, FS_Subset DEF IInv, Answers
      <4>2. Cardinality(Answered(d) \cup {p}) = Cardinality(Answered(d)) + 1
        BY <4>1, FS_AddElement
      <4>3. QED
        BY <3>1, <3>3, <4>2
    <3>4. QED
      BY <1>10, <3>2, <3>3
  <2>2. ASSUME NEW c \in Calls, NEW r \in Refs, Pending(r, c)'
        PROVE  r \notin Answered(c)' /\ (r \in call'[c].asked \/ call'[c].kind = "tell")
    <3>1. r \notin Answered(c) /\ (r \in call[c].asked \/ call[c].kind = "tell")
      BY <1>2, <2>2 DEF IInv, Answers
    <3>2. c = d /\ r = p => Answered(c)' = Answered(c)
      BY <1>10, <2>2
    <3>3. r \notin Answered(c)'
      BY <1>10, <3>1, <3>2
    <3>4. QED
      BY <3>1, <3>3 DEF Heeds
  <2>3. QED
    BY <2>1, <2>2 DEF Answers
<1>12. Waits'
  BY <1>3 DEF IInv, Waits, Heeds
<1>13. Stops'
  <2>1. ASSUME NEW r \in Refs, NEW c \in Calls, Stopping(r, c)'
        PROVE  /\ call'[c].kind \in {"uninstall", "reload"} /\ call'[c].at = "waiting"
               /\ call'[c].asked = {r} /\ WasRegistered(r)
    <3>1. /\ call[c].kind \in {"uninstall", "reload"} /\ call[c].at = "waiting"
          /\ call[c].asked = {r} /\ WasRegistered(r)
      BY <1>2, <2>1 DEF IInv, Stops
    <3>2. Pending(r, c)'
      BY <2>1 DEF Stopping, Pending, AtWork, StopOnWay, OnWay, IsFor, Primary
    <3>3. call'[c].asked = {r} /\ call'[c].kind = call[c].kind
      BY <3>1 DEF Heeds
    <3>4. Answered(c)' = {} /\ Cardinality(Answered(c)') = Len(call'[c].got)
      <4>1. Answered(c)' \subseteq call'[c].asked /\ Cardinality(Answered(c)') = Len(call'[c].got)
        BY <1>11 DEF Answers
      <4>2. r \notin Answered(c)'
        BY <1>11, <3>2 DEF Answers
      <4>3. QED
        BY <3>3, <4>1, <4>2
    <3>5. Len(call'[c].got) # Cardinality(call'[c].asked)
      <4>1. Cardinality({}) = 0 /\ Cardinality({r}) = 1
        BY FS_EmptySet, FS_Singleton
      <4>2. Len(call'[c].got) = 0
        BY <3>4, <4>1
      <4>3. Cardinality(call'[c].asked) = 1
        BY <3>3, <4>1
      <4>4. QED
        BY <4>2, <4>3
    <3>6. call'[c].at = "waiting"
      BY <1>12, <1>3, <3>1, <3>5 DEF Waits
    <3>7. QED
      BY <3>1, <3>3, <3>6
  <2>2. QED
    BY <1>4, <2>1 DEF Stops
<1>14. Boots'
  <2>1. ASSUME NEW c \in Calls, call'[c].kind = "boot", call'[c].at \in {"waiting", "matched"}
        PROVE  /\ call'[c].asked = {c}
               /\ job'[<<c, c>>] # "none" \/ call'[c].got # <<>> => c \in runtime'
    <3>1. /\ call[c].kind = "boot" /\ call[c].at \in {"waiting", "matched"}
          /\ call[c].asked = {c} /\ c \in Refs
          /\ job[<<c, c>>] # "none" \/ call[c].got # <<>> => c \in runtime
      BY <1>3, <2>1 DEF IInv, Boots, Heeds, Refs
    <3>2. c \in runtime => c \in runtime'
      <4>1. ~WasRegistered(c)
        BY <3>1, CallsAndHandles DEF WasRegistered
      <4>2. job[<<p, d>>] = "disposing" => p # c
        BY <4>1 DEF IInv, Stops, Stopping
      <4>3. QED
        BY <4>2
    <3>3. c \notin runtime /\ job'[<<c, c>>] # "none" => c \in runtime'
      BY <1>1, <3>1
    <3>4. c \notin runtime /\ call'[c].got # <<>> => c \in runtime'
      BY <1>10, <3>1
    <3>5. QED
      BY <3>1, <3>2, <3>3, <3>4 DEF Heeds
  <2>2. QED
    BY <2>1 DEF Boots
<1>15. QED
  BY <1>5, <1>6, <1>7, <1>8, <1>9, <1>11, <1>12, <1>13, <1>14 DEF IInv

\* The event that the runtime takes, and what is left.
LEMMA Arrival ==
    ASSUME IInv, NEW type, Incoming(type)
    PROVE  \E p \in Refs, d \in Calls :
             /\ TheJob = <<p, d>> /\ <<p, d>> \in Jobs
             /\ toPlugin' \in Seq(Events) /\ Once(toPlugin')
             /\ \A r \in Refs, c \in Calls :
                  /\ OnWay(toPlugin', r, c) => OnWay(toPlugin, r, c)
                  /\ StopOnWay(toPlugin', r, c) => StopOnWay(toPlugin, r, c)
             /\ OnWay(toPlugin', p, d) => job[<<p, d>>] = "none"
             /\ type \in {"boot", "stop", "list", "run"} =>
                  OnWay(toPlugin, p, d) /\ ~OnWay(toPlugin', p, d) /\ job[<<p, d>>] = "none"
             /\ type = "stop" => Stopping(p, d)
<1>1. PICK e : e = Head(toPlugin)
  OBVIOUS
<1>2. PICK p, d : p = e.ref /\ d = e.of
  OBVIOUS
<1>3. e \in Events /\ e.type = type /\ Once(toPlugin) /\ toPlugin \in Seq(Events)
  BY <1>1, Takes DEF IInv, TypeOK, PutOnce, Incoming
<1>4. p \in Refs /\ d \in Calls /\ TheJob = <<p, d>>
  BY <1>1, <1>2, <1>3 DEF Events, TheJob
<1>5. /\ toPlugin' \in Seq(Events) /\ Once(toPlugin')
      /\ \A r \in Refs, c \in Calls :
           /\ OnWay(toPlugin', r, c) => OnWay(toPlugin, r, c)
           /\ StopOnWay(toPlugin', r, c) => StopOnWay(toPlugin, r, c)
      /\ Primary(e) => OnWay(toPlugin, p, d) /\ ~OnWay(toPlugin', p, d)
      /\ type = "stop" => StopOnWay(toPlugin, p, d)
  BY <1>1, <1>2, <1>3, Takes DEF Incoming
<1>6. OnWay(toPlugin, p, d) => job[<<p, d>>] = "none"
  BY <1>4 DEF IInv, PutOnce
<1>7. type \in {"boot", "stop", "list", "run"} => Primary(e)
  BY <1>3 DEF Primary
<1>8. <<p, d>> \in Jobs
  BY <1>4 DEF Jobs
<1>9. QED
  BY <1>4, <1>5, <1>6, <1>7, <1>8 DEF Stopping

LEMMA ArriveInv == ASSUME IInv, Arrive PROVE IInv'
<1>1. PICK type \in {"boot", "stop", "list", "run", "reply"} :
        /\ Incoming(type)
        /\ \/ type = "boot" /\ BootArrives
           \/ Unheard
           \/ type = "list" /\ ListArrives
           \/ type = "run" /\ RunArrives
           \/ type = "stop" /\ StopArrives
           \/ ReplyArrives
  BY DEF Arrive, BootArrives, Unheard, ListArrives, RunArrives, StopArrives, ReplyArrives
<1>2. PICK p \in Refs, d \in Calls :
        /\ TheJob = <<p, d>> /\ <<p, d>> \in Jobs
        /\ toPlugin' \in Seq(Events) /\ Once(toPlugin')
        /\ \A r \in Refs, c \in Calls :
             /\ OnWay(toPlugin', r, c) => OnWay(toPlugin, r, c)
             /\ StopOnWay(toPlugin', r, c) => StopOnWay(toPlugin, r, c)
        /\ OnWay(toPlugin', p, d) => job[<<p, d>>] = "none"
        /\ type \in {"boot", "stop", "list", "run"} =>
             OnWay(toPlugin, p, d) /\ ~OnWay(toPlugin', p, d) /\ job[<<p, d>>] = "none"
        /\ type = "stop" => Stopping(p, d)
  BY <1>1, Arrival
<1>3. /\ UNCHANGED plugins /\ booter' \in Calls \cup {None}
      /\ handler' \in [Jobs -> {"none", "running", "over"} \cup Calls]
      /\ job \in [Jobs -> JobStates] /\ runtime \in SUBSET Refs
  BY <1>1 DEF IInv, TypeOK, Incoming, JobStates
<1>4. Quiet => /\ inbox' \in Seq(Events) /\ Len(inbox') <= Capacity /\ disturbed' \in BOOLEAN
               /\ call' \in [Calls -> CallRecord] /\ Heeds(p, d)
               /\ call'[d].got = call[d].got
  BY DEF IInv, TypeOK, Quiet, Heeds
<1>5. job' = job => /\ job' \in [Jobs -> JobStates]
                    /\ \A j \in Jobs : j # <<p, d>> => job'[j] = job[j]
                    /\ job'[<<p, d>>] = job[<<p, d>>]
                    /\ AtWork(p, d)' => Pending(p, d)
                    /\ job'[<<p, d>>] = "disposing" => Stopping(p, d)
                    /\ OnWay(toPlugin', p, d) => job'[<<p, d>>] = "none"
  BY <1>2, <1>3 DEF AtWork, Pending, Stopping
<1>6. CASE Quiet /\ UNCHANGED <<runtime, job>>
  BY <1>2, <1>3, <1>4, <1>5, <1>6, WorkKeeps
<1>7. CASE /\ Quiet /\ type = "boot" /\ runtime' = runtime \cup {TheJob[1]}
           /\ job' = [job EXCEPT ![TheJob] = "fresh"]
  <2>1. /\ job' \in [Jobs -> JobStates] /\ job'[<<p, d>>] = "fresh"
        /\ \A j \in Jobs : j # <<p, d>> => job'[j] = job[j]
    BY <1>2, <1>3, <1>7 DEF JobStates
  <2>2. runtime' = runtime \cup {p} /\ runtime' \in SUBSET Refs
    BY <1>2, <1>3, <1>7
  <2>3. QED
    BY <1>2, <1>3, <1>4, <1>7, <2>1, <2>2, WorkKeeps DEF Pending
<1>8. CASE /\ Quiet /\ type = "run" /\ Heard /\ UNCHANGED runtime
           /\ job' = [job EXCEPT ![TheJob] = "fresh"]
  <2>1. /\ job' \in [Jobs -> JobStates] /\ job'[<<p, d>>] = "fresh"
        /\ \A j \in Jobs : j # <<p, d>> => job'[j] = job[j]
    BY <1>2, <1>3, <1>8 DEF JobStates
  <2>2. p \in runtime'
    BY <1>2, <1>8 DEF Heard
  <2>3. QED
    BY <1>2, <1>3, <1>4, <1>8, <2>1, <2>2, WorkKeeps DEF Pending
<1>9. CASE /\ Quiet /\ type = "stop" /\ Heard /\ UNCHANGED runtime
           /\ job' = [job EXCEPT ![TheJob] = "disposing"]
  <2>1. /\ job' \in [Jobs -> JobStates] /\ job'[<<p, d>>] = "disposing"
        /\ \A j \in Jobs : j # <<p, d>> => job'[j] = job[j]
    BY <1>2, <1>3, <1>9 DEF JobStates
  <2>2. p \in runtime'
    BY <1>2, <1>9 DEF Heard
  <2>3. QED
    BY <1>2, <1>3, <1>4, <1>9, <2>1, <2>2, WorkKeeps DEF Pending
<1>10. CASE type = "list" /\ Heard /\ UNCHANGED <<runtime, job>> /\ Emit("answer", <<p, d>>)
  <2>1. /\ call' \in [Calls -> CallRecord] /\ Heeds(p, d)
        /\ inbox' \in Seq(Events) /\ Len(inbox') <= Capacity /\ disturbed' \in BOOLEAN
    BY <1>10, EmitHeeds DEF IInv, EventTypes
  <2>2. p \in runtime' /\ Pending(p, d) /\ ~(Pending(p, d)')
    BY <1>2, <1>10 DEF Heard, Pending, AtWork
  <2>3. QED
    BY <1>2, <1>3, <1>5, <1>10, <2>1, <2>2, WorkKeeps
<1>11. CASE /\ UNCHANGED runtime /\ Emit("noise", <<p, d>>)
            /\ job' = [job EXCEPT ![TheJob] = IF @ = "asking" THEN "resumed" ELSE @]
  <2>1. /\ call' \in [Calls -> CallRecord] /\ Heeds(p, d)
        /\ inbox' \in Seq(Events) /\ Len(inbox') <= Capacity /\ disturbed' \in BOOLEAN
        /\ call'[d].got = call[d].got
    BY <1>11, EmitHeeds DEF IInv, EventTypes
  <2>2. /\ job' \in [Jobs -> JobStates]
        /\ job'[<<p, d>>] = IF job[<<p, d>>] = "asking" THEN "resumed" ELSE job[<<p, d>>]
        /\ \A j \in Jobs : j # <<p, d>> => job'[j] = job[j]
    BY <1>2, <1>3, <1>11 DEF JobStates
  <2>3. /\ AtWork(p, d)' => Pending(p, d)
        /\ job'[<<p, d>>] = "disposing" => Stopping(p, d)
        /\ OnWay(toPlugin', p, d) => job'[<<p, d>>] = "none"
    BY <1>2, <2>2 DEF AtWork, Pending, Stopping
  <2>4. QED
    BY <1>2, <1>3, <1>11, <2>1, <2>2, <2>3, WorkKeeps
<1>12. QED
  BY <1>1, <1>2, <1>6, <1>7, <1>8, <1>9, <1>10, <1>11
  DEF BootArrives, Unheard, ListArrives, RunArrives, StopArrives, ReplyArrives

LEMMA WorkInv == ASSUME IInv, NEW j \in Jobs, Work(j) PROVE IInv'
<1>1. PICK p \in Refs, d \in Calls : j = <<p, d>>
  BY DEF Jobs
<1>2. /\ UNCHANGED plugins /\ booter' \in Calls \cup {None}
      /\ handler' \in [Jobs -> {"none", "running", "over"} \cup Calls]
      /\ toPlugin' = toPlugin /\ toPlugin' \in Seq(Events) /\ Once(toPlugin')
      /\ job \in [Jobs -> JobStates] /\ runtime \in SUBSET Refs
  BY DEF IInv, TypeOK, PutOnce, JobStates, appVars,
         Work, UseContext, Finish, Throw, Ends, Disposed, DisposeThrows
<1>3. job[<<p, d>>] # "none" => ~OnWay(toPlugin, p, d)
  BY DEF IInv, PutOnce
<1>4. ASSUME NEW state \in JobStates, job' = [job EXCEPT ![j] = state]
      PROVE  /\ job' \in [Jobs -> JobStates] /\ job'[<<p, d>>] = state
             /\ \A i \in Jobs : i # <<p, d>> => job'[i] = job[i]
  BY <1>1, <1>2, <1>4
<1>5. ASSUME NEW type \in EventTypes, Emit(type, j)
      PROVE  /\ call' \in [Calls -> CallRecord] /\ Heeds(p, d)
             /\ inbox' \in Seq(Events) /\ Len(inbox') <= Capacity /\ disturbed' \in BOOLEAN
             /\ type \in {"answer", "error"} \/ call'[d].got = call[d].got
  BY <1>1, <1>5, EmitHeeds DEF IInv
<1>6. CASE UseContext(j)
  <2>1. job[<<p, d>>] = "fresh" /\ UNCHANGED runtime
    BY <1>1, <1>6 DEF UseContext
  <2>2. /\ job' \in [Jobs -> JobStates] /\ job'[<<p, d>>] = "asking"
        /\ \A i \in Jobs : i # <<p, d>> => job'[i] = job[i]
    BY <1>4, <1>6 DEF UseContext, JobStates
  <2>3. /\ call' \in [Calls -> CallRecord] /\ Heeds(p, d)
        /\ inbox' \in Seq(Events) /\ Len(inbox') <= Capacity /\ disturbed' \in BOOLEAN
        /\ call'[d].got = call[d].got
    BY <1>5, <1>6 DEF UseContext, EventTypes
  <2>4. Pending(p, d)
    BY <2>1 DEF Pending, AtWork
  <2>5. QED
    BY <1>2, <1>3, <2>1, <2>2, <2>3, <2>4, WorkKeeps
<1>7. ASSUME NEW type \in {"answer", "error"}, Ends(j, type) PROVE IInv'
  <2>1. job[<<p, d>>] \in {"fresh", "resumed"} /\ UNCHANGED runtime
    BY <1>1, <1>7 DEF Ends
  <2>2. /\ job' \in [Jobs -> JobStates] /\ job'[<<p, d>>] = "over"
        /\ \A i \in Jobs : i # <<p, d>> => job'[i] = job[i]
    BY <1>4, <1>7 DEF Ends, JobStates
  <2>3. /\ call' \in [Calls -> CallRecord] /\ Heeds(p, d)
        /\ inbox' \in Seq(Events) /\ Len(inbox') <= Capacity /\ disturbed' \in BOOLEAN
    BY <1>5, <1>7 DEF Ends, EventTypes
  <2>4. Pending(p, d) /\ ~(Pending(p, d)') /\ ~(AtWork(p, d)')
    BY <1>2, <1>3, <2>1, <2>2 DEF Pending, AtWork
  <2>5. QED
    BY <1>2, <1>3, <2>1, <2>2, <2>3, <2>4, WorkKeeps
<1>8. CASE Disposed(j)
  <2>1. job[<<p, d>>] = "disposing" /\ runtime' = runtime \ {p} /\ runtime' \in SUBSET Refs
    BY <1>1, <1>2, <1>8 DEF Disposed
  <2>2. /\ job' \in [Jobs -> JobStates] /\ job'[<<p, d>>] = "over"
        /\ \A i \in Jobs : i # <<p, d>> => job'[i] = job[i]
    BY <1>4, <1>8 DEF Disposed, JobStates
  <2>3. /\ call' \in [Calls -> CallRecord] /\ Heeds(p, d)
        /\ inbox' \in Seq(Events) /\ Len(inbox') <= Capacity /\ disturbed' \in BOOLEAN
    BY <1>5, <1>8 DEF Disposed, EventTypes
  <2>4. Pending(p, d) /\ ~(Pending(p, d)') /\ ~(AtWork(p, d)')
    BY <1>2, <1>3, <2>1, <2>2 DEF Pending, AtWork
  <2>5. QED
    BY <1>2, <1>3, <2>1, <2>2, <2>3, <2>4, WorkKeeps
<1>9. CASE DisposeThrows(j)
  <2>1. job[<<p, d>>] = "disposing" /\ UNCHANGED runtime
    BY <1>1, <1>9 DEF DisposeThrows
  <2>2. /\ job' \in [Jobs -> JobStates] /\ job'[<<p, d>>] = "over"
        /\ \A i \in Jobs : i # <<p, d>> => job'[i] = job[i]
    BY <1>4, <1>9 DEF DisposeThrows, JobStates
  <2>3. /\ call' \in [Calls -> CallRecord] /\ Heeds(p, d)
        /\ inbox' \in Seq(Events) /\ Len(inbox') <= Capacity /\ disturbed' \in BOOLEAN
        /\ call'[d].got = call[d].got
    BY <1>9 DEF DisposeThrows, Heeds, IInv, TypeOK
  <2>4. ~(AtWork(p, d)')
    BY <2>2 DEF AtWork
  <2>5. QED
    BY <1>2, <1>3, <2>1, <2>2, <2>3, <2>4, WorkKeeps
<1>10. QED
  BY <1>6, <1>7, <1>8, <1>9 DEF Work, Finish, Throw

-----------------------------------------------------------------------------
(* Steps that leave the calls and the runtime alone. *)

\* An event that makes no plugin answer may be sent.
LEMMA AsideKeeps ==
    ASSUME IInv, NEW p \in Refs, NEW d \in Calls,
           UNCHANGED <<plugins, booter, call, runtime, job>>,
           handler' \in [Jobs -> {"none", "running", "over"} \cup Calls],
           inbox' \in Seq(Events) /\ Len(inbox') <= Capacity /\ disturbed' \in BOOLEAN,
           toPlugin' = toPlugin \/ SendTo({p}, "reply", d)
    PROVE  IInv'
<1>1. /\ toPlugin' \in Seq(Events) /\ Once(toPlugin')
      /\ \A r \in Refs, c \in Calls : /\ OnWay(toPlugin', r, c) => OnWay(toPlugin, r, c)
                                      /\ StopOnWay(toPlugin', r, c) => StopOnWay(toPlugin, r, c)
  <2>1. toPlugin \in Seq(Events) /\ Once(toPlugin)
    BY DEF IInv, TypeOK, PutOnce
  <2>2. IsFiniteSet({p}) /\ {p} \in SUBSET Refs /\ "reply" \in EventTypes
    BY FS_Singleton DEF EventTypes
  <2>3. CASE SendTo({p}, "reply", d)
    BY <2>1, <2>2, <2>3, Sends
  <2>4. QED
    BY <2>1, <2>3
<1>2. <<p, d>> \in Jobs /\ job' \in [Jobs -> JobStates] /\ runtime' \in SUBSET Refs
  BY DEF IInv, TypeOK, JobStates, Jobs
<1>3. /\ AtWork(p, d)' => Pending(p, d)
      /\ job'[<<p, d>>] = "disposing" => Stopping(p, d)
      /\ OnWay(toPlugin', p, d) => job'[<<p, d>>] = "none"
  BY <1>1 DEF AtWork, Pending, Stopping, IInv, PutOnce
<1>4. booter' \in Calls \cup {None} /\ call' \in [Calls -> CallRecord] /\ Heeds(p, d)
  BY DEF IInv, TypeOK, Heeds
<1>5. QED
  BY <1>1, <1>2, <1>3, <1>4, WorkKeeps

LEMMA MonitorInv == ASSUME IInv, Monitor PROVE IInv'
<1>1. PICK e : e = Head(inbox)
  OBVIOUS
<1>2. /\ e \in Events /\ inbox' \in Seq(Events) /\ Len(inbox') <= Capacity
  <2>1. inbox \in Seq(Events) /\ inbox # <<>> /\ Len(inbox) \in Nat /\ Len(inbox) <= Capacity
    BY LenProperties DEF IInv, TypeOK, Monitor
  <2>2. /\ Head(inbox) \in Events /\ Tail(inbox) \in Seq(Events)
        /\ Len(Tail(inbox)) = Len(inbox) - 1
    BY <2>1, HeadTailProperties
  <2>3. Capacity \in Nat
    BY CapacityPositive
  <2>4. QED
    BY <1>1, <2>1, <2>2, <2>3 DEF Monitor
<1>3. PICK p \in Refs, d \in Calls : p = e.ref /\ d = e.of
  BY <1>2 DEF Events
<1>4. handler' \in [Jobs -> {"none", "running", "over"} \cup Calls]
  <2>1. handler' = handler \/ handler' = [handler EXCEPT ![<<e.ref, e.of>>] = "running"]
    BY <1>1 DEF Monitor
  <2>2. QED
    BY <2>1 DEF IInv, TypeOK
<1>5. UNCHANGED <<plugins, booter, call, toPlugin, runtime, job>> /\ disturbed' \in BOOLEAN
  BY DEF Monitor, IInv, TypeOK
<1>6. QED
  BY <1>2, <1>3, <1>4, <1>5, AsideKeeps

LEMMA ServeInv == ASSUME IInv, NEW j \in Jobs, Serve(j) PROVE IInv'
<1>1. PICK p \in Refs, d \in Calls : j = <<p, d>>
  BY DEF Jobs
<1>2. CASE Render(j)
  <2>1. PICK c \in Calls : /\ call[c].at = "idle" /\ Request(c, "ask", None, plugins, "run")
                           /\ handler' = [handler EXCEPT ![j] = c]
    BY <1>2 DEF Render
  <2>2. UNCHANGED <<plugins, booter, runtime, job, inbox, disturbed>>
    BY <1>2 DEF Render
  <2>3. plugins \in SUBSET Refs /\ IsFiniteSet(plugins) /\ booter' \in Calls \cup {None}
    BY <2>2 DEF IInv, TypeOK
  <2>4. handler' \in [Jobs -> {"none", "running", "over"} \cup Calls]
    BY <2>1 DEF IInv, TypeOK
  <2>5. \A r \in plugins : /\ job[<<r, c>>] = "none" /\ ~OnWay(toPlugin, r, c)
                           /\ WasRegistered(r)
    BY <2>1, <2>3 DEF IInv, Beginnings, Newcomers
  <2>6. QED
    BY <2>1, <2>2, <2>3, <2>4, <2>5, AsksKeeps
<1>3. CASE Reply(j)
  <2>1. handler' \in [Jobs -> {"none", "running", "over"} \cup Calls]
    BY <1>3 DEF Reply, IInv, TypeOK
  <2>2. toPlugin' = toPlugin \/ SendTo({p}, "reply", d)
    BY <1>1, <1>3 DEF Reply
  <2>3. /\ UNCHANGED <<plugins, booter, call, runtime, job>>
        /\ inbox' \in Seq(Events) /\ Len(inbox') <= Capacity /\ disturbed' \in BOOLEAN
    BY <1>3 DEF Reply, IInv, TypeOK
  <2>4. QED
    BY <2>1, <2>2, <2>3, AsideKeeps
<1>4. CASE GiveUp(j)
  <2>1. handler' \in [Jobs -> {"none", "running", "over"} \cup Calls]
    BY <1>4 DEF GiveUp, IInv, TypeOK
  <2>2. /\ UNCHANGED <<plugins, booter, call, toPlugin, runtime, job>>
        /\ inbox' \in Seq(Events) /\ Len(inbox') <= Capacity /\ disturbed' \in BOOLEAN
    BY <1>4 DEF GiveUp, IInv, TypeOK
  <2>3. QED
    BY <2>1, <2>2, AsideKeeps
<1>5. QED
  BY <1>2, <1>3, <1>4 DEF Serve

-----------------------------------------------------------------------------
(* Calls that begin and return. *)

LEMMA AskInv == ASSUME IInv, NEW c \in Calls, Ask(c) PROVE IInv'
<1>1. PICK ps, type : /\ ps \in {plugins} \cup {{p} : p \in plugins} /\ type \in {"list", "run"}
                      /\ Request(c, "ask", None, ps, type)
  BY DEF Ask
<1>2. /\ call[c].at = "idle" /\ UNCHANGED <<plugins, booter, runtime, job, inbox, handler, disturbed>>
      /\ booter' \in Calls \cup {None}
      /\ handler' \in [Jobs -> {"none", "running", "over"} \cup Calls]
  BY DEF Ask, IInv, TypeOK
<1>3. ps \subseteq plugins /\ IsFiniteSet(ps) /\ plugins \subseteq Refs
  BY <1>1, FS_Subset DEF IInv, TypeOK
<1>4. \A p \in ps : job[<<p, c>>] = "none" /\ ~OnWay(toPlugin, p, c) /\ WasRegistered(p)
  BY <1>2, <1>3 DEF IInv, Beginnings, Newcomers
<1>5. QED
  BY <1>1, <1>2, <1>3, <1>4, AsksKeeps

LEMMA StopInv ==
    ASSUME IInv, NEW c \in Calls, NEW d \in Managed, NEW kind \in {"uninstall", "reload"},
           Stop(c, d, kind)
    PROVE  IInv'
<1>1. PICK p \in plugins : Request(c, kind, d, {p}, "stop")
  BY DEF Stop
<1>2. /\ call[c].at = "idle" /\ UNCHANGED <<plugins, booter, runtime, job, inbox, handler, disturbed>>
      /\ booter' \in Calls \cup {None}
      /\ handler' \in [Jobs -> {"none", "running", "over"} \cup Calls]
  BY DEF Stop, IInv, TypeOK
<1>3. p \in Refs /\ {p} \in SUBSET Refs /\ IsFiniteSet({p}) /\ d \in Dirs
  BY FS_Singleton, ManagedDirs DEF IInv, TypeOK
<1>4. job[<<p, c>>] = "none" /\ ~OnWay(toPlugin, p, c) /\ WasRegistered(p)
  BY <1>2, <1>3 DEF IInv, Beginnings, Newcomers
<1>5. QED
  BY <1>1, <1>2, <1>3, <1>4, AsksKeeps

LEMMA BootInv == ASSUME IInv, NEW c \in Calls, Boot(c) PROVE IInv'
<1>1. /\ call[c].at = "queued" /\ Request(c, "boot", call[c].dir, {c}, "boot")
      /\ UNCHANGED <<plugins, runtime, job, inbox, disturbed>>
      /\ booter' \in Calls \cup {None}
      /\ handler' \in [Jobs -> {"none", "running", "over"} \cup Calls]
  BY DEF Boot, IInv, TypeOK
<1>2. c \in Refs /\ {c} \in SUBSET Refs /\ IsFiniteSet({c}) /\ call[c].dir \in Dirs \cup {None}
  BY FS_Singleton DEF IInv, TypeOK, CallRecord, Refs
<1>3. ~WasRegistered(c)
  BY <1>1, CallsAndHandles DEF WasRegistered
<1>4. job[<<c, c>>] = "none" /\ ~OnWay(toPlugin, c, c)
  <2>1. OnWay(toPlugin, c, c) \/ job[<<c, c>>] # "none" =>
           WasRegistered(c) \/ call[c].at # "queued"
    BY <1>2 DEF IInv, Newcomers
  <2>2. QED
    BY <1>1, <1>3, <2>1
<1>5. QED
  BY <1>1, <1>2, <1>3, <1>4, AsksKeeps

\* A plugin is told, and has nobody to answer to.
LEMMA TellInv == ASSUME IInv, NEW c \in Calls, Tell(c) PROVE IInv'
<1>1. PICK p \in plugins : SendTo({p}, "run", c)
  BY DEF Tell
<1>2. /\ call[c].at = "idle" /\ call[c].asked = {} /\ call[c].got = <<>>
      /\ p \in Refs /\ WasRegistered(p)
      /\ \A r \in Refs : job[<<r, c>>] = "none" /\ ~OnWay(toPlugin, r, c)
  BY DEF Tell, IInv, TypeOK, Beginnings, Newcomers
<1>3. /\ toPlugin' \in Seq(Events) /\ Once(toPlugin')
      /\ \A r \in Refs, d \in Calls : OnWay(toPlugin', r, d) =>
            OnWay(toPlugin, r, d) \/ (r = p /\ d = c)
      /\ \A r \in Refs, d \in Calls : StopOnWay(toPlugin', r, d) => StopOnWay(toPlugin, r, d)
  <2>1. toPlugin \in Seq(Events) /\ "run" \in EventTypes /\ Once(toPlugin)
    BY DEF IInv, TypeOK, EventTypes, PutOnce
  <2>2. IsFiniteSet({p}) /\ {p} \in SUBSET Refs /\ \A r \in {p} : ~OnWay(toPlugin, r, c)
    BY <1>2, FS_Singleton
  <2>3. QED
    BY <1>1, <2>1, <2>2, Sends
<1>4. /\ call' \in [Calls -> CallRecord]
      /\ \A d \in Calls \ {c} : call'[d] = call[d]
      /\ call'[c].kind = "tell" /\ call'[c].at = "done"
      /\ call'[c].asked = {} /\ call'[c].got = <<>> /\ call'[c].dir = call[c].dir
  BY <1>2 DEF Tell, IInv, TypeOK, CallRecord, Kinds
<1>5. UNCHANGED <<plugins, booter, runtime, job, inbox, handler, disturbed>>
  BY DEF Tell
<1>6. \A r : WasRegistered(r) => WasRegistered(r)'
  BY <1>2, <1>4 DEF WasRegistered
<1>7. TypeOK'
  BY <1>3, <1>4, <1>5 DEF IInv, TypeOK
<1>8. RegistryIsSound'
  <2>1. \A r \in plugins : DirIs(r)' = DirIs(r)
    BY <1>4 DEF DirIs, IInv, TypeOK, Refs
  <2>2. \A r \in plugins : BeingStopped(r) => BeingStopped(r)'
    BY <1>2, <1>4 DEF BeingStopped
  <2>3. QED
    BY <1>5, <2>1, <2>2 DEF IInv, RegistryIsSound, OnePerDir, RegisteredIsLive
<1>9. \A r \in Refs, d \in Calls : /\ Pending(r, d)' => Pending(r, d) \/ (r = p /\ d = c)
                                   /\ Stopping(r, d)' => Stopping(r, d)
  BY <1>3, <1>5 DEF Pending, AtWork, Stopping
<1>10. Beginnings'
  <2>1. ASSUME NEW d \in Calls \ {c}
        PROVE  \A r \in Refs : /\ OnWay(toPlugin', r, d) => OnWay(toPlugin, r, d)
                               /\ Pending(r, d)' => Pending(r, d)
    BY <1>3, <1>9
  <2>2. QED
    BY <1>4, <1>5, <2>1 DEF IInv, Beginnings
<1>11. Newcomers'
  <2>1. ASSUME NEW r \in Refs, NEW d \in Calls, OnWay(toPlugin', r, d) \/ job[<<r, d>>] # "none"
        PROVE  \/ WasRegistered(r)'
               \/ r = d /\ call'[d].kind = "boot" /\ call'[d].at # "queued"
    <3>1. CASE r = p /\ d = c
      BY <1>2, <1>6, <3>1
    <3>2. CASE OnWay(toPlugin, r, d) \/ job[<<r, d>>] # "none"
      <4>1. WasRegistered(r) \/ (r = d /\ call[d].kind = "boot" /\ call[d].at # "queued")
        BY <3>2 DEF IInv, Newcomers
      <4>2. d # c
        BY <1>2, <3>2
      <4>3. QED
        BY <1>4, <1>6, <4>1, <4>2
    <3>3. QED
      BY <1>3, <2>1, <3>1, <3>2
  <2>2. \A r \in plugins : WasRegistered(r)'
    BY <1>6 DEF IInv, Newcomers
  <2>3. QED
    BY <1>5, <2>1, <2>2 DEF Newcomers
<1>12. PutOnce'
  BY <1>2, <1>3, <1>5 DEF IInv, PutOnce
<1>13. Answers'
  <2>1. \A d \in Calls : call'[d].asked = call[d].asked /\ call'[d].got = call[d].got
    BY <1>2, <1>4
  <2>2. \A d \in Calls : Answered(d)' = Answered(d)
    BY <2>1 DEF Answered
  <2>3. Answered(c) = {}
    BY <1>2 DEF IInv, Answers
  <2>4. ASSUME NEW d \in Calls, NEW r \in Refs, Pending(r, d)'
        PROVE  r \notin Answered(d)' /\ (r \in call'[d].asked \/ call'[d].kind = "tell")
    <3>1. CASE d = c
      BY <1>4, <2>2, <2>3, <3>1
    <3>2. CASE d # c
      BY <1>4, <1>9, <2>2, <2>4, <3>2 DEF IInv, Answers
    <3>3. QED
      BY <3>1, <3>2
  <2>5. QED
    BY <2>1, <2>2, <2>4 DEF IInv, Answers
<1>14. Waits' /\ Boots'
  BY <1>4, <1>5 DEF IInv, Waits, Boots
<1>15. Stops'
  <2>1. ASSUME NEW r \in Refs, NEW d \in Calls, Stopping(r, d)'
        PROVE  /\ call'[d].kind \in {"uninstall", "reload"} /\ call'[d].at = "waiting"
               /\ call'[d].asked = {r} /\ WasRegistered(r)'
    <3>1. /\ call[d].kind \in {"uninstall", "reload"} /\ call[d].at = "waiting"
          /\ call[d].asked = {r} /\ WasRegistered(r)
      BY <1>9, <2>1 DEF IInv, Stops
    <3>2. QED
      BY <1>2, <1>4, <1>6, <3>1
  <2>2. QED
    BY <2>1 DEF Stops
<1>16. QED
  BY <1>5, <1>7, <1>8, <1>10, <1>11, <1>12, <1>13, <1>14, <1>15 DEF IInv

\* A call that returns, is given up, or queues for the lock keeps the invariant
\* when the registry of handles stays sound.
LEMMA ReturnKeeps ==
    ASSUME IInv, NEW c \in Calls,
           UNCHANGED <<toPlugin, runtime, job, inbox, handler>>,
           booter' \in Calls \cup {None}, disturbed' \in BOOLEAN,
           call' \in [Calls -> CallRecord], \A d \in Calls \ {c} : call'[d] = call[d],
           call'[c].asked = call[c].asked, call'[c].got = call[c].got,
           call[c].at \in {"idle", "waiting", "matched"},
           call[c].at = "waiting" => call[c].kind = "boot",
           call'[c].at \in {"queued", "done", "failed"},
           call'[c].at = "queued" => /\ call'[c].kind = "boot" /\ call[c].kind # "boot"
                                     /\ \A p \in Refs : ~Pending(p, c),
           call'[c].at # "queued" => call'[c].kind = call[c].kind,
           plugins' \in SUBSET Refs, IsFiniteSet(plugins'), RegistryIsSound',
           \A p \in plugins' : p \in plugins \/ (p = c /\ call'[c].at = "done")
    PROVE  IInv'
<1>1. \A r : WasRegistered(r) => WasRegistered(r)'
  BY DEF WasRegistered
<1>2. \A r \in Refs, d \in Calls : /\ Pending(r, d)' <=> Pending(r, d)
                                   /\ Stopping(r, d)' <=> Stopping(r, d)
  BY DEF Pending, AtWork, Stopping
<1>3. TypeOK'
  BY DEF IInv, TypeOK
<1>4. Beginnings'
  BY <1>2 DEF IInv, Beginnings
<1>5. Newcomers'
  <2>1. ASSUME NEW r \in Refs, NEW d \in Calls, OnWay(toPlugin, r, d) \/ job[<<r, d>>] # "none"
        PROVE  \/ WasRegistered(r)'
               \/ r = d /\ call'[d].kind = "boot" /\ call'[d].at # "queued"
    <3>1. WasRegistered(r) \/ (r = d /\ call[d].kind = "boot" /\ call[d].at # "queued")
      BY <2>1 DEF IInv, Newcomers
    <3>2. CASE WasRegistered(r)
      BY <1>1, <3>2
    <3>3. CASE r = d /\ call[d].kind = "boot" /\ call[d].at # "queued"
      BY <3>3
    <3>4. QED
      BY <3>1, <3>2, <3>3
  <2>2. \A r \in plugins' : WasRegistered(r)'
    BY <1>1 DEF IInv, Newcomers, WasRegistered
  <2>3. QED
    BY <2>1, <2>2 DEF Newcomers
<1>6. PutOnce'
  BY DEF IInv, PutOnce
<1>7. Answers'
  <2>1. \A d \in Calls : call'[d].asked = call[d].asked /\ call'[d].got = call[d].got
    OBVIOUS
  <2>2. \A d \in Calls : Answered(d)' = Answered(d)
    BY <2>1 DEF Answered
  <2>3. ASSUME NEW d \in Calls, NEW r \in Refs, Pending(r, d)'
        PROVE  r \notin Answered(d)' /\ (r \in call'[d].asked \/ call'[d].kind = "tell")
    <3>1. Pending(r, d) /\ r \notin Answered(d) /\ (r \in call[d].asked \/ call[d].kind = "tell")
      BY <1>2, <2>3 DEF IInv, Answers
    <3>2. d = c => call'[c].kind = call[c].kind
      BY <3>1
    <3>3. QED
      BY <2>1, <2>2, <3>1, <3>2
  <2>4. QED
    BY <2>1, <2>2, <2>3 DEF IInv, Answers
<1>8. Waits' /\ Boots'
  BY DEF IInv, Waits, Boots
<1>9. Stops'
  <2>1. ASSUME NEW r \in Refs, NEW d \in Calls, Stopping(r, d)'
        PROVE  /\ call'[d].kind \in {"uninstall", "reload"} /\ call'[d].at = "waiting"
               /\ call'[d].asked = {r} /\ WasRegistered(r)'
    <3>1. /\ call[d].kind \in {"uninstall", "reload"} /\ call[d].at = "waiting"
          /\ call[d].asked = {r} /\ WasRegistered(r)
      BY <1>2, <2>1 DEF IInv, Stops
    <3>2. QED
      BY <1>1, <3>1
  <2>2. QED
    BY <2>1 DEF Stops
<1>10. QED
  BY <1>3, <1>4, <1>5, <1>6, <1>7, <1>8, <1>9 DEF IInv

\* The registry stays sound when a call that stops nobody goes on.
LEMMA RegistryKept ==
    ASSUME IInv, NEW c \in Calls, UNCHANGED <<plugins, runtime>>,
           call' \in [Calls -> CallRecord], \A d \in Calls \ {c} : call'[d] = call[d],
           call'[c].dir = call[c].dir \/ c \notin plugins,
           call[c].kind \notin {"uninstall", "reload"}
    PROVE  RegistryIsSound'
<1>1. \A r \in plugins : DirIs(r)' = DirIs(r)
  BY DEF DirIs, IInv, TypeOK, Refs
<1>2. \A r \in plugins : BeingStopped(r) => BeingStopped(r)'
  BY DEF BeingStopped
<1>3. QED
  BY <1>1, <1>2 DEF IInv, RegistryIsSound, OnePerDir, RegisteredIsLive

LEMMA StartBootInv ==
    ASSUME IInv, NEW c \in Calls, NEW d \in Managed, StartBoot(c, d)
    PROVE  IInv'
<1>1. /\ call[c].at = "idle" /\ call[c].kind = None
      /\ UNCHANGED <<plugins, booter, toPlugin, runtime, job, inbox, handler, disturbed>>
      /\ booter' \in Calls \cup {None} /\ disturbed' \in BOOLEAN
      /\ plugins' \in SUBSET Refs /\ IsFiniteSet(plugins')
      /\ \A p \in Refs : job[<<p, c>>] = "none" /\ ~OnWay(toPlugin, p, c)
  BY DEF StartBoot, IInv, TypeOK, Beginnings
<1>2. /\ call' \in [Calls -> CallRecord] /\ \A e \in Calls \ {c} : call'[e] = call[e]
      /\ call'[c].kind = "boot" /\ call'[c].at = "queued"
      /\ call'[c].asked = call[c].asked /\ call'[c].got = call[c].got
  BY ManagedDirs DEF StartBoot, IInv, TypeOK, CallRecord, Kinds
<1>3. c \notin plugins
  BY <1>1, CallsAndHandles DEF IInv, Newcomers, WasRegistered
<1>4. call[c].kind \notin {"uninstall", "reload", "boot"}
  BY <1>1, NoneIsNoKind DEF Kinds
<1>5. RegistryIsSound'
  BY <1>1, <1>2, <1>3, <1>4, RegistryKept
<1>6. \A p \in Refs : ~Pending(p, c)
  BY <1>1 DEF Pending, AtWork
<1>7. QED
  BY <1>1, <1>2, <1>4, <1>5, <1>6, ReturnKeeps

LEMMA AskReturnsInv == ASSUME IInv, NEW c \in Calls, AskReturns(c) PROVE IInv'
<1>1. /\ call[c].at = "matched" /\ call[c].kind = "ask"
      /\ UNCHANGED <<plugins, booter, toPlugin, runtime, job, inbox, handler, disturbed>>
      /\ booter' \in Calls \cup {None} /\ disturbed' \in BOOLEAN
      /\ plugins' \in SUBSET Refs /\ IsFiniteSet(plugins')
  BY DEF AskReturns, IInv, TypeOK
<1>2. /\ call' \in [Calls -> CallRecord] /\ \A e \in Calls \ {c} : call'[e] = call[e]
      /\ call'[c].kind = "ask" /\ call'[c].at = "done" /\ call'[c].dir = call[c].dir
      /\ call'[c].asked = call[c].asked /\ call'[c].got = call[c].got
  BY <1>1 DEF AskReturns, IInv, TypeOK, CallRecord
<1>3. RegistryIsSound'
  BY <1>1, <1>2, RegistryKept
<1>4. QED
  BY <1>1, <1>2, <1>3, ReturnKeeps

LEMMA BootTimesOutInv == ASSUME IInv, NEW c \in Calls, BootTimesOut(c) PROVE IInv'
<1>1. /\ call[c].at \in {"waiting", "matched"} /\ call[c].kind = "boot"
      /\ UNCHANGED <<plugins, toPlugin, runtime, job, inbox, handler, disturbed>>
      /\ booter' \in Calls \cup {None} /\ disturbed' \in BOOLEAN
      /\ plugins' \in SUBSET Refs /\ IsFiniteSet(plugins')
  BY DEF BootTimesOut, IInv, TypeOK
<1>2. /\ call' \in [Calls -> CallRecord] /\ \A e \in Calls \ {c} : call'[e] = call[e]
      /\ call'[c].kind = "boot" /\ call'[c].at = "failed" /\ call'[c].dir = call[c].dir
      /\ call'[c].asked = call[c].asked /\ call'[c].got = call[c].got
  BY <1>1 DEF BootTimesOut, IInv, TypeOK, CallRecord
<1>3. RegistryIsSound'
  BY <1>1, <1>2, RegistryKept
<1>4. QED
  BY <1>1, <1>2, <1>3, ReturnKeeps

\* A matched call holds an answer of everybody it asked.
LEMMA MatchedIsAnswered ==
    ASSUME IInv, NEW c \in Calls, call[c].at = "matched"
    PROVE  Answered(c) = call[c].asked
<1>1. /\ IsFiniteSet(call[c].asked) /\ Answered(c) \subseteq call[c].asked
      /\ Cardinality(Answered(c)) = Cardinality(call[c].asked)
  BY DEF IInv, Answers, Waits
<1>2. QED
  BY <1>1, FS_Subset

LEMMA BootReturnsInv == ASSUME IInv, NEW c \in Calls, BootReturns(c) PROVE IInv'
<1>1. /\ call[c].at = "matched" /\ call[c].kind = "boot"
      /\ UNCHANGED <<toPlugin, runtime, job, inbox, handler>>
      /\ booter' \in Calls \cup {None} /\ disturbed' \in BOOLEAN
  BY DEF BootReturns, IInv, TypeOK
<1>2. /\ call' \in [Calls -> CallRecord] /\ \A e \in Calls \ {c} : call'[e] = call[e]
      /\ call'[c].kind = "boot" /\ call'[c].dir = call[c].dir
      /\ call'[c].at = IF call[c].ok THEN "done" ELSE "failed"
      /\ call'[c].asked = call[c].asked /\ call'[c].got = call[c].got
  BY <1>1 DEF BootReturns, IInv, TypeOK, CallRecord
<1>3. c \notin plugins /\ c \notin Built /\ c \in Refs
  BY <1>1, CallsAndHandles DEF IInv, Newcomers, WasRegistered, Refs
<1>4. CASE ~call[c].ok
  <2>1. plugins' = plugins /\ IsFiniteSet(plugins') /\ plugins' \in SUBSET Refs
    BY <1>4 DEF BootReturns, IInv, TypeOK
  <2>2. RegistryIsSound'
    BY <1>1, <1>2, <2>1, RegistryKept
  <2>3. QED
    BY <1>1, <1>2, <1>4, <2>1, <2>2, ReturnKeeps
<1>5. CASE call[c].ok
  <2>1. plugins' = {p \in plugins : DirIs(p) # call[c].dir} \cup {c}
    BY <1>5 DEF BootReturns, Registering
  <2>2. plugins' \in SUBSET Refs /\ IsFiniteSet(plugins')
    <3>1. IsFiniteSet({p \in plugins : DirIs(p) # call[c].dir})
      BY FS_Subset DEF IInv
    <3>2. QED
      BY <1>3, <2>1, <3>1, FS_AddElement DEF IInv, TypeOK
  <2>3. c \in runtime
    <3>1. call[c].asked = {c} /\ Answered(c) = {c}
      BY <1>1, MatchedIsAnswered DEF IInv, Boots
    <3>2. call[c].got # <<>>
      BY <3>1, EmptySeq DEF Answered
    <3>3. QED
      BY <1>1, <3>2 DEF IInv, Boots
  <2>4. RegistryIsSound'
    <3>1. \A r \in plugins : DirIs(r)' = DirIs(r)
      BY <1>2, <1>3 DEF DirIs, IInv, TypeOK, Refs
    <3>2. DirIs(c)' = call[c].dir
      BY <1>2, <1>3 DEF DirIs
    <3>3. OnePerDir'
      BY <2>1, <3>1, <3>2 DEF IInv, RegistryIsSound, OnePerDir
    <3>4. \A r \in plugins : BeingStopped(r) => BeingStopped(r)'
      BY <1>1, <1>2 DEF BeingStopped
    <3>5. RegisteredIsLive'
      BY <1>1, <2>1, <2>3, <3>4 DEF IInv, RegistryIsSound, RegisteredIsLive
    <3>6. QED
      BY <3>3, <3>5 DEF RegistryIsSound
  <2>5. \A p \in plugins' : p \in plugins \/ (p = c /\ call'[c].at = "done")
    BY <1>2, <1>5, <2>1
  <2>6. QED
    BY <1>1, <1>2, <1>5, <2>2, <2>4, <2>5, ReturnKeeps
<1>6. QED
  BY <1>4, <1>5

LEMMA StopReturnsInv == ASSUME IInv, NEW c \in Calls, StopReturns(c) PROVE IInv'
<1>1. /\ call[c].at = "matched" /\ call[c].kind \in {"uninstall", "reload"}
      /\ UNCHANGED <<booter, toPlugin, runtime, job, inbox, handler>>
      /\ booter' \in Calls \cup {None} /\ disturbed' \in BOOLEAN
      /\ plugins' = plugins \ call[c].asked
  BY DEF StopReturns, Removing, IInv, TypeOK
<1>2. /\ call' \in [Calls -> CallRecord] /\ \A e \in Calls \ {c} : call'[e] = call[e]
      /\ call'[c].kind = IF call[c].kind = "reload" THEN "boot" ELSE call[c].kind
      /\ call'[c].at = IF call[c].kind = "reload" THEN "queued" ELSE "done"
      /\ call'[c].dir = call[c].dir
      /\ call'[c].asked = call[c].asked /\ call'[c].got = call[c].got
  BY <1>1 DEF StopReturns, IInv, TypeOK, CallRecord, Kinds
<1>3. \A p \in Refs : ~Pending(p, c)
  BY <1>1, MatchedIsAnswered DEF IInv, Answers
<1>4. plugins' \in SUBSET Refs /\ IsFiniteSet(plugins') /\ plugins' \subseteq plugins
  BY <1>1, FS_Subset DEF IInv, TypeOK
<1>5. RegistryIsSound'
  <2>1. \A r \in plugins : DirIs(r)' = DirIs(r)
    BY <1>2 DEF DirIs, IInv, TypeOK, Refs
  <2>2. \A r \in plugins' : BeingStopped(r) => BeingStopped(r)'
    BY <1>1, <1>2 DEF BeingStopped
  <2>3. QED
    BY <1>1, <1>4, <2>1, <2>2 DEF IInv, RegistryIsSound, OnePerDir, RegisteredIsLive
<1>6. QED
  BY <1>1, <1>2, <1>3, <1>4, <1>5, ReturnKeeps

-----------------------------------------------------------------------------
LEMMA NextInv == IInv /\ [Next]_vars => IInv'
<1> SUFFICES ASSUME IInv, [Next]_vars PROVE IInv'
  OBVIOUS
<1>1. ASSUME NEW c \in Calls, User(c) PROVE IInv'
  BY <1>1, AskInv, TellInv, StartBootInv, StopInv DEF User
<1>2. ASSUME NEW c \in Calls, Manager(c) \/ BootTimesOut(c) PROVE IInv'
  BY <1>2, BootInv, AskReturnsInv, BootReturnsInv, StopReturnsInv, BootTimesOutInv DEF Manager
<1>3. ASSUME NEW j \in Jobs, Work(j) \/ Serve(j) PROVE IInv'
  BY <1>3, WorkInv, ServeInv
<1>4. CASE Arrive
  BY <1>4, ArriveInv
<1>5. CASE Monitor
  BY <1>5, MonitorInv
<1>6. CASE UNCHANGED vars
  <2>1. TypeOK' /\ IsFiniteSet(plugins)' /\ PutOnce' /\ Waits' /\ Boots'
    BY <1>6 DEF vars, IInv, TypeOK, PutOnce, Waits, Boots
  <2>2. RegistryIsSound'
    BY <1>6 DEF vars, IInv, RegistryIsSound, OnePerDir, RegisteredIsLive, BeingStopped, DirIs
  <2>3. Beginnings' /\ Newcomers' /\ Stops'
    BY <1>6 DEF vars, IInv, Beginnings, Newcomers, WasRegistered, Pending, AtWork, Stops, Stopping
  <2>4. Answers'
    <3>1. \A c \in Calls : Answered(c)' = Answered(c)
      BY <1>6 DEF vars, Answered
    <3>2. \A p \in Refs, c \in Calls : Pending(p, c)' <=> Pending(p, c)
      BY <1>6 DEF vars, Pending, AtWork
    <3>3. QED
      BY <1>6, <3>1, <3>2 DEF vars, IInv, Answers
  <2>5. QED
    BY <2>1, <2>2, <2>3, <2>4 DEF IInv
<1>7. QED
  BY <1>1, <1>2, <1>3, <1>4, <1>5, <1>6 DEF Next, System

\* The inductive invariant holds in every behaviour.
THEOREM Invariance == Spec => []IInv
BY InitInv, NextInv, PTL DEF Spec

\* Every variable has its type, and the monitor's channel never holds more than
\* it can, whatever plugins are booted, stopped and asked at once.
THEOREM TypeCorrect == Spec => []TypeOK
<1>1. IInv => TypeOK
  BY DEF IInv
<1>2. QED
  BY <1>1, Invariance, PTL

\* PluginManager.plugins has one handle of a directory, and each has an instance
\* unless somebody is stopping it.
THEOREM RegistrySound == Spec => []RegistryIsSound
<1>1. IInv => RegistryIsSound
  BY DEF IInv
<1>2. QED
  BY <1>1, Invariance, PTL

-----------------------------------------------------------------------------
(* The manager implements Requests: every step of it is one of Requests, or *)
(* changes nothing there.                                                   *)

Opened(c) == call[c].at \in {"waiting", "matched"}
Limited(c) == call[c].kind = "boot" /\ call[c].at # "queued"

\* The state of Requests is as it was.
Unmoved(c) ==
    /\ Opened(c)' = Opened(c)
    /\ Limited(c)' = Limited(c)
    /\ call'[c].asked = call[c].asked
    /\ Answered(c)' = Answered(c)

LEMMA Stutters ==
    ASSUME \A c \in Calls : Unmoved(c)
    PROVE  UNCHANGED Abstract!vars
<1>1. [c \in Calls |-> Opened(c)]' = [c \in Calls |-> Opened(c)]
  BY DEF Unmoved
<1>2. [c \in Calls |-> Limited(c)]' = [c \in Calls |-> Limited(c)]
  BY DEF Unmoved
<1>3. [c \in Calls |-> call[c].asked]' = [c \in Calls |-> call[c].asked]
  BY DEF Unmoved
<1>4. [c \in Calls |-> Answered(c)]' = [c \in Calls |-> Answered(c)]
  BY DEF Unmoved
<1>5. QED
  BY <1>1, <1>2, <1>3, <1>4 DEF Abstract!vars, Opened, Limited, Answered

LEMMA IsAsk ==
    ASSUME NEW c \in Calls, NEW ps \in SUBSET Refs, NEW limited \in BOOLEAN,
           \A d \in Calls \ {c} : Unmoved(d),
           ~Opened(c), Opened(c)' = TRUE, Limited(c)' = limited,
           call'[c].asked = ps, Answered(c)' = {}
    PROVE  Abstract!Next
<1>1. [d \in Calls |-> Opened(d)]' = [[d \in Calls |-> Opened(d)] EXCEPT ![c] = TRUE]
  BY DEF Unmoved
<1>2. [d \in Calls |-> Limited(d)]' = [[d \in Calls |-> Limited(d)] EXCEPT ![c] = limited]
  BY DEF Unmoved
<1>3. [d \in Calls |-> call[d].asked]' = [[d \in Calls |-> call[d].asked] EXCEPT ![c] = ps]
  BY DEF Unmoved
<1>4. [d \in Calls |-> Answered(d)]' = [[d \in Calls |-> Answered(d)] EXCEPT ![c] = {}]
  BY DEF Unmoved
<1>5. Abstract!Ask(c, ps, limited)
  BY <1>1, <1>2, <1>3, <1>4 DEF Abstract!Ask, Opened, Limited, Answered
<1>6. QED
  BY <1>5 DEF Abstract!Next

LEMMA IsAnswer ==
    ASSUME NEW c \in Calls, NEW p \in Refs, \A d \in Calls \ {c} : Unmoved(d),
           Opened(c), Opened(c)' = Opened(c), Limited(c)' = Limited(c),
           call'[c].asked = call[c].asked, p \in call[c].asked \ Answered(c),
           Answered(c)' = Answered(c) \cup {p}
    PROVE  Abstract!Next
<1>1. [d \in Calls |-> Opened(d)]' = [d \in Calls |-> Opened(d)]
  BY DEF Unmoved
<1>2. [d \in Calls |-> Limited(d)]' = [d \in Calls |-> Limited(d)]
  BY DEF Unmoved
<1>3. [d \in Calls |-> call[d].asked]' = [d \in Calls |-> call[d].asked]
  BY DEF Unmoved
<1>4. [d \in Calls |-> Answered(d)]' =
      [[d \in Calls |-> Answered(d)] EXCEPT ![c] = Answered(c) \cup {p}]
  BY DEF Unmoved
<1>5. Abstract!Answer(c, p)
  BY <1>1, <1>2, <1>3, <1>4 DEF Abstract!Answer, Opened, Limited, Answered
<1>6. QED
  BY <1>5 DEF Abstract!Next

LEMMA IsReturn ==
    ASSUME NEW c \in Calls, \A d \in Calls \ {c} : Unmoved(d),
           Opened(c), Answered(c) = call[c].asked \/ Limited(c),
           Opened(c)' = FALSE, Limited(c)' = Limited(c),
           call'[c].asked = call[c].asked, call'[c].got = call[c].got
    PROVE  Abstract!Next
<1>1. [d \in Calls |-> Opened(d)]' = [[d \in Calls |-> Opened(d)] EXCEPT ![c] = FALSE]
  BY DEF Unmoved
<1>2. [d \in Calls |-> Limited(d)]' = [d \in Calls |-> Limited(d)]
  BY DEF Unmoved
<1>3. [d \in Calls |-> call[d].asked]' = [d \in Calls |-> call[d].asked]
  BY DEF Unmoved
<1>4. [d \in Calls |-> Answered(d)]' = [d \in Calls |-> Answered(d)]
  <2>1. Answered(c)' = Answered(c)
    BY DEF Answered
  <2>2. QED
    BY <2>1 DEF Unmoved
<1>5. Abstract!Return(c)
  BY <1>1, <1>2, <1>3, <1>4 DEF Abstract!Return, Opened, Limited, Answered
<1>6. QED
  BY <1>5 DEF Abstract!Next

LEMMA SameIsUnmoved ==
    ASSUME NEW c \in Calls, call'[c] = call[c]
    PROVE  Unmoved(c)
BY DEF Unmoved, Opened, Limited, Answered

LEMMA RequestAsks ==
    ASSUME TypeOK, NEW c \in Calls, call[c].at \in {"idle", "queued"},
           NEW kind \in Kinds, NEW dir, NEW ps \in SUBSET Refs, NEW type,
           Request(c, kind, dir, ps, type)
    PROVE  Abstract!Next
<1>1. /\ \A d \in Calls \ {c} : call'[d] = call[d]
      /\ call'[c].kind = kind /\ call'[c].at = "waiting"
      /\ call'[c].asked = ps /\ call'[c].got = <<>>
  BY DEF Request, TypeOK
<1>2. \A d \in Calls \ {c} : Unmoved(d)
  BY <1>1, SameIsUnmoved
<1>3. Answered(c)' = {}
  BY <1>1 DEF Answered
<1>4. ~Opened(c) /\ Opened(c)' = TRUE /\ Limited(c)' = (kind = "boot")
  BY <1>1 DEF Opened, Limited
<1>5. (kind = "boot") \in BOOLEAN
  OBVIOUS
<1>6. QED
  BY <1>1, <1>2, <1>3, <1>4, <1>5, IsAsk

\* Each answer that a call takes is the first of its plugin.
LEMMA EmitAnswers ==
    ASSUME IInv, NEW type \in EventTypes, NEW p \in Refs, NEW d \in Calls,
           Emit(type, <<p, d>>), type \in {"answer", "error"} => Pending(p, d)
    PROVE  Abstract!Next \/ UNCHANGED Abstract!vars
<1>1. /\ call' \in [Calls -> CallRecord] /\ Heeds(p, d)
      /\ type \in {"answer", "error"} \/ \A c \in Calls : call'[c].got = call[c].got
  BY EmitHeeds DEF IInv
<1>2. ASSUME NEW c \in Calls
      PROVE  /\ Opened(c)' = Opened(c) /\ Limited(c)' = Limited(c)
             /\ call'[c].asked = call[c].asked
  BY <1>1 DEF Heeds, Opened, Limited
<1>3. ASSUME NEW c \in Calls, call'[c].got = call[c].got PROVE Unmoved(c)
  <2>1. Answered(c)' = Answered(c)
    BY <1>3 DEF Answered
  <2>2. QED
    BY <1>2, <2>1 DEF Unmoved
<1>4. \A c \in Calls \ {d} : Unmoved(c)
  BY <1>1, <1>3 DEF Heeds
<1>5. CASE call'[d].got = call[d].got
  BY <1>3, <1>4, <1>5, Stutters
<1>6. CASE call'[d].got # call[d].got
  <2>1. /\ call[d].at = "waiting" /\ p \in call[d].asked
        /\ call'[d].got = Append(call[d].got, p)
    BY <1>1, <1>6 DEF Heeds
  <2>2. p \notin Answered(d) /\ Opened(d)
    BY <1>1, <1>6, <2>1 DEF IInv, Answers, Opened
  <2>3. Answered(d)' = Answered(d) \cup {p}
    <3>1. PICK s, t : s = call[d].got /\ t = call'[d].got /\ s \in Seq(Refs)
      BY DEF IInv, TypeOK, CallRecord
    <3>2. t = Append(s, p)
      BY <2>1, <3>1
    <3>3. /\ Len(s) \in Nat /\ Len(t) = Len(s) + 1 /\ \A i \in 1..Len(s) : t[i] = s[i]
          /\ t[Len(s) + 1] = p /\ DOMAIN s = 1..Len(s) /\ DOMAIN t = 1..Len(t)
      BY <3>1, <3>2, AppendProperties, LenProperties
    <3>4. {t[i] : i \in DOMAIN t} = {s[i] : i \in DOMAIN s} \cup {p}
      <4>1. \A i \in 1..Len(t) : i \in 1..Len(s) \/ i = Len(s) + 1
        BY <3>3
      <4>2. (\A i \in 1..Len(s) : i \in 1..Len(t)) /\ Len(s) + 1 \in 1..Len(t)
        BY <3>3
      <4>3. QED
        BY <3>3, <4>1, <4>2
    <3>5. Answered(d)' = {t[i] : i \in DOMAIN t} /\ Answered(d) = {s[i] : i \in DOMAIN s}
      BY <3>1 DEF Answered
    <3>6. QED
      BY <3>4, <3>5
  <2>4. QED
    BY <1>2, <1>4, <2>1, <2>2, <2>3, IsAnswer
<1>7. QED
  BY <1>5, <1>6

LEMMA RuntimeAnswers ==
    ASSUME IInv, Arrive \/ \E j \in Jobs : Work(j)
    PROVE  Abstract!Next \/ UNCHANGED Abstract!vars
<1>1. CASE UNCHANGED call
  BY <1>1, SameIsUnmoved, Stutters
<1>2. CASE ListArrives
  <2>1. PICK p \in Refs, d \in Calls : TheJob = <<p, d>> /\ OnWay(toPlugin, p, d)
    BY <1>2, Arrival DEF ListArrives
  <2>2. QED
    BY <1>2, <2>1, EmitAnswers DEF ListArrives, Pending, EventTypes
<1>3. CASE ReplyArrives
  <2>1. PICK p \in Refs, d \in Calls : TheJob = <<p, d>>
    BY <1>3, Arrival DEF ReplyArrives
  <2>2. QED
    BY <1>3, <2>1, EmitAnswers DEF ReplyArrives, EventTypes
<1>4. ASSUME NEW p \in Refs, NEW d \in Calls, Work(<<p, d>>)
      PROVE  Abstract!Next \/ UNCHANGED Abstract!vars
  <2>1. CASE UseContext(<<p, d>>)
    BY <2>1, EmitAnswers DEF UseContext, EventTypes
  <2>2. CASE Finish(<<p, d>>) \/ Throw(<<p, d>>)
    BY <2>2, EmitAnswers DEF Finish, Throw, Ends, Pending, AtWork, EventTypes
  <2>3. CASE Disposed(<<p, d>>)
    BY <2>3, EmitAnswers DEF Disposed, Pending, AtWork, EventTypes
  <2>4. CASE DisposeThrows(<<p, d>>)
    BY <1>1, <2>4 DEF DisposeThrows
  <2>5. QED
    BY <1>4, <2>1, <2>2, <2>3, <2>4 DEF Work
<1>5. QED
  BY <1>1, <1>2, <1>3, <1>4
  DEF Arrive, BootArrives, Unheard, RunArrives, StopArrives, Quiet, Jobs

LEMMA Implements == IInv /\ [Next]_vars => [Abstract!Next]_(Abstract!vars)
<1> SUFFICES ASSUME IInv, [Next]_vars PROVE Abstract!Next \/ UNCHANGED Abstract!vars
  OBVIOUS
<1>1. TypeOK /\ plugins \subseteq Refs
  BY DEF IInv, TypeOK
<1>2. CASE UNCHANGED call
  BY <1>2, SameIsUnmoved, Stutters
<1>3. ASSUME NEW c \in Calls, User(c) PROVE Abstract!Next \/ UNCHANGED Abstract!vars
  <2>1. CASE Ask(c)
    <3>1. PICK ps, type : ps \subseteq plugins /\ Request(c, "ask", None, ps, type)
      BY <2>1 DEF Ask
    <3>2. QED
      BY <1>1, <2>1, <3>1, RequestAsks DEF Ask, Kinds
  <2>2. CASE Tell(c)
    <3>1. /\ \A d \in Calls \ {c} : call'[d] = call[d]
          /\ call[c].at = "idle" /\ call'[c].at = "done" /\ call'[c].kind = "tell"
          /\ call'[c].asked = call[c].asked /\ call'[c].got = call[c].got
          /\ call[c].kind = None
      BY <1>1, <2>2 DEF Tell, TypeOK, CallRecord, IInv, Beginnings
    <3>2. Unmoved(c)
      BY <3>1, NoneIsNoKind DEF Unmoved, Opened, Limited, Answered, Kinds
    <3>3. QED
      BY <3>1, <3>2, SameIsUnmoved, Stutters
  <2>3. ASSUME NEW d \in Managed, StartBoot(c, d)
        PROVE  Abstract!Next \/ UNCHANGED Abstract!vars
    <3>1. /\ \A e \in Calls \ {c} : call'[e] = call[e]
          /\ call[c].at = "idle" /\ call'[c].at = "queued"
          /\ call'[c].asked = call[c].asked /\ call'[c].got = call[c].got
          /\ call[c].kind = None
      BY <1>1, <2>3 DEF StartBoot, TypeOK, CallRecord, IInv, Beginnings
    <3>2. Unmoved(c)
      BY <3>1, NoneIsNoKind DEF Unmoved, Opened, Limited, Answered, Kinds
    <3>3. QED
      BY <3>1, <3>2, SameIsUnmoved, Stutters
  <2>4. ASSUME NEW d \in Managed, NEW kind \in {"uninstall", "reload"}, Stop(c, d, kind)
        PROVE  Abstract!Next
    <3>1. PICK p \in plugins : Request(c, kind, d, {p}, "stop")
      BY <2>4 DEF Stop
    <3>2. QED
      BY <1>1, <2>4, <3>1, RequestAsks DEF Stop, Kinds
  <2>5. QED
    BY <1>3, <2>1, <2>2, <2>3, <2>4 DEF User
<1>4. ASSUME NEW c \in Calls, Manager(c) \/ BootTimesOut(c)
      PROVE  Abstract!Next
  <2>1. CASE Boot(c)
    BY <1>1, <2>1, RequestAsks DEF Boot, Kinds, Refs
  <2>2. ASSUME AskReturns(c) \/ BootReturns(c) \/ StopReturns(c) \/ BootTimesOut(c)
        PROVE  /\ \A d \in Calls \ {c} : Unmoved(d)
               /\ Opened(c) /\ Opened(c)' = FALSE /\ Limited(c)' = Limited(c)
               /\ call'[c].asked = call[c].asked /\ call'[c].got = call[c].got
    <3>1. /\ \A d \in Calls \ {c} : call'[d] = call[d]
          /\ call[c].at \in {"waiting", "matched"}
          /\ call'[c].asked = call[c].asked /\ call'[c].got = call[c].got
          /\ \/ call'[c].at \in {"done", "failed"} /\ call'[c].kind = call[c].kind
             \/ call'[c].at = "queued" /\ call[c].kind = "reload"
      BY <1>1, <2>2 DEF TypeOK, CallRecord, AskReturns, BootReturns, StopReturns, BootTimesOut
    <3>2. Opened(c) /\ Opened(c)' = FALSE /\ Limited(c)' = Limited(c)
      BY <3>1 DEF Opened, Limited
    <3>3. QED
      BY <3>1, <3>2, SameIsUnmoved
  <2>3. AskReturns(c) \/ BootReturns(c) \/ StopReturns(c) => Answered(c) = call[c].asked
    BY MatchedIsAnswered DEF AskReturns, BootReturns, StopReturns
  <2>4. BootTimesOut(c) => Limited(c)
    BY DEF BootTimesOut, Limited
  <2>5. QED
    BY <1>4, <2>1, <2>2, <2>3, <2>4, IsReturn DEF Manager
<1>5. ASSUME NEW j \in Jobs, Serve(j) PROVE Abstract!Next \/ UNCHANGED Abstract!vars
  <2>1. CASE Render(j)
    <3>1. PICK c \in Calls : call[c].at = "idle" /\ Request(c, "ask", None, plugins, "run")
      BY <2>1 DEF Render
    <3>2. QED
      BY <1>1, <3>1, RequestAsks DEF Kinds
  <2>2. CASE Reply(j) \/ GiveUp(j)
    BY <1>2, <2>2 DEF Reply, GiveUp
  <2>3. QED
    BY <1>5, <2>1, <2>2 DEF Serve
<1>6. CASE Monitor
  BY <1>2, <1>6 DEF Monitor
<1>7. CASE UNCHANGED vars
  BY <1>2, <1>7 DEF vars
<1>8. QED
  BY <1>3, <1>4, <1>5, <1>6, <1>7, RuntimeAnswers DEF Next, System

LEMMA ImplementsInit == Init => Abstract!Init
<1> SUFFICES ASSUME Init PROVE Abstract!Init
  OBVIOUS
<1>1. \A c \in Calls : call[c] = NoCall
  BY DEF Init
<1>2. \A c \in Calls : /\ Opened(c) = FALSE /\ Limited(c) = FALSE
                       /\ call[c].asked = {} /\ Answered(c) = {}
  BY <1>1, NoneIsNoKind DEF Opened, Limited, Answered, NoCall, Kinds
<1>3. [c \in Calls |-> Opened(c)] = [c \in Calls |-> FALSE]
  BY <1>2
<1>4. [c \in Calls |-> Limited(c)] = [c \in Calls |-> FALSE]
  BY <1>2
<1>5. /\ [c \in Calls |-> call[c].asked] = [c \in Calls |-> {}]
      /\ [c \in Calls |-> Answered(c)] = [c \in Calls |-> {}]
  BY <1>2
<1>6. QED
  BY <1>3, <1>4, <1>5 DEF Abstract!Init, Opened, Limited, Answered

\* What send_to_plugins_and_wait returns are the answers of its own request, one
\* of each plugin it was put to, and only a boot is given up before that,
\* whatever events cross each other on the websocket.
THEOREM Pairing == Spec => AnswersPaired
BY ImplementsInit, Implements, Invariance, PTL DEF Spec, AnswersPaired, Abstract!Spec
=============================================================================
