-------------------------- MODULE WebsocketProofs ---------------------------
(* Proofs about Websocket for any connections, any number of commands      *)
(* under way, any capacity of the channel and any history.                 *)
EXTENDS Websocket, SequenceTheorems, TLAPS

RowType == [Conns -> States \union {"unborn", "gone"}]
LogType == [Conns -> Seq(Events)]
CmdType == [Callers -> [at : Steps \union {"idle"}, conn : Conns \union {0}]]

-----------------------------------------------------------------------------
(* Writes to the database keep its types.                                  *)
LEMMA UpsertType ==
    ASSUME TypeOK, NEW c \in Conns, NEW state \in States, Upsert(c, state)
    PROVE  row' \in RowType /\ log' \in LogType
<1>1. \A d \in Conns : row[d] \in States \union {"unborn", "gone"} /\ log[d] \in Seq(Events)
  BY DEF TypeOK
<1>2. <<>> \in Seq(Events)
  OBVIOUS
<1> QED
  BY <1>1, <1>2 DEF Upsert, RowType, LogType

LEMMA AddEventType ==
    ASSUME TypeOK, NEW c \in Conns, NEW event \in Events, AddEvent(c, event)
    PROVE  row' \in RowType /\ log' \in LogType
<1>1. Append(log[c], event) \in Seq(Events)
  BY DEF TypeOK
<1> QED
  BY <1>1 DEF AddEvent, TypeOK, RowType, LogType

LEMMA DropType ==
    ASSUME TypeOK, NEW gone, Drop(gone)
    PROVE  row' \in RowType /\ log' \in LogType
<1>1. \A d \in Conns : row[d] \in States \union {"unborn", "gone"} /\ log[d] \in Seq(Events)
  BY DEF TypeOK
<1>2. <<>> \in Seq(Events)
  OBVIOUS
<1> QED
  BY <1>1, <1>2 DEF Drop, RowType, LogType

LEMMA Marks ==
    /\ Mark("open") \in Events /\ Mark("sent") \in Events /\ Mark("close") \in Events
    /\ \A n \in Nat : Frame(n) \in Events
BY DEF Mark, Frame, Events

-----------------------------------------------------------------------------
(* Types.  A command that is not idle has a connection, and it was born.   *)
OnConn == \A k \in Callers :
    /\ cmd[k].at = "idle" <=> cmd[k].conn = 0
    /\ cmd[k].at # "idle" => row[cmd[k].conn] # "unborn"

\* The commands in the queue of the manager's lock are those at these steps,
\* each once, and whoever is past the lock is its holder.
Queued == {"dialing", "opened", "recorded", "sending", "writing", "closing",
           "saying", "grace"}
LocksOK ==
    /\ \A k \in Callers :
          cmd[k].at \in Queued <=> \E i \in 1..Len(outer) : outer[i] = k
    /\ \A i, j \in 1..Len(outer) : outer[i] = outer[j] => i = j
    /\ WritersHoldManager

Typed == TypeOK /\ OnConn /\ LocksOK

LEMMA ConnOf ==
    ASSUME Typed, NEW k \in Callers, cmd[k].at # "idle"
    PROVE  cmd[k].conn \in Conns
BY DEF Typed, TypeOK, OnConn

\* What changes of a command's record.
LEMMA GoToType ==
    ASSUME Typed, NEW k \in Callers, NEW step \in Steps, cmd[k].at # "idle", GoTo(k, step)
    PROVE  /\ cmd' \in CmdType
           /\ \A j \in Callers : cmd'[j].conn = cmd[j].conn
           /\ \A j \in Callers : j # k => cmd'[j] = cmd[j]
           /\ cmd'[k].at = step
BY DEF Typed, TypeOK, GoTo, CmdType

LEMMA BeginType ==
    ASSUME Typed, NEW k \in Callers, NEW step \in Steps, NEW c \in Conns, Begin(k, step, c)
    PROVE  /\ cmd' \in CmdType
           /\ cmd'[k].at = step /\ cmd'[k].conn = c
           /\ \A j \in Callers : j # k => cmd'[j] = cmd[j]
BY DEF Typed, TypeOK, Begin, CmdType

LEMMA ReturnType ==
    ASSUME Typed, NEW k \in Callers, Return(k)
    PROVE  /\ cmd' \in CmdType
           /\ cmd'[k].at = "idle" /\ cmd'[k].conn = 0
           /\ \A j \in Callers : j # k => cmd'[j] = cmd[j]
BY DEF Typed, TypeOK, Return, Idle, CmdType

LEMMA EnqueueType ==
    ASSUME Typed, NEW k \in Callers, Enqueue(k), cmd[k].at \notin Queued,
           cmd'[k].at \in {"dialing", "sending", "closing"},
           \A j \in Callers : j # k => cmd'[j] = cmd[j]
    PROVE  outer' \in Seq(Callers) /\ LocksOK'
<1>1. /\ outer \in Seq(Callers) /\ outer' = Append(outer, k)
      /\ Len(outer) \in Nat
  BY DEF Typed, TypeOK, Enqueue
<1>2. /\ outer' \in Seq(Callers) /\ Len(outer') = Len(outer) + 1
      /\ \A i \in 1..Len(outer) : outer'[i] = outer[i]
      /\ outer'[Len(outer) + 1] = k
  BY <1>1
<1>3. \A i \in 1..Len(outer) : outer[i] # k
  BY DEF Typed, LocksOK
<1>4. ASSUME NEW j \in Callers
      PROVE  cmd'[j].at \in Queued <=> \E i \in 1..Len(outer') : outer'[i] = j
  <2>1. CASE j = k
    BY <2>1, <1>1, <1>2 DEF Queued
  <2>2. CASE j # k
    <3>1. \A i \in 1..Len(outer') : outer'[i] = j => i \in 1..Len(outer)
      BY <2>2, <1>1, <1>2
    <3> QED
      BY <2>2, <3>1, <1>1, <1>2 DEF Typed, LocksOK
  <2> QED
    BY <2>1, <2>2
<1>5. \A i, j \in 1..Len(outer') : outer'[i] = outer'[j] => i = j
  <2> SUFFICES ASSUME NEW i \in 1..Len(outer'), NEW j \in 1..Len(outer'),
                      outer'[i] = outer'[j]
               PROVE  i = j
    OBVIOUS
  <2>1. i \in 1..Len(outer) \/ i = Len(outer) + 1
    BY <1>1, <1>2
  <2>2. j \in 1..Len(outer) \/ j = Len(outer) + 1
    BY <1>1, <1>2
  <2> QED
    BY <2>1, <2>2, <1>2, <1>3 DEF Typed, LocksOK
<1>6. ASSUME NEW j \in Callers,
             cmd'[j].at \in {"opened", "recorded", "writing", "saying", "grace"}
      PROVE  outer' # <<>> /\ Head(outer') = j
  <2>1. j # k
    BY <1>6
  <2>2. outer # <<>> /\ Head(outer) = j
    BY <1>6, <2>1 DEF Typed, LocksOK, WritersHoldManager, Holds
  <2>3. Len(outer) > 0 /\ outer[1] = j
    BY <1>1, <2>2
  <2> QED
    BY <1>1, <1>2, <2>3
<1> QED
  BY <1>2, <1>4, <1>5, <1>6 DEF LocksOK, WritersHoldManager, Holds

LEMMA ReleaseType ==
    ASSUME Typed, NEW k \in Callers, Holds(k), Release, cmd'[k].at = "idle",
           \A j \in Callers : j # k => cmd'[j] = cmd[j]
    PROVE  outer' \in Seq(Callers) /\ LocksOK'
<1>1. /\ outer \in Seq(Callers) /\ outer' = Tail(outer) /\ outer # <<>>
      /\ Head(outer) = k
  BY DEF Typed, TypeOK, Release, Holds
<1>2. /\ outer' \in Seq(Callers) /\ Len(outer') = Len(outer) - 1
      /\ \A i \in 1..Len(outer') : outer'[i] = outer[i + 1]
      /\ Len(outer) \in Nat \ {0} /\ outer[1] = k
  BY <1>1, HeadTailProperties
<1>3. \A i \in 2..Len(outer) : outer[i] # k
  BY <1>2 DEF Typed, LocksOK
<1>4. ASSUME NEW j \in Callers
      PROVE  cmd'[j].at \in Queued <=> \E i \in 1..Len(outer') : outer'[i] = j
  <2>1. CASE j = k
    <3>1. \A i \in 1..Len(outer') : outer'[i] # j
      BY <2>1, <1>2, <1>3
    <3> QED
      BY <2>1, <3>1 DEF Queued
  <2>2. CASE j # k
    <3>1. \A i \in 1..Len(outer) : outer[i] = j => i - 1 \in 1..Len(outer')
      BY <2>2, <1>2
    <3>2. \A i \in 1..Len(outer) : outer[i] = j => outer'[i - 1] = j
      BY <3>1, <1>2
    <3>3. \A i \in 1..Len(outer') :
             outer'[i] = j => i + 1 \in 1..Len(outer) /\ outer[i + 1] = j
      BY <1>2
    <3>4. (\E i \in 1..Len(outer) : outer[i] = j) <=> \E i \in 1..Len(outer') : outer'[i] = j
      BY <3>1, <3>2, <3>3
    <3> QED
      BY <2>2, <3>4 DEF Typed, LocksOK
  <2> QED
    BY <2>1, <2>2
<1>5. \A i, j \in 1..Len(outer') : outer'[i] = outer'[j] => i = j
  <2> SUFFICES ASSUME NEW i \in 1..Len(outer'), NEW j \in 1..Len(outer'),
                      outer'[i] = outer'[j]
               PROVE  i = j
    OBVIOUS
  <2>1. i + 1 \in 1..Len(outer) /\ j + 1 \in 1..Len(outer)
    BY <1>2
  <2>2. outer[i + 1] = outer[j + 1]
    BY <1>2
  <2>3. i + 1 = j + 1
    BY <2>1, <2>2 DEF Typed, LocksOK
  <2> QED
    BY <2>3
<1>6. ASSUME NEW j \in Callers,
             cmd'[j].at \in {"opened", "recorded", "writing", "saying", "grace"}
      PROVE  FALSE
  BY <1>6, <1>1 DEF Typed, LocksOK, WritersHoldManager, Holds
<1> QED
  BY <1>2, <1>4, <1>5, <1>6 DEF LocksOK, WritersHoldManager, Holds

\* A step of the holder, or of a command that has nothing to do with the lock.
LEMMA SameLock ==
    ASSUME Typed, NEW k \in Callers, UNCHANGED outer,
           \/ cmd[k].at \in Queued /\ cmd'[k].at \in Queued /\ Holds(k)
           \/ cmd[k].at \notin Queued /\ cmd'[k].at \notin Queued,
           \A j \in Callers : j # k => cmd'[j] = cmd[j]
    PROVE  LocksOK'
<1>1. \A j \in Callers : cmd'[j].at \in Queued <=> cmd[j].at \in Queued
  OBVIOUS
<1>2. ASSUME NEW j \in Callers,
             cmd'[j].at \in {"opened", "recorded", "writing", "saying", "grace"}
      PROVE  Holds(j)'
  <2>1. CASE j = k
    BY <2>1, <1>2 DEF Holds, Queued
  <2>2. CASE j # k
    BY <2>2, <1>2 DEF Holds, Typed, LocksOK, WritersHoldManager
  <2> QED
    BY <2>1, <2>2
<1> QED
  BY <1>1, <1>2 DEF Typed, LocksOK, WritersHoldManager

\* Steps are not idle, and the rows of an upsert are born.
LEMMA StepNames == \A step \in Steps : step # "idle"
BY DEF Steps, Connecting, Sending, Closing

LEMMA UpsertBorn ==
    ASSUME Typed, NEW c \in Conns, NEW state \in States, Upsert(c, state)
    PROVE  \A d \in Conns : row[d] # "unborn" \/ d = c => row'[d] # "unborn"
BY DEF Upsert, States, Typed, TypeOK

LEMMA OnConnKept ==
    ASSUME Typed, NEW k \in Callers,
           \A j \in Callers : j # k => cmd'[j] = cmd[j],
           \A d \in Conns : row[d] # "unborn" => row'[d] # "unborn",
           cmd'[k].at = "idle" <=> cmd'[k].conn = 0,
           cmd'[k].at # "idle" => cmd'[k].conn \in Conns /\ row'[cmd'[k].conn] # "unborn"
    PROVE  OnConn'
BY ConnOf DEF Typed, OnConn

LEMMA ConnectTyped ==
    ASSUME Typed, NEW k \in Callers,
           \/ StartConnect(k) \/ PrepareFails(k) \/ Prepared(k) \/ DialFails(k)
           \/ Dial(k) \/ RecordOpen(k) \/ MarkConnected(k) \/ ConnectBreaks(k)
    PROVE  Typed'
<1> USE ConnOf DEF Runs
<1> DEFINE c == cmd[k].conn
<1>1. CASE StartConnect(k)
  <2>1. PICK d \in Conns : Fresh(d) /\ Upsert(d, "initialized") /\ Begin(k, "preparing", d)
    BY <1>1 DEF StartConnect
  <2>2. row' \in RowType /\ log' \in LogType
    BY <2>1, UpsertType DEF States, Typed
  <2>3. /\ cmd' \in CmdType /\ cmd'[k].at = "preparing" /\ cmd'[k].conn = d
        /\ \A j \in Callers : j # k => cmd'[j] = cmd[j]
    BY <2>1, BeginType DEF Steps, Connecting
  <2>4. \A e \in Conns : row[e] # "unborn" \/ e = d => row'[e] # "unborn"
    BY <2>1, UpsertBorn DEF States
  <2>5. OnConn'
    BY <2>3, <2>4, OnConnKept, ConnsAssumption
  <2>6. LocksOK'
    BY <1>1, <2>3, SameLock DEF StartConnect, Queued
  <2> QED
    BY <1>1, <2>2, <2>3, <2>5, <2>6
    DEF StartConnect, Typed, TypeOK, RowType, LogType, CmdType, manager, stream, server
<1>2. CASE PrepareFails(k)
  <2>1. c \in Conns
    BY <1>2 DEF PrepareFails
  <2>2. row' \in RowType /\ log' \in LogType
    BY <1>2, <2>1, UpsertType
    DEF PrepareFails, UpsertFails, States, Typed, TypeOK, RowType, LogType, rows
  <2>3. \A e \in Conns : row[e] # "unborn" => row'[e] # "unborn"
    BY <1>2, <2>1, UpsertBorn DEF PrepareFails, UpsertFails, States, rows
  <2>4. /\ cmd' \in CmdType /\ cmd'[k].at = "idle" /\ cmd'[k].conn = 0
        /\ \A j \in Callers : j # k => cmd'[j] = cmd[j]
    BY <1>2, ReturnType DEF PrepareFails
  <2>5. OnConn'
    BY <2>3, <2>4, OnConnKept
  <2>6. LocksOK'
    BY <1>2, <2>4, SameLock DEF PrepareFails, Queued
  <2> QED
    BY <1>2, <2>2, <2>4, <2>5, <2>6
    DEF PrepareFails, Typed, TypeOK, RowType, LogType, CmdType, manager, stream, server
<1>3. CASE Prepared(k)
  <2>1. /\ cmd' \in CmdType /\ \A j \in Callers : cmd'[j].conn = cmd[j].conn
        /\ cmd'[k].at = "dialing" /\ \A j \in Callers : j # k => cmd'[j] = cmd[j]
    BY <1>3, GoToType DEF Prepared, Steps, Connecting
  <2>2. OnConn'
    BY <1>3, <2>1, OnConnKept, ConnsAssumption DEF Prepared, rows, Typed, OnConn
  <2>3. outer' \in Seq(Callers) /\ LocksOK'
    BY <1>3, <2>1, EnqueueType DEF Prepared, Queued
  <2> QED
    BY <1>3, <2>1, <2>2, <2>3
    DEF Prepared, Typed, TypeOK, CmdType, rows, manager, stream, server
<1>4. CASE DialFails(k)
  <2>1. c \in Conns
    BY <1>4 DEF DialFails
  <2>2. row' \in RowType /\ log' \in LogType
    BY <1>4, <2>1, UpsertType
    DEF DialFails, UpsertFails, States, Typed, TypeOK, RowType, LogType, rows
  <2>3. \A e \in Conns : row[e] # "unborn" => row'[e] # "unborn"
    BY <1>4, <2>1, UpsertBorn DEF DialFails, UpsertFails, States, rows
  <2>4. /\ cmd' \in CmdType /\ cmd'[k].at = "idle" /\ cmd'[k].conn = 0
        /\ \A j \in Callers : j # k => cmd'[j] = cmd[j]
    BY <1>4, ReturnType DEF DialFails
  <2>5. OnConn'
    BY <2>3, <2>4, OnConnKept
  <2>6. outer' \in Seq(Callers) /\ LocksOK'
    BY <1>4, <2>4, ReleaseType DEF DialFails
  <2> QED
    BY <1>4, <2>2, <2>4, <2>5, <2>6
    DEF DialFails, Typed, TypeOK, RowType, LogType, CmdType, manager, stream, server
<1>5. CASE Dial(k)
  <2>1. c \in Conns
    BY <1>5 DEF Dial
  <2>2. /\ cmd' \in CmdType /\ \A j \in Callers : cmd'[j].conn = cmd[j].conn
        /\ cmd'[k].at = "opened" /\ \A j \in Callers : j # k => cmd'[j] = cmd[j]
    BY <1>5, GoToType DEF Dial, Steps, Connecting
  <2>3. OnConn'
    BY <1>5, <2>1, <2>2, OnConnKept, ConnsAssumption DEF Dial, rows, Typed, OnConn
  <2>4. LocksOK'
    BY <1>5, <2>2, SameLock DEF Dial, Queued
  <2> QED
    BY <1>5, <2>1, <2>2, <2>3, <2>4 DEF Dial, Typed, TypeOK, CmdType, rows
<1>6. CASE RecordOpen(k)
  <2>1. c \in Conns /\ Holds(k)
    BY <1>6 DEF RecordOpen, Typed, LocksOK, WritersHoldManager
  <2>2. row' \in RowType /\ log' \in LogType /\ row' = row
    BY <1>6, <2>1, AddEventType, Marks
    DEF RecordOpen, AddFails, AddEvent, Typed, TypeOK, RowType, LogType, rows
  <2>3. CASE GoTo(k, "recorded") /\ UNCHANGED outer
    <3>1. /\ cmd' \in CmdType /\ \A j \in Callers : cmd'[j].conn = cmd[j].conn
          /\ cmd'[k].at = "recorded" /\ \A j \in Callers : j # k => cmd'[j] = cmd[j]
      BY <1>6, <2>3, GoToType DEF RecordOpen, Steps, Connecting
    <3>2. OnConn'
      BY <1>6, <2>1, <2>2, <3>1, OnConnKept, ConnsAssumption
      DEF RecordOpen, Typed, OnConn
    <3>3. LocksOK'
      BY <1>6, <2>1, <2>3, <3>1, SameLock DEF RecordOpen, Queued
    <3> QED
      BY <1>6, <2>1, <2>2, <2>3, <3>1, <3>2, <3>3
      DEF RecordOpen, Typed, TypeOK, CmdType, RowType, LogType, stream, server
  <2>4. CASE Return(k) /\ Release
    <3>1. /\ cmd' \in CmdType /\ cmd'[k].at = "idle" /\ cmd'[k].conn = 0
          /\ \A j \in Callers : j # k => cmd'[j] = cmd[j]
      BY <2>4, ReturnType
    <3>2. OnConn'
      BY <2>2, <3>1, OnConnKept
    <3>3. outer' \in Seq(Callers) /\ LocksOK'
      BY <2>1, <2>4, <3>1, ReleaseType
    <3> QED
      BY <1>6, <2>1, <2>2, <3>1, <3>2, <3>3
      DEF RecordOpen, Typed, TypeOK, CmdType, RowType, LogType, stream, server
  <2> QED
    BY <1>6, <2>3, <2>4 DEF RecordOpen
<1>7. CASE MarkConnected(k)
  <2>1. c \in Conns /\ Holds(k)
    BY <1>7 DEF MarkConnected, Typed, LocksOK, WritersHoldManager
  <2>2. row' \in RowType /\ log' \in LogType
    BY <1>7, <2>1, UpsertType DEF MarkConnected, States, Typed
  <2>3. \A e \in Conns : row[e] # "unborn" => row'[e] # "unborn"
    BY <1>7, <2>1, UpsertBorn DEF MarkConnected, States
  <2>4. /\ cmd' \in CmdType /\ cmd'[k].at = "idle" /\ cmd'[k].conn = 0
        /\ \A j \in Callers : j # k => cmd'[j] = cmd[j]
    BY <1>7, ReturnType DEF MarkConnected
  <2>5. OnConn'
    BY <2>3, <2>4, OnConnKept
  <2>6. outer' \in Seq(Callers) /\ LocksOK'
    BY <1>7, <2>1, <2>4, ReleaseType DEF MarkConnected
  <2> QED
    BY <1>7, <2>1, <2>2, <2>4, <2>5, <2>6
    DEF MarkConnected, Typed, TypeOK, RowType, LogType, CmdType, manager, stream, server
<1>8. CASE ConnectBreaks(k)
  <2>1. Holds(k)
    BY <1>8 DEF ConnectBreaks, Typed, LocksOK, WritersHoldManager
  <2>2. /\ cmd' \in CmdType /\ cmd'[k].at = "idle" /\ cmd'[k].conn = 0
        /\ \A j \in Callers : j # k => cmd'[j] = cmd[j]
    BY <1>8, ReturnType DEF ConnectBreaks
  <2>3. OnConn'
    BY <1>8, <2>2, OnConnKept DEF ConnectBreaks, rows
  <2>4. outer' \in Seq(Callers) /\ LocksOK'
    BY <1>8, <2>1, <2>2, ReleaseType DEF ConnectBreaks
  <2> QED
    BY <1>8, <2>2, <2>3, <2>4
    DEF ConnectBreaks, Typed, TypeOK, CmdType, rows, manager, stream, server
<1> QED
  BY <1>1, <1>2, <1>3, <1>4, <1>5, <1>6, <1>7, <1>8

LEMMA SendTyped ==
    ASSUME Typed, NEW k \in Callers,
           \/ StartSend(k) \/ SendNowhere(k) \/ StartWrite(k) \/ WriteDone(k)
           \/ WriteFails(k)
    PROVE  Typed'
<1> USE ConnOf DEF Runs
<1>1. CASE StartSend(k)
  <2>1. PICK d \in Stored : Begin(k, "sending", d)
    BY <1>1 DEF StartSend
  <2>2. d \in Conns /\ row[d] # "unborn"
    BY DEF Stored, States
  <2>3. /\ cmd' \in CmdType /\ cmd'[k].at = "sending" /\ cmd'[k].conn = d
        /\ \A j \in Callers : j # k => cmd'[j] = cmd[j]
    BY <2>1, <2>2, BeginType DEF Steps, Sending
  <2>4. OnConn'
    BY <1>1, <2>2, <2>3, OnConnKept, ConnsAssumption DEF StartSend, rows
  <2>5. outer' \in Seq(Callers) /\ LocksOK'
    BY <1>1, <2>3, EnqueueType DEF StartSend, Queued
  <2> QED
    BY <1>1, <2>3, <2>4, <2>5
    DEF StartSend, Typed, TypeOK, CmdType, rows, manager, stream, server
<1>2. CASE SendNowhere(k) \/ WriteDone(k)
  <2>1. cmd[k].conn \in Conns /\ Holds(k) /\ NoteSent(k)
    BY <1>2 DEF SendNowhere, WriteDone, Typed, LocksOK, WritersHoldManager
  <2>2. row' \in RowType /\ log' \in LogType /\ row' = row
    BY <2>1, AddEventType, Marks
    DEF NoteSent, AddFails, AddEvent, Typed, TypeOK, RowType, LogType, rows
  <2>3. /\ cmd' \in CmdType /\ cmd'[k].at = "idle" /\ cmd'[k].conn = 0
        /\ \A j \in Callers : j # k => cmd'[j] = cmd[j]
    BY <2>1, ReturnType DEF NoteSent
  <2>4. OnConn'
    BY <2>2, <2>3, OnConnKept
  <2>5. outer' \in Seq(Callers) /\ LocksOK'
    BY <2>1, <2>3, ReleaseType DEF NoteSent
  <2> QED
    BY <1>2, <2>2, <2>3, <2>4, <2>5
    DEF SendNowhere, WriteDone, Typed, TypeOK, RowType, LogType, CmdType, manager,
        stream, server
<1>3. CASE StartWrite(k)
  <2>1. /\ cmd' \in CmdType /\ \A j \in Callers : cmd'[j].conn = cmd[j].conn
        /\ cmd'[k].at = "writing" /\ \A j \in Callers : j # k => cmd'[j] = cmd[j]
    BY <1>3, GoToType DEF StartWrite, Steps, Sending
  <2>2. OnConn'
    BY <1>3, <2>1, OnConnKept, ConnsAssumption DEF StartWrite, rows, Typed, OnConn
  <2>3. LocksOK'
    BY <1>3, <2>1, SameLock DEF StartWrite, Queued
  <2> QED
    BY <1>3, <2>1, <2>2, <2>3
    DEF StartWrite, Typed, TypeOK, CmdType, rows, manager, stream, server
<1>4. CASE WriteFails(k)
  <2>1. Holds(k)
    BY <1>4 DEF WriteFails, Typed, LocksOK, WritersHoldManager
  <2>2. /\ cmd' \in CmdType /\ cmd'[k].at = "idle" /\ cmd'[k].conn = 0
        /\ \A j \in Callers : j # k => cmd'[j] = cmd[j]
    BY <1>4, ReturnType DEF WriteFails
  <2>3. OnConn'
    BY <1>4, <2>2, OnConnKept DEF WriteFails, rows
  <2>4. outer' \in Seq(Callers) /\ LocksOK'
    BY <1>4, <2>1, <2>2, ReleaseType DEF WriteFails
  <2> QED
    BY <1>4, <2>2, <2>3, <2>4
    DEF WriteFails, Typed, TypeOK, CmdType, rows, manager, stream, server
<1> QED
  BY <1>1, <1>2, <1>3, <1>4

LEMMA CloseTyped ==
    ASSUME Typed, NEW k \in Callers,
           \/ StartClose(k) \/ MarkClosing(k) \/ TakeSocket(k) \/ SaidGoodbye(k)
           \/ GoodbyeFails(k) \/ StopReading(k)
    PROVE  Typed'
<1> USE ConnOf DEF Runs
<1>1. CASE StartClose(k)
  <2>1. PICK d \in Stored : Begin(k, "marking", d)
    BY <1>1 DEF StartClose
  <2>2. d \in Conns /\ row[d] # "unborn"
    BY DEF Stored, States
  <2>3. /\ cmd' \in CmdType /\ cmd'[k].at = "marking" /\ cmd'[k].conn = d
        /\ \A j \in Callers : j # k => cmd'[j] = cmd[j]
    BY <2>1, <2>2, BeginType DEF Steps, Closing
  <2>4. OnConn'
    BY <1>1, <2>2, <2>3, OnConnKept, ConnsAssumption DEF StartClose, rows
  <2>5. LocksOK'
    BY <1>1, <2>3, SameLock DEF StartClose, Queued
  <2> QED
    BY <1>1, <2>3, <2>4, <2>5
    DEF StartClose, Typed, TypeOK, CmdType, rows, manager, stream, server
<1>2. CASE MarkClosing(k)
  <2>1. cmd[k].conn \in Conns
    BY <1>2 DEF MarkClosing
  <2>2. row' \in RowType /\ log' \in LogType
    BY <1>2, <2>1, UpsertType
    DEF MarkClosing, UpsertFails, States, Typed, TypeOK, RowType, LogType, rows
  <2>3. \A e \in Conns : row[e] # "unborn" => row'[e] # "unborn"
    BY <1>2, <2>1, UpsertBorn DEF MarkClosing, UpsertFails, States, rows
  <2>4. CASE GoTo(k, "closing") /\ Enqueue(k)
    <3>1. /\ cmd' \in CmdType /\ \A j \in Callers : cmd'[j].conn = cmd[j].conn
          /\ cmd'[k].at = "closing" /\ \A j \in Callers : j # k => cmd'[j] = cmd[j]
      BY <1>2, <2>4, GoToType DEF MarkClosing, Steps, Closing
    <3>2. OnConn'
      BY <1>2, <2>1, <2>3, <3>1, OnConnKept, ConnsAssumption
      DEF MarkClosing, Typed, OnConn
    <3>3. outer' \in Seq(Callers) /\ LocksOK'
      BY <1>2, <2>4, <3>1, EnqueueType DEF MarkClosing, Queued
    <3> QED
      BY <1>2, <2>2, <3>1, <3>2, <3>3
      DEF MarkClosing, Typed, TypeOK, RowType, LogType, CmdType, manager, stream, server
  <2>5. CASE Return(k) /\ UNCHANGED outer
    <3>1. /\ cmd' \in CmdType /\ cmd'[k].at = "idle" /\ cmd'[k].conn = 0
          /\ \A j \in Callers : j # k => cmd'[j] = cmd[j]
      BY <2>5, ReturnType
    <3>2. OnConn'
      BY <2>3, <3>1, OnConnKept
    <3>3. LocksOK'
      BY <1>2, <2>5, <3>1, SameLock DEF MarkClosing, Queued
    <3> QED
      BY <1>2, <2>2, <2>5, <3>1, <3>2, <3>3
      DEF MarkClosing, Typed, TypeOK, RowType, LogType, CmdType, manager, stream, server
  <2> QED
    BY <1>2, <2>4, <2>5 DEF MarkClosing
<1>3. CASE TakeSocket(k) \/ SaidGoodbye(k) \/ GoodbyeFails(k)
  <2>1. PICK step \in {"saying", "grace"} : GoTo(k, step)
    BY <1>3 DEF TakeSocket, SaidGoodbye, GoodbyeFails
  <2>2. /\ cmd' \in CmdType /\ \A j \in Callers : cmd'[j].conn = cmd[j].conn
        /\ cmd'[k].at = step /\ \A j \in Callers : j # k => cmd'[j] = cmd[j]
    BY <1>3, <2>1, GoToType DEF TakeSocket, SaidGoodbye, GoodbyeFails, Steps, Closing
  <2>3. OnConn'
    BY <1>3, <2>2, OnConnKept, ConnsAssumption
    DEF TakeSocket, SaidGoodbye, GoodbyeFails, rows, Typed, OnConn
  <2>4. Holds(k) /\ cmd[k].at \in Queued
    BY <1>3 DEF TakeSocket, SaidGoodbye, GoodbyeFails, Queued, Typed, LocksOK,
                WritersHoldManager
  <2>5. LocksOK'
    BY <1>3, <2>2, <2>4, SameLock DEF TakeSocket, SaidGoodbye, GoodbyeFails, Queued
  <2> QED
    BY <1>3, <2>2, <2>3, <2>5
    DEF TakeSocket, SaidGoodbye, GoodbyeFails, Typed, TypeOK, CmdType, rows, manager,
        stream, server
<1>4. CASE StopReading(k)
  <2>1. Holds(k) /\ cmd[k].conn \in Conns
    BY <1>4 DEF StopReading, Typed, LocksOK, WritersHoldManager
  <2>2. /\ cmd' \in CmdType /\ cmd'[k].at = "idle" /\ cmd'[k].conn = 0
        /\ \A j \in Callers : j # k => cmd'[j] = cmd[j]
    BY <1>4, ReturnType DEF StopReading
  <2>3. OnConn'
    BY <1>4, <2>2, OnConnKept DEF StopReading, rows
  <2>4. outer' \in Seq(Callers) /\ LocksOK'
    BY <1>4, <2>1, <2>2, ReleaseType DEF StopReading
  <2>5. reader' \in [Conns -> {"none", "reading", "ending", "dead"}]
    BY <1>4, <2>1 DEF StopReading, Aborted, Typed, TypeOK
  <2> QED
    BY <1>4, <2>1, <2>2, <2>3, <2>4, <2>5
    DEF StopReading, Typed, TypeOK, CmdType, rows, server
<1> QED
  BY <1>1, <1>2, <1>3, <1>4

\* Steps of tasks, servers and deletions leave the commands alone.
LEMMA LocksKept ==
    ASSUME Typed, UNCHANGED locks,
           \A d \in Conns : row[d] # "unborn" => row'[d] # "unborn"
    PROVE  OnConn' /\ LocksOK'
<1>1. OnConn'
  BY ConnOf DEF locks, Typed, OnConn
<1>2. LocksOK'
  BY DEF locks, Typed, LocksOK, WritersHoldManager, Holds
<1> QED
  BY <1>1, <1>2

LEMMA TaskTyped ==
    ASSUME Typed, NEW c \in Conns, Reader(c) \/ Forwarder(c) \/ Server(c)
    PROVE  Typed'
<1>1. CASE ReadFrame(c)
  <2>1. queue[c] \in Seq(Nat) /\ heard[c] \in Nat /\ Len(queue[c]) < Capacity
    BY <1>1 DEF ReadFrame, Room, Typed, TypeOK
  <2>2. /\ Append(queue[c], heard[c] + 1) \in Seq(Nat)
        /\ Len(Append(queue[c], heard[c] + 1)) <= Capacity
    BY <2>1, BoundsAssumption
  <2>3. OnConn' /\ LocksOK'
    BY <1>1, LocksKept DEF ReadFrame, rows
  <2> QED
    BY <1>1, <2>1, <2>2, <2>3
    DEF ReadFrame, Typed, TypeOK, rows, locks, manager, server
<1>2. CASE ReadPanics(c) \/ StreamEnds(c) \/ Unregister(c)
  <2>1. OnConn' /\ LocksOK'
    BY <1>2, LocksKept DEF ReadPanics, StreamEnds, Unregister, rows
  <2> QED
    BY <1>2, <2>1
    DEF ReadPanics, StreamEnds, Unregister, Typed, TypeOK, rows, locks, manager, server
<1>3. CASE Forward(c)
  <2>1. queue[c] \in Seq(Nat) /\ queue[c] # <<>> /\ Len(queue[c]) <= Capacity
    BY <1>3 DEF Forward, Typed, TypeOK
  <2>2. /\ Head(queue[c]) \in Nat /\ Tail(queue[c]) \in Seq(Nat)
        /\ Len(Tail(queue[c])) <= Capacity
    BY <2>1, HeadTailProperties, BoundsAssumption
  <2>3. Event(c, Head(queue[c])) \in Events
    BY <2>2, Marks DEF Event
  <2>4. row' \in RowType /\ log' \in LogType /\ row' = row
    BY <1>3, <2>3, AddEventType DEF Forward, AddEvent, Typed
  <2>5. OnConn' /\ LocksOK'
    BY <1>3, <2>4, LocksKept DEF Forward
  <2>6. AfterForward(c) \in {"none", "running", "said", "settling", "dead"}
    BY DEF AfterForward, Typed, TypeOK
  <2> QED
    BY <1>3, <2>2, <2>4, <2>5, <2>6
    DEF Forward, Typed, TypeOK, RowType, LogType, locks, manager, server
<1>4. CASE ForwardPanics(c)
  <2>1. OnConn' /\ LocksOK'
    BY <1>4, LocksKept DEF ForwardPanics, AddFails, rows
  <2> QED
    BY <1>4, <2>1
    DEF ForwardPanics, AddFails, Typed, TypeOK, rows, locks, manager, stream, server
<1>5. CASE LastForwarded(c)
  <2>1. row' \in RowType /\ log' \in LogType /\ row' = row
    BY <1>5, AddEventType, Marks
    DEF LastForwarded, AddEvent, Typed, TypeOK, rows, RowType, LogType
  <2>2. OnConn' /\ LocksOK'
    BY <1>5, <2>1, LocksKept DEF LastForwarded
  <2> QED
    BY <1>5, <2>1, <2>2
    DEF LastForwarded, Typed, TypeOK, RowType, LogType, locks, manager, stream, server
<1>6. CASE MarkClosed(c)
  <2>1. row' \in RowType /\ log' \in LogType
    BY <1>6, UpsertType
    DEF MarkClosed, UpsertFails, States, Typed, TypeOK, RowType, LogType, rows
  <2>2. \A e \in Conns : row[e] # "unborn" => row'[e] # "unborn"
    BY <1>6, UpsertBorn DEF MarkClosed, UpsertFails, States, rows
  <2>3. OnConn' /\ LocksOK'
    BY <1>6, <2>2, LocksKept DEF MarkClosed
  <2> QED
    BY <1>6, <2>1, <2>3
    DEF MarkClosed, Typed, TypeOK, RowType, LogType, locks, manager, stream, server
<1>7. CASE Speak(c) \/ HangUp(c)
  <2>1. OnConn' /\ LocksOK'
    BY <1>7, LocksKept DEF Speak, HangUp, rows
  <2>2. spoken' \in [Conns -> Nat]
    <3>1. spoken[c] + 1 \in Nat /\ spoken \in [Conns -> Nat]
      BY DEF Typed, TypeOK
    <3>2. spoken' = [spoken EXCEPT ![c] = spoken[c] + 1]
      BY <1>7 DEF Speak, HangUp
    <3> QED
      BY <3>1, <3>2
  <2>3. peer' \in [Conns -> {"none", "open", "closed", "lost"}]
    BY <1>7 DEF Speak, HangUp, Typed, TypeOK
  <2> QED
    BY <1>7, <2>1, <2>2, <2>3
    DEF Speak, HangUp, Typed, TypeOK, rows, locks, manager, stream
<1>8. CASE Disconnect(c)
  <2>1. PICK n \in heard[c]..spoken[c] : spoken' = [spoken EXCEPT ![c] = n]
    BY <1>8 DEF Disconnect
  <2>2. n \in Nat
    BY DEF Typed, TypeOK
  <2>3. OnConn' /\ LocksOK'
    BY <1>8, LocksKept DEF Disconnect, rows
  <2> QED
    BY <1>8, <2>1, <2>2, <2>3 DEF Disconnect, Typed, TypeOK, rows, locks, manager, stream
<1> QED
  BY <1>1, <1>2, <1>3, <1>4, <1>5, <1>6, <1>7, <1>8 DEF Reader, Forwarder, Server

LEMMA OutsideTyped ==
    ASSUME Typed,
           \/ \E c \in Conns : DeleteConnection(c)
           \/ DeleteConnections \/ DeleteRequest \/ Restart
    PROVE  Typed'
<1>1. CASE Restart
  <2>1. row' \in RowType
    BY <1>1 DEF Restart, Cancelled, States, Stored, RowType, Typed, TypeOK
  <2>2. \A d \in Conns : row[d] # "unborn" => row'[d] # "unborn"
    BY <1>1 DEF Restart, Cancelled, States, Stored
  <2>3. \A k \in Callers : cmd'[k].at = "idle" /\ cmd'[k].conn = 0
    BY <1>1 DEF Restart, Idle
  <2>4. outer' = <<>> /\ Len(outer') = 0
    BY <1>1 DEF Restart
  <2>5. OnConn' /\ LocksOK'
    BY <2>3, <2>4 DEF OnConn, LocksOK, WritersHoldManager, Queued
  <2>6. outer' \in Seq(Callers) /\ cmd' \in CmdType
    BY <1>1 DEF Restart, Idle, CmdType
  <2> QED
    BY <1>1, <2>1, <2>5, <2>6 DEF Restart, Typed, TypeOK, RowType, CmdType
<1>2. CASE ~Restart
  <2>1. PICK gone \in SUBSET Stored : Drop(gone)
    BY <1>2 DEF DeleteConnection, DeleteConnections, DeleteRequest
  <2>2. row' \in RowType /\ log' \in LogType
    BY <2>1, DropType DEF Typed
  <2>3. \A d \in Conns : row[d] # "unborn" => row'[d] # "unborn"
    BY <2>1 DEF Drop
  <2>4. OnConn' /\ LocksOK'
    BY <1>2, <2>3, LocksKept DEF DeleteConnection, DeleteConnections, DeleteRequest
  <2> QED
    BY <1>2, <2>2, <2>4
    DEF DeleteConnection, DeleteConnections, DeleteRequest, Typed, TypeOK, RowType,
        LogType, locks, manager, stream, server
<1> QED
  BY <1>1, <1>2

LEMMA TypedStep == ASSUME Typed, [Next]_vars PROVE Typed'
<1>1. CASE UNCHANGED vars
  BY <1>1 DEF vars, Typed, TypeOK, OnConn, LocksOK, WritersHoldManager, Holds
<1>2. CASE Next
  BY <1>2, ConnectTyped, SendTyped, CloseTyped, TaskTyped, OutsideTyped
  DEF Next, Command, Written, User
<1> QED
  BY <1>1, <1>2

LEMMA TypedInit == Init => Typed
<1> SUFFICES ASSUME Init PROVE Typed
  OBVIOUS
<1>1. \A k \in Callers : cmd[k] = Idle
  BY DEF Init
<1>2. outer = <<>> /\ Len(outer) = 0
  BY DEF Init
<1>3. OnConn /\ LocksOK
  BY <1>1, <1>2 DEF OnConn, LocksOK, WritersHoldManager, Queued, Idle
<1>4. /\ <<>> \in Seq(Nat) /\ Len(<<>>) <= Capacity /\ <<>> \in Seq(Events)
      /\ <<>> \in Seq(Callers)
  BY BoundsAssumption
<1> QED
  BY <1>3, <1>4 DEF Typed, TypeOK, Init, Idle

\* Every variable keeps its type, and the channel its capacity, for any number
\* of connections and commands.
THEOREM TypeCorrect == Spec => []TypeOK
<1>1. Typed => TypeOK
  BY DEF Typed
<1> QED
  BY <1>1, TypedInit, TypedStep, PTL DEF Spec

\* The order of the locks: whoever writes to a socket, or waits for the last
\* frames of one, holds the manager (commands.rs:138, 176, 346).
THEOREM WritersHold == Spec => []WritersHoldManager
<1>1. Typed => WritersHoldManager
  BY DEF Typed, LocksOK
<1> QED
  BY <1>1, TypedInit, TypedStep, PTL DEF Spec

-----------------------------------------------------------------------------
(* What rows, tables and tasks know of each other.                         *)

\* A connection is being opened by one command at most; until it is dialed it
\* has no socket, no task and no forwarder, and until it is marked connected
\* no forwarder.  Its row may be deleted or marked closing meanwhile.
OneOpener == \A j, k \in Callers :
    /\ cmd[j].at \in Connecting /\ cmd[k].at \in Connecting
    /\ cmd[j].conn = cmd[k].conn
    => j = k
Untouched(c) ==
    reader[c] = "none" /\ fwd[c] = "none" /\ c \notin sockets \union tasks
BeforeDial == \A k \in Callers : cmd[k].at \in {"preparing", "dialing"} =>
    Untouched(cmd[k].conn)
BeforeServed == \A k \in Callers : cmd[k].at \in Connecting =>
    fwd[cmd[k].conn] = "none" /\ row[cmd[k].conn] \notin {"closed", "connected"}
UnbornUntouched == \A c \in Conns : row[c] = "unborn" => Untouched(c)

\* Without the request there are no rows.
NoOrphans == ~request => Stored = {}

\* When a read task is gone its socket is too, unless it died for want of a
\* receiver; and the forwarder that wrote the last event came after that.
SendersGone == \A c \in Conns :
    reader[c] = "dead" /\ (ReceiverAlive(c) \/ fwd[c] = "settling") => c \notin sockets
SettlingLast == \A c \in Conns : fwd[c] = "settling" => reader[c] = "dead"
TakenOut == \A k \in Callers :
    cmd[k].at \in {"saying", "grace"} => cmd[k].conn \notin sockets
Reachable == \A c \in Conns : reader[c] \in {"reading", "ending"} =>
    \/ c \in sockets /\ \E k \in Callers : cmd[k].conn = c /\ cmd[k].at = "opened"
    \/ /\ c \in tasks
       /\ \/ c \in sockets
          \/ \E k \in Callers : cmd[k].conn = c /\ cmd[k].at \in {"saying", "grace"}

RowsOK ==
    /\ OneOpener /\ BeforeDial /\ BeforeServed /\ UnbornUntouched /\ NoOrphans
    /\ SendersGone /\ SettlingLast /\ TakenOut /\ Reachable
    /\ ClosedMeansReleased /\ ConnectedIsServed

LEMMA UpsertRows ==
    ASSUME Typed, NEW c \in Conns, NEW state \in States, Upsert(c, state)
    PROVE  /\ request /\ row'[c] = state
           /\ \A d \in Conns \ {c} : row'[d] = row[d] \/ row'[d] = "gone"
           /\ \A d \in Conns : row[d] = "unborn" /\ d # c => row'[d] = "unborn"
BY DEF Upsert, Pruned, Stored, States

\* Two commands past the lock are one.
LEMMA OneHolder ==
    ASSUME Typed, NEW j \in Callers, NEW k \in Callers,
           cmd[j].at \in {"opened", "recorded", "writing", "saying", "grace"},
           Holds(k) \/ cmd[k].at \in {"opened", "recorded", "writing", "saying", "grace"}
    PROVE  j = k
BY DEF Typed, LocksOK, WritersHoldManager, Holds

LEMMA ConnectRows ==
    ASSUME Typed, RowsOK, NEW k \in Callers,
           \/ StartConnect(k) \/ PrepareFails(k) \/ Prepared(k) \/ DialFails(k)
           \/ Dial(k) \/ RecordOpen(k) \/ MarkConnected(k) \/ ConnectBreaks(k)
    PROVE  RowsOK'
<1> DEFINE c == cmd[k].conn
<1> USE DEF Runs, RowsOK
<1>1. CASE StartConnect(k)
  <2>1. PICK d \in Conns : Fresh(d) /\ Upsert(d, "initialized") /\ Begin(k, "preparing", d)
    BY <1>1 DEF StartConnect
  <2>2. /\ cmd'[k].at = "preparing" /\ cmd'[k].conn = d
        /\ \A j \in Callers : j # k => cmd'[j] = cmd[j]
    BY <2>1, BeginType DEF Steps, Connecting
  <2>3. /\ request /\ row'[d] = "initialized" /\ row[d] = "unborn"
        /\ \A e \in Conns \ {d} : row'[e] = row[e] \/ row'[e] = "gone"
        /\ \A e \in Conns : row[e] = "unborn" /\ e # d => row'[e] = "unborn"
    BY <2>1, UpsertRows DEF States, Fresh
  <2>4. /\ UNCHANGED <<request, sockets, tasks, reader, fwd>>
        /\ cmd[k].at = "idle"
    BY <1>1 DEF StartConnect, manager, stream
  <2>5. \A j \in Callers : cmd[j].at # "idle" => cmd[j].conn \in Conns /\ cmd[j].conn # d
    BY <2>3, ConnOf DEF Typed, OnConn
  <2>6. OneOpener' /\ BeforeDial' /\ BeforeServed' /\ UnbornUntouched'
    BY <2>2, <2>3, <2>4, <2>5
    DEF OneOpener, BeforeDial, BeforeServed, UnbornUntouched, Untouched, Connecting
  <2>7. NoOrphans'
    BY <2>3, <2>4 DEF NoOrphans
  <2>8. \A e \in Conns : ReceiverAlive(e)' => ReceiverAlive(e)
    BY <2>2, <2>4 DEF ReceiverAlive
  <2>9. SendersGone' /\ SettlingLast' /\ TakenOut' /\ Reachable'
    BY <2>2, <2>4, <2>8 DEF SendersGone, SettlingLast, TakenOut, Reachable
  <2>10. ClosedMeansReleased' /\ ConnectedIsServed'
    BY <2>3, <2>4 DEF ClosedMeansReleased, ConnectedIsServed
  <2> QED
    BY <2>6, <2>7, <2>9, <2>10
<1>2. CASE PrepareFails(k) \/ DialFails(k)
  <2>1. /\ c \in Conns /\ cmd[k].at \in {"preparing", "dialing"}
        /\ UNCHANGED <<request, sockets, tasks, reader, fwd>>
    BY <1>2, ConnOf DEF PrepareFails, DialFails, manager, stream
  <2>2. /\ cmd'[k].at = "idle"
        /\ \A j \in Callers : j # k => cmd'[j] = cmd[j]
    BY <1>2, ReturnType DEF PrepareFails, DialFails
  <2>3. /\ row'[c] = row[c] \/ row'[c] = "closed"
        /\ \A e \in Conns \ {c} : row'[e] = row[e] \/ row'[e] = "gone"
        /\ \A e \in Conns : row'[e] = "unborn" => row[e] = "unborn"
        /\ ~request => UNCHANGED row
    BY <1>2, <2>1, UpsertRows DEF PrepareFails, DialFails, UpsertFails, States, rows
  <2>4. \A j \in Callers : cmd[j].at # "idle" => cmd[j].conn \in Conns
    BY ConnOf
  <2>5. Untouched(c)
    BY <2>1 DEF BeforeDial
  <2>6. OneOpener' /\ BeforeDial' /\ UnbornUntouched'
    BY <2>1, <2>2, <2>3
    DEF OneOpener, BeforeDial, UnbornUntouched, Untouched, Connecting
  <2>7. BeforeServed'
    BY <2>1, <2>2, <2>3, <2>4 DEF BeforeServed, OneOpener, Connecting
  <2>8. NoOrphans'
    BY <2>1, <2>3 DEF NoOrphans, Stored
  <2>9. \A e \in Conns : ReceiverAlive(e)' => ReceiverAlive(e)
    BY <2>1, <2>2 DEF ReceiverAlive
  <2>10. SendersGone' /\ SettlingLast' /\ TakenOut' /\ Reachable'
    BY <2>1, <2>2, <2>9 DEF SendersGone, SettlingLast, TakenOut, Reachable
  <2>11. ClosedMeansReleased' /\ ConnectedIsServed'
    BY <2>1, <2>3, <2>5 DEF ClosedMeansReleased, ConnectedIsServed, Untouched
  <2> QED
    BY <2>6, <2>7, <2>8, <2>10, <2>11
<1>3. CASE Prepared(k)
  <2>1. /\ UNCHANGED <<row, request, sockets, tasks, reader, fwd>>
        /\ cmd[k].at = "preparing"
    BY <1>3 DEF Prepared, rows, manager, stream
  <2>2. /\ cmd'[k].at = "dialing" /\ \A j \in Callers : cmd'[j].conn = cmd[j].conn
        /\ \A j \in Callers : j # k => cmd'[j] = cmd[j]
    BY <1>3, GoToType DEF Prepared, Steps, Connecting
  <2>3. \A e \in Conns : ReceiverAlive(e)' => ReceiverAlive(e)
    BY <2>1, <2>2 DEF ReceiverAlive
  <2>4. OneOpener' /\ BeforeDial' /\ BeforeServed' /\ UnbornUntouched' /\ NoOrphans'
    BY <2>1, <2>2
    DEF OneOpener, BeforeDial, BeforeServed, UnbornUntouched, Untouched, NoOrphans,
        Stored, Connecting
  <2>5. SendersGone' /\ SettlingLast' /\ TakenOut' /\ Reachable'
    BY <2>1, <2>2, <2>3 DEF SendersGone, SettlingLast, TakenOut, Reachable
  <2>6. ClosedMeansReleased' /\ ConnectedIsServed'
    BY <2>1 DEF ClosedMeansReleased, ConnectedIsServed
  <2> QED
    BY <2>4, <2>5, <2>6
<1>4. CASE Dial(k)
  <2>1. /\ UNCHANGED <<row, request, tasks, fwd>>
        /\ c \in Conns /\ cmd[k].at = "dialing" /\ Holds(k)
        /\ sockets' = sockets \union {c} /\ reader' = [reader EXCEPT ![c] = "reading"]
    BY <1>4, ConnOf DEF Dial, rows
  <2>2. /\ cmd'[k].at = "opened" /\ \A j \in Callers : cmd'[j].conn = cmd[j].conn
        /\ \A j \in Callers : j # k => cmd'[j] = cmd[j]
    BY <1>4, GoToType DEF Dial, Steps, Connecting
  <2>3. /\ reader'[c] = "reading"
        /\ \A e \in Conns \ {c} : reader'[e] = reader[e]
    BY <2>1 DEF Typed, TypeOK
  <2>4. \A j \in Callers : cmd[j].at # "idle" => cmd[j].conn \in Conns
    BY ConnOf
  <2>5. OneOpener' /\ BeforeServed' /\ NoOrphans'
    BY <2>1, <2>2 DEF OneOpener, BeforeServed, NoOrphans, Stored, Connecting
  <2>6. BeforeDial'
    BY <2>1, <2>2, <2>3, <2>4 DEF BeforeDial, Untouched, OneOpener, Connecting
  <2>7. UnbornUntouched'
    BY <2>1, <2>3 DEF UnbornUntouched, Untouched, Typed, OnConn
  <2>8. \A e \in Conns \ {c} : ReceiverAlive(e)' => ReceiverAlive(e)
    BY <2>1, <2>2 DEF ReceiverAlive
  <2>9. SendersGone' /\ SettlingLast'
    BY <2>1, <2>3, <2>8 DEF SendersGone, SettlingLast, BeforeDial, Untouched
  <2>10. TakenOut'
    BY <2>1, <2>2, OneHolder DEF TakenOut
  <2>11. Reachable'
    BY <2>1, <2>2, <2>3 DEF Reachable
  <2>12. ClosedMeansReleased' /\ ConnectedIsServed'
    BY <2>1, <2>3 DEF ClosedMeansReleased, ConnectedIsServed, BeforeServed, Connecting
  <2> QED
    BY <2>5, <2>6, <2>7, <2>9, <2>10, <2>11, <2>12
<1>5. CASE RecordOpen(k)
  <2>1. /\ UNCHANGED <<row, request, sockets, reader, fwd>>
        /\ c \in Conns /\ cmd[k].at = "opened" /\ tasks' = tasks \union {c}
    BY <1>5, ConnOf DEF RecordOpen, AddEvent, AddFails, rows, stream
  <2>2. /\ \/ cmd'[k].at = "recorded" /\ cmd'[k].conn = c
           \/ cmd'[k].at = "idle"
        /\ \A j \in Callers : j # k => cmd'[j] = cmd[j]
    BY <1>5, GoToType, ReturnType DEF RecordOpen, Steps, Connecting
  <2>3. \A e \in Conns : ReceiverAlive(e)' => ReceiverAlive(e)
    BY <2>1, <2>2 DEF ReceiverAlive
  <2>4. OneOpener' /\ BeforeDial' /\ BeforeServed' /\ UnbornUntouched' /\ NoOrphans'
    BY <2>1, <2>2
    DEF OneOpener, BeforeDial, BeforeServed, UnbornUntouched, Untouched, NoOrphans,
        Stored, Connecting, Typed, OnConn
  <2>5. SendersGone' /\ SettlingLast' /\ TakenOut'
    BY <2>1, <2>2, <2>3 DEF SendersGone, SettlingLast, TakenOut
  <2>6. \A j \in Callers : cmd[j].at \in {"opened", "saying", "grace"} => j = k
    BY <2>1, OneHolder
  <2>7. Reachable'
    BY <2>1, <2>2, <2>6 DEF Reachable
  <2>8. ClosedMeansReleased' /\ ConnectedIsServed'
    BY <2>1 DEF ClosedMeansReleased, ConnectedIsServed
  <2> QED
    BY <2>4, <2>5, <2>7, <2>8
<1>6. CASE MarkConnected(k)
  <2>1. /\ UNCHANGED <<request, sockets, tasks, reader>>
        /\ c \in Conns /\ cmd[k].at = "recorded" /\ fwd' = [fwd EXCEPT ![c] = "running"]
    BY <1>6, ConnOf DEF MarkConnected, manager, stream
  <2>2. /\ cmd'[k].at = "idle" /\ \A j \in Callers : j # k => cmd'[j] = cmd[j]
    BY <1>6, ReturnType DEF MarkConnected
  <2>3. /\ request /\ row'[c] = "connected"
        /\ \A e \in Conns \ {c} : row'[e] = row[e] \/ row'[e] = "gone"
        /\ \A e \in Conns : row'[e] = "unborn" => row[e] = "unborn"
    BY <1>6, <2>1, UpsertRows DEF MarkConnected, States
  <2>4. /\ fwd'[c] = "running" /\ \A e \in Conns \ {c} : fwd'[e] = fwd[e]
    BY <2>1 DEF Typed, TypeOK
  <2>5. \A j \in Callers : /\ cmd[j].at # "idle" => cmd[j].conn \in Conns
                           /\ cmd[j].at \in Connecting /\ j # k => cmd[j].conn # c
    BY <2>1, ConnOf DEF OneOpener, Connecting
  <2>6. OneOpener' /\ BeforeDial' /\ BeforeServed'
    BY <2>1, <2>2, <2>3, <2>4, <2>5
    DEF OneOpener, BeforeDial, BeforeServed, Untouched, Connecting
  <2>7. UnbornUntouched' /\ NoOrphans'
    BY <2>1, <2>3, <2>4 DEF UnbornUntouched, Untouched, NoOrphans
  <2>8. \A e \in Conns : ReceiverAlive(e)' => ReceiverAlive(e)
    BY <2>1, <2>2, <2>4 DEF ReceiverAlive
  <2>9. SendersGone'
    BY <2>1, <2>4, <2>8 DEF SendersGone
  <2>10. SettlingLast' /\ TakenOut' /\ Reachable'
    BY <2>1, <2>2, <2>4 DEF SettlingLast, TakenOut, Reachable
  <2>11. ClosedMeansReleased' /\ ConnectedIsServed'
    BY <2>1, <2>3, <2>4 DEF ClosedMeansReleased, ConnectedIsServed
  <2> QED
    BY <2>6, <2>7, <2>9, <2>10, <2>11
<1>7. CASE ConnectBreaks(k)
  <2>1. UNCHANGED <<row, request, sockets, tasks, reader, fwd>> /\ cmd[k].at = "recorded"
    BY <1>7 DEF ConnectBreaks, rows, manager, stream
  <2>2. /\ cmd'[k].at = "idle" /\ \A j \in Callers : j # k => cmd'[j] = cmd[j]
    BY <1>7, ReturnType DEF ConnectBreaks
  <2>3. \A e \in Conns : ReceiverAlive(e)' => ReceiverAlive(e)
    BY <2>1, <2>2 DEF ReceiverAlive
  <2>4. OneOpener' /\ BeforeDial' /\ BeforeServed' /\ UnbornUntouched' /\ NoOrphans'
    BY <2>1, <2>2
    DEF OneOpener, BeforeDial, BeforeServed, UnbornUntouched, Untouched, NoOrphans,
        Stored, Connecting
  <2>5. SendersGone' /\ SettlingLast' /\ TakenOut' /\ Reachable'
    BY <2>1, <2>2, <2>3 DEF SendersGone, SettlingLast, TakenOut, Reachable
  <2>6. ClosedMeansReleased' /\ ConnectedIsServed'
    BY <2>1 DEF ClosedMeansReleased, ConnectedIsServed
  <2> QED
    BY <2>4, <2>5, <2>6
<1> QED
  BY <1>1, <1>2, <1>3, <1>4, <1>5, <1>6, <1>7

\* Steps of commands that touch neither rows nor tables nor tasks.
LEMMA QuietRows ==
    ASSUME Typed, RowsOK, NEW k \in Callers,
           UNCHANGED <<row, request, sockets, tasks, reader, fwd>>,
           \A j \in Callers : j # k => cmd'[j] = cmd[j],
           cmd'[k].at \notin Connecting, cmd[k].at # "opened",
           cmd[k].at \in {"saying", "grace"} =>
               cmd'[k].at \in {"saying", "grace"} /\ cmd'[k].conn = cmd[k].conn,
           cmd'[k].at \in {"saying", "grace"} => cmd'[k].conn \notin sockets
    PROVE  RowsOK'
<1> USE DEF RowsOK
<1>1. OneOpener' /\ BeforeDial' /\ BeforeServed' /\ UnbornUntouched' /\ NoOrphans'
  BY DEF OneOpener, BeforeDial, BeforeServed, UnbornUntouched, Untouched, NoOrphans,
         Stored, Connecting
<1>2. \A e \in Conns : ReceiverAlive(e)' => ReceiverAlive(e)
  BY DEF ReceiverAlive, Connecting
<1>3. SendersGone' /\ SettlingLast' /\ TakenOut'
  BY <1>2 DEF SendersGone, SettlingLast, TakenOut
<1>4. Reachable'
  BY DEF Reachable
<1> QED
  BY <1>1, <1>3, <1>4 DEF ClosedMeansReleased, ConnectedIsServed

LEMMA SendRows ==
    ASSUME Typed, RowsOK, NEW k \in Callers,
           StartSend(k) \/ SendNowhere(k) \/ StartWrite(k) \/ WriteDone(k) \/ WriteFails(k)
    PROVE  RowsOK'
<1> USE DEF Runs
<1>1. UNCHANGED <<row, request, sockets, tasks, reader, fwd>>
  BY DEF StartSend, SendNowhere, StartWrite, WriteDone, WriteFails, NoteSent, AddEvent,
         AddFails, rows, manager, stream
<1>2. cmd[k].at \in {"idle", "sending", "writing"}
  BY DEF StartSend, SendNowhere, StartWrite, WriteDone, WriteFails
<1>3. /\ cmd'[k].at \in {"idle", "sending", "writing"}
      /\ \A j \in Callers : j # k => cmd'[j] = cmd[j]
  <2>1. CASE StartSend(k)
    BY <2>1, BeginType DEF StartSend, Stored, Steps, Sending
  <2>2. CASE StartWrite(k)
    BY <2>2, GoToType DEF StartWrite, Steps, Sending
  <2>3. CASE SendNowhere(k) \/ WriteDone(k) \/ WriteFails(k)
    BY <2>3, ReturnType DEF SendNowhere, WriteDone, WriteFails, NoteSent
  <2> QED
    BY <2>1, <2>2, <2>3
<1> QED
  BY <1>1, <1>2, <1>3, QuietRows DEF Connecting

LEMMA CloseRows ==
    ASSUME Typed, RowsOK, NEW k \in Callers,
           \/ StartClose(k) \/ MarkClosing(k) \/ TakeSocket(k)
           \/ SaidGoodbye(k) \/ GoodbyeFails(k) \/ StopReading(k)
    PROVE  RowsOK'
<1> DEFINE c == cmd[k].conn
<1> USE DEF Runs
<1>1. CASE StartClose(k)
  <2>1. /\ UNCHANGED <<row, request, sockets, tasks, reader, fwd>>
        /\ cmd[k].at = "idle"
    BY <1>1 DEF StartClose, rows, manager, stream
  <2>2. /\ cmd'[k].at = "marking" /\ \A j \in Callers : j # k => cmd'[j] = cmd[j]
    BY <1>1, BeginType DEF StartClose, Stored, Steps, Closing
  <2> QED
    BY <2>1, <2>2, QuietRows DEF Connecting
<1>2. CASE SaidGoodbye(k) \/ GoodbyeFails(k)
  <2>1. /\ UNCHANGED <<row, request, sockets, tasks, reader, fwd>>
        /\ cmd[k].at = "saying" /\ c \notin sockets
    BY <1>2 DEF SaidGoodbye, GoodbyeFails, rows, manager, stream, RowsOK, TakenOut
  <2>2. /\ cmd'[k].at = "grace" /\ cmd'[k].conn = c
        /\ \A j \in Callers : j # k => cmd'[j] = cmd[j]
    BY <1>2, GoToType DEF SaidGoodbye, GoodbyeFails, Steps, Closing
  <2> QED
    BY <2>1, <2>2, QuietRows DEF Connecting
<1>3. CASE MarkClosing(k)
  <2>1. /\ UNCHANGED <<request, sockets, tasks, reader, fwd>>
        /\ cmd[k].at = "marking" /\ c \in Conns
    BY <1>3, ConnOf DEF MarkClosing, manager, stream
  <2>2. /\ cmd'[k].at \in {"closing", "idle"}
        /\ \A j \in Callers : j # k => cmd'[j] = cmd[j]
    BY <1>3, GoToType, ReturnType DEF MarkClosing, Steps, Closing
  <2>3. /\ row'[c] = row[c] \/ row'[c] = "closing"
        /\ \A e \in Conns \ {c} : row'[e] = row[e] \/ row'[e] = "gone"
        /\ \A e \in Conns : row'[e] = "unborn" => row[e] = "unborn"
        /\ ~request => UNCHANGED row
    BY <1>3, <2>1, UpsertRows DEF MarkClosing, UpsertFails, States, rows
  <2>4. \A j \in Callers : cmd[j].at # "idle" => cmd[j].conn \in Conns
    BY ConnOf
  <2>5. OneOpener' /\ BeforeDial' /\ BeforeServed' /\ UnbornUntouched'
    BY <2>1, <2>2, <2>3, <2>4
    DEF RowsOK, OneOpener, BeforeDial, BeforeServed, UnbornUntouched, Untouched, Connecting
  <2>6. NoOrphans'
    BY <2>1, <2>3 DEF RowsOK, NoOrphans, Stored
  <2>7. \A e \in Conns : ReceiverAlive(e)' => ReceiverAlive(e)
    BY <2>1, <2>2 DEF ReceiverAlive
  <2>8. SendersGone' /\ SettlingLast' /\ TakenOut' /\ Reachable'
    BY <2>1, <2>2, <2>7 DEF RowsOK, SendersGone, SettlingLast, TakenOut, Reachable
  <2>9. ClosedMeansReleased' /\ ConnectedIsServed'
    BY <2>1, <2>3 DEF RowsOK, ClosedMeansReleased, ConnectedIsServed
  <2> QED
    BY <2>5, <2>6, <2>8, <2>9 DEF RowsOK
<1>4. CASE TakeSocket(k)
  <2>1. /\ UNCHANGED <<row, request, tasks, reader, fwd>>
        /\ cmd[k].at = "closing" /\ Holds(k) /\ sockets' = sockets \ {c}
    BY <1>4 DEF TakeSocket, rows, stream
  <2>2. /\ cmd'[k].at \in {"saying", "grace"} /\ cmd'[k].conn = c
        /\ \A j \in Callers : j # k => cmd'[j] = cmd[j]
    BY <1>4, GoToType DEF TakeSocket, Steps, Closing
  <2>3. OneOpener' /\ BeforeDial' /\ BeforeServed' /\ UnbornUntouched' /\ NoOrphans'
    BY <2>1, <2>2
    DEF RowsOK, OneOpener, BeforeDial, BeforeServed, UnbornUntouched, Untouched, NoOrphans,
        Stored, Connecting
  <2>4. \A e \in Conns : ReceiverAlive(e)' => ReceiverAlive(e)
    BY <2>1, <2>2 DEF ReceiverAlive
  <2>5. SendersGone' /\ SettlingLast' /\ TakenOut'
    BY <2>1, <2>2, <2>4 DEF RowsOK, SendersGone, SettlingLast, TakenOut
  <2>6. \A j \in Callers : cmd[j].at # "opened"
    BY <2>1, OneHolder
  <2>7. Reachable'
    BY <2>1, <2>2, <2>6 DEF RowsOK, Reachable
  <2> QED
    BY <2>1, <2>3, <2>5, <2>7 DEF RowsOK, ClosedMeansReleased, ConnectedIsServed
<1>5. CASE StopReading(k)
  <2>1. /\ UNCHANGED <<row, request, sockets, fwd>>
        /\ cmd[k].at = "grace" /\ c \in Conns /\ row[c] # "unborn" /\ c \notin sockets
        /\ tasks' = tasks \ {c} /\ reader' = [reader EXCEPT ![c] = Aborted(c)]
    BY <1>5, ConnOf DEF StopReading, rows, RowsOK, TakenOut, Typed, OnConn
  <2>2. /\ cmd'[k].at = "idle" /\ \A j \in Callers : j # k => cmd'[j] = cmd[j]
    BY <1>5, ReturnType DEF StopReading
  <2>3. /\ reader'[c] = IF c \in tasks THEN "dead" ELSE reader[c]
        /\ \A e \in Conns \ {c} : reader'[e] = reader[e]
    BY <2>1 DEF Typed, TypeOK, Aborted
  <2>4. OneOpener' /\ BeforeDial' /\ BeforeServed' /\ UnbornUntouched' /\ NoOrphans'
    BY <2>1, <2>2, <2>3, ConnOf
    DEF RowsOK, OneOpener, BeforeDial, BeforeServed, UnbornUntouched, Untouched, NoOrphans,
        Stored, Connecting
  <2>5. \A e \in Conns : ReceiverAlive(e)' => ReceiverAlive(e)
    BY <2>1, <2>2 DEF ReceiverAlive
  <2>6. SendersGone' /\ SettlingLast' /\ TakenOut'
    BY <2>1, <2>2, <2>3, <2>5 DEF RowsOK, SendersGone, SettlingLast, TakenOut
  <2>7. \A j \in Callers : cmd[j].at \in {"opened", "saying", "grace"} => j = k
    BY <2>1, OneHolder
  <2>8. Reachable'
    BY <2>1, <2>2, <2>3, <2>7 DEF RowsOK, Reachable
  <2> QED
    BY <2>1, <2>3, <2>4, <2>6, <2>8 DEF RowsOK, ClosedMeansReleased, ConnectedIsServed
<1> QED
  BY <1>1, <1>2, <1>3, <1>4, <1>5

LEMMA TaskRows ==
    ASSUME Typed, RowsOK, NEW c \in Conns,
           Reader(c) \/ Forwarder(c) \/ Server(c)
    PROVE  RowsOK'
<1> USE DEF RowsOK
<1>0. UNCHANGED <<request, cmd>>
  BY DEF Reader, Forwarder, Server, ReadFrame, ReadPanics, StreamEnds, Unregister, Forward,
         ForwardPanics, LastForwarded, MarkClosed, Speak, HangUp, Disconnect, locks
<1>1. CASE ReadFrame(c) \/ Server(c)
  <2>1. UNCHANGED <<row, sockets, tasks, reader, fwd>>
    BY <1>1 DEF ReadFrame, Server, Speak, HangUp, Disconnect, rows, manager, stream
  <2> QED
    BY <1>0, <2>1
    DEF OneOpener, BeforeDial, BeforeServed, UnbornUntouched, Untouched, NoOrphans, Stored,
        SendersGone, ReceiverAlive, SettlingLast, TakenOut, Reachable,
        ClosedMeansReleased, ConnectedIsServed
<1>2. CASE ReadPanics(c) \/ StreamEnds(c) \/ Unregister(c)
  <2>1. /\ UNCHANGED <<row, fwd>> /\ reader[c] \in {"reading", "ending"}
        /\ \A e \in Conns \ {c} : /\ reader'[e] = reader[e]
                                  /\ e \in sockets' <=> e \in sockets
                                  /\ e \in tasks' <=> e \in tasks
        /\ sockets' \subseteq sockets /\ tasks' \subseteq tasks
    BY <1>2 DEF ReadPanics, StreamEnds, Unregister, rows, manager, Typed, TypeOK
  <2>2. \/ reader'[c] = "ending" /\ UNCHANGED <<sockets, tasks>>
        \/ reader'[c] = "dead" /\ (c \notin sockets' \/ ~ReceiverAlive(c))
    BY <1>2 DEF ReadPanics, StreamEnds, Unregister, rows, manager, Typed, TypeOK
  <2>3. OneOpener' /\ BeforeDial' /\ BeforeServed' /\ UnbornUntouched' /\ NoOrphans'
    BY <1>0, <2>1, ConnOf
    DEF OneOpener, BeforeDial, BeforeServed, UnbornUntouched, Untouched, NoOrphans, Stored,
        Connecting
  <2>4. \A e \in Conns : ReceiverAlive(e)' => ReceiverAlive(e)
    BY <1>0, <2>1 DEF ReceiverAlive
  <2>5. fwd[c] # "settling"
    BY <2>1 DEF SettlingLast
  <2>6. SendersGone' /\ SettlingLast' /\ TakenOut'
    BY <1>0, <2>1, <2>2, <2>4, <2>5, ConnOf DEF SendersGone, SettlingLast, TakenOut
  <2>7. Reachable'
    BY <1>0, <2>1, <2>2 DEF Reachable
  <2> QED
    BY <2>1, <2>2, <2>3, <2>6, <2>7 DEF ClosedMeansReleased, ConnectedIsServed
<1>3. CASE Forward(c) \/ ForwardPanics(c) \/ LastForwarded(c)
  <2>1. /\ UNCHANGED <<row, sockets, tasks, reader>>
        /\ fwd[c] \in {"running", "said"}
        /\ \A e \in Conns \ {c} : fwd'[e] = fwd[e]
    BY <1>3 DEF Forward, ForwardPanics, LastForwarded, AddEvent, AddFails, rows, manager,
                stream, Typed, TypeOK
  <2>2. \/ fwd'[c] \in {"running", "said"}
        \/ fwd'[c] = "dead" /\ row[c] # "connected"
        \/ fwd'[c] = "settling" /\ reader[c] = "dead"
    BY <1>3, <2>1 DEF Forward, AfterForward, ForwardPanics, LastForwarded, Drained, AddFails,
                      Stored, States, Typed, TypeOK
  <2>3. OneOpener' /\ BeforeDial' /\ BeforeServed' /\ UnbornUntouched' /\ NoOrphans'
    BY <1>0, <2>1, ConnOf
    DEF OneOpener, BeforeDial, BeforeServed, UnbornUntouched, Untouched, NoOrphans, Stored,
        Connecting
  <2>4. SendersGone' /\ SettlingLast' /\ TakenOut' /\ Reachable'
    BY <1>0, <2>1, <2>2 DEF SendersGone, ReceiverAlive, SettlingLast, TakenOut, Reachable
  <2> QED
    BY <2>1, <2>2, <2>3, <2>4 DEF ClosedMeansReleased, ConnectedIsServed
<1>4. CASE MarkClosed(c)
  <2>1. /\ UNCHANGED <<sockets, tasks, reader>>
        /\ fwd[c] = "settling" /\ fwd'[c] = "dead"
        /\ \A e \in Conns \ {c} : fwd'[e] = fwd[e]
    BY <1>4 DEF MarkClosed, manager, stream, Typed, TypeOK
  <2>2. /\ row'[c] = row[c] \/ row'[c] = "closed"
        /\ \A e \in Conns \ {c} : row'[e] = row[e] \/ row'[e] = "gone"
        /\ \A e \in Conns : row'[e] = "unborn" => row[e] = "unborn"
        /\ ~request => UNCHANGED row
        /\ row'[c] = "connected" => ~request
    BY <1>4, UpsertRows DEF MarkClosed, UpsertFails, States, rows
  <2>3. reader[c] = "dead" /\ c \notin sockets
    BY <2>1 DEF SettlingLast, SendersGone
  <2>4. \A k \in Callers : cmd[k].at \in Connecting => cmd[k].conn # c
    BY <2>1 DEF BeforeServed
  <2>5. OneOpener' /\ BeforeDial' /\ BeforeServed' /\ UnbornUntouched' /\ NoOrphans'
    BY <1>0, <2>1, <2>2, <2>4, ConnOf
    DEF OneOpener, BeforeDial, BeforeServed, UnbornUntouched, Untouched, NoOrphans, Stored,
        Connecting
  <2>6. SendersGone' /\ SettlingLast' /\ TakenOut' /\ Reachable'
    BY <1>0, <2>1 DEF SendersGone, ReceiverAlive, SettlingLast, TakenOut, Reachable
  <2>7. row[c] = "connected" => request
    BY DEF NoOrphans, Stored, States
  <2> QED
    BY <2>1, <2>2, <2>3, <2>5, <2>6, <2>7 DEF ClosedMeansReleased, ConnectedIsServed
<1> QED
  BY <1>1, <1>2, <1>3, <1>4 DEF Reader, Forwarder

LEMMA OutsideRows ==
    ASSUME Typed, RowsOK,
           \/ \E c \in Conns : DeleteConnection(c)
           \/ DeleteConnections \/ DeleteRequest \/ Restart
    PROVE  RowsOK'
<1> USE DEF RowsOK
<1>1. CASE Restart
  <2>1. /\ \A k \in Callers : cmd'[k].at = "idle"
        /\ sockets' = {} /\ tasks' = {} /\ UNCHANGED request
        /\ \A c \in Conns : reader'[c] = "none" /\ fwd'[c] = "none"
    BY <1>1 DEF Restart, Idle
  <2>2. \A c \in Conns : /\ row'[c] # "connected"
                         /\ row'[c] = row[c] \/ (row'[c] = "closed" /\ c \in Stored)
    BY <1>1 DEF Restart, Cancelled, Stored, States
  <2> QED
    BY <2>1, <2>2
    DEF OneOpener, BeforeDial, BeforeServed, UnbornUntouched, Untouched, NoOrphans, Stored,
        SendersGone, SettlingLast, TakenOut, Reachable, Connecting,
        ClosedMeansReleased, ConnectedIsServed
<1>2. CASE ~Restart
  <2>1. PICK gone \in SUBSET Stored : Drop(gone) /\ (gone = Stored \/ UNCHANGED request)
    BY <1>2 DEF DeleteConnection, DeleteConnections, DeleteRequest
  <2>2. UNCHANGED <<cmd, sockets, tasks, reader, fwd>>
    BY <1>2 DEF DeleteConnection, DeleteConnections, DeleteRequest, locks, manager, stream
  <2>3. \A e \in Conns : row'[e] = IF e \in gone THEN "gone" ELSE row[e]
    BY <2>1 DEF Drop
  <2>4. OneOpener' /\ BeforeDial' /\ BeforeServed' /\ UnbornUntouched'
    BY <2>2, <2>3, ConnOf
    DEF OneOpener, BeforeDial, BeforeServed, UnbornUntouched, Untouched, Connecting
  <2>5. NoOrphans'
    BY <2>1, <2>3 DEF NoOrphans, Stored, States
  <2>6. SendersGone' /\ SettlingLast' /\ TakenOut' /\ Reachable'
    BY <2>2 DEF SendersGone, ReceiverAlive, SettlingLast, TakenOut, Reachable
  <2> QED
    BY <2>2, <2>3, <2>4, <2>5, <2>6 DEF ClosedMeansReleased, ConnectedIsServed
<1> QED
  BY <1>1, <1>2

LEMMA RowsStep == ASSUME Typed, RowsOK, [Next]_vars PROVE RowsOK'
<1>1. CASE UNCHANGED vars
  BY <1>1
  DEF vars, RowsOK, OneOpener, BeforeDial, BeforeServed, UnbornUntouched, Untouched,
      NoOrphans, Stored, SendersGone, ReceiverAlive, SettlingLast, TakenOut, Reachable,
      ClosedMeansReleased, ConnectedIsServed
<1>2. CASE Next
  BY <1>2, ConnectRows, SendRows, CloseRows, TaskRows, OutsideRows
  DEF Next, Command, Written, User
<1> QED
  BY <1>1, <1>2

LEMMA RowsInit == Init => RowsOK
BY DEF Init, Idle, RowsOK, OneOpener, BeforeDial, BeforeServed, UnbornUntouched, Untouched,
       NoOrphans, Stored, States, SendersGone, SettlingLast, TakenOut, Reachable,
       Connecting, ClosedMeansReleased, ConnectedIsServed

LEMMA RowsAlways == Spec => [](Typed /\ RowsOK)
<1>1. Init => Typed /\ RowsOK
  BY TypedInit, RowsInit
<1>2. Typed /\ RowsOK /\ [Next]_vars => (Typed /\ RowsOK)'
  BY TypedStep, RowsStep
<1> QED
  BY <1>1, <1>2, PTL DEF Spec

\* A row that says closed has no socket and no running read task, for any
\* commands under way, deletions and restarts.
THEOREM ClosedReleased == Spec => []ClosedMeansReleased
<1>1. Typed /\ RowsOK => ClosedMeansReleased
  BY DEF RowsOK
<1> QED
  BY <1>1, RowsAlways, PTL

\* A row that says connected has a forwarder that is going to close it.
THEOREM ConnectedServed == Spec => []ConnectedIsServed
<1>1. Typed /\ RowsOK => ConnectedIsServed
  BY DEF RowsOK
<1> QED
  BY <1>1, RowsAlways, PTL

\* A running read task can be stopped, or is about to be.
THEOREM ReadersStoppable == Spec => []ReadersCanBeStopped
<1>1. Typed /\ RowsOK => ReadersCanBeStopped
  BY DEF RowsOK, Reachable, ReadersCanBeStopped
<1> QED
  BY <1>1, RowsAlways, PTL

-----------------------------------------------------------------------------
(* Websocket implements Transcript.                                        *)

\* What is in the channel is what was heard last, in order; a forwarder that
\* has stored the Close frame has nothing more to expect.
StreamOK == \A c \in Conns :
    /\ Len(queue[c]) <= heard[c] /\ heard[c] <= spoken[c]
    /\ \A i \in 1..Len(queue[c]) : queue[c][i] = Taken(c) + i
    /\ fwd[c] = "said" =>
          queue[c] = <<>> /\ heard[c] = spoken[c] /\ peer[c] = "closed"

LEMMA StreamTypes ==
    ASSUME Typed, NEW c \in Conns
    PROVE  /\ heard[c] \in Nat /\ spoken[c] \in Nat /\ queue[c] \in Seq(Nat)
           /\ Len(queue[c]) \in Nat
BY DEF Typed, TypeOK

LEMMA StreamKept ==
    ASSUME StreamOK, UNCHANGED <<heard, queue, spoken>>,
           \A c \in Conns : fwd'[c] = "said" => fwd[c] = "said" /\ peer'[c] = peer[c]
    PROVE  StreamOK'
BY DEF StreamOK, Taken

LEMMA HeardStep ==
    ASSUME Typed, StreamOK, NEW c \in Conns, ReadFrame(c)
    PROVE  StreamOK' /\ \A d \in Conns : Taken(d)' = Taken(d)
<1>1. /\ heard[c] < spoken[c] /\ UNCHANGED <<spoken, peer, fwd>>
      /\ heard[c] + 1 \in Nat
      /\ heard' = [heard EXCEPT ![c] = heard[c] + 1]
      /\ queue' = [queue EXCEPT ![c] = Append(queue[c], heard[c] + 1)]
  BY StreamTypes DEF ReadFrame, server
<1>2. /\ heard'[c] = heard[c] + 1 /\ queue'[c] = Append(queue[c], heard[c] + 1)
      /\ \A d \in Conns \ {c} : heard'[d] = heard[d] /\ queue'[d] = queue[d]
  BY <1>1 DEF Typed, TypeOK
<1>3. /\ Len(queue'[c]) = Len(queue[c]) + 1
      /\ \A i \in 1..Len(queue[c]) : queue'[c][i] = queue[c][i]
      /\ queue'[c][Len(queue[c]) + 1] = heard[c] + 1
  BY <1>1, <1>2, StreamTypes
<1>4. \A d \in Conns : Taken(d)' = Taken(d)
  <2>1. Taken(c)' = Taken(c)
    <3>1. \A m, n \in Nat : (m + 1) - (n + 1) = m - n
      OBVIOUS
    <3>2. heard[c] \in Nat /\ Len(queue[c]) \in Nat
      BY StreamTypes
    <3> QED
      BY <1>2, <1>3, <3>1, <3>2 DEF Taken
  <2> QED
    BY <1>2, <2>1 DEF Taken
<1>5. /\ Len(queue'[c]) <= heard'[c] /\ heard'[c] <= spoken'[c] /\ fwd'[c] # "said"
      /\ \A i \in 1..Len(queue'[c]) : queue'[c][i] = Taken(c) + i
  <2>1. Len(queue[c]) <= heard[c] /\ fwd[c] # "said"
    BY <1>1, StreamTypes DEF StreamOK
  <2>2. heard[c] + 1 = Taken(c) + (Len(queue[c]) + 1)
    BY StreamTypes DEF Taken
  <2>3. \A i \in 1..Len(queue'[c]) : i \in 1..Len(queue[c]) \/ i = Len(queue[c]) + 1
    BY <1>3, StreamTypes
  <2>4. \A i \in 1..Len(queue[c]) : queue'[c][i] = Taken(c) + i
    BY <1>3 DEF StreamOK
  <2>5. \A i \in 1..Len(queue'[c]) : queue'[c][i] = Taken(c) + i
    BY <1>3, <2>2, <2>3, <2>4
  <2> QED
    BY <1>1, <1>2, <1>3, <2>1, <2>5, StreamTypes
<1> QED
  BY <1>1, <1>2, <1>4, <1>5 DEF StreamOK

LEMMA TakenStep ==
    ASSUME Typed, StreamOK, NEW c \in Conns, Forward(c)
    PROVE  /\ StreamOK'
           /\ Taken(c)' = Taken(c) + 1 /\ \A d \in Conns \ {c} : Taken(d)' = Taken(d)
           /\ fwd[c] = "running" /\ Head(queue[c]) = Taken(c) + 1
<1>1. /\ queue[c] # <<>> /\ UNCHANGED <<spoken, peer, heard>>
      /\ queue' = [queue EXCEPT ![c] = Tail(queue[c])]
      /\ fwd' = [fwd EXCEPT ![c] = AfterForward(c)]
  BY DEF Forward, server
<1>2. /\ queue'[c] = Tail(queue[c]) /\ fwd'[c] = AfterForward(c)
      /\ \A d \in Conns \ {c} : queue'[d] = queue[d] /\ fwd'[d] = fwd[d]
  BY <1>1 DEF Typed, TypeOK
<1>3. /\ Len(queue[c]) > 0 /\ Len(queue'[c]) = Len(queue[c]) - 1
      /\ Head(queue[c]) = queue[c][1]
      /\ \A i \in 1..Len(queue'[c]) : queue'[c][i] = queue[c][i + 1]
  <2>1. queue[c] \in Seq(Nat) /\ queue[c] # <<>>
    BY <1>1, StreamTypes
  <2>2. Len(queue[c]) > 0 /\ Head(queue[c]) = queue[c][1]
    BY <2>1
  <2>3. /\ Len(Tail(queue[c])) = Len(queue[c]) - 1
        /\ \A i \in 1..Len(Tail(queue[c])) : Tail(queue[c])[i] = queue[c][i + 1]
    BY <2>1, HeadTailProperties
  <2> QED
    BY <1>2, <2>2, <2>3
<1>4. /\ Taken(c)' = Taken(c) + 1 /\ \A d \in Conns \ {c} : Taken(d)' = Taken(d)
      /\ Head(queue[c]) = Taken(c) + 1
  BY <1>1, <1>2, <1>3, StreamTypes DEF Taken, StreamOK
<1>5. fwd[c] = "running"
  BY <1>1 DEF Forward, StreamOK
<1>6. fwd'[c] = "said" => /\ peer[c] = "closed" /\ Head(queue[c]) = spoken[c]
  <2>1. \A n : Frame(n) # Mark("close")
    BY DEF Frame, Mark
  <2> QED
    BY <1>2, <1>5, <2>1 DEF AfterForward, Event
<1>7. Taken(c) + 1 = spoken[c] => queue'[c] = <<>> /\ heard[c] = spoken[c]
  <2>1. Taken(c) + 1 = spoken[c] => Len(queue[c]) = 1 /\ heard[c] = spoken[c]
    <3>1. \A m, n, q \in Nat : /\ q > 0 /\ q <= m /\ m <= n
                              => (m - q + 1 = n => q = 1 /\ m = n)
      OBVIOUS
    <3>2. /\ heard[c] \in Nat /\ spoken[c] \in Nat /\ Len(queue[c]) \in Nat
          /\ Len(queue[c]) <= heard[c] /\ heard[c] <= spoken[c]
      BY StreamTypes DEF StreamOK
    <3> QED
      BY <1>3, <3>1, <3>2 DEF Taken
  <2>2. queue'[c] \in Seq(Nat)
    BY <1>1, <1>2, StreamTypes, HeadTailProperties
  <2> QED
    BY <2>1, <2>2, <1>3, StreamTypes
<1>8. /\ Len(queue'[c]) <= heard'[c] /\ heard'[c] <= spoken'[c]
      /\ \A i \in 1..Len(queue'[c]) : queue'[c][i] = Taken(c)' + i
  <2>1. Len(queue'[c]) <= heard'[c] /\ heard'[c] <= spoken'[c]
    BY <1>1, <1>3, StreamTypes DEF StreamOK
  <2>2. \A i \in 1..Len(queue'[c]) :
           i \in Nat /\ i + 1 \in 1..Len(queue[c]) /\ Taken(c) + (i + 1) = Taken(c) + 1 + i
    BY <1>3, StreamTypes DEF Taken
  <2> QED
    BY <2>1, <2>2, <1>3, <1>4 DEF StreamOK
<1>9. StreamOK'
  BY <1>1, <1>2, <1>4, <1>6, <1>7, <1>8 DEF StreamOK
<1> QED
  BY <1>4, <1>5, <1>9

LEMMA StreamStep == ASSUME Typed, RowsOK, StreamOK, [Next]_vars PROVE StreamOK'
<1>1. CASE UNCHANGED vars
  BY <1>1, StreamKept DEF vars
<1>2. ASSUME NEW k \in Callers, Command(k) \/ Written(k) \/ User(k)
      PROVE  StreamOK'
  <2>1. UNCHANGED <<heard, queue, spoken>>
    BY <1>2
    DEF Command, Written, User, PrepareFails, Prepared, DialFails, Dial, RecordOpen,
        MarkConnected, ConnectBreaks, SendNowhere, StartWrite, WriteFails, MarkClosing,
        TakeSocket, GoodbyeFails, StopReading, WriteDone, SaidGoodbye, StartConnect,
        StartSend, StartClose, stream, server
  <2>2. CASE Dial(k)
    <3>1. /\ cmd[k].conn \in Conns /\ fwd[cmd[k].conn] = "none" /\ UNCHANGED fwd
          /\ \A c \in Conns : c # cmd[k].conn => peer'[c] = peer[c]
      BY <2>2, ConnOf DEF Dial, Runs, RowsOK, BeforeServed, Connecting, Typed, TypeOK
    <3> QED
      BY <2>1, <3>1, StreamKept
  <2>3. CASE ~Dial(k)
    <3>1. /\ UNCHANGED peer
          /\ \A c \in Conns : fwd'[c] = "said" => fwd[c] = "said"
      BY <1>2, <2>3, ConnOf
      DEF Command, Written, User, PrepareFails, Prepared, DialFails, RecordOpen, Runs,
          MarkConnected, ConnectBreaks, SendNowhere, StartWrite, WriteFails, MarkClosing,
          TakeSocket, GoodbyeFails, StopReading, WriteDone, SaidGoodbye, StartConnect,
          StartSend, StartClose, server, Typed, TypeOK
    <3> QED
      BY <2>1, <3>1, StreamKept
  <2> QED
    BY <2>2, <2>3
<1>3. ASSUME NEW c \in Conns, Reader(c) \/ Forwarder(c) \/ DeleteConnection(c)
      PROVE  StreamOK'
  <2>1. CASE ReadFrame(c) \/ Forward(c)
    BY <2>1, HeardStep, TakenStep
  <2>2. CASE ~(ReadFrame(c) \/ Forward(c))
    <3>1. UNCHANGED <<heard, queue, spoken, peer>>
      BY <1>3, <2>2
      DEF Reader, Forwarder, ReadPanics, StreamEnds, Unregister, ForwardPanics,
          LastForwarded, MarkClosed, DeleteConnection, stream, server
    <3>2. \A d \in Conns : fwd'[d] = "said" => fwd[d] = "said"
      BY <1>3, <2>2
      DEF Reader, Forwarder, ReadPanics, StreamEnds, Unregister, ForwardPanics,
          LastForwarded, MarkClosed, DeleteConnection, Typed, TypeOK
    <3> QED
      BY <3>1, <3>2, StreamKept
  <2> QED
    BY <2>1, <2>2
<1>4. ASSUME NEW c \in Conns, Server(c)
      PROVE  StreamOK'
  <2>1. /\ UNCHANGED <<heard, queue, fwd>> /\ peer[c] = "open"
        /\ \A d \in Conns \ {c} : spoken'[d] = spoken[d] /\ peer'[d] = peer[d]
    BY <1>4 DEF Server, Speak, HangUp, Disconnect, stream, Typed, TypeOK
  <2>2. spoken'[c] >= heard[c]
    <3>1. spoken[c] + 1 \in Nat /\ spoken[c] + 1 >= heard[c] /\ spoken[c] >= heard[c]
      BY StreamTypes DEF StreamOK
    <3>2. CASE Speak(c) \/ HangUp(c)
      <4>1. spoken' = [spoken EXCEPT ![c] = spoken[c] + 1]
        BY <3>2 DEF Speak, HangUp
      <4> QED
        BY <3>1, <4>1 DEF Typed, TypeOK
    <3>3. CASE Disconnect(c)
      <4>1. PICK n \in heard[c]..spoken[c] : spoken' = [spoken EXCEPT ![c] = n]
        BY <3>3 DEF Disconnect
      <4>2. spoken'[c] = n
        BY <4>1 DEF Typed, TypeOK
      <4> QED
        BY <4>1, <4>2, StreamTypes
    <3> QED
      BY <1>4, <3>2, <3>3 DEF Server
  <2>3. \A d \in Conns : Taken(d)' = Taken(d)
    BY <2>1 DEF Taken
  <2>4. \A d \in Conns : heard'[d] <= spoken'[d]
    BY <2>1, <2>2, StreamTypes DEF StreamOK
  <2> QED
    BY <2>1, <2>3, <2>4 DEF StreamOK
<1>5. CASE DeleteConnections \/ DeleteRequest
  BY <1>5, StreamKept DEF DeleteConnections, DeleteRequest, stream, server
<1>6. CASE Restart
  BY <1>6, StreamKept DEF Restart
<1> QED
  BY <1>1, <1>2, <1>3, <1>4, <1>5, <1>6 DEF Next

\* Steps of the abstract specification, stated pointwise.
LEMMA AsStutter ==
    ASSUME UNCHANGED log, \A d \in Conns : Phase(d)' = Phase(d) /\ Taken(d)' = Taken(d)
    PROVE  UNCHANGED T!vars
BY DEF T!vars

LEMMA AsOpen ==
    ASSUME NEW c \in Conns, Phase(c) = "new", Phase(c)' = "open",
           \A d \in Conns \ {c} : Phase(d)' = Phase(d),
           \A d \in Conns : Taken(d)' = Taken(d),
           log' = [log EXCEPT ![c] = Append(@, Mark("open"))]
    PROVE  T!Next
BY DEF T!Next, T!Open, T!Store, T!Mark, Mark

LEMMA AsDeliver ==
    ASSUME NEW c \in Conns, Phase(c) = "open",
           \A d \in Conns : Phase(d)' = Phase(d),
           Taken(c)' = Taken(c) + 1,
           \A d \in Conns \ {c} : Taken(d)' = Taken(d),
           log' = [log EXCEPT ![c] = Append(@, Frame(Taken(c) + 1))]
    PROVE  T!Next
BY DEF T!Next, T!Deliver, T!Store, T!Frame, Frame

LEMMA AsEnd ==
    ASSUME NEW c \in Conns, NEW n \in {0, 1}, Phase(c) = "open", Phase(c)' = "over",
           \A d \in Conns \ {c} : Phase(d)' = Phase(d),
           Taken(c)' = Taken(c) + n,
           \A d \in Conns \ {c} : Taken(d)' = Taken(d),
           log' = [log EXCEPT ![c] = Append(@, Mark("close"))]
    PROVE  T!Next
BY DEF T!Next, T!End, T!Store, T!Mark, Mark

LEMMA AsNote ==
    ASSUME NEW c \in Conns,
           \A d \in Conns : Phase(d)' = Phase(d) /\ Taken(d)' = Taken(d),
           log' = [log EXCEPT ![c] = Append(@, Mark("sent"))]
    PROVE  T!Next
BY DEF T!Next, T!Note, T!Store, T!Mark, Mark

LEMMA AsForget ==
    ASSUME NEW gone \in SUBSET Conns, NEW left \in SUBSET Conns,
           \A d \in Conns : Phase(d)' = IF d \in left THEN "over" ELSE Phase(d),
           \A d \in Conns : Taken(d)' = Taken(d),
           log' = [d \in Conns |-> IF d \in gone THEN <<>> ELSE log[d]]
    PROVE  T!Next
BY DEF T!Next, T!Forget

LEMMA AsErase ==
    ASSUME NEW gone \in SUBSET Conns,
           \A d \in Conns : Phase(d)' = Phase(d) /\ Taken(d)' = Taken(d),
           log' = [d \in Conns |-> IF d \in gone THEN <<>> ELSE log[d]]
    PROVE  T!Next
<1> DEFINE none == {}
<1>1. none \in SUBSET Conns /\ \A d \in Conns : d \notin none
  OBVIOUS
<1> HIDE DEF none
<1>2. \A d \in Conns : Phase(d)' = IF d \in none THEN "over" ELSE Phase(d)
  BY <1>1
<1> QED
  BY <1>1, <1>2, AsForget

\* Phases.
Opens(k, c) == cmd[k].conn = c /\ cmd[k].at = "recorded"
Awaits(k, c) == cmd[k].conn = c /\ cmd[k].at \in {"preparing", "dialing", "opened"}

LEMMA PhaseKept ==
    ASSUME NEW c \in Conns,
           \A k \in Callers : /\ Opens(k, c)' <=> Opens(k, c)
                              /\ Awaits(k, c)' <=> Awaits(k, c),
           fwd'[c] = "running" <=> fwd[c] = "running",
           row'[c] = "unborn" <=> row[c] = "unborn"
    PROVE  Phase(c)' = Phase(c)
<1>1. Opening(c)' <=> Opening(c)
  BY DEF Opening, Opens
<1>2. Underway(c)' <=> Underway(c)
  BY DEF Underway, Awaits
<1> QED
  BY <1>1, <1>2 DEF Phase

LEMMA PhaseServed ==
    ASSUME Typed, RowsOK, NEW c \in Conns, fwd[c] # "none"
    PROVE  Phase(c) = IF fwd[c] = "running" THEN "open" ELSE "over"
<1>1. \A k \in Callers : cmd[k].at \in Connecting => cmd[k].conn # c
  BY DEF RowsOK, BeforeServed
<1>2. row[c] # "unborn"
  BY DEF RowsOK, UnbornUntouched, Untouched
<1> QED
  BY <1>1, <1>2 DEF Phase, Opening, Underway, Connecting

LEMMA PhaseOpened ==
    ASSUME Typed, RowsOK, NEW k \in Callers, cmd[k].at \in Connecting
    PROVE  /\ Phase(cmd[k].conn) = IF cmd[k].at = "recorded" THEN "open" ELSE "new"
           /\ \A j \in Callers \ {k} : ~Opens(j, cmd[k].conn) /\ ~Awaits(j, cmd[k].conn)
<1>1. /\ cmd[k].conn \in Conns /\ fwd[cmd[k].conn] = "none"
      /\ row[cmd[k].conn] # "unborn"
  BY ConnOf DEF RowsOK, BeforeServed, Typed, OnConn, Connecting
<1>2. \A j \in Callers \ {k} : ~Opens(j, cmd[k].conn) /\ ~Awaits(j, cmd[k].conn)
  BY DEF RowsOK, OneOpener, Opens, Awaits, Connecting
<1>3. cmd[k].at = "recorded" \/ cmd[k].at \in {"preparing", "dialing", "opened"}
  BY DEF Connecting
<1>4. Opening(cmd[k].conn) <=> cmd[k].at = "recorded"
  BY <1>2 DEF Opening, Opens
<1>5. Underway(cmd[k].conn) <=> cmd[k].at \in {"preparing", "dialing", "opened"}
  BY <1>2 DEF Underway, Awaits
<1> QED
  BY <1>1, <1>2, <1>3, <1>4, <1>5 DEF Phase

\* What a command does to the phases of other connections: nothing.
LEMMA OtherPhases ==
    ASSUME Typed, NEW k \in Callers, NEW c \in Conns,
           \A j \in Callers : j # k => cmd'[j] = cmd[j],
           cmd[k].at \in Connecting => cmd[k].conn # c,
           cmd'[k].at \in Connecting => cmd'[k].conn # c,
           fwd'[c] = fwd[c],
           row'[c] = row[c] \/ (row[c] # "unborn" /\ row'[c] # "unborn")
    PROVE  Phase(c)' = Phase(c)
<1>1. \A j \in Callers : /\ Opens(j, c)' <=> Opens(j, c)
                         /\ Awaits(j, c)' <=> Awaits(j, c)
  BY DEF Opens, Awaits, Connecting
<1> QED
  BY <1>1, PhaseKept

\* A command that opens a connection gives up: the connection is abandoned.
LEMMA GivenUp ==
    ASSUME Typed, RowsOK, NEW k \in Callers, cmd[k].at \in Connecting, Return(k),
           UNCHANGED <<heard, queue, fwd>>,
           \/ UNCHANGED rows
           \/ \E state \in States : Upsert(cmd[k].conn, state)
    PROVE  T!Next
<1>0. PICK c \in Conns : c = cmd[k].conn
  BY ConnOf DEF Connecting
<1>1. /\ row[c] # "unborn" /\ fwd[c] = "none"
      /\ \A j \in Callers \ {k} : ~Opens(j, c) /\ ~Awaits(j, c)
  BY <1>0, PhaseOpened DEF Typed, OnConn, RowsOK, BeforeServed, Connecting
<1>2. cmd'[k].at = "idle" /\ \A j \in Callers : j # k => cmd'[j] = cmd[j]
  BY ReturnType
<1>3. \A d \in Conns : row'[d] = row[d] \/ (row[d] # "unborn" /\ row'[d] # "unborn")
  BY <1>0, <1>1, UpsertRows DEF rows, States
<1>4. Phase(c)' = "over"
  <2>1. \A j \in Callers : ~Opens(j, c)' /\ ~Awaits(j, c)'
    BY <1>1, <1>2 DEF Opens, Awaits
  <2>2. row'[c] # "unborn" /\ fwd'[c] = "none"
    BY <1>1, <1>3
  <2> QED
    BY <2>1, <2>2 DEF Phase, Opening, Underway, Opens, Awaits
<1>5. \A d \in Conns \ {c} : Phase(d)' = Phase(d)
  BY <1>0, <1>2, <1>3, OtherPhases DEF Connecting
<1>6. PICK gone \in SUBSET Conns : log' = [d \in Conns |-> IF d \in gone THEN <<>> ELSE log[d]]
  <2>1. CASE UNCHANGED rows
    <3>1. log' = [d \in Conns |-> log[d]]
      BY <2>1 DEF rows, Typed, TypeOK
    <3> WITNESS {} \in SUBSET Conns
    <3> QED
      BY <3>1
  <2>2. CASE ~UNCHANGED rows
    BY <2>2 DEF Upsert, Pruned, Stored
  <2> QED
    BY <2>1, <2>2
<1>7. \A d \in Conns : Taken(d)' = Taken(d)
  BY DEF Taken
<1>8. \A d \in Conns : Phase(d)' = IF d \in {c} THEN "over" ELSE Phase(d)
  BY <1>4, <1>5
<1> QED
  BY <1>6, <1>7, <1>8, AsForget

LEMMA PhaseUnborn ==
    ASSUME Typed, RowsOK, NEW c \in Conns, row[c] = "unborn"
    PROVE  Phase(c) = "new" /\ \A k \in Callers : cmd[k].at # "idle" => cmd[k].conn # c
<1>1. \A k \in Callers : cmd[k].at # "idle" => cmd[k].conn # c
  BY DEF Typed, OnConn
<1>2. fwd[c] = "none"
  BY DEF RowsOK, UnbornUntouched, Untouched
<1> QED
  BY <1>1, <1>2 DEF Phase, Opening, Underway

LEMMA ConnectMaps ==
    ASSUME Typed, RowsOK, NEW k \in Callers,
           \/ StartConnect(k) \/ PrepareFails(k) \/ Prepared(k) \/ DialFails(k)
           \/ Dial(k) \/ RecordOpen(k) \/ MarkConnected(k) \/ ConnectBreaks(k)
    PROVE  [T!Next]_T!vars
<1> USE DEF Runs
<1>0. UNCHANGED <<heard, queue>> /\ \A d \in Conns : Taken(d)' = Taken(d)
  BY DEF StartConnect, PrepareFails, Prepared, DialFails, Dial, RecordOpen, MarkConnected,
         ConnectBreaks, stream, Taken
<1>1. CASE StartConnect(k)
  <2>1. PICK c \in Conns : /\ row[c] = "unborn" /\ Upsert(c, "initialized")
                           /\ Begin(k, "preparing", c)
    BY <1>1 DEF StartConnect, Fresh
  <2>2. /\ cmd'[k].at = "preparing" /\ cmd'[k].conn = c
        /\ \A j \in Callers : j # k => cmd'[j] = cmd[j]
    BY <2>1, BeginType DEF Steps, Connecting
  <2>3. cmd[k].at = "idle" /\ UNCHANGED fwd
    BY <1>1 DEF StartConnect
  <2>4. /\ row'[c] = "initialized"
        /\ \A e \in Conns \ {c} :
              row'[e] = row[e] \/ (row[e] # "unborn" /\ row'[e] # "unborn")
    BY <2>1, UpsertRows DEF States
  <2>5. \A d \in Conns \ {c} : Phase(d)' = Phase(d)
    BY <2>2, <2>3, <2>4, OtherPhases DEF Connecting
  <2>6. Phase(c) = "new" /\ \A j \in Callers : cmd[j].at # "idle" => cmd[j].conn # c
    BY <2>1, PhaseUnborn
  <2>7. Phase(c)' = "new"
    <3>1. Underway(c)' /\ ~Opening(c)'
      BY <2>2, <2>6 DEF Underway, Opening
    <3>2. fwd'[c] = "none"
      BY <2>1, <2>3 DEF RowsOK, UnbornUntouched, Untouched
    <3> QED
      BY <3>1, <3>2 DEF Phase
  <2>8. /\ Pruned \in SUBSET Conns
        /\ log' = [d \in Conns |-> IF d \in Pruned THEN <<>> ELSE log[d]]
    BY <2>1 DEF Upsert, Pruned, Stored
  <2> QED
    BY <1>0, <2>5, <2>6, <2>7, <2>8, AsErase
<1>2. CASE PrepareFails(k) \/ DialFails(k) \/ ConnectBreaks(k)
  <2>1. /\ cmd[k].at \in Connecting /\ Return(k) /\ UNCHANGED fwd
        /\ UNCHANGED rows \/ Upsert(cmd[k].conn, "closed")
    BY <1>2 DEF PrepareFails, DialFails, ConnectBreaks, Connecting, UpsertFails
  <2> QED
    BY <1>0, <2>1, GivenUp DEF States
<1>3. CASE Prepared(k) \/ Dial(k)
  <2>1. /\ UNCHANGED <<row, log, fwd>> /\ cmd[k].at \in {"preparing", "dialing"}
        /\ \E step \in {"dialing", "opened"} : GoTo(k, step)
    BY <1>3 DEF Prepared, Dial, rows
  <2>2. /\ cmd'[k].at \in {"dialing", "opened"} /\ cmd'[k].conn = cmd[k].conn
        /\ \A j \in Callers : j # k => cmd'[j] = cmd[j]
    BY <2>1, GoToType DEF Steps, Connecting
  <2>3. \A d \in Conns : Phase(d)' = Phase(d)
    <3>1. \A d \in Conns : \A j \in Callers :
             /\ Opens(j, d)' <=> Opens(j, d)
             /\ Awaits(j, d)' <=> Awaits(j, d)
      BY <2>1, <2>2 DEF Opens, Awaits
    <3> QED
      BY <2>1, <3>1, PhaseKept
  <2> QED
    BY <1>0, <2>1, <2>3, AsStutter
<1>4. CASE RecordOpen(k)
  <2>0. PICK c \in Conns : c = cmd[k].conn
    BY <1>4, ConnOf DEF RecordOpen
  <2>1. cmd[k].at = "opened" /\ UNCHANGED <<row, fwd>>
    BY <1>4 DEF RecordOpen, AddEvent, AddFails, rows
  <2>2. CASE AddFails(c)
    <3>1. Return(k) /\ UNCHANGED rows
      BY <1>4, <2>0, <2>2 DEF RecordOpen, AddFails, AddEvent
    <3> QED
      BY <1>0, <2>1, <3>1, GivenUp DEF Connecting
  <2>3. CASE AddEvent(c, Mark("open")) /\ GoTo(k, "recorded")
    <3>1. /\ cmd'[k].at = "recorded" /\ cmd'[k].conn = c
          /\ \A j \in Callers : j # k => cmd'[j] = cmd[j]
      BY <2>0, <2>1, <2>3, GoToType DEF Steps, Connecting
    <3>2. Phase(c) = "new"
      BY <2>0, <2>1, PhaseOpened DEF Connecting
    <3>3. Phase(c)' = "open"
      <4>1. Opening(c)'
        BY <3>1 DEF Opening
      <4> QED
        BY <4>1 DEF Phase
    <3>4. \A d \in Conns \ {c} : Phase(d)' = Phase(d)
      BY <2>0, <2>1, <3>1, OtherPhases
    <3>5. log' = [log EXCEPT ![c] = Append(@, Mark("open"))]
      BY <2>3 DEF AddEvent
    <3> QED
      BY <1>0, <3>2, <3>3, <3>4, <3>5, AsOpen
  <2> QED
    BY <1>4, <2>0, <2>2, <2>3 DEF RecordOpen
<1>5. CASE MarkConnected(k)
  <2>0. PICK c \in Conns : c = cmd[k].conn
    BY <1>5, ConnOf DEF MarkConnected
  <2>1. /\ cmd[k].at = "recorded" /\ Upsert(c, "connected")
        /\ fwd'[c] = "running" /\ \A d \in Conns \ {c} : fwd'[d] = fwd[d]
    BY <1>5, <2>0 DEF MarkConnected, Typed, TypeOK
  <2>2. /\ cmd'[k].at = "idle" /\ \A j \in Callers : j # k => cmd'[j] = cmd[j]
    BY <1>5, ReturnType DEF MarkConnected
  <2>3. \A d \in Conns \ {c} :
           row'[d] = row[d] \/ (row[d] # "unborn" /\ row'[d] # "unborn")
    BY <2>1, UpsertRows DEF States
  <2>4. \A d \in Conns \ {c} : Phase(d)' = Phase(d)
    BY <2>0, <2>1, <2>2, <2>3, OtherPhases DEF Connecting
  <2>5. Phase(c) = "open" /\ Phase(c)' = "open"
    BY <2>0, <2>1, PhaseOpened DEF Connecting, Phase
  <2>6. /\ Pruned \in SUBSET Conns
        /\ log' = [d \in Conns |-> IF d \in Pruned THEN <<>> ELSE log[d]]
    BY <2>1 DEF Upsert, Pruned, Stored
  <2> QED
    BY <1>0, <2>4, <2>5, <2>6, AsErase
<1> QED
  BY <1>1, <1>2, <1>3, <1>4, <1>5

\* Sending and closing leave every phase as it is.
LEMMA CommandMaps ==
    ASSUME Typed, RowsOK, NEW k \in Callers,
           \/ StartSend(k) \/ SendNowhere(k) \/ StartWrite(k) \/ WriteDone(k) \/ WriteFails(k)
           \/ StartClose(k) \/ MarkClosing(k) \/ TakeSocket(k)
           \/ SaidGoodbye(k) \/ GoodbyeFails(k) \/ StopReading(k)
    PROVE  [T!Next]_T!vars
<1> USE DEF Runs
<1>1. /\ cmd[k].at \notin Connecting /\ UNCHANGED <<heard, queue, fwd>>
      /\ \A d \in Conns : Taken(d)' = Taken(d)
  BY DEF StartSend, SendNowhere, StartWrite, WriteDone, WriteFails, StartClose, MarkClosing,
         TakeSocket, SaidGoodbye, GoodbyeFails, StopReading, stream, Taken, Connecting
<1>2. /\ cmd'[k].at \notin Connecting /\ \A j \in Callers : j # k => cmd'[j] = cmd[j]
  <2>1. CASE StartSend(k) \/ StartClose(k)
    BY <2>1, BeginType
    DEF StartSend, StartClose, Stored, Steps, Sending, Closing, Connecting
  <2>2. CASE StartWrite(k) \/ TakeSocket(k) \/ SaidGoodbye(k) \/ GoodbyeFails(k)
    BY <2>2, GoToType
    DEF StartWrite, TakeSocket, SaidGoodbye, GoodbyeFails, Steps, Sending, Closing,
        Connecting
  <2>3. CASE SendNowhere(k) \/ WriteDone(k) \/ WriteFails(k) \/ StopReading(k)
    BY <2>3, ReturnType
    DEF SendNowhere, WriteDone, WriteFails, StopReading, NoteSent, Connecting
  <2>4. CASE MarkClosing(k)
    BY <2>4, GoToType, ReturnType DEF MarkClosing, Steps, Closing, Connecting
  <2> QED
    BY <2>1, <2>2, <2>3, <2>4
<1>3. ASSUME \A d \in Conns :
                row'[d] = row[d] \/ (row[d] # "unborn" /\ row'[d] # "unborn")
      PROVE  \A d \in Conns : Phase(d)' = Phase(d)
  BY <1>1, <1>2, <1>3, OtherPhases
<1>4. CASE UNCHANGED rows
  BY <1>1, <1>3, <1>4, AsStutter DEF rows
<1>5. CASE ~UNCHANGED rows
  <2>0. PICK c \in Conns : c = cmd[k].conn
    BY <1>5, ConnOf
    DEF StartSend, SendNowhere, StartWrite, WriteDone, WriteFails, StartClose, MarkClosing,
        TakeSocket, SaidGoodbye, GoodbyeFails, StopReading
  <2>1. CASE AddEvent(c, Mark("sent"))
    <3>1. UNCHANGED row /\ log' = [log EXCEPT ![c] = Append(@, Mark("sent"))]
      BY <2>1 DEF AddEvent
    <3> QED
      BY <1>1, <1>3, <3>1, AsNote
  <2>2. CASE Upsert(c, "closing") /\ cmd[k].at = "marking"
    <3>1. \A d \in Conns : row'[d] = row[d] \/ (row[d] # "unborn" /\ row'[d] # "unborn")
      BY <2>0, <2>2, UpsertRows DEF States, Typed, OnConn
    <3>2. /\ Pruned \in SUBSET Conns
          /\ log' = [d \in Conns |-> IF d \in Pruned THEN <<>> ELSE log[d]]
      BY <2>2 DEF Upsert, Pruned, Stored
    <3> QED
      BY <1>1, <1>3, <3>1, <3>2, AsErase
  <2> QED
    BY <1>5, <2>0, <2>1, <2>2
    DEF StartSend, SendNowhere, StartWrite, WriteDone, WriteFails, StartClose, MarkClosing,
        TakeSocket, SaidGoodbye, GoodbyeFails, StopReading, NoteSent, AddFails, UpsertFails
<1> QED
  BY <1>4, <1>5

LEMMA ForwarderMaps ==
    ASSUME Typed, RowsOK, StreamOK, NEW c \in Conns, Forwarder(c)
    PROVE  [T!Next]_T!vars
<1>1. UNCHANGED cmd /\ \A d \in Conns \ {c} : fwd'[d] = fwd[d]
  BY DEF Forwarder, Forward, ForwardPanics, LastForwarded, MarkClosed, locks, Typed, TypeOK
<1>2. /\ Phase(c) = IF fwd[c] = "running" THEN "open" ELSE "over"
      /\ fwd[c] # "none" /\ row[c] # "unborn"
      /\ \A k \in Callers : ~Opens(k, c) /\ ~Awaits(k, c)
  <2>1. fwd[c] # "none"
    BY DEF Forwarder, Forward, ForwardPanics, LastForwarded, MarkClosed
  <2>2. row[c] # "unborn"
    BY <2>1 DEF RowsOK, UnbornUntouched, Untouched
  <2>3. \A k \in Callers : ~Opens(k, c) /\ ~Awaits(k, c)
    BY <2>1 DEF RowsOK, BeforeServed, Opens, Awaits, Connecting
  <2> QED
    BY <2>1, <2>2, <2>3, PhaseServed
<1>3. ASSUME row'[c] # "unborn"
      PROVE  Phase(c)' = IF fwd'[c] = "running" THEN "open" ELSE "over"
  BY <1>1, <1>2, <1>3 DEF Phase, Opening, Underway, Opens, Awaits
<1>4. ASSUME NEW d \in Conns \ {c}, row'[d] = "unborn" <=> row[d] = "unborn"
      PROVE  Phase(d)' = Phase(d)
  BY <1>1, <1>4, PhaseKept DEF Opens, Awaits
<1>5. CASE Forward(c)
  <2>1. /\ Taken(c)' = Taken(c) + 1 /\ \A d \in Conns \ {c} : Taken(d)' = Taken(d)
        /\ fwd[c] = "running" /\ Head(queue[c]) = Taken(c) + 1
    BY <1>5, TakenStep
  <2>2. /\ UNCHANGED row /\ fwd'[c] = AfterForward(c)
        /\ log' = [log EXCEPT ![c] = Append(@, Event(c, Taken(c) + 1))]
    BY <1>5, <2>1 DEF Forward, AddEvent, Typed, TypeOK
  <2>3. \A d \in Conns \ {c} : Phase(d)' = Phase(d)
    BY <1>4, <2>2
  <2>4. CASE Event(c, Taken(c) + 1) = Mark("close")
    <3>1. Phase(c) = "open" /\ Phase(c)' = "over"
      BY <1>2, <1>3, <2>1, <2>2, <2>4 DEF AfterForward
    <3> QED
      BY <2>1, <2>2, <2>3, <2>4, <3>1, AsEnd
  <2>5. CASE Event(c, Taken(c) + 1) # Mark("close")
    <3>1. Event(c, Taken(c) + 1) = Frame(Taken(c) + 1)
      BY <2>5 DEF Event
    <3>2. Phase(c) = "open" /\ Phase(c)' = "open"
      BY <1>2, <1>3, <2>1, <2>2, <2>5 DEF AfterForward
    <3> QED
      BY <2>1, <2>2, <2>3, <3>1, <3>2, AsDeliver
  <2> QED
    BY <2>4, <2>5
<1>6. CASE ForwardPanics(c)
  <2>1. UNCHANGED <<row, log>> /\ fwd'[c] = "dead" /\ \A d \in Conns : Taken(d)' = Taken(d)
    BY <1>6 DEF ForwardPanics, AddFails, rows, stream, Taken, Typed, TypeOK
  <2>2. \A d \in Conns : Phase(d)' = IF d \in {c} THEN "over" ELSE Phase(d)
    BY <1>2, <1>3, <1>4, <2>1
  <2>3. log' = [d \in Conns |-> log[d]]
    BY <2>1 DEF Typed, TypeOK
  <2> DEFINE left == {c}
  <2>4. /\ left \in SUBSET Conns
        /\ \A d \in Conns : Phase(d)' = IF d \in left THEN "over" ELSE Phase(d)
    BY <2>2
  <2> DEFINE gone == {}
  <2>5. gone \in SUBSET Conns /\ log' = [d \in Conns |-> IF d \in gone THEN <<>> ELSE log[d]]
    BY <2>3
  <2> HIDE DEF left, gone
  <2> QED
    BY <2>1, <2>4, <2>5, AsForget
<1>7. CASE LastForwarded(c)
  <2>1. /\ UNCHANGED row /\ fwd'[c] = "settling" /\ fwd[c] \in {"running", "said"}
        /\ \A d \in Conns : Taken(d)' = Taken(d)
        /\ IF fwd[c] = "said" THEN UNCHANGED log ELSE AddEvent(c, Mark("close"))
    BY <1>7 DEF LastForwarded, AddEvent, rows, stream, Taken, Typed, TypeOK
  <2>2. Phase(c)' = "over" /\ \A d \in Conns \ {c} : Phase(d)' = Phase(d)
    BY <1>2, <1>3, <1>4, <2>1
  <2>3. CASE fwd[c] = "said"
    BY <1>2, <2>1, <2>2, <2>3, AsStutter
  <2>4. CASE fwd[c] = "running"
    <3>1. log' = [log EXCEPT ![c] = Append(@, Mark("close"))]
      BY <2>1, <2>4 DEF AddEvent
    <3>2. Phase(c) = "open" /\ Taken(c)' = Taken(c) + 0
      <4>1. Taken(c) + 0 = Taken(c)
        BY StreamTypes DEF Taken
      <4> QED
        BY <1>2, <2>1, <2>4, <4>1
    <3> QED
      BY <2>1, <2>2, <3>1, <3>2, AsEnd
  <2> QED
    BY <2>1, <2>3, <2>4
<1>8. CASE MarkClosed(c)
  <2>1. /\ fwd[c] = "settling" /\ fwd'[c] = "dead"
        /\ \A d \in Conns : Taken(d)' = Taken(d)
        /\ Upsert(c, "closed") \/ UpsertFails
    BY <1>8 DEF MarkClosed, stream, Taken, Typed, TypeOK
  <2>2. \A d \in Conns : row'[d] = row[d] \/ (row[d] # "unborn" /\ row'[d] # "unborn")
    BY <1>2, <2>1, UpsertRows DEF UpsertFails, rows, States
  <2>3. \A d \in Conns : Phase(d)' = Phase(d)
    BY <1>2, <1>3, <1>4, <2>1, <2>2
  <2>4. CASE Upsert(c, "closed")
    <3>1. /\ Pruned \in SUBSET Conns
          /\ log' = [d \in Conns |-> IF d \in Pruned THEN <<>> ELSE log[d]]
      BY <2>4 DEF Upsert, Pruned, Stored
    <3> QED
      BY <2>1, <2>3, <3>1, AsErase
  <2>5. CASE UpsertFails
    BY <2>1, <2>3, <2>5, AsStutter DEF UpsertFails, rows
  <2> QED
    BY <2>1, <2>4, <2>5
<1> QED
  BY <1>5, <1>6, <1>7, <1>8 DEF Forwarder

LEMMA OutsideMaps ==
    ASSUME Typed, RowsOK, StreamOK,
           \/ \E c \in Conns : Reader(c) \/ Server(c) \/ DeleteConnection(c)
           \/ DeleteConnections \/ DeleteRequest \/ Restart
    PROVE  [T!Next]_T!vars
<1>1. ASSUME NEW c \in Conns, Reader(c) \/ Server(c)
      PROVE  [T!Next]_T!vars
  <2>1. UNCHANGED <<row, log, cmd, fwd>>
    BY <1>1 DEF Reader, ReadFrame, ReadPanics, StreamEnds, Unregister, Server, Speak, HangUp,
                Disconnect, rows, locks
  <2>2. \A d \in Conns : Taken(d)' = Taken(d)
    BY <1>1, HeardStep DEF Reader, ReadPanics, StreamEnds, Unregister, Server, Speak, HangUp,
                           Disconnect, stream, Taken
  <2>3. \A d \in Conns : Phase(d)' = Phase(d)
    BY <2>1, PhaseKept DEF Opens, Awaits
  <2> QED
    BY <2>1, <2>2, <2>3, AsStutter
<1>2. CASE (\E c \in Conns : DeleteConnection(c)) \/ DeleteConnections \/ DeleteRequest
  <2>1. /\ UNCHANGED <<cmd, fwd>> /\ \A d \in Conns : Taken(d)' = Taken(d)
    BY <1>2 DEF DeleteConnection, DeleteConnections, DeleteRequest, locks, stream, Taken
  <2>2. PICK gone \in SUBSET Stored : Drop(gone)
    BY <1>2 DEF DeleteConnection, DeleteConnections, DeleteRequest
  <2>3. \A d \in Conns : row'[d] = "unborn" <=> row[d] = "unborn"
    BY <2>2 DEF Drop, Stored, States
  <2>4. \A d \in Conns : Phase(d)' = Phase(d)
    BY <2>1, <2>3, PhaseKept DEF Opens, Awaits
  <2>5. gone \in SUBSET Conns
    BY DEF Stored
  <2> QED
    BY <2>1, <2>2, <2>4, <2>5, AsErase DEF Drop
<1>3. CASE Restart
  <2> DEFINE left == {d \in Conns : row[d] # "unborn"}
  <2> DEFINE gone == {}
  <2>1. /\ UNCHANGED <<log, heard, queue>> /\ \A k \in Callers : cmd'[k].at = "idle"
        /\ \A d \in Conns : fwd'[d] = "none" /\ (row'[d] = "unborn" <=> row[d] = "unborn")
    BY <1>3 DEF Restart, Idle, Cancelled, Stored, States
  <2>2. \A d \in Conns : Phase(d)' = IF row'[d] = "unborn" THEN "new" ELSE "over"
    BY <2>1 DEF Phase, Opening, Underway
  <2>3. \A d \in Conns : Phase(d)' = IF d \in left THEN "over" ELSE Phase(d)
    BY <2>1, <2>2, PhaseUnborn
  <2>4. log' = [d \in Conns |-> log[d]] /\ \A d \in Conns : Taken(d)' = Taken(d)
    BY <2>1 DEF Typed, TypeOK, Taken
  <2>5. gone \in SUBSET Conns /\ log' = [d \in Conns |-> IF d \in gone THEN <<>> ELSE log[d]]
    BY <2>4
  <2>6. left \in SUBSET Conns
    OBVIOUS
  <2> HIDE DEF left, gone
  <2> QED
    BY <2>3, <2>4, <2>5, <2>6, AsForget
<1> QED
  BY <1>1, <1>2, <1>3

\* What is stored for a connection is a transcript of it: every behaviour of
\* Websocket, seen through Phase and Taken, is one of Transcript.
THEOREM ImplementsTranscript == Spec => RecordsTranscript
<1>1. Init => T!Init
  BY DEF Init, T!Init, Idle, Phase, Opening, Underway, Taken
<1>2. Typed /\ RowsOK /\ StreamOK /\ [Next]_vars => [T!Next]_T!vars
  <2>1. ASSUME Typed, RowsOK, UNCHANGED vars
        PROVE  UNCHANGED T!vars
    BY <2>1, AsStutter, PhaseKept DEF vars, Taken, Opens, Awaits
  <2> QED
    BY <2>1, ConnectMaps, CommandMaps, ForwarderMaps, OutsideMaps
    DEF Next, Command, Written, User
<1>3. Init => StreamOK
  BY DEF Init, StreamOK, Taken
<1>4. Spec => []StreamOK
  BY <1>3, StreamStep, RowsAlways, PTL DEF Spec
<1> QED
  BY <1>1, <1>2, <1>4, RowsAlways, PTL DEF Spec, RecordsTranscript, T!Spec

=============================================================================
