---------------------------- MODULE ResponsePane ----------------------------
(***************************************************************************)
(* A request that is sent, the row and body file its response gets while   *)
(* it arrives, and the pane that shows one response of the active request: *)
(* the pinned one or the last, with the text that a query read of its file.*)
(*                                                                         *)
(* A response is its place in the order of sending.  The query's key is    *)
(* the response with its row's version; the text of the key before stays   *)
(* while a new one is read.  The news of a row is in the window as soon as *)
(* it is written, but the update of a chunk comes after its write.  A row's *)
(* version never comes back, so an answer for an older one is left out.    *)
(*                                                                         *)
(* Two work on a response: the task that reads its body, with a copy of    *)
(* the row that it writes over it, and the command that sent it, which a   *)
(* cancel wakes to read the row and write it closed.                       *)
(***************************************************************************)
EXTENDS Integers, Sequences, FiniteSetsExt

CONSTANTS
    Requests,
    Sent,       \* bound: those that are sent
    Cancelled,  \* bound: the responses that are cancelled
    MaxResponses, MaxChunks  \* bounds

None == 0
Gone == -1
Unread == -1
Ids == 1..MaxResponses

VARIABLES
    request,    \* the active request
    responses,  \* the rows in the order of sending: [request, state, size]
    phase,      \* of each response: how far its task is
    counts,     \* chunks in the task's copy of the row
    cancels,    \* how far the command is with a cancel
    copies,     \* chunks in the row as it read it; Gone when there was none
    file,       \* chunks in its body file; Gone when that was deleted
    pins,       \* [latest response -> pinned response]
    cache,      \* what the query knows of each row as it is: chunks, or Unread
    reading,    \* responses whose file is read for their row as it is
    text,       \* the text that is shown: [of, chunks]
    hurried     \* closed by a cancel while their task had the row still to write

sending == <<phase, counts, cancels, copies, hurried>>
vars == <<request, responses, file, pins, cache, reading, text, sending>>

Phases == {"sending", "head", "body", "chunk", "over"}
Cancels == {"no", "asked", "read", "done"}
States == {"initialized", "connected", "closed", "deleted"}
NoText == [of |-> None, chunks |-> 0]

Of(r, rows) == {i \in DOMAIN rows : rows[i].request = r /\ rows[i].state # "deleted"}
LatestOf(r, rows) == Max(Of(r, rows) \cup {None})
\* Mutant: one pin for the request
FirstOf(r, rows) == Min(Of(r, rows) \cup {LatestOf(r, rows)})
\* a pin is kept for the latest response
PinKey(r, rows) == LatestOf(r, rows)
ShownOf(r, rows, pinned) ==
    LET latest == LatestOf(r, rows)
    IN  IF latest # None /\ pinned[PinKey(r, rows)] \in Of(r, rows)
        THEN pinned[PinKey(r, rows)] ELSE latest
Shown == ShownOf(request, responses, pins)

\* what the pane has for the response it shows
View ==
    IF Shown = None THEN "keys"
    ELSE IF responses[Shown].state = "initialized" THEN "waiting"
    ELSE IF responses[Shown].state = "closed" /\ responses[Shown].size = 0 THEN "empty"
    ELSE "body"

TypeOK ==
    /\ request \in Requests
    /\ \A i \in DOMAIN responses :
          responses[i] \in [request : Requests, state : States, size : 0..MaxChunks]
    /\ DOMAIN phase = DOMAIN responses /\ \A i \in DOMAIN phase : phase[i] \in Phases
    /\ counts \in [Ids -> 0..MaxChunks] /\ cancels \in [Ids -> Cancels]
    /\ copies \in [Ids -> Gone..MaxChunks]
    /\ file \in [Ids -> Gone..MaxChunks] /\ pins \in [Ids -> Ids \cup {None}]
    /\ text \in [of : Ids \cup {None}, chunks : 0..MaxChunks]
    /\ reading \subseteq Ids /\ cache \in [Ids -> Unread..MaxChunks]

Init ==
    /\ request = (CHOOSE r \in Requests : TRUE)
    /\ responses = <<>> /\ phase = <<>> /\ file = [i \in Ids |-> 0]
    /\ counts = [i \in Ids |-> 0] /\ copies = [i \in Ids |-> 0]
    /\ cancels = [i \in Ids |-> "no"]
    /\ pins = [i \in Ids |-> None]
    /\ cache = [i \in Ids |-> Unread] /\ reading = {} /\ text = NoText
    /\ hurried = {}

-----------------------------------------------------------------------------
(* The query. *)

\* The pane shows response i from now on, known are the texts known: what is known of
\* it is shown, else what was shown before, and its file is read.
Follow(i, known, reads) ==
    /\ text' = IF i = None THEN NoText
               ELSE IF known[i] # Unread THEN [of |-> i, chunks |-> known[i]] ELSE text
    /\ reading' = IF i = None THEN reads ELSE reads \cup {i}
    /\ cache' = known

\* the rows or the pins have changed, but not the version of what is shown
Moves(to) == IF to = Shown THEN UNCHANGED <<text, reading, cache>> ELSE Follow(to, cache, reading)

\* Mutant: the key is the response alone
ByResponse(i, to) == Moves(to)

\* Row i has changed, and by it its key: nothing is known of it.
Renewed(i, to) ==
    LET known == [cache EXCEPT ![i] = Unread]
    IN  IF i = to \/ to # Shown
        THEN Follow(to, known, reading \ {i})
        ELSE cache' = known /\ reading' = reading \ {i} /\ UNCHANGED text

\* The file is read.
Answer(i) ==
    /\ i \in reading /\ file[i] # Gone
    /\ cache' = [cache EXCEPT ![i] = file[i]]
    /\ text' = IF i = Shown THEN [of |-> i, chunks |-> file[i]] ELSE text
    /\ reading' = reading \ {i}
    /\ UNCHANGED <<request, responses, file, pins>> /\ UNCHANGED sending

\* There is no file: an error, and what was known stays.
NoAnswer(i) ==
    /\ i \in reading /\ file[i] = Gone
    /\ text' = IF i = Shown /\ cache[i] = Unread THEN NoText ELSE text
    /\ reading' = reading \ {i}
    /\ UNCHANGED <<request, responses, file, pins, cache>> /\ UNCHANGED sending

-----------------------------------------------------------------------------
(* Sending: send_http_request. *)

Writes(i, state, size) ==
    /\ responses' = [responses EXCEPT ![i].state = state, ![i].size = size]
    /\ Renewed(i, ShownOf(request, responses', pins))

Send ==
    /\ request \in Sent /\ Len(responses) < MaxResponses
    /\ responses' = Append(responses, [request |-> request, state |-> "initialized",
                                       size |-> 0])
    /\ phase' = Append(phase, "sending")
    /\ Moves(ShownOf(request, responses', pins))
    /\ UNCHANGED <<request, file, pins, counts, cancels, copies, hurried>>

\* The head has come, or an error: the task starts, and makes the directory first.
Arrives(i) ==
    /\ phase[i] = "sending"
    /\ phase' = [phase EXCEPT ![i] = "head"]
    /\ UNCHANGED <<request, responses, file, pins, cache, reading, text>>
    /\ UNCHANGED <<counts, cancels, copies, hurried>>

Connected(i) ==
    /\ phase[i] = "head"
    /\ phase' = [phase EXCEPT ![i] = "body"]
    /\ Writes(i, "connected", counts[i])
    /\ UNCHANGED <<request, file, pins, counts, cancels, copies, hurried>>

\* A chunk has come, no cancel before it, and is written; its update follows.
Chunk(i) ==
    /\ phase[i] = "body" /\ cancels[i] = "no" /\ counts[i] < MaxChunks
    /\ phase' = [phase EXCEPT ![i] = "chunk"]
    /\ file' = [file EXCEPT ![i] = IF @ = Gone THEN Gone ELSE @ + 1]
    /\ UNCHANGED <<request, responses, pins, cache, reading, text>>
    /\ UNCHANGED <<counts, cancels, copies, hurried>>

Told(i) ==
    /\ phase[i] = "chunk"
    /\ phase' = [phase EXCEPT ![i] = "body"]
    /\ counts' = [counts EXCEPT ![i] = @ + 1]
    /\ Writes(i, "connected", counts[i] + 1)
    /\ UNCHANGED <<request, file, pins, cancels, copies, hurried>>

\* The task sees the cancel when the next chunk has come, and leaves the row.
Stops(i) ==
    /\ phase[i] = "body" /\ cancels[i] # "no"
    /\ phase' = [phase EXCEPT ![i] = "over"]
    /\ UNCHANGED <<request, responses, file, pins, cache, reading, text>>
    /\ UNCHANGED <<counts, cancels, copies, hurried>>

\* The last chunk, an error of the body, or an error of the sending.  The command
\* ends with it, though a cancel may have come too.
Ends(i) ==
    /\ phase[i] \in {"head", "body"}
    /\ phase' = [phase EXCEPT ![i] = "over"]
    /\ \E left \in {cancels[i]} \cup IF cancels[i] = "asked" THEN {"done"} ELSE {} :
          cancels' = [cancels EXCEPT ![i] = left]
    /\ Writes(i, "closed", counts[i])
    /\ UNCHANGED <<request, file, pins, counts, copies, hurried>>

\* The button: the command and the task are told.
Cancel ==
    /\ Shown \in Cancelled \ {None} /\ responses[Shown].state # "closed"
    /\ phase[Shown] # "over" /\ cancels[Shown] = "no"
    /\ cancels' = [cancels EXCEPT ![Shown] = "asked"]
    /\ UNCHANGED <<request, responses, file, pins, cache, reading, text>>
    /\ UNCHANGED <<phase, counts, copies, hurried>>

\* Mutant: the row is left as it is
KeptState(i) == responses[i].state
CancelledState(i) == "closed"

\* Before the head: the row is closed, and there will be no task.
CancelSending(i) ==
    /\ phase[i] = "sending" /\ cancels[i] = "asked"
    /\ phase' = [phase EXCEPT ![i] = "over"]
    /\ cancels' = [cancels EXCEPT ![i] = "done"]
    /\ Writes(i, CancelledState(i), counts[i])
    /\ UNCHANGED <<request, file, pins, counts, copies, hurried>>

\* After it, the command reads the row ...
CancelReads(i) ==
    /\ phase[i] # "sending" /\ cancels[i] = "asked"
    /\ cancels' = [cancels EXCEPT ![i] = "read"]
    /\ copies' = [copies EXCEPT ![i] = IF responses[i].state = "deleted" THEN Gone
                                       ELSE responses[i].size]
    /\ UNCHANGED <<request, responses, file, pins, cache, reading, text>>
    /\ UNCHANGED <<phase, counts, hurried>>

\* ... and writes it closed, or the task's copy when there was none, which is locked
\* in the middle of a chunk.
CancelWrites(i) ==
    /\ cancels[i] = "read" /\ (copies[i] = Gone => phase[i] # "chunk")
    /\ cancels' = [cancels EXCEPT ![i] = "done"]
    /\ copies' = [copies EXCEPT ![i] = 0]
    /\ hurried' = IF phase[i] \in {"head", "chunk"} THEN hurried \cup {i} ELSE hurried
    /\ Writes(i, CancelledState(i), IF copies[i] = Gone THEN counts[i] ELSE copies[i])
    /\ UNCHANGED <<request, file, pins, phase, counts>>

-----------------------------------------------------------------------------
(* The pane. *)

Go(r) ==
    /\ r # request
    /\ request' = r
    /\ Moves(ShownOf(r, responses, pins))
    /\ UNCHANGED <<responses, file, pins>> /\ UNCHANGED sending

\* Choosing one in the list, or the entry that unpins: a pinned one is unpinned.
Toggle(pin, i) == IF pin = i THEN None ELSE i

Pin(i) ==
    /\ i \in Of(request, responses)
    /\ pins' = [pins EXCEPT ![PinKey(request, responses)] = Toggle(@, i)]
    /\ Moves(ShownOf(request, responses, pins'))
    /\ UNCHANGED <<request, responses, file>> /\ UNCHANGED sending
Unpin == Shown # None /\ Shown # LatestOf(request, responses) /\ Pin(Shown)

\* The row and its file; a response that is still arriving gets its row back.
Delete(is) ==
    /\ is \in {{Shown}, Of(request, responses)} \ {{}, {None}}
    /\ responses' = [i \in DOMAIN responses |->
                        IF i \in is THEN [responses[i] EXCEPT !.state = "deleted"]
                        ELSE responses[i]]
    /\ file' = [i \in Ids |-> IF i \in is /\ responses[i].state # "initialized" THEN Gone ELSE file[i]]
    /\ Moves(ShownOf(request, responses', pins))
    /\ UNCHANGED <<request, pins>> /\ UNCHANGED sending

Next ==
    \/ Send \/ Cancel \/ Unpin
    \/ \E i \in DOMAIN responses :
          \/ Arrives(i) \/ Connected(i) \/ Chunk(i) \/ Told(i) \/ Stops(i) \/ Ends(i)
          \/ CancelSending(i) \/ CancelReads(i) \/ CancelWrites(i) \/ Pin(i)
    \/ \E r \in Requests : Go(r)
    \/ \E is \in SUBSET DOMAIN responses : Delete(is)
    \/ \E i \in reading : Answer(i) \/ NoAnswer(i)

Spec == Init /\ [][Next]_vars

-----------------------------------------------------------------------------
(* Properties. *)

\* Once its file is read, the text is of the response that is shown, no shorter than its
\* row says, and the whole of it when its task has ended (HttpResponsePane.tsx, 165-199);
\* and what is said to be empty is, unless a cancel in the middle of a chunk wrote back a
\* row without it.
ShowsItsBody ==
    /\ View = "body" /\ Shown \notin reading =>
          \/ file[Shown] = Gone
          \/ /\ text.of = Shown
             /\ text.chunks >= responses[Shown].size
             /\ phase[Shown] = "over" => text.chunks = file[Shown]
    /\ View = "empty" /\ Shown \notin hurried /\ responses[Shown].size = counts[Shown] =>
          file[Shown] \in {0, Gone}

\* A response that neither its task nor a cancel works on any more is closed, so that it
\* can be saved and the bar's button sends again.  The one exception is a cancel that
\* closed it between the task's look for one and the task's next write of the row: before
\* the row was written connected, or in the middle of a chunk (http_request.rs, 534-601).
Worked(i) == phase[i] # "over" \/ cancels[i] \in {"asked", "read"}
EndedIsClosed ==
    \A i \in DOMAIN responses :
        ~Worked(i) /\ i \notin hurried => responses[i].state \in {"closed", "deleted"}

\* A new response is shown at once, and the pane of a request goes to another one only
\* when one is pinned, it is new, the one shown is deleted, or one comes back, which can
\* bring back the pin it had; the entry that unpins shows the last.
StaysWithIts ==
    request' = request =>
        /\ Len(responses') > Len(responses) => Shown' = Len(responses')
        /\ Shown' # Shown =>
              \/ pins' # pins \/ Len(responses') > Len(responses)
              \/ Shown = None \/ responses'[Shown].state = "deleted"
              \/ \E i \in DOMAIN responses :
                    responses[i].state = "deleted" /\ responses'[i].state # "deleted"
        /\ pins' # pins /\ Shown' = Shown => Shown = LatestOf(request, responses)
=============================================================================
