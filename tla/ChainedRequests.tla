--------------------------- MODULE ChainedRequests ---------------------------
(***************************************************************************)
(* Requests whose values come from the responses of others: the template   *)
(* function reads the newest response of a request, and sends that request *)
(* first when it has none, or always.  The request it sends may itself ask *)
(* for responses, so what is under way is a stack of renderings; previews  *)
(* and sends run beside each other.                                        *)
(***************************************************************************)
EXTENDS Integers, Sequences, SequencesExt, Relation

CONSTANTS Requests,  \* the requests of the workspace
          Plans,     \* what their values may ask for: request -> <<[to, behavior]>>
          MaxJobs,   \* bound: previews and sends under way
          MaxStarts, \* bound: previews and sends
          MaxDepth   \* bound: a chain, which without it may go on for ever

None == [state |-> "none", with |-> <<>>]

VARIABLES
    plan,       \* what the values of each request ask for
    responses,  \* of each request, the newest last: [state, with]
    jobs,       \* stacks of renderings: [request, purpose, values, row]; row 0 is none yet
    started,    \* previews and sends so far
    previewed,  \* of each request, how often a preview has sent it
    together    \* two were under way at once

vars == <<plan, responses, jobs, started, previewed, together>>

Purposes == {"preview", "send"}
\* without an answer, with a part of its body, with it, with an error, broken off
States == {"open", "arriving", "closed", "failed", "broken"}
Whole == "whole"
Values == {"", "part", Whole}

TypeOK ==
    /\ plan \in Plans /\ together \in BOOLEAN
    /\ \A r \in Requests :
          /\ previewed[r] \in Nat
          /\ \A i \in DOMAIN responses[r] :
                /\ responses[r][i].state \in States
                /\ ToSet(responses[r][i].with) \subseteq Values
    /\ \A j \in DOMAIN jobs : \A d \in DOMAIN jobs[j] :
          LET f == jobs[j][d]
          IN  /\ f.request \in Requests /\ f.purpose \in Purposes
              /\ Len(f.values) <= Len(plan[f.request])
              /\ f.row \in 0..Len(responses[f.request])

Init ==
    /\ plan \in Plans
    /\ responses = [r \in Requests |-> <<>>]
    /\ jobs = <<>> /\ started = 0 /\ together = FALSE
    /\ previewed = [r \in Requests |-> 0]

-----------------------------------------------------------------------------
(* The function. *)

Newest(r) ==
    IF r \notin Requests \/ responses[r] = <<>> THEN None ELSE Last(responses[r])

\* What is read of a response: its file, which is there while the body arrives.
Read(response) ==
    CASE response.state = "closed" -> Whole
      [] response.state \in {"arriving", "broken"} -> "part"
      [] OTHER -> ""

\* Mutant: a preview sends as often as it is made
AsAsked(behavior, purpose) == behavior
\* Previews are made often: what is always sent is then sent once.
FinalBehavior(behavior, purpose) ==
    IF behavior = "always" /\ purpose = "preview" THEN "smart" ELSE behavior

\* Whether the function sends the request, which must still exist.
Sends(ref, purpose) ==
    LET behavior == FinalBehavior(ref.behavior, purpose)
    IN  /\ ref.to \in Requests
        /\ behavior = "always" \/ (behavior = "smart" /\ Newest(ref.to) = None)

\* Mutant: what was there before it was sent
Earlier(r, row) == IF row = 1 THEN None ELSE responses[r][row - 1]
\* The response the function reads after it has sent the request.
Answered(r, row) == responses[r][row]

-----------------------------------------------------------------------------
(* Previews and sends. *)

Frame(r, purpose, row) == [request |-> r, purpose |-> purpose, values |-> <<>>, row |-> row]

OpenRow(r, with) ==
    responses' = [responses EXCEPT ![r] = Append(@, [state |-> "open", with |-> with])]

Start(job) ==
    /\ Len(jobs) < MaxJobs /\ started < MaxStarts
    /\ jobs' = Append(jobs, <<job>>)
    /\ started' = started + 1
    /\ together' = (together \/ jobs # <<>>)

\* The window shows what a value will be.
Preview(r) ==
    /\ Start(Frame(r, "preview", 0))
    /\ UNCHANGED <<plan, responses, previewed>>

\* The person sends a request: its response is there before anything is rendered.
Send(r) ==
    /\ OpenRow(r, <<>>)
    /\ Start(Frame(r, "send", Len(responses[r]) + 1))
    /\ UNCHANGED <<plan, previewed>>

Top(j) == Last(jobs[j])
Rendered(f) == Len(f.values) = Len(plan[f.request])

\* The rendering below goes on with a value.
Return(stack, value) ==
    [Front(stack) EXCEPT ![Len(stack) - 1].values = Append(@, value)]

\* The next value of a rendering: what is there, or a request is rendered to be sent.
Ask(j) ==
    /\ ~Rendered(Top(j))
    /\ LET f == Top(j)
           ref == plan[f.request][Len(f.values) + 1]
       IN  IF Sends(ref, f.purpose)
           THEN /\ Len(jobs[j]) < MaxDepth
                /\ jobs' = [jobs EXCEPT ![j] = Append(@, Frame(ref.to, f.purpose, 0))]
           ELSE jobs' = [jobs EXCEPT
                    ![j][Len(jobs[j])].values = Append(@, Read(Newest(ref.to)))]
    /\ UNCHANGED <<plan, responses, started, previewed, together>>

\* A preview is shown.
Show(j) ==
    /\ Len(jobs[j]) = 1 /\ Rendered(Top(j)) /\ Top(j).purpose = "preview"
    /\ jobs' = RemoveAt(jobs, j)
    /\ UNCHANGED <<plan, responses, started, previewed, together>>

\* What the function rendered is sent: it gets its response.
SendRendered(j) ==
    /\ Len(jobs[j]) > 1 /\ Rendered(Top(j)) /\ Top(j).row = 0
    /\ LET f == Top(j)
       IN  /\ OpenRow(f.request, f.values)
           /\ jobs' = [jobs EXCEPT ![j][Len(jobs[j])].row = Len(responses[f.request]) + 1]
           /\ previewed' = [previewed EXCEPT
                  ![f.request] = @ + IF f.purpose = "preview" THEN 1 ELSE 0]
    /\ UNCHANGED <<plan, started, together>>

\* The server begins to answer, and ends or breaks off; or it fails.
Arrive(j, state) ==
    /\ Rendered(Top(j)) /\ Top(j).row > 0
    /\ LET f == Top(j)
           row == responses[f.request][f.row]
       IN  /\ row.state = IF state \in {"closed", "broken"} THEN "arriving" ELSE "open"
           /\ responses' = [responses EXCEPT
                  ![f.request][f.row] = [state |-> state, with |-> f.values]]
    /\ UNCHANGED <<plan, jobs, started, previewed, together>>

\* Then the rendering that asked goes on.
GoOn(j) ==
    /\ Rendered(Top(j)) /\ Top(j).row > 0
    /\ LET f == Top(j)
       IN  /\ responses[f.request][f.row].state \in {"closed", "failed", "broken"}
           /\ jobs' = IF Len(jobs[j]) = 1 THEN RemoveAt(jobs, j)
                      ELSE [jobs EXCEPT ![j] =
                                Return(@, Read(Answered(f.request, f.row)))]
    /\ UNCHANGED <<plan, responses, started, previewed, together>>

Next ==
    \/ \E r \in Requests : Preview(r) \/ Send(r)
    \/ \E j \in DOMAIN jobs :
          \/ Ask(j) \/ Show(j) \/ SendRendered(j) \/ GoOn(j)
          \/ \E state \in States \ {"open"} : Arrive(j, state)

Spec == Init /\ [][Next]_vars

-----------------------------------------------------------------------------
(* Properties. *)

Asks == [<<r, q>> \in Requests \X Requests |->
            \E i \in DOMAIN plan[r] : plan[r][i].to = q]
Circular ==
    LET reaches == TransitiveClosure(Asks, Requests)
    IN  \E r \in Requests : reaches[r, r]

\* A request is sent with the whole of the responses it asks for, which are sent for
\* before it, however long the chain: unless one of them failed, the chain is a circle, or
\* another job was under way, whose response is read before it is there (getResponse).
SentWithWhole ==
    \A r \in Requests : \A i \in DOMAIN responses[r] :
        LET row == responses[r][i]
        IN  row.state \in {"arriving", "closed"} /\ ~together =>
                \/ \A k \in DOMAIN row.with :
                      plan[r][k].to \in Requests /\ plan[r][k].behavior # "never" =>
                          row.with[k] = Whole
                \/ Circular
                \/ \E q \in Requests : \E n \in DOMAIN responses[q] :
                      responses[q][n].state \in {"failed", "broken"}

\* Previews, which are made at every keystroke, send a request once at most, also one
\* that is always sent (the comment of finalBehavior), if they do not overlap.
PreviewsSendOnce ==
    ~together /\ ~Circular => \A r \in Requests : previewed[r] <= 1
=============================================================================
