--------------------------- MODULE Introspection ---------------------------
(***************************************************************************)
(* The schema of the GraphQL editor (hooks/useIntrospectGraphQL.ts): what  *)
(* a server said is stored per request, kept in the cache of queries, and  *)
(* parsed for the editor, which stays when another GraphQL request becomes *)
(* the active one.                                                         *)
(***************************************************************************)
EXTENDS Integers, Sequences, FiniteSets

CONSTANTS
    Requests,
    Answers,        \* [Requests -> sets of contents]: two can have one server
    Unreadable,     \* the contents that do not parse
    MaxUnderWay     \* fetches and writes: a bound

None == "none"      \* no row, or not read yet
Empty == ""         \* cleared

VARIABLES
    row,            \* the stored content of each request
    cached,         \* that of the cache
    current,        \* the active request
    parsed,         \* schema: the content it was parsed from
    fetching,       \* refetch and clear under way: sequences of [request, content],
    writing,        \* before and after the row is written; a fetch has None before it
    reading,        \* get_graphql_introspection: [request, content], None before
    overtaken       \* two of one request were under way, or a cleared one was left for its like

vars == <<row, cached, current, parsed, fetching, writing, reading, overtaken>>

Room == Len(fetching) + Len(writing) < MaxUnderWay
Quiet == fetching = <<>> /\ writing = <<>> /\ reading = <<>>
Readable(content) == content \notin {None, Empty} \cup Unreadable

About(r) == {s \in {fetching, writing, reading} : \E k \in DOMAIN s : s[k].request = r}
Without(s, k) == SubSeq(s, 1, k - 1) \o SubSeq(s, k + 1, Len(s))
Job(r, content) == [request |-> r, content |-> content]

\* The schema of the active request was cleared, and the row or the cache is still to be.
Clearing == \E s \in {fetching, writing} : \E k \in DOMAIN s : s[k] = Job(current, Empty)

-----------------------------------------------------------------------------

\* the effect on the content: what cannot be read leaves the schema
Parse(before, after) == parsed' = IF after # before /\ Readable(after) THEN after ELSE parsed

Cache(r, content) ==
    /\ cached' = [cached EXCEPT ![r] = content]
    /\ Parse(cached[current], cached'[current])

Init ==
    /\ row \in [Requests -> {None}] /\ cached = row /\ current \in Requests
    /\ parsed = None /\ fetching = <<>> /\ writing = <<>> /\ overtaken = FALSE
    /\ reading = <<Job(current, None)>>

Refetch ==
    /\ Room /\ fetching' = Append(fetching, Job(current, None))
    /\ overtaken' = (overtaken \/ About(current) # {})
    /\ UNCHANGED <<row, cached, current, parsed, writing, reading>>

\* Mutant: the answer is stored for the request that is active now.
Whoever(job) == current

\* upsertIntrospection of the callback
Owner(job) == job.request

\* a response: the row is written; the answer of that write comes later
Answered(k, content) ==
    /\ content \in IF fetching[k].content = None THEN Answers[fetching[k].request] ELSE {Empty}
    /\ fetching' = Without(fetching, k)
    /\ row' = [row EXCEPT ![Owner(fetching[k])] = content]
    /\ writing' = Append(writing, Job(Owner(fetching[k]), content))
    /\ UNCHANGED <<cached, current, parsed, reading, overtaken>>

\* an error, a bad status or an empty body
FetchFails(k) ==
    /\ fetching[k].content = None /\ fetching' = Without(fetching, k)
    /\ UNCHANGED <<row, cached, current, parsed, writing, reading, overtaken>>

\* setQueryData
Written(k) ==
    /\ writing' = Without(writing, k) /\ Cache(writing[k].request, writing[k].content)
    /\ UNCHANGED <<row, current, fetching, reading, overtaken>>

Clear ==
    /\ parsed # None /\ parsed' = None
    /\ Room /\ fetching' = Append(fetching, Job(current, Empty))
    /\ overtaken' = (overtaken \/ About(current) # {})
    /\ UNCHANGED <<row, cached, current, writing, reading>>

\* The row is read, and the answer arrives; a read of one request at a time.
Read(k) ==
    /\ reading[k].content = None
    /\ reading' = [reading EXCEPT ![k].content = row[reading[k].request]]
    /\ row[reading[k].request] # None
    /\ UNCHANGED <<row, cached, current, parsed, fetching, writing, overtaken>>

Arrives(k) ==
    /\ IF reading[k].content # None THEN Cache(reading[k].request, reading[k].content)
       ELSE row[reading[k].request] = None /\ UNCHANGED <<cached, parsed>>
    /\ reading' = Without(reading, k)
    /\ UNCHANGED <<row, current, fetching, writing, overtaken>>

\* Another request becomes active: the same editor, or a new one after another kind of
\* request.  What the cache has is used, and read again.
Activate(r, anew) ==
    /\ anew \/ r # current
    /\ current' = r
    /\ parsed' = IF Readable(cached[r]) /\ (anew \/ cached[r] # cached[current]) THEN cached[r]
                 ELSE IF anew THEN None ELSE parsed
    /\ reading' = IF \E k \in DOMAIN reading : reading[k].request = r THEN reading
                  ELSE Append(reading, Job(r, None))
    /\ overtaken' = (overtaken \/ About(r) # {} \/ (Clearing /\ cached[r] = cached[current]))
    /\ UNCHANGED <<row, cached, fetching, writing>>

Next ==
    \/ Refetch \/ Clear
    \/ \E k \in DOMAIN fetching :
         FetchFails(k) \/ \E content \in UNION {Answers[r] : r \in Requests} \cup {Empty} : Answered(k, content)
    \/ \E k \in DOMAIN writing : Written(k)
    \/ \E k \in DOMAIN reading : Read(k) \/ Arrives(k)
    \/ \E r \in Requests, anew \in BOOLEAN : Activate(r, anew)

Spec == Init /\ [][Next]_vars

-----------------------------------------------------------------------------
(* Properties. *)

TypeOK ==
    /\ current \in Requests
    /\ \A s \in {fetching, writing, reading} : \A k \in DOMAIN s : s[k].request \in Requests
    /\ DOMAIN row = Requests /\ DOMAIN cached = Requests

\* What is stored and kept for a request is what its own server said, although the
\* active request changes while answers are on their way.
StoredIsOwn == \A r \in Requests : {row[r], cached[r]} \subseteq Answers[r] \cup {None, Empty}

\* When nothing is under way the cache has what is stored, and the editor has the schema
\* of that, if there is one; unless one request had two things under way, or the same
\* text was the schema of the next one when the editor's was being cleared (its effect
\* sees the text, not the request).
ShowsStored ==
    Quiet /\ ~overtaken =>
        /\ \A r \in Requests : cached[r] = row[r]
        /\ Readable(row[current]) => parsed = row[current]

=============================================================================
