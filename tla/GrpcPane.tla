------------------------------ MODULE GrpcPane ------------------------------
(***************************************************************************)
(* The request pane of gRPC: the schema that is asked for at the request's *)
(* URL, or read from its proto files, and the service and method that are  *)
(* chosen of it.                                                           *)
(*                                                                         *)
(* What is asked is kept under the request, the URL of up to a second ago  *)
(* and the files; but the server that is asked is the one in the database  *)
(* at that time.  An effect of React runs in the step that causes it.      *)
(***************************************************************************)
EXTENDS Integers, Sequences, FiniteSets, SequencesExt

CONSTANTS
    Requests, Urls,
    Served,       \* [url -> services], each [name, methods]; Failed when none answers
    FromFiles,    \* the services in the proto files
    Rows,         \* the requests as they are at first
    Worked,       \* bound: the requests whose URL and files are changed
    MaxPatches, MaxReads  \* bounds: writes and reads on their way at once

Unknown == <<[name |-> "?", methods |-> <<>>]>>
Failed == <<[name |-> "!", methods |-> <<>>]>>
None == ""

VARIABLES
    request,     \* the active request
    rows,        \* [request -> url, service, method]
    files,       \* the requests that have proto files
    patches,     \* rows to write, on their way
    debounced,   \* the active request's URL, of up to a second ago
    cache,       \* the services known under each key
    reading,     \* the keys that are asked for
    doubtful,    \* keys with an answer of another URL
    checked      \* the method whose schema the message's editor checks against

vars == <<request, rows, files, patches, debounced, cache, reading, doubtful, checked>>

Keys == Requests \X Urls \X {"server", "files"}
KeyOf(r, url, with) == <<r, url, IF r \in with THEN "files" ELSE "server">>
Key == KeyOf(request, debounced, files)

ServicesOf(r) == IF r \in files THEN FromFiles ELSE Served[rows[r].url]
Known(svs) == svs \notin {Unknown, Failed}
HasService(svs, name) == \E s \in ToSet(svs) : s.name = name
Methods(svs, name) == (CHOOSE s \in ToSet(svs) : s.name = name).methods
HasMethod(svs, row) ==
    HasService(svs, row.service) /\ row.method \in ToSet(Methods(svs, row.service))
FirstOr(s, d) == IF s = <<>> THEN d ELSE Head(s)

TypeOK ==
    /\ request \in Requests /\ files \subseteq Requests /\ debounced \in Urls
    /\ \A r \in Requests : rows[r].url \in Urls
    /\ DOMAIN cache = Keys /\ reading \subseteq Keys /\ doubtful \subseteq Keys
    /\ Len(patches) <= MaxPatches

\* What the effect patches of a row, seeing the services.
\* Mutant: the method is left as it is
ServiceOnly(row, svs) ==
    IF HasService(svs, row.service) THEN row
    ELSE [row EXCEPT !.service = FirstOr(svs, [name |-> None]).name]
Chosen(row, svs) ==
    IF HasMethod(svs, row) THEN row
    ELSE IF HasService(svs, row.service)
    THEN [row EXCEPT !.method = FirstOr(Methods(svs, row.service), None)]
    ELSE LET first == FirstOr(svs, [name |-> None, methods |-> <<>>])
         IN  [row EXCEPT !.service = first.name, !.method = FirstOr(first.methods, None)]

Patches(r, row, svs) ==
    IF Known(svs) /\ Chosen(row, svs) # row THEN <<[of |-> r, row |-> Chosen(row, svs)]>> ELSE <<>>

\* The editor checks against the method's schema once it is found, else as it did.
Checks(row, svs) ==
    IF Known(svs) /\ row.service # None /\ row.method # None /\ HasMethod(svs, row)
    THEN <<row.service, row.method>> ELSE checked

\* The pane comes to see request r as row with the services under a key; both effects run.
See(r, row, key, known, sent) ==
    /\ patches' = sent \o Patches(r, row, known[key])
    /\ Len(patches') <= MaxPatches
    /\ checked' = Checks(row, known[key])

Init ==
    /\ request \in Requests /\ rows \in Rows
    /\ files = {} /\ patches = <<>>
    /\ debounced = rows[request].url
    /\ cache = [k \in Keys |-> Unknown] /\ reading = {Key}
    /\ doubtful = {} /\ checked = <<>>

-----------------------------------------------------------------------------
(* Actions. *)

\* A patch is written and the window has its news.
Saved(i) ==
    /\ LET p == patches[i] IN
       /\ rows' = [rows EXCEPT ![p.of] = p.row]
       /\ IF p.of = request
          THEN See(request, p.row, Key, cache, RemoveAt(patches, i))
          ELSE patches' = RemoveAt(patches, i) /\ UNCHANGED checked
    /\ UNCHANGED <<request, files, debounced, cache, reading, doubtful>>

Send(row) ==
    /\ row # rows[request]
    /\ patches' = Append(patches, [of |-> request, row |-> row])
    /\ Len(patches') <= MaxPatches
    /\ UNCHANGED <<request, rows, files, debounced, cache, reading, doubtful, checked>>

Type(url) == request \in Worked /\ Send([rows[request] EXCEPT !.url = url])

\* one of the list, which is there with the services
Pick(service, method) ==
    /\ Known(cache[Key])
    /\ HasService(cache[Key], service) /\ method \in ToSet(Methods(cache[Key], service))
    /\ Send([rows[request] EXCEPT !.service = service, !.method = method])

\* a second after the last change of the URL
Debounce ==
    /\ debounced # rows[request].url
    /\ debounced' = rows[request].url
    /\ LET key == KeyOf(request, debounced', files) IN
       /\ reading' = reading \cup {key}
       /\ See(request, rows[request], key, cache, patches)
    /\ UNCHANGED <<request, rows, files, cache, doubtful>>

\* Another request: its key has the other one's URL until then.
Go(r) ==
    /\ r # request
    /\ request' = r
    /\ LET key == KeyOf(r, debounced, files) IN
       /\ reading' = reading \cup {key}
       /\ See(r, rows[r], key, cache, patches)
    /\ UNCHANGED <<rows, files, debounced, cache, doubtful>>

\* files are added or taken away in the dialog; adding also asks again under the old key
Configure ==
    /\ request \in Worked
    /\ files' = IF request \in files THEN files \ {request} ELSE files \cup {request}
    /\ LET key == KeyOf(request, debounced, files')
       IN  /\ reading' = reading \cup (IF request \in files' THEN {Key, key} ELSE {key})
           /\ See(request, rows[request], key, cache, patches)
    /\ UNCHANGED <<request, rows, debounced, cache, doubtful>>

Refresh ==
    /\ Key \notin reading
    /\ reading' = reading \cup {Key}
    /\ UNCHANGED <<request, rows, files, patches, debounced, cache, doubtful, checked>>

\* Mutant: the answer is kept under the key of the pane
ForPane(key) == Key
ForKey(key) == key

\* The answer is of the URL there is in the database, and the files of the key; an
\* error leaves what was known.
Answer(key) ==
    /\ key \in reading
    /\ LET got == IF key[3] = "files" THEN FromFiles ELSE Served[rows[key[1]].url]
           to == ForKey(key)
           known == IF got = Failed /\ Known(cache[to]) THEN cache
                    ELSE [cache EXCEPT ![to] = got]
       IN  /\ cache' = known
           /\ IF to = Key THEN See(request, rows[request], Key, known, patches)
              ELSE UNCHANGED <<patches, checked>>
    /\ reading' = reading \ {key}
    /\ doubtful' = IF key[2] = rows[key[1]].url THEN doubtful \ {key} ELSE doubtful \cup {key}
    /\ UNCHANGED <<request, rows, files, debounced>>

Next ==
    /\ \/ \E i \in DOMAIN patches : Saved(i)
       \/ \E url \in Urls : Type(url)
       \/ \E s \in (IF Known(cache[Key]) THEN ToSet(cache[Key]) ELSE {}) :
             \E m \in ToSet(s.methods) : Pick(s.name, m)
       \/ Debounce \/ Configure \/ Refresh
       \/ \E r \in Requests : Go(r)
       \/ \E key \in reading : Answer(key)
    /\ Cardinality(reading') <= MaxReads

Spec == Init /\ [][Next]_vars

-----------------------------------------------------------------------------
(* Properties. *)

Settled == debounced = rows[request].url /\ Key \notin reading

\* When nothing is being typed or asked, the services are those of the request's URL or
\* files, unless the answer is of the URL the request had then (useGrpc.ts, 50-58).
ServicesAreOwn ==
    Settled /\ Key \notin doubtful =>
        cache[Key] = ServicesOf(request) \/ (ServicesOf(request) = Failed /\ Known(cache[Key]))

\* When no write is on its way, the method that a call goes to, and the editor checks the
\* message for, is one of the services that are shown (GrpcConnectionLayout.tsx, 30-51).
MethodExists ==
    patches = <<>> /\ Known(cache[Key]) =>
        LET row == rows[request] IN
        /\ HasMethod(cache[Key], row) \/ row.method = None
        /\ row.method # None => checked = <<row.service, row.method>>
=============================================================================
