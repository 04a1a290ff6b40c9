---------------------------- MODULE RequestPane ----------------------------
(***************************************************************************)
(* The pane of a request (components/HttpRequestPane.tsx): the editors of  *)
(* its URL, headers and parameters, each of which takes its content anew   *)
(* only when its key changes, and what changes the request under them: the *)
(* type of the body, pasted URLs and curl commands, and other windows.     *)
(* A patch is merged onto the copy in the window, sent, and comes back as  *)
(* an event; keys change by timers that do not wait for it.                *)
(***************************************************************************)
EXTENDS Integers, Sequences, SequencesExt

CONSTANTS
    Urls,           \* [Urls -> the names of the placeholders in it, in order]
    Values,         \* of parameters; "" is one of them
    Pasted,         \* what a URL with a query becomes: [url, params]
    Models,         \* what curl commands and other windows bring
    MimeTypes,      \* of files
    MaxSent,        \* a bound
    MaxTimers,      \* of the headers: a bound
    MaxHeaders      \* of the user's own: a bound

\* "json" stands for all that keep the method unless there was no body: XML, other text
\* and urlencoded forms
BodyTypes == {"none", "json", "multipart", "graphql", "binary"}
Own == "own"        \* a header that is not Content-Type, which is named by its value

VARIABLES
    stored,         \* the request in the window: [method, bodyType, headers, url, params]
    sent,           \* patches under way, merged
    url, headers, params,           \* what the editors show
    headersTimer, pasteTimer, curlTimer,    \* timeouts of 100 ms, the last two at most one
    curl,           \* cmd_curl_to_request: at most one answer
    late            \* a patch was merged, or an editor taken anew or edited, before what it should
                    \* have known of had come

vars == <<stored, sent, url, headers, params, headersTimer, pasteTimer, curlTimer, curl, late>>

-----------------------------------------------------------------------------

Named(s, name) == \E k \in DOMAIN s : s[k].name = name

\* urlParameterPairs: the parameters, and the placeholders that are not among them
Rows(m) ==
    LET filled == SelectSeq(m.params, LAMBDA p : p.name # "" \/ p.value # "")
        missing == SelectSeq(Urls[m.url], LAMBDA name : ~Named(filled, name))
    IN  filled \o [k \in DOMAIN missing |-> [name |-> missing[k], value |-> ""]]

\* Mutant: the key of the parameters does not know the placeholders.
SameKey(before, after) == TRUE

\* urlParametersKey
SameParamsKey(before, after) == Urls[before.url] = Urls[after.url]

Become(m) ==
    /\ stored' = m
    /\ params' = IF SameParamsKey(stored, m) THEN params ELSE Rows(m)

\* patchModel, and whether what it says was taken from the request of now
SendEdit(m, fresh) ==
    /\ Len(sent) < MaxSent /\ sent' = Append(sent, m)
    /\ late' = (late \/ sent # <<>> \/ ~fresh)
Send(m) == SendEdit(m, TRUE)

\* Mutant: the old Content-Type stays.
KeptHeaders(old) == old

\* handleContentTypeChange: the headers but Content-Type
OtherHeaders(old) == SelectSeq(old, LAMBDA h : h = Own)

WithContentType(type) ==
    OtherHeaders(stored.headers) \o (IF type = "" THEN <<>> ELSE <<type>>)

\* onChange of the type of the body
ContentTypeOf(bodyType) ==
    IF bodyType = "none" THEN "" ELSE IF bodyType = "graphql" THEN "json" ELSE bodyType

MethodFor(bodyType) ==
    IF \/ bodyType = "graphql" \/ bodyType = "multipart"
       \/ bodyType \notin {"none", "binary"} /\ stored.bodyType = "none" /\ stored.method = "GET"
    THEN "POST" ELSE stored.method

Init ==
    /\ stored \in Models /\ sent = <<>>
    /\ url = stored.url /\ headers = stored.headers /\ params = Rows(stored)
    /\ headersTimer = 0 /\ pasteTimer = FALSE /\ curlTimer = FALSE /\ curl = <<>> /\ late = FALSE

-----------------------------------------------------------------------------

\* upserted_model of this window's own write
Arrives ==
    /\ sent # <<>> /\ sent' = Tail(sent) /\ Become(Head(sent))
    /\ UNCHANGED <<url, headers, headersTimer, pasteTimer, curlTimer, curl, late>>

\* a key that is the same for all
Renewed(m) == url' = m.url /\ headers' = m.headers /\ params' = Rows(m)

\* another window, or a sync: wasUpdatedExternally
WrittenElsewhere(m) ==
    /\ m # stored /\ stored' = m /\ Renewed(m)
    /\ late' = (late \/ sent # <<>>)
    /\ UNCHANGED <<sent, headersTimer, pasteTimer, curlTimer, curl>>

\* handleUrlChange
TypeUrl(u) ==
    /\ u # url /\ url' = u /\ Send([stored EXCEPT !.url = u])
    /\ UNCHANGED <<stored, headers, params, headersTimer, pasteTimer, curlTimer, curl>>

EditHeaders(edited) ==
    /\ headers' = edited
    /\ SendEdit([stored EXCEPT !.headers = edited], headers = stored.headers)
    /\ UNCHANGED <<stored, url, params, headersTimer, pasteTimer, curlTimer, curl>>

EditParams(edited) ==
    /\ params' = edited
    /\ SendEdit([stored EXCEPT !.params = edited], params = Rows(stored))
    /\ UNCHANGED <<stored, url, headers, headersTimer, pasteTimer, curlTimer, curl>>

SetMethod(method) ==
    /\ method # stored.method /\ Send([stored EXCEPT !.method = method])
    /\ UNCHANGED <<stored, url, headers, params, headersTimer, pasteTimer, curlTimer, curl>>

\* Files leave the method and the headers as they are.
SetBodyType(type) ==
    /\ type # stored.bodyType /\ headersTimer < MaxTimers
    /\ IF type = "binary"
       THEN Send([stored EXCEPT !.bodyType = type]) /\ UNCHANGED headersTimer
       ELSE /\ Send([stored EXCEPT !.bodyType = type, !.method = MethodFor(type),
                                   !.headers = WithContentType(ContentTypeOf(type))])
            /\ headersTimer' = headersTimer + 1
    /\ UNCHANGED <<stored, url, headers, params, pasteTimer, curlTimer, curl>>

\* BinaryFileEditor
SetMimeType(type) ==
    /\ stored.bodyType = "binary" /\ headersTimer < MaxTimers
    /\ ToSet(stored.headers) \ {Own} # {type}
    /\ Send([stored EXCEPT !.headers = WithContentType(type)])
    /\ headersTimer' = headersTimer + 1
    /\ UNCHANGED <<stored, url, headers, params, pasteTimer, curlTimer, curl>>

\* setForceUpdateHeaderEditorKey
RenewHeaders ==
    /\ headersTimer > 0 /\ headersTimer' = headersTimer - 1
    /\ headers' = stored.headers /\ late' = (late \/ sent # <<>>)
    /\ UNCHANGED <<stored, sent, url, params, pasteTimer, curlTimer, curl>>

\* handlePaste of a URL with a query
PasteUrl(p) ==
    /\ Send([stored EXCEPT !.url = p.url, !.params = p.params])
    /\ ~pasteTimer /\ pasteTimer' = TRUE
    /\ UNCHANGED <<stored, url, headers, params, headersTimer, curlTimer, curl>>

\* forceUrlRefresh, forceParamsRefresh
RenewPasted ==
    /\ pasteTimer /\ pasteTimer' = FALSE
    /\ url' = stored.url /\ params' = Rows(stored) /\ late' = (late \/ sent # <<>>)
    /\ UNCHANGED <<stored, sent, headers, headersTimer, curlTimer, curl>>

\* handlePaste of a command, whose text is also pasted, here as u
PasteCurl(u, m) ==
    /\ curl = <<>> /\ curl' = <<m>>
    /\ url' = u /\ Send([stored EXCEPT !.url = u])
    /\ UNCHANGED <<stored, headers, params, headersTimer, pasteTimer, curlTimer>>

\* useImportCurl
CurlAnswers ==
    /\ curl # <<>> /\ curl' = <<>> /\ Send(curl[1])
    /\ ~curlTimer /\ curlTimer' = TRUE
    /\ UNCHANGED <<stored, url, headers, params, headersTimer, pasteTimer>>

CurlFails ==
    /\ curl # <<>> /\ curl' = <<>>
    /\ UNCHANGED <<stored, sent, url, headers, params, headersTimer, pasteTimer, curlTimer, late>>

\* wasUpdatedExternally
RenewAll ==
    /\ curlTimer /\ curlTimer' = FALSE /\ Renewed(stored) /\ late' = (late \/ sent # <<>>)
    /\ UNCHANGED <<stored, sent, headersTimer, pasteTimer, curl>>

Step ==
    \/ Arrives \/ RenewHeaders \/ RenewPasted \/ CurlAnswers \/ CurlFails \/ RenewAll
    \/ \E m \in Models : WrittenElsewhere(m)
    \/ \E u \in DOMAIN Urls : TypeUrl(u)
    \/ \E k \in DOMAIN headers : headers[k] = Own /\ EditHeaders(RemoveAt(headers, k))
    \/ Len(headers) < MaxHeaders /\ EditHeaders(<<Own>> \o headers)
    \/ \E k \in DOMAIN params, v \in Values :
         v # params[k].value /\ EditParams([params EXCEPT ![k].value = v])
    \/ \E method \in {"GET", "POST"} : SetMethod(method)
    \/ \E type \in BodyTypes : SetBodyType(type)
    \/ \E type \in MimeTypes : SetMimeType(type)
    \/ \E p \in Pasted : PasteUrl(p)
    \/ \E u \in DOMAIN Urls, m \in Models : PasteCurl(u, m)

\* What is late may lose changes, so nothing is said of what follows.
Next ==
    /\ ~late
    /\ Step

Spec == Init /\ [][Next]_vars

-----------------------------------------------------------------------------
(* Properties. *)

TypeOK ==
    /\ {stored.url, url} \subseteq DOMAIN Urls /\ stored.bodyType \in BodyTypes
    /\ Len(sent) <= MaxSent /\ headersTimer \in Nat /\ Len(curl) <= 1

Quiet == sent = <<>> /\ headersTimer = 0 /\ ~pasteTimer /\ ~curlTimer /\ curl = <<>>

\* When all events have come and all timers are over, the editors show the request, and
\* every placeholder of its URL has a row; unless something was sent, edited or
\* taken anew before an event had come.
EditorsShowRequest ==
    Quiet /\ ~late =>
        /\ url = stored.url /\ headers = stored.headers
        /\ params = Rows(stored)
        /\ \A k \in DOMAIN Urls[stored.url] : Named(params, Urls[stored.url][k])

\* A request has the one Content-Type of its body, and none without one; that of a file
\* is what was there, or what was chosen.
ContentTypeFits ==
    ~late =>
        LET types == SelectSeq(stored.headers, LAMBDA h : h # Own)
        IN  IF stored.bodyType = "binary" THEN Len(types) <= 1
            ELSE types = IF stored.bodyType = "none" THEN <<>> ELSE <<ContentTypeOf(stored.bodyType)>>

=============================================================================
