------------------------------ MODULE Formats -------------------------------
(***************************************************************************)
(* Conversions from and to the formats of other programs, each a function  *)
(* of its input: one input is chosen and converted, and the properties     *)
(* compare it with what came out.                                          *)
(*                                                                         *)
(* Requests as curl commands: the command that action-copy-curl writes     *)
(* for a request and the request that importer-curl makes of a command.    *)
(* A command is the sequence of the words that the shell's quoting leaves: *)
(* a flag, or an argument whose parts are kept apart (the name and value   *)
(* of a header or a form field, the pieces of a text between its "&"s).    *)
(* Names and values have no "&", "%", "=", quote or blank in them and do   *)
(* not start with "-" or "@", unless a field of the record says so.        *)
(*                                                                         *)
(* What the other importers make of a file: the trees of Postman and       *)
(* Insomnia (plugins/importer-postman, importer-insomnia), the migration   *)
(* of the application's own exports (importer-yaak), and the import paths  *)
(* of a copied grpcurl command (action-copy-grpcurl).  A file is a list of *)
(* items 1..n, each with a kind and a parent.  In the nested formats an    *)
(* item is written inside its parent, so the parent has the smaller        *)
(* number; Insomnia's version 4 lists them flat, and the parents may be    *)
(* anything.                                                               *)
(***************************************************************************)
EXTENDS Naturals, Sequences, SequencesExt, FiniteSetsExt

VARIABLES subject,      \* what is converted, with its kind
          result        \* what it becomes, once it is converted

Null == "null"

FormUrl == "application/x-www-form-urlencoded"
Multipart == "multipart/form-data"

\* name=value; eq: is there a "="; file: is value the name of a file ("@...")
Pair(name, value) == [name |-> name, eq |-> TRUE, value |-> value, file |-> FALSE]

Flag(name) == [flag |-> name, of |-> <<>>]
Arg(value) == [flag |-> Null, of |-> value]

-----------------------------------------------------------------------------
(* convertToCurl *)

\* onlyEnabled
OnlyEnabled(pairs) == SelectSeq(pairs, LAMBDA p : p.enabled /\ p.pair.name # "")

Pairs(pairs) == [k \in DOMAIN OnlyEnabled(pairs) |-> OnlyEnabled(pairs)[k].pair]

\* words for each pair: the flag and the pair
Each(flag, pairs) ==
    FlattenSeq([k \in DOMAIN pairs |-> <<Flag(flag), Arg(<<pairs[k]>>)>>])

BodyWords(r) ==
    CASE r.bodyType = Multipart -> Each("form", Pairs(r.form))
      [] r.bodyType = FormUrl -> Each("data", Pairs(r.form))
      [] r.bodyType \notin {Multipart, FormUrl, Null} -> <<Flag("data"), Arg(r.text)>>
      [] OTHER -> <<>>

AuthWords(r) ==
    CASE r.auth \in {"basic", "digest"} ->
           (IF r.auth = "digest" THEN <<Flag("digest")>> ELSE <<>>)
           \o <<Flag("user"), Arg(r.user)>>
      [] r.auth = "bearer" ->
           <<Flag("header"), Arg(<<Pair("Authorization", "Bearer")>>)>>
      [] OTHER -> <<>>

Export(r) ==
    (IF r.method # "" THEN <<Flag("X"), Arg(r.method)>> ELSE <<>>)
    \o <<Arg([url |-> r.url, query |-> Pairs(r.params)])>>
    \o Each("header", Pairs(r.headers))
    \o BodyWords(r)
    \o AuthWords(r)

-----------------------------------------------------------------------------
(* importCommand *)

\* BOOLEAN_FLAGS
BooleanFlags == {"G", "digest"}

\* the arguments given to the flags of a set, in the order of the command
Values(words, flags) ==
    LET at == SelectSeq([k \in 1..Len(words) |-> k],
                        LAMBDA k : words[k].flag \in flags /\ k < Len(words)
                                   /\ words[k + 1].flag = Null)
    IN  [k \in DOMAIN at |-> words[at[k] + 1].of]

Given(words, flag) == \E k \in DOMAIN words : words[k].flag = flag

\* the words that belong to no flag
Singletons(words) ==
    LET at == SelectSeq([k \in 1..Len(words) |-> k],
                        LAMBDA k : words[k].flag = Null
                                   /\ (k = 1 \/ words[k - 1].flag \in BooleanFlags \cup {Null}))
    IN  [k \in DOMAIN at |-> words[at[k]].of]

\* getPairValue
First(values, default) == IF values = <<>> THEN default ELSE values[1]

\* The header of an imported request that has a name, and what it says.
HeaderValue(headers, name) ==
    LET at == {k \in DOMAIN headers : headers[k].name = name}
    IN  IF at = {} THEN Null ELSE headers[CHOOSE k \in at : \A j \in at : k <= j].value

\* the method; body: does the request have one?
Method(words, body) ==
    First(Values(words, {"X"}), IF body THEN "POST" ELSE "GET")

\* pairsToDataParameters: the pieces of all data flags
Data(words) == FlattenSeq(Values(words, {"data"}))

\* a piece of a text body, put together again; one with an empty side loses its "="
Rejoined(p) ==
    IF p.name # "" /\ p.value # "" THEN p
    ELSE [p EXCEPT !.eq = FALSE, !.name = IF p.name # "" THEN p.name ELSE p.value, !.value = ""]

\* the address and its parameters; those of -G follow
Url(words) == First(Singletons(words), [url |-> "", query |-> <<>>])

\* username, password
User(words) == First(Values(words, {"user"}), <<"", "">>)

Headers(words) == FlattenSeq(Values(words, {"header"}))
Form(words) == FlattenSeq(Values(words, {"form"}))
Mime(words) == HeaderValue(Headers(words), "Content-Type")

AsParams(words) == Data(words) # <<>> /\ Given(words, "G")
AsForm(words) ==
    Data(words) # <<>> /\ ~Given(words, "G") /\ Mime(words) \in {Null, FormUrl}
AsText(words) ==
    Data(words) # <<>> /\ ~Given(words, "G") /\ Mime(words) \notin {Null, FormUrl}
AsMultipart(words) == Data(words) = <<>> /\ Form(words) # <<>>

BodyType(words) ==
    CASE AsForm(words) -> FormUrl
      [] AsText(words) -> IF Mime(words) \in {"application/json", "text/xml", "text/plain"}
                          THEN Mime(words) ELSE "other"
      [] AsMultipart(words) -> IF Mime(words) = Null THEN Multipart ELSE Mime(words)
      [] OTHER -> Null

\* the header that the body adds
TypeHeader(words) ==
    CASE AsForm(words) -> <<Pair("Content-Type", FormUrl)>>
      [] AsMultipart(words) /\ Mime(words) = Null -> <<Pair("Content-Type", Multipart)>>
      [] OTHER -> <<>>

Import(words) ==
    [method |-> Method(words, BodyType(words) # Null),
     url |-> Url(words).url,
     params |-> Url(words).query \o IF AsParams(words) THEN Data(words) ELSE <<>>,
     headers |-> Headers(words) \o TypeHeader(words),
     bodyType |-> BodyType(words),
     form |-> CASE AsForm(words) -> Data(words)
                [] AsMultipart(words) -> Form(words)
                [] OTHER -> <<>>,
     text |-> IF AsText(words) THEN [k \in DOMAIN Data(words) |-> Rejoined(Data(words)[k])]
              ELSE <<>>,
     auth |-> IF User(words)[1] = "" THEN Null
              ELSE IF Given(words, "digest") THEN "digest" ELSE "basic",
     user |-> IF User(words)[1] = "" THEN <<"", "">> ELSE User(words)]

-----------------------------------------------------------------------------
(* Trees. *)

Top == 0        \* the workspace of the file as a parent

Items(doc) == 1..Len(doc)

\* the items in a folder, in the order of the file
Children(doc, p) ==
    SelectSeq([i \in Items(doc) |-> i], LAMBDA i : doc[i].parent = p)

\* Mutant: a folder's items are its siblings'.
ParentOf(doc, p) == IF p = Top THEN <<>> ELSE <<doc[p].parent>>

\* folderId: null (<<>>) or one identifier
FolderId(doc, p) == IF p = Top THEN <<>> ELSE <<p>>

\* nextFolder and importItem: folders and their items in the order of the file;
\* what has no kind the importer knows is left out, with all that is in it
Resource(doc, i) == [id |-> i, kind |-> doc[i].kind, folder |-> FolderId(doc, doc[i].parent)]

RECURSIVE Walk(_, _, _, _)
Walk(doc, p, folders, leaves) ==
    FlattenSeq([k \in DOMAIN Children(doc, p) |->
        LET i == Children(doc, p)[k]
        IN  IF doc[i].kind \in folders
            THEN <<Resource(doc, i)>> \o Walk(doc, i, folders, leaves)
            ELSE IF doc[i].kind \in leaves THEN <<Resource(doc, i)>> ELSE <<>>])

\* convertInsomniaV4: kinds by _type
V4(doc) == Walk(doc, Top, {"request_group"}, {"request", "grpc_request"})

\* convertInsomniaV5: kinds by the fields an item has
V5(doc) == Walk(doc, Top, {"children"}, {"method", "protoFileId", "url"})

\* convertPostman: kinds by the fields an item has; sortPriorityIndex counts
\* folders and requests together
Postman(doc) ==
    LET out == Walk(doc, Top, {"item"}, {"request"})
    IN  [k \in DOMAIN out |-> [resource |-> out[k], sortPriority |-> k - 1]]

\* the items that an importer reaches from the top through folders
RECURSIVE Above(_, _, _)
Above(doc, i, n) ==
    IF n = 0 \/ i \notin Items(doc) THEN {i} ELSE {i} \cup Above(doc, doc[i].parent, n - 1)

Reached(doc, i, folders) ==
    /\ Top \in Above(doc, i, Len(doc))
    /\ \A j \in Above(doc, i, Len(doc)) \ {i, Top} : doc[j].kind \in folders

-----------------------------------------------------------------------------
(* Bodies. *)

\* importBody of Postman: the type of the body, and the header for it
PostmanBody(mode, json) ==
    CASE mode = "graphql" -> [bodyType |-> "graphql", header |-> "application/json"]
      [] mode = "urlencoded" -> [bodyType |-> "application/x-www-form-urlencoded",
                                 header |-> "application/x-www-form-urlencoded"]
      [] mode = "formdata" -> [bodyType |-> "multipart/form-data",
                               header |-> "multipart/form-data"]
      [] mode = "raw" -> IF json THEN [bodyType |-> "application/json",
                                       header |-> "application/json"]
                         ELSE [bodyType |-> "other", header |-> ""]
      [] mode = "file" -> [bodyType |-> "binary", header |-> Null]
      [] OTHER -> [bodyType |-> Null, header |-> Null]

\* the Content-Type headers of an imported request; own: those of the file
ImportedHeaders(own, body) ==
    IF body.header = Null \/ own # <<>> THEN own ELSE <<body.header>>

\* importAuth of a request, with the one of the collection to fall back on
Auth(own, global) == IF own = Null THEN global ELSE own

-----------------------------------------------------------------------------
(* The application's own exports. *)

Absent == "absent"      \* the key is not there
AbsentId == <<Absent>>  \* identifiers are tuples
NullId == <<Null>>
Bool(b) == IF b THEN "true" ELSE "false"
Environment(id, ws, env, base) ==
    [id |-> id, workspace |-> ws, environmentId |-> env, base |-> base]

\* v2 to v3, for one workspace: its variables move to an environment of their
\* own, and the others of the workspace refer to it
BaseOf(ws) == <<"base_env", ws>>

ToV3(d, ws) ==
    IF ws \notin d.variables THEN d
    ELSE [d EXCEPT
            !.variables = @ \ {ws},
            !.environments =
                {[e EXCEPT !.environmentId = IF e.workspace = ws THEN BaseOf(ws) ELSE @] :
                    e \in @} \cup {Environment(BaseOf(ws), ws, AbsentId, Absent)}]

\* v3 to v4
ToV4(e) ==
    IF e.environmentId = AbsentId THEN e
    ELSE [e EXCEPT !.base = Bool(e.environmentId = NullId), !.environmentId = AbsentId]

Migrate(d) ==
    LET v2 == IF d.requests THEN [d EXCEPT !.requests = FALSE, !.httpRequests = TRUE] ELSE d
        v3 == FoldSeq(LAMBDA ws, acc : ToV3(acc, ws), v2, d.workspaces)
    IN  [v3 EXCEPT !.environments = {ToV4(e) : e \in @}]

-----------------------------------------------------------------------------
(* grpcurl. *)

Parent(path) == SubSeq(path, 1, Len(path) - 1)

\* findParentProtoDir: the nearest directory on the way up that is named proto
ProtoDirs(path) == {n \in 1..Len(path) : path[n] = "proto"}

\* the import paths inferred for the files
ImportPaths(files) ==
    UNION {IF ProtoDirs(f) # {}
           THEN {SubSeq(f, 1, CHOOSE n \in ProtoDirs(f) : \A m \in ProtoDirs(f) : m <= n)}
           ELSE {Parent(f), Parent(Parent(f))} : f \in files}

-----------------------------------------------------------------------------
(* What the results are compared with. *)

\* Reference: the pairs that a request with these rows is sent with.
Sent(rows) ==
    LET on == SelectSeq(rows, LAMBDA row : row.enabled /\ row.pair.name # "")
    IN  [k \in DOMAIN on |-> on[k].pair]

\* Copying a request and importing the command gives the request back: its
\* method, address, enabled parameters, body and credentials, and its enabled
\* headers, followed by those that say in words what was elsewhere (the bearer
\* token, the type of a form).  This takes a Content-Type header that agrees
\* with the body, a user name for basic credentials, and a text whose pieces do
\* not lose a "=" at an end.  r: the request; i: what Import makes of Export(r)
Copies(r, i) ==
    LET mime == HeaderValue(Sent(r.headers), "Content-Type")
        Agree == CASE r.bodyType = FormUrl -> mime \in {Null, FormUrl} /\ Sent(r.form) # <<>>
                   [] r.bodyType = Multipart -> mime \in {Null, Multipart} /\ Sent(r.form) # <<>>
                   [] r.bodyType = Null -> TRUE
                   [] OTHER -> mime = r.bodyType
        Whole == \A k \in DOMAIN r.text : r.text[k].eq => r.text[k].name # "" /\ r.text[k].value # ""
    IN  (Agree /\ Whole) =>
        /\ i.method = IF r.method # "" THEN r.method
                      ELSE IF r.bodyType = Null THEN "GET" ELSE "POST"
        /\ i.url = r.url /\ i.params = Sent(r.params)
        /\ IsPrefix(Sent(r.headers), i.headers)
        /\ r.auth = "bearer" <=> HeaderValue(i.headers, "Authorization") = "Bearer"
        /\ i.bodyType = r.bodyType /\ i.text = r.text
        /\ r.bodyType \in {FormUrl, Multipart} =>
             i.form = Sent(r.form) /\ HeaderValue(i.headers, "Content-Type") = r.bodyType
        /\ r.auth \in {"basic", "digest"} /\ r.user[1] # "" => i.auth = r.auth /\ i.user = r.user

\* Flags of different kinds can come in any order, before and after the address,
\* and a flag without an argument does not take the word that follows it.
\* groups: the command in groups of a flag with its argument; i: what is imported
Kind(group) == group[1].flag

AnyOrder(groups, i) ==
    \A k \in 1..(Len(groups) - 1) :
        Kind(groups[k]) # Kind(groups[k + 1]) =>
            i = Import(FlattenSeq([groups EXCEPT ![k] = groups[k + 1], ![k + 1] = groups[k]]))

\* An importer brings in every item that it can reach from the top through
\* folders, once, and nothing else: flat lists may have dangling parents and
\* cycles, and nested ones items of unknown kinds.
Complete(doc, out, folders, leaves) ==
    /\ \A k, j \in DOMAIN out : out[k].id = out[j].id => k = j
    /\ {out[k].id : k \in DOMAIN out} =
         {i \in Items(doc) : doc[i].kind \in folders \cup leaves /\ Reached(doc, i, folders)}

\* A folderId is null or the id of a folder that comes earlier: the rows can be
\* written in this order, and no imported folder is inside itself.
Linked(out, folders) ==
    \A k \in DOMAIN out :
        out[k].folder = <<>>
        \/ \E j \in 1..(k - 1) : <<out[j].id>> = out[k].folder /\ out[j].kind \in folders

\* Of a nested file the items come in the order they are written, and their
\* priorities keep that order.
InFileOrder(out) ==
    \A k, j \in DOMAIN out :
        out[k].resource.id < out[j].resource.id => out[k].sortPriority < out[j].sortPriority

\* An imported body has one Content-Type, the request's own if it has one.
OneContentType(own, headers) ==
    /\ Len(headers) <= IF own = <<>> THEN 1 ELSE Len(own)
    /\ own # <<>> => headers[1] = own[1]

\* Migrating an export that has been migrated changes nothing, and every
\* workspace that had variables has one new environment with them.
MigratesOnce(d, migrated) ==
    /\ Migrate(migrated) = migrated
    /\ migrated.variables = {}
    /\ \A ws \in d.variables :
         Environment(BaseOf(ws), ws, AbsentId, Absent) \in migrated.environments
    /\ \A e \in migrated.environments :
         e.workspace \in d.variables /\ e.id # BaseOf(e.workspace) => e.base = "false"

\* The comment at importer-yaak's v2-to-v3 step: the new environment is the base
\* environment of its workspace.
HasBase(d, migrated) ==
    \A ws \in d.variables :
        \E e \in migrated.environments : e.workspace = ws /\ e.base = "true"

\* Every proto file is under one of the import paths of the command.
EveryFileFound(files, paths) ==
    \A f \in files : \E p \in paths : IsPrefix(p, Parent(f))

-----------------------------------------------------------------------------
(* Inputs: one is chosen and converted.  First requests and commands. *)

On(pair) == [pair |-> pair, enabled |-> TRUE]
Off(pair) == [pair |-> pair, enabled |-> FALSE]
A == Pair("a", "1")
B == Pair("b", "")
Nameless == Pair("", "1")
File == [Pair("f", "path") EXCEPT !.file = TRUE]
Type(value) == Pair("Content-Type", value)

PairLists == {<<>>, <<On(A)>>, <<Off(A), On(B)>>, <<On(A), On(Nameless), On(A)>>}
HeaderLists == {<<>>, <<On(Type(FormUrl))>>, <<Off(A), On(Type("application/json"))>>,
                <<On(A), Off(Type("text/plain")), On(Type(Multipart))>>}
Texts == {<<A>>, <<A, B>>, <<[Pair("t", "") EXCEPT !.eq = FALSE]>>,
          <<A, [Pair("t", "") EXCEPT !.eq = FALSE]>>}
Bodies ==
    {[bodyType |-> Null, form |-> <<>>, text |-> <<>>]}
    \cup [bodyType : {FormUrl}, form : PairLists, text : {<<>>}]
    \cup [bodyType : {Multipart}, form : PairLists \cup {<<On(File), On(A)>>}, text : {<<>>}]
    \cup [bodyType : {"application/json", "text/plain"}, form : {<<>>}, text : Texts]

HttpRequests ==
    {[method |-> m, url |-> "host", params |-> p, headers |-> h, auth |-> a[1], user |-> a[2],
      bodyType |-> b.bodyType, form |-> b.form, text |-> b.text] :
        m \in {"", "GET", "PUT"}, p \in PairLists, h \in HeaderLists, b \in Bodies,
        a \in {<<Null, <<"", "">>>>, <<"bearer", <<"", "">>>>, <<"basic", <<"", "p">>>>,
               <<"basic", <<"u", "p">>>>, <<"digest", <<"u", "">>>>}}

Groups ==
    {<<Flag("X"), Arg("PUT")>>, <<Flag("data"), Arg(<<A>>)>>, <<Flag("data"), Arg(<<B, A>>)>>,
     <<Flag("form"), Arg(<<A>>)>>, <<Flag("header"), Arg(<<Type("application/json")>>)>>,
     <<Flag("header"), Arg(<<B>>)>>, <<Flag("user"), Arg(<<"u", "p">>)>>,
     <<Flag("G")>>, <<Flag("digest")>>, <<Arg([url |-> "host", query |-> <<A>>])>>}

Commands == UNION {[1..n -> Groups] : n \in 2..4}

-----------------------------------------------------------------------------
(* Files. *)

\* Flat lists: parents are anything, also missing.
Flat(kinds) == UNION {[1..n -> [kind : kinds, parent : 0..(n + 1)]] : n \in 1..3}

\* Nested ones, numbered in the order they are written: an item is in the item
\* before it, or beside one that the item before it is in.
Nested(kinds) ==
    {doc \in UNION {[1..n -> [kind : kinds, parent : 0..(n - 1)]] : n \in 1..4} :
        \A i \in DOMAIN doc : doc[i].parent < i
                              /\ (i > 1 => doc[i].parent \in Above(doc, i - 1, Len(doc)))}

Trees ==
    [format : {"v4"}, doc : Flat({"request_group", "request", "environment"})]
    \cup [format : {"v5"}, doc : Nested({"children", "url", "unknown"})]
    \cup [format : {"postman"}, doc : Nested({"item", "request", "unknown"})]

Workspaces == {"w1", "w2"}

\* no environment with this id, or one of version 2, 3 or 4 of the format
Some(id) ==
    {{}} \cup {{e} : e \in
        [id : {id}, workspace : Workspaces, environmentId : {AbsentId}, base : {Absent, "true", "false"}]
        \cup [id : {id}, workspace : Workspaces, environmentId : {NullId, <<"e2">>}, base : {Absent}]}

Exports ==
    [requests : BOOLEAN, httpRequests : BOOLEAN, workspaces : {<<"w1", "w2">>},
     variables : SUBSET Workspaces,
     environments : {e \cup f : e \in Some(<<"e1">>), f \in Some(<<"e2">>)}]

Paths == UNION {[1..n -> {"proto", "x"}] : n \in 2..3}
FileSets == {{Append(p, "p") : p \in S} : S \in UNION {kSubset(k, Paths) : k \in 1..2}}

Subjects ==
    [of : {"request"}, is : HttpRequests]
    \cup [of : {"command"}, is : Commands]
    \cup [of : {"tree"}, is : Trees]
    \cup [of : {"body"}, is : [own : {<<>>, <<"text/xml">>, <<"text/xml", "text/plain">>},
                               mode : {"graphql", "urlencoded", "formdata", "raw", "file", "none"},
                               json : BOOLEAN]]
    \cup [of : {"export"}, is : Exports]
    \cup [of : {"files"}, is : FileSets]

Output ==
    CASE subject.of = "request" -> Import(Export(subject.is))
      [] subject.of = "command" -> Import(FlattenSeq(subject.is))
      [] subject.of = "tree" ->
           (CASE subject.is.format = "v4" -> V4(subject.is.doc)
             [] subject.is.format = "v5" -> V5(subject.is.doc)
             [] subject.is.format = "postman" -> Postman(subject.is.doc))
      [] subject.of = "body" ->
           ImportedHeaders(subject.is.own, PostmanBody(subject.is.mode, subject.is.json))
      [] subject.of = "export" -> Migrate(subject.is)
      [] subject.of = "files" -> ImportPaths(subject.is)

Init == subject \in Subjects /\ result = <<>>

Convert == result = <<>> /\ result' = <<Output>> /\ UNCHANGED subject

Next == Convert

Spec == Init /\ [][Next]_<<subject, result>>

-----------------------------------------------------------------------------
(* Properties. *)

Is(of) == subject.of = of /\ result # <<>>
IsTree(format) == Is("tree") /\ subject.is.format = format

\* Copying a request as a curl command and importing it gives it back.
CurlCopies == Is("request") => Copies(subject.is, result[1])

\* A curl command means the same with its flags in another order.
CurlAnyOrder == Is("command") => AnyOrder(subject.is, result[1])

\* The importers of trees bring in what is in folders from the top, once, with a
\* folder before what it holds, and Postman's keeps the order of the file.
TreesComplete ==
    /\ IsTree("v4") =>
         /\ Complete(subject.is.doc, result[1], {"request_group"}, {"request", "grpc_request"})
         /\ Linked(result[1], {"request_group"})
    /\ IsTree("v5") =>
         /\ Complete(subject.is.doc, result[1], {"children"}, {"method", "protoFileId", "url"})
         /\ Linked(result[1], {"children"})
    /\ IsTree("postman") =>
         LET resources == [k \in DOMAIN result[1] |-> result[1][k].resource]
         IN  /\ Complete(subject.is.doc, resources, {"item"}, {"request"})
             /\ Linked(resources, {"item"})
             /\ InFileOrder(result[1])

\* An imported Postman body adds its Content-Type only where there is none.
PostmanContentType == Is("body") => OneContentType(subject.is.own, result[1])

\* Migrating an export twice is migrating it once.
ExportMigratesOnce == Is("export") => MigratesOnce(subject.is, result[1])

\* The variables of a migrated workspace are in its base environment.
MigratedHasBase == Is("export") => HasBase(subject.is, result[1])

\* grpcurl finds every proto file of a copied command.
GrpcurlFindsFiles == Is("files") => EveryFileFound(subject.is, result[1])

=============================================================================
