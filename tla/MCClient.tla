------------------------------ MODULE MCClient ------------------------------
(***************************************************************************)
(* The parts of a window, one at a time: machine says which one moves, and *)
(* s1, s2, ... hold its variables, in their order; what it does not need   *)
(* is off.                                                                 *)
(***************************************************************************)
EXTENDS Integers, Sequences

VARIABLES
    machine,
    s1, s2, s3, s4, s5, s6, s7, s8, s9, s10, s11, s12, s13, s14

-----------------------------------------------------------------------------
(* The bounds. *)

PairTexts == {"", "a"}
MaxPairs == 3
MaxSaves == 2

Lists ==
    LET i == [name |-> "i", kind |-> "item", matches |-> FALSE]
        j == [name |-> "j", kind |-> "item", matches |-> TRUE]
        s == [name |-> "s", kind |-> "separator", matches |-> FALSE]
        h == [name |-> "h", kind |-> "hidden", matches |-> TRUE]
        c == [name |-> "c", kind |-> "content", matches |-> TRUE]
    IN  {<<i>>, <<c, i, s, j>>, <<s, i, h, j, s>>}

Folders == {"f", "g"}
Order == <<"r", "f", "g">>
Step == 4
One == 2
Priorities == {-4, 0, 1}

Words == {"x", "_"}
Arguments == {"default", "a"}
MaxWords == 2
MaxHistory == 2

Values == {"", "a", "b"}
MaxWrites == 1
MaxAnswers == 2

GField(name, type, args) == [name |-> name, type |-> type, args |-> args]
GType(kind, fields, members) == [kind |-> kind, fields |-> fields, members |-> members]
GString == GType("scalar", <<>>, <<>>)

\* cycles, an interface, a union, an input only as an argument; and a later schema
\* where two types have a field of one name
Schemas ==
    LET query == GType("object", <<GField("user", "User", {"In"}), GField("any", "Any", {})>>, <<>>)
        user == GType("object", <<GField("name", "String", {}), GField("pet", "Pet", {})>>, <<"Node">>)
        pet == GType("object", <<GField("owner", "Node", {}), GField("name", "String", {})>>, <<>>)
        node == GType("interface", <<GField("id", "String", {}), GField("self", "Node", {})>>, <<"User">>)
        in == GType("input", <<GField("size", "Size", {})>>, <<>>)
        later == GType("object", <<GField("user", "User", {}), GField("name", "String", {})>>, <<>>)
    IN  {[order |-> <<"Query", "User", "Pet", "Node", "Any", "In", "Size", "String">>,
          types |-> [Query |-> query, User |-> user, Pet |-> pet, Node |-> node, In |-> in,
                     Any |-> GType("union", <<>>, <<"Pet", "User">>),
                     Size |-> GType("enum", <<>>, <<>>), String |-> GString]],
         [order |-> <<"Query", "User", "String">>,
          types |-> [Query |-> GType("object", <<GField("user", "User", {})>>, <<>>),
                     User |-> later, String |-> GString]]}

Places ==
    {[field |-> "user", type |-> "User", parent |-> "Query"],
     [field |-> "name", type |-> "String", parent |-> "User"],
     [field |-> "size", type |-> "", parent |-> "Query"],
     [field |-> "", type |-> "User", parent |-> "Query"]}

Texts == {"", "n"}
Found(name, text) == text = "" \/ name \in {"name", "Node", "Any"}
MaxCrumbs == 2
MaxResults == 4

Requests == {"a", "b"}
Answers == [a |-> {"schema", "junk"}, b |-> {"schema", "another"}]
Unreadable == {"junk"}
MaxUnderWay == 2

Urls == [plain |-> <<>>, id |-> <<"id">>]
ParamValues == {"1"}
Pasted == {[url |-> "id", params |-> <<[name |-> "q", value |-> "1"]>>]}
Models ==
    {[method |-> "GET", bodyType |-> "none", headers |-> <<>>, url |-> "plain", params |-> <<>>],
     [method |-> "POST", bodyType |-> "json", headers |-> <<"own", "json">>, url |-> "id",
      params |-> <<[name |-> "id", value |-> "1"]>>]}
MimeTypes == {"png"}
MaxSent == 1
MaxTimers == 1
MaxHeaders == 1

AuthFolders == {"f"}
Homes == {[request |-> "", f |-> ""], [request |-> "f", f |-> ""]}
ModelHeaders == [request |-> <<"r">>, f |-> <<"f">>, workspace |-> <<"w">>]
Forms ==
    LET user == [name |-> "user", kind |-> "text", default |-> ""]
        grant == [name |-> "grant", kind |-> "select", default |-> "p"]
    IN  [basic |-> <<user>>, oauth |-> <<user, grant>>]

GitPaths == <<"x", "w", "f", "r">>
Root == "w"
Contents == [x |-> {"text"}, w |-> {"top"}, f |-> {"w"}, r |-> {"w", "f"}]
MaxEdits == 1

Branches == {"m", "b"}
Main == "m"
Files == {"a", "z"}
Edits == {[file |-> "a", content |-> 2]}
OtherEdits == {[file |-> "z", content |-> 2]}
MaxCommits == 3

Workspaces == {"A", "B"}
Things == [A |-> <<"i", "j">>, B |-> <<"k">>]
MaxAsked == 2

Commands == <<"new", "send", "settings">>
RequestCommands == <<"send">>
Created == <<"r1", "r2", "r3">>
Environments == <<"e1">>
MaxPerGroup == 2
Score ==
    LET scores == [new |-> 1, send |-> 2, settings |-> 2, r1 |-> 1, r2 |-> 2, r3 |-> 0, e1 |-> 1]
    IN  [t \in {"", "e"} |-> scores]

Hotkeys == [palette |-> {{"Control", "k"}},
            edit |-> {{"Control", "Shift", "E"}, {"Control", "Shift", "e"}},
            delete |-> {{"Backspace"}}]
Modifiers == {"Control", "Shift"}
Names == [k |-> [plain |-> "k", shifted |-> "K"],
          e |-> [plain |-> "e", shifted |-> "E"],
          Backspace |-> [plain |-> "Backspace", shifted |-> "Backspace"]]
Optional == {"delete"}

PaneRequests == {"q1", "q2"}
MaxConnections == 2
MaxEvents == <<2, 1>>
MaxLoads == 2
Sent == {"q1"}
MaxResponses == 2
MaxChunks == 1
Cancelled == {1}

GrpcUrls == {"u", "v"}
Served ==
    [u |-> <<[name |-> "t", methods |-> <<"m">>]>>,
     v |-> <<[name |-> "t", methods |-> <<"o">>]>>]
FromFiles == <<[name |-> "s", methods |-> <<"n">>]>>
Rows == {[q1 |-> [url |-> "u", service |-> "t", method |-> "m"],
          q2 |-> [url |-> "v", service |-> "", method |-> ""]]}
Worked == {"q1"}
MaxPatches == 1
MaxReads == 2

\* Environments
VariableNames == {"x", "y"}
Shareable == {1}
Made == 2

\* Encryption
Own == <<"k1", "k2">>
Theirs == "t"
MaxCalls == 2
MaxReveals == 2

\* Settings
SettingTexts == {"a"}
MaxNews == 2

\* Theme
MaxRuns == 3

\* Layout
Widths == {40, 100, 300}
MaxLayoutCalls == 2

\* The container, wide or narrow, and what the pointer leaves to its second pane.
Containers == {300, 800}
PointedAt == {-5, 200, 900}

\* The plugins of the settings: writes of rows, versions, commands at a time.
MaxPluginWrites == 3
MaxVersion == 2
MaxCommands == 2

\* Dialogs and messages that are shown.
MaxDialogs == 3
Messages == {"m", "n"}
MaxToasts == 3

\* The requests of the sidebar under the keyboard.
Listed == {"a", "b"}
MaxSteps == 2

\* What requests ask of each other: a chain, circles, one that is gone.
Chained == {"a", "b", "c"}
Plans ==
    LET ref(to, behavior) == [to |-> to, behavior |-> behavior]
    IN  {[a |-> <<ref("b", "always"), ref("b", "smart")>>, b |-> <<ref("c", "smart")>>, c |-> <<>>],
         [a |-> <<ref("b", "smart")>>, b |-> <<ref("a", "always")>>, c |-> <<ref("c", "smart")>>],
         [a |-> <<ref("c", "always"), ref("x", "smart")>>, b |-> <<ref("c", "never")>>, c |-> <<>>]}
MaxStarts == 2
MaxDepth == 3

-----------------------------------------------------------------------------
(* The parts. *)

P == INSTANCE PairEditor WITH
    pairs <- s1, lines <- s2, useBulk <- s3, focused <- s4, dragged <- s5,
    hovered <- s6, asked <- s7, stored <- s8, saves <- s9, crossed <- s10
D == INSTANCE Dropdown WITH
    opened <- s1, items <- s2, menuItems <- s3, handleItems <- s4,
    keyItems <- s5, filter <- s6, selected <- s7, waiting <- s8,
    changed <- s9, ran <- s10
S == INSTANCE Sidebar WITH
    rows <- s1, arriving <- s2, collapsed <- s3, dragging <- s4, hover <- s5,
    crossed <- s6, wanted <- s7
F == INSTANCE Formats WITH
    subject <- s1, result <- s2
E == INSTANCE TextEditor WITH
    saved <- s1, doc <- s2, history <- s3, cache <- s4, mounted <- s5,
    formatting <- s6, dialog <- s7, apart <- s8
I == INSTANCE SecretInput WITH
    template <- s1, enabled <- s2, field <- s3, shown <- s4, opening <- s5,
    securing <- s6, converting <- s7, writes <- s8, crossed <- s9
G == INSTANCE GraphQLDocs WITH
    schema <- s1, place <- s2, item <- s3, typed <- s4, searched <- s5,
    active <- s6
N == INSTANCE Introspection WITH
    row <- s1, cached <- s2, current <- s3, parsed <- s4, fetching <- s5,
    writing <- s6, reading <- s7, overtaken <- s8
R == INSTANCE RequestPane WITH
    stored <- s1, sent <- s2, url <- s3, headers <- s4, params <- s5,
    headersTimer <- s6, pasteTimer <- s7, curlTimer <- s8, curl <- s9,
    late <- s10, Values <- ParamValues
A == INSTANCE AuthForm WITH
    home <- s1, auth <- s2, sent <- s3, form <- s4, fetching <- s5,
    mixed <- s6, Folders <- AuthFolders, Headers <- ModelHeaders
C == INSTANCE GitCommit WITH
    files <- s1, open <- s2, shown <- s3, fetching <- s4, changes <- s5,
    edits <- s6, apart <- s7, asked <- s8, Order <- GitPaths
B == INSTANCE GitBranches WITH
    repo <- s1, hidden <- s2, commits <- s3, known <- s4, local <- s5,
    tracked <- s6, remote <- s7, upstream <- s8, head <- s9, work <- s10,
    models <- s11, asking <- s12, syncing <- s13, stale <- s14
V == INSTANCE Navigation WITH
    kind <- s1, url <- s2, active <- s3, rows <- s4, loaded <- s5,
    loading <- s6, seen <- s7, asked <- s8, raced <- s9, cancelled <- s10,
    astray <- s11
W == INSTANCE Palette WITH
    opened <- s1, requests <- s2, used <- s3, active <- s4, typed <- s5,
    command <- s6, selected <- s7, ran <- s8
H == INSTANCE HotKeys WITH
    held <- s1, pressed <- s2, current <- s3, enabled <- s4, fresh <- s5,
    fired <- s6
X == INSTANCE ConnectionPane WITH
    kind <- s1, request <- s2, connections <- s3, pins <- s4, count <- s5,
    events <- s6, loads <- s7, selected <- s8, calling <- s9, hidden <- s10,
    mixed <- s11, closed <- s12, Requests <- PaneRequests
Y == INSTANCE ResponsePane WITH
    request <- s1, responses <- s2, phase <- s3, file <- s4, pins <- s5,
    cache <- s6, reading <- s7, text <- s8, hurried <- s9, counts <- s10,
    cancels <- s11, copies <- s12, Requests <- PaneRequests
Z == INSTANCE GrpcPane WITH
    request <- s1, rows <- s2, files <- s3, patches <- s4, debounced <- s5,
    cache <- s6, reading <- s7, doubtful <- s8, checked <- s9,
    Requests <- PaneRequests, Urls <- GrpcUrls
K == INSTANCE Environments WITH
    envs <- s1, isBase <- s2, public <- s3, variables <- s4, selected <- s5,
    active <- s6, asking <- s7, encrypting <- s8, editor <- s9, apart <- s10,
    Names <- VariableNames
L == INSTANCE Encryption WITH
    challenge <- s1, stored <- s2, cache <- s3, calls <- s4, made <- s5,
    used <- s6, key <- s7, reveals <- s8, expanded <- s9, dialog <- s10,
    raced <- s11, foreign <- s12
J == INSTANCE Settings WITH
    row <- s1, shown <- s2, news <- s3, typed <- s4, apart <- s5,
    Texts <- SettingTexts
M == INSTANCE Theme WITH
    settings <- s1, preferred <- s2, plugin <- s3, runs <- s4, document <- s5,
    removed <- s6, preview <- s7
O == INSTANCE Layout WITH
    rows <- s1, calls <- s2, width <- s3, dragging <- s4, floating <- s5,
    floats <- s6, wanted <- s7, disordered <- s8, MaxCalls <- MaxLayoutCalls
Q == INSTANCE SplitLayout WITH
    stored <- s1, shown <- s2, space <- s3, size <- s4, second <- s5,
    drag <- s6, crossed <- s7, Widths <- Containers, Height <- 400,
    Asked <- PointedAt, Spaces <- Workspaces
T == INSTANCE PluginSettings WITH
    rows <- s1, writes <- s2, published <- s3, disk <- s4, running <- s5,
    jobs <- s6, shown <- s7, info <- s8, offered <- s9, clashed <- s10,
    MaxWrites <- MaxPluginWrites, MaxVersion <- MaxVersion,
    MaxJobs <- MaxCommands
U == INSTANCE Dialogs WITH
    dialogs <- s1, answers <- s2, replaced <- s3, MaxCalls <- MaxDialogs
AA == INSTANCE Toasts WITH
    toasts <- s1, delayed <- s2, timers <- s3, closed <- s4, quick <- s5,
    Ids <- Messages, MaxToasts <- MaxToasts
BB == INSTANCE SidebarKeys WITH
    list <- s1, active <- s2, hidden <- s3, hasFocus <- s4, selected <- s5,
    focus <- s6, editing <- s7, asked <- s8, calls <- s9, stray <- s10,
    Requests <- Listed, MaxAsked <- MaxSteps
CC == INSTANCE ChainedRequests WITH
    plan <- s1, responses <- s2, jobs <- s3, started <- s4, previewed <- s5,
    together <- s6, Requests <- Chained, MaxJobs <- 2

-----------------------------------------------------------------------------

Off == "off"

vars ==
    <<machine, s1, s2, s3, s4, s5, s6, s7, s8, s9, s10, s11, s12, s13, s14>>

Init ==
    \/ /\ machine = "pairs" /\ P!Init
       /\ s11 = Off /\ s12 = Off /\ s13 = Off /\ s14 = Off
    \/ /\ machine = "menu" /\ D!Init
       /\ s11 = Off /\ s12 = Off /\ s13 = Off /\ s14 = Off
    \/ /\ machine = "tree" /\ S!Init
       /\ s8 = Off /\ s9 = Off /\ s10 = Off /\ s11 = Off /\ s12 = Off
       /\ s13 = Off /\ s14 = Off
    \/ /\ machine = "formats" /\ F!Init
       /\ s3 = Off /\ s4 = Off /\ s5 = Off /\ s6 = Off /\ s7 = Off /\ s8 = Off
       /\ s9 = Off /\ s10 = Off /\ s11 = Off /\ s12 = Off /\ s13 = Off
       /\ s14 = Off
    \/ /\ machine = "editor" /\ E!Init
       /\ s9 = Off /\ s10 = Off /\ s11 = Off /\ s12 = Off /\ s13 = Off
       /\ s14 = Off
    \/ /\ machine = "secret" /\ I!Init
       /\ s10 = Off /\ s11 = Off /\ s12 = Off /\ s13 = Off /\ s14 = Off
    \/ /\ machine = "docs" /\ G!Init
       /\ s7 = Off /\ s8 = Off /\ s9 = Off /\ s10 = Off /\ s11 = Off
       /\ s12 = Off /\ s13 = Off /\ s14 = Off
    \/ /\ machine = "introspection" /\ N!Init
       /\ s9 = Off /\ s10 = Off /\ s11 = Off /\ s12 = Off /\ s13 = Off
       /\ s14 = Off
    \/ /\ machine = "request" /\ R!Init
       /\ s11 = Off /\ s12 = Off /\ s13 = Off /\ s14 = Off
    \/ /\ machine = "auth" /\ A!Init
       /\ s7 = Off /\ s8 = Off /\ s9 = Off /\ s10 = Off /\ s11 = Off
       /\ s12 = Off /\ s13 = Off /\ s14 = Off
    \/ /\ machine = "commit" /\ C!Init
       /\ s9 = Off /\ s10 = Off /\ s11 = Off /\ s12 = Off /\ s13 = Off
       /\ s14 = Off
    \/ /\ machine = "branches" /\ B!Init
    \/ /\ machine = "places" /\ V!Init
       /\ s12 = Off /\ s13 = Off /\ s14 = Off
    \/ /\ machine = "palette" /\ W!Init
       /\ s9 = Off /\ s10 = Off /\ s11 = Off /\ s12 = Off /\ s13 = Off
       /\ s14 = Off
    \/ /\ machine = "hotkeys" /\ H!Init
       /\ s7 = Off /\ s8 = Off /\ s9 = Off /\ s10 = Off /\ s11 = Off
       /\ s12 = Off /\ s13 = Off /\ s14 = Off
    \/ /\ machine = "connections" /\ X!Init
       /\ s13 = Off /\ s14 = Off
    \/ /\ machine = "responses" /\ Y!Init
       /\ s13 = Off /\ s14 = Off
    \/ /\ machine = "grpc" /\ Z!Init
       /\ s10 = Off /\ s11 = Off /\ s12 = Off /\ s13 = Off /\ s14 = Off
    \/ /\ machine = "environments" /\ K!Init
       /\ s11 = Off /\ s12 = Off /\ s13 = Off /\ s14 = Off
    \/ /\ machine = "encryption" /\ L!Init
       /\ s13 = Off /\ s14 = Off
    \/ /\ machine = "settings" /\ J!Init
       /\ s6 = Off /\ s7 = Off /\ s8 = Off /\ s9 = Off /\ s10 = Off
       /\ s11 = Off /\ s12 = Off /\ s13 = Off /\ s14 = Off
    \/ /\ machine = "theme" /\ M!Init
       /\ s8 = Off /\ s9 = Off /\ s10 = Off /\ s11 = Off /\ s12 = Off
       /\ s13 = Off /\ s14 = Off
    \/ /\ machine = "layout" /\ O!Init
       /\ s9 = Off /\ s10 = Off /\ s11 = Off /\ s12 = Off /\ s13 = Off
       /\ s14 = Off
    \/ /\ machine = "split" /\ Q!Init
       /\ s8 = Off /\ s9 = Off /\ s10 = Off /\ s11 = Off /\ s12 = Off
       /\ s13 = Off /\ s14 = Off
    \/ /\ machine = "installed" /\ T!Init
       /\ s11 = Off /\ s12 = Off /\ s13 = Off /\ s14 = Off
    \/ /\ machine = "dialogs" /\ U!Init
       /\ s4 = Off /\ s5 = Off /\ s6 = Off /\ s7 = Off /\ s8 = Off /\ s9 = Off
       /\ s10 = Off /\ s11 = Off /\ s12 = Off /\ s13 = Off /\ s14 = Off
    \/ /\ machine = "toasts" /\ AA!Init
       /\ s6 = Off /\ s7 = Off /\ s8 = Off /\ s9 = Off /\ s10 = Off
       /\ s11 = Off /\ s12 = Off /\ s13 = Off /\ s14 = Off
    \/ /\ machine = "keys" /\ BB!Init
       /\ s11 = Off /\ s12 = Off /\ s13 = Off /\ s14 = Off
    \/ /\ machine = "chain" /\ CC!Init
       /\ s7 = Off /\ s8 = Off /\ s9 = Off /\ s10 = Off /\ s11 = Off
       /\ s12 = Off /\ s13 = Off /\ s14 = Off

Next ==
    /\ UNCHANGED machine
    /\ \/ machine = "pairs" /\ P!Next /\ UNCHANGED <<s11, s12, s13, s14>>
       \/ machine = "menu" /\ D!Next /\ UNCHANGED <<s11, s12, s13, s14>>
       \/ /\ machine = "tree" /\ S!Next
          /\ UNCHANGED <<s8, s9, s10, s11, s12, s13, s14>>
       \/ /\ machine = "formats" /\ F!Next
          /\ UNCHANGED <<s3, s4, s5, s6, s7, s8, s9, s10, s11, s12, s13, s14>>
       \/ /\ machine = "editor" /\ E!Next
          /\ UNCHANGED <<s9, s10, s11, s12, s13, s14>>
       \/ machine = "secret" /\ I!Next /\ UNCHANGED <<s10, s11, s12, s13, s14>>
       \/ /\ machine = "docs" /\ G!Next
          /\ UNCHANGED <<s7, s8, s9, s10, s11, s12, s13, s14>>
       \/ /\ machine = "introspection" /\ N!Next
          /\ UNCHANGED <<s9, s10, s11, s12, s13, s14>>
       \/ machine = "request" /\ R!Next /\ UNCHANGED <<s11, s12, s13, s14>>
       \/ /\ machine = "auth" /\ A!Next
          /\ UNCHANGED <<s7, s8, s9, s10, s11, s12, s13, s14>>
       \/ /\ machine = "commit" /\ C!Next
          /\ UNCHANGED <<s9, s10, s11, s12, s13, s14>>
       \/ machine = "branches" /\ B!Next
       \/ machine = "places" /\ V!Next /\ UNCHANGED <<s12, s13, s14>>
       \/ /\ machine = "palette" /\ W!Next
          /\ UNCHANGED <<s9, s10, s11, s12, s13, s14>>
       \/ /\ machine = "hotkeys" /\ H!Next
          /\ UNCHANGED <<s7, s8, s9, s10, s11, s12, s13, s14>>
       \/ machine = "connections" /\ X!Next /\ UNCHANGED <<s13, s14>>
       \/ machine = "responses" /\ Y!Next /\ UNCHANGED <<s13, s14>>
       \/ machine = "grpc" /\ Z!Next /\ UNCHANGED <<s10, s11, s12, s13, s14>>
       \/ /\ machine = "environments" /\ K!Next
          /\ UNCHANGED <<s11, s12, s13, s14>>
       \/ machine = "encryption" /\ L!Next /\ UNCHANGED <<s13, s14>>
       \/ /\ machine = "settings" /\ J!Next
          /\ UNCHANGED <<s6, s7, s8, s9, s10, s11, s12, s13, s14>>
       \/ /\ machine = "theme" /\ M!Next
          /\ UNCHANGED <<s8, s9, s10, s11, s12, s13, s14>>
       \/ /\ machine = "layout" /\ O!Next
          /\ UNCHANGED <<s9, s10, s11, s12, s13, s14>>
       \/ /\ machine = "split" /\ Q!Next
          /\ UNCHANGED <<s8, s9, s10, s11, s12, s13, s14>>
       \/ machine = "installed" /\ T!Next /\ UNCHANGED <<s11, s12, s13, s14>>
       \/ /\ machine = "dialogs" /\ U!Next
          /\ UNCHANGED <<s4, s5, s6, s7, s8, s9, s10, s11, s12, s13, s14>>
       \/ /\ machine = "toasts" /\ AA!Next
          /\ UNCHANGED <<s6, s7, s8, s9, s10, s11, s12, s13, s14>>
       \/ machine = "keys" /\ BB!Next /\ UNCHANGED <<s11, s12, s13, s14>>
       \/ /\ machine = "chain" /\ CC!Next
          /\ UNCHANGED <<s7, s8, s9, s10, s11, s12, s13, s14>>

Spec == Init /\ [][Next]_vars

-----------------------------------------------------------------------------
(* The properties, stated where the parts are defined. *)

\* Every variable of the part that moves has its type.
TypeOK ==
    /\ machine = "pairs" => P!TypeOK
    /\ machine = "menu" => D!TypeOK
    /\ machine = "tree" => S!TypeOK
    /\ machine = "editor" => E!TypeOK
    /\ machine = "secret" => I!TypeOK
    /\ machine = "docs" => G!TypeOK
    /\ machine = "introspection" => N!TypeOK
    /\ machine = "request" => R!TypeOK
    /\ machine = "auth" => A!TypeOK
    /\ machine = "commit" => C!TypeOK
    /\ machine = "branches" => B!TypeOK
    /\ machine = "places" => V!TypeOK
    /\ machine = "palette" => W!TypeOK
    /\ machine = "hotkeys" => H!TypeOK
    /\ machine = "connections" => X!TypeOK
    /\ machine = "responses" => Y!TypeOK
    /\ machine = "grpc" => Z!TypeOK
    /\ machine = "environments" => K!TypeOK
    /\ machine = "encryption" => L!TypeOK
    /\ machine = "settings" => J!TypeOK
    /\ machine = "theme" => M!TypeOK
    /\ machine = "layout" => O!TypeOK
    /\ machine = "split" => Q!TypeOK
    /\ machine = "installed" => T!TypeOK
    /\ machine = "dialogs" => U!TypeOK
    /\ machine = "toasts" => AA!TypeOK
    /\ machine = "keys" => BB!TypeOK
    /\ machine = "chain" => CC!TypeOK

\* The editors show what is saved: a pair editor's rows, with an empty row below
\* what is typed, a text editor's text, a password field's secret, the form of the
\* request's authentication with the values that are sent, an environment's
\* variables, and the proxy of the settings, which is the one requests are sent
\* through; and a method that is chosen is one of the server's.
EditorsKept ==
    /\ machine = "pairs" => P!RowsAreSaved /\ P!TypedRowIsNotLast
    /\ machine = "editor" => E!ShownIsSaved
    /\ machine = "secret" => I!FieldShowsStored
    /\ machine = "request" => R!EditorsShowRequest /\ R!ContentTypeFits
    /\ machine = "auth" => A!FormFits /\ A!ValuesOfType /\ A!InheritedIsSent
    /\ machine = "grpc" => Z!MethodExists
    /\ machine = "environments" => K!AlwaysABase /\ K!EditorShowsRow
    /\ machine = "settings" => J!SentAsShown

\* What a key runs is what is shown for it: the item of a dropdown that is
\* highlighted; the palette, which shows what was used last and matches best; and the
\* hotkey of just the keys that are held.
RunsTheHighlighted ==
    /\ machine = "menu" => D!RunsTheHighlighted
    /\ machine = "palette" => W!RecentFirst /\ W!ShowsTheBest
    /\ machine = "hotkeys" => H!RunsItsOwn /\ H!FirstKeyRuns

\* No item of the sidebar vanishes, and a dropped item is where its marker was.
TreeKept == machine = "tree" => S!NothingVanishes /\ S!DroppedAtMarker

\* A dropped item stays where it is when its marker is there.
DroppedInPlace == machine = "tree" => S!DroppedInPlace

\* A pane shows what it is about: the schema of the active request, of which a search
\* finds all that a page can reach; the staged files of the repository, each change
\* with its box; the models of the branch that was switched to; a workspace what was
\* active in it; the panes of a request the events of its connection, the text of its
\* response and the services of its server; the encryption dialog the key that opens
\* the workspace's values; the document a complete theme; the sidebar and the split
\* panes where the handle left them; the settings the plugins that run.  Dialogs answer
\* whoever asked, a message goes once, a key that the sidebar hears is meant for it, and
\* a preview sends a chained request once.
PanesShowTheirs ==
    /\ machine = "docs" => G!SearchFindsAll /\ G!ItemIsOfSchema
    /\ machine = "introspection" => N!StoredIsOwn /\ N!ShowsStored
    /\ machine = "commit" => C!BoxesShowIndex /\ C!ChangesHaveBoxes /\ C!WholeSubtree
    /\ machine = "branches" => B!WindowShowsBranch /\ B!RepositoryIsWhole
    /\ machine = "places" => V!JarIsOwn /\ V!ActiveIsFirst /\ V!RecentAreOwn
    /\ machine = "connections" => X!ListsTheEvents /\ X!OpensTheAnswer
    /\ machine = "responses" => Y!ShowsItsBody /\ Y!EndedIsClosed
    /\ machine = "grpc" => Z!ServicesAreOwn
    /\ machine = "encryption" => L!ValuesReadable /\ L!ShowsTheKey
    /\ machine = "theme" => M!DocumentHasTheme /\ M!StyleIsComplete
    /\ machine = "layout" => O!IsWherePut /\ O!NeverNarrow
    /\ machine = "split" => Q!BothAreSeen /\ Q!DividedAsLeft
    /\ machine = "installed" => T!ListsWhatRuns
    /\ machine = "dialogs" => U!AskersAreAnswered
    /\ machine = "toasts" => AA!ClosedOnce
    /\ machine = "keys" => BB!KeysAreIts
    /\ machine = "chain" => CC!PreviewsSendOnce

\* A command copied from a request brings it back, whatever the order of its
\* words, and a command for grpcurl finds its files; what is imported is complete,
\* and is what the sender would send; and what a request takes from the responses of
\* others is a whole response.
ConvertedWhole ==
    /\ machine = "formats" =>
          /\ F!CurlCopies /\ F!CurlAnyOrder /\ F!GrpcurlFindsFiles
          /\ F!TreesComplete /\ F!PostmanContentType /\ F!ExportMigratesOnce
    /\ machine = "chain" => CC!SentWithWhole

\* A row that is dropped, and a highlight that moves, end where they should; a
\* tag's dialog that is only looked at changes no tag; the documentation opens where
\* the editor asks for it; the palette runs what is highlighted; a pane leaves its
\* connection or response only when asked, or for a new one; the dialog of environments
\* shows another one when its own is gone; an edit of the proxy keeps the rest of it;
\* and the selection of the sidebar comes to the active request.
MovesAsShown ==
    [][/\ machine = "pairs" => P!DropIsAtMarker
       /\ machine = "menu" => D!MoveIsToAnItem
       /\ machine = "editor" => E!LookingChangesNothing
       /\ machine = "docs" => G!ShowsWhatIsAsked
       /\ machine = "palette" => W!RunsHighlighted
       /\ machine = "connections" => X!StaysWithIts
       /\ machine = "responses" => Y!StaysWithIts
       /\ machine = "environments" => K!ShowsAnother
       /\ machine = "settings" => J!KeepsConfiguration
       /\ machine = "keys" => BB!ComesToTheActive]_vars

\* What is committed is what is marked; a switch of branch keeps what is not committed
\* unless the person was asked; and branches lose no commit.
WorkIsKept ==
    [][/\ machine = "commit" => C!CommitsWhatIsMarked
       /\ machine = "branches" => B!UncommittedKept /\ B!BranchesGoForward]_vars

\* What a field marks as encrypted is stored encrypted, and never written in the
\* clear on the way; an environment becomes public only by the menu's item, saving one
\* opens no value but the one that is typed, and what waits for the workspace's key goes
\* on only when there is one.
SecretsStayClosed ==
    [][/\ machine = "secret" => I!MarkedMeansClosed /\ I!NeverWrittenPlain
       /\ machine = "environments" => K!NewIsPrivate /\ K!OthersStayClosed
       /\ machine = "encryption" => L!GoesOnWithKey]_vars

=============================================================================
