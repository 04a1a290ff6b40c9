------------------------------- MODULE OAuth --------------------------------
(***************************************************************************)
(* The OAuth 2.0 plugin (plugins/auth-oauth2/src): the calls of onApply,   *)
(* one for each request that is sent, get, refresh, fetch and store tokens *)
(* under one configuration of the authentication.                          *)
(*                                                                         *)
(* Calls run concurrently: between two awaits of one the others go on, and *)
(* they share the plugin's key-value store and the authorization window,   *)
(* which has a fixed label.  A token is what the code tells of it: which   *)
(* of access_token and id_token it has, its refresh token (a number; 0 for *)
(* none) and whether it has expired.  The authorization server is          *)
(* external: it may rotate refresh tokens, refuse, fail, or lose an answer.*)
(***************************************************************************)
EXTENDS Naturals, FiniteSets

CONSTANTS
    Calls,          \* the calls of onApply that may run at once
    None,           \* no token, no call
    MaxIssued       \* bound: the refresh tokens the server issues

ASSUME NoneIsNoCall == None \notin Calls
ASSUME MaxIssuedNat == MaxIssued \in Nat

VARIABLES
    grant,      \* the configuration: values.grantType,
    wanted,     \* values.tokenName,
    filled,     \* which of the URL fields have a value,
    usePkce,    \* values.usePkce
    rotating,   \* does the server replace a refresh token that is used?
    issued,     \* the last refresh token of the server
    live,       \* the refresh tokens the server accepts
    tokens,     \* the plugin's store: a token for each key
    call,       \* call[c]: where the call stands and the token it holds
    window,     \* the call whose authorization window is open, or None
    spent       \* history: refresh tokens the plugin has had replaced

config == <<grant, wanted, filled, usePkce, rotating>>
server == <<issued, live>>
vars == <<config, server, tokens, call, window, spent>>

Grants == {"authorization_code", "implicit", "password", "client_credentials"}
Fields == {"access_token", "id_token"}
Urls == {"accessTokenUrl", "authorizationUrl"}
Tokens == [has : SUBSET Fields, refresh : 0..MaxIssued, expired : BOOLEAN]

ASSUME NoneIsNoToken == None \notin Tokens

Places == {"idle", "refreshing", "deleting", "authorizing", "waiting", "fetching",
           "storing", "restoring", "done", "failed", "orphan"}

TypeOK ==
    /\ grant \in Grants /\ wanted \in Fields /\ filled \subseteq Urls
    /\ usePkce \in BOOLEAN /\ rotating \in BOOLEAN
    /\ issued \in 0..MaxIssued /\ live \subseteq 1..issued /\ spent \subseteq 1..issued
    /\ tokens \in [SUBSET Urls -> Tokens \cup {None}]
    /\ call \in [Calls -> [at : Places, token : Tokens \cup {None}]]
    /\ window \in Calls \cup {None}

-----------------------------------------------------------------------------
(* The form and what onApply makes of it. *)

\* hiddenIfNot
OnlyFor(grants, g, fields) == IF g \in grants THEN fields ELSE {}

\* plugin.authentication.args: the fields the form shows
Shown(g, pkce) ==
    {"grantType", "clientId", "audience", "scope", "headerPrefix", "credentials"}
    \cup OnlyFor(Grants \ {"implicit"}, g, {"clientSecret", "accessTokenUrl"})
    \cup OnlyFor({"authorization_code", "implicit"}, g,
                 {"authorizationUrl", "redirectUri", "state", "tokenName"})
    \cup OnlyFor({"authorization_code"}, g, {"usePkce"} \cup
                 IF pkce THEN {"pkceChallengeMethod", "pkceCodeChallenge"} ELSE {})
    \cup OnlyFor({"password"}, g, {"username", "password"})
    \cup OnlyFor({"implicit"}, g, {"responseType"})

\* Mutant: every grant sends the username.
ReadsUserName(g, pkce) == {"username", "password"}

\* onApply: the values it reads
Read(g, pkce) ==
    {"grantType", "headerPrefix", "credentials", "tokenName", "clientId", "scope", "audience"}
    \cup OnlyFor(Grants \ {"implicit"}, g, {"clientSecret", "accessTokenUrl"})
    \cup OnlyFor({"authorization_code", "implicit"}, g,
                 {"authorizationUrl", "redirectUri", "state"})
    \cup OnlyFor({"authorization_code"}, g, {"usePkce"} \cup
                 IF pkce THEN {"pkceChallengeMethod", "pkceCodeVerifier"} ELSE {})
    \cup OnlyFor({"password"}, g, {"username", "password"})
    \cup OnlyFor({"implicit"}, g, {"responseType"})

\* tokenStoreKey of onApply's TokenStoreArgs: the grants leave out the URL that
\* is not theirs ...
UrlsOf(g) == CASE g = "authorization_code" -> Urls
               [] g = "implicit" -> {"authorizationUrl"}
               [] OTHER -> {"accessTokenUrl"}

ApplyKey == filled \cap UrlsOf(grant)

\* ... and the actions of the menu do not
ActionKey == filled

\* the field storeToken demands: only the code grant passes its tokenName on,
\* and only when the token is new
Demanded(place) ==
    IF grant = "authorization_code" /\ place = "storing" THEN wanted ELSE "access_token"

-----------------------------------------------------------------------------
(* One call. *)

Moves(c, place, token) == call' = [call EXCEPT ![c] = [at |-> place, token |-> token]]

\* the grants that call getOrRefreshAccessToken
Refreshable(t) == grant \in {"authorization_code", "password"} /\ t.refresh # 0

\* onApply up to the first await that does not read the store:
\* getOrRefreshAccessToken and the grants without refresh
Begin(c) ==
    /\ call[c].at \in {"idle", "done", "failed"}
    /\ LET t == tokens[ApplyKey]
       IN  IF t = None THEN Moves(c, "authorizing", None)
           ELSE \/ ~t.expired /\ Moves(c, "done", t)
                \/ t.expired /\ Refreshable(t) /\ Moves(c, "refreshing", t)
                \/ t.expired /\ ~Refreshable(t) /\ Moves(c, "authorizing", None)
    /\ UNCHANGED <<config, server, tokens, window, spent>>

\* The tokens of an answer, with the refresh token r.
Answers(r) == [has : SUBSET Fields, refresh : {r}, expired : {FALSE}]

\* Mutant: the old refresh token wins.
KeepsOld(new, old) == old

\* Mutant: an answer without a refresh token makes it undefined.
KeepsNew(new, old) == IF new # 0 THEN new ELSE None

\* the refresh_token of the stored response
Kept(new, old) == IF new # 0 THEN new ELSE old

\* ctx.httpRequest.send of the refresh request has answered
Refreshed(c) ==
    /\ call[c].at = "refreshing"
    /\ LET r == call[c].token.refresh
       IN  \/ r \notin live /\ Moves(c, "deleting", None) /\ UNCHANGED <<server, spent>>
           \/ r \in live /\ ~rotating
              /\ \E t \in Answers(Kept(0, r)) : Moves(c, "restoring", t)
              /\ UNCHANGED <<server, spent>>
           \/ /\ r \in live /\ rotating /\ issued < MaxIssued
              /\ issued' = issued + 1
              /\ live' = (live \ {r}) \cup {issued + 1}
              /\ \/ /\ \E t \in Answers(Kept(issued + 1, r)) : Moves(c, "restoring", t)
                    /\ spent' = spent \cup {r}
                 \/ Moves(c, "failed", None) /\ UNCHANGED spent      \* the answer is lost
           \/ Moves(c, "failed", None) /\ UNCHANGED <<server, spent>>  \* an error
    /\ UNCHANGED <<config, tokens, window>>

\* deleteToken after a 401, then as without a token
Deleted(c) ==
    /\ call[c].at = "deleting"
    /\ tokens' = [tokens EXCEPT ![ApplyKey] = None]
    /\ Moves(c, "authorizing", None)
    /\ UNCHANGED <<config, server, window, spent>>

\* Without a token: the grants with a window ask for it.  A window with the
\* label is only brought to the front, and the events of this call's window
\* never come.
OpenUrl(c) ==
    /\ call[c].at = "authorizing" /\ "authorizationUrl" \in UrlsOf(grant)
    /\ \/ "authorizationUrl" \notin filled       \* new URL throws
          /\ Moves(c, "failed", None) /\ UNCHANGED window
       \/ /\ "authorizationUrl" \in filled
          /\ IF window = None THEN window' = c /\ Moves(c, "waiting", None)
             ELSE UNCHANGED window /\ Moves(c, "orphan", None)
    /\ UNCHANGED <<config, server, tokens, spent>>

\* ... and the others send their request at once.
Fetch(c) ==
    /\ call[c].at = "authorizing" /\ "authorizationUrl" \notin UrlsOf(grant)
    /\ Moves(c, "fetching", None)
    /\ UNCHANGED <<config, server, tokens, window, spent>>

\* onNavigate with a code, or with a token in the URL's hash.  A call whose
\* promise is settled (the implicit grant leaves the window open after an
\* error) stores the token it is given all the same.
Navigate(c) ==
    /\ window = c
    /\ window' = None
    /\ IF grant = "implicit"
       THEN \E t \in {u \in Answers(0) : wanted \in u.has} :
              IF "access_token" \notin t.has
              THEN call' = [call EXCEPT ![c].at = "failed"] /\ UNCHANGED tokens
              ELSE tokens' = [tokens EXCEPT ![ApplyKey] = t]
                   /\ IF call[c].at = "waiting" THEN Moves(c, "done", t) ELSE UNCHANGED call
       ELSE Moves(c, "fetching", None) /\ UNCHANGED tokens
    /\ UNCHANGED <<config, server, spent>>

\* onNavigate with an error
NavigateError(c) ==
    /\ window = c /\ call[c].at = "waiting"
    /\ Moves(c, "failed", None)
    /\ window' = IF grant = "implicit" THEN window ELSE None
    /\ UNCHANGED <<config, server, tokens, spent>>

\* Mutant: a window that is closed settles nothing.
ClosesSilently(c) ==
    /\ window = c
    /\ window' = None
    /\ UNCHANGED <<config, server, tokens, call, spent>>

\* onClose
Close(c) ==
    /\ window = c
    /\ window' = None
    /\ call' = [call EXCEPT ![c] = IF @.at = "waiting" THEN [@ EXCEPT !.at = "failed"] ELSE @]
    /\ UNCHANGED <<config, server, tokens, spent>>

\* fetchAccessToken
Fetched(c) ==
    /\ call[c].at = "fetching"
    /\ \/ Moves(c, "failed", None) /\ UNCHANGED server
       \/ \E t \in Answers(0) : Moves(c, "storing", t) /\ UNCHANGED server
       \/ /\ issued < MaxIssued
          /\ issued' = issued + 1 /\ live' = live \cup {issued + 1}
          /\ \E t \in Answers(issued + 1) : Moves(c, "storing", t)
    /\ UNCHANGED <<config, tokens, window, spent>>

\* Mutant: storeToken takes what it gets.
Unchecked(t, place) == TRUE

\* storeToken: `${tokenName} not found in response`
Complete(t, place) == Demanded(place) \in t.has

\* storeToken, of a new token or of a refreshed one
Stored(c) ==
    /\ call[c].at \in {"storing", "restoring"}
    /\ LET t == call[c].token
       IN  IF Complete(t, call[c].at)
           THEN tokens' = [tokens EXCEPT ![ApplyKey] = t] /\ Moves(c, "done", t)
           ELSE UNCHANGED tokens /\ Moves(c, "failed", None)
    /\ UNCHANGED <<config, server, window, spent>>

-----------------------------------------------------------------------------
(* The user and time. *)

\* the action that deletes the token
DeleteToken ==
    /\ tokens[ActionKey] # None
    /\ tokens' = [tokens EXCEPT ![ActionKey] = None]
    /\ UNCHANGED <<config, server, call, window, spent>>

Expire(key) ==
    /\ tokens[key] # None /\ ~tokens[key].expired
    /\ tokens' = [tokens EXCEPT ![key].expired = TRUE]
    /\ UNCHANGED <<config, server, call, window, spent>>

Init ==
    /\ grant \in Grants /\ wanted \in Fields
    /\ filled \in SUBSET Urls
    /\ usePkce \in BOOLEAN /\ (usePkce => grant = "authorization_code")
    /\ rotating \in BOOLEAN
    /\ issued = 0 /\ live = {}
    /\ tokens = [key \in SUBSET Urls |-> None]
    /\ call = [c \in Calls |-> [at |-> "idle", token |-> None]]
    /\ window = None /\ spent = {}

Proceeds(c) ==
    Refreshed(c) \/ Deleted(c) \/ OpenUrl(c) \/ Fetch(c) \/ Fetched(c) \/ Stored(c)

Next ==
    \/ \E c \in Calls :
         Begin(c) \/ Proceeds(c) \/ Navigate(c) \/ NavigateError(c) \/ Close(c)
    \/ DeleteToken
    \/ \E key \in SUBSET Urls : Expire(key)

\* the host and the server answer, and the user closes the authorization window
\* in the end
Fairness == \A c \in Calls : WF_vars(Proceeds(c)) /\ WF_vars(Close(c))

Spec == Init /\ [][Next]_vars /\ Fairness

-----------------------------------------------------------------------------
(* Properties. *)

\* The header of onApply never says "Bearer undefined" when access_token is the
\* token to send, however calls, refreshes and deletions interleave.  (With
\* id_token it may: a refresh does not demand one, and the password and client
\* credentials grants read a tokenName that their form hides.)
HeaderHasToken ==
    \A c \in Calls : call[c].at = "done" /\ wanted = "access_token" =>
        "access_token" \in call[c].token.has

\* A token is never stored with a refresh token that the plugin has seen
\* replaced: of two concurrent refreshes neither puts an older token back.
NeverStoresSpent ==
    [][\A key \in SUBSET Urls :
         tokens'[key] \notin {None, tokens[key]} /\ ~tokens'[key].expired =>
             tokens'[key].refresh \notin spent]_vars

\* Every call ends, with a token or an error, unless the authorization window
\* of another call was open when it asked for its own.
CallsEnd ==
    \A c \in Calls : call[c].at \notin {"idle", "orphan"} ~> call[c].at \in {"done", "failed", "orphan"}

\* What onApply reads of the values is on the form of its grant: a hidden field
\* may hold what another grant left in it.  The exceptions are tokenName, and
\* the verifier, which the form stores under another name.
ReadsWhatItShows ==
    Read(grant, usePkce) \ Shown(grant, usePkce) \subseteq {"tokenName", "pkceCodeVerifier"}

=============================================================================
