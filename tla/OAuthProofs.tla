----------------------------- MODULE OAuthProofs -----------------------------
(***************************************************************************)
(* Theorems about OAuth, for every set of calls, every configuration and   *)
(* every number of refresh tokens.                                         *)
(*                                                                         *)
(* The inductive invariant says where tokens may be: a call that is about  *)
(* to store one holds the only copy of its refresh token (the server has   *)
(* just issued it, and nobody has read it from the store yet), so that no  *)
(* other call can have used it up meanwhile; and when access_token is the  *)
(* token to send, no stored token lacks one.                               *)
(***************************************************************************)
EXTENDS OAuth, TLAPS

\* a token in a call's hands, not yet in the store
Fresh(c) == call[c].at \in {"storing", "restoring"}

\* A call holds a token where onApply works with one.
HoldsOne ==
    \A c \in Calls : call[c].at \in {"refreshing", "storing", "restoring", "done"} =>
        call[c].token \in Tokens /\ call[c].token # None

\* The plugin marks off the form: PKCE belongs to the code grant.
PkceOfCode == usePkce => grant = "authorization_code"

\* No refresh token is newer than the server's last one.
NoneAhead ==
    /\ \A key \in SUBSET Urls : tokens[key] # None => tokens[key].refresh <= issued
    /\ \A c \in Calls : call[c].token # None => call[c].token.refresh <= issued

\* A refresh token that is about to be stored is in nobody else's hands, if the
\* server rotates them.
OnlyCopy ==
    rotating =>
    \A c \in Calls : Fresh(c) /\ call[c].token.refresh # 0 =>
        /\ \A key \in SUBSET Urls :
             tokens[key] # None => tokens[key].refresh # call[c].token.refresh
        /\ \A d \in Calls \ {c} :
             call[d].token # None => call[d].token.refresh # call[c].token.refresh

\* ... and has not been replaced.
FreshUnspent ==
    /\ \A c \in Calls : Fresh(c) => call[c].token.refresh \notin spent
    /\ ~rotating => spent = {}

\* With access_token to send, every token of the store and of a call that is
\* done has one.
StoredHasAccess ==
    wanted = "access_token" =>
    /\ \A key \in SUBSET Urls : tokens[key] # None => "access_token" \in tokens[key].has
    /\ \A c \in Calls : call[c].at = "done" => "access_token" \in call[c].token.has

IInv ==
    /\ TypeOK /\ HoldsOne /\ PkceOfCode /\ NoneAhead
    /\ OnlyCopy /\ FreshUnspent /\ StoredHasAccess
-----------------------------------------------------------------------------
(* What the helpers do. *)

\* The answers of the server are tokens.
LEMMA AnswersAreTokens ==
    ASSUME NEW r \in 0..MaxIssued, NEW t \in Answers(r)
    PROVE  t \in Tokens /\ t # None /\ t.refresh = r
<1>1. t \in Tokens /\ t.refresh = r
  BY DEF Answers, Tokens
<1>2. QED
  BY <1>1, NoneIsNoToken

\* A step of one call leaves the others where they are.
LEMMA MovesOne ==
    ASSUME TypeOK, NEW c \in Calls, NEW place \in Places, NEW token \in Tokens \cup {None},
           Moves(c, place, token)
    PROVE  /\ call' \in [Calls -> [at : Places, token : Tokens \cup {None}]]
           /\ call'[c].at = place /\ call'[c].token = token
           /\ \A d \in Calls \ {c} : call'[d] = call[d]
BY DEF TypeOK, Moves

\* A call that lets go of its token disturbs nothing, even if stored tokens go
\* with it.
LEMMA LetsGo ==
    ASSUME IInv, NEW c \in Calls,
           UNCHANGED <<grant, wanted, filled, usePkce, rotating, issued, live, spent>>,
           window' \in Calls \cup {None},
           tokens' \in [SUBSET Urls -> Tokens \cup {None}],
           \A key \in SUBSET Urls : tokens'[key] = None \/ tokens'[key] = tokens[key],
           NEW place \in Places \ {"refreshing", "storing", "restoring", "done"},
           Moves(c, place, None)
    PROVE  IInv'
<1>1. /\ call' \in [Calls -> [at : Places, token : Tokens \cup {None}]]
      /\ call'[c].at = place /\ call'[c].token = None
      /\ \A d \in Calls \ {c} : call'[d] = call[d]
  BY MovesOne DEF IInv
<1>2. TypeOK'
  BY <1>1 DEF IInv, TypeOK
<1>3. HoldsOne' /\ PkceOfCode' /\ NoneAhead' /\ StoredHasAccess'
  BY <1>1 DEF IInv, HoldsOne, PkceOfCode, NoneAhead, StoredHasAccess
<1>4. OnlyCopy' /\ FreshUnspent'
  BY <1>1 DEF IInv, OnlyCopy, FreshUnspent, Fresh
<1>5. QED
  BY <1>2, <1>3, <1>4 DEF IInv

\* A new refresh token of the server, in the hands of one call, is nobody
\* else's; the one that it replaces was nobody's who is about to store it.
LEMMA Issues ==
    ASSUME IInv, NEW c \in Calls, issued < MaxIssued, issued' = issued + 1,
           live' \subseteq live \cup {issued + 1},
           UNCHANGED <<grant, wanted, filled, usePkce, rotating, tokens, window>>,
           NEW t \in Tokens, t # None, t.refresh = issued + 1,
           NEW place \in {"storing", "restoring"}, Moves(c, place, t),
           \/ spent' = spent
           \/ /\ rotating /\ ~Fresh(c) /\ call[c].token # None
              /\ call[c].token.refresh \in live
              /\ spent' = spent \cup {call[c].token.refresh}
    PROVE  IInv'
<1>1. /\ issued \in Nat /\ issued \in 0..MaxIssued /\ issued + 1 \in 0..MaxIssued
      /\ live \subseteq 1..issued /\ spent \subseteq 1..issued
  BY MaxIssuedNat DEF IInv, TypeOK
<1>2. /\ call' \in [Calls -> [at : Places, token : Tokens \cup {None}]]
      /\ call'[c].at = place /\ call'[c].token = t
      /\ \A d \in Calls \ {c} : call'[d] = call[d]
  BY MovesOne DEF IInv, Places
<1>3. /\ \A key \in SUBSET Urls : tokens[key] # None =>
           tokens[key].refresh \in 0..MaxIssued /\ tokens[key].refresh <= issued
      /\ \A d \in Calls : call[d].token # None =>
           call[d].token.refresh \in 0..MaxIssued /\ call[d].token.refresh <= issued
  BY DEF IInv, TypeOK, NoneAhead, Tokens
<1>4. /\ \A key \in SUBSET Urls : tokens[key] # None => tokens[key].refresh # issued + 1
      /\ \A d \in Calls : call[d].token # None => call[d].token.refresh # issued + 1
  BY <1>1, <1>3, MaxIssuedNat
<1>5. TypeOK'
  <2>1. ASSUME NEW n \in live' \cup spent' PROVE n \in 1..issued'
    <3>1. n \in 1..issued \/ n = issued + 1
      BY <1>1
    <3>2. QED
      BY <1>1, <3>1
  <2>2. QED
    BY <1>1, <1>2, <2>1 DEF IInv, TypeOK
<1>6. HoldsOne' /\ PkceOfCode' /\ StoredHasAccess'
  BY <1>2 DEF IInv, HoldsOne, PkceOfCode, StoredHasAccess
<1>7. NoneAhead'
  BY <1>1, <1>2, <1>3, MaxIssuedNat DEF NoneAhead
<1>8. OnlyCopy'
  <2>1. ASSUME NEW d \in Calls, Fresh(d)', call'[d].token.refresh # 0, rotating
        PROVE  /\ \A key \in SUBSET Urls :
                    tokens[key] # None => tokens[key].refresh # call'[d].token.refresh
               /\ \A e \in Calls \ {d} :
                    call'[e].token # None => call'[e].token.refresh # call'[d].token.refresh
    <3>1. CASE d = c
      BY <1>2, <1>4, <3>1
    <3>2. CASE d # c
      <4>1. Fresh(d) /\ call'[d] = call[d] /\ call[d].token.refresh # 0
        BY <1>2, <2>1, <3>2 DEF Fresh
      <4>2. call[d].token.refresh # issued + 1
        BY <1>4, <4>1 DEF IInv, HoldsOne, Fresh
      <4>3. QED
        BY <1>2, <2>1, <3>2, <4>1, <4>2 DEF IInv, OnlyCopy
    <3>3. QED
      BY <3>1, <3>2
  <2>2. QED
    BY <2>1 DEF OnlyCopy
<1>9. FreshUnspent'
  <2>1. \A d \in Calls \ {c} : Fresh(d) => call[d].token.refresh \notin spent'
    <3>1. CASE spent' = spent
      BY <3>1 DEF IInv, FreshUnspent
    <3>2. CASE spent' = spent \cup {call[c].token.refresh} /\ rotating
               /\ call[c].token # None /\ call[c].token.refresh \in live
      <4>1. call[c].token.refresh # 0
        BY <1>1, <3>2
      <4>2. QED
        BY <3>2, <4>1 DEF IInv, OnlyCopy, FreshUnspent
    <3>3. QED
      BY <3>1, <3>2
  <2>2. issued + 1 \notin spent'
    BY <1>1, <1>4
  <2>3. ~rotating => spent' = {}
    BY DEF IInv, FreshUnspent
  <2>4. QED
    BY <1>2, <2>1, <2>2, <2>3 DEF FreshUnspent, Fresh
<1>10. QED
  BY <1>5, <1>6, <1>7, <1>8, <1>9 DEF IInv

LEMMA InitInv == Init => IInv
<1> SUFFICES ASSUME Init PROVE IInv
  OBVIOUS
<1>1. TypeOK
  BY MaxIssuedNat DEF Init, TypeOK, Places, Tokens
<1>2. QED
  BY <1>1 DEF Init, IInv, HoldsOne, PkceOfCode, NoneAhead, OnlyCopy, Fresh, FreshUnspent,
              StoredHasAccess

-----------------------------------------------------------------------------
(* The steps of a call. *)

LEMMA BeginInv ==
    ASSUME IInv, NEW c \in Calls, Begin(c)
    PROVE  IInv'
<1> DEFINE t == tokens[ApplyKey]
<1>1. ApplyKey \in SUBSET Urls /\ t \in Tokens \cup {None}
  BY DEF IInv, TypeOK, ApplyKey
<1>2. /\ call' \in [Calls -> [at : Places, token : Tokens \cup {None}]]
      /\ \A d \in Calls \ {c} : call'[d] = call[d]
      /\ \/ call'[c].at = "authorizing" /\ call'[c].token = None
         \/ call'[c].at \in {"done", "refreshing"} /\ call'[c].token = t /\ t # None
  BY <1>1, MovesOne DEF IInv, Begin, Places
<1>3. UNCHANGED <<grant, wanted, filled, usePkce, rotating, issued, live, tokens, window, spent>>
  BY DEF Begin, config, server
<1>4. TypeOK'
  BY <1>2, <1>3 DEF IInv, TypeOK
<1>5. HoldsOne'
  BY <1>1, <1>2 DEF IInv, HoldsOne
<1>6. PkceOfCode' /\ NoneAhead'
  BY <1>1, <1>2, <1>3 DEF IInv, PkceOfCode, NoneAhead
<1>7. OnlyCopy' /\ FreshUnspent'
  BY <1>1, <1>2, <1>3 DEF IInv, OnlyCopy, FreshUnspent, Fresh
<1>8. StoredHasAccess'
  BY <1>1, <1>2, <1>3 DEF IInv, StoredHasAccess
<1>9. QED
  BY <1>4, <1>5, <1>6, <1>7, <1>8 DEF IInv

\* What the outcomes of a refresh come to.
LEMMA RefreshedInv ==
    ASSUME IInv, NEW c \in Calls, Refreshed(c)
    PROVE  IInv'
<1> DEFINE r == call[c].token.refresh
<1>1. /\ issued \in Nat /\ issued \in 0..MaxIssued /\ r \in 0..MaxIssued
      /\ live \subseteq 1..issued /\ spent \subseteq 1..issued
  BY MaxIssuedNat DEF IInv, TypeOK, HoldsOne, Refreshed, Tokens
<1>2. UNCHANGED <<grant, wanted, filled, usePkce, rotating, tokens, window>>
  BY DEF Refreshed, config
<1>3. CASE /\ UNCHANGED <<issued, live, spent>>
           /\ \/ Moves(c, "deleting", None)
              \/ Moves(c, "failed", None)
  <2>1. tokens' \in [SUBSET Urls -> Tokens \cup {None}] /\ window' \in Calls \cup {None}
    BY <1>2 DEF IInv, TypeOK
  <2>2. CASE Moves(c, "deleting", None)
    BY <1>2, <1>3, <2>1, <2>2, LetsGo DEF Places
  <2>3. CASE Moves(c, "failed", None)
    BY <1>2, <1>3, <2>1, <2>3, LetsGo DEF Places
  <2>4. QED
    BY <1>3, <2>2, <2>3
<1>4. CASE /\ UNCHANGED <<issued, live, spent>> /\ r \in live /\ ~rotating
           /\ \E t \in Answers(r) : Moves(c, "restoring", t)
  <2>1. PICK t \in Answers(r) : Moves(c, "restoring", t)
    BY <1>4
  <2>2. t \in Tokens /\ t # None /\ t.refresh = r /\ r <= issued
    BY <1>1, <1>4, AnswersAreTokens
  <2>3. /\ call' \in [Calls -> [at : Places, token : Tokens \cup {None}]]
        /\ call'[c].at = "restoring" /\ call'[c].token = t
        /\ \A d \in Calls \ {c} : call'[d] = call[d]
    BY <2>1, <2>2, MovesOne DEF IInv, Places
  <2>4. TypeOK' /\ HoldsOne' /\ PkceOfCode' /\ StoredHasAccess'
    BY <1>2, <1>4, <2>2, <2>3 DEF IInv, TypeOK, HoldsOne, PkceOfCode, StoredHasAccess
  <2>5. NoneAhead'
    BY <1>2, <1>4, <2>2, <2>3 DEF IInv, NoneAhead
  <2>6. OnlyCopy' /\ FreshUnspent'
    BY <1>2, <1>4, <2>2, <2>3 DEF IInv, OnlyCopy, FreshUnspent, Fresh
  <2>7. QED
    BY <2>4, <2>5, <2>6 DEF IInv
<1>5. CASE /\ r \in live /\ rotating /\ issued < MaxIssued
           /\ issued' = issued + 1 /\ live' = (live \ {r}) \cup {issued + 1}
           /\ \E t \in Answers(issued + 1) : Moves(c, "restoring", t)
           /\ spent' = spent \cup {r}
  <2>1. PICK t \in Answers(issued + 1) : Moves(c, "restoring", t)
    BY <1>5
  <2>2. t \in Tokens /\ t # None /\ t.refresh = issued + 1
    BY <1>1, <1>5, MaxIssuedNat, AnswersAreTokens
  <2>3. call[c].token # None /\ ~Fresh(c)
    BY DEF IInv, HoldsOne, Refreshed, Fresh
  <2>4. QED
    BY <1>2, <1>5, <2>1, <2>2, <2>3, Issues
\* ... an answer that is lost takes the old refresh token with it
<1>6. CASE /\ rotating /\ issued < MaxIssued
           /\ issued' = issued + 1 /\ live' = (live \ {r}) \cup {issued + 1}
           /\ Moves(c, "failed", None) /\ UNCHANGED spent
  <2>1. /\ call' \in [Calls -> [at : Places, token : Tokens \cup {None}]]
        /\ call'[c].at = "failed" /\ call'[c].token = None
        /\ \A d \in Calls \ {c} : call'[d] = call[d]
    BY <1>6, MovesOne DEF IInv, Places
  <2>2. TypeOK'
    <3>1. ASSUME NEW n \in live' \cup spent' PROVE n \in 1..issued'
      <4>1. n \in 1..issued \/ n = issued + 1
        BY <1>1, <1>6
      <4>2. QED
        BY <1>1, <1>6, <4>1
    <3>2. issued' \in 0..MaxIssued
      BY <1>1, <1>6, MaxIssuedNat
    <3>3. QED
      BY <1>2, <1>6, <2>1, <3>1, <3>2 DEF IInv, TypeOK
  <2>3. NoneAhead'
    <3>1. \A key \in SUBSET Urls : tokens[key] # None =>
            tokens[key].refresh \in 0..MaxIssued /\ tokens[key].refresh <= issued
      BY DEF IInv, TypeOK, NoneAhead, Tokens
    <3>2. \A d \in Calls : call[d].token # None =>
            call[d].token.refresh \in 0..MaxIssued /\ call[d].token.refresh <= issued
      BY DEF IInv, TypeOK, NoneAhead, Tokens
    <3>3. QED
      BY <1>1, <1>2, <1>6, <2>1, <3>1, <3>2, MaxIssuedNat DEF NoneAhead
  <2>4. HoldsOne' /\ PkceOfCode' /\ StoredHasAccess'
    BY <1>2, <2>1 DEF IInv, HoldsOne, PkceOfCode, StoredHasAccess
  <2>5. OnlyCopy' /\ FreshUnspent'
    BY <1>2, <1>6, <2>1 DEF IInv, OnlyCopy, FreshUnspent, Fresh
  <2>6. QED
    BY <2>2, <2>3, <2>4, <2>5 DEF IInv
<1>7. Kept(0, r) = r /\ Kept(issued + 1, r) = issued + 1
  BY <1>1 DEF Kept
<1>8. QED
  BY <1>3, <1>4, <1>5, <1>6, <1>7 DEF Refreshed, server

LEMMA DeletedInv ==
    ASSUME IInv, NEW c \in Calls, Deleted(c)
    PROVE  IInv'
<1>1. /\ tokens' \in [SUBSET Urls -> Tokens \cup {None}]
      /\ \A key \in SUBSET Urls : tokens'[key] = None \/ tokens'[key] = tokens[key]
  BY DEF IInv, TypeOK, Deleted
<1>2. window' \in Calls \cup {None}
  BY DEF IInv, TypeOK, Deleted
<1>3. QED
  BY <1>1, <1>2, LetsGo DEF Deleted, config, server, Places

LEMMA OpenUrlInv ==
    ASSUME IInv, NEW c \in Calls, OpenUrl(c)
    PROVE  IInv'
<1>1. UNCHANGED <<grant, wanted, filled, usePkce, rotating, issued, live, tokens, spent>>
  BY DEF OpenUrl, config, server
<1>2. tokens' \in [SUBSET Urls -> Tokens \cup {None}] /\ window' \in Calls \cup {None}
  BY DEF IInv, TypeOK, OpenUrl
<1>3. \E place \in {"failed", "waiting", "orphan"} : Moves(c, place, None)
  BY DEF OpenUrl
<1>4. QED
  BY <1>1, <1>2, <1>3, LetsGo DEF Places

LEMMA FetchInv ==
    ASSUME IInv, NEW c \in Calls, Fetch(c)
    PROVE  IInv'
<1>1. tokens' \in [SUBSET Urls -> Tokens \cup {None}] /\ window' \in Calls \cup {None}
  BY DEF IInv, TypeOK, Fetch
<1>2. QED
  BY <1>1, LetsGo DEF Fetch, config, server, Places

LEMMA NavigateInv ==
    ASSUME IInv, NEW c \in Calls, Navigate(c)
    PROVE  IInv'
<1>1. /\ UNCHANGED <<grant, wanted, filled, usePkce, rotating, issued, live, spent>>
      /\ window' = None
  BY DEF Navigate, config, server
<1>2. CASE grant # "implicit"
  <2>1. tokens' \in [SUBSET Urls -> Tokens \cup {None}] /\ UNCHANGED tokens
    BY <1>2 DEF IInv, TypeOK, Navigate
  <2>2. Moves(c, "fetching", None)
    BY <1>2 DEF Navigate
  <2>3. QED
    BY <1>1, <2>1, <2>2, LetsGo DEF Places
<1>3. CASE grant = "implicit"
  <2>1. PICK t \in Answers(0) :
          IF "access_token" \notin t.has
          THEN call' = [call EXCEPT ![c].at = "failed"] /\ UNCHANGED tokens
          ELSE tokens' = [tokens EXCEPT ![ApplyKey] = t]
               /\ IF call[c].at = "waiting" THEN Moves(c, "done", t) ELSE UNCHANGED call
    BY <1>3 DEF Navigate
  <2>2. t \in Tokens /\ t # None /\ t.refresh = 0 /\ ApplyKey \in SUBSET Urls
    BY MaxIssuedNat, AnswersAreTokens DEF IInv, TypeOK, ApplyKey
  <2>3. CASE "access_token" \notin t.has
    <3>1. /\ call' \in [Calls -> [at : Places, token : Tokens \cup {None}]]
          /\ call'[c].at = "failed" /\ call'[c].token = call[c].token
          /\ \A d \in Calls \ {c} : call'[d] = call[d]
          /\ UNCHANGED tokens
      BY <2>1, <2>3 DEF IInv, TypeOK, Places
    <3>2. TypeOK' /\ HoldsOne' /\ PkceOfCode' /\ NoneAhead' /\ StoredHasAccess'
      BY <1>1, <3>1 DEF IInv, TypeOK, HoldsOne, PkceOfCode, NoneAhead, StoredHasAccess
    <3>3. OnlyCopy' /\ FreshUnspent'
      BY <1>1, <3>1 DEF IInv, OnlyCopy, FreshUnspent, Fresh
    <3>4. QED
      BY <3>2, <3>3 DEF IInv
  <2>4. CASE "access_token" \in t.has
    <3>1. /\ tokens' \in [SUBSET Urls -> Tokens \cup {None}]
          /\ \A key \in SUBSET Urls : tokens'[key] = t \/ tokens'[key] = tokens[key]
      BY <2>1, <2>2, <2>4 DEF IInv, TypeOK
    <3>2. /\ call' \in [Calls -> [at : Places, token : Tokens \cup {None}]]
          /\ \/ call'[c] = call[c]
             \/ call'[c].at = "done" /\ call'[c].token = t
          /\ \A d \in Calls \ {c} : call'[d] = call[d]
      <4>1. CASE call[c].at = "waiting"
        BY <2>1, <2>2, <2>4, <4>1, MovesOne DEF IInv, Places
      <4>2. CASE call[c].at # "waiting"
        <5>1. UNCHANGED call
          BY <2>1, <2>4, <4>2
        <5>2. QED
          BY <5>1 DEF IInv, TypeOK
      <4>3. QED
        BY <4>1, <4>2
    <3>3. TypeOK' /\ HoldsOne' /\ PkceOfCode' /\ StoredHasAccess'
      BY <1>1, <2>2, <2>4, <3>1, <3>2 DEF IInv, TypeOK, HoldsOne, PkceOfCode, StoredHasAccess
    <3>4. NoneAhead' /\ 0 <= issued
      BY <1>1, <2>2, <3>1, <3>2, MaxIssuedNat DEF IInv, TypeOK, NoneAhead
    <3>5. OnlyCopy' /\ FreshUnspent'
      BY <1>1, <2>2, <3>1, <3>2 DEF IInv, OnlyCopy, FreshUnspent, Fresh
    <3>6. QED
      BY <3>3, <3>4, <3>5 DEF IInv
  <2>5. QED
    BY <2>3, <2>4
<1>4. QED
  BY <1>2, <1>3

LEMMA NavigateErrorInv ==
    ASSUME IInv, NEW c \in Calls, NavigateError(c)
    PROVE  IInv'
<1>1. tokens' \in [SUBSET Urls -> Tokens \cup {None}] /\ window' \in Calls \cup {None}
  BY DEF IInv, TypeOK, NavigateError
<1>2. QED
  BY <1>1, LetsGo DEF NavigateError, config, server, Places

LEMMA CloseInv ==
    ASSUME IInv, NEW c \in Calls, Close(c)
    PROVE  IInv'
<1>1. /\ UNCHANGED <<grant, wanted, filled, usePkce, rotating, issued, live, tokens, spent>>
      /\ window' = None
  BY DEF Close, config, server
<1>2. /\ call' \in [Calls -> [at : Places, token : Tokens \cup {None}]]
      /\ call'[c].token = call[c].token
      /\ call'[c].at = call[c].at \/ call'[c].at = "failed"
      /\ \A d \in Calls \ {c} : call'[d] = call[d]
  BY DEF IInv, TypeOK, Close, Places
<1>3. TypeOK' /\ HoldsOne' /\ PkceOfCode' /\ NoneAhead' /\ StoredHasAccess'
  BY <1>1, <1>2 DEF IInv, TypeOK, HoldsOne, PkceOfCode, NoneAhead, StoredHasAccess
<1>4. OnlyCopy' /\ FreshUnspent'
  BY <1>1, <1>2 DEF IInv, OnlyCopy, FreshUnspent, Fresh
<1>5. QED
  BY <1>3, <1>4 DEF IInv

LEMMA FetchedInv ==
    ASSUME IInv, NEW c \in Calls, Fetched(c)
    PROVE  IInv'
<1>1. UNCHANGED <<grant, wanted, filled, usePkce, rotating, tokens, window, spent>>
  BY DEF Fetched, config
<1>2. /\ issued \in Nat /\ issued \in 0..MaxIssued
      /\ live \subseteq 1..issued /\ spent \subseteq 1..issued
  BY MaxIssuedNat DEF IInv, TypeOK
<1>3. CASE Moves(c, "failed", None) /\ UNCHANGED <<issued, live>>
  <2>1. tokens' \in [SUBSET Urls -> Tokens \cup {None}] /\ window' \in Calls \cup {None}
    BY <1>1 DEF IInv, TypeOK
  <2>2. QED
    BY <1>1, <1>3, <2>1, LetsGo DEF Places
<1>4. CASE (\E t \in Answers(0) : Moves(c, "storing", t)) /\ UNCHANGED <<issued, live>>
  <2>1. PICK t \in Answers(0) : Moves(c, "storing", t)
    BY <1>4
  <2>2. t \in Tokens /\ t # None /\ t.refresh = 0
    BY MaxIssuedNat, AnswersAreTokens
  <2>3. /\ call' \in [Calls -> [at : Places, token : Tokens \cup {None}]]
        /\ call'[c].at = "storing" /\ call'[c].token = t
        /\ \A d \in Calls \ {c} : call'[d] = call[d]
    BY <2>1, <2>2, MovesOne DEF IInv, Places
  <2>4. TypeOK' /\ HoldsOne' /\ PkceOfCode' /\ StoredHasAccess'
    BY <1>1, <1>4, <2>2, <2>3 DEF IInv, TypeOK, HoldsOne, PkceOfCode, StoredHasAccess
  <2>5. NoneAhead'
    BY <1>1, <1>2, <1>4, <2>2, <2>3 DEF IInv, NoneAhead
  <2>6. OnlyCopy' /\ FreshUnspent'
    BY <1>1, <1>2, <1>4, <2>2, <2>3 DEF IInv, OnlyCopy, FreshUnspent, Fresh
  <2>7. QED
    BY <2>4, <2>5, <2>6 DEF IInv
<1>5. CASE /\ issued < MaxIssued /\ issued' = issued + 1 /\ live' = live \cup {issued + 1}
           /\ \E t \in Answers(issued + 1) : Moves(c, "storing", t)
  <2>1. PICK t \in Answers(issued + 1) : Moves(c, "storing", t)
    BY <1>5
  <2>2. /\ issued + 1 \in 0..MaxIssued /\ issued + 1 \in Nat
        /\ t \in Tokens /\ t # None /\ t.refresh = issued + 1
    BY <1>2, <1>5, MaxIssuedNat, AnswersAreTokens
  <2>3. QED
    BY <1>1, <1>5, <2>1, <2>2, Issues
<1>6. QED
  BY <1>3, <1>4, <1>5 DEF Fetched, server

LEMMA StoredInv ==
    ASSUME IInv, NEW c \in Calls, Stored(c)
    PROVE  IInv'
<1> DEFINE t == call[c].token
<1>1. /\ UNCHANGED <<grant, wanted, filled, usePkce, rotating, issued, live, window, spent>>
      /\ Fresh(c) /\ t \in Tokens /\ t # None /\ ApplyKey \in SUBSET Urls
  BY DEF Stored, config, server, Fresh, IInv, TypeOK, HoldsOne, ApplyKey
<1>2. CASE ~Complete(t, call[c].at)
  <2>1. tokens' \in [SUBSET Urls -> Tokens \cup {None}] /\ UNCHANGED tokens
        /\ window' \in Calls \cup {None} /\ Moves(c, "failed", None)
    BY <1>1, <1>2 DEF IInv, TypeOK, Stored
  <2>2. QED
    BY <1>1, <2>1, LetsGo DEF Places
<1>3. CASE Complete(t, call[c].at)
  <2>1. tokens' = [tokens EXCEPT ![ApplyKey] = t] /\ Moves(c, "done", t)
    BY <1>3 DEF Stored
  <2>2. /\ tokens' \in [SUBSET Urls -> Tokens \cup {None}]
        /\ \A key \in SUBSET Urls : tokens'[key] = t \/ tokens'[key] = tokens[key]
    BY <1>1, <2>1 DEF IInv, TypeOK
  <2>3. /\ call' \in [Calls -> [at : Places, token : Tokens \cup {None}]]
        /\ call'[c].at = "done" /\ call'[c].token = t
        /\ \A d \in Calls \ {c} : call'[d] = call[d]
    BY <1>1, <2>1, MovesOne DEF IInv, Places
  <2>4. wanted = "access_token" => "access_token" \in t.has
    BY <1>3 DEF Complete, Demanded
  <2>5. TypeOK'
    BY <1>1, <2>2, <2>3 DEF IInv, TypeOK
  <2>6. HoldsOne' /\ PkceOfCode'
    BY <1>1, <2>2, <2>3 DEF IInv, HoldsOne, PkceOfCode
  <2>7. NoneAhead'
    BY <1>1, <2>2, <2>3 DEF IInv, NoneAhead
  <2>8. StoredHasAccess'
    BY <1>1, <2>2, <2>3, <2>4 DEF IInv, StoredHasAccess
  <2>9. OnlyCopy'
    <3>1. ASSUME rotating, NEW d \in Calls, Fresh(d)', call'[d].token.refresh # 0
          PROVE  /\ \A key \in SUBSET Urls :
                      tokens'[key] # None => tokens'[key].refresh # call'[d].token.refresh
                 /\ \A e \in Calls \ {d} :
                      call'[e].token # None => call'[e].token.refresh # call'[d].token.refresh
      <4>1. d # c /\ Fresh(d) /\ call'[d] = call[d] /\ call[d].token.refresh # 0
        BY <2>3, <3>1 DEF Fresh
      <4>2. t.refresh # call[d].token.refresh
        BY <1>1, <3>1, <4>1 DEF IInv, OnlyCopy
      <4>3. QED
        BY <2>2, <2>3, <3>1, <4>1, <4>2 DEF IInv, OnlyCopy
    <3>2. QED
      BY <1>1, <3>1 DEF OnlyCopy
  <2>10. FreshUnspent'
    BY <1>1, <2>3 DEF IInv, FreshUnspent, Fresh
  <2>11. QED
    BY <2>5, <2>6, <2>7, <2>8, <2>9, <2>10 DEF IInv
<1>4. QED
  BY <1>2, <1>3

-----------------------------------------------------------------------------
(* The user and time. *)

LEMMA DeleteTokenInv == ASSUME IInv, DeleteToken PROVE IInv'
<1>1. /\ tokens' \in [SUBSET Urls -> Tokens \cup {None}]
      /\ \A key \in SUBSET Urls : tokens'[key] = None \/ tokens'[key] = tokens[key]
  BY DEF IInv, TypeOK, DeleteToken
<1>2. UNCHANGED <<grant, wanted, filled, usePkce, rotating, issued, live, call, window, spent>>
  BY DEF DeleteToken, config, server
<1>3. TypeOK' /\ HoldsOne' /\ PkceOfCode' /\ NoneAhead' /\ StoredHasAccess'
  BY <1>1, <1>2 DEF IInv, TypeOK, HoldsOne, PkceOfCode, NoneAhead, StoredHasAccess
<1>4. OnlyCopy' /\ FreshUnspent'
  BY <1>1, <1>2 DEF IInv, OnlyCopy, FreshUnspent, Fresh
<1>5. QED
  BY <1>3, <1>4 DEF IInv

LEMMA ExpireInv == ASSUME IInv, NEW key \in SUBSET Urls, Expire(key) PROVE IInv'
<1>1. UNCHANGED <<grant, wanted, filled, usePkce, rotating, issued, live, call, window, spent>>
  BY DEF Expire, config, server
<1>2. tokens[key] \in Tokens /\ tokens[key] # None
      /\ tokens \in [SUBSET Urls -> Tokens \cup {None}]
  BY DEF IInv, TypeOK, Expire
<1>3. PICK t \in Tokens : /\ t.has = tokens[key].has /\ t.refresh = tokens[key].refresh
                          /\ tokens' = [tokens EXCEPT ![key] = t]
  BY <1>2 DEF Expire, Tokens
<1>4. /\ tokens' \in [SUBSET Urls -> Tokens \cup {None}]
      /\ \A k \in (SUBSET Urls) \ {key} : tokens'[k] = tokens[k]
      /\ tokens'[key] = t /\ tokens[key] # None
  BY <1>2, <1>3
<1>5. TypeOK' /\ HoldsOne' /\ PkceOfCode'
  BY <1>1, <1>4 DEF IInv, TypeOK, HoldsOne, PkceOfCode
<1>6. NoneAhead' /\ StoredHasAccess'
  BY <1>1, <1>3, <1>4 DEF IInv, NoneAhead, StoredHasAccess
<1>7. OnlyCopy' /\ FreshUnspent'
  BY <1>1, <1>3, <1>4 DEF IInv, OnlyCopy, FreshUnspent, Fresh
<1>8. QED
  BY <1>5, <1>6, <1>7 DEF IInv

-----------------------------------------------------------------------------
(* The theorems. *)

LEMMA NextInv == IInv /\ [Next]_vars => IInv'
<1> SUFFICES ASSUME IInv, [Next]_vars PROVE IInv'
  OBVIOUS
<1>1. CASE \E c \in Calls : Begin(c) \/ Proceeds(c) \/ Navigate(c) \/ NavigateError(c) \/ Close(c)
  BY <1>1, BeginInv, RefreshedInv, DeletedInv, OpenUrlInv, FetchInv, FetchedInv, StoredInv,
     NavigateInv, NavigateErrorInv, CloseInv DEF Proceeds
<1>2. CASE DeleteToken
  BY <1>2, DeleteTokenInv
<1>3. CASE \E key \in SUBSET Urls : Expire(key)
  BY <1>3, ExpireInv
<1>4. CASE UNCHANGED vars
  <2>1. UNCHANGED <<grant, wanted, filled, usePkce, rotating, issued, live, tokens, call,
                    window, spent>>
    BY <1>4 DEF vars, config, server
  <2>2. TypeOK' /\ HoldsOne' /\ PkceOfCode' /\ NoneAhead' /\ StoredHasAccess'
    BY <2>1 DEF IInv, TypeOK, HoldsOne, PkceOfCode, NoneAhead, StoredHasAccess
  <2>3. OnlyCopy' /\ FreshUnspent'
    BY <2>1 DEF IInv, OnlyCopy, FreshUnspent, Fresh
  <2>4. QED
    BY <2>2, <2>3 DEF IInv
<1>5. QED
  BY <1>1, <1>2, <1>3, <1>4 DEF Next

\* The inductive invariant holds in every reachable state.
THEOREM Invariance == Spec => []IInv
<1>1. QED
  BY InitInv, NextInv, PTL DEF Spec

\* Type correctness of the plugin's state.
THEOREM TypeCorrect == Spec => []TypeOK
<1>1. IInv => TypeOK
  BY DEF IInv
<1>2. QED
  BY <1>1, Invariance, PTL

\* onApply never sends "Bearer undefined" when access_token is the token to
\* send: whatever is stored or returned has one.
THEOREM HeadersHaveTokens == Spec => []HeaderHasToken
<1>1. IInv => HeaderHasToken
  BY DEF IInv, StoredHasAccess, HeaderHasToken
<1>2. QED
  BY <1>1, Invariance, PTL

\* The values onApply reads are on the form of the grant, but for two.
THEOREM ReadsTheForm == Spec => []ReadsWhatItShows
<1>1. IInv => ReadsWhatItShows
  <2> SUFFICES ASSUME IInv PROVE Read(grant, usePkce) \ Shown(grant, usePkce)
                                   \subseteq {"tokenName", "pkceCodeVerifier"}
    BY DEF ReadsWhatItShows
  <2>1. grant \in Grants /\ usePkce \in BOOLEAN
    BY DEF IInv, TypeOK
  <2>2. CASE grant = "authorization_code"
    BY <2>1, <2>2 DEF Read, Shown, OnlyFor, Grants
  <2>3. CASE grant = "implicit"
    BY <2>1, <2>3 DEF Read, Shown, OnlyFor, Grants
  <2>4. CASE grant = "password"
    BY <2>1, <2>4 DEF Read, Shown, OnlyFor, Grants
  <2>5. CASE grant = "client_credentials"
    BY <2>1, <2>5 DEF Read, Shown, OnlyFor, Grants
  <2>6. QED
    BY <2>1, <2>2, <2>3, <2>4, <2>5 DEF Grants
<1>2. QED
  BY <1>1, Invariance, PTL

\* A token is never stored with a refresh token that was replaced.
THEOREM OldTokensStayOut == Spec => NeverStoresSpent
<1> DEFINE Stores == \A key \in SUBSET Urls :
                       tokens'[key] \notin {None, tokens[key]} /\ ~tokens'[key].expired =>
                           tokens'[key].refresh \notin spent
<1>1. IInv /\ [Next]_vars => [Stores]_vars
  <2> SUFFICES ASSUME IInv, Next PROVE Stores
    OBVIOUS
  <2>1. ASSUME NEW c \in Calls, Stored(c) PROVE Stores
    <3>1. Fresh(c) /\ call[c].token.refresh \notin spent
      BY <2>1 DEF Stored, Fresh, IInv, FreshUnspent
    <3>2. \A key \in SUBSET Urls : tokens'[key] = call[c].token \/ tokens'[key] = tokens[key]
      BY <2>1 DEF Stored, IInv, TypeOK
    <3>3. QED
      BY <3>1, <3>2
  <2>2. ASSUME NEW c \in Calls, Navigate(c) PROVE Stores
    <3>1. \/ UNCHANGED tokens
          \/ \E t \in Answers(0) : tokens' = [tokens EXCEPT ![ApplyKey] = t]
      BY <2>2 DEF Navigate
    <3>2. \A t \in Answers(0) : t.refresh = 0
      BY DEF Answers
    <3>3. 0 \notin spent
      BY MaxIssuedNat DEF IInv, TypeOK
    <3>4. QED
      BY <3>1, <3>2, <3>3 DEF IInv, TypeOK
  <2>3. ASSUME NEW c \in Calls, Deleted(c) PROVE Stores
    BY <2>3 DEF Deleted, IInv, TypeOK
  <2>4. ASSUME DeleteToken PROVE Stores
    BY <2>4 DEF DeleteToken, IInv, TypeOK
  <2>5. ASSUME NEW key \in SUBSET Urls, Expire(key) PROVE Stores
    <3>1. tokens[key] \in Tokens /\ tokens \in [SUBSET Urls -> Tokens \cup {None}]
          /\ tokens' = [tokens EXCEPT ![key].expired = TRUE]
      BY <2>5 DEF IInv, TypeOK, Expire
    <3>2. tokens'[key] = [tokens[key] EXCEPT !.expired = TRUE]
          /\ \A k \in (SUBSET Urls) \ {key} : tokens'[k] = tokens[k]
      BY <3>1
    <3>3. tokens'[key].expired = TRUE
      BY <3>1, <3>2 DEF Tokens
    <3>4. QED
      BY <3>2, <3>3
  <2>6. ASSUME NEW c \in Calls,
               Begin(c) \/ Refreshed(c) \/ OpenUrl(c) \/ Fetch(c) \/ Fetched(c)
                 \/ NavigateError(c) \/ Close(c)
        PROVE  Stores
    <3>1. UNCHANGED tokens
      BY <2>6 DEF Begin, Refreshed, OpenUrl, Fetch, Fetched, NavigateError, Close
    <3>2. QED
      BY <3>1
  <2>7. QED
    BY <2>1, <2>2, <2>3, <2>4, <2>5, <2>6 DEF Next, Proceeds
<1>2. QED
  BY <1>1, Invariance, PTL DEF Spec, NeverStoresSpent

=============================================================================
