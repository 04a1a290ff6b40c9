------------------------------ MODULE Settings ------------------------------
(***************************************************************************)
(* The settings: their form, and the proxy that a request is sent with.    *)
(*                                                                         *)
(* Every field writes the whole row, as it is in the window with the field *)
(* changed; the news of it comes back later, and so does that of another   *)
(* window.  A text field is filled when it comes to be shown, and then     *)
(* keeps what is typed.  The proxy for https is as that for http, the      *)
(* password as the user, and one checkbox stands for the fields of the     *)
(* other tabs.                                                             *)
(***************************************************************************)
EXTENDS Integers, Sequences

CONSTANTS Texts,    \* what is typed
          MaxNews   \* bound: writes whose news is on its way

Fields == {"http", "user", "bypass"}
AllTexts == Texts \cup {""}
NoAuth == "no authentication"
Untouched == "untouched"

VARIABLES
    row,     \* the settings in the database: [type, disabled, http, user, bypass, wrap]
    shown,   \* and in the window
    news,    \* rows that were written, on their way
    typed,   \* what is typed in each field since it is shown
    apart    \* fields whose text was typed, or chosen away, with news under way

vars == <<row, shown, news, typed, apart>>

Off(type, wrap) ==
    [type |-> type, disabled |-> FALSE, http |-> "", user |-> NoAuth, bypass |-> "", wrap |-> wrap]
Rows == [type : {"automatic", "enabled", "disabled"}, disabled : BOOLEAN, http : AllTexts,
         user : AllTexts \cup {NoAuth}, bypass : AllTexts, wrap : BOOLEAN]

TypeOK ==
    /\ row \in Rows /\ shown \in Rows /\ Len(news) <= MaxNews
    /\ \A i \in DOMAIN news : news[i] \in Rows
    /\ typed \in [Fields -> AllTexts \cup {Untouched}] /\ apart \subseteq Fields

Init ==
    /\ row = Off("automatic", FALSE) /\ shown = row /\ news = <<>>
    /\ typed = [f \in Fields |-> Untouched] /\ apart = {}

-----------------------------------------------------------------------------
\* The fields that are there.
Visible(s) ==
    IF s.type # "enabled" THEN {}
    ELSE {"http", "bypass"} \cup (IF s.user # NoAuth THEN {"user"} ELSE {})

\* What a field shows.
FieldText(f) == IF typed[f] = Untouched THEN shown[f] ELSE typed[f]

\* Mutant: as it was when the form was opened
Stale(s) == Off(s.type, s.wrap)
\* What the fields are changed in: the settings of the window.
Current(s) == s

Written(s, own) ==
    /\ Len(news) < MaxNews
    /\ row' = s /\ news' = Append(news, s)
    /\ apart' = (apart \ own) \cup IF news = <<>> THEN {} ELSE Visible(shown)
    /\ UNCHANGED shown

\* The row when a kind is chosen: what was configured is not kept.
Chosen(type) ==
    IF type = "enabled" THEN [Off(type, shown.wrap) EXCEPT !.user = ""]
    ELSE Off(type, shown.wrap)

\* The list of kinds, where the present one can be chosen again (not in that of macOS):
\* that empties the row, but not the fields.
SelectType(type) ==
    /\ Len(news) < MaxNews
    /\ row' = Chosen(type) /\ news' = Append(news, row')
    /\ apart' = Visible(shown)
    /\ UNCHANGED <<shown, typed>>

\* the two checkboxes
EnableProxy ==
    /\ shown.type = "enabled"
    /\ Written([Current(shown) EXCEPT !.disabled = ~@], {})
    /\ UNCHANGED typed

EnableAuth ==
    /\ shown.type = "enabled"
    /\ Written([Current(shown) EXCEPT !.user = IF @ = NoAuth THEN "" ELSE NoAuth], {})
    /\ UNCHANGED typed

\* Text in a field; that of the bypass switches authentication on.
Type(f, text) ==
    /\ f \in Visible(shown) /\ text # FieldText(f)
    /\ LET s == [Current(shown) EXCEPT ![f] = text] IN
       Written(IF f = "bypass" /\ s.user = NoAuth THEN [s EXCEPT !.user = ""] ELSE s, {f})
    /\ typed' = [typed EXCEPT ![f] = text]

\* a checkbox of the other tabs
ToggleWrap ==
    /\ Written([Current(shown) EXCEPT !.wrap = ~@], {})
    /\ UNCHANGED typed

\* Another window toggles it.
OthersToggle ==
    /\ Len(news) < MaxNews
    /\ row' = [row EXCEPT !.wrap = ~@] /\ news' = Append(news, row')
    /\ UNCHANGED <<shown, typed, apart>>

\* The news of a write; a field that is not shown any more forgets its text.
News ==
    /\ news # <<>>
    /\ shown' = Head(news) /\ news' = Tail(news)
    /\ typed' = [f \in Fields |-> IF f \in Visible(shown') THEN typed[f] ELSE Untouched]
    /\ apart' = apart \cap Visible(shown')
    /\ UNCHANGED row

Next ==
    \/ \E type \in {"automatic", "enabled", "disabled"} : SelectType(type)
    \/ EnableProxy \/ EnableAuth \/ ToggleWrap \/ OthersToggle \/ News
    \/ \E f \in Fields, text \in Texts : Type(f, text)

Spec == Init /\ [][Next]_vars

-----------------------------------------------------------------------------
(* The sender. *)

\* The proxy of a request; a custom one that is switched off is the system's.
ProxyOf(s) ==
    IF s.type = "disabled" THEN [kind |-> "none"]
    ELSE IF s.type = "enabled" /\ ~s.disabled /\ s.http # ""
         THEN [kind |-> "custom", url |-> s.http, user |-> s.user, bypass |-> s.bypass]
    ELSE [kind |-> "system"]

\* The form, as a row.
Form ==
    [f \in DOMAIN shown |-> IF f \in Visible(shown) THEN FieldText(f) ELSE shown[f]]

-----------------------------------------------------------------------------
(* Properties. *)

\* A request goes through the proxy that the form says, unless a field was changed while
\* an earlier change was on its way (SettingsProxy.tsx).
SentAsShown == news = <<>> /\ apart = {} => ProxyOf(row) = ProxyOf(Form)

\* A checkbox loses nothing: switching the proxy off and on, authentication, or a field of
\* another tab leaves the texts that the form has ("without losing the configuration").
KeepsConfiguration ==
    news = <<>> /\ apart = {} /\ typed' = typed /\ row' # row /\ row'.type = row.type
    /\ apart' = {} => row'.http = Form.http /\ row'.bypass = Form.bypass
=============================================================================
