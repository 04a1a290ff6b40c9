---------------------------- MODULE SecretInput ----------------------------
(***************************************************************************)
(* A password field (EncryptionInput in components/core/Input.tsx).  What  *)
(* is stored is plain text or one secure(...) tag.  The field decrypts the *)
(* tag when it is shown and encrypts what is typed, each with a command    *)
(* that answers later, and can change between the two kinds.               *)
(***************************************************************************)
EXTENDS Integers, Sequences, FiniteSets

CONSTANTS
    Values,         \* what can be typed; "" is one of them
    MaxWrites,      \* of others: a bound
    MaxAnswers      \* commands of one kind under way: a bound

Null == "null"
Plain(v) == [secret |-> FALSE, text |-> v]
Secret(v) == [secret |-> TRUE, text |-> v]
Templates == {Plain(v) : v \in Values} \cup {Secret(v) : v \in Values \ {""}}

VARIABLES
    template,       \* what is stored: defaultValue
    enabled,        \* isEncryptionEnabled
    field,          \* state: [type, value, obscured, error]
    shown,          \* the text of the editor; it is taken anew when its key changes
    opening,        \* templateToInsecure under way: what it opens
    securing,       \* templateToSecure under way: what it closes
    converting,     \* handleFieldTypeChange: at most one [value, type, ready]
    writes,         \* by others
    crossed         \* a command was sent while another was under way, or what it
                    \* had been given was no longer so when it answered

vars == <<template, enabled, field, shown, opening, securing, converting, writes, crossed>>

Quiet == opening = <<>> /\ securing = <<>> /\ converting = <<>>

-----------------------------------------------------------------------------

Unset == [type |-> "encrypted", value |-> Null, obscured |-> TRUE, error |-> FALSE]

\* convertTemplateToSecure
Secured(v) == IF v = "" THEN Plain("") ELSE Secret(v)

\* setState: forceUpdateKey has the kind of the field and whether its value is there
SetField(f) ==
    /\ field' = f
    /\ shown' = IF f.type # field.type \/ (f.value = Null) # (field.value = Null)
                THEN IF f.value = Null THEN "" ELSE f.value
                ELSE shown

\* the effect that fills a field without value
Filled(t, on) ==
    [type |-> IF on /\ t = Plain("") THEN "encrypted" ELSE "text",
     value |-> t.text, obscured |-> ~on \/ t = Plain(""), error |-> FALSE]

\* useStateWithDeps, and then the effect: a new field for what is stored now
Refill(t, on) ==
    IF t.secret
    THEN field' = Unset /\ shown' = "" /\ opening' = Append(opening, t)
    ELSE field' = Filled(t, on) /\ shown' = t.text /\ UNCHANGED opening

Init ==
    /\ template \in Templates /\ enabled \in BOOLEAN
    /\ template.secret => enabled
    /\ field = IF template.secret THEN Unset ELSE Filled(template, enabled)
    /\ shown = IF template.secret THEN "" ELSE template.text
    /\ opening = (IF template.secret THEN <<template>> ELSE <<>>)
    /\ securing = <<>> /\ converting = <<>> /\ writes = 0 /\ crossed = FALSE

-----------------------------------------------------------------------------

Without(s, k) == SubSeq(s, 1, k - 1) \o SubSeq(s, k + 1, Len(s))

\* onSuccess, onError: whatever the field has become meanwhile
Opens(k, fails) ==
    /\ opening' = Without(opening, k)
    /\ SetField([type |-> "encrypted", value |-> IF fails THEN Null ELSE opening[k].text,
                 obscured |-> TRUE, error |-> fails])
    /\ UNCHANGED <<template, enabled, securing, converting, writes, crossed>>

\* Mutant: what is typed is stored as it is.
StoredPlain(v, type) == FALSE

\* is it encrypted before it is stored?
ClosesFirst(v, type) == type = "encrypted"

\* handleChange
HandleChange(v, type) ==
    /\ IF ClosesFirst(v, type)
       THEN securing' = Append(securing, v) /\ UNCHANGED template
       ELSE template' = Plain(v) /\ UNCHANGED securing
    /\ field' = [field EXCEPT !.type = type, !.value = v,
                              !.obscured = IF type = field.type THEN @ ELSE type # "text"]

\* handleInputChange: in an editor, which an error has instead of
Type(v) ==
    /\ ~field.error /\ v # shown /\ Len(securing) < MaxAnswers
    /\ shown' = v                    \* and again when the key changes
    /\ HandleChange(v, field.type)
    /\ crossed' = (crossed \/ ~Quiet)
    /\ UNCHANGED <<enabled, opening, converting, writes>>

\* templateToSecure's answer; an error is shown and nothing is stored.  A field
\* without value takes what is stored now.
Closes(k, fails) ==
    /\ securing' = Without(securing, k)
    /\ template' = IF fails THEN template ELSE Secured(securing[k])
    /\ IF field.value = Null /\ template' # template
       THEN IF template'.secret
            THEN opening' = Append(opening, template') /\ UNCHANGED <<field, shown>>
            ELSE SetField(Filled(template', enabled)) /\ UNCHANGED opening
       ELSE UNCHANGED <<field, shown, opening>>
    /\ crossed' = (crossed \/ fails)
    /\ UNCHANGED <<enabled, converting, writes>>

\* handleFieldTypeChange; without a key the dialog for one comes first
ChangeType(type) ==
    /\ ~field.error /\ field.value # Null /\ field.type # type /\ converting = <<>>
    /\ converting' = <<[value |-> field.value, type |-> type]>>
    /\ crossed' = (crossed \/ ~Quiet)
    /\ UNCHANGED <<template, enabled, field, shown, opening, securing, writes>>

\* A field that has its value stays as it is.
Enable ==
    /\ ~enabled /\ enabled' = TRUE
    /\ UNCHANGED <<template, field, shown, opening, securing, converting, writes, crossed>>

\* the dialog is closed, or the command fails
Forget ==
    /\ converting # <<>> /\ converting' = <<>>
    /\ UNCHANGED <<template, enabled, field, shown, opening, securing, writes, crossed>>

\* convertTemplateToInsecure of what is plain already
Converts ==
    /\ enabled /\ converting # <<>> /\ converting' = <<>>
    /\ Len(securing) < MaxAnswers
    /\ HandleChange(converting[1].value, converting[1].type)
    /\ shown' = IF converting[1].type # field.type THEN converting[1].value ELSE shown
    /\ UNCHANGED <<enabled, opening, writes, crossed>>

\* another window or a sync: forceUpdateKey changes
WrittenElsewhere(t) ==
    /\ writes < MaxWrites /\ writes' = writes + 1
    /\ t # template /\ t.secret => enabled
    /\ template' = t /\ Refill(t, enabled)
    /\ crossed' = (crossed \/ ~Quiet)
    /\ UNCHANGED <<enabled, securing, converting>>

ToggleObscured ==
    /\ field.value # Null /\ ~(enabled /\ field.type = "text")
    /\ field' = [field EXCEPT !.obscured = ~@]
    /\ UNCHANGED <<template, enabled, shown, opening, securing, converting, writes, crossed>>

Next ==
    \/ \E k \in DOMAIN opening, fails \in BOOLEAN : Opens(k, fails)
    \/ \E k \in DOMAIN securing, fails \in BOOLEAN : Closes(k, fails)
    \/ \E v \in Values : Type(v)
    \/ \E type \in {"text", "encrypted"} : ChangeType(type)
    \/ \E t \in Templates : WrittenElsewhere(t)
    \/ Enable \/ Forget \/ Converts \/ ToggleObscured

Spec == Init /\ [][Next]_vars

-----------------------------------------------------------------------------
(* Properties. *)

TypeOK ==
    /\ template \in Templates /\ enabled \in BOOLEAN /\ shown \in Values
    /\ field.type \in {"text", "encrypted"} /\ field.value \in Values \cup {Null}
    /\ \A k \in DOMAIN opening : opening[k] \in Templates
    /\ \A k \in DOMAIN securing : securing[k] \in Values

\* When nothing is under way, the field shows what is stored, in the clear; unless
\* it was changed while a command was under way, or a command failed.
FieldShowsStored == Quiet /\ ~crossed /\ ~field.error => shown = template.text

\* What is in a field that is marked encrypted is stored encrypted.
MarkedMeansClosed ==
    Quiet /\ ~crossed /\ ~field.error /\ field.type = "encrypted" /\ template # Plain("")
        => template.secret

\* What is typed into a field that encrypts is never written in the clear.
NeverWrittenPlain ==
    field.type = "encrypted" /\ field'.type = "encrypted" /\ template' # template /\ writes' = writes
        => template'.secret \/ template' = Plain("")

=============================================================================
