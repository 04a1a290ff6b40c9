------------------------------- MODULE Dialogs -------------------------------
(***************************************************************************)
(* The dialogs of a window, and who waits for their answers: a prompt for  *)
(* a text, with or without the need of one, a question that is confirmed   *)
(* with a button or only after a name was typed, and a dialog that nobody  *)
(* waits for.  The last dialog has the focus and covers the others.  One   *)
(* that is shown while another of its id is there takes its place, and the *)
(* text that was typed stays in the field.                                 *)
(***************************************************************************)
EXTENDS Integers, Sequences, SequencesExt

CONSTANT MaxCalls   \* bound: dialogs asked for

Prompts == {"text", "required"}
Questions == {"sure", "typing"}
Plain == {"plain"}
Ids == Prompts \cup Questions \cup Plain  \* what is asked says which dialog it is

Name == "name"         \* what is to be typed
Texts == {"", Name}

VARIABLES
    dialogs,  \* [id, call, text], in the order they were shown
    answers,  \* for each call: [id, answer], answer Waiting until it is answered
    replaced  \* the calls whose dialog another took the place of

vars == <<dialogs, answers, replaced>>

Waiting == "waiting"
Null == "null"
Dismissed == "dismissed"

TypeOK ==
    /\ \A i \in DOMAIN dialogs :
          /\ dialogs[i].id \in Ids /\ dialogs[i].text \in Texts
          /\ dialogs[i].call \in DOMAIN answers
    /\ \A c \in DOMAIN answers :
          answers[c] \in [id : Ids, answer : {Waiting, Null, Dismissed, "yes", "no"} \cup Texts]
    /\ replaced \subseteq DOMAIN answers

Init == dialogs = <<>> /\ answers = <<>> /\ replaced = {}

-----------------------------------------------------------------------------
Others(id) == SelectSeq(dialogs, LAMBDA d : d.id # id)
Same(id) == {dialogs[i] : i \in {j \in DOMAIN dialogs : dialogs[j].id = id}}

hideDialog(id) == dialogs' = Others(id)

\* Somebody asks; the code around the dialogs covered by one goes on, and may ask too.
showDialog(id) ==
    /\ Len(answers) < MaxCalls
    /\ answers' = Append(answers, [id |-> id, answer |-> Waiting])
    /\ dialogs' = Append(Others(id),
          [id |-> id, call |-> Len(answers) + 1,
           text |-> IF Same(id) = {} THEN "" ELSE (CHOOSE d \in Same(id) : TRUE).text])
    /\ replaced' = replaced \cup {d.call : d \in Same(id)}

\* The dialog with the focus.
Top == dialogs[Len(dialogs)]

Type(text) ==
    /\ dialogs # <<>> /\ Top.id \in Prompts \cup {"typing"} /\ Top.text # text
    /\ dialogs' = [dialogs EXCEPT ![Len(dialogs)].text = text]
    /\ UNCHANGED <<answers, replaced>>

\* The answer of the top dialog, which goes.
Resolve(answer) ==
    /\ answers' = [answers EXCEPT ![Top.call].answer = answer]
    /\ hideDialog(Top.id)
    /\ UNCHANGED replaced

\* A question is confirmed by its button, or by the name.
didConfirm(d) == d.id = "typing" => d.text = Name

Submit ==
    /\ dialogs # <<>>
    /\ CASE Top.id \in Prompts ->
              (Top.id = "required" => Top.text # "") /\ Resolve(Top.text)
         [] Top.id \in Questions -> didConfirm(Top) /\ Resolve("yes")
         [] OTHER -> Resolve(Null)

Cancel ==
    /\ dialogs # <<>>
    /\ Resolve(IF Top.id \in Questions THEN "no" ELSE Null)

\* Mutant: the asker is not told
NotTold(d) == Dismissed
\* What the asker hears when a dialog is closed: a prompt has onClose, a question none.
onClose(d) == IF d.id \in Questions THEN Dismissed ELSE Null

\* Escape closes any dialog.
Escape == dialogs # <<>> /\ Resolve(onClose(Top))

\* A click beside the dialog, or on its cross, only one that asks nothing.
Backdrop == dialogs # <<>> /\ Top.id \in Plain /\ Resolve(onClose(Top))

\* The key that shows a plain dialog hides it when it is there.
toggleDialog ==
    \E id \in Plain :
        IF Same(id) = {} THEN showDialog(id)
        ELSE hideDialog(id) /\ UNCHANGED replaced
             /\ answers' = [answers EXCEPT ![(CHOOSE d \in Same(id) : TRUE).call].answer = Null]

Next ==
    \/ \E id \in Ids : showDialog(id)
    \/ \E text \in Texts : Type(text)
    \/ Submit \/ Cancel \/ Escape \/ Backdrop \/ toggleDialog

Spec == Init /\ [][Next]_vars

-----------------------------------------------------------------------------
(* Properties. *)

\* Whoever asks is answered once, when the dialog goes: a prompt also when it is
\* closed (showPrompt).  Not whose dialog was replaced by one of the same id, and not
\* the asker of a question that is closed with Escape.
AskersAreAnswered ==
    \A c \in DOMAIN answers :
        LET shown == \E i \in DOMAIN dialogs : dialogs[i].call = c
        IN  /\ shown => answers[c].answer = Waiting /\ c \notin replaced
            /\ answers[c].answer = Waiting => shown \/ c \in replaced
            /\ answers[c].answer = Dismissed => answers[c].id \in Questions
            /\ answers[c] # [id |-> "required", answer |-> ""]
=============================================================================
