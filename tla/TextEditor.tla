----------------------------- MODULE TextEditor -----------------------------
(***************************************************************************)
(* A text editor (components/core/Editor/Editor.tsx): it takes its text    *)
(* when it is created and when forceUpdateKey changes, and tells every     *)
(* change to its owner.  What else changes the text: undo, whose history   *)
(* is kept for the next editor of the same text, formatting, whose answer  *)
(* comes later, and the dialogs of the template tags in it.                *)
(***************************************************************************)
EXTENDS Integers, Sequences, SequencesExt

CONSTANTS
    Words,          \* what can be typed: strings; "_" is what formatting removes
    Arguments,      \* of the template function f; "default" is that of the plugin
    MaxWords,       \* a bound
    MaxHistory      \* a bound

Tag(argument) == "f(" \o argument \o ")"
NoArgument == "f()"
Tags == {Tag(a) : a \in Arguments} \cup {NoArgument}
Texts == SeqOf(Words \cup Tags, 1)
None == <<>>

VARIABLES
    saved,          \* the text of the model
    doc,            \* the text of the editor
    history,        \* what undo brings back
    cache,          \* sessionStorage: at most one [doc, history]
    mounted,        \* is there an editor?
    formatting,     \* what is being formatted: at most one text
    dialog,         \* that of a tag: at most one [at, tag, argument, text]
    apart           \* what was formatted is not what the editor had when the answer came

vars == <<saved, doc, history, cache, mounted, formatting, dialog, apart>>

-----------------------------------------------------------------------------

\* EditorState.fromJSON: the history of the last editor, if it had this text
Cached(text) == IF cache # None /\ cache[1].doc = text THEN cache[1].history ELSE <<>>

\* initEditorRef, saveCachedEditorState: every update of an editor is cached
Create(text) ==
    /\ doc' = text /\ history' = Cached(text)
    /\ cache' = <<[doc |-> text, history |-> Cached(text)]>> /\ apart' = FALSE

\* Mutant: only what is typed is told.
TellTyped(text) == IF Len(text) > Len(doc) THEN text ELSE saved

\* updateListener: onChange
Tell(text) == text

\* a change of the text, in the editor or by it
Change(text, before) ==
    /\ doc' = text /\ history' = before /\ saved' = Tell(text)
    /\ cache' = <<[doc |-> text, history |-> before]>> /\ apart' = FALSE

Done == Append(history, doc)
Bounded(text) == Len(text) <= MaxWords /\ Len(history) < MaxHistory

Init ==
    /\ saved \in Texts /\ doc = <<>> /\ history = <<>> /\ cache = None
    /\ mounted = FALSE /\ formatting = None /\ dialog = None /\ apart = FALSE

-----------------------------------------------------------------------------

Mount ==
    /\ ~mounted /\ mounted' = TRUE /\ Create(saved)
    /\ UNCHANGED <<saved, formatting, dialog>>

\* Dialogs are above all else, so the editor below stays.
Unmount ==
    /\ mounted /\ dialog = None
    /\ mounted' = FALSE /\ doc' = <<>> /\ history' = <<>> /\ apart' = FALSE
    /\ UNCHANGED <<saved, cache, formatting, dialog>>

Type(at, word) ==
    /\ mounted /\ dialog = None
    /\ LET text == InsertAt(doc, at, word) IN Bounded(text) /\ Change(text, Done)
    /\ UNCHANGED <<mounted, formatting, dialog>>

Erase(at) ==
    /\ mounted /\ dialog = None
    /\ LET text == RemoveAt(doc, at) IN Bounded(text) /\ Change(text, Done)
    /\ UNCHANGED <<mounted, formatting, dialog>>

Undo ==
    /\ mounted /\ dialog = None /\ history # <<>>
    /\ Change(Last(history), Front(history))
    /\ UNCHANGED <<mounted, formatting, dialog>>

\* another window or a sync: forceUpdateKey changes and the editor is created anew
WrittenElsewhere(text) ==
    /\ text # saved /\ saved' = text
    /\ IF mounted THEN Create(text) ELSE UNCHANGED <<doc, history, cache, apart>>
    /\ UNCHANGED <<mounted, formatting, dialog>>

Formatted(text) == SelectSeq(text, LAMBDA word : word # "_")

Format ==
    /\ mounted /\ dialog = None /\ formatting = None /\ formatting' = <<doc>>
    /\ UNCHANGED <<saved, doc, history, cache, mounted, dialog, apart>>

\* The answer replaces as many characters as there were, of the text as it is now
\* (a shorter one is left alone, with an error), and is then told to the owner.
FormatAnswers ==
    /\ formatting # None /\ formatting' = None
    /\ Len(history) < MaxHistory      \* a bound
    /\ LET asked == formatting[1]
       IN  IF mounted /\ Len(asked) <= Len(doc)
           THEN /\ doc' = Formatted(asked) \o SubSeq(doc, Len(asked) + 1, Len(doc))
                /\ history' = Done /\ saved' = Formatted(asked)
                /\ cache' = <<[doc |-> doc', history |-> history']>>
                /\ apart' = (asked # doc)
           ELSE UNCHANGED <<saved, doc, history, cache, apart>>
    /\ UNCHANGED <<mounted, dialog>>

\* Mutant: an argument that is there is taken for the default.
Forgotten(tag) == "default"

\* TemplateFunctionDialog: the tag's argument, or else the default of the plugin
Initial(tag) == IF tag = NoArgument THEN "default" ELSE CHOOSE a \in Arguments : Tag(a) = tag

\* onClickFunction: where the tag is, and what it is, as of the click
ClickTag(at) ==
    /\ mounted /\ dialog = None /\ doc[at] \in Tags
    /\ dialog' = <<[at |-> at, tag |-> doc[at], argument |-> Initial(doc[at]), text |-> "",
                    touched |-> FALSE]>>
    /\ UNCHANGED <<saved, doc, history, cache, mounted, formatting, apart>>

SetArgument(argument) ==
    /\ dialog # None /\ argument # dialog[1].argument
    /\ dialog' = <<[dialog[1] EXCEPT !.argument = argument, !.text = "", !.touched = TRUE]>>
    /\ UNCHANGED <<saved, doc, history, cache, mounted, formatting, apart>>

\* useTemplateTokensToString: the text of the tag comes later
TextAnswers ==
    /\ dialog # None /\ dialog[1].text = ""
    /\ dialog' = <<[dialog[1] EXCEPT !.text = Tag(dialog[1].argument)]>>
    /\ UNCHANGED <<saved, doc, history, cache, mounted, formatting, apart>>

\* handleDone: what has no text yet is not written; a place beyond the end is an
\* error, after which the dialog stays
DoneWithTag ==
    /\ dialog # None /\ dialog' = None
    /\ LET d == dialog[1]
       IN  IF d.text = "" THEN UNCHANGED <<saved, doc, history, cache, apart>>
           ELSE /\ d.at \in DOMAIN doc /\ Len(history) < MaxHistory
                /\ Change([doc EXCEPT ![d.at] = d.text], Done)
    /\ UNCHANGED <<mounted, formatting>>

Cancel ==
    /\ dialog # None /\ dialog' = None
    /\ UNCHANGED <<saved, doc, history, cache, mounted, formatting, apart>>

Next ==
    \/ Mount \/ Unmount \/ Undo \/ Format \/ FormatAnswers
    \/ \E text \in Texts : WrittenElsewhere(text)
    \/ \E at \in 1..(Len(doc) + 1), word \in Words : Type(at, word)
    \/ \E at \in DOMAIN doc : Erase(at) \/ ClickTag(at)
    \/ \E argument \in Arguments : SetArgument(argument)
    \/ TextAnswers \/ DoneWithTag \/ Cancel

Spec == Init /\ [][Next]_vars

-----------------------------------------------------------------------------
(* Properties. *)

TypeOK ==
    /\ {saved, doc} \cup ToSet(history) \subseteq Seq(Words \cup Tags)
    /\ Len(cache) <= 1 /\ Len(formatting) <= 1 /\ Len(dialog) <= 1
    /\ mounted \in BOOLEAN /\ apart \in BOOLEAN

\* What the editor shows is what is saved: after typing, undo, dialogs, a history
\* that was kept from the editor before, writes by others and formatting; unless
\* the text changed while it was formatted.
ShownIsSaved == mounted /\ ~apart => doc = saved

\* A dialog that is only looked at and closed with its button changes the meaning
\* of no tag, if the text is still the one that was clicked.
LookingChangesNothing ==
    dialog # None /\ dialog' = None /\ ~dialog[1].touched
    /\ dialog[1].at \in DOMAIN doc /\ doc[dialog[1].at] = dialog[1].tag
    => /\ DOMAIN doc' = DOMAIN doc
       /\ \A k \in DOMAIN doc :
            IF doc[k] \in Tags THEN Initial(doc'[k]) = Initial(doc[k]) ELSE doc'[k] = doc[k]

=============================================================================
