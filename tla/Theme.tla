-------------------------------- MODULE Theme --------------------------------
(***************************************************************************)
(* The theme of a window: each change of the settings, of the system's     *)
(* appearance or of the plugins starts a run that reads the settings, then *)
(* the plugins' themes, and puts one on the document.  Runs overlap, and   *)
(* any may end first.  The settings' page asks for the same by a query.    *)
(*                                                                         *)
(* There is one light theme, a dark one, and that of a plugin.  Of a theme *)
(* and its style only the names of the colours matter: whether there is    *)
(* one, not which.                                                         *)
(***************************************************************************)
EXTENDS Integers, Sequences, SequencesExt

CONSTANT MaxRuns    \* bound: runs under way

Light == "yaak-light"
Dark == "yaak-dark"
Own == "plugin-dark"      \* of the plugin
Appearances == {"light", "dark"}

VARIABLES
    settings,   \* [appearance, themeDark] in the database, and in the window
    preferred,  \* what the window last heard of the system's appearance
    plugin,     \* whether the plugin is there
    runs,       \* [wants, old]: the theme a run wants, "asked" until it knows;
                \* and whether a later one has ended
    document,   \* [theme, old]: the theme of the document, and of which run
    removed,    \* the plugin was removed, which starts no run
    preview     \* the theme on the settings' page; "asked" while it is asked for

vars == <<settings, preferred, plugin, runs, document, removed, preview>>

-----------------------------------------------------------------------------
(* Which theme. *)

resolveAppearance(pref, appearance) == IF appearance = "system" THEN pref ELSE appearance

\* The theme that the settings name.
Wanted(pref, s) ==
    IF resolveAppearance(pref, s.appearance) = "dark" THEN s.themeDark ELSE Light

\* One that is not there is replaced by the first of its kind.
Resolved(wants, there) == IF wants = Own /\ ~there THEN Dark ELSE wants

TypeOK ==
    /\ settings \in [appearance : Appearances \cup {"system"}, themeDark : {Dark, Own}]
    /\ preferred \in Appearances /\ plugin \in BOOLEAN /\ Len(runs) <= MaxRuns
    /\ \A i \in DOMAIN runs :
          runs[i] \in [wants : {"asked", Light, Dark, Own}, old : BOOLEAN]
    /\ document \in [theme : {"none", Light, Dark, Own}, old : BOOLEAN]
    /\ preview \in {"asked", Light, Dark, Own}

Run == [wants |-> "asked", old |-> FALSE]

\* When the window starts it guesses the appearance; the news of it comes later.
Init ==
    /\ settings = [appearance |-> "system", themeDark |-> Dark]
    /\ preferred \in Appearances /\ plugin \in BOOLEAN
    /\ runs = <<Run>> /\ document = [theme |-> "none", old |-> FALSE]
    /\ removed = FALSE /\ preview = "asked"

-----------------------------------------------------------------------------
\* Mutant: only the query is told
OnlyQuery == preview' = "asked" /\ UNCHANGED <<runs, document, removed>>
\* A run starts, and the query has another key.
Configure ==
    /\ Len(runs) < MaxRuns
    /\ runs' = Append(runs, Run)
    /\ removed' = FALSE
    /\ preview' = "asked"
    /\ UNCHANGED document

\* The two lists of the settings' page; that of the dark themes has those there are.
Choose(appearance, dark) ==
    /\ settings' = [appearance |-> appearance, themeDark |-> dark] /\ settings' # settings
    /\ appearance = settings.appearance \/ dark = settings.themeDark
    /\ dark # settings.themeDark => /\ appearance # "light"
                                    /\ dark = Own => plugin
    /\ Configure
    /\ UNCHANGED <<preferred, plugin>>

Prefers(appearance) ==
    /\ preferred' = appearance
    /\ Configure
    /\ UNCHANGED <<settings, plugin>>

Installed ==
    /\ ~plugin /\ plugin' = TRUE
    /\ Configure
    /\ UNCHANGED <<settings, preferred>>

Uninstalled ==
    /\ plugin /\ plugin' = FALSE
    /\ removed' = TRUE /\ preview' = "asked"
    /\ UNCHANGED <<settings, preferred, runs, document>>

\* A run has the settings; the appearance is read then.
HasSettings(i) ==
    /\ runs[i].wants = "asked"
    /\ runs' = [runs EXCEPT ![i].wants = Wanted(preferred, settings)]
    /\ UNCHANGED <<settings, preferred, plugin, document, removed, preview>>

\* It has the themes, and puts one on the document.
Ends(i) ==
    /\ runs[i].wants # "asked"
    /\ document' = [theme |-> Resolved(runs[i].wants, plugin), old |-> runs[i].old]
    /\ runs' = RemoveAt([j \in DOMAIN runs |->
                            IF j < i THEN [runs[j] EXCEPT !.old = TRUE] ELSE runs[j]], i)
    /\ UNCHANGED <<settings, preferred, plugin, removed, preview>>

\* The answer for the query's present key; while there is none the page shows the last.
Previewed ==
    /\ preview = "asked"
    /\ preview' = Resolved(Wanted(preferred, settings), plugin)
    /\ UNCHANGED <<settings, preferred, plugin, runs, document, removed>>

Next ==
    \/ \E a \in Appearances \cup {"system"}, d \in {Dark, Own} : Choose(a, d)
    \/ \E a \in Appearances : Prefers(a)
    \/ Installed \/ Uninstalled \/ Previewed
    \/ \E i \in DOMAIN runs : HasSettings(i) \/ Ends(i)

Spec == Init /\ [][Next]_vars

-----------------------------------------------------------------------------
(* The style of a theme: the names of the colours that it has. *)

\* "primary" stands for the colours of buttons and banners, which are given by the
\* theme, or else by the built-in one.
Given == {"primary", "surface", "surfaceHighlight", "surfaceActive", "border", "borderSubtle",
          "text", "textSubtle", "textSubtlest"}
Names == Given \cup {"backdrop", "selection", "borderFocus", "shadow"}

From(names, to, has) == IF has \in names THEN {to} ELSE {}

\* A theme with what it leaves out, each from an earlier one.
completeTheme(names) ==
    LET base == names \cup {"primary", "surface", "text"}
        with == base \cup From(base, "surfaceHighlight", "surface")
                     \cup From(base, "surfaceActive", "primary")
                     \cup From(base, "border", "surface")
    IN  with \cup From(with, "borderSubtle", "border")
             \cup From(with, "textSubtle", "text") \cup From(with, "textSubtlest", "text")

\* The variables of a part, by its own colours.
themeVariables(names) ==
    names \cup {"shadow"}
    \cup From(names, "surfaceHighlight", "surface") \cup From(names, "backdrop", "surface")
    \cup From(names, "border", "surface") \cup From(names, "borderSubtle", "border")
    \cup From(names, "surfaceActive", "primary") \cup From(names, "selection", "primary")
    \cup From(names, "borderFocus", "primary")
    \cup From(names, "textSubtle", "text") \cup From(names, "textSubtlest", "text")

getThemeCSS(names) == themeVariables(completeTheme(names))

-----------------------------------------------------------------------------
(* Properties. *)

\* When all runs have ended, the last one last, the document has the theme of the
\* settings, and the settings' page shows it (configureTheme, useResolvedTheme); the
\* removal of a plugin starts no run.
DocumentHasTheme ==
    runs = <<>> /\ ~document.old /\ ~removed =>
        /\ document.theme = Resolved(Wanted(preferred, settings), plugin)
        /\ preview \in {"asked", document.theme}

\* Whatever colours a plugin's theme leaves out, the document has every variable.
StyleIsComplete ==
    document.theme = "none" /\ runs = <<Run>> => \A names \in SUBSET Given : getThemeCSS(names) = Names
=============================================================================
