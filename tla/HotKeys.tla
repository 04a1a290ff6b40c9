-------------------------------- MODULE HotKeys --------------------------------
(***************************************************************************)
(* The hotkeys of a window.  Every hook that listens keeps the names of    *)
(* the keys it has seen go down, because a key is known by what it types:  *)
(* the one that goes up may have another name than the one that went down. *)
(* A hotkey runs when these names and the modifiers that are held are just *)
(* its keys.                                                               *)
(*                                                                         *)
(* A window that loses the focus sees no key go up.  The names are         *)
(* forgotten 5 s after the last key.                                       *)
(***************************************************************************)
EXTENDS FiniteSets

CONSTANTS
    Hotkeys,   \* [hook -> the sets of keys that run it]
    Modifiers,
    Names,     \* [key -> [plain, shifted]]: what a key is called
    Optional   \* the hooks that can be switched off: enable

Hooks == DOMAIN Hotkeys
Keys == DOMAIN Names
Erase == "Backspace"   \* the one key that is a hotkey by itself

VARIABLES
    held,      \* the modifiers that are held
    pressed,   \* the other keys that are held
    current,   \* [hook -> the names it keeps]
    enabled,   \* the hooks that are not switched off
    fresh,     \* no key has gone down since all modifiers were seen to be up
    fired      \* the last key with a modifier: [name, held, fresh, enabled, hooks that ran]

vars == <<held, pressed, current, enabled, fresh, fired>>

NameOf(key, mods) == IF "Shift" \in mods THEN Names[key].shifted ELSE Names[key].plain
AllNames == UNION {{Names[k].plain, Names[k].shifted} : k \in Keys}
NothingFired == [name |-> "", held |-> {}, fresh |-> FALSE, enabled |-> {}, hooks |-> {}]

TypeOK ==
    /\ held \subseteq Modifiers /\ pressed \subseteq Keys
    /\ \A h \in Hooks : current[h] \subseteq AllNames
    /\ fired.hooks \subseteq fired.enabled

Init ==
    /\ held = {} /\ pressed = {}
    /\ current = [h \in Hooks |-> {}]
    /\ enabled = Hooks
    /\ fresh = TRUE
    /\ fired = NothingFired

-----------------------------------------------------------------------------
\* Mutant: more keys than its own may be held.
Contains(h, names, mods) == \E keys \in Hotkeys[h] : keys \subseteq names \cup mods

\* Whether the names a hook keeps and the modifiers are the keys of its hotkey.
Matches(h, names, mods) == (names \cup mods) \in Hotkeys[h]

\* A key goes down, or repeats: with a modifier, or the erase key, every hook keeps its
\* name, and those whose keys are held run and forget.  In a field the erase key alone
\* does not count.
Press(key, inField) ==
    LET name == NameOf(key, held)
        Heard(h) == h \in enabled
        names == [h \in Hooks |-> current[h] \cup {name}]
        runs == {h \in enabled : /\ Matches(h, names[h], held)
                                 /\ ~(inField /\ names[h] \cup held = {Erase})}
    IN  /\ inField => key = Erase
        /\ pressed' = pressed \cup {key}
        /\ IF held = {} /\ key # Erase THEN UNCHANGED <<current, fresh, fired>>
           ELSE /\ current' = [h \in Hooks |-> IF ~Heard(h) THEN current[h]
                                               ELSE IF h \in runs THEN {} ELSE names[h]]
                /\ fresh' = FALSE
                /\ fired' = [name |-> name, held |-> held, fresh |-> fresh /\ ~inField,
                             enabled |-> enabled, hooks |-> runs]
        /\ UNCHANGED <<held, enabled>>

\* Mutant: a name goes only with its own key.
OnlyOwn(name, mods) ==
    [h \in Hooks |-> IF h \notin enabled THEN current[h] ELSE current[h] \ {name}]

\* What the hooks keep when a key or a modifier with this name has gone up and these
\* modifiers are still held: nothing without a modifier.
Kept(name, mods) ==
    [h \in Hooks |-> IF h \notin enabled THEN current[h]
                     ELSE IF mods = {} THEN {} ELSE current[h] \ {name}]

Release(key) ==
    /\ key \in pressed
    /\ pressed' = pressed \ {key}
    /\ current' = Kept(NameOf(key, held), held)
    /\ fresh' = (fresh \/ (held = {} /\ enabled = Hooks))
    /\ fired' = NothingFired
    /\ UNCHANGED <<held, enabled>>

PressModifier(m) ==
    /\ m \notin held
    /\ held' = held \cup {m}
    /\ fired' = NothingFired
    /\ UNCHANGED <<pressed, current, enabled, fresh>>

ReleaseModifier(m) ==
    /\ m \in held
    /\ held' = held \ {m}
    /\ current' = Kept(m, held')
    /\ fresh' = (fresh \/ (held' = {} /\ enabled = Hooks))
    /\ fired' = NothingFired
    /\ UNCHANGED <<pressed, enabled>>

\* Another window gets the keys; they go up where this one does not see it.
LoseFocus ==
    /\ held \cup pressed # {}
    /\ held' = {} /\ pressed' = {}
    /\ fresh' = FALSE
    /\ fired' = NothingFired
    /\ UNCHANGED <<current, enabled>>

\* 5 s after the last key.
Forget ==
    /\ current' = [h \in Hooks |-> {}]
    /\ fresh' = (fresh \/ held = {})
    /\ fired' = NothingFired
    /\ UNCHANGED <<held, pressed, enabled>>

\* The sidebar's delete key listens only while the sidebar has the focus.
Switch(h) ==
    /\ enabled' = IF h \in enabled THEN enabled \ {h} ELSE enabled \cup {h}
    /\ fresh' = FALSE
    /\ fired' = NothingFired
    /\ UNCHANGED <<held, pressed, current>>

Next ==
    \/ \E key \in Keys, inField \in BOOLEAN : Press(key, inField)
    \/ \E key \in Keys : Release(key)
    \/ \E m \in Modifiers : PressModifier(m)
    \/ \E m \in Modifiers : ReleaseModifier(m)
    \/ LoseFocus \/ Forget
    \/ \E h \in Optional : Switch(h)

Spec == Init /\ [][Next]_vars

-----------------------------------------------------------------------------
\* A hotkey runs for its own keys alone: whatever went down and was not seen to go up,
\* what ran is what the key that went down and the modifiers say.
RunsItsOwn == \A h \in fired.hooks : Matches(h, {fired.name}, fired.held)

\* The first key after a time without modifiers runs every hotkey it is of: no name
\* is left from before.
FirstKeyRuns ==
    fired.fresh => \A h \in fired.enabled : Matches(h, {fired.name}, fired.held) => h \in fired.hooks
=============================================================================
