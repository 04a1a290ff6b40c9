---------------------------- MODULE GraphQLDocs ----------------------------
(***************************************************************************)
(* The documentation of a GraphQL schema                                   *)
(* (components/graphql/GraphQLDocsExplorer.tsx): pages of types and fields *)
(* with links, the way back to the root, a search from the present page,   *)
(* and the place the editor of the query asks for.                         *)
(***************************************************************************)
EXTENDS Integers, Sequences, FiniteSets, SequencesExt, FiniteSetsExt

CONSTANTS
    Schemas,        \* of the introspections: [types, order]; a type is
                    \* [kind, fields, members], fields a sequence of [name, type, args]
    Places,         \* what the editor may ask for: [field, type, parent]; "" is none
    Texts,          \* what is searched for
    Found(_, _),    \* does a name match a text? (fuzzyMatch)
    MaxCrumbs,      \* a bound
    MaxResults      \* that are shown: a bound

VARIABLES
    schema,
    place,          \* showField: at most one of Places
    item,           \* the crumbs of the page, which is the last: things; <<>> is the root
    typed, searched,    \* the text, and the text after the debounce
    active          \* activeResult: at most one [thing, at, fresh]; fresh says that the
                    \* results are still those it was taken from, and at is its index

vars == <<schema, place, item, typed, searched, active>>

-----------------------------------------------------------------------------
(* A thing is a type, or a field of one. *)

TypeThing(name) == [type |-> name, field |-> ""]
FieldThing(name, f) == [type |-> name, field |-> f.name]
Name(thing) == IF thing.field = "" THEN thing.type ELSE thing.field

\* Mutant: the fields of interfaces are forgotten.
ObjectsOnly(type) == type.kind \in {"object", "input"}

HasFields(type) == type.kind \in {"object", "interface", "input"}
FieldNamed(s, thing) == CHOOSE f \in ToSet(s.types[thing.type].fields) : f.name = thing.field

IsOf(s, thing) ==
    /\ thing.type \in DOMAIN s.types
    /\ thing.field # "" => \E f \in ToSet(s.types[thing.type].fields) : f.name = thing.field

-----------------------------------------------------------------------------
(* walkTypeGraph: the calls of its callback, [thing, from, depth]. *)

Entry(name, from, depth) == [name |-> name, from |-> from, depth |-> depth]

\* what a type adds to the queue
Behind(s, e, visited) ==
    LET type == s.types[e.name]
        next == IF HasFields(type) THEN [k \in DOMAIN type.fields |-> type.fields[k].type]
                ELSE IF type.kind = "union" THEN type.members ELSE <<>>
    IN  SelectSeq([k \in DOMAIN next |-> Entry(next[k], e.name, e.depth + 2)],
                  LAMBDA n : n.name \notin visited)

Calls(s, e) ==
    LET type == s.types[e.name]
        fields == IF HasFields(type) THEN type.fields ELSE <<>>
    IN  <<[thing |-> TypeThing(e.name), from |-> e.from, depth |-> e.depth]>>
        \o [k \in DOMAIN fields |-> [thing |-> FieldThing(e.name, fields[k]),
                                     from |-> e.name, depth |-> e.depth + 1]]

RECURSIVE Walked(_, _, _)
Walked(s, queue, visited) ==
    IF queue = <<>> THEN <<>>
    ELSE LET e == Head(queue)
             marked == visited \cup {e.name}
         IN  IF e.name \in visited THEN Walked(s, Tail(queue), visited)
             ELSE Calls(s, e) \o Walked(s, Tail(queue) \o Behind(s, e, marked), marked)

\* the roots are types of the map as well, so they add nothing to it
Walk(s, start) ==
    Walked(s, [k \in DOMAIN start |-> Entry(start[k], "", 0)], {})

\* GqlSchemaSearch: from the root, or from a type; the type itself is left out
Start(s, crumbs) == IF crumbs = <<>> THEN s.order ELSE <<Last(crumbs).type>>

CanSearch(s, crumbs) ==
    crumbs # <<>> => /\ Last(crumbs).field = ""
                     /\ s.types[Last(crumbs).type].kind \notin {"enum", "scalar"}

\* the nearest first; scores and the alphabet decide between equals
Results(s, crumbs, text) ==
    LET calls == SelectSeq(Walk(s, Start(s, crumbs)),
                     LAMBDA c : /\ crumbs = <<>> \/ c.thing # Last(crumbs)
                                /\ Found(Name(c.thing), text))
    IN  SortSeq(calls, LAMBDA a, b : a.depth < b.depth)

-----------------------------------------------------------------------------

\* Mutant: a field of any type is taken.
FieldMatchesAnywhere(p, call) == p.field = Name(call.thing)

\* the callback of the effect on showField
FieldMatches(p, call) ==
    /\ p.field = Name(call.thing)
    /\ p.parent \in {"Query", "Mutation", "Subscription"} \/ call.from = p.parent

Matches(p, call) ==
    \/ p.field # "" /\ FieldMatches(p, call)
    \/ p.type # "" /\ p.type = Name(call.thing) /\ call.from = p.parent

\* A type ends the walk; after a field it goes on, and a later match replaces it.
\* The pages it leads to: at most one.
Asked(s, p) ==
    LET calls == Walk(s, s.order)
        matching == {k \in DOMAIN calls : Matches(p, calls[k])}
        types == {k \in matching : calls[k].thing.field = ""}
        until == IF types = {} THEN Len(calls) ELSE Min(types)
        last == calls[Max({k \in matching : k <= until})]
        parent == IF last.from = "" THEN <<>> ELSE <<TypeThing(last.from)>>
    IN  IF matching = {} THEN <<>> ELSE <<Append(parent, last.thing)>>

Init ==
    /\ schema \in Schemas /\ place = <<>> /\ item = <<>>
    /\ typed = "" /\ searched = "" /\ active = <<>>

\* The page is of this schema: the links and the search of an older one's page are
\* left out.
Current == \A k \in DOMAIN item : IsOf(schema, item[k])

\* the key of the search: the name of a type; fields have none of their own
Key(crumbs) ==
    IF crumbs = <<>> THEN "root" ELSE IF Last(crumbs).field # "" THEN "field" ELSE Last(crumbs).type

\* setActiveItem: a search with another key starts anew
Go(crumbs) ==
    /\ item' = crumbs /\ active' = <<>>
    /\ IF Key(crumbs) = Key(item) THEN UNCHANGED <<typed, searched>>
       ELSE typed' = "" /\ searched' = ""

\* New results: none of them is the active one.
Retaken == active' = [k \in DOMAIN active |-> [active[k] EXCEPT !.fresh = FALSE]]

\* GqlTypeRow: the row of a field links to its type and those of its arguments
RowLinks(f) == {TypeThing(n) : n \in {f.type} \cup f.args}

\* GqlTypeInfo of a field, and of a type
FieldPageLinks(s, thing) == RowLinks(FieldNamed(s, thing))

TypePageLinks(s, name) ==
    LET type == s.types[name]
        fields == ToSet(type.fields)
    IN  {TypeThing(n) : n \in ToSet(type.members)}
        \cup {FieldThing(name, f) : f \in fields}
        \cup UNION {RowLinks(f) : f \in IF type.kind = "input" THEN {} ELSE fields}

\* what the links of a page go to
Links(s, crumbs) ==
    IF crumbs = <<>> THEN {TypeThing(n) : n \in DOMAIN s.types}
    ELSE IF Last(crumbs).field # "" THEN FieldPageLinks(s, Last(crumbs))
    ELSE TypePageLinks(s, Last(crumbs).type)

Follow(thing) ==
    /\ Current /\ Len(item) < MaxCrumbs
    /\ thing \in Links(schema, item) /\ Go(Append(item, thing))
    /\ UNCHANGED <<schema, place>>

\* GraphQLExplorerHeader
Back(k) == k < Len(item) /\ Go(SubSeq(item, 1, k)) /\ UNCHANGED <<schema, place>>

\* the cross, and the menu of the editor of the query to open it again
Reopen ==
    /\ place' = <<>> /\ item' = <<>> /\ typed' = "" /\ searched' = "" /\ active' = <<>>
    /\ UNCHANGED schema

\* onShowInDocs; what is not found leaves the page as it is
ShowInDocs(p) ==
    /\ place # <<p>> /\ place' = <<p>>
    /\ IF Asked(schema, p) # <<>> THEN Go(Asked(schema, p)[1])
       ELSE UNCHANGED <<item, typed, searched, active>>
    /\ UNCHANGED schema

\* another introspection: the place is looked for again, or else the root is shown
SchemaChanges(s) ==
    /\ s # schema /\ schema' = s
    /\ IF place # <<>> /\ Asked(s, place[1]) # <<>> THEN Go(Asked(s, place[1])[1])
       ELSE IF place = <<>> /\ item # <<>> THEN Go(<<>>)
       ELSE Retaken /\ UNCHANGED <<item, typed, searched>>
    /\ UNCHANGED place

Type(text) ==
    /\ Current /\ CanSearch(schema, item) /\ text # typed /\ typed' = text /\ Retaken
    /\ UNCHANGED <<schema, place, item, searched>>

Debounced ==
    /\ searched # typed /\ searched' = typed /\ Retaken
    /\ UNCHANGED <<schema, place, item, typed>>

\* ArrowDown, ArrowUp and onMouseEnter
Highlight(k) ==
    /\ Current /\ CanSearch(schema, item)
    /\ k \in DOMAIN Results(schema, item, searched)
    /\ active' = <<[thing |-> Results(schema, item, searched)[k].thing, at |-> k, fresh |-> TRUE]>>
    /\ UNCHANGED <<schema, place, item, typed, searched>>

\* The active result is opened even when other results are shown; one of an older
\* schema is left out.
Enter ==
    LET results == Results(schema, item, searched)
    IN  /\ Current /\ CanSearch(schema, item) /\ Len(item) < MaxCrumbs
        /\ IF active # <<>>
           THEN IsOf(schema, active[1].thing) /\ Go(Append(item, active[1].thing))
           ELSE results # <<>> /\ Go(Append(item, results[1].thing))
        /\ UNCHANGED <<schema, place>>

Next ==
    \/ \E n \in DOMAIN schema.types :
         \E thing \in {TypeThing(n)} \cup {FieldThing(n, f) : f \in ToSet(schema.types[n].fields)} :
           Follow(thing)
    \/ \E k \in 0..MaxCrumbs : Back(k)
    \/ \E p \in Places : ShowInDocs(p)
    \/ \E s \in Schemas : SchemaChanges(s)
    \/ \E text \in Texts : Type(text)
    \/ \E k \in 1..MaxResults : Highlight(k)
    \/ Reopen \/ Debounced \/ Enter

Spec == Init /\ [][Next]_vars

-----------------------------------------------------------------------------
(* Properties. *)

TypeOK ==
    /\ schema \in Schemas /\ Len(place) <= 1 /\ Len(active) <= 1
    /\ Len(item) <= MaxCrumbs + 2 /\ {typed, searched} \subseteq Texts

\* How many steps a type is from the page: what a page can reach, by distance.
Near(s, start) ==
    LET next(n) == {f.type : f \in ToSet(s.types[n].fields)} \cup
                   (IF s.types[n].kind = "union" THEN ToSet(s.types[n].members) ELSE {})
        near[d \in Nat] == IF d = 0 THEN start
                           ELSE near[d - 1] \cup UNION {next(n) : n \in near[d - 1]}
    IN  near

\* The search finds every type and field that the page can reach, each once and with
\* its shortest distance, the nearest first, whatever cycles the schema has.
SearchFindsAll ==
    Current /\ CanSearch(schema, item) =>
        LET near == Near(schema, ToSet(Start(schema, item)))
            types == near[Cardinality(DOMAIN schema.types)]
            distance(n) == Min({d \in 0..Cardinality(types) : n \in near[d]})
            all == {[thing |-> TypeThing(n), depth |-> 2 * distance(n)] : n \in types}
                   \cup UNION {{[thing |-> FieldThing(n, f), depth |-> 2 * distance(n) + 1] :
                                   f \in ToSet(schema.types[n].fields)} : n \in types}
            found == Results(schema, item, "")
        IN  /\ {[thing |-> found[k].thing, depth |-> found[k].depth] : k \in DOMAIN found}
               = {r \in all : item = <<>> \/ r.thing # Last(item)}
            /\ \A k \in 1..(Len(found) - 1) :
                 found[k] # found[k + 1] /\ found[k].depth <= found[k + 1].depth

\* A page of an older schema is only shown while the place that was asked for is not
\* found in the new one.
ItemIsOfSchema == Current \/ (place # <<>> /\ Asked(schema, place[1]) = <<>>)

\* When the editor asks for a field, its page is shown, under its type; unless the
\* field is asked for by a root type and another type has one of this name.
ShowsWhatIsAsked ==
    place' # place /\ place' # <<>> =>
        LET p == place'[1]
            named == {n \in DOMAIN schema.types :
                        \E f \in ToSet(schema.types[n].fields) : f.name = p.field}
        IN  IF p.parent \in {"Query", "Mutation"}
            THEN \A n \in named : named = {n} =>
                     item' = <<TypeThing(n), [type |-> n, field |-> p.field]>>
            ELSE p.parent \in named =>
                     item' = <<TypeThing(p.parent), [type |-> p.parent, field |-> p.field]>>

=============================================================================
