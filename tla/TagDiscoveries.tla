--------------------------- MODULE TagDiscoveries ---------------------------
(* Where a header's tags are first seen (toucan_semantic/tag_discovery.rs).    *)
(* The scanner walks the syntax and records an event for each place that       *)
(* exposes a file-scope tag, under the record or enum being read; discover     *)
(* then follows records from the file's own events, and reports for tags       *)
(* written inside enums or in a record's trailing attributes who finds them    *)
(* first.                                                                      *)
(* Syntax: a declaration is [specs, inits, declarators]; a specifier is a tag  *)
(* definition, a tag reference, an attribute (with the specifiers of the type  *)
(* name in its argument) or something else.  A list of specifiers in `inits`,  *)
(* in an attribute or in an enumerator's value is that of a type name there.   *)
EXTENDS Integers, Sequences, FiniteSets, SequencesExt

CONSTANTS TagUnits,       \* sequence of sets of [syntax, fields]
          EventLimit, TypeWorkLimit, MaxTagDepth
VARIABLES tagUnit, scan, parent, inAttribute, events, definitions, attributeTags, typeWork,
          tagPhase, found
tagVars == <<tagUnit, scan, parent, inAttribute, events, definitions, attributeTags, typeWork, tagPhase, found>>

NoTag == [kind |-> "none", id |-> 0]
IsRecord(t) == t.kind = "record"
\* Tasks of the visitor, first one first.
Enter(specs) == [do |-> "enter", specs |-> specs]
EnterAll(lists) == [i \in DOMAIN lists |-> Enter(lists[i])]
Edges(type, at) == [do |-> "edges", type |-> type, at |-> at]

TagInit == /\ tagUnit = [syntax |-> <<>>] /\ scan = <<>> /\ parent = NoTag /\ inAttribute = FALSE /\ events = <<>>
           /\ definitions = << >> /\ attributeTags = {} /\ typeWork = 0 /\ tagPhase = "idle" /\ found = << >>
StartDiscovery ==
    /\ tagPhase = "idle" /\ tagPhase' = "scan"
    /\ \E family \in DOMAIN TagUnits : \E unit \in TagUnits[family] :
          tagUnit' = unit /\ scan' = [i \in DOMAIN unit.syntax |-> [do |-> "declaration", item |-> unit.syntax[i]]]
    /\ UNCHANGED <<parent, inAttribute, events, definitions, attributeTags, typeWork, found>>

Task == scan[1]
Scanning(what) == tagPhase = "scan" /\ scan # <<>> /\ Task.do = what
NamingRecord == IF IsRecord(parent) THEN parent ELSE NoTag
Event(tag, naming, at) == [tag |-> tag, parent |-> parent, naming |-> naming, at |-> at]
push(tag, at) == Append(events, Event(tag, NamingRecord, at))
Fits(list) == Len(list) <= EventLimit

-----------------------------------------------------------------------------
(* The scanner.                                                                *)
\* Pointers, arrays and functions lose the naming record, an atomic type keeps it.
RECURSIVE type_edges_at(_, _)
type_edges_at(type, naming) ==
    CASE type.k = "tag" -> <<Event(type.tag, naming, 0)>>
      [] type.k = "atomic" -> type_edges_at(type.of[1], naming)
      [] type.k \in {"pointer", "function"} -> FlattenSeq([i \in DOMAIN type.of |-> type_edges_at(type.of[i], NoTag)])
      [] OTHER -> <<>>
RECURSIVE TypeSteps(_)
TypeSteps(type) == 1 + (IF type.k \in {"pointer", "function", "atomic"} THEN FoldLeft(LAMBDA n, t : n + TypeSteps(t), 0, type.of) ELSE 0)
type_edges ==
    /\ Scanning("edges")
    /\ LET seen == type_edges_at(Task.type, NamingRecord)
           all == events \o [i \in DOMAIN seen |-> [seen[i] EXCEPT !.at = Task.at]]
           steps == typeWork + TypeSteps(Task.type)
       IN IF steps > TypeWorkLimit \/ ~ Fits(all)
          THEN tagPhase' = "failed" /\ UNCHANGED <<events, typeWork, scan>>
          ELSE events' = all /\ typeWork' = steps /\ scan' = Tail(scan) /\ UNCHANGED tagPhase
    /\ UNCHANGED <<tagUnit, parent, inAttribute, definitions, attributeTags, found>>

Bare(item) ==
    IF item.declarators # <<>> THEN <<>>
    ELSE LET refs == SelectSeq(item.specs, LAMBDA s : s.k = "ref") IN [i \in DOMAIN refs |-> [do |-> "bare", tag |-> refs[i].tag, at |-> item.at]]
visit_declaration ==
    /\ Scanning("declaration")
    /\ LET item == Task.item
       IN scan' = <<Enter(item.specs)>> \o EnterAll(item.inits) \o Bare(item)
                  \o [i \in DOMAIN item.declarators |-> Edges(item.declarators[i].type, item.declarators[i].at)] \o Tail(scan)
    /\ UNCHANGED <<tagUnit, parent, inAttribute, events, definitions, attributeTags, typeWork, tagPhase, found>>
\* A declaration of nothing but a tag shows it, outside records and enums only.
bare_reference ==
    /\ Scanning("bare")
    /\ LET all == IF parent = NoTag THEN push(Task.tag, Task.at) ELSE events
       IN IF Fits(all) THEN events' = all /\ scan' = Tail(scan) /\ UNCHANGED tagPhase
          ELSE tagPhase' = "failed" /\ UNCHANGED <<events, scan>>
    /\ UNCHANGED <<tagUnit, parent, inAttribute, definitions, attributeTags, typeWork, found>>

enter_specifiers ==
    /\ Scanning("enter")
    /\ scan' = <<[do |-> "specifiers", specs |-> Task.specs, owner |-> NoTag, outer |-> parent, outerAttribute |-> inAttribute]>> \o Tail(scan)
    /\ UNCHANGED <<tagUnit, parent, inAttribute, events, definitions, attributeTags, typeWork, tagPhase, found>>
definition_tag(s) == IF s.k = "def" THEN s.tag ELSE NoTag
Visit(s) ==
    CASE s.k = "attribute" -> <<Enter(s.specs)>>
      [] s.k = "def" -> EnterAll(s.interior) \o <<[do |-> "define", def |-> s]>>
      [] OTHER -> <<>>
\* A trailing attribute belongs to the tag defined before it; afterwards the outer context is restored.
OwnerOf(task) == IF task.specs[1].k = "attribute" /\ task.owner # NoTag THEN task.owner ELSE task.outer
OuterAlways(task) == task.outer
AttributeOwner(task) == OwnerOf(task)
declaration_specifiers ==
    /\ Scanning("specifiers")
    /\ IF Task.specs = <<>>
       THEN parent' = Task.outer /\ inAttribute' = Task.outerAttribute /\ scan' = Tail(scan)
       ELSE LET s == Task.specs[1]
                next == [Task EXCEPT !.specs = Tail(@), !.owner = IF s.k \in {"def", "ref"} THEN definition_tag(s) ELSE @]
            IN /\ inAttribute' = (Task.outerAttribute \/ (s.k = "attribute" /\ IsRecord(Task.owner)))
               /\ parent' = AttributeOwner(Task)
               /\ scan' = Visit(s) \o <<next>> \o Tail(scan)
    /\ UNCHANGED <<tagUnit, events, definitions, attributeTags, typeWork, tagPhase, found>>

\* visit_struct_type and visit_enum_type, after their interior attributes.
Inside(def) ==
    IF IsRecord(def.tag) THEN <<[do |-> "members", tag |-> def.tag, list |-> def.members, index |-> 1]>> ELSE EnterAll(def.members)
visit_definition ==
    /\ Scanning("define")
    /\ LET tag == Task.def.tag
       IN IF ~ Fits(push(tag, Task.def.at)) THEN tagPhase' = "failed" /\ UNCHANGED <<events, definitions, attributeTags, parent, scan>>
          ELSE /\ events' = push(tag, Task.def.at) /\ UNCHANGED tagPhase
               /\ definitions' = [t \in DOMAIN definitions \union {tag} |-> IF t = tag THEN parent ELSE definitions[t]]
               /\ attributeTags' = IF inAttribute THEN attributeTags \union {tag} ELSE attributeTags
               /\ parent' = tag
               /\ scan' = Inside(Task.def) \o <<[do |-> "leave", outer |-> parent]>> \o Tail(scan)
    /\ UNCHANGED <<tagUnit, inAttribute, typeWork, found>>
leave_definition ==
    /\ Scanning("leave") /\ parent' = Task.outer /\ scan' = Tail(scan)
    /\ UNCHANGED <<tagUnit, inAttribute, events, definitions, attributeTags, typeWork, tagPhase, found>>

\* The record's analysed fields follow its written declarators one by one; a declaration without any counts
\* only if it is an anonymous member.
Places(m) == IF m.declarators # <<>> THEN m.declarators ELSE IF m.anonymous THEN <<m.at>> ELSE <<>>
VisitMember(tag, m, index) == [i \in DOMAIN Places(m) |-> Edges(tagUnit.fields[tag][index + i - 1], Places(m)[i])]
visit_members ==
    /\ Scanning("members")
    /\ IF Task.list = <<>> THEN scan' = Tail(scan)
       ELSE LET m == Task.list[1]
                rest == [Task EXCEPT !.list = Tail(@), !.index = @ + Len(Places(m))]
            IN scan' = <<Enter(m.specs)>> \o VisitMember(Task.tag, m, Task.index) \o <<rest>> \o Tail(scan)
    /\ UNCHANGED <<tagUnit, parent, inAttribute, events, definitions, attributeTags, typeWork, tagPhase, found>>

-----------------------------------------------------------------------------
(* discover.                                                                   *)
RECURSIVE Containment(_, _)
Containment(tag, depth) ==
    LET outer == IF tag \in DOMAIN definitions THEN definitions[tag] ELSE NoTag
    IN CASE outer.kind = "enum" -> "enum"
         [] outer.kind = "none" -> "file"
         [] OTHER -> IF depth = MaxTagDepth - 1 THEN "deep" ELSE Containment(outer, depth + 1)
Affected == attributeTags \union {t \in DOMAIN definitions : Containment(t, 0) = "enum"}
\* Stable sorts by offset; what an enum contains exposes nothing.
ByOffset(list) == SetToSortSeq({<<list[i].at, i>> : i \in DOMAIN list}, LAMBDA x, y : x[1] < y[1] \/ (x[1] = y[1] /\ x[2] < y[2]))
Sorted(list) == LET order == ByOffset(list) IN [i \in DOMAIN list |-> list[order[i][2]]]
Unsorted(list) == list
InOrder(list) == Sorted(list)
Under(tag) == SelectSeq(events, LAMBDA e : e.parent = tag)
roots == InOrder(Under(NoTag))
FollowsRecord(tag) == IF IsRecord(tag) THEN InOrder(Under(tag)) ELSE <<>>
FollowsAny(tag) == InOrder(Under(tag))
children(tag) == FollowsRecord(tag)

EndScan ==
    /\ tagPhase = "scan" /\ scan = <<>>
    /\ IF \E t \in DOMAIN definitions : Containment(t, 0) = "deep" THEN tagPhase' = "failed" /\ UNCHANGED scan
       ELSE IF Affected = {} THEN tagPhase' = "none" /\ UNCHANGED scan
       ELSE tagPhase' = "visit" /\ scan' = [i \in DOMAIN roots |-> [event |-> roots[i], depth |-> 0]]
    /\ UNCHANGED <<tagUnit, parent, inAttribute, events, definitions, attributeTags, typeWork, found>>
\* Depth first; the first event to reach a tag keeps it.
visit ==
    /\ tagPhase = "visit" /\ scan # <<>>
    /\ LET event == Task.event
           next == children(event.tag)
       IN IF event.tag \in DOMAIN found THEN scan' = Tail(scan) /\ UNCHANGED <<found, tagPhase>>
          ELSE IF Task.depth >= MaxTagDepth THEN tagPhase' = "failed" /\ UNCHANGED <<found, scan>>
          ELSE /\ found' = [t \in DOMAIN found \union {event.tag} |-> IF t = event.tag THEN event ELSE found[t]]
               /\ scan' = [i \in DOMAIN next |-> [event |-> next[i], depth |-> Task.depth + 1]] \o Tail(scan)
               /\ UNCHANGED tagPhase
    /\ UNCHANGED <<tagUnit, parent, inAttribute, events, definitions, attributeTags, typeWork>>
EndVisit ==
    /\ tagPhase = "visit" /\ scan = <<>> /\ tagPhase' = "done"
    /\ UNCHANGED <<tagUnit, scan, parent, inAttribute, events, definitions, attributeTags, typeWork, found>>
Hidden == [naming |-> NoTag, at |-> -1]
Discovered == [t \in Affected |-> IF t \in DOMAIN found THEN [naming |-> found[t].naming, at |-> found[t].at] ELSE Hidden]

TagNext ==
    \/ StartDiscovery \/ visit_declaration \/ bare_reference \/ enter_specifiers \/ declaration_specifiers
    \/ visit_definition \/ leave_definition \/ visit_members \/ type_edges
    \/ EndScan \/ visit \/ EndVisit
TagSpec == TagInit /\ [][TagNext]_tagVars

-----------------------------------------------------------------------------
(* The reference reads the syntax as a tree.                                   *)
Sight(tag, in, naming, at) == [tag |-> tag, in |-> in, naming |-> naming, at |-> at]
Named(in) == IF IsRecord(in) THEN in ELSE NoTag
RECURSIVE TypeSights(_, _, _, _)
TypeSights(type, in, naming, at) ==
    CASE type.k = "tag" -> {Sight(type.tag, in, naming, at)}
      [] type.k = "atomic" -> TypeSights(type.of[1], in, naming, at)
      [] type.k \in {"pointer", "function"} -> UNION {TypeSights(type.of[i], in, NoTag, at) : i \in DOMAIN type.of}
      [] OTHER -> {}
FieldsBefore(list, i) == FoldLeft(LAMBDA n, m : n + (IF m.declarators # <<>> THEN Len(m.declarators) ELSE IF m.anonymous THEN 1 ELSE 0), 0, SubSeq(list, 1, i - 1))
\* Everything a list of specifiers shows in context `in`: [sights, defined], a definition with its context and
\* whether it stands in a trailing attribute of a record.
RECURSIVE SpecSights(_, _, _)
SpecSights(specs, in, attr) ==
    LET owner(i) == LET t == {j \in 1..(i - 1) : specs[j].k \in {"def", "ref"}}
                    IN IF t = {} THEN NoTag ELSE definition_tag(specs[CHOOSE j \in t : \A k \in t : k <= j])
        one(i) == LET s == specs[i]
                  IN CASE s.k = "attribute" -> SpecSights(s.specs, IF owner(i) = NoTag THEN in ELSE owner(i), attr \/ IsRecord(owner(i)))
                       [] s.k = "def" ->
                            LET tag == s.tag
                                within == IF IsRecord(tag)
                                          THEN {SpecSights(s.members[j].specs, tag, attr) : j \in DOMAIN s.members}
                                               \union {[defined |-> {}, sights |-> UNION {
                                                   TypeSights(tagUnit.fields[tag][FieldsBefore(s.members, j) + k], tag, tag, Places(s.members[j])[k])
                                                       : k \in DOMAIN Places(s.members[j])}] : j \in DOMAIN s.members}
                                          ELSE {SpecSights(s.members[j], tag, attr) : j \in DOMAIN s.members}
                                before == {SpecSights(s.interior[j], in, attr) : j \in DOMAIN s.interior}
                            IN [sights |-> {Sight(tag, in, Named(in), s.at)} \union UNION {w.sights : w \in within \union before},
                                defined |-> {[tag |-> tag, in |-> in, attr |-> attr]} \union UNION {w.defined : w \in within \union before}]
                       [] OTHER -> [sights |-> {}, defined |-> {}]
    IN [sights |-> UNION {one(i).sights : i \in DOMAIN specs}, defined |-> UNION {one(i).defined : i \in DOMAIN specs}]
DeclarationSights(d) ==
    LET lists == {SpecSights(d.specs, NoTag, FALSE)} \union {SpecSights(d.inits[i], NoTag, FALSE) : i \in DOMAIN d.inits}
    IN [defined |-> UNION {l.defined : l \in lists},
        sights |-> UNION {l.sights : l \in lists}
                   \union UNION {TypeSights(d.declarators[i].type, NoTag, NoTag, d.declarators[i].at) : i \in DOMAIN d.declarators}
                   \union (IF d.declarators # <<>> THEN {} ELSE {Sight(d.specs[i].tag, NoTag, NoTag, d.at) : i \in {j \in DOMAIN d.specs : d.specs[j].k = "ref"}})]
AllSights(syntax) == UNION {DeclarationSights(syntax[i]).sights : i \in DOMAIN syntax}
AllDefined(syntax) == UNION {DeclarationSights(syntax[i]).defined : i \in DOMAIN syntax}
RECURSIVE InEnum(_, _)
InEnum(d, all) ==
    \/ d.in.kind = "enum"
    \/ IsRecord(d.in) /\ \E o \in all : o.tag = d.in /\ InEnum(o, all)

\* The chains of sights from the file to a tag through records; the earliest one finds it.
RECURSIVE Chains(_, _, _)
Chains(tag, sights, avoid) ==
    UNION {IF s.in = NoTag THEN {<<s>>}
           ELSE IF ~ IsRecord(s.in) \/ s.in \in avoid THEN {}
           ELSE {Append(c, s) : c \in Chains(s.in, sights, avoid \union {s.in})} : s \in {x \in sights : x.tag = tag}}
Earlier(c, d) ==
    \/ Len(c) < Len(d) /\ SubSeq(d, 1, Len(c)) = c
    \/ \E i \in DOMAIN c \intersect DOMAIN d :
          c[i].at < d[i].at /\ \A j \in 1..(i - 1) : c[j].at = d[j].at
Found(tag, sights) ==
    LET all == Chains(tag, sights, {tag})
        first == {c \in all : \A d \in all : ~ Earlier(d, c)}
    IN IF all = {} THEN {Hidden} ELSE {[naming |-> c[Len(c)].naming, at |-> c[Len(c)].at] : c \in first}

\* Exactly the tags written inside an enum or in the trailing attribute of a record have their first sighting
\* recorded, and it is where a reader of the header meets them first going through declarations and the records
\* they name in source order, with the record that names them; what only an enum shows is hidden
\* (Scanner and discover).
DiscoveryExact ==
    tagPhase \in {"done", "none"} =>
        \E sights \in {AllSights(tagUnit.syntax)}, defined \in {AllDefined(tagUnit.syntax)} :
            LET wanted == {d.tag : d \in {x \in defined : x.attr \/ InEnum(x, defined)}}
            IN IF tagPhase = "none" THEN wanted = {}
               ELSE wanted = Affected /\ \A t \in wanted : Discovered[t] \in Found(t, sights)
=============================================================================
