------------------------------ MODULE Selection ------------------------------
(* Which declarations the bindgen-compatible builder emits and under which     *)
(* names (selection.rs, objects.rs): the written occurrences are visited in    *)
(* order, callbacks may rename each one, allowlists choose by header or by     *)
(* name, and the first chosen occurrence decides.                              *)
EXTENDS Integers, Sequences, FiniteSets

CONSTANT SelectionUnits   \* [entries, tags, patterns, callbacks, blocklist, objects, inline]; an entry's offset is its index

IsSeq(s) == s \in Seq({s[i] : i \in DOMAIN s})
\* Occurrences in source order with what they declare (declaration_origins.rs), every tag of them known, and the
\* evaluated objects as places of written variables, also in source order (object_values.rs).
WellFormed(unit) ==
    /\ IsSeq(unit.entries) /\ IsSeq(unit.objects)
    /\ \A i \in DOMAIN unit.entries :
          LET e == unit.entries[i]
          IN  /\ e.target \in {"declaration", "record", "enum", "enumerator"} /\ IsSeq(e.renames)
              /\ e.target = "declaration" => e.kind \in {"function", "variable", "typedef"}
              /\ e.target \in {"record", "enum"} => e.id \in DOMAIN unit.tags /\ unit.tags[e.id].kind = e.target
    /\ \A t \in DOMAIN unit.tags : unit.tags[t].kind \in {"record", "enum"}
    /\ \A k \in DOMAIN unit.objects :
          /\ unit.objects[k] \in DOMAIN unit.entries
          /\ unit.entries[unit.objects[k]].target = "declaration" /\ unit.entries[unit.objects[k]].kind = "variable"
          /\ \A j \in DOMAIN unit.objects : j < k => unit.objects[j] < unit.objects[k]

ASSUME SelectionAssumption == \A unit \in SelectionUnits : WellFormed(unit)

VARIABLES selUnit, selAt, selPhase,
          roots,          \* the selection: declarations, records, enums, constants
          written,        \* tags with a written occurrence so far
          named,          \* declaration -> generated name, for those chosen
          chosenSet, extra,  \* chosen offsets, and further names: offset -> name
          blocked,        \* functions blocked, by C name
          bound, bindings \* first object per name, and objects under further names
selectionVars == <<selUnit, selAt, selPhase, roots, written, named, chosenSet, extra, blocked, bound, bindings>>

Builtin == "<builtin>"
Empty == "empty name"
NoName == ""
Entries == selUnit.entries
Patterns == selUnit.patterns
has_names(p) == p.types # {} \/ p.functions # {} \/ p.vars # {}
is_restricted(p) == p.files # {} \/ has_names(p)
matches_file(file) == ~ is_restricted(Patterns) \/ (file # Builtin /\ file \in Patterns.files)

SelectionInit ==
    /\ selUnit = [entries |-> <<>>] /\ selAt = 0 /\ selPhase = "idle"
    /\ roots = [declarations |-> {}, records |-> {}, enums |-> {}, constants |-> {}]
    /\ written = {} /\ named = << >> /\ chosenSet = {} /\ extra = << >> /\ blocked = {} /\ bound = << >> /\ bindings = << >>

\* Without patterns or callbacks no origins are kept and nothing is selected by occurrence.
retain_declaration_origins(unit) == is_restricted(unit.patterns) \/ unit.callbacks > 0
Tags(unit, kind) == {t \in DOMAIN unit.tags : unit.tags[t].kind = kind}
Visible(unit, t) == unit.tags[t].discovery # "hidden"
\* extend_tags: by lexical name, and anonymous enums by any of their enumerators.
TagsByName(unit, kind) ==
    {t \in Tags(unit, kind) : Visible(unit, t) /\ (unit.tags[t].name \in unit.patterns.types
                                                   \/ (kind = "enum" /\ unit.tags[t].variants \intersect unit.patterns.vars # {}))}
StartSelection ==
    /\ selPhase = "idle"
    /\ \E unit \in SelectionUnits :
          /\ selUnit' = unit
          /\ blocked' = unit.blocklist
          /\ roots' = [roots EXCEPT !.records = TagsByName(unit, "record"), !.enums = TagsByName(unit, "enum")]
          /\ selPhase' = IF retain_declaration_origins(unit) THEN "origins" ELSE "objects"
    /\ selAt' = 1
    /\ UNCHANGED <<written, named, chosenSet, extra, bound, bindings>>

-----------------------------------------------------------------------------
(* One written occurrence.                                                     *)
ItemKind(e) ==
    CASE e.kind = "function" /\ ~ e.inline /\ e.id \notin selUnit.inline -> "Function"
      [] e.kind = "variable" /\ e.external -> "Var"
      [] OTHER -> "none"
\* The newest callback that answers.
NewestName(e) ==
    LET answers == {i \in DOMAIN e.renames : e.renames[i] # NoName}
    IN IF ItemKind(e) = "none" \/ answers = {} THEN NoName ELSE e.renames[CHOOSE i \in answers : \A j \in answers : j <= i]
OldestName(e) ==
    LET answers == {i \in DOMAIN e.renames : e.renames[i] # NoName}
    IN IF ItemKind(e) = "none" \/ answers = {} THEN NoName ELSE e.renames[CHOOSE i \in answers : \A j \in answers : j >= i]
generated_name_override(e) == NewestName(e)
ItemName(e) == IF generated_name_override(e) = NoName THEN e.name ELSE generated_name_override(e)
ByName(e) ==
    CASE e.kind = "function" -> ItemKind(e) # "none" /\ ItemName(e) \in Patterns.functions
      [] e.kind = "variable" -> ItemName(e) \in Patterns.vars
      [] OTHER -> ItemName(e) \in Patterns.types /\ e.file # Builtin
Selected(e) == (matches_file(e.file) \/ ByName(e)) /\ (ItemKind(e) # "none" \/ e.kind # "function")

Put(f, k, v) == [x \in DOMAIN f \union {k} |-> IF x = k THEN v ELSE f[x]]
\* The first chosen occurrence names the declaration; a variable's later, different name is a further one.
KeepsFirstName(e) == IF e.id \in DOMAIN named THEN named ELSE Put(named, e.id, ItemName(e))
TakesLastName(e) == Put(named, e.id, ItemName(e))
generated_names(e) == KeepsFirstName(e)
additional(e) == e.kind = "variable" /\ e.id \in DOMAIN named /\ named[e.id] # ItemName(e)
ApplyDeclaration ==
    /\ selPhase = "origins" /\ selAt <= Len(Entries) /\ Entries[selAt].target = "declaration"
    /\ LET e == Entries[selAt] IN
       IF generated_name_override(e) = Empty
       THEN /\ selPhase' = "failed" /\ UNCHANGED <<selAt, roots, named, chosenSet, extra>>
       ELSE /\ selAt' = selAt + 1 /\ UNCHANGED selPhase
            /\ IF Selected(e)
               THEN /\ chosenSet' = chosenSet \union {selAt}
                    /\ extra' = IF additional(e) THEN Put(extra, selAt, ItemName(e)) ELSE extra
                    /\ named' = generated_names(e)
                    /\ roots' = [roots EXCEPT !.declarations = @ \union {e.id}]
               ELSE UNCHANGED <<roots, named, chosenSet, extra>>
    /\ UNCHANGED <<selUnit, written, blocked, bound, bindings>>

\* A tag is chosen where it is first written or where it is defined, in the header that discovers it.
WrittenFile(e) == e.file
TagFile(e) == LET t == selUnit.tags[e.id] IN IF t.discovery = "discovered" THEN t.file ELSE e.file
FieldOf(kind) == IF kind = "record" THEN "records" ELSE "enums"
ApplyTag ==
    /\ selPhase = "origins" /\ selAt <= Len(Entries) /\ Entries[selAt].target \in {"record", "enum"}
    /\ LET e == Entries[selAt]
           hidden == ~ Visible(selUnit, e.id)
           first == ~ e.reference /\ e.id \notin written
       IN /\ written' = IF hidden \/ e.reference THEN written ELSE written \union {e.id}
          /\ roots' = IF ~ hidden /\ matches_file(TagFile(e)) /\ (first \/ e.definition)
                      THEN [roots EXCEPT ![FieldOf(e.target)] = @ \union {e.id}] ELSE roots
    /\ selAt' = selAt + 1
    /\ UNCHANGED <<selUnit, selPhase, named, chosenSet, extra, blocked, bound, bindings>>
ApplyEnumerator ==
    /\ selPhase = "origins" /\ selAt <= Len(Entries) /\ Entries[selAt].target = "enumerator"
    /\ LET e == Entries[selAt]
       IN roots' = IF Visible(selUnit, e.id) /\ matches_file(TagFile(e)) THEN [roots EXCEPT !.constants = @ \union {e.name}] ELSE roots
    /\ selAt' = selAt + 1
    /\ UNCHANGED <<selUnit, selPhase, written, named, chosenSet, extra, blocked, bound, bindings>>

\* Tags never written are dropped; the blocklist, given in generated names, becomes one of C names.
Functions == {i \in DOMAIN Entries : Entries[i].target = "declaration" /\ Entries[i].kind = "function"}
GeneratedName(e) == IF e.id \in DOMAIN named THEN named[e.id] ELSE e.name
BlockedByGeneratedName == {Entries[i].name : i \in {j \in Functions : GeneratedName(Entries[j]) \in selUnit.blocklist}}
blocklist_functions == BlockedByGeneratedName
EndOrigins ==
    /\ selPhase = "origins" /\ selAt > Len(Entries)
    /\ roots' = [roots EXCEPT !.records = @ \intersect written, !.enums = @ \intersect written]
    /\ blocked' = IF selUnit.callbacks > 0 /\ selUnit.blocklist # {} THEN blocklist_functions ELSE selUnit.blocklist
    /\ selPhase' = "objects" /\ selAt' = 1
    /\ UNCHANGED <<selUnit, written, named, chosenSet, extra, bound, bindings>>

-----------------------------------------------------------------------------
(* objects.rs: the evaluated objects, in order; each is one written occurrence.*)
Objects == selUnit.objects
select ==
    /\ selPhase = "objects" /\ selAt <= Len(Objects)
    /\ LET offset == Objects[selAt]
           e == Entries[offset]
           further == offset \in DOMAIN extra
           taken == further /\ extra[offset] \in DOMAIN bindings
       IN /\ selPhase' = IF taken /\ Entries[bindings[extra[offset]]].id # e.id THEN "failed" ELSE selPhase
          /\ bindings' = IF further /\ ~ taken THEN Put(bindings, extra[offset], offset) ELSE bindings
          /\ bound' = IF ~ further /\ (~ retain_declaration_origins(selUnit) \/ offset \in chosenSet) /\ e.name \notin DOMAIN bound
                      THEN Put(bound, e.name, offset) ELSE bound
    /\ selAt' = selAt + 1
    /\ UNCHANGED <<selUnit, roots, written, named, chosenSet, extra, blocked>>
EndSelection ==
    /\ selPhase = "objects" /\ selAt > Len(Objects) /\ selPhase' = "done"
    /\ UNCHANGED <<selUnit, selAt, roots, written, named, chosenSet, extra, blocked, bound, bindings>>

SelectionNext == StartSelection \/ ApplyDeclaration \/ ApplyTag \/ ApplyEnumerator \/ EndOrigins \/ select \/ EndSelection
SelectionSpec == SelectionInit /\ [][SelectionNext]_selectionVars

-----------------------------------------------------------------------------
(* The reference looks at the whole header at once.                            *)
Wanted(i) ==
    LET e == Entries[i]
        answers == {k \in DOMAIN e.renames : e.renames[k] # NoName /\ ItemKind(e) # "none"}
        name == IF answers = {} THEN e.name ELSE e.renames[CHOOSE k \in answers : \A j \in answers : j <= k]
        pattern == CASE e.kind = "function" -> Patterns.functions [] e.kind = "variable" -> Patterns.vars [] OTHER -> Patterns.types
    IN [name |-> name,
        yes |-> /\ e.kind = "function" => ~ e.inline /\ e.id \notin selUnit.inline
                /\ \/ ~ is_restricted(Patterns)
                   \/ e.file \in Patterns.files \ {Builtin}
                   \/ name \in pattern /\ (e.kind = "typedef" => e.file # Builtin)]
Of(id) == {i \in DOMAIN Entries : Entries[i].target = "declaration" /\ Entries[i].id = id /\ Wanted(i).yes}
Least(s) == CHOOSE i \in s : \A j \in s : i <= j
Declared == {Entries[i].id : i \in {j \in DOMAIN Entries : Entries[j].target = "declaration"}}
NameOf(id) == Wanted(Least(Of(id))).name

\* The builder chooses by occurrence and names by the first chosen one: every declaration with a chosen occurrence
\* is a root under the newest callback's name for it, an object's later and different names are bound besides it
\* and to it alone, the value of an object is that of its first chosen occurrence under the main name, and the
\* blocklist removes exactly the functions whose generated name it lists (selection::apply, objects::select).
SelectionExact ==
    selPhase = "done" /\ retain_declaration_origins(selUnit) =>
        LET roots_wanted == {id \in Declared : Of(id) # {}}
            main(i) == Wanted(i).name = NameOf(Entries[i].id)
            objects == {Objects[k] : k \in DOMAIN Objects}
            usable == {o \in objects : Wanted(o).yes}
        IN /\ roots.declarations = roots_wanted
           /\ named = [id \in roots_wanted |-> NameOf(id)]
           /\ \A o \in usable : ~ main(o) => Wanted(o).name \in DOMAIN bindings /\ Entries[bindings[Wanted(o).name]].id = Entries[o].id
           /\ \A n \in DOMAIN bound : bound[n] = Least({o \in usable : Entries[o].name = n /\ main(o)})
           /\ \A o \in usable : main(o) => Entries[o].name \in DOMAIN bound
           /\ selUnit.callbacks > 0 =>
                 blocked = {Entries[i].name : i \in {j \in Functions : (IF Of(Entries[j].id) = {} THEN Entries[j].name ELSE NameOf(Entries[j].id)) \in selUnit.blocklist}}

\* A record or enum is a root exactly when it is written and visible, and its lexical name is listed or the header
\* that discovers its first writing or a definition of it is (extend_tags, selection::apply).
TagRootsExact ==
    selPhase = "done" /\ retain_declaration_origins(selUnit) =>
        \A t \in DOMAIN selUnit.tags :
            LET tag == selUnit.tags[t]
                here == {i \in DOMAIN Entries : Entries[i].target = tag.kind /\ Entries[i].id = t}
                writings == {i \in here : ~ Entries[i].reference}
                home(i) == IF tag.discovery = "discovered" THEN tag.file ELSE Entries[i].file
                inFile(i) == ~ is_restricted(Patterns) \/ home(i) \in Patterns.files \ {Builtin}
                listed == tag.name \in Patterns.types \/ (tag.kind = "enum" /\ tag.variants \intersect Patterns.vars # {})
            IN (t \in roots[FieldOf(tag.kind)]) =
                  /\ tag.discovery # "hidden" /\ writings # {}
                  /\ \/ listed
                     \/ inFile(Least(writings))
                     \/ \E i \in here : Entries[i].definition /\ inFile(i)

\* selection.rs: patterns, callbacks and blocklists select what a reading of the whole header selects, and tags are
\* attributed to the header that discovers them.
SelectedExact == SelectionExact /\ TagRootsExact
=============================================================================
