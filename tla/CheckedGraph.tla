---------------------------- MODULE CheckedGraph ----------------------------
(***************************************************************************)
(* The graph of checked code that toucan_semantic retains beside its        *)
(* analysis (checked.rs): a first pass over the syntax tree catalogues      *)
(* every written occurrence, the checker then calls the Builder at every    *)
(* declaration, tag, name and scope it meets, and finish() accepts the      *)
(* graph only when every occurrence is accounted for.                       *)
(*                                                                         *)
(* A program is a sequence of items, one per call the checker makes, each   *)
(* at the source position that is its index.  An item's "how" says how the  *)
(* node reaches the Builder: "plain" (the parser's node), "clone" (a copy,  *)
(* so its address is unknown), "twin" / "twinclone" (two nodes of that kind *)
(* share the span), "attribute" (inside an attribute argument, never        *)
(* checked), "inserted" (an empty span).  Charges of one call only add, so  *)
(* a call fails exactly when its total passes a limit.  Names are one byte  *)
(* and a type one node.                                                     *)
(***************************************************************************)
EXTENDS Integers, Sequences, FiniteSets, SequencesExt

CONSTANTS
    GraphPrograms,      \* the programs to check, as a sequence of sets
    GraphLimits,        \* sets of [nodes, edges, bytes] limits to check them under
    MaxGraphDepth       \* occurrences may nest this deep (256 in checked.rs)

VARIABLES
    graphUnit,          \* the program and the limits it is checked under
    graph,              \* the Builder
    graphAt,            \* the next item
    graphStatus         \* "cataloguing", "checking", "finished", "failed", "rejected", "invalid"

graphVars == <<graphUnit, graph, graphAt, graphStatus>>

GraphItem(i) == graphUnit.program[i]

(* ------------------------------------------------------------------------ *)
(* Budget                                                                    *)

Charge(g, nodes, edges, bytes) ==
    [g EXCEPT !.nodes = @ + nodes, !.edges = @ + edges, !.bytes = @ + bytes]

\* Budget::source_span: an empty span has no written-source edge.
SpanEdges(width) == IF width = 0 THEN 0 ELSE 1

WithinLimits(g) ==
    /\ g.nodes <= graphUnit.limits.nodes
    /\ g.edges <= graphUnit.limits.edges
    /\ g.bytes <= graphUnit.limits.bytes

(* ------------------------------------------------------------------------ *)
(* Occurrences                                                               *)

\* Address 0 stands for a node the catalogue never saw.
Occurrence(g, kind, address, start, width, attribute) ==
    [Charge(g, 1, 3 + SpanEdges(width), 0) EXCEPT
        !.occurrences = Append(@, [kind |-> kind, address |-> address, start |-> start,
                                   width |-> width, attribute |-> attribute])]

Addressed(g, kind, address, start) ==
    {o \in DOMAIN g.occurrences :
        /\ g.occurrences[o].kind = kind
        /\ g.occurrences[o].address = address
        /\ g.occurrences[o].start = start}

Aliased(g, kind, start) ==
    {o \in DOMAIN g.occurrences : g.occurrences[o].kind = kind /\ g.occurrences[o].start = start}

FindFirst(g, kind, address, start) ==
    LET alias == Aliased(g, kind, start)
    IN  IF alias = {} THEN 0 ELSE CHOOSE o \in alias : \A p \in alias : o <= p

\* The occurrence of a node, 0 when it has none or when copies cannot tell.
find(g, kind, address, start) ==
    LET exact == Addressed(g, kind, address, start)
        alias == Aliased(g, kind, start)
    IN  IF address # 0 /\ exact # {} THEN CHOOSE o \in exact : TRUE
        ELSE IF Cardinality(alias) = 1 THEN CHOOSE o \in alias : TRUE
        ELSE 0

Unfound(g, start) == [Charge(g, 1, 0, 0) EXCEPT !.ambiguous = Append(@, start)]

(* ------------------------------------------------------------------------ *)
(* Scopes                                                                    *)

scope(g, kind, width, parent) ==
    [Charge(g, 1, (IF parent = 0 THEN 0 ELSE 1) + (IF kind = "File" THEN 0 ELSE SpanEdges(width)), 0)
     EXCEPT !.scopes = Append(@, [parent |-> parent, kind |-> kind, width |-> width, declarations |-> <<>>]),
            !.current = Len(g.scopes) + 1]

\* A function body continues the prototype scope of its own declarator.
CanReuse(g, reuse) == g.scopes[reuse].parent = g.current /\ g.scopes[reuse].kind = "Prototype"

ReuseKeepsSites(g, kind, reuse) == [g EXCEPT !.scopes[reuse].kind = kind, !.current = reuse]

ReuseScope(g, kind, reuse) ==
    [g EXCEPT
        !.scopes[reuse].kind = kind,
        !.sites = [s \in DOMAIN g.sites |->
            IF s \in ToSet(g.scopes[reuse].declarations) /\ g.entities[g.sites[s].entity].kind = "Parameter"
            THEN [g.sites[s] EXCEPT !.definition = TRUE] ELSE g.sites[s]],
        !.current = reuse]

enter_scope(g, kind, reuse) ==
    IF reuse # 0 THEN ReuseScope(g, kind, reuse) ELSE scope(g, kind, 1, g.current)

LeaveToFile(g) == [g EXCEPT !.current = 1]

leave_scope(g) ==
    [g EXCEPT !.current = IF g.scopes[g.current].parent = 0 THEN 1 ELSE g.scopes[g.current].parent]

(* ------------------------------------------------------------------------ *)
(* Types, entities, sites and names                                          *)

intern_type(g, ty) ==
    IF ty \in ToSet(g.types) THEN g
    ELSE [Charge(g, 1, 1, 1) EXCEPT !.types = Append(@, ty)]

Key(tag, name, a, b) == [tag |-> tag, name |-> name, a |-> a, b |-> b]
Linked(name) == Key("Linked", name, 0, 0)
Ordinary(in, name) == Key("Ordinary", name, in, 0)

EntityOf(g, key) == {e \in DOMAIN g.entities : g.entities[e].key = key}

entity(g, key, name, kind) ==
    IF EntityOf(g, key) # {} THEN g
    ELSE [Charge(g, 1, 1, IF name = "" THEN 0 ELSE 2) EXCEPT
            !.entities = Append(@, [key |-> key, name |-> name, kind |-> kind,
                                    linkage |-> "None", storage |-> "None"])]

TheEntity(g, key) == CHOOSE e \in EntityOf(g, key) : TRUE

Bound(g, in, name) == {b \in g.names : b.scope = in /\ b.name = name}

bind_name(g, e) ==
    LET name == g.entities[e].name
        old == Bound(g, g.current, name)
        new == [scope |-> g.current, name |-> name, entity |-> e]
    IN  IF name = "" THEN g
        ELSE [(IF old = {} THEN Charge(g, 0, 1, 1) ELSE g) EXCEPT !.names = (@ \ old) \cup {new}]

NotAName == {"Record", "Enum", "Field"}

site(g, e, o, ty, properties) ==
    LET typed == Charge(intern_type(g, ty), 1, 6 + SpanEdges(properties.named), 0)
        id == Len(g.sites) + 1
        placed == [typed EXCEPT
            !.entities[e].storage = properties.storage,
            !.sites = Append(@, [entity |-> e, occurrence |-> o, scope |-> g.current, ty |-> ty,
                                 storage |-> properties.storage, linkage |-> properties.linkage,
                                 definition |-> properties.definition, named |-> properties.named,
                                 at |-> graphAt]),
            !.scopes[g.current].declarations = Append(@, id)]
    IN  IF g.entities[e].kind \in NotAName THEN placed ELSE bind_name(placed, e)

Properties(storage, linkage, definition, named) ==
    [storage |-> storage, linkage |-> linkage, definition |-> definition, named |-> named]

(* Declarations: each takes the occurrence found for its node. *)

FileKind(it) == IF it.op = "typedef" THEN "Typedef" ELSE IF it.op = "close" THEN "Function" ELSE "Variable"

file_declaration(g, it, o, definition) ==
    LET kind == FileKind(it)
        key == IF kind = "Typedef" THEN Ordinary(g.current, it.name) ELSE Linked(it.name)
        made == entity(g, key, it.name, kind)
        e == TheEntity(made, key)
        linkage == IF kind = "Typedef" THEN "None"
                   ELSE IF it.how = "static" THEN "Internal" ELSE "External"
        storage == IF kind = "Variable" THEN "Static" ELSE "None"
    IN  site([made EXCEPT !.entities[e].linkage = linkage], e, o, kind,
             Properties(storage, linkage, definition, 1))

local_declaration(g, name, kind, linked, o, storage, definition) ==
    LET key == IF name = "" THEN Key("Unnamed", "", g.current, o)
               ELSE IF linked THEN Linked(name) ELSE Ordinary(g.current, name)
        made == entity(g, key, name, kind)
        e == TheEntity(made, key)
        linkage == IF ~linked THEN "None"
                   ELSE IF made.entities[e].linkage = "None" THEN "External"
                   ELSE made.entities[e].linkage
    IN  site([made EXCEPT !.entities[e].linkage = IF linked THEN linkage ELSE @], e, o, kind,
             Properties(storage, linkage, definition, IF name = "" THEN 0 ELSE 1))

synthetic_object(g, name) ==
    LET key == Ordinary(g.current, name)
        made == entity(g, key, name, "Variable")
        e == TheEntity(made, key)
    IN  bind_name([made EXCEPT !.entities[e].storage = "Static"], e)

\* A second mention of a known tag is a reference; a definition or a lone "struct S;" is a site.
reference(g, e, kind, start) ==
    IF \E r \in ToSet(g.references) : r.target = e /\ r.scope = g.current /\ r.start = start THEN g
    ELSE [Charge(g, 1, 4, 0) EXCEPT
            !.references = Append(@, [target |-> e, scope |-> g.current, kind |-> kind,
                                      start |-> start, at |-> graphAt])]

tag(g, it, o) ==
    LET key == Key("Record", "", it.id, 0)
        known == EntityOf(g, key) # {} /\ it.how = "mention"
        made == entity(g, key, it.name, "Record")
        e == TheEntity(made, key)
    IN  IF known THEN reference(made, e, "Tag", o)
        ELSE site(made, e, o, "Record", Properties("None", "None", it.how = "definition", 1))

enumerator(g, it, o) ==
    LET key == Key("Enumerator", "", it.id, 0)
        made == entity(g, key, it.name, "Enumerator")
    IN  site(made, TheEntity(made, key), o, "Enumerator", Properties("None", "None", TRUE, 1))

(* ------------------------------------------------------------------------ *)
(* Names                                                                     *)

\* entity_for_name: the current scope outwards; 0 when no scope binds the name.
Enclosing(g, in) ==
    LET up[n \in 0 .. Len(g.scopes)] ==
            IF n = 0 THEN <<>> ELSE <<n>> \o up[g.scopes[n].parent]
    IN  up[in]

entity_for_name(g, name) ==
    LET chain == Enclosing(g, g.current)
        at == SelectInSeq(chain, LAMBDA s : Bound(g, s, name) # {})
    IN  IF at = 0 THEN 0 ELSE (CHOOSE b \in Bound(g, chain[at], name) : TRUE).entity

typedef_reference(g, name, start) ==
    LET e == entity_for_name(g, name)
        key == Key("BuiltinTypedef", name, 0, 0)
        made == IF e = 0 THEN entity(g, key, name, "Typedef") ELSE g
    IN  reference(made, IF e = 0 THEN TheEntity(made, key) ELSE e, "Typedef", start)

\* begin_expression, the retained name, finish_expression: one node per written occurrence.
Retained(g, o) == \E x \in ToSet(g.expressions) : x.occurrence = o

NameExpressionAfresh(g, name, o) ==
    [Charge(intern_type(g, "Expression"), 1, 6, 1) EXCEPT
        !.expressions = Append(@, [occurrence |-> o, entity |-> entity_for_name(g, name), name |-> name,
                                   scope |-> g.current, at |-> graphAt])]

NameExpression(g, name, o) ==
    IF Retained(g, o) THEN g
    ELSE [Charge(intern_type(g, "Expression"), 1, 6, 1) EXCEPT
            !.expressions = Append(@, [occurrence |-> o, entity |-> entity_for_name(g, name), name |-> name,
                                       scope |-> g.current, at |-> graphAt])]

(* ------------------------------------------------------------------------ *)
(* The lexical rule, from the program's brackets and the order of its sites  *)

\* The openers still open before item i, innermost first; a body keeps its prototype open.
Brackets ==
    LET open[i \in 1 .. Len(graphUnit.program) + 1] ==
            IF i = 1 THEN <<>>
            ELSE LET it == GraphItem(i - 1)
                 IN  IF it.op \in {"open", "block"} THEN <<i - 1>> \o open[i - 1]
                     ELSE IF it.op = "end" \/ (it.op = "close" /\ ~it.body) THEN Tail(open[i - 1])
                     ELSE open[i - 1]
    IN  open

\* The brackets a site was declared in: a function belongs outside its own prototype.
Home(g, s) ==
    LET in == Brackets[g.sites[s].at]
    IN  IF GraphItem(g.sites[s].at).op = "close" /\ g.entities[g.sites[s].entity].kind # "Parameter"
        THEN Tail(in) ELSE in

SitesIn(g, in, name, before) ==
    {s \in DOMAIN g.sites :
        /\ g.sites[s].at <= before
        /\ Home(g, s) = in
        /\ g.entities[g.sites[s].entity].name = name
        /\ g.entities[g.sites[s].entity].kind \notin NotAName}

\* The latest declaration of the name in the innermost brackets that declared it by then; 0 for none.
InnermostSite(g, name, before) ==
    LET in == Brackets[before]
        around == {n \in 0 .. Len(in) : SitesIn(g, SubSeq(in, n + 1, Len(in)), name, before) # {}}
        nearest == CHOOSE n \in around : \A m \in around : n <= m
        found == SitesIn(g, SubSeq(in, nearest + 1, Len(in)), name, before)
    IN  IF around = {} THEN 0 ELSE CHOOSE s \in found : \A t \in found : t <= s

MeansTypedef(g, name) ==
    LET s == InnermostSite(g, name, graphAt)
    IN  IF s = 0 THEN name = "builtin" ELSE g.entities[g.sites[s].entity].kind = "Typedef"

DeclaringBrackets ==
    IF GraphItem(graphAt).op = "close" THEN Tail(Brackets[graphAt]) ELSE Brackets[graphAt]

\* What C lets a scope declare again: linked names and typedefs, each as itself.
Declarable(g, name, class) ==
    \A s \in SitesIn(g, DeclaringBrackets, name, graphAt) :
        /\ class # "local"
        /\ class = IF g.entities[g.sites[s].entity].kind = "Typedef" THEN "typedef"
                   ELSE IF g.entities[g.sites[s].entity].key.tag = "Linked" THEN "linked" ELSE "local"

(* ------------------------------------------------------------------------ *)
(* The catalogue pass                                                        *)

CatalogueKind(it) ==
    CASE it.op \in {"file", "typedef", "local", "old"} -> "InitDeclarator"
      [] it.op = "open" -> "Function"
      [] it.op = "param" -> "Parameter"
      [] it.op = "identifier" -> "OldStyleParameter"
      [] it.op = "tag" -> "Record"
      [] it.op = "enumerator" -> "Enumerator"
      [] it.op \in {"use", "call"} -> "Expression"
      [] OTHER -> "None"

Twin(it) == it.how \in {"twin", "twinclone"}

Catalogued(g, i) ==
    LET it == GraphItem(i)
        kind == CatalogueKind(it)
        width == IF it.how = "inserted" THEN 0 ELSE 1
        once == Occurrence(g, kind, i, i, width, it.how = "attribute")
        lone == it.op = "tag" /\ it.how = "standalone"
    IN  IF kind = "None" THEN g
        ELSE Charge(IF Twin(it) THEN Occurrence(once, kind, -i, i, width, FALSE) ELSE once,
                    0, IF lone THEN 1 ELSE 0, 0)

EmptyGraph ==
    [nodes |-> 0, edges |-> 0, bytes |-> 0, occurrences |-> <<>>, scopes |-> <<>>, entities |-> <<>>,
     sites |-> <<>>, names |-> {}, types |-> <<>>, references |-> <<>>, expressions |-> <<>>,
     ambiguous |-> <<>>, coverage |-> <<>>, current |-> 0]

GraphInit ==
    /\ graphStatus = "cataloguing"
    /\ graphAt = 1
    /\ graph = scope(EmptyGraph, "File", 1, 0)
    /\ \E i \in DOMAIN GraphPrograms : \E p \in GraphPrograms[i], l \in GraphLimits :
        graphUnit = [program |-> p, limits |-> l]

Proceed(g, next) ==
    IF WithinLimits(g)
    THEN graph' = g /\ graphAt' = next /\ UNCHANGED <<graphUnit, graphStatus>>
    ELSE graphStatus' = "failed" /\ UNCHANGED <<graphUnit, graph, graphAt>>

\* Builder::new visits the whole unit; the first error stops the walk and fails it.
Catalogue ==
    /\ graphStatus = "cataloguing"
    /\ LET items == [i \in DOMAIN graphUnit.program |-> i]
           whole == FoldLeft(LAMBDA g, i : Catalogued(g, i), graph, items)
           shallow == \A i \in DOMAIN items : Len(Brackets[i]) < MaxGraphDepth
       IN  IF WithinLimits(whole) /\ shallow
           THEN graphStatus' = "checking" /\ graph' = whole
           ELSE graphStatus' = "failed" /\ graph' = graph
    /\ UNCHANGED <<graphUnit, graphAt>>

(* ------------------------------------------------------------------------ *)
(* The checker's calls                                                       *)

CheckingItem(ops) ==
    /\ graphStatus = "checking"
    /\ graphAt <= Len(graphUnit.program)
    /\ GraphItem(graphAt).op \in ops

AtFile == graph.scopes[graph.current].kind = "File"

\* The node an item hands to the Builder: a clone has an address the catalogue never saw.
AddressKey(i) == IF GraphItem(i).how \in {"clone", "twinclone"} THEN 0 ELSE i
Found(kind) == find(graph, kind, AddressKey(graphAt), graphAt)

CheckFile ==
    /\ CheckingItem({"file", "typedef"})
    /\ AtFile
    /\ Declarable(graph, GraphItem(graphAt).name, IF GraphItem(graphAt).op = "typedef" THEN "typedef" ELSE "linked")
    /\ Proceed(file_declaration(graph, GraphItem(graphAt), Found("InitDeclarator"), FALSE), graphAt + 1)

OpenPrototype ==
    /\ CheckingItem({"open"})
    /\ Proceed(enter_scope(graph, "Prototype", 0), graphAt + 1)

InPrototype == graph.scopes[graph.current].kind = "Prototype"

CheckParameter ==
    /\ CheckingItem({"param", "old"})
    /\ InPrototype
    /\ GraphItem(graphAt).name = "" \/ Declarable(graph, GraphItem(graphAt).name, "local")
    /\ Proceed(local_declaration(graph, GraphItem(graphAt).name, "Parameter", FALSE,
                                 Found(CatalogueKind(GraphItem(graphAt))), "Automatic", FALSE),
               graphAt + 1)

\* The position of the "open" of the current prototype, and the identifiers its list declares.
OpenedAt == CHOOSE i \in 1 .. graphAt :
                /\ GraphItem(i).op = "open"
                /\ \A j \in i + 1 .. graphAt : GraphItem(j).op # "open"
Implicit ==
    SetToSortSeq({i \in OpenedAt .. graphAt :
                    /\ GraphItem(i).op = "identifier"
                    /\ SitesIn(graph, Brackets[graphAt], GraphItem(i).name, graphAt) = {}},
                 LAMBDA i, j : i < j)

\* An identifier list declares nothing by itself.
SkipIdentifier ==
    /\ CheckingItem({"identifier"})
    /\ Proceed(graph, graphAt + 1)

\* The C90 parameters nothing declared, then the function itself, then its body in the same scope.
ClosePrototype ==
    /\ CheckingItem({"close"})
    /\ InPrototype
    /\ LET it == GraphItem(graphAt)
           prototype == graph.current
           whole == FoldLeft(LAMBDA g, i : local_declaration(g, GraphItem(i).name, "Parameter", FALSE,
                                find(g, "OldStyleParameter", i, i), "Automatic", FALSE),
                            graph, Implicit)
           left == leave_scope(whole)
           atFile == left.scopes[left.current].kind = "File"
           declared == IF atFile
                       THEN file_declaration(left, it, find(left, "Function", OpenedAt, OpenedAt), it.body)
                       ELSE local_declaration(left, it.name, "Function", TRUE,
                                find(left, "Function", OpenedAt, OpenedAt), "None", FALSE)
       IN  /\ it.body => atFile
           /\ Declarable(left, it.name, "linked")
           /\ IF ~it.body THEN Proceed(declared, graphAt + 1)
              ELSE IF ~CanReuse(declared, prototype)
              THEN graphStatus' = "invalid" /\ UNCHANGED <<graphUnit, graph, graphAt>>
              ELSE Proceed(synthetic_object(enter_scope(declared, "Function", prototype), "__func__"),
                           graphAt + 1)

OpenBlock ==
    /\ CheckingItem({"block"})
    /\ Proceed(enter_scope(graph, "Block", 0), graphAt + 1)

CloseBlock ==
    /\ CheckingItem({"end"})
    /\ Proceed(leave_scope(graph), graphAt + 1)

CheckLocal ==
    /\ CheckingItem({"local"})
    /\ ~AtFile
    /\ LET it == GraphItem(graphAt)
       IN  /\ Declarable(graph, it.name, it.class)
           /\ Proceed(local_declaration(graph, it.name, it.kind, it.class = "linked", Found("InitDeclarator"),
                          IF it.kind = "Variable" THEN "Automatic" ELSE "None", it.class # "linked"),
                      graphAt + 1)

CheckTag ==
    /\ CheckingItem({"tag"})
    /\ Proceed(tag(graph, GraphItem(graphAt), Found("Record")), graphAt + 1)

CheckEnumerator ==
    /\ CheckingItem({"enumerator"})
    /\ Declarable(graph, GraphItem(graphAt).name, "local")
    /\ Proceed(enumerator(graph, GraphItem(graphAt), Found("Enumerator")), graphAt + 1)

CheckTypedefName ==
    /\ CheckingItem({"typename"})
    /\ MeansTypedef(graph, GraphItem(graphAt).name)
    /\ LET e == entity_for_name(graph, GraphItem(graphAt).name)
       IN  IF e # 0 /\ graph.entities[e].kind # "Typedef"
           THEN graphStatus' = "invalid" /\ UNCHANGED <<graphUnit, graph, graphAt>>
           ELSE Proceed(typedef_reference(graph, GraphItem(graphAt).name, graphAt), graphAt + 1)

\* An attribute argument is never checked; a name that has no occurrence is checked unretained.
CheckName ==
    /\ CheckingItem({"use"})
    /\ GraphItem(graphAt).name = "__func__" \/ ~MeansTypedef(graph, GraphItem(graphAt).name)
    /\ GraphItem(graphAt).name = "__func__" \/ InnermostSite(graph, GraphItem(graphAt).name, graphAt) # 0
    /\ LET o == Found("Expression")
       IN  IF GraphItem(graphAt).how = "attribute" THEN Proceed(graph, graphAt + 1)
           ELSE IF o = 0 THEN Proceed(Unfound(graph, graphAt), graphAt + 1)
           ELSE \E again \in BOOLEAN :
                  LET once == NameExpression(graph, GraphItem(graphAt).name, o)
                  IN  Proceed(IF again THEN NameExpression(once, GraphItem(graphAt).name, o) ELSE once,
                              graphAt + 1)

\* A C90 call of an undeclared name declares it where the call is, and then uses it.
CheckImplicitCall ==
    /\ CheckingItem({"call"})
    /\ ~AtFile
    /\ LET it == GraphItem(graphAt)
           o == Found("Expression")
           implied == Occurrence(graph, "ImplicitFunction", graphAt, graphAt, 1, FALSE)
           declared == local_declaration(implied, it.name, "Function", TRUE,
                           find(implied, "ImplicitFunction", graphAt, graphAt), "None", FALSE)
       IN  /\ ~MeansTypedef(graph, it.name)
           /\ Proceed(NameExpression(IF InnermostSite(graph, it.name, graphAt) = 0
                                     THEN declared ELSE graph, it.name, o),
                      graphAt + 1)

(* ------------------------------------------------------------------------ *)
(* finish                                                                    *)

Expressions(g) == {o \in DOMAIN g.occurrences : g.occurrences[o].kind = "Expression"}

CoveredBy(g, o) ==
    \/ Retained(g, o)
    \/ g.occurrences[o].attribute
    \/ g.occurrences[o].width = 0

StartOf(g, s) == g.occurrences[g.sites[s].occurrence].start

Unsorted(g) == g

Sorted(g) ==
    [g EXCEPT !.scopes = [n \in DOMAIN g.scopes |->
        [g.scopes[n] EXCEPT !.declarations =
            SortSeq(@, LAMBDA s, t : StartOf(g, s) < StartOf(g, t))]]]

finish ==
    /\ graphStatus = "checking"
    /\ graphAt > Len(graphUnit.program)
    /\ graph.current = 1
    /\ LET missing == {o \in Expressions(graph) : ~CoveredBy(graph, o)}
           count == Cardinality(Expressions(graph))
           counted == Charge(graph, count, count, 0)
       IN  /\ graphStatus' = IF ~WithinLimits(counted) THEN "failed"
                             ELSE IF missing # {} \/ graph.ambiguous # <<>> THEN "rejected"
                             ELSE "finished"
           /\ graph' = IF graphStatus' = "finished" THEN Sorted(counted) ELSE graph
           /\ UNCHANGED <<graphUnit, graphAt>>

GraphNext ==
    \/ Catalogue
    \/ CheckFile \/ OpenPrototype \/ CheckParameter \/ SkipIdentifier \/ ClosePrototype
    \/ OpenBlock \/ CloseBlock \/ CheckLocal \/ CheckTag \/ CheckEnumerator
    \/ CheckTypedefName \/ CheckName \/ CheckImplicitCall
    \/ finish

GraphSpec == GraphInit /\ [][GraphNext]_graphVars

(* ------------------------------------------------------------------------ *)
(* Properties                                                                *)

\* Every name and typedef reference the graph retains points at the entity C's scope rules give it:
\* the latest declaration, made before the use, in the innermost brackets of the program around the use
\* that declare the name (checked.rs bind_name, entity_for_name, enter_scope); names without any
\* site are the predefined ones.  The checks that call the graph inconsistent never fire.
NamesResolveLexically ==
    /\ graphStatus # "invalid"
    /\ \A x \in ToSet(graph.expressions) :
        LET s == InnermostSite(graph, x.name, x.at)
        IN  IF s = 0 THEN /\ x.entity # 0
                          /\ x.name = "__func__"
                          /\ graph.entities[x.entity].key.tag = "Ordinary"
            ELSE x.entity = graph.sites[s].entity
    /\ \A r \in ToSet(graph.references) : r.kind = "Typedef" =>
        LET s == InnermostSite(graph, graph.entities[r.target].name, r.at)
        IN  IF s = 0 THEN graph.entities[r.target].key.tag = "BuiltinTypedef"
            ELSE r.target = graph.sites[s].entity

\* Scopes and sites agree: every site is listed once, by its own scope; a parameter is a definition
\* exactly when its scope became a function body (checked.rs:656-669); body scopes sit in the file
\* scope, and a finished graph lists each scope's declarations in source order (checked.rs:1145).
ScopesHoldTheirSites ==
    /\ \A s \in DOMAIN graph.sites, n \in DOMAIN graph.scopes :
        Cardinality({i \in DOMAIN graph.scopes[n].declarations : graph.scopes[n].declarations[i] = s})
            = IF graph.sites[s].scope = n THEN 1 ELSE 0
    /\ \A s \in DOMAIN graph.sites : graph.entities[graph.sites[s].entity].kind = "Parameter" =>
        graph.sites[s].definition = (graph.scopes[graph.sites[s].scope].kind = "Function")
    /\ \A n \in DOMAIN graph.scopes : graph.scopes[n].kind = "Function" => graph.scopes[n].parent = 1
    /\ graphStatus = "finished" => \A n \in DOMAIN graph.scopes :
        LET d == graph.scopes[n].declarations
        IN  \A i, j \in DOMAIN d : i < j => StartOf(graph, d[i]) <= StartOf(graph, d[j])

\* What is retained is what was charged and never more than the limits (checked.rs:156-190), and a
\* finished graph accounts for every written expression exactly once, with no occurrence left in doubt.
RetainedIsCharged ==
    LET expressions == Cardinality(Expressions(graph))
        finished == graphStatus = "finished"
    IN  /\ WithinLimits(graph)
        /\ graph.nodes = Len(graph.occurrences) + Len(graph.scopes) + Len(graph.entities) + Len(graph.sites)
                           + Len(graph.types) + Len(graph.references) + Len(graph.expressions)
                           + Len(graph.ambiguous) + IF finished THEN expressions ELSE 0
        /\ graph.bytes = 2 * Cardinality({e \in DOMAIN graph.entities : graph.entities[e].name # ""})
                           + Cardinality(graph.names) + Len(graph.types) + Len(graph.expressions)
        /\ finished =>
            /\ graph.ambiguous = <<>>
            /\ \A o \in Expressions(graph) :
                Cardinality({i \in DOMAIN graph.expressions : graph.expressions[i].occurrence = o})
                    = IF graph.occurrences[o].attribute THEN 0 ELSE 1
=============================================================================
