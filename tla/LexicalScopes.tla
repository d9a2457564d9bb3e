--------------------------- MODULE LexicalScopes ---------------------------
(***************************************************************************)
(* The lexical scopes of toucan_semantic's Analyzer: tags and enumerators, *)
(* the scopes of prototypes, function bodies and blocks, and the parameter *)
(* scope of a definition, which is left and opened again for its body.     *)
(*                                                                         *)
(* The analyzer has one flat table of tags and one of constants.  A scope  *)
(* keeps a log of what each declaration replaced, and leaving it           *)
(* (leave_prototype) undoes the log from its end.  Entries of different    *)
(* names do not meet, so the model keeps the log of each name apart.       *)
(*                                                                         *)
(* An error ends the analysis and drops the analyzer, so nothing it leaves *)
(* behind is modelled.  Types, values of expressions and the ordinary      *)
(* names of the file are reduced to what the tables record about a name.   *)
(***************************************************************************)
EXTENDS Naturals, Sequences

CONSTANTS Tags,            \* names of structures, unions and enumerations
          Names,           \* ordinary identifiers
          Values,          \* values of enumerators
          None,            \* an absent binding
          Kinds,           \* what a tag can be: records of each sort and enum
          ScopeLimit,      \* lexical scope nesting of with_scope (128)
          PrototypeBound,  \* a bound of the model: depth at which prototypes open
          TypeBound,       \* a bound of the model: records and enumerations
          OpenBound,       \* a bound of the model: bodies open at once
          TrailingTypes    \* an attribute behind the declarator of a definition
                           \* (Clang) may name function types

ASSUME ScopesAssumption ==
    /\ None \notin Values
    /\ "enum" \in Kinds
    /\ ScopeLimit \in Nat \ {0} /\ PrototypeBound \in Nat
    /\ TypeBound \in Nat /\ OpenBound \in Nat
    /\ TrailingTypes \in BOOLEAN

Binding == [id : Nat, depth : Nat]

ASSUME NoBindingAssumption == None \notin Binding

TagTable == [Tags -> Binding \cup {None}]
ConstantTable == [Names -> Values \cup {None}]

\* What a scope says of an ordinary name: LexicalScope.names with .typedefs.
NameClasses == {"none", "object", "typedef", "enumerator"}

VARIABLES tags,           \* Analyzer.tags
          constants,      \* unit.constants
          file_names,     \* names of unit.declarations and unit.typedefs
          types,          \* unit.records and unit.enums: kind, scope, complete
          scopes,         \* Analyzer.lexical_scopes
          open,           \* record and enumeration bodies being analyzed
          function_scope, \* the captured FunctionScope or None
          stage,          \* progress of function_definition, or failed
          entered,        \* history: the tables when each scope was entered
          own             \* history: the tables at the end of the definition's
                          \* own parameter scope until its body, or None

vars == <<tags, constants, file_names, types, scopes, open, function_scope,
          stage, entered, own>>

Depth == Len(scopes)
InScope == Depth > 0
Top == scopes[Depth]
InBlock == InScope /\ Top.block
InPrototype == InScope /\ ~Top.block

\* A record or enumeration body is being analyzed directly in this scope.
Open == open # <<>> /\ open[Len(open)].depth = Depth
OpenEnum == Open /\ types[open[Len(open)].id].kind = "enum"

Running == stage # "failed"

\* Analyzer::scope
scope == IF InBlock THEN "Block" ELSE IF InPrototype THEN "Prototype" ELSE "File"

Init ==
    /\ tags = [t \in Tags |-> None]
    /\ constants = [n \in Names |-> None]
    /\ file_names = {}
    /\ types = <<>>
    /\ scopes = <<>>
    /\ open = <<>>
    /\ function_scope = None
    /\ stage = "file"
    /\ entered = <<>>
    /\ own = None

-----------------------------------------------------------------------------
(* Logs: for each name what its declarations in the scope replaced *)

\* A log undone from its beginning.
UndoneForwards(table, log) ==
    [x \in DOMAIN table |-> IF log[x] = <<>> THEN table[x] ELSE log[x][Len(log[x])]]

\* Undoing a log from its end leaves what its first entry for a name replaced.
Undone(table, log) ==
    [x \in DOMAIN table |-> IF log[x] = <<>> THEN table[x] ELSE log[x][1]]

LogTag(log, t) == [log EXCEPT ![t] = Append(@, tags[t])]
LogHidden(log, t) == [log EXCEPT ![t] = Append(Append(@, tags[t]), None)]
LogConstant(log, n) == [log EXCEPT ![n] = Append(@, constants[n])]

-----------------------------------------------------------------------------
(* Tags: record, enum_type, bind_tag and the block declarations of a tag *)

\* A body finds the tag of an outer scope.
HereForgetsDepth(t) == tags[t] # None

\* A use finds the tag of any scope, a body only that of its own scope.
Here(t) == tags[t] # None /\ tags[t].depth = Depth

NewType(kind, complete) == [kind |-> kind, scope |-> scope, complete |-> complete]

\* A binding that is not logged when it hides one of a scope.
BindTagOnce(t) ==
    LET id == Len(types) + 1
    IN  /\ tags' = [tags EXCEPT ![t] = [id |-> id, depth |-> Depth]]
        /\ scopes' = IF ~InScope THEN scopes
                     ELSE [scopes EXCEPT
                             ![Depth].tags = IF tags[t] # None /\ tags[t].depth > 0 THEN @
                                             ELSE LogTag(@, t),
                             ![Depth].ids = @ \cup {id}]

\* The new record or enumeration, under its name and in the lists of its scope.
bind_tag(t) ==
    LET id == Len(types) + 1
    IN  /\ tags' = [tags EXCEPT ![t] = [id |-> id, depth |-> Depth]]
        /\ scopes' = IF ~InScope THEN scopes
                     ELSE [scopes EXCEPT ![Depth].tags = LogTag(@, t),
                                         ![Depth].ids = @ \cup {id}]

\* The first mention of a tag, without a body.
IntroduceTag(t, kind) ==
    /\ Running /\ tags[t] = None /\ Len(types) < TypeBound
    /\ types' = Append(types, NewType(kind, FALSE))
    /\ bind_tag(t)
    /\ UNCHANGED <<constants, file_names, open, function_scope, stage, entered, own>>

\* `struct t;' alone in a block starts a tag of this block.  The outer one is
\* taken out of the table before record() binds the new one, so that the log
\* has two entries of the name.
StandaloneTag(t, kind) ==
    LET id == Len(types) + 1
    IN  /\ Running /\ InBlock /\ ~Open /\ kind # "enum" /\ Len(types) < TypeBound
        /\ tags[t] # None /\ tags[t].depth < Depth
        /\ types' = Append(types, NewType(kind, FALSE))
        /\ tags' = [tags EXCEPT ![t] = [id |-> id, depth |-> Depth]]
        /\ scopes' = [scopes EXCEPT
                        ![Depth].tags = LogHidden(@, t),
                        ![Depth].ids = @ \cup {id}]
        /\ UNCHANGED <<constants, file_names, open, function_scope, stage, entered, own>>

\* A body starts: of the tag of this scope if it is of the right kind and not
\* complete, otherwise of a new one.
DefinesComplete(id, kind) == types[id].kind # kind \/ types[id].complete

DefinesAgain(id, kind) ==
    \/ types[id].kind # kind
    \/ types[id].complete
    \/ kind = "enum" /\ \E i \in DOMAIN open : open[i].id = id

BeginBody(t, kind) ==
    /\ Running /\ Len(open) < OpenBound
    /\ open' = Append(open, [id |-> IF Here(t) THEN tags[t].id ELSE Len(types) + 1,
                             depth |-> Depth])
    /\ IF Here(t)
       THEN ~DefinesAgain(tags[t].id, kind) /\ UNCHANGED <<types, tags, scopes>>
       ELSE /\ Len(types) < TypeBound
            /\ types' = Append(types, NewType(kind, FALSE))
            /\ bind_tag(t)
    /\ UNCHANGED <<constants, file_names, function_scope, stage, entered, own>>

\* complete_record and complete_enum end: what they set is set whatever
\* happened to the type while its members were analyzed.
EndBody ==
    /\ Running /\ Open
    /\ types' = [types EXCEPT ![open[Len(open)].id].complete = TRUE]
    /\ open' = SubSeq(open, 1, Len(open) - 1)
    /\ UNCHANGED <<tags, constants, file_names, scopes, function_scope, stage, entered, own>>

-----------------------------------------------------------------------------
(* Ordinary names *)

NamedHere(n) ==
    IF InScope THEN Top.names[n] # "none"
    ELSE constants[n] # None \/ n \in file_names

\* One enumerator of complete_enum.
Enumerator(n, v) ==
    /\ Running /\ OpenEnum /\ ~NamedHere(n)
    /\ constants' = [constants EXCEPT ![n] = v]
    /\ scopes' = IF ~InScope THEN scopes
                 ELSE [scopes EXCEPT ![Depth].constants = LogConstant(@, n),
                                     ![Depth].names[n] = "enumerator"]
    /\ UNCHANGED <<tags, file_names, types, open, function_scope, stage, entered, own>>

\* The enumerator stays visible.
HideNothing(n, class) ==
    /\ UNCHANGED constants
    /\ scopes' = [scopes EXCEPT
                    ![Depth].constants = LogConstant(@, n),
                    ![Depth].names[n] = class]

\* A name in a prototype or block hides an enumerator: check_parameter,
\* bind_local and the typedefs of block_declaration_inner.
Hide(n, class) ==
    /\ constants' = [constants EXCEPT ![n] = None]
    /\ scopes' = [scopes EXCEPT
                    ![Depth].constants = LogConstant(@, n),
                    ![Depth].names[n] = class]

\* check_parameter and bind_local; block_declaration_inner binds a typedef.  An
\* extern or typedef declared again in its scope binds nothing.
DeclareLocal(n, class) ==
    /\ Running /\ InScope /\ ~Open /\ ~NamedHere(n)
    /\ Top.block \/ class = "object"
    /\ Hide(n, class)
    /\ UNCHANGED <<tags, file_names, types, open, function_scope, stage, entered, own>>

\* An object, function or typedef of the file; a function being defined is
\* declared when its declarator has been analyzed.
DeclareFile(n) ==
    /\ stage \in {"file", "declared"} /\ ~InScope /\ ~Open
    /\ constants[n] = None
    /\ file_names' = file_names \cup {n}
    /\ UNCHANGED <<tags, constants, types, scopes, open, function_scope, stage, entered, own>>

-----------------------------------------------------------------------------
(* Scopes *)

EmptyScope(block, definition) ==
    [block |-> block, definition |-> definition,
     tags |-> [t \in Tags |-> <<>>], constants |-> [n \in Names |-> <<>>],
     names |-> [n \in Names |-> "none"], ids |-> {}]

Tables == [tags |-> tags, constants |-> constants]

Enter(new) ==
    /\ scopes' = Append(scopes, new)
    /\ entered' = Append(entered, Tables)

\* A function derivation in a declarator (declarator_at,
\* check_old_style_parameters).  The one that declares the function being
\* defined is `definition'; the declarators around it and inside its parameters
\* have prototypes of their own.
EnterPrototype(definition) ==
    /\ Running /\ Depth < PrototypeBound
    /\ definition => stage = "header" /\ ~InScope /\ ~Open
    /\ stage = "declared" /\ ~InScope => TrailingTypes
    /\ Enter(EmptyScope(FALSE, definition))
    /\ UNCHANGED <<tags, constants, file_names, types, open, function_scope, stage, own>>

\* with_scope for a block or statement expression of a body, with its limit.
EnterBlock ==
    /\ stage = "body" /\ Depth < ScopeLimit
    /\ Enter(EmptyScope(TRUE, FALSE))
    /\ UNCHANGED <<tags, constants, file_names, types, open, function_scope, stage, own>>

\* The FunctionScope of leave_prototype: what each logged name now is.
Bound(table, log) == [x \in DOMAIN table |-> IF log[x] = <<>> THEN None ELSE table[x]]

\* Only tags that hide nothing.
CapturedNew(left) ==
    [tags |-> [t \in Tags |-> IF left.tags[t] = <<None>> THEN tags[t] ELSE None],
     constants |-> Bound(constants, left.constants),
     parameters |-> {n \in Names : left.names[n] = "object"},
     ids |-> left.ids]

Captured(left) ==
    [tags |-> Bound(tags, left.tags),
     constants |-> Bound(constants, left.constants),
     parameters |-> {n \in Names : left.names[n] = "object"},
     ids |-> left.ids]

capture_function_scope == stage \in {"header", "declared"}

\* leave_prototype, for prototypes, blocks and bodies.
leave_prototype ==
    /\ Running /\ InScope /\ ~Open
    /\ function_scope' = IF capture_function_scope /\ ~Top.block THEN Captured(Top)
                         ELSE function_scope
    /\ tags' = Undone(tags, Top.tags)
    /\ constants' = Undone(constants, Top.constants)
    /\ scopes' = SubSeq(scopes, 1, Depth - 1)
    /\ entered' = SubSeq(entered, 1, Depth - 1)
    /\ stage' = IF Top.definition THEN "declared"
                ELSE IF stage = "body" /\ Depth = 1 THEN "file" ELSE stage
    /\ own' = IF Top.definition THEN [tables |-> Tables, scope |-> Top] ELSE own
    /\ UNCHANGED <<file_names, types, open>>

\* The first half of function_definition: the scope of the parameters is to be
\* captured while the declaration is analyzed.
BeginDefinition ==
    /\ stage = "file" /\ ~InScope /\ ~Open
    /\ stage' = "header"
    /\ function_scope' = None
    /\ own' = None
    /\ UNCHANGED <<tags, constants, file_names, types, scopes, open, entered>>

\* The second half: the body is a scope that starts with the captured tags,
\* enumerators and parameters; its types become types of a block.
BodyNames(captured) ==
    [n \in Names |-> IF n \in captured.parameters THEN "object"
                    ELSE IF captured.constants[n] # None THEN "enumerator" ELSE "none"]

BodyScope(captured) ==
    [EmptyScope(TRUE, FALSE) EXCEPT
        !.tags = [t \in Tags |-> IF captured.tags[t] = None THEN <<>> ELSE <<tags[t]>>],
        !.constants = [n \in Names |-> IF BodyNames(captured)[n] = "none" THEN <<>>
                                       ELSE <<constants[n]>>],
        !.names = BodyNames(captured)]

EnterBody ==
    /\ stage = "declared" /\ ~InScope /\ ~Open /\ function_scope # None
    /\ Enter(BodyScope(function_scope))
    /\ tags' = [t \in Tags |->
                   IF function_scope.tags[t] = None THEN tags[t]
                   ELSE [id |-> function_scope.tags[t].id, depth |-> Depth + 1]]
    /\ constants' = [n \in Names |->
                        IF n \in function_scope.parameters THEN None
                        ELSE IF function_scope.constants[n] # None THEN function_scope.constants[n]
                        ELSE constants[n]]
    /\ types' = [i \in 1..Len(types) |->
                    IF i \in function_scope.ids THEN [types[i] EXCEPT !.scope = "Block"]
                    ELSE types[i]]
    /\ function_scope' = None
    /\ stage' = "body"
    /\ own' = None
    /\ UNCHANGED <<file_names, open>>

\* The errors of the handlers above.  The analyzer is dropped.
Rejected ==
    \/ \E t \in Tags, kind \in Kinds :
          \/ tags[t] # None /\ types[tags[t].id].kind # kind
          \/ Here(t) /\ DefinesAgain(tags[t].id, kind)
    \/ \E n \in Names : NamedHere(n) /\ (OpenEnum \/ InScope)
    \/ \E n \in Names : ~InScope /\ constants[n] # None
    \/ stage = "body" /\ Depth >= ScopeLimit

Fail ==
    /\ Running /\ Rejected
    /\ stage' = "failed"
    /\ UNCHANGED <<tags, constants, file_names, types, scopes, open, function_scope, entered, own>>

\* The analyzer is gone.
Failed == stage = "failed" /\ UNCHANGED vars

Next ==
    \/ \E t \in Tags, kind \in Kinds :
          IntroduceTag(t, kind) \/ StandaloneTag(t, kind) \/ BeginBody(t, kind)
    \/ EndBody
    \/ \E n \in Names, v \in Values : Enumerator(n, v)
    \/ \E n \in Names, class \in {"object", "typedef"} : DeclareLocal(n, class)
    \/ \E n \in Names : DeclareFile(n)
    \/ \E definition \in BOOLEAN : EnterPrototype(definition)
    \/ EnterBlock
    \/ leave_prototype
    \/ BeginDefinition
    \/ EnterBody
    \/ Fail
    \/ Failed

Spec == Init /\ [][Next]_vars

-----------------------------------------------------------------------------
(* Properties *)

\* The tables as the scope at depth d sees them.
TablesAt(d) == IF d = Depth THEN Tables ELSE entered[d + 1]

ScopeRecord == [block : BOOLEAN, definition : BOOLEAN,
                tags : [Tags -> Seq(Binding \cup {None})],
                constants : [Names -> Seq(Values \cup {None})],
                names : [Names -> NameClasses], ids : SUBSET Nat]
TypeRecord == [kind : Kinds, scope : {"File", "Prototype", "Block"}, complete : BOOLEAN]
TableRecord == [tags : TagTable, constants : ConstantTable]
FunctionScope == [tags : TagTable, constants : ConstantTable,
                  parameters : SUBSET Names, ids : SUBSET Nat]

\* The types of the analyzer's tables and scopes.
TypeOK ==
    /\ tags \in TagTable
    /\ constants \in ConstantTable
    /\ file_names \subseteq Names
    /\ types \in Seq(TypeRecord)
    /\ scopes \in Seq(ScopeRecord)
    /\ open \in Seq([id : Nat, depth : Nat])
    /\ function_scope = None \/ function_scope \in FunctionScope
    /\ stage \in {"file", "header", "declared", "body", "failed"}
    /\ entered \in Seq(TableRecord)
    /\ Len(entered) = Len(scopes)

\* The log of every scope, undone, gives the tables as they were when the scope
\* was entered: leave_prototype is right wherever it will be called.
LogsRestore ==
    \A d \in 1..Depth :
        /\ Undone(TablesAt(d).tags, scopes[d].tags) = entered[d].tags
        /\ Undone(TablesAt(d).constants, scopes[d].constants) = entered[d].constants

\* The inductive invariant.
ScopesInv == TypeOK /\ LogsRestore

\* Leaving a scope restores the tables around it exactly, whatever was declared
\* in it, once or several times, and nothing declared in it reaches them.
Stack == [i \in 1..(Depth + 1) |-> TablesAt(i - 1)]
Lexical == INSTANCE ScopeStack WITH stack <- Stack
ImplementsScopeStack == Lexical!Spec

\* The depth kept with a tag is that of the innermost scope that binds it: with
\* another one record() and enum_type() would complete a type of an outer scope
\* or refuse to hide it.
BindersOf(t, d) == {e \in 1..d : scopes[e].tags[t] # <<>>}

TagDepthAt(d) ==
    \A t \in Tags :
        LET binding == TablesAt(d).tags[t]
        IN  IF BindersOf(t, d) = {} THEN binding # None => binding.depth = 0
            ELSE /\ binding # None
                 /\ binding.depth \in BindersOf(t, d)
                 /\ \A e \in BindersOf(t, d) : e <= binding.depth

TagDepthExact == \A d \in 0..Depth : TagDepthAt(d)

\* Analyzer::scope when the scope at depth d was the innermost one.
ScopeName(d) == IF d = 0 THEN "File" ELSE IF scopes[d].block THEN "Block" ELSE "Prototype"

\* A body completes a type of the scope it is written in, also when the scope is
\* that of a function's body and the type was named among its parameters.
BodiesStayInScope ==
    \A i \in DOMAIN open : types[open[i].id].scope = ScopeName(open[i].depth)

\* unit.constants has a name exactly when its innermost declaration is an
\* enumerator: a parameter, local object or typedef hides it, and it is back
\* behind the scope.
NamersOf(n, d) == {e \in 1..d : scopes[e].names[n] # "none"}

ConstantsAt(d) ==
    \A n \in Names :
        LET visible == TablesAt(d).constants[n] # None
        IN  /\ NamersOf(n, d) = {} =>
                  TablesAt(d).constants[n] = TablesAt(0).constants[n]
            /\ \A e \in NamersOf(n, d) :
                  (\A f \in NamersOf(n, d) : f <= e) =>
                      (visible <=> scopes[e].names[n] = "enumerator")

ConstantsVisible ==
    /\ \A d \in 0..Depth : ConstantsAt(d)
    /\ \A n \in file_names : TablesAt(0).constants[n] = None

\* "Bindings introduced in a definition's parameter list remain visible in its
\* body" (FunctionScope): the body starts with the tags, enumerators and
\* parameters of the definition's own parameter list and with no others.
BodySeesItsParameters ==
    [][stage = "declared" /\ stage' = "body" =>
          /\ \A t \in Tags :
                IF own.scope.tags[t] = <<>> THEN tags'[t] = tags[t]
                ELSE tags'[t] # None /\ tags'[t].id = own.tables.tags[t].id
          /\ \A n \in Names :
                /\ scopes'[1].names[n] = own.scope.names[n]
                /\ own.scope.names[n] # "none" =>
                      constants'[n] = own.tables.constants[n]]_vars

Completed == open[Len(open)].id
Completes == Len(open') < Len(open)

\* "enum is defined more than once" (enum_type): an enumeration gets its
\* enumerators once, also when its body is inside its own body.
EnumsDefinedOnce ==
    [][Completes /\ types[Completed].kind = "enum" => ~types[Completed].complete]_vars

\* "record is defined more than once" (complete_record): no structure or union
\* is completed when it already is.
RecordsDefinedOnce ==
    [][Completes /\ types[Completed].kind # "enum" => ~types[Completed].complete]_vars

\* A body completes a type of the scope it is written in, a function's body starts
\* with the bindings of its own parameter list and no others, and an enumeration
\* gets its enumerators once (record_type, enum_type, FunctionScope).
BodiesScoped == []BodiesStayInScope /\ BodySeesItsParameters /\ EnumsDefinedOnce

-----------------------------------------------------------------------------
(* The inductive invariant of BodiesScoped *)

\* The type of a visible tag belongs to the scope that binds the tag, and a
\* prototype knows the types of its tags.
BindingScoped(binding, d) ==
    /\ binding.depth \in 0..d
    /\ binding.id \in 1..Len(types)
    /\ types[binding.id].scope = ScopeName(binding.depth)
    /\ d > 0 /\ binding.depth = d /\ ~scopes[d].block => binding.id \in scopes[d].ids

TagsScoped ==
    \A d \in 0..Depth : \A t \in Tags :
        TablesAt(d).tags[t] # None => BindingScoped(TablesAt(d).tags[t], d)

AllPrototype(ids) == \A i \in ids : i \in 1..Len(types) /\ types[i].scope = "Prototype"

PrototypesScoped == \A d \in 1..Depth : ~scopes[d].block => AllPrototype(scopes[d].ids)

CaptureScoped ==
    function_scope # None =>
        /\ AllPrototype(function_scope.ids)
        /\ \A t \in Tags : function_scope.tags[t] # None =>
                             function_scope.tags[t].id \in function_scope.ids

\* Bodies are nested as the scopes are, and none completes an enumeration that
\* another one is completing or has completed.
BodiesNested ==
    /\ \A i \in DOMAIN open : open[i].depth \in 0..Depth /\ open[i].id \in 1..Len(types)
    /\ \A i, j \in DOMAIN open : i <= j => open[i].depth <= open[j].depth

EnumsOpenOnce ==
    \A i \in DOMAIN open : types[open[i].id].kind = "enum" =>
        /\ ~types[open[i].id].complete
        /\ \A j \in DOMAIN open : open[j].id = open[i].id => j = i

\* A prototype logs a constant for each name it declares, and declares no typedef.
NamesLogged ==
    \A d \in 1..Depth : \A n \in Names :
        /\ scopes[d].names[n] = "none" <=> scopes[d].constants[n] = <<>>
        /\ scopes[d].names[n] = "typedef" => scopes[d].block

DefinitionOutermost ==
    \A d \in 1..Depth : scopes[d].definition => d = 1 /\ ~scopes[d].block /\ stage \in {"header", "failed"}

\* Between the declarator and the body of a definition the captured scope is that
\* of its own parameters.
OwnComplete ==
    /\ own.tables \in TableRecord /\ own.scope \in ScopeRecord
    /\ \A t \in Tags : own.scope.tags[t] # <<>> => own.tables.tags[t] # None
    /\ \A n \in Names :
          /\ own.scope.names[n] = "none" <=> own.scope.constants[n] = <<>>
          /\ own.scope.names[n] # "typedef"
          /\ own.scope.names[n] # "none" =>
                (own.tables.constants[n] # None <=> own.scope.names[n] = "enumerator")

OwnCaptured ==
    stage = "declared" /\ ~TrailingTypes =>
        /\ ~InScope
        /\ OwnComplete
        /\ function_scope = [tags |-> Bound(own.tables.tags, own.scope.tags),
                             constants |-> Bound(own.tables.constants, own.scope.constants),
                             parameters |-> {n \in Names : own.scope.names[n] = "object"},
                             ids |-> own.scope.ids]

\* What BodiesStayInScope and EnumsDefinedOnce rest on.
TypesInv ==
    /\ TagsScoped /\ PrototypesScoped /\ CaptureScoped
    /\ BodiesNested /\ BodiesStayInScope /\ EnumsOpenOnce

\* What BodySeesItsParameters rests on.
CaptureInv == NamesLogged /\ DefinitionOutermost /\ OwnCaptured
=============================================================================
