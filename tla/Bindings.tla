------------------------------ MODULE Bindings ------------------------------
(* Rust bindings from an analyzed translation unit: the roots that are         *)
(* selected, the depth-first collection of the types they reach, the checks    *)
(* made before emission, and the items that are emitted.  A type is            *)
(* [k, n, of]; a generated text is the set of the type names it mentions.      *)
EXTENDS Integers, Sequences, FiniteSets, SequencesExt

CONSTANTS Jobs,       \* [unit, options]: see below
          MaxNesting  \* binding limit on type nesting (256)

(* unit: records [id -> [name, fields, complete, union, packed, bitPadding]],   *)
(* enums [id -> name], all of file scope, rustified and zeroed (enum ids),       *)
(* order (tag types),                                                          *)
(* typedefs [name -> type], declarations                                       *)
(* <<[name, kind, ty, static, defined, unusable, abi, library]>>.              *)
(* options: blocked (names), all or allowed (names), selecting, retain,        *)
(* nullable, definitions, dependencies [key -> names], derive [copy, debug,    *)
(* partial_eq, eq, default].                                                   *)
VARIABLES job,        \* one member of Jobs
          phase,      \* [at, next]: the loop of `generate` and its next element
          pending,    \* types still to collect, innermost call first
          collected,  \* [records, enums, aliases, layoutAliases, external, enumerators, dependencies, atomics]
          chosen,     \* selected declarations, in order
          traits,     \* record -> derived traits
          output,     \* extern blocks as written: [open], [item], [close]
          outcome     \* "running", "error" or "done"

bindingVars == <<job, phase, pending, collected, chosen, traits, output, outcome>>
unit == job.unit
options == job.options

Ty(k, n, of) == [k |-> k, n |-> n, of |-> of]
AliasType(name) == Ty("alias", name, <<>>)
Key(k, n) == <<k, n>>
RECURSIVE resolve(_)
resolve(ty) == IF ty.k = "alias" THEN resolve(unit.typedefs[ty.n]) ELSE ty
IsAtomic(ty) == resolve(ty).k = "atomic"
atomic_value(ty) == resolve(ty).of[1]

------------------------------------------------------------------------------
(* Caller-owned types.                                                         *)
blocks_type(name) == name \in options.blocked
FirstTypedefOf(ty) ==
    LET names == {i \in DOMAIN unit.declarations :
                    unit.declarations[i].kind = "typedef" /\ resolve(unit.declarations[i].ty) = ty}
    IN IF names = {} THEN "" ELSE unit.declarations[CHOOSE i \in names : \A j \in names : i <= j].name
TagName(ty) == IF ty.k = "rec" THEN unit.records[ty.n].name ELSE unit.enums[ty.n]
\* {} or one key.
external_key(ty) ==
    CASE options.blocked = {} -> {}
      [] ty.k = "alias" -> IF blocks_type(ty.n) THEN {Key("alias", ty.n)} ELSE {}
      [] ty.k \in {"rec", "enum"} /\ TagName(ty) # "" -> IF blocks_type(TagName(ty)) THEN {Key(ty.k, ty.n)} ELSE {}
      [] ty.k \in {"rec", "enum"} -> IF blocks_type(FirstTypedefOf(ty)) THEN {Key("alias", FirstTypedefOf(ty))} ELSE {}
      [] OTHER -> {}
IsExternal(ty) == external_key(ty) # {}

\* Facts about a caller-owned type only grow.
Registered(c, ty, referenced, layout) ==
    LET key == CHOOSE k \in external_key(ty) : TRUE
        known == key \in DOMAIN c.external
        fact == IF known THEN c.external[key] ELSE [referenced |-> FALSE, layout |-> FALSE]
        enough == known /\ (~ referenced \/ fact.referenced) /\ (~ layout \/ fact.layout)
    IN IF enough THEN c
       ELSE [c EXCEPT !.external = [k \in DOMAIN @ \cup {key} |-> IF k = key THEN [referenced |-> referenced, layout |-> layout] ELSE @[k]]]
register_external(c, ty, referenced, layout) == IF IsExternal(ty) THEN Registered(c, ty, referenced, layout) ELSE c

------------------------------------------------------------------------------
(* Collection.                                                                 *)
Use(ty, depth, layout) == [ty |-> ty, depth |-> depth, layout |-> layout]
Fields(id) == unit.records[id].fields
OwnKey(ty) == Key(ty.k, ty.n)
collect_source_dependencies(ty, depth) ==
    IF OwnKey(ty) \in DOMAIN options.dependencies
    THEN LET names == SetToSeq(options.dependencies[OwnKey(ty)])
         IN [i \in DOMAIN names |-> Use(AliasType(names[i]), depth + 1, TRUE)]
    ELSE <<>>
FieldUses(id, depth) == [i \in DOMAIN Fields(id) |-> Use(Fields(id)[i], depth + 1, TRUE)]

\* What lies behind a blocked definition is kept when its types are retained.
ExternalUses(c, ty, depth) ==
    IF ~ options.retain \/ ty.k \notin {"alias", "rec"} \/ OwnKey(ty) \in c.dependencies THEN <<>>
    ELSE collect_source_dependencies(ty, depth) \o
         (IF ty.k = "alias" THEN <<Use(unit.typedefs[ty.n], depth + 1, FALSE)>> ELSE FieldUses(ty.n, depth))
MarkExternal(c, ty) ==
    IF options.retain /\ ty.k \in {"alias", "rec"} THEN [c EXCEPT !.dependencies = @ \cup {OwnKey(ty)}] ELSE c

\* A call passes atomic pointers by value.
collect_call_value(ty, depth) ==
    <<Use(ty, depth, TRUE)>> \o
    (IF IsAtomic(ty) /\ resolve(atomic_value(ty)).k = "ptr" THEN <<Use(atomic_value(ty), depth + 1, TRUE)>> ELSE <<>>)
\* Atomic storage is one representation for each value type; an atomic pointer names its pointee.
AtomicPointer(ty) == resolve(atomic_value(ty)).k = "ptr" /\ resolve(resolve(atomic_value(ty)).of[1]).k # "fun"
AtomicUses(c, ty, depth) ==
    IF IsAtomic(ty) /\ atomic_value(ty) \notin c.atomics /\ AtomicPointer(ty)
    THEN <<Use(resolve(atomic_value(ty)).of[1], depth + 1, TRUE)>> ELSE <<>>

\* Mutant: an alias is followed once.
NeverUpgrades(c, use) == FALSE
\* A use by value follows an alias again that was only seen behind a pointer.
Upgrades(c, use) == options.blocked # {} /\ use.layout /\ use.ty.n \notin c.layoutAliases
AliasUses(c, use) ==
    IF use.ty.n \notin c.aliases \/ Upgrades(c, use)
    THEN collect_source_dependencies(use.ty, use.depth) \o <<Use(unit.typedefs[use.ty.n], use.depth + 1, use.layout)>>
    ELSE <<>>
KindUses(c, use) ==
    LET ty == use.ty
        d == use.depth
    IN CASE ty.k = "alias" -> AliasUses(c, use)
         [] ty.k = "rec" -> IF ty.n \in c.records THEN <<>> ELSE collect_source_dependencies(ty, d) \o FieldUses(ty.n, d)
         [] ty.k = "ptr" -> <<Use(ty.of[1], d + 1, FALSE)>>
         [] ty.k = "arr" -> <<Use(ty.of[1], d + 1, use.layout)>>
         [] ty.k = "fun" -> FlattenSeq([i \in DOMAIN ty.of |-> collect_call_value(ty.of[i], d + 1)])
         [] OTHER -> <<>>
Recorded(c, use) ==
    LET ty == use.ty
        atomics == IF IsAtomic(ty) THEN [c EXCEPT !.atomics = @ \cup {atomic_value(ty)}] ELSE c
    IN CASE ty.k = "alias" ->
              [atomics EXCEPT !.aliases = @ \cup {ty.n},
                              !.layoutAliases = IF options.blocked # {} /\ use.layout THEN @ \cup {ty.n} ELSE @]
         [] ty.k = "rec" -> [atomics EXCEPT !.records = @ \cup {ty.n}]
         [] ty.k = "enum" -> [atomics EXCEPT !.enums = @ \cup {ty.n}]
         [] OTHER -> atomics
\* The types stored in ty: records and arrays are followed, pointers are not.
RECURSIVE Storage(_, _)
Storage(type, seen) ==
    LET ty == resolve(type)
    IN {ty} \cup CASE ty.k \in {"arr", "atomic"} -> Storage(ty.of[1], seen)
                   [] ty.k = "rec" /\ ty.n \notin seen ->
                        UNION {Storage(Fields(ty.n)[i], seen \cup {ty.n}) : i \in DOMAIN Fields(ty.n)}
                   [] OTHER -> {}
contains_complex_value(ty) == \E t \in Storage(ty, {}) : t.k = "complex"
\* Storage of a caller-owned type must have a Rust form where it is used by value.
RECURSIVE validate_external_storage(_, _, _, _)
validate_external_storage(type, layout, seen, depth) ==
    LET ty == resolve(type)
    IN CASE depth >= MaxNesting -> FALSE
         [] depth < MaxNesting /\ ty.k = "complex" -> ~ layout
         [] depth < MaxNesting /\ ty.k = "ptr" -> validate_external_storage(ty.of[1], FALSE, seen, depth + 1)
         [] depth < MaxNesting /\ ty.k \in {"arr", "atomic"} -> validate_external_storage(ty.of[1], layout, seen, depth + 1)
         [] depth < MaxNesting /\ ty.k = "fun" -> \A i \in DOMAIN ty.of : validate_external_storage(ty.of[i], TRUE, seen, depth + 1)
         [] depth < MaxNesting /\ ty.k = "rec" /\ <<ty.n, layout>> \notin seen ->
              \A i \in DOMAIN Fields(ty.n) : validate_external_storage(Fields(ty.n)[i], layout, seen \cup {<<ty.n, layout>>}, depth + 1)
         [] OTHER -> TRUE
CollectRefused(use) ==
    \/ use.depth >= MaxNesting
    \/ IsExternal(use.ty) /\ ~ validate_external_storage(use.ty, use.layout, {}, 0)
    \/ ~ IsExternal(use.ty) /\ IsAtomic(use.ty) /\ contains_complex_value(use.ty)
    \/ ~ IsExternal(use.ty) /\ use.ty.k = "fun" /\ \E i \in DOMAIN use.ty.of : contains_complex_value(use.ty.of[i])

BindingFails == outcome' = "error" /\ UNCHANGED <<job, phase, pending, collected, chosen, traits, output>>
collect_use_at ==
    /\ outcome = "running" /\ pending # <<>>
    /\ LET use == Head(pending)
       IN IF CollectRefused(use) THEN BindingFails
          ELSE /\ IF IsExternal(use.ty)
                  THEN /\ collected' = MarkExternal(register_external(collected, use.ty, TRUE, use.layout), use.ty)
                       /\ pending' = ExternalUses(collected, use.ty, use.depth) \o Tail(pending)
                  ELSE /\ collected' = Recorded(collected, use)
                       /\ pending' = AtomicUses(collected, use.ty, use.depth) \o KindUses(collected, use) \o Tail(pending)
               /\ UNCHANGED <<job, phase, chosen, traits, output, outcome>>

------------------------------------------------------------------------------
(* Roots.                                                                      *)
includes(name) == options.all \/ name \in options.allowed
Ready(at) == outcome = "running" /\ pending = <<>> /\ phase.at = at
Advance == phase' = [phase EXCEPT !.next = @ + 1]
Seen(i) == \E j \in 1..i - 1 : includes(unit.declarations[j].name) /\ unit.declarations[j].name = unit.declarations[i].name
Omitted(d) == d.static \/ (d.kind = "function" /\ d.defined /\ ~ options.definitions)

\* One declaration: skipped, blocked, refused or selected.
SelectDeclaration ==
    /\ Ready("declarations") /\ phase.next \in DOMAIN unit.declarations
    /\ LET d == unit.declarations[phase.next]
           retained == IF options.retain THEN <<Use(d.ty, 0, TRUE)>> ELSE <<>>
           alias == AliasType(d.name)
       IN CASE ~ includes(d.name) \/ Seen(phase.next) ->
                 Advance /\ UNCHANGED <<pending, collected, chosen, outcome>>
            [] includes(d.name) /\ ~ Seen(phase.next) /\ d.kind = "typedef" /\ blocks_type(d.name) ->
                 /\ Advance
                 /\ collected' = MarkExternal(register_external(collected, alias, FALSE, FALSE), alias)
                 /\ pending' = ExternalUses(collected, alias, 0)
                 /\ UNCHANGED <<chosen, outcome>>
            [] includes(d.name) /\ ~ Seen(phase.next) /\ d.kind = "function" /\ blocks_type(d.name) ->
                 Advance /\ pending' = retained /\ UNCHANGED <<collected, chosen, outcome>>
            [] OTHER ->
                 IF d.unusable THEN outcome' = "error" /\ UNCHANGED <<phase, pending, collected, chosen>>
                 ELSE /\ Advance
                      /\ pending' = IF Omitted(d) THEN retained
                                    ELSE <<Use(IF d.kind = "typedef" THEN alias ELSE d.ty, 0, d.kind # "typedef")>>
                      /\ chosen' = IF Omitted(d) THEN chosen ELSE Append(chosen, d)
                      /\ UNCHANGED <<collected, outcome>>
    /\ UNCHANGED <<job, traits, output>>
EndOfDeclarations ==
    /\ Ready("declarations") /\ phase.next \notin DOMAIN unit.declarations
    /\ IF \E i, j \in DOMAIN chosen : chosen[i].name = chosen[j].name /\ chosen[i].library # chosen[j].library
       THEN BindingFails
       ELSE phase' = [at |-> "tags", next |-> 1] /\ UNCHANGED <<job, pending, collected, chosen, traits, output, outcome>>

TagTypes == unit.order
\* Named tags are roots of their own.
SelectTag ==
    /\ Ready("tags") /\ phase.next \in DOMAIN TagTypes
    /\ LET ty == TagTypes[phase.next]
           root == TagName(ty) # "" /\ includes(TagName(ty))
       IN /\ collected' = IF ~ root THEN collected
                          ELSE IF IsExternal(ty)
                          THEN LET c == register_external(collected, ty, FALSE, FALSE)
                               IN IF ty.k = "rec" THEN MarkExternal(c, ty) ELSE c
                          ELSE IF ty.k = "enum" THEN [collected EXCEPT !.enums = @ \cup {ty.n}] ELSE collected
          /\ pending' = IF ~ root \/ ty.k = "enum" THEN <<>>
                        ELSE IF IsExternal(ty) THEN ExternalUses(collected, ty, 0) ELSE <<Use(ty, 0, TRUE)>>
    /\ Advance
    /\ UNCHANGED <<job, chosen, traits, output, outcome>>
EndOfTags ==
    /\ Ready("tags") /\ phase.next \notin DOMAIN TagTypes
    /\ phase' = [at |-> "aliases", next |-> 1]
    /\ UNCHANGED <<job, pending, collected, chosen, traits, output, outcome>>

------------------------------------------------------------------------------
(* Checks on the collected graph.                                              *)
\* Alias names an alias reaches without going through a record.
RECURSIVE AliasesIn(_)
AliasesIn(ty) ==
    IF ty.k = "alias" THEN {ty.n}
    ELSE IF ty.k \in {"ptr", "atomic", "arr", "fun"} THEN UNION {AliasesIn(ty.of[i]) : i \in DOMAIN ty.of}
    ELSE {}
RECURSIVE ReachAliases(_)
ReachAliases(names) ==
    LET more == names \cup UNION {AliasesIn(unit.typedefs[n]) : n \in {m \in names : ~ blocks_type(m)}}
    IN IF more = names THEN names ELSE ReachAliases(more)
validate_alias_dependencies ==
    options.nullable =>
        \A n \in collected.aliases : blocks_type(n) \/
            \A m \in ReachAliases({n}) : blocks_type(m) \/ m \notin ReachAliases(AliasesIn(unit.typedefs[m]))
\* The same without crossing a caller-owned type.
RECURSIVE Embedded(_, _)
Embedded(ty, seen) ==
    {ty} \cup CASE IsExternal(ty) -> {}
                [] ty.k = "alias" /\ ~ IsExternal(ty) -> Embedded(unit.typedefs[ty.n], seen)
                [] ty.k = "arr" -> Embedded(ty.of[1], seen)
                [] ty.k = "rec" /\ ~ IsExternal(ty) /\ ty.n \notin seen ->
                     UNION {Embedded(Fields(ty.n)[i], seen \cup {ty.n}) : i \in DOMAIN Fields(ty.n)}
                [] OTHER -> {}
\* A named callback is emitted as the alias itself: a caller-owned one is the field's storage.
callback_uses_external_storage(ty) ==
    /\ options.nullable /\ ty.k = "ptr" /\ ty.of[1].k = "alias" /\ resolve(ty.of[1]).k = "fun"
    /\ \E t \in Embedded(ty.of[1], {}) : IsExternal(t)
contains_external_storage(ty) == \E t \in Embedded(ty, {}) : IsExternal(t) \/ callback_uses_external_storage(t)
contains_atomic_storage(ty) == collected.atomics # {} /\ \E t \in Storage(ty, {}) : t.k = "atomic"

Traits(copy, debug, partial_eq, eq, zeroable) ==
    [copy |-> copy, debug |-> debug, partial_eq |-> partial_eq, eq |-> eq, zeroable |-> zeroable]
AllTraits == Traits(TRUE, TRUE, TRUE, TRUE, TRUE)
NoTraits == Traits(FALSE, FALSE, FALSE, FALSE, FALSE)
Both(a, b) == [t \in DOMAIN a |-> a[t] /\ b[t]]
derive_options == options.derive
DefaultDerives == [copy |-> TRUE, debug |-> "unset", default |-> FALSE, partial_eq |-> FALSE, eq |-> FALSE]
RECURSIVE derive_type(_), DeriveRecord(_)
\* What the kind of a record leaves of the traits its members share.
Shaped(r, ty, members) ==
    CASE ~ r.complete -> Traits(TRUE, TRUE, FALSE, FALSE, FALSE)
      [] r.complete /\ r.union ->
           Traits(members.copy, FALSE, FALSE, FALSE, ~ contains_atomic_storage(ty) /\ ~ contains_external_storage(ty))
      [] OTHER -> IF r.bitPadding THEN [members EXCEPT !.partial_eq = FALSE, !.eq = FALSE] ELSE members
\* What the options leave of these; a packed record that is not Copy has no borrowing implementations.
WantedTraits(shaped) ==
    Traits(shaped.copy /\ derive_options.copy, shaped.debug /\ derive_options.debug = "yes",
           shaped.partial_eq /\ (derive_options.partial_eq \/ derive_options.eq), shaped.eq /\ derive_options.eq, shaped.zeroable)
Borrowed(r, wanted) ==
    IF r.packed /\ ~ wanted.copy THEN [wanted EXCEPT !.debug = FALSE, !.partial_eq = FALSE, !.eq = FALSE] ELSE wanted
DeriveRecord(id) ==
    LET r == unit.records[id]
    IN Borrowed(r, WantedTraits(Shaped(r, Ty("rec", id, <<>>), FoldLeft(LAMBDA t, f : Both(t, derive_type(f)), AllTraits, r.fields))))
derive_type(ty) ==
    CASE IsExternal(ty) \/ callback_uses_external_storage(ty) -> NoTraits
      [] ty.k = "alias" /\ ~ IsExternal(ty) -> derive_type(unit.typedefs[ty.n])
      [] ty.k = "rec" /\ ~ IsExternal(ty) -> DeriveRecord(ty.n)
      [] ty.k = "arr" -> IF ty.n = "empty" THEN [derive_type(ty.of[1]) EXCEPT !.zeroable = TRUE] ELSE derive_type(ty.of[1])
      [] ty.k = "enum" /\ ~ IsExternal(ty) /\ ty.n \in unit.rustified ->
           Traits(derive_options.copy, derive_options.debug # "no", TRUE, TRUE, ty.n \in unit.zeroed)
      [] ty.k = "ptr" /\ ~ callback_uses_external_storage(ty) -> \* "long": more than 12 parameters
           IF resolve(ty.of[1]).k = "fun" /\ resolve(ty.of[1]).n = "long" THEN Traits(TRUE, FALSE, FALSE, FALSE, TRUE) ELSE AllTraits
      [] ty.k = "float" -> [AllTraits EXCEPT !.eq = FALSE]
      [] ty.k \in {"int", "enum"} /\ ~ IsExternal(ty) /\ ~ (ty.k = "enum" /\ ty.n \in unit.rustified) -> AllTraits
      [] OTHER -> NoTraits
\* Without options a record is Copy unless it stores an atomic or a caller-owned type.
record_derives(id) ==
    IF derive_options # DefaultDerives THEN DeriveRecord(id)
    ELSE LET ty == Ty("rec", id, <<>>)
         IN [NoTraits EXCEPT !.copy = ~ contains_atomic_storage(ty) /\ ~ contains_external_storage(ty)]
RecursiveByValue == \E id \in collected.records :
    \E i \in DOMAIN Fields(id) : Ty("rec", id, <<>>) \in Storage(Fields(id)[i], {})

\* Every caller-owned enumeration is registered, reached or not; the constants of `enumerators` are withheld.
EnumTypes == {Ty("enum", id, <<>>) : id \in DOMAIN unit.enums}
ExternalEnums == {ty \in EnumTypes : IsExternal(ty)}
register_external_enums(c) ==
    [FoldSet(LAMBDA ty, known : register_external(known, ty, FALSE, FALSE), c, ExternalEnums)
        EXCEPT !.enumerators = @ \cup {ty.n : ty \in ExternalEnums}]

Prepare ==
    /\ Ready("aliases")
    /\ IF ~ validate_alias_dependencies \/ RecursiveByValue THEN BindingFails
       ELSE /\ collected' = register_external_enums(collected)
            /\ traits' = [id \in collected.records |-> record_derives(id)]
            /\ phase' = [at |-> "types", next |-> 1]
            /\ UNCHANGED <<job, pending, chosen, output, outcome>>

------------------------------------------------------------------------------
(* Rendering: [ok, names], the type names a rendered type mentions.            *)
Text(names) == [ok |-> TRUE, names |-> names]
Error == [ok |-> FALSE, names |-> {}]
JoinTexts(texts) == IF \A t \in texts : t.ok THEN Text(UNION {t.names : t \in texts}) ELSE Error

RECURSIVE check_value(_)
check_value(ty) ==
    LET r == resolve(ty)
    IN CASE r.k \in {"atomic", "complex"} -> FALSE
         [] r.k = "arr" -> check_value(r.of[1])
         [] r.k = "rec" -> /\ unit.records[r.n].complete /\ ~ contains_atomic_storage(r)
                           /\ \A i \in DOMAIN Fields(r.n) : check_value(Fields(r.n)[i])
         [] OTHER -> TRUE
check_call_value(ty) ==
    IF IsAtomic(ty) THEN resolve(atomic_value(ty)).k \in {"int", "float", "ptr", "enum"} /\ check_value(atomic_value(ty)) ELSE check_value(ty)
check_function(f) == \A i \in DOMAIN f.of : check_call_value(f.of[i])

RECURSIVE ty_at(_, _), call_value_type(_, _), signature_at(_, _)
ty_at(ty, depth) ==
    CASE depth >= MaxNesting -> Error
      [] depth < MaxNesting /\ IsExternal(ty) -> Text(external_key(ty))
      [] depth < MaxNesting /\ ~ IsExternal(ty) /\ IsAtomic(ty) ->
           IF atomic_value(ty) \notin collected.atomics THEN Error
           ELSE IF AtomicPointer(ty) THEN ty_at(resolve(atomic_value(ty)).of[1], 0) ELSE Text({})
      [] OTHER ->
           CASE ty.k \in {"void", "int", "float"} -> Text({})
             [] ty.k = "arr" -> ty_at(ty.of[1], depth + 1)
             [] ty.k \in {"rec", "enum"} -> Text({OwnKey(ty)})
             [] ty.k = "ptr" /\ resolve(ty.of[1]).k # "fun" -> ty_at(ty.of[1], depth + 1)
             [] ty.k = "ptr" /\ resolve(ty.of[1]).k = "fun" ->
                  IF ~ check_function(resolve(ty.of[1])) THEN Error
                  ELSE IF options.nullable /\ ty.of[1].k = "alias" THEN ty_at(ty.of[1], depth + 1)
                  ELSE signature_at(resolve(ty.of[1]), depth + 1)
             [] ty.k = "alias" ->
                  IF options.nullable \/ resolve(ty).k # "fun" THEN Text({OwnKey(ty)})
                  ELSE IF check_function(resolve(ty)) THEN signature_at(resolve(ty), depth + 1) ELSE Error
             [] OTHER -> Error
call_value_type(ty, depth) ==
    IF depth >= MaxNesting THEN Error
    ELSE IF ~ IsAtomic(ty) THEN ty_at(ty, depth)
    ELSE LET value == resolve(atomic_value(ty))
         IN CASE value.k \in {"int", "float", "ptr"} -> ty_at(value, depth + 1)
              [] value.k = "enum" -> Text({})
              [] OTHER -> Error
signature_at(f, depth) ==
    IF depth >= MaxNesting THEN Error ELSE JoinTexts({call_value_type(f.of[i], depth + 1) : i \in DOMAIN f.of})

------------------------------------------------------------------------------
(* Emission.                                                                   *)
Spelled(name) == <<"c", name>>
alias_tag(ty) ==
    LET chain[i \in 0..Cardinality(DOMAIN unit.typedefs)] ==
            IF i = 0 THEN ty
            ELSE IF chain[i - 1].k = "alias" /\ ~ blocks_type(chain[i - 1].n) THEN unit.typedefs[chain[i - 1].n] ELSE chain[i - 1]
    IN chain[Cardinality(DOMAIN unit.typedefs)]
\* A tag keeps its name unless a typedef of another type has it.
KeepsTagName(ty) ==
    /\ TagName(ty) # ""
    /\ TagName(ty) \in DOMAIN unit.typedefs => alias_tag(unit.typedefs[TagName(ty)]) = ty
TagRustName(ty) ==
    CASE ty.k = "enum" /\ ty.n \in unit.rustified /\ TagName(ty) = "" /\ FirstTypedefOf(ty) # "" -> Spelled(FirstTypedefOf(ty))
      [] KeepsTagName(ty) -> Spelled(TagName(ty))
      [] OTHER -> <<"helper", ty.n>>
RustName(key) == IF key[1] = "alias" THEN Spelled(key[2]) ELSE TagRustName(Ty(key[1], key[2], <<>>))
alias_uses_tag_name(name) ==
    LET tag == alias_tag(unit.typedefs[name])
    IN tag.k \in {"rec", "enum"} /\ TagRustName(tag) = Spelled(name)

RecordText(id) == IF unit.records[id].packed /\ \E t \in Storage(Ty("rec", id, <<>>), {}) : t.k = "atomic" THEN Error
                  ELSE JoinTexts({ty_at(Fields(id)[i], 0) : i \in DOMAIN Fields(id)})
AliasText(name) ==
    LET ty == unit.typedefs[name]
        function == resolve(ty)
    IN IF (options.nullable /\ ty.k = "alias") \/ function.k # "fun" THEN ty_at(ty, 0)
       ELSE IF check_function(function) THEN signature_at(function, 0) ELSE Error
EmittedAliases == {n \in collected.aliases : ~ alias_uses_tag_name(n)}
EmitTypes ==
    /\ Ready("types")
    /\ IF (\E id \in collected.records : ~ RecordText(id).ok) \/ (\E n \in collected.aliases : ~ AliasText(n).ok) THEN BindingFails
       ELSE phase' = [at |-> "items", next |-> 1] /\ UNCHANGED <<job, pending, collected, chosen, traits, output, outcome>>

OutputItem(what, block, names) == [what |-> what, block |-> block, names |-> names]
active_block == IF output = <<>> THEN <<>> ELSE Last(output).block
BlockOf(d) == IF d.kind = "function" THEN <<d.abi, d.library>> ELSE <<"C", d.library>>
ItemText(d) == IF d.kind = "function" THEN (IF check_function(resolve(d.ty)) THEN signature_at(resolve(d.ty), 0) ELSE Error)
               ELSE ty_at(d.ty, 0)
\* One selected declaration in the extern block of its ABI and import library.
EmitItem ==
    /\ Ready("items") /\ phase.next \in DOMAIN chosen
    /\ LET d == chosen[phase.next]
           block == BlockOf(d)
           opened == IF active_block = block THEN output
                     ELSE output \o (IF active_block = <<>> THEN <<>> ELSE <<OutputItem("close", <<>>, {})>>) \o <<OutputItem("open", block, {})>>
       IN CASE d.kind = "typedef" -> Advance /\ UNCHANGED <<output, outcome>>
            [] d.kind # "typedef" /\ ItemText(d).ok ->
                 Advance /\ output' = Append(opened, OutputItem(d.name, block, ItemText(d).names)) /\ UNCHANGED outcome
            [] OTHER -> outcome' = "error" /\ UNCHANGED <<phase, output>>
    /\ UNCHANGED <<job, pending, collected, chosen, traits>>
EndOfItems ==
    /\ Ready("items") /\ phase.next \notin DOMAIN chosen
    /\ output' = output \o (IF active_block = <<>> THEN <<OutputItem("open", <<"C", "">>, {})>> ELSE <<>>) \o <<OutputItem("close", <<>>, {})>>
    /\ outcome' = "done"
    /\ UNCHANGED <<job, phase, pending, collected, chosen, traits>>

BindingsInit ==
    /\ job \in Jobs
    /\ phase = [at |-> "declarations", next |-> 1]
    /\ pending = <<>>
    /\ collected = [records |-> {}, enums |-> {}, aliases |-> {}, layoutAliases |-> {}, external |-> <<>>, enumerators |-> {},
                  dependencies |-> {}, atomics |-> {}]
    /\ chosen = <<>> /\ traits = <<>> /\ output = <<>> /\ outcome = "running"
BindingsNext ==
    \/ collect_use_at
    \/ SelectDeclaration \/ EndOfDeclarations \/ SelectTag \/ EndOfTags
    \/ Prepare \/ EmitTypes \/ EmitItem \/ EndOfItems
BindingsSpec == BindingsInit /\ [][BindingsNext]_bindingVars /\ WF_bindingVars(BindingsNext)

------------------------------------------------------------------------------
(* What the generated module must satisfy.                                     *)
\* Uses of a type, with nothing remembered between visits.
DirectUses(use) ==
    LET ty == use.ty
        followed == {Use(AliasType(n), 0, TRUE) : n \in IF OwnKey(ty) \in DOMAIN options.dependencies THEN options.dependencies[OwnKey(ty)] ELSE {}}
        atomics == IF IsAtomic(ty) /\ AtomicPointer(ty) THEN {Use(resolve(atomic_value(ty)).of[1], 0, TRUE)} ELSE {}
    IN IF IsExternal(ty)
       THEN IF ~ options.retain \/ ty.k \notin {"alias", "rec"} THEN {}
            ELSE followed \cup (IF ty.k = "alias" THEN {Use(unit.typedefs[ty.n], 0, FALSE)} ELSE {Use(Fields(ty.n)[i], 0, TRUE) : i \in DOMAIN Fields(ty.n)})
       ELSE atomics \cup
            CASE ty.k = "alias" -> followed \cup {Use(unit.typedefs[ty.n], 0, use.layout)}
              [] ty.k = "rec" -> followed \cup {Use(Fields(ty.n)[i], 0, TRUE) : i \in DOMAIN Fields(ty.n)}
              [] ty.k = "ptr" -> {Use(ty.of[1], 0, FALSE)}
              [] ty.k = "arr" -> {Use(ty.of[1], 0, use.layout)}
              [] ty.k = "fun" -> {Use(ty.of[i], 0, TRUE) : i \in DOMAIN ty.of} \cup
                                 {Use(atomic_value(ty.of[i]), 0, TRUE) : i \in {j \in DOMAIN ty.of : IsAtomic(ty.of[j]) /\ resolve(atomic_value(ty.of[j])).k = "ptr"}}
              [] OTHER -> {}
RECURSIVE AllUses(_)
AllUses(uses) == LET more == uses \cup UNION {DirectUses(u) : u \in uses} IN IF more = uses THEN uses ELSE AllUses(more)
RootUses ==
    LET decls == {unit.declarations[i] : i \in {j \in DOMAIN unit.declarations : includes(unit.declarations[j].name) /\ ~ Seen(j)}}
        Root(d) == CASE d.kind = "typedef" -> {Use(AliasType(d.name), 0, FALSE)}
                     [] d.kind # "typedef" /\ (Omitted(d) \/ (d.kind = "function" /\ blocks_type(d.name))) ->
                          IF options.retain THEN {Use(d.ty, 0, TRUE)} ELSE {}
                     [] OTHER -> {Use(d.ty, 0, TRUE)}
    IN UNION {Root(d) : d \in decls} \cup
       {Use(ty, 0, ~ IsExternal(ty)) : ty \in {t \in Range(TagTypes) : TagName(t) # "" /\ includes(TagName(t))}}

\* Every type the selected declarations reach is emitted and nothing else, and a caller-owned type is
\* asserted to have the C layout exactly when something reached stores it or passes it by value: a
\* second use by value of a typedef first seen behind a pointer is followed again.  The caller-owned types are those
\* reached and the blocked enumerations of the unit, reached or not; their constants are recorded as withheld.
CollectionExact ==
    outcome = "done" =>
        LET uses == AllUses(RootUses)
            own == {u \in uses : ~ IsExternal(u.ty)}
            laid == {u \in uses : IsExternal(u.ty) /\ u.layout}
        IN /\ collected.records = {u.ty.n : u \in {v \in own : v.ty.k = "rec"}}
           /\ collected.enums = {u.ty.n : u \in {v \in own : v.ty.k = "enum"}}
           /\ collected.aliases = {u.ty.n : u \in {v \in own : v.ty.k = "alias"}}
           /\ DOMAIN collected.external = UNION {external_key(ty) : ty \in {u.ty : u \in uses} \cup EnumTypes}
           /\ collected.enumerators = {id \in DOMAIN unit.enums :
                 blocks_type(IF unit.enums[id] # "" THEN unit.enums[id] ELSE FirstTypedefOf(Ty("enum", id, <<>>)))}
           /\ {k \in DOMAIN collected.external : collected.external[k].layout} = UNION {external_key(u.ty) : u \in laid}

Defined == {Key("rec", id) : id \in collected.records} \cup {Key("enum", id) : id \in collected.enums} \cup {Key("alias", n) : n \in EmittedAliases}
MentionedBy(key) == CASE key[1] = "rec" -> RecordText(key[2]).names
                      [] key[1] = "alias" -> AliasText(key[2]).names
                      [] OTHER -> {}
RECURSIVE AliasChain(_)
AliasChain(keys) ==
    LET more == keys \cup UNION {MentionedBy(k) : k \in {a \in keys : a[1] = "alias" /\ a \in Defined}}
    IN IF more = keys THEN keys ELSE AliasChain(more)
\* Generated bindings are a module Rust accepts: definitions have distinct names, every name mentioned
\* is defined or caller-owned, no alias is defined through itself, and every item is written once,
\* in declaration order, inside a closed block of its own ABI and library.
OutputWellFormed ==
    outcome = "done" =>
        LET mentioned == UNION {MentionedBy(k) : k \in Defined} \cup UNION {output[i].names : i \in DOMAIN output}
            items == SelectSeq(output, LAMBDA w : w.what \notin {"open", "close"})
            wanted == SelectSeq(chosen, LAMBDA d : d.kind # "typedef")
        IN /\ \A a, b \in Defined : a # b => RustName(a) # RustName(b)
           /\ \A m \in mentioned : m \in DOMAIN collected.external \/ \E k \in Defined : RustName(k) = RustName(m)
           /\ \A k \in Defined : k[1] = "alias" => k \notin AliasChain(MentionedBy(k))
           /\ [i \in DOMAIN items |-> <<items[i].what, items[i].block>>] = [i \in DOMAIN wanted |-> <<wanted[i].name, BlockOf(wanted[i])>>]
           /\ \A i \in DOMAIN output :
                 /\ output[i].what = "open" <=> i = 1 \/ output[i - 1].what = "close"
                 /\ output[i].what \notin {"open", "close"} => output[i].block = output[i - 1].block
           /\ Last(output).what = "close"

\* What the Rust type of a field supports.
RECURSIVE RustHas(_, _)
RustHas(t, ty) ==
    CASE IsExternal(ty) -> FALSE
      [] ty.k = "alias" /\ ~ IsExternal(ty) -> RustHas(t, unit.typedefs[ty.n])
      [] ty.k = "arr" -> RustHas(t, ty.of[1])
      [] ty.k = "rec" /\ ~ IsExternal(ty) -> traits[ty.n][t]
      [] ty.k = "enum" /\ ~ IsExternal(ty) -> ty.n \notin unit.rustified \/
           CASE t = "copy" -> derive_options.copy [] t = "debug" -> derive_options.debug # "no" [] OTHER -> TRUE
      [] ty.k = "ptr" ->
           LET named == ty.of[1].k = "alias" /\ options.nullable /\ resolve(ty.of[1]).k = "fun"
           IN IF named /\ ty_at(ty, 0).names \cap DOMAIN collected.external # {} THEN FALSE
              ELSE IF named /\ \E n \in AliasChain({OwnKey(ty.of[1])}) : n \in DOMAIN collected.external /\ \E m \in Embedded(ty.of[1], {}) : OwnKey(m) = n THEN FALSE
              ELSE t = "copy" \/ ~ (resolve(ty.of[1]).k = "fun" /\ resolve(ty.of[1]).n = "long")
      [] ty.k = "float" -> t # "eq"
      [] OTHER -> ty.k = "int"
\* A derived trait holds for every member of the record, whatever typedefs lead to a caller-owned type:
\* the generated derive attributes compile, and Eq comes with PartialEq.
DerivesSound ==
    outcome = "done" =>
        \A id \in collected.records :
            /\ \A t \in {"copy", "debug", "partial_eq", "eq"} : traits[id][t] => \A i \in DOMAIN Fields(id) : RustHas(t, Fields(id)[i])
            /\ traits[id].eq => traits[id].partial_eq
            /\ unit.records[id].packed /\ (traits[id].debug \/ traits[id].partial_eq) => traits[id].copy
            /\ unit.records[id].union => ~ traits[id].debug /\ ~ traits[id].partial_eq
\* Collection and emission end on every type graph, cyclic ones included.
BindingsReturn == <>(outcome # "running")
=============================================================================
