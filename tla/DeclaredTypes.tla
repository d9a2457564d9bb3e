---------------------------- MODULE DeclaredTypes ----------------------------
(***************************************************************************)
(* How toucan_semantic (analyze.rs) reads a declared type: the type         *)
(* specifiers one at a time into flags (base_type), the storage classes     *)
(* (storage_specifiers), and the declarator from the outside in             *)
(* (declarator_at), with the attributes of its parentheses and pointers     *)
(* evaluated beforehand in source order (prepare_declarator_attributes) and *)
(* parameters adjusted to pointers (check_parameter).  Separately, the      *)
(* pack pragmas of a source (prepare_source).                               *)
(*                                                                         *)
(* A type is the sequence of its layers from the outside in, each a record  *)
(* [k, q, attr, align, conv]: kind, qualifiers, pointer attribute, prefix   *)
(* alignment, calling convention.  A declarator is [prefix, derived,        *)
(* inner]: the attribute after its parenthesis, its layers as parsed        *)
(* (pointers first, then the suffixes from left to right) and <<>> or       *)
(* <<the declarator in its parentheses>>.                                   *)
(***************************************************************************)
EXTENDS Integers, Sequences, FiniteSets, SequencesExt

CONSTANTS
    DeclaredForms,           \* declarations to read, as a sequence of sets
    PackSources         \* sequences of pack pragmas

VARIABLES
    reading,            \* the declaration or the pack source
    specified,          \* base_type's flags after the specifiers read so far
    readTo,             \* how many specifiers or pragmas have been read
    declaredType,       \* the result, Unread before
    packs               \* [current, stack, events]

declaredVars == <<reading, specified, readTo, declaredType, packs>>

TypeResult(err, ty) == [err |-> err, ty |-> ty]
TypeRejected == TypeResult(TRUE, <<>>)
Unread == TypeResult(FALSE, <<>>)

Layer(k) == [k |-> k, q |-> {}, attr |-> "", align |-> "", conv |-> "C"]

(* ------------------------------------------------------------------------ *)
(* Specifiers                                                                *)

Flagged == {"char", "short", "signed", "unsigned", "float", "double", "int", "complex", "int128"}
Special == {"void", "bool", "struct", "alias", "function alias", "open struct"}
Microsoft == [i8 |-> "char", i16 |-> "short", i32 |-> "int"]

NoSpecifiers == [seen |-> {}, long |-> 0, special |-> "", err |-> FALSE]

Flag(f, s) == IF s \in f.seen THEN [f EXCEPT !.err = TRUE] ELSE [f EXCEPT !.seen = @ \cup {s}]

\* "short" beside __int16 repeats nothing; __int64 sets two longs whatever came before.
Specify(f, s, all) ==
    CASE s = "long" -> IF f.long >= 2 THEN [f EXCEPT !.err = TRUE] ELSE [f EXCEPT !.long = @ + 1]
      [] s = "i64" -> [f EXCEPT !.long = 2]
      [] s = "i16" \/ (s = "short" /\ "i16" \in all) -> [f EXCEPT !.seen = @ \cup {"short"}]
      [] s \in {"i8", "i32"} -> Flag(f, Microsoft[s])
      [] s \in Flagged /\ ~(s = "short" /\ "i16" \in all) -> Flag(f, s)
      [] s \in Special -> IF f.special # "" THEN [f EXCEPT !.err = TRUE] ELSE [f EXCEPT !.special = s]

Signed(f, plain, unsigned) == IF "unsigned" \in f.seen THEN unsigned ELSE plain

InvalidForgetsLong(f, c90) ==
    \/ f.seen = {} /\ f.long = 0 /\ ~c90
    \/ {"signed", "unsigned"} \subseteq f.seen
    \/ "char" \in f.seen /\ f.seen \cap {"short", "int", "float", "double"} # {}

\* The combinations base_type refuses when no special type was named.
InvalidFlags(f, c90) ==
    LET has(s) == s \in f.seen
    IN  \/ f.seen = {} /\ f.long = 0 /\ ~c90
        \/ f.long > 0 /\ has("short")
        \/ has("signed") /\ has("unsigned")
        \/ has("int128") /\ (f.long > 0 \/ f.seen \cap {"short", "char", "float", "double", "int"} # {})
        \/ has("char") /\ (f.long > 0 \/ f.seen \cap {"short", "int", "float", "double"} # {})
        \/ has("float") /\ (f.long > 0 \/ f.seen \cap {"double", "short", "signed", "unsigned", "int"} # {})
        \/ has("double") /\ (f.long > 1 \/ f.seen \cap {"short", "signed", "unsigned", "int"} # {})
        \/ has("complex") /\ ~has("float") /\ ~has("double")

ArithmeticType(f) ==
    LET has(s) == s \in f.seen
        float == IF has("float") THEN "Float" ELSE IF f.long = 1 THEN "LongDouble" ELSE "Double"
    IN  IF has("complex") THEN "Complex" \o float
        ELSE IF has("float") \/ has("double") THEN float
        ELSE IF has("int128") THEN Signed(f, "Int128", "UnsignedInt128")
        ELSE IF has("char") THEN Signed(f, IF has("signed") THEN "SignedChar" ELSE "Char", "UnsignedChar")
        ELSE IF has("short") THEN Signed(f, "Short", "UnsignedShort")
        ELSE IF f.long = 1 THEN Signed(f, "Long", "UnsignedLong")
        ELSE IF f.long = 2 THEN Signed(f, "LongLong", "UnsignedLongLong")
        ELSE Signed(f, "Int", "UnsignedInt")

SpecialType(s) ==
    CASE s = "void" -> <<Layer("Void")>>
      [] s = "bool" -> <<Layer("Bool")>>
      [] s = "struct" -> <<Layer("Struct")>>
      [] s = "open struct" -> <<Layer("OpenStruct")>>
      [] s = "alias" -> <<Layer("Array"), Layer("Int")>>
      [] s = "function alias" -> <<Layer("Function"), Layer("Int")>>

base_type(f, c90) ==
    IF f.err THEN TypeRejected
    ELSE IF f.special # ""
    THEN IF f.seen # {} \/ f.long > 0 THEN TypeRejected ELSE TypeResult(FALSE, SpecialType(f.special))
    ELSE IF InvalidFlags(f, c90) THEN TypeRejected
    ELSE TypeResult(FALSE, <<Layer(ArithmeticType(f))>>)

(* Storage classes: one of them, and a thread-local one beside static or extern. *)

Storages(classes) == {i \in DOMAIN classes : classes[i] \notin {"_Thread_local", "__thread"}}
Threads(classes) == DOMAIN classes \ Storages(classes)

storage_specifiers(classes, compiler) ==
    /\ Cardinality(Threads(classes)) <= 1
    /\ Cardinality(Storages(classes)) <= 1
    /\ Threads(classes) # {} => \A i \in Storages(classes) : classes[i] \in {"static", "extern"}
    /\ compiler = "Gnu" =>
        \A t \in Threads(classes), i \in Storages(classes) : classes[t] = "__thread" /\ classes[i] \in {"static", "extern"} => i < t

(* ------------------------------------------------------------------------ *)
(* Declarators                                                               *)

Pointers(d) == {i \in DOMAIN d.derived : d.derived[i].k = "Pointer"}
PointerAttributes(d) ==
    [i \in DOMAIN SelectSeq(d.derived, LAMBDA l : l.k = "Pointer" /\ l.attr # "") |->
        SelectSeq(d.derived, LAMBDA l : l.k = "Pointer" /\ l.attr # "")[i].attr]
PrefixAttribute(d, parenthesized) == IF parenthesized /\ d.prefix # "" THEN <<d.prefix>> ELSE <<>>

\* The prefix and pointer attributes of the declarator and its parentheses, in source order.
RECURSIVE prepare_declarator_attributes(_, _)
prepare_declarator_attributes(d, parenthesized) ==
    PrefixAttribute(d, parenthesized) \o PointerAttributes(d)
    \o (IF d.inner = <<>> THEN <<>> ELSE prepare_declarator_attributes(d.inner[1], TRUE))

RECURSIVE OutermostLast(_, _)
OutermostLast(d, outermost) ==
    LET here == IF d.derived = <<>> THEN outermost ELSE Last(d.derived)
    IN  IF d.inner = <<>> THEN here ELSE OutermostLast(d.inner[1], here)

\* The layer next to the declared name: the first suffix, or else the last pointer, of the innermost parentheses.
RECURSIVE outermost_derived(_, _)
outermost_derived(d, outermost) ==
    LET suffixes == {i \in DOMAIN d.derived : d.derived[i].k # "Pointer"}
        here == IF d.derived = <<>> THEN outermost
                ELSE IF suffixes # {} THEN d.derived[CHOOSE i \in suffixes : \A j \in suffixes : i <= j]
                ELSE Last(d.derived)
    IN  IF d.inner = <<>> THEN here ELSE outermost_derived(d.inner[1], here)

Arrays == {"Array", "ConstArray", "StaticArray", "StarArray", "OpenArray"}

is_complete_object(ty) == ty[1].k \notin {"Void", "Function", "OpenStruct", "OpenArray"}

\* Arrays with qualifiers or "static" must be the parameter's outermost layer; "*" needs a prototype.
BadArray(layer, ty, context) ==
    \/ layer.k \in {"ConstArray", "StaticArray"} /\ layer.id # context.parameterArray
    \/ ~is_complete_object(ty)
    \/ layer.k = "StarArray" /\ context.scope # "prototype"

AddedLayer(layer, attr) ==
    [Layer(IF layer.k \in {"Pointer", "Function", "OpenArray"} THEN layer.k ELSE "Array") EXCEPT
        !.q = IF layer.k = "Pointer" THEN layer.q ELSE {},
        !.attr = attr]

\* One derived layer over the type so far; "" is no attribute, a written one is the next prepared.
Derive(s, layer, context) ==
    LET written == layer.k = "Pointer" /\ layer.attr # ""
        attr == IF written THEN s.prepared[1] ELSE ""
        bad == CASE layer.k = "Pointer" -> FALSE
                 [] layer.k \in Arrays -> BadArray(layer, s.ty, context)
                 [] layer.k = "Function" -> s.ty[1].k \in {"Array", "OpenArray", "Function"}
    IN  [ty |-> <<AddedLayer(layer, attr)>> \o s.ty,
         prepared |-> IF written THEN Tail(s.prepared) ELSE s.prepared,
         err |-> s.err \/ bad]

Split(d) == Cardinality(Pointers(d))

\* The pointers in order, then the suffixes from right to left.
Application(d) == SubSeq(d.derived, 1, Split(d)) \o Reverse(SubSeq(d.derived, Split(d) + 1, Len(d.derived)))

RECURSIVE declarator_at(_, _, _, _)
declarator_at(s, d, parenthesized, context) ==
    LET prefixed == PrefixAttribute(d, parenthesized) # <<>>
        aligned == context.compiler = "Gnu" /\ s.ty[1].k \notin {"Void", "Function"}
        start == IF ~prefixed THEN s
                 ELSE [s EXCEPT !.ty[1].align = IF aligned THEN s.prepared[1] ELSE @, !.prepared = Tail(@)]
        built == FoldLeft(LAMBDA acc, layer : IF acc.err THEN acc ELSE Derive(acc, layer, context),
                          start, Application(d))
    IN  IF built.err \/ d.inner = <<>> THEN built
        ELSE declarator_at(built, d.inner[1], TRUE, context)

Build(ty, d, context) ==
    declarator_at([ty |-> ty, prepared |-> prepare_declarator_attributes(d, FALSE), err |-> FALSE],
                  d, FALSE, context)

\* A convention written with the specifiers: GNU reaches a function or one pointer to it, Clang looks
\* through every pointer and array.
RECURSIVE apply_convention_at(_, _, _)
apply_convention_at(ty, convention, compiler) ==
    LET into == <<ty[1]>> \o apply_convention_at(Tail(ty), convention, compiler)
    IN  CASE ty[1].k = "Function" -> <<[ty[1] EXCEPT !.conv = convention]>> \o Tail(ty)
          [] ty[1].k = "Pointer" -> IF compiler = "Clang" \/ ty[2].k = "Function" THEN into ELSE ty
          [] ty[1].k \in {"Array", "OpenArray"} -> IF compiler = "Clang" THEN into ELSE ty
          [] OTHER -> ty

apply_calling_convention(ty, convention, compiler) ==
    IF convention = "C" THEN ty ELSE apply_convention_at(ty, convention, compiler)

\* check_parameter: an array parameter is a pointer to its element, which takes the array's qualifiers.
AdjustParameter(ty, arrayQualifiers) ==
    CASE ty[1].k \in {"Array", "OpenArray"} ->
            <<[Layer("Pointer") EXCEPT !.q = arrayQualifiers]>>
            \o <<[ty[2] EXCEPT !.q = @ \cup ty[1].q]>> \o SubSeq(ty, 3, Len(ty))
      [] ty[1].k = "Function" -> <<Layer("Pointer")>> \o ty
      [] OTHER -> ty

VoidParameter(d, ty) ==
    ty[1].k = "Void" /\ (ty[1].q # {} \/ (d.storage # <<>> /\ d.compiler = "Gnu"))

(* ------------------------------------------------------------------------ *)
(* Reading a declaration                                                     *)

NoPacks == [current |-> 0, stack |-> <<>>, events |-> <<>>]

DeclaredInit ==
    /\ \/ \E i \in DOMAIN DeclaredForms : reading \in DeclaredForms[i]
       \/ \E p \in PackSources : reading = [kind |-> "pack", pragmas |-> p]
    /\ specified = NoSpecifiers
    /\ readTo = 0
    /\ declaredType = Unread
    /\ packs = NoPacks

ReadSpecifier ==
    /\ reading.kind # "pack"
    /\ declaredType = Unread
    /\ readTo < Len(reading.specifiers)
    /\ readTo' = readTo + 1
    /\ LET f == Specify(specified, reading.specifiers[readTo + 1], ToSet(reading.specifiers))
       IN  /\ specified' = f
           /\ declaredType' = IF f.err THEN TypeRejected ELSE Unread
    /\ UNCHANGED <<reading, packs>>

Outermost(d) == outermost_derived(d, Layer("none"))

Context(d) ==
    [scope |-> d.scope, compiler |-> d.compiler,
     parameterArray |-> IF d.kind = "parameter" /\ Outermost(d.declarator).k \in Arrays
                        THEN Outermost(d.declarator).id ELSE 0]

\* complete_specifiers and the declarator, for an object or a type name, or for a parameter.
CompletedForm(d, base) ==
    LET qualified == [base.ty EXCEPT ![1].q = @ \cup d.q]
        built == Build(qualified, d.declarator, Context(d))
        called == apply_calling_convention(built.ty, d.convention, d.compiler)
        outermost == Outermost(d.declarator)
        arrayQualifiers == IF outermost.k = "ConstArray" THEN {"const"} ELSE {}
    IN  IF ~storage_specifiers(d.storage, d.compiler) THEN TypeRejected
        ELSE IF built.err THEN TypeRejected
        ELSE IF d.kind # "parameter" THEN TypeResult(FALSE, called)
        ELSE IF (\E i \in DOMAIN d.storage : d.storage[i] # "register") \/ VoidParameter(d, called) THEN TypeRejected
        ELSE TypeResult(FALSE, AdjustParameter(called, arrayQualifiers))

Complete ==
    /\ reading.kind # "pack"
    /\ declaredType = Unread
    /\ readTo = Len(reading.specifiers)
    /\ LET base == base_type(specified, reading.c90)
       IN  declaredType' = IF base.err THEN TypeRejected ELSE CompletedForm(reading, base)
    /\ UNCHANGED <<reading, specified, readTo, packs>>

(* ------------------------------------------------------------------------ *)
(* Pack pragmas; 0 is no packing, -1 an absent value                         *)

Labelled(stack, label) == {i \in DOMAIN stack : stack[i].label = label}

PoppedOnlyTop(p, pragma) ==
    IF pragma.op = "pop"
    THEN [p EXCEPT !.stack = Front(@),
                   !.current = IF pragma.value = -1 THEN Last(p.stack).value ELSE pragma.value]
    ELSE IF pragma.op = "push"
    THEN [p EXCEPT !.stack = Append(@, [label |-> pragma.label, value |-> p.current]),
                   !.current = IF pragma.value = -1 THEN @ ELSE pragma.value]
    ELSE [p EXCEPT !.current = IF pragma.value = -1 THEN 0 ELSE pragma.value]

Packed(p, pragma) ==
    LET valued(now) == IF pragma.value = -1 THEN now ELSE pragma.value
        labelled == Labelled(p.stack, pragma.label)
        at == IF pragma.label = "" THEN Len(p.stack) ELSE CHOOSE i \in labelled : \A j \in labelled : j <= i
    IN  CASE pragma.op = "set" -> [p EXCEPT !.current = valued(0)]
          [] pragma.op = "push" ->
                [p EXCEPT !.stack = Append(@, [label |-> pragma.label, value |-> p.current]), !.current = valued(@)]
          [] pragma.op = "pop" ->
                [p EXCEPT !.stack = SubSeq(@, 1, at - 1), !.current = valued(p.stack[at].value)]

PackRejected(p, pragma) ==
    \/ pragma.value \notin {-1, 0, 1, 2, 4, 8, 16}
    \/ pragma.op = "pop" /\ IF pragma.label = "" THEN p.stack = <<>> ELSE Labelled(p.stack, pragma.label) = {}

ReadPragma ==
    /\ reading.kind = "pack"
    /\ declaredType = Unread
    /\ readTo < Len(reading.pragmas)
    /\ readTo' = readTo + 1
    /\ LET pragma == reading.pragmas[readTo + 1]
           after == Packed(packs, pragma)
       IN  IF PackRejected(packs, pragma)
           THEN declaredType' = TypeRejected /\ UNCHANGED packs
           ELSE packs' = [after EXCEPT !.events = Append(@, after.current)] /\ UNCHANGED declaredType
    /\ UNCHANGED <<reading, specified>>

DeclaredNext == ReadSpecifier \/ Complete \/ ReadPragma
DeclaredSpec == DeclaredInit /\ [][DeclaredNext]_declaredVars

(* ------------------------------------------------------------------------ *)
(* What C says                                                               *)

Row(ty, need, optional) == [ty |-> ty, need |-> need, optional |-> optional]
C11Specifiers == {
    Row("Char", <<"char">>, {}), Row("SignedChar", <<"signed", "char">>, {}), Row("UnsignedChar", <<"unsigned", "char">>, {}),
    Row("Short", <<"short">>, {"signed", "int"}), Row("UnsignedShort", <<"short", "unsigned">>, {"int"}),
    Row("Int", <<"int">>, {"signed"}), Row("Int", <<"signed">>, {}), Row("UnsignedInt", <<"unsigned">>, {"int"}),
    Row("Long", <<"long">>, {"signed", "int"}), Row("UnsignedLong", <<"long", "unsigned">>, {"int"}),
    Row("LongLong", <<"long", "long">>, {"signed", "int"}), Row("UnsignedLongLong", <<"long", "long", "unsigned">>, {"int"}),
    Row("Float", <<"float">>, {}), Row("Double", <<"double">>, {}), Row("LongDouble", <<"long", "double">>, {}),
    Row("ComplexFloat", <<"complex", "float">>, {}), Row("ComplexDouble", <<"complex", "double">>, {}),
    Row("ComplexLongDouble", <<"complex", "long", "double">>, {}), Row("Int128", <<"int128">>, {"signed"}),
    Row("UnsignedInt128", <<"int128", "unsigned">>, {}), Row("Void", <<"void">>, {}), Row("Bool", <<"bool">>, {}),
    Row("Struct", <<"struct">>, {}), Row("OpenStruct", <<"open struct">>, {}), Row("Array", <<"alias">>, {}),
    Row("Function", <<"function alias">>, {})}

Standard(s) == CASE s = "i8" -> <<"char">> [] s = "i16" -> <<"short">> [] s = "i32" -> <<"int">>
                 [] s = "i64" -> <<"long", "long">> [] OTHER -> <<s>>

Matching(specifiers) ==
    LET written == FlattenSeq([i \in DOMAIN specifiers |-> Standard(specifiers[i])])
        count(seq, s) == Cardinality({i \in DOMAIN seq : seq[i] = s})
    IN  {r \in C11Specifiers : \E optional \in SUBSET r.optional :
            \A s \in ToSet(written) \cup ToSet(r.need) \cup optional :
                count(written, s) = count(r.need, s) + IF s \in optional THEN 1 ELSE 0}

\* A declarator read as a use of its name: the layers of the parentheses, then the suffixes, then the
\* pointers from right to left.
RECURSIVE Uses(_)
Uses(d) ==
    LET pointers == SelectSeq(d.derived, LAMBDA l : l.k = "Pointer")
        suffixes == SelectSeq(d.derived, LAMBDA l : l.k # "Pointer")
        own == suffixes \o Reverse(pointers)
        around == IF d.inner = <<>> THEN <<>> ELSE Uses(d.inner[1])
    IN  around \o own

\* Where the attribute after a parenthesis belongs: on the type the parentheses are a declarator of.
RECURSIVE PrefixesAt(_)
PrefixesAt(d) ==
    IF d.inner = <<>> THEN {}
    ELSE PrefixesAt(d.inner[1])
         \cup IF d.inner[1].prefix = "" THEN {} ELSE {<<Len(Uses(d.inner[1])) + 1, d.inner[1].prefix>>}

\* What C forbids between a layer and the type it is a layer of.
Forbidden(layers, i, base, d) ==
    LET below == IF i < Len(layers) THEN layers[i + 1].k ELSE base[1].k
        incomplete == {"Void", "OpenStruct", "OpenArray", "Function"}
    IN  \/ layers[i].k \in Arrays /\ below \in incomplete
        \/ layers[i].k = "Function" /\ below \in Arrays \cup {"Function"}
        \/ layers[i].k \in {"ConstArray", "StaticArray"} /\ ~(d.kind = "parameter" /\ i = 1)
        \/ layers[i].k = "StarArray" /\ d.scope # "prototype"

(* ------------------------------------------------------------------------ *)
(* Properties                                                                *)

\* Whatever order they are written in, the specifiers name the type C11 6.7.2 lists for that set of
\* specifiers, and any other set is refused (analyze.rs base_type); a C90 declaration may leave them out.
SpecifiersExact ==
    (reading.kind = "specifiers" /\ declaredType # Unread) =>
        LET rows == Matching(reading.specifiers)
        IN  IF reading.specifiers = <<>>
            THEN declaredType = IF reading.c90 THEN TypeResult(FALSE, <<Layer("Int")>>) ELSE TypeRejected
            ELSE IF rows = {} THEN declaredType = TypeRejected
            ELSE /\ ~declaredType.err
                 /\ \A r \in rows : declaredType.ty[1].k = r.ty

\* The declared type mirrors the use of the name: layer by layer it is what the declarator says read
\* inside out, every attribute on the layer it was written at, and exactly the declarators C forbids are
\* refused (analyze.rs declarator_at, outermost_derived, check_parameter).
DeclaratorsExact ==
    (reading.kind \in {"object", "parameter"} /\ declaredType # Unread /\ reading.storage = <<>>) =>
        LET d == reading
            base == [base_type(specified, d.c90).ty EXCEPT ![1].q = @ \cup d.q]
            layers == Uses(d.declarator)
            illegal == \/ \E i \in DOMAIN layers : Forbidden(layers, i, base, d)
                       \/ d.kind = "parameter" /\ layers = <<>> /\ base[1].k = "Void" /\ base[1].q # {}
            plain == [i \in DOMAIN layers |->
                        [Layer(IF layers[i].k \in {"Pointer", "Function", "OpenArray"} THEN layers[i].k ELSE "Array")
                         EXCEPT !.q = IF layers[i].k = "Pointer" THEN layers[i].q ELSE {}]]
            whole == plain \o base
            adjusted ==
                IF d.kind # "parameter" \/ whole[1].k \notin {"Array", "OpenArray", "Function"} THEN whole
                ELSE IF whole[1].k = "Function" THEN <<Layer("Pointer")>> \o whole
                ELSE <<[Layer("Pointer") EXCEPT
                          !.q = IF layers # <<>> /\ layers[1].k = "ConstArray" THEN {"const"} ELSE {}]>>
                     \o <<[whole[2] EXCEPT !.q = @ \cup whole[1].q]>> \o SubSeq(whole, 3, Len(whole))
        IN  IF illegal THEN declaredType = TypeRejected
            ELSE /\ ~declaredType.err
                 /\ [i \in DOMAIN declaredType.ty |-> <<declaredType.ty[i].k, declaredType.ty[i].q>>]
                      = [i \in DOMAIN adjusted |-> <<adjusted[i].k, adjusted[i].q>>]
                 /\ \A i \in DOMAIN layers :
                      (layers[i].k = "Pointer" /\ d.kind = "object" /\ layers[i].attr # "") =>
                          declaredType.ty[i].attr = layers[i].attr
                 /\ d.kind = "object" => \A i \in DOMAIN declaredType.ty :
                      LET written == {a \in PrefixesAt(d.declarator) : a[1] = i}
                      IN  IF d.compiler = "Gnu" /\ whole[i].k \notin {"Void", "Function"} /\ written # {}
                          THEN <<i, declaredType.ty[i].align>> \in written
                          ELSE declaredType.ty[i].align = ""
                 /\ d.convention # "C" => \A i \in DOMAIN declaredType.ty : i <= Len(whole) =>
                      (declaredType.ty[i].conv # "C" <=>
                         /\ declaredType.ty[i].k = "Function"
                         /\ \A j \in 1 .. i - 1 : declaredType.ty[j].k # "Function"
                         /\ d.compiler = "Clang" \/ (i <= 2 + (Len(declaredType.ty) - Len(whole))
                                                     /\ \A j \in 1 .. i - 1 : declaredType.ty[j].k = "Pointer"))

\* The packing in effect after each pragma is the one C compilers give it: a pop restores what was in
\* effect before the push it undoes, a labelled pop undoes the latest live push of that label with all
\* pushes above it, and a pop of nothing is refused (analyze.rs prepare_source).
PackingExact ==
    reading.kind = "pack" =>
        LET p == reading.pragmas
            n == Len(packs.events)
            live[i \in 1 .. n + 1] ==
                IF i = 1 THEN {}
                ELSE LET was == live[i - 1]
                         undone == {j \in was : p[i - 1].label = "" \/ p[j].label = p[i - 1].label}
                     IN  IF p[i - 1].op = "push" THEN was \cup {i - 1}
                         ELSE IF p[i - 1].op = "set" THEN was
                         ELSE {j \in was : \E k \in undone : j < k}
            before(i) == IF i = 1 THEN 0 ELSE packs.events[i - 1]
            lowest(s) == CHOOSE j \in s : \A k \in s : j <= k
        IN  \A i \in 1 .. n :
                packs.events[i] = IF p[i].value # -1 THEN p[i].value
                                  ELSE IF p[i].op = "push" THEN before(i)
                                  ELSE IF p[i].op = "set" THEN 0
                                  ELSE before(lowest(live[i] \ live[i + 1]))
=============================================================================
