------------------------------ MODULE TypeTable ------------------------------
(* The types of a translation unit (toucan_semantic's ir.rs) and the record    *)
(* definitions that complete them (Analyzer::complete_record).  Types are      *)
(* built one at a time in `pool`, each from types built before it; a typedef   *)
(* node refers to its name and a record node to its identity, so a type sees   *)
(* what a later definition adds.  The recursive queries over this graph        *)
(* (resolve, alignment, layout, completeness, member names) are the code's     *)
(* own traversals, each with its nesting limit.                                *)
EXTENDS LayoutRules, SequencesExt, Functions

CONSTANTS BasePool,     \* the leaf types and tags a unit starts with
          Profiles,     \* the <<target, compiler>> pairs, with the layout names of both
          Typedefs, Records,
          Forward,      \* the records declared, not yet defined
          Members,      \* member names
          TypeAligns,   \* alignment attributes on types, None for no attribute
          Widths,       \* bit-field widths
          Lengths,      \* array lengths, Flexible for none, Variable for a run-time bound
          MaxParts,     \* derived types and fields in one unit
          MaxDepth,     \* the 128-level limits
          MaxMemberWork \* the work limit of check_member_names

VARIABLES target, compiler,
          pool,      \* types by identity: [kind, ref, len, align, unaligned]
          typedefs,  \* name -> type or NoType
          records,   \* identity -> [kind, fields, complete, packed, pack, align, named]
          open,      \* the definitions being read, outermost first: [id, fields]
          failed     \* the message that ended the analysis, or ""

tableVars == <<target, compiler, pool, typedefs, records, open, failed>>

NoType == 0
Flexible == -1     \* length: None
Variable == -2     \* a VariableArray
Leaf(kind) == [kind |-> kind, ref |-> 0, len |-> 0, align |-> None, unaligned |-> FALSE]
Derived(kind, ref, len, align, unaligned) ==
    [kind |-> kind, ref |-> ref, len |-> len, align |-> align, unaligned |-> unaligned]

Ids == 1..Len(pool)
gnu == compiler = "Gcc"
windows == Dialect(target) = "msvc"

ASSUME TableAssumptions ==
    /\ \A r \in Records \cup Typedefs : r \in Nat \ {0}
    /\ MaxDepth \in Nat /\ MaxMemberWork \in Nat

------------------------------------------------------------------------------
(* Traversals.  A failed one gives NoType or an error layout.                  *)

RECURSIVE resolve_from(_, _)
resolve_from(ty, visited) ==
    IF pool[ty].kind # "Typedef" THEN ty
    ELSE LET name == pool[ty].ref
         IN IF Cardinality(visited) >= MaxDepth \/ name \in visited \/ typedefs[name] = NoType THEN NoType
            ELSE resolve_from(typedefs[name], visited \cup {name})
resolve(ty) == resolve_from(ty, {})

Kind(ty) == pool[resolve(ty)].kind

RECURSIVE alignment_metadata(_, _)
alignment_metadata(ty, n) ==
    IF n = 0 THEN None
    ELSE IF pool[ty].align # None THEN pool[ty].align
    ELSE IF pool[ty].kind # "Typedef" THEN None
    ELSE alignment_metadata(typedefs[pool[ty].ref], n - 1)

\* The outermost alignment attribute of a chain of typedefs.
typedef_alignment_metadata(ty) == alignment_metadata(ty, MaxDepth)

RECURSIVE unaligned_from(_, _)
unaligned_from(ty, n) ==
    IF n = 0 THEN FALSE
    ELSE pool[ty].unaligned \/ (pool[ty].kind = "Typedef" /\ unaligned_from(typedefs[pool[ty].ref], n - 1))

\* qualifiers: what every typedef of the chain contributes, here `__unaligned`.
qualifiers(ty) == [unaligned |-> unaligned_from(ty, MaxDepth)]

RECURSIVE is_complete_object(_, _)
is_complete_object(ty, depth) ==
    LET r == resolve(ty) node == pool[r]
    IN CASE depth >= MaxDepth -> FALSE
         [] node.kind \in {"Void", "Function", "Sve", "IncompleteEnum"} -> FALSE
         [] node.kind = "Record" -> records[node.ref].complete
         [] node.kind = "Array" -> node.len # Flexible /\ is_complete_object(node.ref, depth + 1)
         [] node.kind \in {"VariableArray", "Atomic"} -> is_complete_object(node.ref, depth + 1)
         [] OTHER -> TRUE

RECURSIVE variably_modified(_, _)
variably_modified(ty, n) ==
    LET node == pool[resolve(ty)]
    IN CASE n = 0 -> FALSE
         [] node.kind = "VariableArray" -> TRUE
         [] node.kind \in {"Array", "Pointer", "Atomic"} -> variably_modified(node.ref, n - 1)
         [] OTHER -> FALSE
is_variably_modified(ty) == variably_modified(ty, MaxDepth)

------------------------------------------------------------------------------
(* Layout.                                                                     *)

ErrorLayout(why) == [size |-> 0, pointer |-> 8, field |-> 8, required |-> 8, error |-> why]
Good(layout) == [size |-> layout.size, pointer |-> layout.pointer, field |-> layout.field,
                 required |-> layout.required, error |-> ""]

\* aligned_layout_type wraps the type in a typedef that carries the alignment.
aligned_layout_type(layout, align) ==
    IF layout.error # "" \/ align = None THEN layout ELSE Good(TypedefLayout(target, layout, align))

RecordEnv(r) == EnvOf(target, compiler, [kind |-> r.kind, packed |-> r.packed, pack |-> r.pack, align |-> r.align])

\* One field whose type is laid out already goes where the builder puts it; the first error wins.
PlaceField(state, f, place) ==
    IF state.error # "" THEN state
    ELSE IF f.ty.error # "" THEN [state EXCEPT !.error = f.ty.error]
    ELSE IF Oversized(f) THEN [state EXCEPT !.error = "oversized"]
    ELSE IF ~ place.fits THEN [state EXCEPT !.error = "overflow"]
    ELSE [state EXCEPT !.rlb = place.rlb]

FinishRecord(env, end) == IF end.error # "" THEN ErrorLayout(end.error) ELSE Good(LayoutOf(env, Closed(env, end.rlb)))

\* compute_record_layout.
RecordFrom(env, laid) ==
    FinishRecord(env, FoldLeft(LAMBDA state, f : PlaceField(state, f, layout_field(env, state.rlb, f)),
                               [rlb |-> NewBuilder(env), error |-> ""], laid))
RecordOf(r, laid) == RecordFrom(RecordEnv(r), laid)

ScalarLayout(kind) ==
    CASE kind = "Char" -> Scalar(8, 8)
      [] kind = "Float16" -> Scalar(16, 16)
      [] kind = "Float128" -> Scalar(128, 128)
      [] kind = "Pointer" -> builtin_type_layout(target, "Pointer")
      [] kind = "Ptr32" -> Scalar(32, 32)
      [] kind = "LongDouble" -> IF windows \/ target = "armv7-linux-gnu" THEN Scalar(64, 64)
                                ELSE IF target = "i686-linux-gnu" THEN Scalar(96, 32) ELSE Scalar(128, 128)
      [] kind = "Enum" -> compute_enum_layout(target, compiler, LowerEnum({0, 1}), FALSE, None)
      [] OTHER -> builtin_type_layout(target, "Int")

\* Everything that has no object layout is an error.
LeafLayout(node) ==
    CASE node.kind = "Typedef" -> ErrorLayout("unknown typedef")
      [] node.kind = "Vector" ->
           LET size == ScalarLayout(Kind(node.ref)).size * node.len
           IN IF size = 0 \/ size > 128 THEN ErrorLayout("vector size")
              ELSE Good(Scalar(size, IF target = "armv7-linux-gnu" THEN MinOf(size, 64) ELSE size))
      [] node.kind = "Record" -> ErrorLayout("incomplete record")
      [] node.kind \in {"Void", "Function", "VariableArray", "Sve", "IncompleteEnum"}
         \/ (node.kind = "Ptr32" /\ target # "x86_64-msvc") -> ErrorLayout("no object layout")
      [] OTHER -> Good(ScalarLayout(node.kind))

AtomicOf(node, value) ==
    IF qualifiers(node.ref).unaligned \/ Kind(node.ref) \in {"Atomic", "Array", "VariableArray", "Function", "Void"}
    THEN ErrorLayout("atomic value")
    ELSE IF value.error # "" THEN value ELSE Good(atomic_layout(target, compiler, value))

ArrayOrError(element, n) ==
    IF element.error # "" THEN element
    ELSE IF ~ ArrayFits(target, element, n) THEN ErrorLayout("overflow") ELSE Good(ArrayLayout(target, element, n))

LaidField(f, ty) ==
    [ty |-> ty, width |-> f.width, packed |-> f.packed, align |-> f.align, named |-> f.name # 0 \/ f.width = NoWidth]

\* A typedef, atomic or array stands on another type.
Underlying(node) ==
    IF node.kind = "Typedef" THEN typedefs[node.ref] ELSE IF node.kind \in {"Atomic", "Array"} THEN node.ref ELSE NoType
OverType(node, inner) ==
    CASE node.kind = "Typedef" -> inner
      [] node.kind = "Atomic" -> AtomicOf(node, inner)
      [] node.kind = "Array" -> ArrayOrError(inner, IF node.len = Flexible THEN 0 ELSE node.len)

\* A record is entered once on a path (`active`).
RECURSIVE layout_type(_, _, _)
layout_type(ty, active, depth) ==
    LET node == pool[ty]
        record == node.kind = "Record" /\ records[node.ref].complete /\ node.ref \notin active
    IN IF depth >= MaxDepth THEN ErrorLayout("nesting")
       ELSE aligned_layout_type(
              CASE node.kind = "Record" /\ node.ref \in active -> ErrorLayout("record contains itself by value")
                [] record ->
                     RecordOf(records[node.ref],
                              [i \in DOMAIN records[node.ref].fields |->
                                 LaidField(records[node.ref].fields[i],
                                           layout_type(records[node.ref].fields[i].ty, active \cup {node.ref}, depth + 1))])
                [] Underlying(node) # NoType -> OverType(node, layout_type(Underlying(node), active, depth + 1))
                [] OTHER -> LeafLayout(node),
              node.align)

RECURSIVE windows_alignment(_, _)
windows_alignment(ty, n) ==
    IF n = 0 THEN None
    ELSE IF typedef_alignment_metadata(ty) # None THEN typedef_alignment_metadata(ty)
    ELSE IF Kind(ty) = "Array" THEN windows_alignment(pool[resolve(ty)].ref, n - 1) ELSE None

RECURSIVE unaligned_object(_, _)
unaligned_object(ty, n) ==
    /\ n > 0
    /\ \/ qualifiers(ty).unaligned
       \/ Kind(ty) \in {"Array", "VariableArray"} /\ unaligned_object(pool[resolve(ty)].ref, n - 1)

\* TranslationUnit::layout: on Windows a typedef can lower the pointer alignment, and so does __unaligned.
LoweredPointer(pointer, ty) ==
    LET vendor == IF windows THEN MinSome(pointer, windows_alignment(ty, MaxDepth)) ELSE pointer
    IN IF unaligned_object(ty, MaxDepth) THEN MinOf(vendor, 8) ELSE vendor
layout(ty) == [layout_type(ty, {}, 0) EXCEPT !.pointer = LoweredPointer(@, ty)]

\* TranslationUnit::alignment, in bits, for a complete object type.
RECURSIVE alignment(_, _)
alignment(ty, n) ==
    IF n = 0 THEN None
    ELSE IF typedef_alignment_metadata(ty) # None THEN typedef_alignment_metadata(ty)
    ELSE IF Kind(ty) \in {"Array", "VariableArray"} THEN alignment(pool[resolve(ty)].ref, n - 1)
    ELSE layout(ty).pointer

\* The alignment of one member, from a record that holds only that member.
record_field_alignment(id, i) ==
    LET r == records[id] f == r.fields[i]
        alone == [kind |-> "Struct", packed |-> r.packed, pack |-> r.pack, align |-> None]
    IN RecordOf(alone, <<[LaidField(f, layout_type(f.ty, {}, 0)) EXCEPT !.width = NoWidth, !.named = TRUE]>>).field
------------------------------------------------------------------------------
(* Operations.                                                                 *)

TableReady == failed = ""

TableFail(why) ==
    /\ failed' = why
    /\ UNCHANGED <<target, compiler, pool, typedefs, records, open>>

Build(node) ==
    /\ pool' = Append(pool, node)
    /\ UNCHANGED <<target, compiler, typedefs, records, open, failed>>

\* The derived types built and the fields read.
Parts ==
    Len(pool) - Len(BasePool) + FoldFunction(LAMBDA r, n : Len(r.fields) + n, 0, records)
    + FoldFunction(LAMBDA r, n : Len(r.fields) + n, 0, open)

Room == Parts < MaxParts

\* A written type that names a typedef, with the attributes of its specifiers.
UseTypedef ==
    /\ TableReady /\ Room
    /\ \E t \in Typedefs, a \in TypeAligns, u \in BOOLEAN :
         /\ typedefs[t] # NoType
         /\ u => windows
         /\ Build(Derived("Typedef", t, 0, a, u))

\* The element checks of an array declarator.
ElementFits(ty) ==
    \/ typedef_alignment_metadata(ty) = None
    \/ Kind(ty) = "VariableArray"
    \/ layout(ty).size % alignment(ty, MaxDepth) = 0

ArrayOf ==
    /\ TableReady /\ Room
    /\ \E ty \in Ids, n \in Lengths :
         IF is_complete_object(ty, 0) /\ ElementFits(ty)
         THEN Build(Derived(IF n = Variable THEN "VariableArray" ELSE "Array", ty, n, None, FALSE))
         ELSE TableFail("array element")

\* Analyzer::atomic_type for a specifier; only GNU accepts an incomplete value.
atomic_type ==
    /\ TableReady /\ Room
    /\ \E ty \in Ids :
         IF \/ qualifiers(ty).unaligned
            \/ Kind(ty) \in {"Atomic", "Array", "VariableArray", "Function", "Sve"}
            \/ ~ gnu /\ ~ is_complete_object(ty, 0)
         THEN TableFail("atomic value")
         ELSE Build(Derived("Atomic", ty, 0, None, FALSE))

DeclareTypedef ==
    /\ TableReady
    /\ \E t \in Typedefs, ty \in Ids :
         /\ typedefs[t] = NoType
         /\ typedefs' = [typedefs EXCEPT ![t] = ty]
    /\ UNCHANGED <<target, compiler, pool, records, open, failed>>

\* complete_record begins: a record that has its fields is refused.
BeginRecord ==
    /\ TableReady
    /\ \E r \in Records :
         /\ \A i \in DOMAIN open : open[i].id # r
         /\ IF records[r].complete THEN TableFail("record is defined more than once")
            ELSE /\ open' = Append(open, [id |-> r, fields |-> <<>>])
                 /\ UNCHANGED <<target, compiler, pool, typedefs, records, failed>>

Innermost == open[Len(open)]

AddMember(f) ==
    /\ open' = [open EXCEPT ![Len(open)].fields = Append(@, f)]
    /\ UNCHANGED <<target, compiler, pool, typedefs, records, failed>>

Member(name, ty, width, align, packed) ==
    [name |-> name, ty |-> ty, width |-> width, align |-> align, packed |-> packed]

\* A declarator with a bit width: an integer type, a name unless it is zero, and room for the width in the type.
BitFieldError(name, ty, width, laidOut) ==
    IF Kind(ty) \notin {"Int", "Char", "Enum", "IncompleteEnum"} THEN "bitfield requires an integer type"
    ELSE IF width = 0 /\ name # 0 THEN "zero-width bitfield must be unnamed"
    ELSE IF laidOut.error # "" THEN laidOut.error
    ELSE IF width > laidOut.size THEN "bitfield is wider than its type"
    ELSE ""

ReadDeclarator ==
    /\ TableReady /\ open # <<>> /\ Room
    /\ \E name \in Members \cup {0}, ty \in Ids, width \in {NoWidth} \cup Widths :
         /\ name = 0 => width = 0       \* the unnamed padding of other widths is RecordLayout's
         /\ \E error \in {IF width = NoWidth THEN "" ELSE BitFieldError(name, ty, width, layout(ty))} :
              IF error # "" THEN TableFail(error) ELSE AddMember(Member(name, ty, width, None, FALSE))

\* A field without a declarator: an anonymous record is a member, anything else declares nothing.  Clang drops what is
\* written around the record, and Microsoft's tag and typedef forms embed the canonical record even when it is named.
AnonymousMember ==
    /\ TableReady /\ open # <<>> /\ Room
    /\ \E ty \in Ids, microsoft \in BOOLEAN :
         LET atomic == Kind(ty) = "Atomic"
             value == IF atomic THEN resolve(pool[resolve(ty)].ref) ELSE resolve(ty)
             embedded == CHOOSE i \in Ids : pool[i] = Derived("Record", pool[value].ref, 0, None, FALSE)
         IN /\ microsoft => windows
            /\ pool[value].kind = "Record"
            /\ IF atomic /\ gnu /\ ~ microsoft THEN TableFail("GNU atomic anonymous record members are unsupported")
               ELSE /\ ~ microsoft => ~ records[pool[value].ref].named
                    /\ AddMember(Member(0, IF microsoft \/ ~ gnu THEN embedded ELSE ty, NoWidth, None, FALSE))

\* The member names of a list of fields, those of anonymous records included, in the order they are entered, and the
\* number of fields visited.
RECURSIVE MemberNames(_, _)
MemberNames(list, depth) ==
    IF list = <<>> THEN [names |-> <<>>, work |-> 0]
    ELSE LET f == Head(list)
             inner == IF f.name = 0 /\ f.width = NoWidth /\ Kind(f.ty) = "Record" /\ depth < MaxDepth
                      THEN MemberNames(records[pool[resolve(f.ty)].ref].fields, depth + 1)
                      ELSE [names |-> IF f.name = 0 THEN <<>> ELSE <<f.name>>, work |-> 0]
             rest == MemberNames(Tail(list), depth)
         IN [names |-> inner.names \o rest.names, work |-> 1 + inner.work + rest.work]

\* Mutant: the names inside anonymous records are not entered.
CheckDirectNames(list) ==
    IF \E i, j \in DOMAIN list : i < j /\ list[i].name = list[j].name /\ list[i].name # 0 THEN "duplicate field name" ELSE ""

check_member_names(list) ==
    CASE MemberNames(list, 0).work > MaxMemberWork -> "anonymous member validation work limit exceeded"
      [] ~ IsInjective(MemberNames(list, 0).names) -> "duplicate field name"
      [] OTHER -> ""

\* GCC also counts anonymous records without a named member.
HasNamedMember(list) ==
    \/ MemberNames(list, 0).names # <<>>
    \/ gnu /\ \E i \in DOMAIN list : list[i].name = 0 /\ list[i].width = NoWidth

\* The first complaint about the i-th field, after those before it passed.
MemberError(kind, list, i) ==
    LET f == list[i] node == pool[resolve(f.ty)] before == SubSeq(list, 1, i - 1)
    IN CASE is_variably_modified(f.ty) -> "record members cannot have variably modified type"
         [] node.kind = "Array" /\ node.len = Flexible
              /\ (kind = "Union" \/ i # Len(list) \/ ~ HasNamedMember(before)) -> "flexible array must be the final member"
         [] ~ (node.kind = "Array" /\ node.len = Flexible) /\ ~ is_complete_object(f.ty, 0)
              -> "field must have complete object type"
         [] OTHER -> check_member_names(SubSeq(list, 1, i))

complete_record ==
    /\ TableReady /\ open # <<>>
    /\ LET id == Innermost.id
           list == Innermost.fields
           errors == {i \in 1..Len(list) : MemberError(records[id].kind, list, i) # ""}
       IN IF errors # {} THEN TableFail(MemberError(records[id].kind, list, Min(errors)))
          ELSE /\ records' = [records EXCEPT ![id].fields = list, ![id].complete = TRUE]
               /\ open' = SubSeq(open, 1, Len(open) - 1)
               /\ UNCHANGED <<target, compiler, pool, typedefs, failed>>

------------------------------------------------------------------------------

Undefined(kind, named, packed) ==
    [kind |-> kind, fields |-> <<>>, complete |-> FALSE, packed |-> packed, pack |-> None, align |-> None, named |-> named]

TableInit ==
    /\ \E p \in Profiles : target = p[1] /\ compiler = p[2]
    /\ pool = BasePool
    /\ typedefs = [t \in Typedefs |-> NoType]
    /\ records \in Forward
    /\ open = <<>>
    /\ failed = ""

TableNext ==
    \/ UseTypedef \/ ArrayOf \/ atomic_type
    \/ DeclareTypedef \/ BeginRecord \/ ReadDeclarator \/ AnonymousMember \/ complete_record

TableSpec == TableInit /\ [][TableNext]_tableVars

------------------------------------------------------------------------------
(* Properties.                                                                 *)

\* Types only refer to types that exist.
TableInv ==
    /\ \A i \in Ids : pool[i].kind \in {"Pointer", "Array", "VariableArray", "Atomic", "Vector"} => pool[i].ref \in 1..(i - 1)
    /\ \A t \in Typedefs : typedefs[t] \in Ids \cup {NoType}
    /\ \A r \in Records : \A f \in Range(records[r].fields) : f.ty \in Ids
    /\ \A i \in DOMAIN open : \A f \in Range(open[i].fields) : f.ty \in Ids

\* A type that passes the completeness check has a layout: the errors that layout_type keeps for a record containing
\* itself, an unknown typedef or an incomplete member cannot happen, whatever order tags, typedefs and definitions come
\* in.  Only size, nesting and run-time bounds are left to fail.
CompleteTypesHaveLayout ==
    \A ty \in Ids :
        is_complete_object(ty, 0) /\ ~ is_variably_modified(ty) => layout(ty).error \in {"", "overflow", "nesting", "vector size"}

\* The alignment query and the layout walk the same typedefs and arrays differently and agree: outside Windows the
\* alignment of a complete type is the field alignment its layout has.
AlignmentAgreesWithLayout ==
    ~ windows =>
        \A ty \in Ids :
            is_complete_object(ty, 0) /\ ~ is_variably_modified(ty) /\ layout(ty).error = "" =>
                alignment(ty, MaxDepth) = layout(ty).field

\* Every member is found by one path: the names of a complete record, through its anonymous members, are distinct, and
\* a flexible array is at its end.
MembersUnambiguous ==
    \A r \in Records :
        records[r].complete =>
            LET list == records[r].fields
            IN /\ IsInjective(MemberNames(list, 0).names)
               /\ \A i \in 1..(Len(list) - 1) : pool[resolve(list[i].ty)].len # Flexible

\* What a record field is aligned to on its own never exceeds what the record is aligned to.
MemberAlignmentWithinRecord ==
    \A r \in Records :
        records[r].complete =>
            \A i \in DOMAIN records[r].fields :
                \A whole \in {RecordOf(records[r], [j \in DOMAIN records[r].fields |->
                                 LaidField(records[r].fields[j], layout_type(records[r].fields[j].ty, {}, 0))])} :
                    records[r].fields[i].width = NoWidth /\ whole.error = "" => record_field_alignment(r, i) <= whole.field
==============================================================================
