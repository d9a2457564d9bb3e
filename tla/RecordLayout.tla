---------------------------- MODULE RecordLayout ----------------------------
(* The record layout builders of toucan_layout: System V, MinGW and MSVC.      *)
(* A record is laid out one field at a time; the builder keeps the size so     *)
(* far, the three alignments and, for MinGW and MSVC, the bit-field storage    *)
(* unit that is still open.  The fields are chosen step by step, so a          *)
(* behaviour is one compute_record_layout call; a finished record can be       *)
(* nested in the next one as an opaque type.  Last, the Rust record that       *)
(* toucan_bindings emits for it.                                               *)
EXTENDS LayoutRules, SequencesExt

CONSTANTS Targets,      \* the targets laid out for
          FieldTypes,   \* the scalar field types, names of Builtins
          BitShapes,    \* the bit-fields tried: [width, named]
          RecordForms,  \* the declarations tried: [kind, packed, pack, align], None where absent
          FieldForms,   \* the annotations tried on a field: [packed, align]
          TypedefAligns,\* the alignments of typedefs of int
          LayoutFields  \* per target, fields laid out and records begun after the first in one behaviour

\* What a validated `aligned` annotation can hold: nothing, no value, or a power of two of at least a byte.
Requests == {None, Bare} \cup {8, 16, 32, 64, 128, 256}

ASSUME LayoutAssumptions ==
    /\ Targets \subseteq AllTargets
    /\ FieldTypes \subseteq Builtins
    /\ \A b \in BitShapes : b.width \in Nat /\ b.named \in BOOLEAN
    /\ \A r \in RecordForms : /\ r.kind \in {"Struct", "Union"} /\ r.packed \in BOOLEAN
                              /\ r.pack \in Nat /\ r.align \in Requests
    /\ \A r \in FieldForms : r.packed \in BOOLEAN /\ r.align \in Requests
    /\ TypedefAligns \subseteq Requests \ {None}
    /\ LayoutFields \in [Targets -> Nat]

VARIABLES abiTarget, abiCompiler,
          form,     \* what the record was declared as: kind, packed, pack and align
          rlb,      \* the RecordLayoutBuilder
          laid,   \* record_fields: one layout per field, offset Unplaced for an unnamed one
          progress,   \* "laying_out", "done" or "failed"
          nested,   \* layouts of finished records
          room      \* what MaxFields leaves

layoutVars == <<abiTarget, abiCompiler, form, rlb, laid, progress, nested, room>>


\* The alignment that the record's own annotations request.
Env == EnvOf(abiTarget, abiCompiler, form)

RecordAlign == annotation_alignment(abiTarget, form.align)

\* The type of a field: a scalar, a typedef of one with an alignment, an array of two, or a finished record.
ScalarTypes == {builtin_type_layout(abiTarget, b) : b \in FieldTypes}
AlignedTypes == {TypedefLayout(abiTarget, builtin_type_layout(abiTarget, "Int"), annotation_alignment(abiTarget, a)) : a \in TypedefAligns}
ArrayTypes == {ArrayLayout(abiTarget, ty, n) : ty \in AlignedTypes, n \in {0, 2}}

Field(ty, width, named, a) ==
    [ty |-> ty, width |-> width, named |-> named, packed |-> a.packed, align |-> annotation_alignment(abiTarget, a.align)]

\* Every field that is not a bit-field counts as named (layout_type); only integer types have bit-fields.
FieldChoices ==
    {Field(ty, NoWidth, TRUE, a) : ty \in ScalarTypes \cup ArrayTypes \cup nested, a \in FieldForms}
    \cup {Field(ty, b.width, b.named, a) : ty \in ScalarTypes \cup AlignedTypes, b \in BitShapes, a \in FieldForms}


------------------------------------------------------------------------------
(* One compute_record_layout call.                                             *)

\* One turn of layout_fields.  Only a named field keeps its layout.
LayoutField ==
    /\ progress = "laying_out"
    /\ room > 0
    /\ \E f \in FieldChoices :
         /\ PreValidated(f)
         /\ ~ Oversized(f)
         /\ LET place == layout_field(Env, rlb, f)
            IN /\ place.fits
               /\ rlb' = place.rlb
               /\ laid' = Append(laid, [offset |-> IF f.named THEN place.offset ELSE Unplaced,
                                            size |-> IF BitField(f) THEN f.width ELSE f.ty.size,
                                            ty |-> f.ty, bits |-> BitField(f), packed |-> f.packed, align |-> f.align])
    /\ room' = room - 1
    /\ UNCHANGED <<abiTarget, abiCompiler, form, progress, nested>>

\* A field that pre-validation or the builder refuses ends the layout with an error.
RefuseField ==
    /\ progress = "laying_out"
    /\ room > 0
    /\ \E f \in FieldChoices : ~ PreValidated(f) \/ Oversized(f) \/ ~ layout_field(Env, rlb, f).fits
    /\ progress' = "failed"
    /\ UNCHANGED <<abiTarget, abiCompiler, form, rlb, laid, nested, room>>

\* The tail of compute_record_layout.
Finish ==
    /\ progress = "laying_out"
    /\ AlignFits(Closed(Env, rlb).size, Closed(Env, rlb).pointer)
    /\ rlb' = [Closed(Env, rlb) EXCEPT !.size = align_to(@, Closed(Env, rlb).pointer)]
    /\ nested' = {LayoutOf(Env, Closed(Env, rlb))}
    /\ progress' = "done"
    /\ UNCHANGED <<abiTarget, abiCompiler, form, laid, room>>

FinishOverflows ==
    /\ progress = "laying_out"
    /\ ~ AlignFits(Closed(Env, rlb).size, Closed(Env, rlb).pointer)
    /\ progress' = "failed"
    /\ UNCHANGED <<abiTarget, abiCompiler, form, rlb, laid, nested, room>>

\* The next record, which may hold the finished one by value.
NextRecord ==
    /\ progress = "done"
    /\ room > 0
    /\ room' = room - 1
    /\ form' \in RecordForms
    /\ rlb' = NewBuilder(EnvOf(abiTarget, abiCompiler, form'))
    /\ laid' = <<>>
    /\ progress' = "laying_out"
    /\ UNCHANGED <<abiTarget, abiCompiler, nested>>

LayoutInit ==
    /\ abiTarget \in Targets
    /\ abiCompiler \in {c \in Compilers : SupportedCompiler(abiTarget, c)}
    /\ form \in RecordForms
    /\ rlb = NewBuilder(Env)
    /\ laid = <<>>
    /\ progress = "laying_out"
    /\ nested = {}
    /\ room = LayoutFields[abiTarget]

LayoutNext == LayoutField \/ RefuseField \/ Finish \/ FinishOverflows \/ NextRecord

LayoutSpec == LayoutInit /\ [][LayoutNext]_layoutVars
------------------------------------------------------------------------------
(* Properties.                                                                 *)

Layouts == [size : Nat, pointer : Nat \ {0}, field : Nat \ {0}, required : Nat \ {0}]

\* Type invariant of the builder, with the bookkeeping of the open storage unit: what is unused of it lies
\* inside the record, so that `size_bits - unused_size_bits` cannot wrap around.
BuilderInv ==
    /\ abiTarget \in Targets /\ abiCompiler \in Compilers
    /\ progress \in {"laying_out", "done", "failed"}
    /\ rlb.size \in Nat /\ rlb.pointer \in Nat \ {0} /\ rlb.field \in Nat \ {0} /\ rlb.required \in Nat \ {0}
    /\ rlb.unit.unused <= rlb.unit.ty
    /\ progress = "laying_out" => rlb.unit.unused <= rlb.size
    /\ nested \subseteq Layouts

PlacedFields == {i \in 1..Len(laid) : laid[i].offset # Unplaced}

EndOf(i) == laid[i].offset + laid[i].size

\* Every field lies inside its record, and the fields of a struct follow each other in declaration order without
\* sharing a bit, however bit-fields were packed into storage units that were opened several fields earlier.
FieldsDisjoint ==
    /\ \A i \in PlacedFields : EndOf(i) <= rlb.size
    /\ form.kind = "Struct" => \A i, j \in PlacedFields : i < j => EndOf(i) <= laid[j].offset

\* A bit-field never straddles storage units of its type.  Microsoft and MinGW records always keep that, in the unit
\* that some earlier bit-field opened; System V only without packing, and Clang only where no explicit alignment
\* moves the field after the test for a crossing.
BitFieldsInOneUnit ==
    \A i \in PlacedFields :
        laid[i].bits /\ form.kind = "Struct" =>
            CASE Dialect(abiTarget) # "sysv" -> \E start \in 0..laid[i].offset :
                                                 /\ EndOf(i) <= start + laid[i].ty.size
                                                 /\ start + laid[i].ty.size <= rlb.size
              [] Dialect(abiTarget) = "sysv" ->
                   \/ form.packed \/ laid[i].packed \/ max_field_alignment_bits(Env) # None
                   \/ abiCompiler = "Clang" /\ laid[i].align # None
                   \/ ignore_non_zero_sized_bitfield_type_alignment(abiTarget)
                   \/ (laid[i].offset % laid[i].ty.field) + laid[i].size <= laid[i].ty.size

Divides(a, b) == b % a = 0

\* A finished record can be an array element and a field: its size is a multiple of the alignment pointers to it
\* have, the Microsoft alignments keep the order required <= pointer <= field, and in an unpacked record every field
\* stays aligned in every element.  The Microsoft record without a byte is the exception: its pointer alignment is
\* lowered to its size.
ArrayOfRecordsAligned ==
    progress = "done" =>
        /\ Divides(rlb.pointer, rlb.size)
        /\ rlb.required <= rlb.pointer \/ Dialect(abiTarget) # "msvc"
        /\ rlb.pointer <= rlb.field \/ Dialect(abiTarget) # "msvc"
        /\ \A i \in PlacedFields :
              \/ laid[i].bits \/ form.packed \/ laid[i].packed \/ form.pack # None
              \/ Dialect(abiTarget) = "msvc" /\ \A j \in PlacedFields : laid[j].size = 0
              \/ max_field_alignment_bits(Env) # None
              \/ Divides(laid[i].ty.field, rlb.pointer) /\ Divides(laid[i].ty.field, laid[i].offset)

\* The integer type chosen for an enum represents each of its enumerators, the sign included, for every abiTarget whose
\* enums are sized by their values.
EnumHoldsValues ==
    Dialect(abiTarget) # "msvc" /\ laid = <<>> /\ progress = "laying_out" =>
        \A values \in SUBSET {-129, -128, -1, 0, 127, 128, 255, 256} :
            LET size == compute_enum_layout(abiTarget, abiCompiler, LowerEnum(values), form.packed, RecordAlign).size
                signed == \E v \in values : v < 0
            IN \/ size >= 32
               \/ \A v \in values : IF signed THEN -(2^(size - 1)) <= v /\ v < 2^(size - 1)
                                    ELSE v < 2^size
-----------------------------------------------------------------------------
(* The Rust struct or union emitted for a laid-out C record: its repr, its     *)
(* ordinary fields, the byte arrays that store runs of bit-fields, explicit    *)
(* padding, alignment markers, and the bits each accessor reads and writes.    *)
BindingTargets == {"x86_64-linux-gnu", "i686-linux-gnu", "aarch64-linux-gnu", "x86_64-msvc"}
Bytes(bits) == bits \div BITS_PER_BYTE
CeilBytes(bits) == (bits + 7) \div BITS_PER_BYTE
CSize == Bytes(rlb.size)
CAlignment == Bytes(rlb.pointer)

has_bitfields == \E i \in DOMAIN laid : laid[i].bits
union_bits == has_bitfields /\ form.kind = "Union"
PackOf == IF form.packed THEN 1 ELSE Bytes(form.pack)
Packing == form.packed \/ form.pack # None
ReprAlign == CASE form.align # None -> Bytes(RecordAlign)
               [] form.align = None /\ has_bitfields /\ ~ union_bits /\ ~ Packing -> CAlignment
               [] OTHER -> 1

\* A member of the Rust type: field is the C field it is (0: generated), storage the accessors into it.
RustMember(bytes, align, field, accessors) == [bytes |-> bytes, align |-> align, field |-> field, accessors |-> accessors]
Blob(bytes, accessors) == RustMember(bytes, 1, 0, accessors)
Ordinary(i) == RustMember(Bytes(laid[i].size), Bytes(laid[i].ty.field), i, {})
Marker == RustMember(0, CAlignment, 0, {})
Accessor(i, offset) == [field |-> i, offset |-> offset]

NoSegment == [start |-> 0, end |-> 0, fields |-> {}]
\* Mutant: a run's storage starts where the previous member ended.
PadNever(state, start) == state
\* Explicit padding up to a byte offset; a member that would start earlier cannot be represented.
PadTo(state, start) ==
    IF start < state.at THEN [state EXCEPT !.ok = FALSE]
    ELSE IF start = state.at THEN state
    ELSE [state EXCEPT !.members = Append(@, Blob(start - state.at, {})), !.at = start]
\* The storage of a finished segment, with the accessors relative to its first byte.
Flush(state) ==
    LET segment == state.segment
        padded == PadTo(state, segment.start)
        accessors == {Accessor(i, laid[i].offset - segment.start * 8) : i \in segment.fields}
    IN IF segment = NoSegment THEN state
       ELSE [padded EXCEPT !.members = Append(@, Blob(segment.end - segment.start, accessors)),
                           !.at = segment.end, !.segment = NoSegment]
\* A bit-field joins the segment that reaches its first byte.
BitMember(state, i) ==
    LET start == Bytes(laid[i].offset)
        end == CeilBytes(laid[i].offset + laid[i].size)
        joins == state.segment # NoSegment /\ start <= state.segment.end
        fresh == [start |-> start, end |-> end, fields |-> {i}]
    IN CASE laid[i].offset = Unplaced -> state
         [] laid[i].offset # Unplaced /\ joins ->
              [state EXCEPT !.segment = [@ EXCEPT !.end = MaxOf(@, end), !.fields = @ \cup {i}]]
         [] OTHER -> [Flush(state) EXCEPT !.segment = fresh]
FieldMember(state, i) ==
    LET flushed == PadTo(Flush(state), Bytes(laid[i].offset))
    IN [flushed EXCEPT !.members = Append(@, Ordinary(i)), !.at = Bytes(laid[i].offset) + Bytes(laid[i].size)]
EmitMember(state, i) == IF laid[i].bits THEN BitMember(state, i) ELSE FieldMember(state, i)
StartOfRecord == [members |-> <<>>, at |-> 0, segment |-> NoSegment, ok |-> TRUE]
BitStruct ==
    LET fields == Flush(FoldLeft(EmitMember, StartOfRecord, [i \in DOMAIN laid |-> i]))
        tail == IF fields.at < CSize THEN [fields EXCEPT !.members = Append(@, Blob(CSize - fields.at, {}))] ELSE fields
    IN IF Packing THEN [tail EXCEPT !.members = Append(@, Marker)] ELSE tail

OrdinaryMembers == LET fields == SelectSeq([i \in DOMAIN laid |-> i], LAMBDA i : ~ laid[i].bits)
                   IN [j \in DOMAIN fields |-> Ordinary(fields[j])]
\* A union keeps its bit-fields in one byte array of its own size.
BitUnion ==
    <<Blob(CSize, {Accessor(i, laid[i].offset) : i \in {j \in PlacedFields : laid[j].bits}})>>
    \o (IF ReprAlign >= CAlignment THEN <<>> ELSE <<Marker>>) \o OrdinaryMembers
EmptyUnion == form.kind = "Union" /\ laid = <<>>

record == CASE EmptyUnion -> [StartOfRecord EXCEPT !.members = <<Blob(CSize, {})>>]
            [] union_bits -> [StartOfRecord EXCEPT !.members = BitUnion]
            [] has_bitfields /\ ~ union_bits -> BitStruct
            [] OTHER -> [StartOfRecord EXCEPT !.members = OrdinaryMembers]
\* What has no Rust form: both packing and alignment, annotated members, storage that overlaps.
Refused(rust) ==
    \/ Packing /\ form.align # None
    \/ \E i \in DOMAIN laid : (~ laid[i].bits \/ union_bits) /\ (laid[i].packed \/ laid[i].align # None)
    \/ union_bits /\ rlb.pointer \notin {8, 16, 32, 64, 128}
    \/ union_bits /\ \E i \in PlacedFields : laid[i].bits /\ EndOf(i) > rlb.size
    \/ ~ rust.ok

\* rustc's layout of a repr(C) type with packed(n) and align(n).
RustAlign(member) == IF Packing THEN MinOf(member.align, PackOf) ELSE member.align
RustOffsets(members) ==
    LET offset[j \in 1..Len(members) + 1] ==
            IF j = 1 \/ form.kind = "Union" THEN 0
            ELSE LET end == offset[j - 1] + members[j - 1].bytes
                 IN IF j > Len(members) THEN end ELSE align_to(end, RustAlign(members[j]))
    IN offset
RustAlignment(members) == Max({1, ReprAlign} \cup {RustAlign(members[j]) : j \in DOMAIN members})
RustSize(members, offsets) ==
    align_to(Max({0} \cup {offsets[j] + members[j].bytes : j \in DOMAIN members}), RustAlignment(members))

\* Microsoft gives a struct without storage bytes that its Rust form lacks: its size assertion does not hold.
StorelessMicrosoft == Dialect(abiTarget) = "msvc" /\ form.kind = "Struct" /\ \A i \in PlacedFields : laid[i].size = 0
\* A bit-field can raise a packed record's alignment above the packing, which packed(n) cannot express: its
\* alignment assertion does not hold.
RaisedAbovePack == Packing /\ CAlignment > PackOf
\* Records whose ordinary members have the alignment of their Rust scalar types.
PlainMembers == \A i \in DOMAIN laid : laid[i].bits \/ laid[i].ty \in ScalarTypes
\* The Rust type with these members has the C record's size and alignment, every ordinary field is at its C offset
\* and every accessor addresses exactly the bits of its C bit-field.
SameLayout(members, offsets) ==
    /\ RustSize(members, offsets) = CSize
    /\ RustAlignment(members) = CAlignment
    /\ \A j \in DOMAIN members :
          LET member == members[j]
          IN /\ member.field # 0 => offsets[j] = Bytes(laid[member.field].offset)
             /\ \A a \in member.accessors :
                   /\ offsets[j] * 8 + a.offset = laid[a.field].offset
                   /\ a.offset + laid[a.field].size <= member.bytes * 8
    /\ {i \in PlacedFields : laid[i].bits} = UNION {{a.field : a \in members[j].accessors} : j \in DOMAIN members}

\* The emitted Rust type has the layout of the C record, so the generated layout assertions hold and values written in
\* Rust are the values C reads.
EmittedRecordMatches ==
    progress = "done" /\ abiTarget \in BindingTargets /\ PlainMembers /\ ~ StorelessMicrosoft /\ ~ RaisedAbovePack =>
        \A rust \in {record} : ~ Refused(rust) => SameLayout(rust.members, RustOffsets(rust.members))
=============================================================================
