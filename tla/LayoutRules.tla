----------------------------- MODULE LayoutRules -----------------------------
(* The size and alignment rules of toucan_layout that need no history: the     *)
(* target tables, and the layouts of built-in types, typedefs, arrays, enums   *)
(* and atomics.  Sizes and alignments are in bits.  An absent Option<u64> is   *)
(* None = 0, which no alignment is.  `SizeLimit` stands for u64::MAX: checked  *)
(* arithmetic that passes it is an error (ErrorType::SizeOverflow).            *)
(*                                                                             *)
(* A target is one of the names below, each standing for the group of targets  *)
(* that the match arms of the source treat alike.                              *)
EXTENDS Integers, Sequences, FiniteSets, FiniteSetsExt

CONSTANT SizeLimit

ASSUME SizeLimitAssumption == SizeLimit \in Nat

None == 0
BITS_PER_BYTE == 8

AllTargets == {"x86_64-linux-gnu", "i686-linux-gnu", "aarch64-linux-gnu", "armv7-linux-gnu", "armv7-apple", "avr",
               "hexagon", "x86_64-windows-gnu", "x86_64-msvc", "i686-msvc", "thumbv7-msvc"}

Compilers == {"Gcc", "Clang", "Msvc"}

\* The arms of the target match in compute_layout_with_compiler.
Dialect(target) ==
    IF target \in {"x86_64-msvc", "i686-msvc", "thumbv7-msvc"} THEN "msvc"
    ELSE IF target = "x86_64-windows-gnu" THEN "mingw"
    ELSE "sysv"

system_compiler(target) ==
    CASE target \in {"x86_64-msvc", "i686-msvc", "thumbv7-msvc"} -> "Msvc"
      [] target \in {"armv7-apple", "hexagon"} -> "Clang"
      [] OTHER -> "Gcc"

\* The (target, compiler) pairs that are not refused as UnsupportedCompiler.
SupportedCompiler(target, compiler) ==
    \/ compiler = system_compiler(target)
    \/ /\ compiler = "Clang"
       /\ target \in {"x86_64-linux-gnu", "i686-linux-gnu", "aarch64-linux-gnu", "armv7-linux-gnu"}

------------------------------------------------------------------------------
(* Checked arithmetic.                                                         *)

MaxOf(a, b) == IF a > b THEN a ELSE b
MinOf(a, b) == IF a < b THEN a ELSE b

\* u64::min2(Option<u64>): an absent bound leaves the value alone.
MinSome(a, bound) == IF bound = None THEN a ELSE MinOf(a, bound)

\* The next multiple of m that is not below n.
align_to(n, m) == IF n % m = 0 THEN n ELSE n + (m - (n % m))

\* align_to adds the mask m - 1 before it clears the low bits.
AlignFits(n, m) == n + (m - 1) <= SizeLimit

default_aligned_alignment(target) ==
    CASE target = "avr" -> 8
      [] target \in {"armv7-linux-gnu", "thumbv7-msvc"} -> 64
      [] OTHER -> 128

Bare == 1    \* Align(None): `aligned` without a value
annotation_alignment(target, request) == IF request = Bare THEN default_aligned_alignment(target) ELSE request

------------------------------------------------------------------------------
(* Target quirks.                                                              *)

unnamed_field_affects_record_alignment(target) == target \in {"aarch64-linux-gnu", "armv7-linux-gnu", "armv7-apple", "avr"}

min_zero_width_bitfield_alignment(target) ==
    CASE target = "avr" -> 8
      [] target = "armv7-apple" -> 32
      [] OTHER -> None

ignore_non_zero_sized_bitfield_type_alignment(target) == target \in {"avr", "armv7-apple"}

ignore_zero_sized_bitfield_type_alignmont(target) == target = "avr"

pack_all_enums(target) == target = "hexagon"

------------------------------------------------------------------------------
(* Layouts of types.                                                           *)

\* Every alignment the same, none required: what builtins and opaque scalars have.
Scalar(size, alignment) ==
    [size |-> size, pointer |-> alignment, field |-> alignment, required |-> BITS_PER_BYTE]

Builtins == {"Unit", "Char", "Short", "Int", "Long", "LongLong", "I128", "Pointer"}

avr_builtin_type_layout(b) ==
    Scalar(CASE b = "Unit" -> 0 [] b = "Char" -> 8 [] b \in {"Short", "Int", "Pointer"} -> 16
             [] b = "Long" -> 32 [] b = "LongLong" -> 64 [] b = "I128" -> 128,
           BITS_PER_BYTE)

builtin_type_layout(target, b) ==
    LET long32 == target \notin {"x86_64-linux-gnu", "aarch64-linux-gnu"}
        pointer32 == long32 /\ target \notin {"x86_64-windows-gnu", "x86_64-msvc"}
        quad4 == target \in {"i686-linux-gnu", "armv7-apple"}
    IN IF target = "avr" THEN avr_builtin_type_layout(b)
       ELSE CASE b = "Unit" -> Scalar(0, 8)
              [] b = "Char" -> Scalar(8, 8)
              [] b = "Short" -> Scalar(16, 16)
              [] b = "Int" -> Scalar(32, 32)
              [] b = "LongLong" -> Scalar(64, IF quad4 THEN 32 ELSE 64)
              [] b = "I128" -> Scalar(128, 128)
              [] b = "Long" -> IF long32 THEN Scalar(32, 32) ELSE Scalar(64, 64)
              [] b = "Pointer" -> IF pointer32 THEN Scalar(32, 32) ELSE Scalar(64, 64)

\* A typedef's `aligned` replaces the field alignment and can only lower the pointer alignment.
apply_alignment_override(layout, alignment) ==
    [layout EXCEPT !.field = IF alignment = None THEN @ ELSE alignment,
                   !.pointer = MinSome(@, alignment)]

\* Microsoft's __declspec(align) raises the field and the required alignment.
RaiseRequired(layout, alignment) ==
    [layout EXCEPT !.field = MaxOf(@, alignment), !.required = MaxOf(@, alignment)]

TypedefLayout(target, layout, alignment) ==
    IF Dialect(target) = "msvc" THEN RaiseRequired(layout, MaxOf(alignment, BITS_PER_BYTE))
    ELSE apply_alignment_override(layout, alignment)

\* A flexible array has no elements.  Only the System V rules round the size up.
ArrayLayout(target, element, n) ==
    IF Dialect(target) = "msvc" THEN [element EXCEPT !.size = @ * n]
    ELSE [element EXCEPT !.size = align_to(@ * n, element.field), !.pointer = element.field]

ArrayFits(target, element, n) ==
    /\ element.size * n <= SizeLimit
    /\ Dialect(target) # "msvc" => AlignFits(element.size * n, element.field)

\* The bits an enumerator needs, a negative one its sign bit too.
RequiredBits(value) ==
    LET magnitude == IF value < 0 THEN -value - 1 ELSE value
        bits == CHOOSE n \in 0..31 : /\ magnitude < 2^n
                                     /\ n = 0 \/ magnitude >= 2^(n - 1)
    IN bits + (IF value < 0 THEN 1 ELSE 0)

\* Target::lower adds the complement of the largest value when a value is negative, so that the
\* positive values leave room for the sign.
LowerEnum(values) ==
    IF \E v \in values : v < 0 THEN values \cup {-Max(values \cup {0}) - 1} ELSE values

\* The smallest candidate type that is at least `int` (one byte when packed) and holds every value.
compute_enum_layout(target, compiler, values, packed, alignment) ==
    LET start == IF packed \/ pack_all_enums(target) THEN BITS_PER_BYTE ELSE builtin_type_layout(target, "Int").size
        need == Max({start} \cup {RequiredBits(v) : v \in values})
        required == Min({n \in {8, 16, 32, 64, 128} : n >= need})
        candidates == <<"Char", "Short", "Int", "Long", "LongLong">>
        fitting == {i \in 1..5 : builtin_type_layout(target, candidates[i]).size >= required}
        layout == IF fitting = {} THEN builtin_type_layout(target, "I128")
                  ELSE builtin_type_layout(target, candidates[Min(fitting)])
    IN IF Dialect(target) = "msvc" THEN RaiseRequired(builtin_type_layout(target, "Int"), MaxOf(alignment, BITS_PER_BYTE))
       ELSE apply_alignment_override(layout, IF compiler = "Clang" THEN alignment ELSE None)

IsPowerOfTwo(n) == n \in {2^k : k \in 0..20}

\* GCC keeps the size of an atomic and may align it more; Clang pads small ones to a power of two.
atomic_layout(target, compiler, inner) ==
    LET size == inner.size
        wide == ~ target \in {"i686-linux-gnu", "armv7-linux-gnu"} /\ size <= 128
        power == Min({2^k : k \in 0..20} \ 0..(size - 1))
        Place(s, a) == [size |-> s, pointer |-> a, field |-> a, required |-> BITS_PER_BYTE]
    IN CASE compiler = "Gcc" -> Place(size, IF IsPowerOfTwo(size) /\ size <= 128 THEN MaxOf(inner.pointer, size)
                                            ELSE inner.pointer)
         [] compiler # "Gcc" /\ size = 0 -> Place(8, inner.pointer)
         [] compiler # "Gcc" /\ size > 0 /\ (size <= 64 \/ wide) -> Place(power, power)
         [] OTHER -> Place(size, inner.pointer)
------------------------------------------------------------------------------
(* The record builders.  An `env` is the record being laid out: its target,    *)
(* compiler, kind, packed attribute, #pragma pack value and requested          *)
(* alignment.  A field has the layout of its type, a width or NoWidth, whether *)
(* it is named and its own packed attribute and alignment.                     *)

NoWidth == -1      \* bit_width: None
Unplaced == -1     \* FieldLayout: None
NoUnit == [ty |-> 0, unused |-> 0]   \* ongoing_bitfield: None (a storage unit is never empty)

BitField(f) == f.width # NoWidth

\* pre_validate
PreValidated(f) == ~ (f.width = 0 /\ f.named)

EnvOf(target, compiler, form) ==
    [target |-> target, compiler |-> compiler, kind |-> form.kind, packed |-> form.packed, pack |-> form.pack,
     align |-> annotation_alignment(target, form.align)]

\* The largest field alignment that #pragma pack allows, None for no limit.
pack_value(target, value) ==
    IF Dialect(target) # "msvc" THEN IF value \in {8, 16, 32, 64, 128} THEN value ELSE None
    ELSE CASE value \in {8, 16, 32} -> value
           [] value = 64 -> IF target = "i686-msvc" THEN None ELSE value
           [] value = 128 -> IF target = "thumbv7-msvc" THEN value ELSE None
           [] OTHER -> IF target = "thumbv7-msvc" THEN 64 ELSE None

max_field_alignment_bits(env) ==
    pack_value(env.target, IF Dialect(env.target) = "msvc" /\ env.packed THEN BITS_PER_BYTE ELSE env.pack)

NewBuilder(env) ==
    LET least == MaxOf(env.align, BITS_PER_BYTE)
    IN [size |-> 0, pointer |-> least, field |-> least, required |-> least, unit |-> NoUnit, nonbit |-> FALSE]

\* What laying out a field gives: where it starts, the builder afterwards, and whether no addition overflowed.
Placement(offset, builder, fits) == [offset |-> offset, rlb |-> builder, fits |-> fits]

StructStart(env, rlb, al) == IF env.kind = "Struct" THEN align_to(rlb.size, al) ELSE 0

EndsWithin(env, rlb, al, size) ==
    /\ env.kind = "Struct" => AlignFits(rlb.size, al)
    /\ StructStart(env, rlb, al) + size <= SizeLimit

------------------------------------------------------------------------------
(* System V.                                                                   *)

sysv_layout_regular_field(env, rlb, f) ==
    LET own == IF env.packed \/ f.packed THEN BITS_PER_BYTE ELSE f.ty.field
        al == MinSome(MaxOf(own, f.align), max_field_alignment_bits(env))
        offset == StructStart(env, rlb, al)
    IN Placement(offset,
                 [rlb EXCEPT !.size = MaxOf(@, offset + f.ty.size), !.pointer = MaxOf(@, al)],
                 EndsWithin(env, rlb, al, f.ty.size))

\* The alignment a bit-field's type contributes, after the quirks of the target.
TypeAlignment(env, f) ==
    LET ignored == \/ f.width > 0 /\ ignore_non_zero_sized_bitfield_type_alignment(env.target)
                   \/ f.width = 0 /\ ignore_zero_sized_bitfield_type_alignmont(env.target)
        own == IF ignored THEN 1 ELSE f.ty.field
    IN IF f.width = 0 THEN MaxOf(own, min_zero_width_bitfield_alignment(env.target)) ELSE own

\* The alignment GCC and Clang start a bit-field at: the type's only where the field would cross a unit of its type.
GccAlign(f, first, tyAlign, annotated, limit, packing) ==
    LET least == MinSome(annotated, limit)
    IN IF ~ packing /\ (tyAlign > f.ty.size \/ (align_to(first, least) % tyAlign) + f.width > f.ty.size)
       THEN MaxOf(least, tyAlign) ELSE least

ClangAlign(f, first, tyAlign, annotated, limit, packing) ==
    LET least == IF limit = None \/ annotated <= limit THEN annotated ELSE 1
    IN IF ~ packing /\ (first % tyAlign) + f.width > f.ty.size THEN MaxOf(least, tyAlign) ELSE least

\* The alignment the record takes from a bit-field.
InheritedAlign(env, f, strictest, annotated, limit) ==
    CASE f.width = 0 -> strictest
      [] f.width > 0 /\ limit # None -> MinOf(strictest, limit)
      [] f.width > 0 /\ limit = None /\ (env.packed \/ f.packed) -> annotated
      [] OTHER -> strictest

PlaceBits(env, rlb, f, first, al, inherited) ==
    LET offset == align_to(first, al)
        heard == f.named \/ unnamed_field_affects_record_alignment(env.target)
    IN Placement(offset,
                 [rlb EXCEPT !.size = MaxOf(@, offset + f.width),
                             !.pointer = IF heard THEN MaxOf(@, inherited) ELSE @],
                 AlignFits(first, al) /\ offset + f.width <= SizeLimit)

SysvBits(env, rlb, f, first, tyAlign, annotated, limit) ==
    LET packing == env.packed \/ f.packed \/ limit # None
        al == CASE f.width = 0 -> MaxOf(tyAlign, annotated)
                [] f.width > 0 /\ env.compiler = "Gcc" -> GccAlign(f, first, tyAlign, annotated, limit, packing)
                [] f.width > 0 /\ env.compiler # "Gcc" -> ClangAlign(f, first, tyAlign, annotated, limit, packing)
    IN PlaceBits(env, rlb, f, first, al, InheritedAlign(env, f, MaxOf(tyAlign, annotated), annotated, limit))

sysv_layout_bit_field(env, rlb, f) ==
    SysvBits(env, rlb, f, IF env.kind = "Union" THEN 0 ELSE rlb.size, TypeAlignment(env, f), MaxOf(f.align, 1),
             max_field_alignment_bits(env))

------------------------------------------------------------------------------
(* MinGW.                                                                      *)

\* A bit-field that fits the open storage unit joins it and leaves the size alone.
Joins(rlb, f) == rlb.unit.ty = f.ty.size /\ rlb.unit.unused >= f.width /\ rlb.unit # NoUnit

\* Mutant: what is left of the unit is not reduced.
JoinUnitUnused(rlb, f, builder) == Placement(rlb.size - rlb.unit.unused, builder, TRUE)

JoinUnit(rlb, f, builder) ==
    Placement(rlb.size - rlb.unit.unused, [builder EXCEPT !.unit.unused = @ - f.width], TRUE)

MingwField(env, rlb, f, al, r) ==
    LET offset == StructStart(env, rlb, al)
        opened == [ty |-> f.ty.size, unused |-> f.ty.size - f.width]
    IN CASE ~ BitField(f) ->
              Placement(offset, [r EXCEPT !.unit = NoUnit, !.size = MaxOf(@, offset + f.ty.size)],
                        EndsWithin(env, rlb, al, f.ty.size))
         [] BitField(f) /\ env.kind = "Union" ->
              Placement(0, [r EXCEPT !.size = MaxOf(@, f.width)], TRUE)
         [] f.width = 0 /\ env.kind = "Struct" ->
              Placement(offset, [r EXCEPT !.unit = NoUnit, !.size = offset], EndsWithin(env, rlb, al, 0))
         [] f.width > 0 /\ env.kind = "Struct" /\ Joins(rlb, f) -> JoinUnit(rlb, f, r)
         [] f.width > 0 /\ env.kind = "Struct" /\ ~ Joins(rlb, f) ->
              Placement(offset, [r EXCEPT !.unit = opened, !.size = offset + f.ty.size],
                        EndsWithin(env, rlb, al, f.ty.size))

mingw_layout_field(env, rlb, f) ==
    LET attrPacked == env.packed \/ f.packed
        ignoreType == \/ attrPacked
                      \/ BitField(f) /\ rlb.unit # NoUnit /\ rlb.unit.ty = f.ty.size
                      \/ f.width = 0 /\ rlb.unit = NoUnit
        Limited(own) == MinSome(MaxOf(own, MaxOf(f.align, BITS_PER_BYTE)), max_field_alignment_bits(env))
        heard == \/ ~ BitField(f)
                 \/ f.width = 0 /\ rlb.unit # NoUnit
                 \/ f.width # 0 /\ ~ attrPacked
        recordAlign == Limited(IF attrPacked /\ f.width # 0 THEN BITS_PER_BYTE ELSE f.ty.field)
    IN MingwField(env, rlb, f, Limited(IF ignoreType THEN BITS_PER_BYTE ELSE f.ty.field),
                  [rlb EXCEPT !.pointer = IF heard THEN MaxOf(@, recordAlign) ELSE @])

------------------------------------------------------------------------------
(* MSVC.                                                                       *)

\* The required alignment of a field outranks packing, and that of a bit-field is not the record's.
MsvcField(env, rlb, f, al, limit, required) ==
    LET r == [rlb EXCEPT !.required = IF BitField(f) THEN @ ELSE MaxOf(@, required)]
        Aligned == [r EXCEPT !.pointer = MaxOf(@, MinSome(al, limit)), !.field = MaxOf(@, al)]
        offset == StructStart(env, rlb, al)
        opened == IF f.width = 0 THEN NoUnit ELSE [ty |-> f.ty.size, unused |-> f.ty.size - f.width]
        full == IF f.width = 0 THEN 0 ELSE f.ty.size
    IN CASE ~ BitField(f) ->
              Placement(offset,
                        [r EXCEPT !.nonbit = TRUE, !.unit = NoUnit, !.pointer = MaxOf(@, al), !.field = MaxOf(@, al),
                                  !.size = MaxOf(@, offset + f.ty.size)],
                        EndsWithin(env, rlb, al, f.ty.size))
         [] f.width = 0 /\ rlb.unit = NoUnit -> Placement(Unplaced, r, TRUE)
         [] f.width > 0 /\ env.kind = "Struct" /\ Joins(rlb, f) -> JoinUnit(rlb, f, r)
         [] OTHER ->
              IF env.kind = "Struct"
              THEN Placement(offset, [Aligned EXCEPT !.unit = opened, !.size = offset + full], EndsWithin(env, rlb, al, full))
              ELSE Placement(0, [r EXCEPT !.unit = opened, !.size = MaxOf(@, f.ty.size)], TRUE)

msvc_layout_field(env, rlb, f) ==
    LET required == MaxOf(f.align, f.ty.required)
        limit == max_field_alignment_bits(env)
    IN MsvcField(env, rlb, f, MaxOf(IF f.packed THEN BITS_PER_BYTE ELSE MinSome(f.ty.field, limit), required), limit, required)

------------------------------------------------------------------------------

layout_field(env, rlb, f) ==
    CASE Dialect(env.target) = "mingw" -> mingw_layout_field(env, rlb, f)
      [] Dialect(env.target) = "msvc" -> msvc_layout_field(env, rlb, f)
      [] Dialect(env.target) = "sysv" /\ BitField(f) -> sysv_layout_bit_field(env, rlb, f)
      [] Dialect(env.target) = "sysv" /\ ~ BitField(f) -> sysv_layout_regular_field(env, rlb, f)

Oversized(f) == f.width > f.ty.size

\* An MSVC record is never empty: handle_zero_sized_record.
handle_zero_sized_record(env, r) ==
    IF env.kind = "Union"
    THEN [r EXCEPT !.size = IF r.nonbit THEN r.field ELSE 32]
    ELSE LET size == MaxOf(r.required, 32)
         IN [r EXCEPT !.size = size, !.pointer = MinOf(@, size)]

\* The builder before its size is rounded up.
Closed(env, rlb) == IF Dialect(env.target) = "msvc" /\ rlb.size = 0 THEN handle_zero_sized_record(env, rlb) ELSE rlb

LayoutOf(env, r) ==
    LET size == align_to(r.size, r.pointer)
    IN IF Dialect(env.target) = "msvc" THEN [size |-> size, pointer |-> r.pointer, field |-> r.field, required |-> r.required]
       ELSE [size |-> size, pointer |-> r.pointer, field |-> r.pointer, required |-> BITS_PER_BYTE]
==============================================================================
