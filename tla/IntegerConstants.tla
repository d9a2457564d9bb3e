--------------------------- MODULE IntegerConstants ---------------------------
(* Integer constants of toucan_semantic: IntegerValue, the evaluator of        *)
(* integer constant expressions, the types the expression checker gives the    *)
(* same expressions, and the definition of an enumeration, whose enumerators   *)
(* are constants for the expressions after them.                               *)
(*                                                                             *)
(* Widths are scaled down (Bits) and keep their order: char < short < int <    *)
(* long long < int128, and long is as wide as int or as long long.  An         *)
(* expression is a tree of records with the field op.                          *)
EXTENDS Integers, Sequences, FiniteSets, Bitwise

CONSTANTS ConstantProfiles,    \* the compiler profiles: [gnu, windows, c90, model], model one of DataModels
          Enumerators, \* expressions an enumerator may be written with
          Expressions, \* constant expressions outside enumerations: families without, and
          NamedExpressions,   \* expressions with, the names of enumerators
          MaxVariants  \* bound: enumerators of the enumeration

VARIABLES profile,     \* the profile of the translation unit
          variants,    \* the enumerators: [value, written], `written` the expression or Implicit
          enumState,   \* "open", "complete", "refused" (an enumerator failed) or "unfit" (no type for them all)
          evaluated    \* the constant expression outside the enumeration, or Implicit

constantVars == <<profile, variants, enumState, evaluated>>

------------------------------------------------------------------------------
\* The widths of long and of pointers: LLP64 is Windows, ILP32 the i686 and ARMv7 targets.
DataModels == {"LP64", "LLP64", "ILP32"}
long_width(p) == IF p.model = "LP64" THEN 6 ELSE 4
pointer_width(p) == IF p.model = "ILP32" THEN 4 ELSE 6
\* Whether there is an __int128, and whether an enumeration may be as wide.
HasInt128(p) == p.model # "ILP32"
WideEnums(p) == p.gnu /\ p.model # "ILP32"

\* Ranks: _Bool 0, char 1, short 2, int 3, long 4, long long 5, __int128 6.
Bits(p) == [rank \in 0 .. 6 |->
    CASE rank <= 1 -> 2 [] rank = 2 -> 3 [] rank = 3 -> 4
      [] rank = 4 -> long_width(p)
      [] rank = 5 -> 6 [] rank = 6 -> 8]
WidestLiteral == 6   \* 64 bits
WordBits == 6        \* u64
mask(bits) == 2 ^ bits - 1

\* IntegerValue::new keeps the low bits; a conversion to u128 of a negative number wraps.
New(value, bits, signed, rank) ==
    [value |-> value % 2 ^ bits, bits |-> bits, signed |-> signed, rank |-> rank]
Failed == [value |-> 0, bits |-> 0, signed |-> FALSE, rank |-> 0]
IsFailed(x) == x.bits = 0

signed_value(x) ==
    IF x.signed /\ x.value >= 2 ^ (x.bits - 1) THEN x.value - 2 ^ x.bits ELSE x.value
IntOf(value) == New(value, 4, TRUE, 3)
truth(x) == x.value # 0
fits_int(x) == signed_value(x) \in -8 .. 7
\* as_u64 fails on negative values and on values wider than a word.
NoWord == -1
as_u64(x) == IF signed_value(x) < 0 \/ x.value > mask(WordBits) THEN NoWord ELSE x.value

integer_type(p, rank, signed) == New(0, Bits(p)[rank], signed, rank)
size_value(p, bytes) ==
    LET bits == pointer_width(p)
    IN New(bytes, bits, FALSE, IF bits = 4 THEN 3 ELSE IF long_width(p) = bits THEN 4 ELSE 5)

convert(x, ty) == New(signed_value(x), ty.bits, ty.signed, ty.rank)
promote(x) == IF x.rank < 3 THEN convert(x, IntOf(0)) ELSE x

\* The usual arithmetic conversions; the first form lets the wider rank win with its sign.
CommonByRank(left, right) == LET l == promote(left) r == promote(right) IN IF l.rank >= r.rank THEN l ELSE r
Wins(l, r) == IF l.rank >= r.rank THEN l ELSE r
MixedSigns(s, u) ==
    IF u.rank >= s.rank THEN u
    ELSE IF s.bits > u.bits THEN s
    ELSE New(0, s.bits, FALSE, s.rank)
OfPromoted(l, r) == IF l.signed = r.signed THEN Wins(l, r) ELSE IF l.signed THEN MixedSigns(l, r) ELSE MixedSigns(r, l)
common(left, right) == OfPromoted(promote(left), promote(right))

\* A signed result outside its type is an error, never wrapped.
signed_result(value, ty) ==
    IF value \in -(2 ^ (ty.bits - 1)) .. 2 ^ (ty.bits - 1) - 1
    THEN New(value, ty.bits, TRUE, ty.rank) ELSE Failed

------------------------------------------------------------------------------
(* Literals: the first type of the list that holds the value.                  *)
LiteralBits(p, rank) == CASE rank = 3 -> 4 [] rank = 4 -> Bits(p)[4] [] OTHER -> WidestLiteral
C90Unsigned(p, rank, minimum) == p.c90 /\ rank >= 4 /\ ~ (p.windows /\ minimum = 5)
FitsSigned(p, lit, rank) == ~ lit.unsigned /\ lit.value < 2 ^ (LiteralBits(p, rank) - 1)
FitsUnsigned(p, lit, rank) ==
    /\ lit.unsigned \/ ~ lit.decimal \/ C90Unsigned(p, rank, lit.size)
    /\ lit.value <= mask(LiteralBits(p, rank))

\* `size` is the least rank the suffix allows, or "msvc" with the rank of the fixed width.
literal(p, lit) ==
    IF lit.msvc
    THEN IF ~ p.windows \/ lit.value > mask(WordBits) THEN Failed
         ELSE New(lit.value, Bits(p)[lit.size], ~ lit.unsigned, lit.size)
    ELSE LET ranks == {r \in lit.size .. 5 : FitsSigned(p, lit, r) \/ FitsUnsigned(p, lit, r)}
         IN IF ranks = {} THEN Failed
            ELSE LET rank == CHOOSE r \in ranks : \A q \in ranks : r <= q
                 IN New(lit.value, LiteralBits(p, rank), FitsSigned(p, lit, rank), rank)

Comparisons == {"==", "!=", "<", "<="}
Arithmetic == {"+", "-", "*", "/", "%"}
\* Rust's division truncates towards zero.
Truncated(a, b) ==
    LET q == (IF a < 0 THEN -a ELSE a) \div (IF b < 0 THEN -b ELSE b)
    IN IF (a < 0) = (b < 0) THEN q ELSE -q
Apply(operator, a, b) ==
    CASE operator = "+" -> a + b [] operator = "-" -> a - b [] operator = "*" -> a * b
      [] operator = "/" -> Truncated(a, b) [] operator = "%" -> a - b * Truncated(a, b)

Compare(operator, a, b) ==
    CASE operator = "==" -> a = b [] operator = "!=" -> a # b [] operator = "<" -> a < b [] operator = "<=" -> a <= b

shift(operator, left, right) ==
    LET l == promote(left) count == as_u64(promote(right))
    IN IF count = NoWord \/ count >= l.bits THEN Failed
       ELSE IF operator = ">>" THEN New(signed_value(l) \div 2 ^ count, l.bits, l.signed, l.rank)
       ELSE IF ~ l.signed THEN New(l.value * 2 ^ count, l.bits, FALSE, l.rank)
       ELSE IF signed_value(l) < 0 \/ l.value > (mask(l.bits) \div 2) \div 2 ^ count THEN Failed
       ELSE signed_result(signed_value(l) * 2 ^ count, l)

\* `binary` on operands that were both evaluated and, but for shifts and logic, converted to their common type.
Overflows(ty, a, b) == ty.signed /\ a = -(2 ^ (ty.bits - 1)) /\ b = -1
InCommonType(operator, ty, l, r, a, b) ==
    CASE operator \in Comparisons -> IntOf(IF Compare(operator, a, b) THEN 1 ELSE 0)
      [] operator = "&" -> New(l & r, ty.bits, ty.signed, ty.rank)
      [] operator = "^" -> New(l ^^ r, ty.bits, ty.signed, ty.rank)
      [] operator \in Arithmetic ->
           IF operator \in {"/", "%"} /\ (b = 0 \/ Overflows(ty, a, b)) THEN Failed
           ELSE IF ty.signed THEN signed_result(Apply(operator, a, b), ty)
           ELSE New(Apply(operator, a, b), ty.bits, FALSE, ty.rank)
Converted(operator, ty, l, r) == InCommonType(operator, ty, l.value, r.value, signed_value(l), signed_value(r))
ToCommon(operator, ty, left, right) == Converted(operator, ty, convert(left, ty), convert(right, ty))
binary(operator, left, right) ==
    CASE operator = "&&" -> IntOf(IF truth(left) /\ truth(right) THEN 1 ELSE 0)
      [] operator = "||" -> IntOf(IF truth(left) \/ truth(right) THEN 1 ELSE 0)
      [] operator \in {"<<", ">>"} -> shift(operator, left, right)
      [] OTHER -> ToCommon(operator, common(left, right), left, right)
CastToCommon(x, left, right) == IF IsFailed(x) THEN x ELSE convert(x, common(left, right))
SizeOr(p, at) == IF at = NoWord THEN Failed ELSE size_value(p, at)

unary(operator, x) ==
    LET v == promote(x)
    IN CASE operator = "__real" -> x
         [] operator = "__imag" -> New(0, x.bits, x.signed, x.rank)
         [] operator = "+" -> v
         [] operator = "-" -> IF v.signed THEN signed_result(- signed_value(v), v) ELSE New(- v.value, v.bits, FALSE, v.rank)
         [] operator = "~" -> New(mask(v.bits) - v.value, v.bits, v.signed, v.rank)
         [] operator = "!" -> IntOf(IF truth(v) THEN 0 ELSE 1)

------------------------------------------------------------------------------
(* Member offsets.  Record types are given by their layout (RecordLayout       *)
(* computes it): [name, at, ty, bits] per field, name "" for an anonymous      *)
(* record; ty is "int", "<record>" or an array record.  An int is one byte, so  *)
(* that every offset is a value of the narrowest size_t.                       *)
OffsetRecords == [
    outer |-> <<[name |-> "a", at |-> 0, ty |-> [kind |-> "int"], bits |-> FALSE],
                [name |-> "", at |-> 1, ty |-> [kind |-> "record", of |-> "inner"], bits |-> FALSE],
                [name |-> "w", at |-> 3, ty |-> [kind |-> "int"], bits |-> TRUE],
                [name |-> "r", at |-> 4, ty |-> [kind |-> "array", of |-> [kind |-> "record", of |-> "inner"], size |-> 2], bits |-> FALSE]>>,
    inner |-> <<[name |-> "x", at |-> 0, ty |-> [kind |-> "int"], bits |-> FALSE],
                [name |-> "y", at |-> 1, ty |-> [kind |-> "int"], bits |-> FALSE]>>]
NoMember == [at |-> -1, ty |-> [kind |-> "none"]]

RECURSIVE field_offset(_, _)
\* Named members first in declaration order, anonymous records searched where they stand.
field_offset(ty, name) ==
    IF ty.kind # "record" THEN NoMember
    ELSE LET fields == OffsetRecords[ty.of]
             Hit(i) ==
                 IF fields[i].name = name THEN (IF fields[i].bits THEN NoMember ELSE [at |-> fields[i].at, ty |-> fields[i].ty])
                 ELSE LET nested == field_offset(fields[i].ty, name)
                      IN IF nested = NoMember THEN nested ELSE [nested EXCEPT !.at = @ + fields[i].at]
             hits == {i \in DOMAIN fields : fields[i].name = name
                        \/ (fields[i].name = "" /\ ~ fields[i].bits /\ field_offset(fields[i].ty, name) # NoMember)}
         IN IF hits = {} THEN NoMember ELSE Hit(CHOOSE i \in hits : \A j \in hits : i <= j)

------------------------------------------------------------------------------
(* eval, expression_type and is_integer_constant_expression, over what they    *)
(* give the operands: `sub` by the field that holds the operand, `index` by    *)
(* the place of an index in a path of members.  `env` gives the constants.     *)
RECURSIVE walk_members(_, _, _, _, _)
\* The members of an offsetof designator; `at(i)` is what the index at place i evaluates to, NoWord when it has none.
walk_members(path, i, at, ty, sum) ==
    IF i > Len(path) THEN sum
    ELSE IF path[i].op = "member"
    THEN LET found == field_offset(ty, path[i].name)
         IN IF found = NoMember THEN NoWord ELSE walk_members(path, i + 1, at, found.ty, sum + found.at)
    ELSE IF ty.kind # "array" \/ at[i] = NoWord THEN NoWord
    ELSE walk_members(path, i + 1, at, ty.of, sum + at[i] * ty.size)
offset_of(path, at) == walk_members(path, 1, at, [kind |-> "record", of |-> "outer"], 0)
IndexValues(index) == [i \in DOMAIN index |-> IF IsFailed(index[i].value) THEN NoWord ELSE as_u64(index[i].value)]

\* (integer)&((record *)0)->member: only a path that begins with -> is folded.
null_base_member_offset(e, index) ==
    IF e.op = "address" /\ Head(e.path).op = "member" THEN offset_of(e.path, IndexValues(index)) ELSE NoWord

\* The type of such an address depends on its members and on the types of its indices only.
AddressTyped(e, index) ==
    /\ \A i \in DOMAIN index : ~ IsFailed(index[i].type)
    /\ offset_of(e.path, [i \in DOMAIN index |-> 0]) # NoWord

NotJudged == [value |-> Failed, type |-> Failed, constant |-> FALSE, offset |-> NoWord]
\* The arm __builtin_choose_expr selects; the other one is type-checked all the same.
choose_expression(sub) ==
    IF \/ IsFailed(sub.test.type) \/ ~ sub.test.constant \/ IsFailed(sub.test.value)
       \/ IsFailed(IF truth(sub.test.value) THEN sub.else.type ELSE sub.then.type)
    THEN NotJudged
    ELSE IF truth(sub.test.value) THEN sub.then ELSE sub.else
\* The second operand of ?:, which GNU C lets stand for the first.
Then(e, sub) == IF e.then.op = "omitted" THEN sub.test ELSE sub.then

\* Whether the target has the type a cast names.
NamesType(p, e) == e.rank = 6 => HasInt128(p)
CastTo(p, e, x) ==
    IF IsFailed(x) \/ ~ NamesType(p, e) THEN Failed
    ELSE IF e.rank = 0 THEN New(IF truth(x) THEN 1 ELSE 0, 2, FALSE, 0)
    ELSE convert(x, integer_type(p, e.rank, e.signed))
\* && and || type an operand they do not evaluate.
Logical(operator, left, right) ==
    IF IsFailed(left.value) \/ IsFailed(right.type) THEN Failed
    ELSE IF truth(left.value) = (operator = "||") THEN IntOf(IF operator = "||" THEN 1 ELSE 0)
    ELSE IF IsFailed(right.value) THEN Failed ELSE binary(operator, left.value, right.value)
Selected(test, then, else) ==
    IF IsFailed(then.type) \/ IsFailed(else.type) \/ IsFailed(test.value) THEN Failed
    ELSE CastToCommon(IF truth(test.value) THEN then.value ELSE else.value, then.type, else.type)

eval(p, env, e, sub, index) ==
    CASE e.op = "literal" -> literal(p, e)
      [] e.op = "name" -> IF e.name \in DOMAIN env THEN env[e.name] ELSE Failed
      [] e.op = "cast" -> CastTo(p, e, IF sub.arg.offset # NoWord THEN size_value(p, sub.arg.offset) ELSE sub.arg.value)
      [] e.op = "unary" -> IF IsFailed(sub.arg.value) THEN Failed ELSE unary(e.operator, sub.arg.value)
      [] e.op = "binary" ->
           IF e.operator \in {"&&", "||"} THEN Logical(e.operator, sub.left, sub.right)
           ELSE IF IsFailed(sub.left.value) \/ IsFailed(sub.right.value) THEN Failed
           ELSE binary(e.operator, sub.left.value, sub.right.value)
      [] e.op = "conditional" -> Selected(sub.test, Then(e, sub), sub.else)
      [] e.op = "choose" -> choose_expression(sub).value
      [] e.op = "sizeof" -> size_value(p, e.bytes)
      [] e.op = "offsetof" -> SizeOr(p, offset_of(e.path, IndexValues(index)))
      [] e.op \in {"address", "object"} -> Failed

\* The checker's type of the expression, evaluated or not; of an address only whether it has one.
TypeOfValue(x) == [x EXCEPT !.value = 0]
CommonType(left, right) == IF IsFailed(left) \/ IsFailed(right) THEN Failed ELSE TypeOfValue(common(left, right))
expression_type(p, env, e, sub, index) ==
    CASE e.op \in {"literal", "name", "offsetof"} -> TypeOfValue(eval(p, env, e, sub, index))
      [] e.op = "cast" -> IF IsFailed(sub.arg.type) \/ ~ NamesType(p, e) THEN Failed ELSE integer_type(p, e.rank, e.rank # 0 /\ e.signed)
      [] e.op = "unary" ->
           IF IsFailed(sub.arg.type) THEN Failed
           ELSE IF e.operator = "!" THEN IntOf(0)
           ELSE IF e.operator \in {"__real", "__imag"} THEN sub.arg.type ELSE promote(sub.arg.type)
      [] e.op = "binary" ->
           IF IsFailed(sub.left.type) \/ IsFailed(sub.right.type) THEN Failed
           ELSE IF e.operator \in Comparisons \cup {"&&", "||"} THEN IntOf(0)
           ELSE IF e.operator \in {"<<", ">>"} THEN promote(sub.left.type)
           ELSE CommonType(sub.left.type, sub.right.type)
      [] e.op = "conditional" -> IF IsFailed(sub.test.type) THEN Failed ELSE CommonType(Then(e, sub).type, sub.else.type)
      [] e.op = "choose" -> choose_expression(sub).type
      [] e.op = "sizeof" -> size_value(p, 0)
      [] e.op = "object" -> IntOf(0)
      [] e.op = "address" -> IF AddressTyped(e, index) THEN size_value(p, 0) ELSE Failed

\* Whether the expression is an integer constant expression, which an array bound must be to be fixed; an error is FALSE.
is_integer_constant_expression(p, env, e, sub, index) ==
    CASE e.op \in {"literal", "sizeof"} -> TRUE
      [] e.op = "name" -> e.name \in DOMAIN env
      [] e.op = "cast" -> NamesType(p, e) /\ sub.arg.constant
      [] e.op \in {"unary", "binary", "conditional"} -> \A operand \in DOMAIN sub : sub[operand].constant
      [] e.op = "choose" -> choose_expression(sub).constant
      [] e.op = "offsetof" -> \A i \in DOMAIN index : index[i].constant
      \* as the operand of a cast
      [] e.op = "address" -> (\A i \in DOMAIN index : index[i].constant) /\ null_base_member_offset(e, index) # NoWord
      [] e.op = "object" -> FALSE

OperandFields(e) ==
    CASE e.op \in {"cast", "unary"} -> {"arg"}
      [] e.op = "binary" -> {"left", "right"}
      [] e.op \in {"conditional", "choose"} -> {"test", "else"} \cup (IF e.then.op = "omitted" THEN {} ELSE {"then"})
      [] OTHER -> {}
Indices(e) == IF e.op \in {"address", "offsetof"} THEN {i \in DOMAIN e.path : e.path[i].op = "index"} ELSE {}
\* What the three give an expression; an address means something as the operand of a cast only.
Judged(p, env, e, sub, index) ==
    [value |-> eval(p, env, e, sub, index), type |-> expression_type(p, env, e, sub, index),
     constant |-> is_integer_constant_expression(p, env, e, sub, index), offset |-> null_base_member_offset(e, index)]
RECURSIVE judge(_, _, _)
judge(p, env, e) ==
    Judged(p, env, e, [operand \in OperandFields(e) |-> judge(p, env, e[operand])],
                      [i \in Indices(e) |-> judge(p, env, e.path[i].index)])

------------------------------------------------------------------------------
(* Enumerations: complete_enum and finish_enum.                                *)
Implicit == [op |-> "implicit"]
Names == <<"e1", "e2", "e3">>
Environment(vs) == [name \in {Names[i] : i \in DOMAIN vs} |-> vs[CHOOSE i \in DOMAIN vs : Names[i] = name].value]

\* The types an implicit enumerator may move on to when its predecessor is at its maximum.
Wider(p, x) == {r \in 4 .. 6 : Bits(p)[r] > x.bits /\ (r < 6 \/ p.gnu)}
\* The enumerator after x; the first form stays in the type of x.
AddOneWraps(p, x) == New(signed_value(x) + 1, x.bits, x.signed, x.rank)
integer_add_one(p, x) ==
    LET full == x.value = (IF x.signed THEN mask(x.bits) \div 2 ELSE mask(x.bits))
        ranks == Wider(p, x)
        rank == CHOOSE r \in ranks : \A q \in ranks : r <= q
        v == IF full THEN convert(x, New(0, Bits(p)[rank], x.signed, rank)) ELSE x
    IN IF full /\ ranks = {} THEN Failed
       ELSE IF v.signed THEN signed_result(signed_value(v) + 1, v)
       ELSE New(v.value + 1, v.bits, FALSE, v.rank)

Narrowed(x) == IF ~ IsFailed(x) /\ fits_int(x) THEN IntOf(signed_value(x)) ELSE x
NextValue(p, vs, written) ==
    Narrowed(IF written # Implicit THEN judge(p, Environment(vs), written).value
             ELSE IF vs = <<>> THEN IntOf(0)
             ELSE integer_add_one(p, vs[Len(vs)].value))

\* The layout of the enumeration and its compatible integer type (0 bits: no layout).
EnumSigned(p, vs) == p.windows \/ \E i \in DOMAIN vs : signed_value(vs[i].value) < 0
EnumRank(p, vs) ==
    LET negative == \E i \in DOMAIN vs : signed_value(vs[i].value) < 0
        Holds(rank) == \A i \in DOMAIN vs :
            LET b == Bits(p)[rank] v == signed_value(vs[i].value)
            IN IF negative THEN v \in -(2 ^ (b - 1)) .. 2 ^ (b - 1) - 1 ELSE v < 2 ^ b
        ranks == {r \in {3, IF long_width(p) = 6 THEN 4 ELSE 5} \cup (IF WideEnums(p) THEN {6} ELSE {}) : Holds(r)}
    IN IF p.windows THEN 3 ELSE IF ranks = {} THEN 0 ELSE CHOOSE r \in ranks : \A q \in ranks : r <= q
enum_integer(p, vs) == integer_type(p, EnumRank(p, vs), EnumSigned(p, vs))

Representable(x, y) ==
    IF x.signed /\ signed_value(x) < 0 THEN y.signed /\ signed_value(x) = signed_value(y)
    ELSE (~ y.signed \/ signed_value(y) >= 0) /\ x.value = y.value
WindowsSentinel(p, x, ty) == p.windows /\ ty.bits = 4 /\ ty.signed /\ ~ x.signed /\ x.value <= mask(4)
EnumRefused(p, vs) ==
    \/ EnumRank(p, vs) = 0
    \/ \E i \in DOMAIN vs :
         LET ty == enum_integer(p, vs) x == vs[i].value
         IN ~ Representable(x, convert(x, ty)) /\ ~ WindowsSentinel(p, x, ty)
finish_enum(p, vs) ==
    LET wide == \E i \in DOMAIN vs : ~ fits_int(vs[i].value)
    IN [i \in DOMAIN vs |-> IF (p.gnu /\ wide) \/ ~ fits_int(vs[i].value)
                            THEN [vs[i] EXCEPT !.value = convert(@, enum_integer(p, vs))] ELSE vs[i]]

ConstantsInit ==
    /\ profile \in ConstantProfiles
    /\ variants = <<>>
    /\ enumState = "open"
    /\ evaluated = Implicit

\* One enumerator: its name is a constant for every expression after it.
DefineEnumerator(written) ==
    /\ enumState = "open" /\ evaluated = Implicit /\ Len(variants) < MaxVariants
    /\ \E x \in {NextValue(profile, variants, written)} :
          IF IsFailed(x) THEN enumState' = "refused" /\ UNCHANGED variants
          ELSE variants' = Append(variants, [value |-> x, written |-> written]) /\ UNCHANGED enumState
    /\ UNCHANGED <<profile, evaluated>>

\* The closing brace: every enumerator takes its final type.
CloseEnum ==
    /\ enumState = "open" /\ variants # <<>> /\ evaluated = Implicit
    /\ IF EnumRefused(profile, variants) THEN enumState' = "unfit" /\ UNCHANGED variants
       ELSE enumState' = "complete" /\ variants' = finish_enum(profile, variants)
    /\ UNCHANGED <<profile, evaluated>>

\* An integer constant expression elsewhere: an array bound, a case label, an assertion.
EvaluateConstant(e) ==
    /\ evaluated = Implicit
    /\ enumState = "complete" \/ (enumState = "open" /\ variants = <<>>)
    /\ evaluated' = e
    /\ UNCHANGED <<profile, variants, enumState>>

ConstantsNext ==
    \/ \E written \in Enumerators \cup {Implicit} : DefineEnumerator(written)
    \/ CloseEnum
    \/ variants = <<>> /\ evaluated = Implicit /\ \E family \in DOMAIN Expressions : \E e \in Expressions[family] : EvaluateConstant(e)
    \/ variants # <<>> /\ \E e \in NamedExpressions : EvaluateConstant(e)

ConstantsSpec == ConstantsInit /\ [][ConstantsNext]_constantVars

------------------------------------------------------------------------------
(* Reference: C11 over mathematical integers.  A meaning is a number, the rank *)
(* and sign of its type, whether every operand has a type, and whether every   *)
(* operand that is evaluated has a defined value.                              *)
RangeOf(p, rank, signed) ==
    LET b == IF rank = 0 THEN 1 ELSE Bits(p)[rank]
    IN IF signed THEN -(2 ^ (b - 1)) .. 2 ^ (b - 1) - 1 ELSE 0 .. 2 ^ b - 1
\* 6.3.1.3: the value of the type that is congruent to v.
Congruent(p, v, rank, signed) ==
    CHOOSE w \in RangeOf(p, rank, signed) : (w - v) % 2 ^ Bits(p)[rank] = 0
Meant(typed, ok, v, rank, signed) == [typed |-> typed, ok |-> ok, v |-> v, rank |-> rank, signed |-> signed]
NoMeaning == Meant(FALSE, FALSE, 0, 3, TRUE)

\* 6.3.1.1 and 6.3.1.8: the signed type of the greater rank if it represents both operand types.
CommonMeaning(p, a, b) ==
    LET rank == CHOOSE r \in {3, a.rank, b.rank} : \A q \in {3, a.rank, b.rank} : r >= q
    IN [rank |-> rank, signed |-> RangeOf(p, a.rank, a.signed) \cup RangeOf(p, b.rank, b.signed) \subseteq RangeOf(p, rank, TRUE)]

\* 6.4.4.1: the list of types of a literal.
LiteralTypes(p, lit) ==
    LET Both(r) == <<<<r, TRUE>>, <<r, FALSE>>>>
        Signed(r) == <<<<r, TRUE>>>>
        Unsigned(r) == <<<<r, FALSE>>>>
        C90(r) == IF p.c90 /\ ~ (p.windows /\ lit.size = 5) THEN Both(r) ELSE Signed(r)
        Of(r) == IF r < lit.size THEN <<>> ELSE IF lit.unsigned THEN Unsigned(r) ELSE IF ~ lit.decimal THEN Both(r)
                 ELSE IF r = 3 THEN Signed(r) ELSE C90(r)
    IN Of(3) \o Of(4) \o Of(5)
LiteralMeaning(p, lit) ==
    IF lit.msvc THEN (IF p.windows /\ lit.value <= mask(WordBits)
                      THEN Meant(TRUE, TRUE, Congruent(p, lit.value, lit.size, ~ lit.unsigned), lit.size, ~ lit.unsigned) ELSE NoMeaning)
    ELSE LET types == LiteralTypes(p, lit)
             good == {i \in DOMAIN types : lit.value \in RangeOf(p, types[i][1], types[i][2])}
         IN IF good = {} THEN NoMeaning
            ELSE LET t == types[CHOOSE i \in good : \A j \in good : i <= j] IN Meant(TRUE, TRUE, lit.value, t[1], t[2])

\* The bits of a number in two's complement, and a number from its bits.
BitsOf(v, n) == {i \in 0 .. n - 1 : (v \div 2 ^ i) % 2 = 1}
RECURSIVE Sum2(_)
Sum2(S) == IF S = {} THEN 0 ELSE LET i == CHOOSE i \in S : TRUE IN 2 ^ i + Sum2(S \ {i})

\* An operation in a type: signed results must be representable, unsigned ones wrap.
InType(p, typed, ok, v, t) ==
    Meant(typed, ok /\ (t.signed => v \in RangeOf(p, t.rank, TRUE)),
          IF t.signed THEN v ELSE Congruent(p, v, t.rank, FALSE), t.rank, t.signed)
Truth(b) == IF b THEN 1 ELSE 0

\* t: the common type, x and y: the operands in it, of w bits; left: the promoted type of a, of n bits.
MeaningIn(p, op, a, b, t, x, y, w, left, n) ==
    LET typed == a.typed /\ b.typed
        both == a.ok /\ b.ok
    IN CASE op = "&&" -> Meant(typed, a.ok /\ (a.v # 0 => b.ok), Truth(a.v # 0 /\ b.v # 0), 3, TRUE)
         [] op = "||" -> Meant(typed, a.ok /\ (a.v = 0 => b.ok), Truth(a.v # 0 \/ b.v # 0), 3, TRUE)
         [] op \in Comparisons -> Meant(typed, both, Truth(Compare(op, x, y)), 3, TRUE)
         [] op = "<<" -> InType(p, typed, both /\ b.v \in 0 .. n - 1 /\ (left.signed => a.v >= 0),
                                IF b.v \in 0 .. n - 1 THEN a.v * 2 ^ b.v ELSE 0, left)
         [] op = ">>" -> InType(p, typed, both /\ b.v \in 0 .. n - 1, IF b.v \in 0 .. n - 1 THEN a.v \div 2 ^ b.v ELSE 0, left)
         [] op \in {"/", "%"} ->
              \* 6.5.5: when a/b overflows, so does a % b
              LET ok == both /\ y # 0 /\ (t.signed => Truncated(x, IF y = 0 THEN 1 ELSE y) \in RangeOf(p, t.rank, TRUE))
              IN InType(p, typed, ok, IF y = 0 THEN 0 ELSE Apply(op, x, y), t)
         [] op \in {"+", "-", "*"} -> InType(p, typed, both, Apply(op, x, y), t)
         [] op = "&" -> Meant(typed, both, Congruent(p, Sum2(BitsOf(x, w) \cap BitsOf(y, w)), t.rank, t.signed), t.rank, t.signed)
         [] op = "^" -> Meant(typed, both, Congruent(p, Sum2((BitsOf(x, w) \cup BitsOf(y, w)) \ (BitsOf(x, w) \cap BitsOf(y, w))),
                                                     t.rank, t.signed), t.rank, t.signed)

MeaningOf(p, op, a, b, t, left) ==
    MeaningIn(p, op, a, b, t, Congruent(p, a.v, t.rank, t.signed), Congruent(p, b.v, t.rank, t.signed), Bits(p)[t.rank],
              left, Bits(p)[left.rank])
BinaryMeaning(p, op, a, b) == MeaningOf(p, op, a, b, CommonMeaning(p, a, b), CommonMeaning(p, a, a))

UnaryMeaning(p, op, a) ==
    LET t == CommonMeaning(p, a, a)
    IN CASE op = "__real" -> a
         [] op = "__imag" -> [a EXCEPT !.v = 0]
         [] op = "!" -> Meant(a.typed, a.ok, Truth(a.v = 0), 3, TRUE)
         [] op = "+" -> InType(p, a.typed, a.ok, a.v, t)
         [] op = "-" -> InType(p, a.typed, a.ok, - a.v, t)
         [] op = "~" -> InType(p, a.typed, a.ok, -1 - a.v, t)

\* The offsets of the record the examples use, as a table; element i of the array r starts at 4 + 2 i.
FixedOffsets == [a |-> 0, x |-> 1, y |-> 2]
ElementOffsets == [x |-> 0, y |-> 1]
\* size_t in the psABI of the targets: unsigned long, unsigned long long, unsigned int.
SizeRank == [LP64 |-> 4, LLP64 |-> 5, ILP32 |-> 3]

ConditionalMeaning(p, test, then, else) ==
    LET arm == IF test.v # 0 THEN then ELSE else
        t == CommonMeaning(p, then, else)
    IN Meant(test.typed /\ then.typed /\ else.typed, test.ok /\ arm.ok, Congruent(p, arm.v, t.rank, t.signed), t.rank, t.signed)

RECURSIVE Meaning(_, _, _)
RECURSIVE OperandsOf(_, _, _)
PathMeaning(p, env, path) ==
    LET index == IF Len(path) > 1 THEN Meaning(p, env, path[2].index) ELSE Meant(TRUE, TRUE, 0, 3, TRUE)
        at == IF Len(path) = 1 THEN FixedOffsets[path[1].name] ELSE 4 + 2 * index.v + ElementOffsets[path[3].name]
        named == IF Len(path) = 1 THEN path[1].name \in DOMAIN FixedOffsets ELSE path[3].name \in DOMAIN ElementOffsets
        ok == index.ok /\ index.v >= 0
    IN Meant(named /\ index.typed, named /\ ok, IF named /\ ok THEN at ELSE 0, SizeRank[p.model], FALSE)

Meaning(p, env, e) ==
    CASE e.op = "literal" -> LiteralMeaning(p, e)
      [] e.op = "name" -> IF e.name \in DOMAIN env THEN env[e.name] ELSE NoMeaning
      [] e.op = "cast" ->
           LET a == Meaning(p, env, e.arg)
           IN IF e.rank = 6 /\ p.model = "ILP32" THEN NoMeaning
              ELSE IF e.rank = 0 THEN Meant(a.typed, a.ok, Truth(a.v # 0), 0, FALSE)
              ELSE Meant(a.typed, a.ok, Congruent(p, a.v, e.rank, e.signed), e.rank, e.signed)
      [] e.op = "unary" -> UnaryMeaning(p, e.operator, Meaning(p, env, e.arg))
      [] e.op = "binary" -> BinaryMeaning(p, e.operator, Meaning(p, env, e.left), Meaning(p, env, e.right))
      [] e.op = "conditional" ->
           ConditionalMeaning(p, Meaning(p, env, e.test), Meaning(p, env, IF e.then.op = "omitted" THEN e.test ELSE e.then),
                              Meaning(p, env, e.else))
      [] e.op = "choose" ->
           LET test == Meaning(p, env, e.test)
               then == Meaning(p, env, e.then)
               else == Meaning(p, env, e.else)
               arm == IF test.v # 0 THEN then ELSE else
           IN [arm EXCEPT !.typed = test.typed /\ test.ok /\ "object" \notin OperandsOf(p, env, e.test) /\ then.typed /\ else.typed, !.ok = @ /\ test.ok]
      [] e.op = "object" -> Meant(TRUE, FALSE, 0, 3, TRUE)
      [] e.op = "sizeof" -> Meant(TRUE, TRUE, e.bytes, SizeRank[p.model], FALSE)
      [] e.op = "address" -> PathMeaning(p, env, e.path)
      \* offsetof is a constant: its indices are evaluated wherever it stands
      [] e.op = "offsetof" -> LET a == PathMeaning(p, env, e.path) IN [a EXCEPT !.typed = @ /\ a.ok]

\* 6.6: no operand, evaluated or not, is an object; only the selected arm of __builtin_choose_expr is an operand.
OperandsOf(p, env, e) ==
    {e.op} \cup
    CASE e.op \in {"cast", "unary"} -> OperandsOf(p, env, e.arg)
      [] e.op = "binary" -> OperandsOf(p, env, e.left) \cup OperandsOf(p, env, e.right)
      [] e.op = "conditional" -> OperandsOf(p, env, e.test) \cup OperandsOf(p, env, e.then) \cup OperandsOf(p, env, e.else)
      [] e.op = "choose" -> OperandsOf(p, env, e.test) \cup OperandsOf(p, env, IF Meaning(p, env, e.test).v # 0 THEN e.then ELSE e.else)
      [] OTHER -> {}

\* A meaning as the value the code keeps.
AsValue(p, a) == New(a.v, Bits(p)[a.rank], a.signed, a.rank)

\* The meanings of the enumerators inside their definition: int when int represents the value; an implicit one
\* follows its predecessor in the least wider type that holds it.
MeantInside(p, raw) == IF raw.v \in RangeOf(p, 3, TRUE) THEN Meant(TRUE, TRUE, raw.v, 3, TRUE) ELSE raw
MeantAfter(p, last) ==
    LET next == last.v + 1
        ranks == {r \in {last.rank} \cup {q \in 4 .. 6 : Bits(p)[q] > Bits(p)[last.rank]} : next \in RangeOf(p, r, last.signed)}
    IN Meant(TRUE, TRUE, next, CHOOSE r \in ranks : \A q \in ranks : r <= q, last.signed)
NextMeant(p, before, written) ==
    LET env == [name \in {Names[i] : i \in DOMAIN before} |-> before[CHOOSE i \in DOMAIN before : Names[i] = name]]
    IN Append(before, MeantInside(p, IF written # Implicit THEN Meaning(p, env, written)
                                     ELSE IF before = <<>> THEN Meant(TRUE, TRUE, 0, 3, TRUE)
                                     ELSE MeantAfter(p, before[Len(before)])))
RECURSIVE Enumerated(_, _)
Enumerated(p, vs) ==
    IF vs = <<>> THEN <<>>
    ELSE NextMeant(p, Enumerated(p, SubSeq(vs, 1, Len(vs) - 1)), vs[Len(vs)].written)

------------------------------------------------------------------------------
MeaningsOf(env) == [name \in DOMAIN env |-> Meant(TRUE, TRUE, signed_value(env[name]), env[name].rank, env[name].signed)]
\* What was computed is what is meant, and the operands of the expression are the ones 6.6 allows.
Agrees(p, judged, m, operands) ==
    /\ IsFailed(judged.value) <=> ~ (m.typed /\ m.ok)
    /\ ~ IsFailed(judged.value) => judged.value = AsValue(p, m)
    /\ IsFailed(judged.type) <=> ~ m.typed
    /\ ~ IsFailed(judged.type) => judged.type = TypeOfValue(AsValue(p, m))
    /\ ~ IsFailed(judged.value) /\ "address" \notin operands => (judged.constant <=> "object" \notin operands)
\* The evaluator computes exactly C's value and type: it fails when and only when an operand without a type or an
\* evaluated operation without a defined value is met (unevaluated arms of ?:, && and || are typed but never computed),
\* and the type the expression checker gives the expression is the type of the value.  An expression that has a value
\* is an integer constant expression exactly when no operand is an object, short-circuited or not.
ConstantsExact ==
    evaluated # Implicit =>
        LET env == MeaningsOf(Environment(variants))
        IN Agrees(profile, judge(profile, Environment(variants), evaluated), Meaning(profile, env, evaluated),
                  OperandsOf(profile, env, evaluated))

\* Some type of an enumeration holds every number: int on Windows, which takes the unsigned ones that need its sign
\* bit; 64 bits elsewhere, and 128 under GNU where there is an __int128.
Fits(exact) ==
    LET numbers == {exact[i].v : i \in DOMAIN exact}
        bits == IF profile.gnu /\ profile.model # "ILP32" THEN 8 ELSE 6
    IN IF profile.windows THEN \A i \in DOMAIN exact : exact[i].v \in -8 .. (IF exact[i].signed THEN 7 ELSE 15)
       ELSE numbers \subseteq 0 .. 2 ^ bits - 1 \/ numbers \subseteq -(2 ^ (bits - 1)) .. 2 ^ (bits - 1) - 1
EnumeratorsAgree(exact) ==
    LET Sentinel(v) == profile.windows /\ v \in 8 .. 15
    IN CASE enumState = "open" -> \A i \in DOMAIN variants : variants[i].value = AsValue(profile, exact[i])
         [] enumState = "complete" ->
              /\ Fits(exact)
              /\ \A i \in DOMAIN variants :
                   signed_value(variants[i].value) = (IF Sentinel(exact[i].v) THEN exact[i].v - 16 ELSE exact[i].v)
              /\ \A i, j \in DOMAIN variants :
                   \/ variants[i].value.rank = variants[j].value.rank /\ variants[i].value.signed = variants[j].value.signed
                   \/ ~ profile.gnu /\ 3 \in {variants[i].value.rank, variants[j].value.rank}
         [] enumState = "unfit" -> ~ Fits(exact)
         [] OTHER -> TRUE

\* An enumerator keeps the number it was defined with: while the definition is open in the type C gives it there, and
\* after the closing brace in int or the enumeration's type, one type for all under GNU when one does not fit int.
\* The definition is refused at the brace exactly when the target has no type that holds all the numbers.  (Windows
\* reads an unsigned value that needs int's sign bit as a negative int.)
EnumeratorsExact == EnumeratorsAgree(Enumerated(profile, variants))
==============================================================================
