--------------------------- MODULE ExpressionTypes ---------------------------
(* The types of expressions (expression.rs): the category and type that        *)
(* expression_info gives every operator, the conversions of values, and the    *)
(* constraints of assignment.  A step runs one accepted expression statement   *)
(* on the objects of a small program, so that what the checker accepts can be  *)
(* compared with what the program then does to its objects.  A type of the     *)
(* checker that is a vector, complex, scalable or 32-bit pointer type, and the *)
(* alignment that typedefs give a value, are left out.                         *)
EXTENDS TypeRelations, SequencesExt

CONSTANTS Programs      \* a sequence: [env, objects, fields, functions, places, values]
VARIABLES program,      \* which of them runs
          store         \* the pointer held by every pointer cell
expressionVars == <<program, store>>

------------------------------------------------------------------------------
(* What an expression is: ExpressionInfo, with ok FALSE for a rejected one.    *)
Info(ty, lvalue, bits, register) == [ok |-> TRUE, ty |-> ty, lvalue |-> lvalue, bits |-> bits, register |-> register]
NoBits == -1
value(ty) == Info(ty, FALSE, NoBits, FALSE)
object(ty) == Info(ty, TRUE, NoBits, FALSE)
Rejected == [value(NoPointee) EXCEPT !.ok = FALSE]
When(condition, info) == IF condition THEN info ELSE Rejected

IntTy == Leaf("Int", FALSE)
SizeTy == Leaf("ULong", FALSE)
IsPointer(ty) == ty.kind = "Pointer"
IsAtomic(ty) == ty.kind = "Atomic"
\* Width and sign of the integer types (LP64).
IntegerTypes == [kind \in {"Bool", "Char", "UChar", "Int", "UInt", "Long", "ULong"} |->
    CASE kind = "Bool" -> <<1, FALSE>> [] kind = "Char" -> <<8, TRUE>> [] kind = "UChar" -> <<8, FALSE>>
      [] kind = "Int" -> <<32, TRUE>> [] kind = "UInt" -> <<32, FALSE>>
      [] kind = "Long" -> <<64, TRUE>> [] kind = "ULong" -> <<64, FALSE>>]
IntegerKind(ty) == IF ty.kind \in DOMAIN EnumInteger THEN EnumInteger[ty.kind] ELSE ty.kind
integer_type(ty) == IntegerKind(ty) \in DOMAIN IntegerTypes
is_arithmetic(ty) == integer_type(ty) \/ ty.kind \in {"Float", "Double"}
IsRecord(p, ty) == ty.kind \in DOMAIN p.fields

atomic_value_type(ty) == unqualified(IF IsAtomic(ty) THEN ty.of ELSE ty)

\* Lvalue conversion and the decay of arrays and functions; a qualifier of the array qualifies its elements.
value_type(ty, void_lvalue) ==
    CASE ty.kind = "Void" /\ void_lvalue -> ty
      [] IsArray(ty) -> PointerTo([ty.of EXCEPT !.const = @ \/ ty.const], FALSE)
      [] IsFunction(ty) -> PointerTo(ty, FALSE)
      [] OTHER -> unqualified(ty)

\* The type of an expression in a value context.  A register array has no address to decay to.
converted_type(p, info) ==
    CASE IsAtomic(info.ty) -> IF info.lvalue \/ p.env.gnu THEN atomic_value_type(info.ty) ELSE unqualified(info.ty)
      [] OTHER -> value_type(info.ty, info.lvalue)
Convertible(info) == info.ok /\ ~ (info.register /\ IsArray(info.ty))

require_scalar(ty) == LET v == value_type(ty, FALSE) IN is_arithmetic(v) \/ IsPointer(v)

\* A promotion that makes an int of every narrow bit-field.
PromotedToInt(info, kind) == Leaf(IF (info.bits # NoBits /\ info.bits <= 32) \/ IntegerTypes[kind][1] < 32 THEN "Int" ELSE kind, FALSE)
PromotedKind(info, kind) ==
    Leaf(IF info.bits # NoBits /\ info.bits <= 32
         THEN IF info.bits < 32 \/ IntegerTypes[kind][2] THEN "Int" ELSE "UInt"
         ELSE IF IntegerTypes[kind][1] < 32 THEN "Int" ELSE kind, FALSE)
promoted_integer(p, info) ==
    PromotedKind(info, IntegerKind(IF IsAtomic(info.ty) THEN converted_type(p, info) ELSE info.ty))

\* The usual arithmetic conversions on promoted types.
common(left, right) ==
    LET l == IntegerTypes[left.kind] r == IntegerTypes[right.kind]
    IN IF l[1] # r[1] THEN IF l[1] > r[1] THEN left ELSE right
       ELSE IF l[2] THEN right ELSE left
\* An atomic value of Clang's profile stays atomic and is no arithmetic operand.
ArithmeticOperand(p, info) == IF (info.lvalue \/ p.env.gnu) /\ IsAtomic(info.ty) THEN info.ty.of ELSE info.ty
PromotedCommon(p, left, right) == common(promoted_integer(p, left), promoted_integer(p, right))
ArithmeticOf(p, left, right, l, r) ==
    When(is_arithmetic(l) /\ is_arithmetic(r),
         value(IF "Double" \in {l.kind, r.kind} THEN Leaf("Double", FALSE)
               ELSE IF "Float" \in {l.kind, r.kind} THEN Leaf("Float", FALSE)
               ELSE PromotedCommon(p, left, right)))
arithmetic_type(p, left, right) == ArithmeticOf(p, left, right, ArithmeticOperand(p, left), ArithmeticOperand(p, right))
BitwiseType(p, left, right) ==
    When(integer_type(left.v) /\ integer_type(right.v), value(PromotedCommon(p, left, right)))

------------------------------------------------------------------------------
(* Modifiable lvalues and members.                                             *)
RECURSIVE contains_const(_, _)
ConstAtTopOnly(p, ty) == ty.const \/ (IsArray(ty) /\ ty.of.const)
contains_const(p, ty) ==
    \/ ty.const
    \/ (IsArray(ty) \/ (IsAtomic(ty) /\ p.env.gnu)) /\ contains_const(p, ty.of)
    \/ IsRecord(p, ty) /\ \E i \in DOMAIN p.fields[ty.kind] : contains_const(p, p.fields[ty.kind][i].ty)

require_modifiable(p, info) == info.lvalue /\ ~ contains_const(p, info.ty) /\ ~ IsArray(info.ty) /\ complete_object(info.ty)

\* A member keeps the qualifiers of the record it is reached through, anonymous members included.
FieldUnqualified(ty, field) == [ty |-> field.ty, bits |-> field.bits]
FieldOf(ty, field) == [ty |-> [field.ty EXCEPT !.const = @ \/ ty.const], bits |-> field.bits]
NoMember == [ty |-> NoPointee, bits |-> NoBits]
FirstFound(found) == found[Min({i \in DOMAIN found : found[i] # NoMember \/ i = Len(found)})]
RECURSIVE member_type(_, _, _)
member_type(p, ty, name) ==
    IF ~ IsRecord(p, ty) THEN NoMember
    ELSE FirstFound([i \in DOMAIN p.fields[ty.kind] |->
           LET field == p.fields[ty.kind][i]
           IN IF field.name = name THEN FieldOf(ty, field)
              ELSE IF field.name = "" /\ field.bits = NoBits THEN member_type(p, FieldOf(ty, field).ty, name)
              ELSE NoMember])

------------------------------------------------------------------------------
(* Assignment, initialization and prototype arguments.                         *)
is_null_pointer_constant(e, ty) ==
    \/ e.op = "cast" /\ ty = PointerTo(Leaf("Void", FALSE), FALSE) /\ e.of.op = "zero"
    \/ integer_type(ty) /\ e.op = "zero"

\* The comparison view of an array: its qualifiers gathered at the outermost array.
RECURSIVE StripArray(_)
StripArray(ty) == [IF IsArray(ty) THEN [ty EXCEPT !.of = StripArray(@)] ELSE ty EXCEPT !.const = FALSE]
array_qualification(ty) == IF IsArray(ty) THEN [StripArray(ty) EXCEPT !.const = identity_qualifiers(ty)] ELSE ty

\* The pointed-to type may gain qualifiers, never lose them.
KeepsAnyQualifiers(from, to) == TRUE
KeepsQualifiers(from, to) == from.const => to.const
PointeesAssign(p, to, from) ==
    /\ KeepsQualifiers(from, to)
    /\ \/ compatible(p.env, unqualified(to), unqualified(from))
       \/ "Void" \in {to.kind, from.kind}
check_pointer_assignment(p, pointee, source) ==
    \/ source.kind = "Void" /\ IsFunction(pointee)
    \/ PointeesAssign(p, array_qualification(pointee), array_qualification(source))

ValueAssigns(p, to, source, e) ==
       \/ is_arithmetic(to) /\ is_arithmetic(source)
       \/ to.kind = "Bool" /\ IsPointer(source)
       \/ IsRecord(p, to) /\ compatible(p.env, to, source) /\ complete_object(to)
       \/ IsPointer(to) /\ is_null_pointer_constant(e, source)
       \/ IsPointer(to) /\ IsPointer(source) /\ check_pointer_assignment(p, to.of, source.of)
check_assignment_type(p, destination, source, e) ==
    \/ /\ IsAtomic(destination) /\ IsAtomic(source)
       /\ compatible(p.env, unqualified(destination), unqualified(source))
    \/ ValueAssigns(p, atomic_value_type(destination), source, e)

------------------------------------------------------------------------------
(* expression_info, an operator at a time, over what it gives the operands:    *)
(* `sub` by the field that holds the operand, `items` for the arguments of a   *)
(* call and the associations of a _Generic.  An operand is its ExpressionInfo  *)
(* with the type `v` it is converted to in a value context.                    *)
Operand(p, info) ==
    [ok |-> info.ok, ty |-> info.ty, lvalue |-> info.lvalue, bits |-> info.bits, register |-> info.register,
     v |-> converted_type(p, info)]

InfoOf(operand) == [Info(operand.ty, operand.lvalue, operand.bits, operand.register) EXCEPT !.ok = operand.ok]

identifier(p, name) ==
    IF name \in DOMAIN p.objects THEN [object(p.objects[name].ty) EXCEPT !.register = p.objects[name].register]
    ELSE IF name \in DOMAIN p.functions THEN value(p.functions[name]) ELSE Rejected

\* &*e is e after conversion, whatever it points at: `operand` is what * gives that pointer.
address(e, operand) ==
    When(/\ Convertible(operand)
         /\ e.of.op # "deref" => ~ operand.register /\ operand.bits = NoBits /\ (operand.lvalue \/ IsFunction(operand.ty)),
         value(PointerTo(operand.ty, FALSE)))

indirection(v) == When(IsPointer(v), Info(v.of, ~ IsFunction(v.of), NoBits, FALSE))

unary(p, op, operand, v) ==
    CASE op = "deref" -> indirection(v)
      [] op = "not" -> When(require_scalar(v), value(IntTy))
      [] op = "complement" -> When(integer_type(v), value(promoted_integer(p, operand)))
      [] op = "plus" -> When(is_arithmetic(v), value(IF integer_type(v) THEN promoted_integer(p, operand) ELSE v))
      [] op = "increment" -> When(/\ require_modifiable(p, operand) /\ require_scalar(v)
                                  /\ IsPointer(v) => complete_object(v.of), value(v))

\* The operand a conditional takes when its condition holds; GNU's x ?: y leaves it out.
nonzero_expression(e) == IF e.op = "elvis" THEN e.if ELSE e.l
PointerOr(pointee) == When(pointee # NoPointee, value(PointerTo(pointee, FALSE)))
ConditionalType(p, e, left, right, l, r) ==
    CASE is_arithmetic(l) /\ is_arithmetic(r) -> arithmetic_type(p, left, right)
      [] "Void" \in {l.kind, r.kind} -> value(Leaf("Void", FALSE))
      [] IsRecord(p, l) /\ IsRecord(p, r) -> When(compatible(p.env, l, r) /\ complete_object(l), value(l))
      [] IsPointer(l) /\ is_null_pointer_constant(e.r, r) -> value(l)
      [] IsPointer(r) /\ ~ IsPointer(l) -> When(is_null_pointer_constant(nonzero_expression(e), l), value(r))
      [] IsPointer(l) /\ IsPointer(r) /\ ~ is_null_pointer_constant(e.r, r) ->
           IF is_null_pointer_constant(nonzero_expression(e), l) THEN value(r) ELSE PointerOr(composite_pointer(p.env, l.of, r.of))
      [] OTHER -> Rejected
conditional(p, e, condition, left, right) ==
    IF /\ Convertible(condition) /\ Convertible(left) /\ Convertible(right)
       /\ require_scalar(condition.v)
    THEN ConditionalType(p, e, left, right, left.v, right.v) ELSE Rejected

MemberOf(e, base, field) ==
    When(field # NoMember, Info(field.ty, e.op = "arrow" \/ base.lvalue, field.bits, e.op = "member" /\ base.register))
member(p, e, base) ==
    IF ~ base.ok \/ (e.op = "arrow" /\ ~ (Convertible(base) /\ IsPointer(base.v))) THEN Rejected
    ELSE MemberOf(e, base, member_type(p, IF e.op = "arrow" THEN base.v.of ELSE base.ty, e.name))

index(left, right) ==
    LET pointer == IF IsPointer(left) THEN left ELSE right
        other == IF IsPointer(left) THEN right ELSE left
    IN When(IsPointer(pointer) /\ integer_type(other) /\ complete_object(pointer.of), object(pointer.of))

\* Equality accepts a null pointer constant or a common pointer type, order only pointers to compatible objects.
comparison(p, e, left, right, l, r) ==
    CASE is_arithmetic(l) /\ is_arithmetic(r) -> arithmetic_type(p, left, right).ok
      [] e.op = "equal" /\ ~ (is_arithmetic(l) /\ is_arithmetic(r)) ->
           \/ IsPointer(l) /\ is_null_pointer_constant(e.r, r)
           \/ IsPointer(r) /\ is_null_pointer_constant(e.l, l)
           \/ IsPointer(l) /\ IsPointer(r) /\ composite_pointer(p.env, l.of, r.of) # NoPointee
      [] OTHER -> IsPointer(l) /\ IsPointer(r) /\ ~ IsFunction(l.of) /\ compatible(p.env, unqualified(l.of), unqualified(r.of))

additive(p, op, assignment, left, right, l, r) ==
    CASE IsPointer(l) /\ op = "minus" /\ IsPointer(r) ->
           When(/\ complete_object(l.of) /\ complete_object(r.of)
                /\ compatible(p.env, unqualified(l.of), unqualified(r.of)), value(Leaf("Long", FALSE)))
      [] IsPointer(l) /\ ~ (op = "minus" /\ IsPointer(r)) -> When(complete_object(l.of) /\ integer_type(r), value(l))
      [] ~ IsPointer(l) /\ ~ assignment /\ op = "add" /\ IsPointer(r) ->
           When(complete_object(r.of) /\ integer_type(l), value(r))
      [] OTHER -> arithmetic_type(p, left, right)

BinaryType(p, e, left, right, l, r) ==
    CASE e.op = "assign" -> When(require_modifiable(p, left) /\ check_assignment_type(p, left.ty, r, e.r), value(l))
      [] e.op = "addassign" ->
           When(/\ require_modifiable(p, left)
                /\ ~ (IsPointer(l) /\ IsAtomic(left.ty) /\ ~ p.env.gnu)
                /\ IsPointer(l) => integer_type(r)
                /\ additive(p, "add", TRUE, left, right, l, r).ok, value(l))
      [] e.op = "index" -> index(l, r)
      [] e.op = "and" -> When(require_scalar(l) /\ require_scalar(r), value(IntTy))
      [] e.op \in {"equal", "less"} -> When(comparison(p, e, left, right, l, r), value(IntTy))
      [] e.op \in {"add", "minus"} -> additive(p, e.op, FALSE, left, right, l, r)
      [] e.op = "times" -> arithmetic_type(p, left, right)
      [] e.op = "shift" -> When(integer_type(l) /\ integer_type(r), value(promoted_integer(p, left)))
      [] e.op = "bitand" -> BitwiseType(p, left, right)
binary_expression(p, e, left, right) ==
    IF Convertible(left) /\ Convertible(right) THEN BinaryType(p, e, left, right, left.v, right.v) ELSE Rejected

\* An argument next to its parameter, or after the last one.
ArgumentFits(p, e, function, argument, i) ==
    /\ Convertible(argument)
    /\ IF function.prototype /\ i <= Len(function.parameters)
       THEN check_assignment_type(p, function.parameters[i], argument.v, e.arguments[i])
       ELSE complete_object(argument.v)
CallOf(p, e, function, arguments) ==
    When(/\ IsFunction(function)
         /\ function.prototype => /\ Len(e.arguments) >= Len(function.parameters)
                                  /\ ~ function.variadic => Len(e.arguments) = Len(function.parameters)
         /\ \A i \in DOMAIN arguments : ArgumentFits(p, e, function, arguments[i], i)
         /\ function.of.kind = "Void" \/ complete_object(function.of),
         value(IF p.env.gnu /\ IsAtomic(function.of) THEN atomic_value_type(function.of) ELSE function.of))
call(p, e, callee, arguments) ==
    IF Convertible(callee) /\ IsPointer(callee.v) THEN CallOf(p, e, callee.v.of, arguments) ELSE Rejected

\* GNU: a value cast between records of one type; otherwise scalars, and no pointer to or from a floating type.
cast(p, e, source, v) ==
    LET to == IF IsAtomic(e.ty) THEN atomic_value_type(e.ty) ELSE e.ty
        floating == {"Float", "Double"}
    IN When(/\ Convertible(source)
            /\ \/ to.kind = "Void"
               \/ IsRecord(p, to) /\ compatible(p.env, v, unqualified(to)) /\ complete_object(to)
               \/ /\ require_scalar(v) /\ require_scalar(to) /\ ~ IsArray(to) /\ ~ IsFunction(to)
                  /\ ~ (IsPointer(to) /\ v.kind \in floating) /\ ~ (to.kind \in floating /\ IsPointer(v)),
            value(unqualified(IF p.env.gnu THEN to ELSE e.ty)))

sizeof_operand_type(operand) ==
    operand.ok /\ operand.bits = NoBits /\ (operand.ty.kind \in {"Void", "Function"} \/ complete_object(operand.ty))

\* _Generic: distinct complete association types, every association checked, the compatible one or the default.
Default == 0
Selected(p, e, control) ==
    LET matching == {i \in DOMAIN e.types : compatible(p.env, control, e.types[i])}
    IN IF matching = {} THEN Default ELSE CHOOSE i \in matching : TRUE
Association(arms, default, i) == IF i = Default THEN default ELSE arms[i]
generic_expression(p, e, sub, arms) ==
    When(/\ Convertible(sub.of)
         /\ \A i \in DOMAIN e.types : complete_object(e.types[i])
         /\ \A i, j \in DOMAIN e.types : i # j => ~ compatible(p.env, e.types[i], e.types[j])
         /\ \A i \in DOMAIN arms : arms[i].ok
         /\ sub.default.ok,
         InfoOf(Association(arms, sub.default, Selected(p, e, sub.of.v))))

comma(first, last) == When(Convertible(first) /\ Convertible(last), value(last.v))

InfoFrom(p, e, sub, items) ==
    CASE e.op \in {"zero", "one"} -> value(IntTy)
      [] e.op = "name" -> identifier(p, e.name)
      [] e.op = "address" -> address(e, sub.of)
      [] e.op \in {"deref", "not", "complement", "plus", "increment"} ->
           IF Convertible(sub.of) THEN unary(p, e.op, sub.of, sub.of.v) ELSE Rejected
      [] e.op \in {"if", "elvis"} -> conditional(p, e, sub.if, IF e.op = "elvis" THEN sub.if ELSE sub.l, sub.r)
      [] e.op \in {"member", "arrow"} -> member(p, e, sub.of)
      [] e.op = "call" -> call(p, e, sub.of, items)
      [] e.op = "cast" -> cast(p, e, sub.of, sub.of.v)
      [] e.op = "sizeof" -> When(sizeof_operand_type(sub.of), value(SizeTy))
      [] e.op = "generic" -> generic_expression(p, e, sub, items)
      [] e.op = "comma" -> comma(sub.l, sub.r)
      [] OTHER -> binary_expression(p, e, sub.l, sub.r)

OperandFields(e) == DOMAIN e \cap ({"of", "if", "l", "r"} \cup (IF e.op = "generic" THEN {"default"} ELSE {}))
Items(e) == CASE e.op = "call" -> e.arguments [] e.op = "generic" -> e.arms [] OTHER -> <<>>
RECURSIVE expression_info(_, _)
expression_info(p, e) ==
    InfoFrom(p, e, [field \in OperandFields(e) |-> Operand(p, expression_info(p, e[field]))],
                   [i \in DOMAIN Items(e) |-> Operand(p, expression_info(p, Items(e)[i]))])
operand_info(p, e) == Operand(p, expression_info(p, e))

------------------------------------------------------------------------------
(* C's meaning of the expressions, the reference of the properties below.  A   *)
(* place is an object followed by the members and elements that lead into it;  *)
(* a result is a place, a value, or stuck where the program has no meaning     *)
(* (a null pointer followed, an array left).                                   *)
TypeIn(p, outer, step) == IF IsArray(outer) THEN outer.of ELSE member_type(p, unqualified(outer), step).ty
RECURSIVE TypeAt(_, _)
TypeAt(p, place) ==
    IF Len(place) = 1 THEN p.objects[place[1]].ty
    ELSE TypeIn(p, TypeAt(p, Front(place)), Last(place))
\* An object is const when it, or an aggregate it lies in, was defined const.
ConstAt(p, place) == \E n \in 1 .. Len(place) : TypeAt(p, SubSeq(place, 1, n)).const
BitsIn(p, outer, step) == IF IsArray(outer) THEN NoBits ELSE member_type(p, unqualified(outer), step).bits
BitsAt(p, place) == IF Len(place) = 1 THEN NoBits ELSE BitsIn(p, TypeAt(p, Front(place)), Last(place))

RECURSIVE CellsOf(_, _)
\* The steps into an object of the type.
StepsInto(p, ty) ==
    CASE IsArray(ty) -> {"0", "1"}
      [] IsRecord(p, ty) -> {p.fields[ty.kind][i].name : i \in DOMAIN p.fields[ty.kind]} \ {""}
      [] OTHER -> {}
CellsOf(p, place) ==
    LET steps == StepsInto(p, TypeAt(p, place))
    IN IF steps = {} THEN {place} ELSE UNION {CellsOf(p, Append(place, step)) : step \in steps}
Cells(p) == UNION {CellsOf(p, <<name>>) : name \in DOMAIN p.objects}
PointerType(ty) == IsPointer(ty) \/ (IsAtomic(ty) /\ IsPointer(ty.of))
HoldsPointer(p, place) == PointerType(TypeAt(p, place))
PointerCells(p) == {place \in Cells(p) : HoldsPointer(p, place)}

\* Values: integers are known by the range they lie in, records by the pointers in them.
NullPlace == << >>
Value(t, to, range, parts) == [t |-> t, to |-> to, range |-> range, parts |-> parts]
NullValue == Value("pointer", NullPlace, <<0, FALSE>>, {})
Number(bits, signed) == Value("integer", NullPlace, <<bits, signed>>, {})
AnInt == Number(1, FALSE)
Designates(name) == Value("function", <<name>>, <<0, FALSE>>, {})
PointsTo(place) == Value("pointer", place, <<0, FALSE>>, {})

Result(kind, x, m, writes) == [kind |-> kind, x |-> x, m |-> m, writes |-> writes]
Stuck == Result("stuck", NullValue, << >>, {})
AtPlace(place, was) == Result("place", PointsTo(place), was.m, was.writes)
Gives(x, was) == Result("value", x, was.m, was.writes)

\* The value read at a place.
IntegerAt(p, place, ty) ==
    IF ~ integer_type(ty) THEN Number(0, FALSE)
    ELSE LET range == IntegerTypes[IntegerKind(ty)]
             bits == BitsAt(p, place)
         IN Number(IF bits # NoBits THEN bits ELSE range[1], range[2])
ReadAs(p, r, place, ty) ==
    CASE IsArray(ty) -> Gives(PointsTo(Append(place, "0")), r)
      [] IsRecord(p, ty) ->
           Gives(Value("record", NullPlace, <<0, FALSE>>,
                       {<<SubSeq(c, Len(place) + 1, Len(c)), r.m[c]>> : c \in CellsOf(p, place) \cap PointerCells(p)}), r)
      [] PointerType(ty) -> Gives(r.m[place], r)
      [] OTHER -> Gives(IntegerAt(p, place, IF IsAtomic(ty) THEN ty.of ELSE ty), r)
Read(p, r) == IF r.kind # "place" THEN r ELSE ReadAs(p, r, r.x.to, TypeAt(p, r.x.to))

\* Storing a value; a record stores its pointers one by one.
Write(p, place, x, m) ==
    [c \in DOMAIN m |->
        IF c = place THEN (IF x.t = "integer" THEN NullValue ELSE x)
        ELSE IF IsPrefix(place, c) /\ x.t = "record"
        THEN (CHOOSE part \in x.parts : part[1] = SubSeq(c, Len(place) + 1, Len(c)))[2]
        ELSE m[c]]

\* A pointer moved by one element.
Moved(p, x) ==
    IF x.to = NullPlace \/ Len(x.to) = 1 THEN NullPlace
    ELSE IF IsArray(TypeAt(p, Front(x.to))) /\ Last(x.to) = "0" THEN Append(Front(x.to), "1") ELSE NullPlace

StoredAt(p, source, target, place) ==
    LET x == IF source.x.t = "function" THEN PointsTo(source.x.to) ELSE source.x
        m2 == Write(p, place, x, target.m)
    IN Result("value", IF HoldsPointer(p, place) THEN m2[place]
                       ELSE IF source.x.t = "record" THEN source.x ELSE Read(p, AtPlace(place, target)).x,
              m2, source.writes \cup target.writes \cup CellsOf(p, place))
Stored(p, source, target) ==
    IF source.kind = "stuck" \/ target.kind # "place" THEN Stuck ELSE StoredAt(p, source, target, target.x.to)

MovedAt(p, target, place, moved) ==
    IF moved = NullPlace THEN Stuck
    ELSE Result("value", PointsTo(moved), Write(p, place, PointsTo(moved), target.m), target.writes \cup {place})
SteppedAt(p, target, place, was) ==
    IF HoldsPointer(p, place) THEN MovedAt(p, target, place, Moved(p, was))
    ELSE Result("value", was, target.m, target.writes \cup {place})
Stepped(p, target) == IF target.kind # "place" THEN Stuck ELSE SteppedAt(p, target, target.x.to, Read(p, target).x)

Elsewhere(p, e, l, r) ==
    LET pointer == IF l.x.t = "pointer" THEN l.x ELSE r.x
        at == IF e.op \in {"index", "add"} /\ "one" \in {e.l.op, e.r.op} THEN Moved(p, pointer) ELSE pointer.to
    IN IF l.kind = "stuck" \/ r.kind = "stuck" THEN Stuck
       ELSE CASE e.op = "comma" -> [r EXCEPT !.writes = @ \cup l.writes]
              [] e.op \in {"index", "add"} /\ "pointer" \in {l.x.t, r.x.t} ->
                   IF at = NullPlace THEN Stuck ELSE IF e.op = "index" THEN AtPlace(at, r) ELSE Gives(PointsTo(at), r)
              [] OTHER -> Gives(AnInt, r)

\* A zero where a pointer is wanted is a null pointer; a number takes the common type.
AsTyped(p, e, r) == IF r.x.t # "integer" THEN r ELSE Gives(IF IsPointer(expression_info(p, e).ty) THEN NullValue ELSE AnInt, r)

AddressMeaning(r) ==
    IF r.kind = "place" THEN Gives(r.x, r) ELSE IF r.x.t = "function" THEN Gives(PointsTo(r.x.to), r) ELSE Stuck
PointedAt(p, r) ==
    IF r.kind = "stuck" \/ r.x.to = NullPlace THEN Stuck
    ELSE IF r.x.to[1] \in DOMAIN p.objects THEN AtPlace(r.x.to, r) ELSE Gives(Designates(r.x.to[1]), r)
MemberMeaning(r, name) == IF r.kind = "stuck" \/ r.x.to = NullPlace THEN Stuck ELSE AtPlace(Append(r.x.to, name), r)
CastMeaning(e, r) ==
    IF r.kind = "stuck" THEN Stuck
    ELSE IF ~ (e.op = "cast" /\ IsPointer(e.ty)) THEN Gives(AnInt, r)
    ELSE IF r.x.t = "pointer" THEN r ELSE Gives(NullValue, r)
\* A condition is an integer or pointer that may go either way: the trees fix it with zero and one.
Holds(e, c) == IF c.x.t = "pointer" THEN c.x.to # NullPlace ELSE e.if.op # "zero"

\* The operands a meaning reads as values: the others are places.
Reads(e) == e.op \in {"deref", "arrow", "not", "complement", "sizeof", "plus", "cast"}

RECURSIVE Meaning(_, _, _, _)
\* `wanted`: the expression stands where its value is read.  A function of the program returns its first argument.
Meaning(p, m, e, wanted) ==
    LET Of(operand) == Meaning(p, m, operand, Reads(e))
        result ==
          CASE e.op \in {"zero", "one"} -> Result("value", IF e.op = "zero" THEN Number(0, FALSE) ELSE AnInt, m, {})
            [] e.op = "name" -> IF e.name \in DOMAIN p.objects THEN Result("place", PointsTo(<<e.name>>), m, {})
                                ELSE Result("value", Designates(e.name), m, {})
            [] e.op = "address" -> AddressMeaning(Of(e.of))
            [] e.op = "deref" -> PointedAt(p, Of(e.of))
            [] e.op \in {"member", "arrow"} -> MemberMeaning(Of(e.of), e.name)
            [] e.op \in {"not", "complement", "sizeof", "cast"} -> CastMeaning(e, Of(e.of))
            [] e.op = "plus" -> Of(e.of)
            [] e.op = "increment" -> Stepped(p, Of(e.of))
            [] e.op = "addassign" -> Stepped(p, Of(e.l))
            [] e.op = "assign" -> LET source == Meaning(p, m, e.r, TRUE) IN Stored(p, source, Meaning(p, source.m, e.l, FALSE))
            [] e.op \in {"if", "elvis"} ->
                 LET c == Meaning(p, m, e.if, TRUE)
                 IN IF c.kind = "stuck" THEN Stuck
                    ELSE AsTyped(p, e, Meaning(p, c.m, IF Holds(e, c) THEN nonzero_expression(e) ELSE e.r, TRUE))
            [] e.op = "generic" -> Meaning(p, m, Association(e.arms, e.default, Selected(p, e, operand_info(p, e.of).v)), FALSE)
            [] e.op = "call" -> AsTyped(p, e, Meaning(p, m, e.arguments[1], TRUE))
            [] OTHER -> LET l == Meaning(p, m, e.l, TRUE) IN Elsewhere(p, e, l, Meaning(p, l.m, e.r, TRUE))
    IN IF wanted THEN Read(p, result) ELSE result

------------------------------------------------------------------------------
(* The machine: an accepted expression statement runs.                         *)
ExpressionsInit ==
    /\ program \in DOMAIN Programs
    /\ store = [c \in PointerCells(Programs[program]) |-> NullValue]

\* The statements that assign to a place.
StatementsAt(p, place) ==
    {[op |-> op, l |-> place, r |-> x] : op \in {"assign", "addassign"}, x \in p.values} \cup {[op |-> "increment", of |-> place]}

\* An expression statement: the expression is checked, and runs when it has a meaning.
ExpressionStatement(p, e) ==
    /\ expression_info(p, e).ok
    /\ \E result \in {Meaning(p, store, e, FALSE)} : result.kind = "value" /\ store' = result.m
    /\ UNCHANGED program

ExpressionsNext ==
    \E p \in {Programs[program]} : \E place \in p.places :
      /\ require_modifiable(p, expression_info(p, place))
      /\ \E e \in StatementsAt(p, place) : ExpressionStatement(p, e)
ExpressionsSpec == ExpressionsInit /\ [][ExpressionsNext]_expressionVars

------------------------------------------------------------------------------
(* Properties.                                                                 *)
\* The pointer x may be held as a pointer to `ty`: it leads to an object of that type, a const object only when
\* the type says so, and never to a register object or a bit-field.
PointsAsTyped(p, ty, x) ==
    \/ x.to = NullPlace
    \/ x.to[1] \in DOMAIN p.functions /\ (ty.kind = "Void" \/ compatible(p.env, unqualified(ty), p.functions[x.to[1]]))
    \/ /\ x.to[1] \in DOMAIN p.objects
       /\ ~ p.objects[x.to[1]].register
       /\ BitsAt(p, x.to) = NoBits
       /\ ConstAt(p, x.to) => identity_qualifiers(ty)
       /\ ty.kind # "Void" =>
            LET held == TypeAt(p, x.to)
            IN IF IsArray(ty) THEN StripArray(held) = StripArray(ty) ELSE unqualified(held) = unqualified(ty)

\* No accepted statement of a program without pointer casts writes an object that was defined const, or that lies
\* in one, whatever ran before it: not through a pointer, a member, an array element or a whole record.
ConstObjectsKept ==
    \A p \in {Programs[program]} : \A place \in p.places :
      expression_info(p, place).ok /\ expression_info(p, place).lvalue =>
        \A e \in StatementsAt(p, place) :
          expression_info(p, e).ok => \A c \in Meaning(p, store, e, FALSE).writes : ~ ConstAt(p, c)

\* Every pointer object leads to an object of the type it was declared to point at, however it got its value.
PointersTyped ==
    \A p \in {Programs[program]} : \A c \in DOMAIN store :
      PointsAsTyped(p, atomic_value_type(TypeAt(p, c)).of, store[c])

InRange(range, ty) ==
    LET to == IntegerTypes[IntegerKind(ty)]
    IN IF range[2] THEN to[2] /\ range[1] <= to[1] ELSE range[1] <= to[1] - (IF to[2] THEN 1 ELSE 0)
ValueTyped(p, info, v) ==
    Convertible(info) /\ v.kind = "value" /\ v.x.t # "record" =>
        CASE IsPointer(info.v) -> v.x.t = "function" \/ (v.x.t = "pointer" /\ PointsAsTyped(p, info.v.of, v.x))
          [] integer_type(info.v) -> v.x.t = "integer" /\ InRange(v.x.range, info.v)
          [] OTHER -> TRUE
\* The value of every accepted expression has the type the checker gives it: pointers lead where the type says,
\* and integers lie in its range, so that promotions lose nothing.
ValuesTyped ==
    \A p \in {Programs[program]} : \A e \in p.values : ValueTyped(p, operand_info(p, e), Meaning(p, store, e, TRUE))

==============================================================================
