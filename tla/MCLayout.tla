------------------------------- MODULE MCLayout -------------------------------
(* The sizes of things, in one run: the record builders on their own, a        *)
(* translation unit's types, which use the same rules, and the integer         *)
(* constant expressions that give lengths, widths and enumerators.  A          *)
(* behaviour belongs to one of them (`part`) and the others rest.              *)
EXTENDS RecordLayout, TypeTable, IntegerConstants

VARIABLE part
layoutParts == <<part, layoutVars, tableVars, constantVars>>

------------------------------------------------------------------------------
(* Records and a unit's types (RecordLayout, TypeTable).                      *)
Declared(kind, packed, pack, align) == [kind |-> kind, packed |-> packed, pack |-> pack, align |-> align]

\* Plain, packed, packed by pragma and aligned structs, and a union.
MCRecordForms ==
    {Declared("Struct", FALSE, None, None), Declared("Struct", TRUE, None, None), Declared("Struct", FALSE, 16, None),
     Declared("Struct", FALSE, None, 64), Declared("Union", FALSE, None, None), Declared("Union", FALSE, 16, Bare)}

MCFieldForms == {[packed |-> FALSE, align |-> None], [packed |-> TRUE, align |-> 16]}

\* A zero-width bit-field, one that shares a byte, and one that does not, named or padding.
MCBitShapes == {[width |-> 0, named |-> TRUE], [width |-> 0, named |-> FALSE], [width |-> 7, named |-> TRUE],
                [width |-> 20, named |-> TRUE], [width |-> 20, named |-> FALSE]}

\* The builders that keep a storage unit open between fields get a third one.
MCLayoutFields == [t \in Targets |-> IF t \in {"x86_64-windows-gnu", "thumbv7-msvc"} THEN 3 ELSE 2]

\* The unit: an integer and two tags, an anonymous struct and a named packed union.
MCBasePool == <<Leaf("Int"), Derived("Record", 1, 0, None, FALSE), Derived("Record", 2, 0, None, FALSE)>>
MCForward == {<<Undefined("Struct", FALSE, FALSE), Undefined("Union", TRUE, TRUE)>>}
MCLengths == {Flexible, Variable, 2}
MCTableProfiles == {<<"x86_64-linux-gnu", "Gcc">>, <<"x86_64-msvc", "Msvc">>}

------------------------------------------------------------------------------
(* Literals at the limits of int and long long, operators over them, casts,
   unevaluated arms that would fail, and enumerations (IntegerConstants). *)
\* GCC and Clang on a 64-bit Unix, Clang on Windows, GCC on i686 and Clang on ARMv7.
MCProfiles == {[gnu |-> TRUE, windows |-> FALSE, c90 |-> FALSE, model |-> "LP64"],
               [gnu |-> FALSE, windows |-> FALSE, c90 |-> TRUE, model |-> "LP64"],
               [gnu |-> FALSE, windows |-> TRUE, c90 |-> FALSE, model |-> "LLP64"],
               [gnu |-> TRUE, windows |-> FALSE, c90 |-> TRUE, model |-> "ILP32"],
               [gnu |-> FALSE, windows |-> FALSE, c90 |-> FALSE, model |-> "ILP32"]}

Lit(value, decimal, unsigned, size) ==
    [op |-> "literal", value |-> value, decimal |-> decimal, unsigned |-> unsigned, size |-> size, msvc |-> FALSE]
Msvc(value, rank) == [op |-> "literal", value |-> value, decimal |-> TRUE, unsigned |-> FALSE, size |-> rank, msvc |-> TRUE]
Dec(v) == Lit(v, TRUE, FALSE, 3)
Cast(rank, signed, arg) == [op |-> "cast", rank |-> rank, signed |-> signed, arg |-> arg]
Unary(operator, arg) == [op |-> "unary", operator |-> operator, arg |-> arg]
Bin(operator, left, right) == [op |-> "binary", operator |-> operator, left |-> left, right |-> right]
Cond(test, then, else) == [op |-> "conditional", test |-> test, then |-> then, else |-> else]
Name(n) == [op |-> "name", name |-> n]
ConstantMember(n) == [op |-> "member", name |-> n]

Literals == {Lit(v, d, u, s) : v \in {0, 7, 8, 15, 16, 31, 32, 63, 64}, d \in BOOLEAN, u \in BOOLEAN, s \in {3, 4, 5}}
            \cup {Msvc(v, r) : v \in {3, 9, 64}, r \in {1, 5}}
Operands == {Dec(0), Dec(1), Dec(7), Lit(8, FALSE, FALSE, 3), Lit(1, TRUE, TRUE, 3), Lit(9, TRUE, TRUE, 4), Lit(31, TRUE, FALSE, 5),
             Unary("-", Dec(1)), Unary("-", Dec(2)), Cast(1, TRUE, Dec(3)), Cast(2, FALSE, Unary("-", Dec(1))), Cast(5, TRUE, Unary("-", Dec(3))),
             Bin("-", Unary("-", Dec(7)), Dec(1)), Cast(0, FALSE, Dec(4)), Cast(6, TRUE, Dec(2)), [op |-> "sizeof", bytes |-> 4]}
Operators == <<"==", "!=", "<", "<=", "+", "-", "*", "/", "%", "<<", ">>", "&", "^", "&&", "||">>
Bad == Bin("/", Dec(1), Dec(0))
Untyped == Dec(64)
Arms == {Dec(1), [op |-> "object"], Lit(9, TRUE, TRUE, 3), Unary("-", Dec(1)), Bad, Untyped}
Paths == {<<ConstantMember("a")>>, <<ConstantMember("y")>>, <<ConstantMember("w")>>, <<ConstantMember("z")>>}
         \cup {<<ConstantMember("r"), [op |-> "index", index |-> i], ConstantMember("y")>> : i \in {Dec(1), Dec(2), Unary("-", Dec(1)), Bad}}

MCExpressions == <<
    Literals,
    {Unary(o, a) : o \in {"+", "-", "~", "!", "__real", "__imag"}, a \in Operands},
    {Cast(r, s, a) : r \in 0 .. 6, s \in BOOLEAN, a \in Operands},
    {Cond(t, a, b) : t \in {Dec(0), Dec(1), Bad, Bin("||", Dec(1), [op |-> "object"])}, a \in Arms \cup {[op |-> "omitted"]}, b \in Arms},
    {[op |-> "choose", test |-> t, then |-> a, else |-> b] : t \in {Dec(0), Dec(1), Bad, Bin("||", Dec(1), [op |-> "object"])}, a \in Arms, b \in Arms},
    {Bin(o, a, b) : o \in {"&&", "||"}, a \in {Dec(0), Dec(1), Bad}, b \in Arms},
    {[op |-> "offsetof", path |-> path] : path \in Paths},
    {Cast(5, FALSE, [op |-> "address", path |-> path]) : path \in Paths},
    {Cond(Dec(0), Cast(5, FALSE, [op |-> "address", path |-> path]), Dec(1)) : path \in Paths}>>
    \o [o \in DOMAIN Operators |-> {Bin(Operators[o], a, b) : a \in Operands, b \in Operands}]
MCEnumerators == {Dec(7), Lit(15, FALSE, FALSE, 3), Dec(31), Lit(63, TRUE, TRUE, 5), Unary("-", Dec(1)), Unary("-", Dec(31)),
                  Bin("+", Name("e1"), Dec(1)), Cast(1, FALSE, Name("e2")), Bad}
MCNamedExpressions == {Unary("-", Name("e1")), Bin("<", Name("e2"), Dec(0)), Bin("+", Name("e1"), Name("e2")), Cond(Name("e1"), Name("e2"), Bad)}

------------------------------------------------------------------------------
(* The machines side by side.                                                  *)
LayoutRests ==
    /\ abiTarget = "x86_64-linux-gnu" /\ abiCompiler = "Gcc" /\ form = CHOOSE f \in RecordForms : TRUE
    /\ rlb = NewBuilder(Env) /\ laid = <<>> /\ progress = "done" /\ nested = {} /\ room = 0
TableRests ==
    /\ target = "x86_64-linux-gnu" /\ compiler = "Gcc" /\ pool = <<>> /\ typedefs = [t \in Typedefs |-> NoType]
    /\ records = CHOOSE f \in Forward : TRUE
    /\ open = <<>> /\ failed = ""
ConstantsRest ==
    profile = (CHOOSE p \in ConstantProfiles : TRUE) /\ variants = <<>> /\ enumState = "complete" /\ evaluated = Implicit

Init ==
    /\ part \in {"record", "unit", "constants"}
    /\ IF part = "record" THEN LayoutInit ELSE LayoutRests
    /\ IF part = "unit" THEN TableInit ELSE TableRests
    /\ IF part = "constants" THEN ConstantsInit ELSE ConstantsRest

Next ==
    \/ part = "record" /\ LayoutNext /\ UNCHANGED <<part, tableVars, constantVars>>
    \/ part = "unit" /\ TableNext /\ UNCHANGED <<part, layoutVars, constantVars>>
    \/ part = "constants" /\ ConstantsNext /\ UNCHANGED <<part, layoutVars, tableVars>>

Spec == Init /\ [][Next]_layoutParts

------------------------------------------------------------------------------
\* toucan_layout: while bit-fields share storage units opened several fields earlier the builder's bookkeeping never
\* wraps, fields never overlap or straddle a unit of their type, a finished record can be an array element, and an
\* enum's type holds its values.
RecordsExact ==
    part = "record" => BuilderInv /\ FieldsDisjoint /\ BitFieldsInOneUnit /\ ArrayOfRecordsAligned /\ EnumHoldsValues

\* ir.rs and complete_record: whatever order tags, typedefs and definitions come in, a type that passes the completeness
\* check has a layout, the separate walks for alignment and layout agree, and a member name means one member.
TypesExact ==
    part = "unit" =>
        /\ TableInv /\ CompleteTypesHaveLayout /\ AlignmentAgreesWithLayout
        /\ MembersUnambiguous /\ MemberAlignmentWithinRecord

\* toucan_bindings: the padding, alignment and bit-field storage emitted for a record give Rust's layout of it the size,
\* alignment and offsets the target gives the C record.
EmittedRecordsExact == part = "record" => EmittedRecordMatches

\* integer.rs: a constant is accepted with the value and type C gives it, operands that are not evaluated included, and
\* every enumerator has the value and an enum the type that hold them all.
ConstantExpressionsExact == part = "constants" => ConstantsExact /\ EnumeratorsExact
==============================================================================
