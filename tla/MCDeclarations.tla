--------------------------- MODULE MCDeclarations ---------------------------
(* What declarations, initializers, expressions and macros mean, in one run:   *)
(* redeclarations, written types, initializer lists, static addresses, typed   *)
(* expressions and macro values.  They share no state in the model: `part`     *)
(* says which of them runs, the others rest.                                   *)
EXTENDS Declarations, Initializers, DeclaredTypes, MacroValues, ExpressionTypes

VARIABLE part
declarationParts == <<part, declVars, initVars, staticVars, declaredVars, macroVars, expressionVars>>

------------------------------------------------------------------------------
(* The declarations of the units, by subject (Declarations).                  *)
DeclPlain == [name |-> "x", storage |-> "none", tls |-> FALSE, ty |-> Leaf("Int", FALSE), init |-> FALSE, body |-> FALSE,
          inline |-> FALSE, gnu_inline |-> FALSE, weak |-> FALSE, dll |-> NoClass, noreturn |-> FALSE,
          align |-> [gnu |-> 0, c11 |-> -1], old |-> NoOld, loop |-> FALSE]
TInt == Leaf("Int", FALSE)
TChar == Leaf("Char", FALSE)
Function(parameters, prototype) == FunctionOf(TInt, parameters, prototype, FALSE, FALSE, {}, "C")
FInt == Function(<<TInt>>, TRUE)
DeclArray(length) == ArrayOf(TInt, length, FALSE)
DeclWith(d, storage, ty) == [d EXCEPT !.storage = storage, !.ty = ty]
Fun(storage) == DeclWith(DeclPlain, storage, FInt)

\* Objects: tentative definitions, arrays completed by others, linkage.
ObjectFile ==
    {DeclWith(DeclPlain, s, DeclArray(NoLength)) : s \in {"none", "extern", "static"}}
    \cup {DeclWith(DeclPlain, "none", DeclArray(2)), DeclWith(DeclPlain, "extern", DeclArray(3)), DeclWith(DeclPlain, "none", Leaf("ForwardRecord", FALSE)),
          DeclWith(DeclPlain, "typedef", DeclArray(2)), DeclWith(DeclPlain, "register", TInt), [DeclPlain EXCEPT !.tls = TRUE, !.storage = "extern"],
          [DeclWith(DeclPlain, "none", DeclArray(NoLength)) EXCEPT !.init = TRUE], [DeclWith(DeclPlain, "static", DeclArray(2)) EXCEPT !.init = TRUE]}
ObjectBlock ==
    {DeclWith(DeclPlain, "extern", DeclArray(NoLength)), DeclWith(DeclPlain, "extern", DeclArray(2)), DeclWith(DeclPlain, "none", DeclArray(2)),
     DeclWith(DeclPlain, "typedef", DeclArray(2)), DeclWith(DeclPlain, "none", DeclArray(NoLength)), [DeclPlain EXCEPT !.tls = TRUE],
     DeclWith(DeclPlain, "static", VariableArrayOf(TInt, 1)), [DeclWith(DeclPlain, "static", DeclArray(NoLength)) EXCEPT !.init = TRUE],
     [DeclWith(DeclPlain, "extern", DeclArray(2)) EXCEPT !.loop = TRUE]}

\* Inline functions.
InlineFile ==
    {[Fun(s) EXCEPT !.inline = i, !.body = b] : s \in {"none", "extern"}, i \in BOOLEAN, b \in BOOLEAN}
    \cup {[Fun("extern") EXCEPT !.inline = TRUE, !.gnu_inline = TRUE, !.body = b] : b \in BOOLEAN}
    \cup {[Fun("static") EXCEPT !.inline = TRUE, !.body = TRUE], [Fun("none") EXCEPT !.weak = TRUE]}
InlineBlock == {Fun("extern"), [Fun("none") EXCEPT !.inline = TRUE],
                [Fun("extern") EXCEPT !.inline = TRUE, !.gnu_inline = TRUE]}

\* Parameter lists and promises of functions.
Old(ty) == [DeclWith(DeclPlain, "none", Function(<<>>, FALSE)) EXCEPT !.body = TRUE, !.old = <<ty>>]
FunctionFile ==
    {Fun("none"), Fun("static"), DeclWith(DeclPlain, "none", Function(<<>>, FALSE)), DeclWith(DeclPlain, "none", Function(<<TChar>>, TRUE)),
     DeclWith(DeclPlain, "extern", Function(<<Leaf("TransparentUnion", FALSE)>>, TRUE)),
     [DeclWith(DeclPlain, "none", Function(<<>>, FALSE)) EXCEPT !.body = TRUE], Old(TChar), Old(TInt), [Fun("none") EXCEPT !.body = TRUE],
     [Fun("none") EXCEPT !.noreturn = TRUE],
     [Fun("none") EXCEPT !.ty.convention = "Win64"], [Fun("extern") EXCEPT !.ty.noreturn = TRUE]}
FunctionBlock ==
    {Fun("extern"), DeclWith(DeclPlain, "none", Function(<<>>, FALSE)), [Fun("extern") EXCEPT !.weak = TRUE],
     DeclWith(DeclPlain, "none", Function(<<TChar>>, TRUE)), [Fun("none") EXCEPT !.noreturn = TRUE], Fun("static")}

\* DLL storage of objects and functions.
DllFile ==
    {[DeclWith(DeclPlain, s, t) EXCEPT !.dll = c] : s \in {"none", "static"}, t \in {TInt, FInt}, c \in {NoClass, "import"}}
    \cup {[DeclWith(DeclPlain, "extern", t) EXCEPT !.dll = c] : t \in {TInt, FInt}, c \in {NoClass, "export"}}
    \cup {[DeclPlain EXCEPT !.init = TRUE], [Fun("none") EXCEPT !.body = TRUE],
          [Fun("none") EXCEPT !.body = TRUE, !.inline = TRUE, !.dll = "import"]}
DllBlock ==
    {[DeclWith(DeclPlain, "extern", t) EXCEPT !.dll = c] : t \in {TInt, FInt}, c \in {NoClass, "import"}} \cup {DeclPlain}

\* Alignment.
Aligned(d, gnu, c11) == [d EXCEPT !.align = [gnu |-> gnu, c11 |-> c11]]
AlignFile ==
    {Aligned(DeclWith(DeclPlain, s, TInt), 0, c) : s \in {"none", "extern"}, c \in {-1, 0, 8}}
    \cup {Aligned(DeclPlain, 2, -1), Aligned(DeclWith(DeclPlain, "extern", TInt), 16, -1), Aligned([DeclPlain EXCEPT !.init = TRUE], 0, 8),
          Aligned(DeclPlain, 0, 2), Aligned(Fun("none"), 0, 8)}
AlignBlock == {Aligned(DeclWith(DeclPlain, "extern", TInt), 0, c) : c \in {-1, 8}} \cup {Aligned(DeclWith(DeclPlain, "register", TInt), 0, 8)}

Profile(gnu, windows, c90, dll) == [gnu |-> gnu, windows |-> windows, c90 |-> c90, dll |-> dll, promises |-> TRUE]
Gcc == Profile(TRUE, FALSE, FALSE, FALSE)
Gcc90 == Profile(TRUE, FALSE, TRUE, FALSE)
Clang == Profile(FALSE, FALSE, FALSE, FALSE)
Clang90 == Profile(FALSE, FALSE, TRUE, FALSE)
Msvc == Profile(FALSE, TRUE, FALSE, FALSE)
MsvcDll == Profile(FALSE, TRUE, FALSE, TRUE)

Unit(e, file, block) == [env |-> e, file |-> file, block |-> block]
AllUnits ==
    {Unit(e, ObjectFile, ObjectBlock) : e \in {Gcc, Msvc}}
    \cup {Unit(e, InlineFile, InlineBlock) : e \in {Gcc, Gcc90, Clang, Clang90, Msvc}}
    \cup {Unit(e, FunctionFile, FunctionBlock) : e \in {Gcc, Clang}}
    \cup {Unit(MsvcDll, DllFile, DllBlock)}
    \cup {Unit(e, AlignFile, AlignBlock) : e \in {Gcc, Clang}}

------------------------------------------------------------------------------
(* Objects and the items of their initializers (Initializers).                *)
ListS == [k |-> "scalar"]
Char == [k |-> "char"]
ListArray(ty, n) == [k |-> "array", of |-> ty, n |-> n]
ListF(name, ty) == [name |-> name, ty |-> ty, bits |-> FALSE]
Padding == [name |-> "", ty |-> ListS, bits |-> TRUE]
Struct(fields) == [k |-> "struct", fields |-> fields]
Union(fields) == [k |-> "union", fields |-> fields]
Point == Struct(<<ListF("x", ListS), Padding, ListF("y", ListS)>>)
\* struct { union { struct { int x, :1, y; }; int z[2]; }; struct P p; char s[3]; }
ListMixed == Struct(<<ListF("", Union(<<ListF("", Point), ListF("z", ListArray(ListS, 2))>>)), ListF("p", Point), ListF("s", ListArray(Char, 3))>>)
Flexible == Struct(<<ListF("n", ListS), ListF("data", ListArray(Point, Open))>>)
Texts == Struct(<<ListF("n", ListS), ListF("data", ListArray(Char, Open))>>)
Vector == [k |-> "vector", of |-> ListS, n |-> 2]

Index(i) == [k |-> "index", from |-> i, to |-> i, name |-> ""]
Range_(i, j) == [k |-> "range", from |-> i, to |-> j, name |-> ""]
Member(name) == [k |-> "member", from |-> 0, to |-> 0, name |-> name]
Item(kind, designators, length) == [kind |-> kind, designators |-> designators, length |-> length, ty |-> Point]
Plainly(kinds) == {Item(kind, <<>>, 2) : kind \in kinds}
ListWith(designations, kinds) == {Item(kind, designators, 2) : kind \in kinds, designators \in designations}

Object(ty, static, gnu, items) == [ty |-> ty, static |-> static, gnu |-> gnu, items |-> items]
MCObjects ==
    {Object(ListMixed, TRUE, TRUE, Plainly({"scalar", "list", "record", "string", "empty"})
        \cup ListWith({<<Member("y")>>, <<Member("z")>>, <<Member("p"), Member("x")>>}, {"scalar"})),
     Object(ListArray(Point, Open), TRUE, TRUE, Plainly({"scalar", "list", "record"})
        \cup ListWith({<<Index(2)>>, <<Range_(1, 3)>>, <<Range_(1, 2), Member("y")>>, <<Range_(2, 1)>>}, {"scalar", "list"})),
     Object(ListArray(ListArray(ListS, 2), 3), FALSE, FALSE, Plainly({"scalar", "list", "empty"})
        \cup ListWith({<<Range_(1, 2)>>, <<Index(2), Index(2)>>, <<Index(4)>>}, {"scalar", "list"})),
     Object(Union(<<ListF("p", Point), ListF("z", ListArray(ListS, 2))>>), TRUE, TRUE, Plainly({"scalar", "list", "record"})
        \cup ListWith({<<Member("z")>>, <<Member("z"), Index(2)>>, <<Member("q")>>}, {"scalar", "list"})),
     Object(Struct(<<ListF("v", Vector), ListF("s", ListArray(Char, 2))>>), TRUE, FALSE,
        Plainly({"scalar", "list", "empty", "string", "braced"}) \cup {Item("string", <<>>, 4)})}
    \cup {Object(Flexible, static, gnu, Plainly({"scalar", "list", "empty"})
        \cup ListWith({<<Member("data")>>, <<Member("data"), Index(2)>>, <<Member("n")>>}, {"scalar", "list", "empty"})) :
            static \in BOOLEAN, gnu \in BOOLEAN}
    \cup {Object(Texts, TRUE, gnu, Plainly({"scalar", "string", "braced"})
        \cup {Item("string", <<Member("data")>>, 4), Item("scalar", <<Member("data"), Index(3)>>, 1)}) : gnu \in BOOLEAN}

------------------------------------------------------------------------------
(* Initializers of static objects (Initializers).                             *)
\* An array, a weak function, an imported array, an automatic one; scalars: static, weak, automatic.
MCSymbols ==
    [n \in {"a", "w", "i", "l", "s", "v", "t"} |->
        [static |-> n \notin {"l", "t"}, imported |-> n = "i", weak |-> n \in {"w", "v"}, linked |-> n \notin {"l", "t"}]]

StaticNumber(v) == [k |-> "int", pointer |-> FALSE, array |-> FALSE, value |-> v]
Name(n, array) == [k |-> "name", pointer |-> array, array |-> array, name |-> n]
Anonymous(k, array) == [k |-> k, pointer |-> array, array |-> array, at |-> k]
AddressOf(e) == [k |-> "address", pointer |-> TRUE, array |-> FALSE, of |-> e]
StaticCast(e, pointer) == [k |-> "cast", pointer |-> pointer, array |-> FALSE, of |-> e]
StaticAt(k, e, array) == [k |-> k, pointer |-> array, array |-> array, of |-> e, offset |-> 1]
Two(k, l, r, array) == [k |-> k, pointer |-> array \/ k # "index", array |-> array, left |-> l, right |-> r, stride |-> 2]
StaticIf(c, elided, t, f) == [k |-> "conditional", pointer |-> TRUE, array |-> FALSE, condition |-> c, elided |-> elided, then |-> t, else |-> f]

Lvalues0 == {Name("s", FALSE), Name("v", FALSE), Name("t", FALSE), Anonymous("compound", FALSE)}
Decaying == {Name("a", TRUE), Name("w", TRUE), Name("i", TRUE), Name("l", TRUE), Anonymous("string", TRUE), Anonymous("compound", TRUE)}
Pointers1 == Decaying \cup {AddressOf(e) : e \in Lvalues0} \cup {StaticCast(StaticNumber(0), TRUE), StaticCast(StaticNumber(3), TRUE)}
Lvalues1 ==
    {StaticAt(k, e, array) : k \in {"deref", "arrow"}, e \in Pointers1, array \in BOOLEAN}
    \cup {StaticAt("member", e, array) : e \in Lvalues0, array \in BOOLEAN}
    \cup {Two("index", e, StaticNumber(1), array) : e \in Pointers1, array \in BOOLEAN}
Pointers2 ==
    Pointers1 \cup {AddressOf(e) : e \in Lvalues1} \cup {e \in Lvalues1 : e.array}
    \cup {Two("plus", e, StaticNumber(1), FALSE) : e \in Pointers1} \cup {Two("minus", e, StaticNumber(1), FALSE) : e \in Pointers1}
    \cup {Two("plus", StaticNumber(1), e, FALSE) : e \in Decaying}
Weak == {Name("w", TRUE), AddressOf(Name("v", FALSE))}
Elses == {StaticNumber(0), StaticCast(StaticNumber(0), TRUE), Name("a", TRUE), AddressOf(Name("t", FALSE))}
Conditionals ==
    {StaticIf(c, elided, t, f) : c \in Pointers2, elided \in BOOLEAN, t \in Weak \cup {Name("a", TRUE), StaticNumber(0)}, f \in Elses}
    \cup {StaticIf(StaticNumber(v), FALSE, t, f) : v \in {0, 1}, t \in Pointers1, f \in Pointers1}
    \cup {StaticIf(c, elided, c, f) : c \in Pointers2, elided \in BOOLEAN, f \in Elses}
Nested ==
    {Two(k, StaticIf(c, elided, t, f), StaticNumber(1), FALSE) : k \in {"plus", "minus"}, c \in Weak \cup {Name("i", TRUE), Name("s", FALSE)},
        elided \in BOOLEAN, t \in Pointers1, f \in Elses}
    \cup {StaticIf(StaticIf(c, TRUE, c, StaticNumber(0)), elided, t, f) : c \in Weak \cup Pointers1, elided \in BOOLEAN, t \in Weak \cup {Name("a", TRUE)}, f \in Elses}
    \cup {StaticCast(e, pointer) : e \in Pointers1, pointer \in BOOLEAN}
MCExpressions == Pointers2 \cup Conditionals \cup Nested
\* Two placements of every symbol, and the weak ones absent or present.
StaticPlace(w, v, d) == [n \in {"a", "w", "i", "l", "s", "v", "t", "string", "compound"} |->
    CASE n = "w" -> w [] n = "v" -> v [] n = "a" -> 9 + d [] n = "i" -> 14 + (2 * d) [] n = "string" -> 19 + (3 * d)
      [] n = "l" -> 24 + (4 * d) [] n = "s" -> 29 + (5 * d) [] n = "t" -> 34 + (6 * d) [] OTHER -> 39 + (7 * d)]
MCPlacements == {StaticPlace(w, v, d) : w \in {0, 50}, v \in {0, 56}, d \in {0, 1}}

------------------------------------------------------------------------------
(* Specifiers, declarators and pack pragmas (DeclaredTypes).                  *)
DeclaredD(prefix, derived, inner) == [prefix |-> prefix, derived |-> derived, inner |-> inner]
DeclaredL(k, id) == [k |-> k, q |-> {}, attr |-> "", id |-> id]
DeclaredP(id, attr) == [k |-> "Pointer", q |-> {"const"}, attr |-> attr, id |-> id]

MCWords == {"void", "char", "short", "int", "long", "float", "double", "signed", "unsigned", "bool", "complex",
            "int128", "i16", "i64"}
MCSpecifiers == {s \in UNION {[1 .. n -> MCWords] : n \in 0 .. 4} :
    /\ \A i, j \in DOMAIN s : i < j /\ s[i] \in {"i8", "i16", "i64"} => s[i] # s[j]
    /\ ~({"i16", "short"} \subseteq {s[i] : i \in DOMAIN s})
    /\ ~({"i64", "long"} \subseteq {s[i] : i \in DOMAIN s})}

DeclaredPlain == [kind |-> "object", specifiers |-> <<"int">>, c90 |-> FALSE, storage |-> <<>>, q |-> {}, convention |-> "C",
          compiler |-> "Gnu", scope |-> "block", declarator |-> DeclaredD("", <<>>, <<>>)]

MCOuter == {<<>>, <<DeclaredL("Pointer", 1)>>, <<DeclaredP(1, "a")>>, <<DeclaredP(1, "a"), DeclaredP(2, "b")>>}
MCSuffix == {<<>>, <<DeclaredL("Array", 3)>>, <<DeclaredL("Function", 3)>>, <<DeclaredL("OpenArray", 3)>>, <<DeclaredL("Array", 3), DeclaredL("OpenArray", 4)>>,
             <<DeclaredL("Array", 3), DeclaredL("ConstArray", 4)>>, <<DeclaredL("StaticArray", 3), DeclaredL("Array", 4)>>, <<DeclaredL("StarArray", 3)>>,
             <<DeclaredL("Function", 3), DeclaredL("Array", 4)>>, <<DeclaredL("ConstArray", 3)>>}
MCInner == {<<>>} \cup {<<DeclaredD(p, o, <<>>)>> : p \in {"", "p"}, o \in {<<>>, <<DeclaredP(5, "c")>>, <<DeclaredP(5, "c"), DeclaredL("Function", 6)>>, <<DeclaredL("Array", 6)>>,
                                                      <<DeclaredL("ConstArray", 6)>>}}
             \cup {<<DeclaredD("", <<DeclaredP(5, "c")>>, <<DeclaredD("q", <<DeclaredP(7, "d"), DeclaredL("Array", 8)>>, <<>>)>>)>>}
MCDeclarators == {DeclaredD("", o \o s, n) : o \in MCOuter, s \in MCSuffix, n \in MCInner}

MCSettings == {<<"C", "Gnu", "block", {}>>, <<"cdecl", "Gnu", "prototype", {"volatile"}>>,
               <<"cdecl", "Clang", "block", {}>>, <<"C", "Clang", "prototype", {"volatile"}>>}
MCDeclared == <<
    {[DeclaredPlain EXCEPT !.kind = "specifiers", !.specifiers = s] : s \in MCSpecifiers},
    {[DeclaredPlain EXCEPT !.kind = "specifiers", !.specifiers = s, !.c90 = TRUE] : s \in {<<>>, <<"long">>}},
    {[DeclaredPlain EXCEPT !.kind = k, !.specifiers = <<b>>, !.convention = v[1], !.compiler = v[2], !.scope = v[3], !.q = v[4],
                   !.declarator = d] :
        k \in {"object", "parameter"}, b \in {"int", "void", "alias", "function alias", "open struct"},
        v \in MCSettings, d \in MCDeclarators},
    {[DeclaredPlain EXCEPT !.kind = k, !.storage = s, !.compiler = c] :
        k \in {"object", "parameter"}, c \in {"Gnu", "Clang"},
        s \in UNION {[1 .. n -> {"static", "register", "__thread", "_Thread_local", "extern"}] : n \in 1 .. 2}}>>

MCPragma == {[op |-> o, label |-> l, value |-> v] : o \in {"push", "pop"}, l \in {"", "x"}, v \in {-1, 4}}
            \cup {[op |-> "set", label |-> "", value |-> v] : v \in {-1, 0, 2, 3}}
MCPackSources == UNION {[1 .. n -> MCPragma] : n \in 1 .. 4}

------------------------------------------------------------------------------
(* Macro definitions and limits (MacroValues).                                *)
MacroL(n) == [op |-> "lit", text |-> "n", v |-> V("Integer", n, 0)]
MacroS(n) == [op |-> "lit", text |-> "s", v |-> V("Bytes", 0, n)]
C(n) == [op |-> "lit", text |-> "c", v |-> V("Character", n, 0)]
Fl == [op |-> "lit", text |-> "f", v |-> V("Float", 0, 0)]
Bad == [op |-> "lit", text |-> "bad", v |-> V("Invalid", 0, 0)]
Nm(name) == [op |-> "name", name |-> name]
Un(sign, e) == [op |-> "unary", sign |-> sign, of |-> e]
Pa(e) == [op |-> "paren", of |-> e]
Bi(sign, l, r) == [op |-> "binary", sign |-> sign, l |-> l, r |-> r]
Be(l, r) == [op |-> "beside", l |-> l, r |-> r]
Mi(e) == [op |-> "missing", of |-> e]

MacroD(name, form, selected) == [name |-> name, parameters |-> FALSE, reading |-> form, selected |-> selected, finallyFunction |-> FALSE]
MacroFn(name, form, final) == [name |-> name, parameters |-> TRUE, reading |-> form, selected |-> TRUE, finallyFunction |-> final]

Readings ==
    {MacroL(0), MacroL(7), MacroS(1), MacroS(2), C(1), C(3), Fl, Bad, Nm("A"), Nm("K"), Pa(MacroS(1)), Pa(Pa(Nm("A"))), Mi(MacroL(2)), Be(MacroS(1), MacroS(1)), Be(Nm("A"), MacroS(1)), Be(MacroS(1), Nm("A")),
     Be(Pa(MacroS(1)), MacroS(1)), Bi("+", MacroS(1), MacroL(2)), Bi("-", Bi("-", MacroL(2), Nm("A")), MacroL(7)), Bi("+", MacroL(2), Bi("*", Nm("A"), Nm("B"))), Bi("*", Pa(Bi("+", MacroL(2), Nm("A"))), MacroL(7)),
     Bi("/", Nm("A"), MacroL(0)), Bi("<<", MacroL(2), Nm("A")), Bi("|", MacroL(2), Bi("<<", MacroL(7), MacroL(2))), Un("-", Pa(Un("~", Nm("A")))), Un("~", Fl), Bi("+", Fl, Nm("B")), Bi("|", Fl, MacroL(2)),
     Pa(Pa(Pa(Pa(MacroS(1))))), Pa(Be(MacroS(1), MacroS(2))), Un("-", MacroL(7)), Bi("%", Nm("A"), MacroL(2)), Un("-", MacroS(1))}
Few == {MacroL(7), MacroS(2), C(3), Nm("A"), Mi(MacroL(2)), Pa(MacroS(1)), Bi("^", MacroL(7), Nm("A")), Un("-", Nm("A")), Be(MacroS(1), Nm("A"))}
MCMacroDefinitions ==
    <<{MacroD("A", r, TRUE) : r \in Readings}, {MacroD("A", r, FALSE) : r \in {MacroL(7), Mi(MacroL(2)), MacroS(1)}}, {MacroD("B", r, TRUE) : r \in Few}, {MacroD("K", MacroL(2), TRUE)},
      {MacroFn("F", Bi("-", Pa(Nm("A")), MacroL(2)), FALSE), MacroFn("F", Be(Pa(Nm("x")), Nm("x")), FALSE), MacroFn("A", Pa(Nm("x")), TRUE)}>>
MCMacroLimits == [source |-> 11, tokens |-> 9, depth |-> 4, string |-> 3, entries |-> 2, bytes |-> 8, work |-> 90]
MCProjections == {[signed |-> TRUE, fit |-> TRUE], [signed |-> FALSE, fit |-> TRUE], [signed |-> FALSE, fit |-> FALSE]}

------------------------------------------------------------------------------
(* Programs of expression statements (ExpressionTypes).                       *)
N(name) == [op |-> "name", name |-> name]
Zero == [op |-> "zero"]
One == [op |-> "one"]
U(op, e) == [op |-> op, of |-> e]
ExpressionAt(op, e, name) == [op |-> op, of |-> e, name |-> name]
B(op, l, r) == [op |-> op, l |-> l, r |-> r]
ExpressionIf(c, l, r) == [op |-> "if", if |-> c, l |-> l, r |-> r]
Elvis(c, r) == [op |-> "elvis", if |-> c, r |-> r]
ExpressionCast(ty, e) == [op |-> "cast", ty |-> ty, of |-> e]
Call(f, arguments) == [op |-> "call", of |-> f, arguments |-> arguments]
Generic(e, types, arms, default) == [op |-> "generic", of |-> e, types |-> types, arms |-> arms, default |-> default]
Names(names) == {N(n) : n \in names}

ExpressionPlain(ty) == [ty |-> ty, register |-> FALSE]
Reg(ty) == [ty |-> ty, register |-> TRUE]
CInt == Leaf("Int", TRUE)
ExpressionP(ty) == PointerTo(ty, FALSE)
ExpressionF(name, ty) == [name |-> name, ty |-> ty, bits |-> NoBits]
Bit(name, kind, bits) == [name |-> name, ty |-> Leaf(kind, FALSE), bits |-> bits]
ExpressionFn(ret, parameters) == FunctionOf(ret, parameters, TRUE, FALSE, FALSE, {}, "C")

NoNames == [n \in {} |-> IntTy]
Conds(xs, ys) == {ExpressionIf(c, x, y) : c \in {Zero, One}, x \in xs, y \in ys}

Program(objects, places, locals, gnu, fields, functions) ==
    [env |-> [gnu |-> gnu, windows |-> FALSE], objects |-> objects, fields |-> fields, functions |-> functions, places |-> places, values |-> locals]
\* Pointers to pointers.
PointerNames == {"i", "ci", "p", "cp", "pp", "ppc", "pcp"}
ExpressionPointers ==
    LET objects == [n \in PointerNames |->
            ExpressionPlain(CASE n = "i" -> IntTy [] n = "ci" -> CInt [] n = "p" -> ExpressionP(IntTy) [] n = "cp" -> ExpressionP(CInt)
                    [] n = "pp" -> ExpressionP(ExpressionP(IntTy)) [] n = "ppc" -> ExpressionP(ExpressionP(CInt)) [] n = "pcp" -> ExpressionP(PointerTo(IntTy, TRUE)))]
        stars == {U("deref", e) : e \in Names({"p", "cp", "pp", "ppc", "pcp"})}
        places == Names(PointerNames) \cup stars \cup {U("deref", U("deref", N(n))) : n \in {"pp", "ppc", "pcp"}}
        locals == places \cup {U("address", e) : e \in places} \cup {Zero, One, ExpressionCast(ExpressionP(Leaf("Void", FALSE)), Zero)}
                    \cup Conds({N("p"), N("pp"), U("address", N("ci"))}, {N("cp"), N("ppc"), N("p"), Zero})
                    \cup {Elvis(N("cp"), N("p")), Elvis(N("p"), N("cp")), B("assign", N("cp"), N("p")), B("comma", One, N("cp"))}
    IN Program(objects, places, locals, TRUE, NoNames, NoNames)

\* Arrays: qualified at the element or, by a typedef, at the array.
Arr(ty) == ArrayOf(ty, 2, FALSE)
ArrayNames == {"a", "ca", "qa", "aa", "pa", "pca", "cp"}
ExpressionArrays ==
    LET objects == [n \in ArrayNames |->
            ExpressionPlain(CASE n = "a" -> Arr(IntTy) [] n = "ca" -> Arr(CInt) [] n = "qa" -> ArrayOf(IntTy, 2, TRUE) [] n = "aa" -> Arr(Arr(IntTy))
                    [] n = "pa" -> ExpressionP(Arr(IntTy)) [] n = "pca" -> ExpressionP(Arr(CInt)) [] n = "cp" -> ExpressionP(CInt))]
        stars == {U("deref", N(n)) : n \in {"pa", "pca", "cp"}}
        parts == {B("index", N(n), One) : n \in {"a", "ca", "qa", "aa"}} \cup {B("index", U("deref", N(n)), Zero) : n \in {"pa", "pca"}}
        places == Names({"pa", "pca", "cp", "a"}) \cup stars \cup parts
        arrays == Names(ArrayNames) \cup stars \cup parts
        locals == arrays \cup {U("address", e) : e \in arrays} \cup {B("add", N("a"), One), B("add", One, N("qa")), B("add", N("cp"), One)}
                    \cup Conds({N("pa"), U("address", N("qa")), N("a")}, {N("pca"), U("address", N("a")), N("qa"), N("ca")})
                    \cup {B("minus", N("a"), N("cp")), B("less", N("a"), N("ca")), B("equal", N("pa"), N("pca"))}
    IN Program(objects, places, locals, TRUE, NoNames, NoNames)

\* Records: const members, members of const records, bit-fields and register objects.
RecordFields ==
    [n \in {"S", "T", "In"} |->
        CASE n = "S" -> <<ExpressionF("x", IntTy), ExpressionF("k", CInt), ExpressionF("row", Arr(IntTy)), Bit("b", "Int", 3)>>
          [] n = "T" -> <<ExpressionF("in", Leaf("In", FALSE)), ExpressionF("q", ExpressionP(IntTy)), Bit("w", "UInt", 32), Bit("v", "ULong", 31)>>
          [] n = "In" -> <<ExpressionF("m", IntTy)>>]
Members ==
    LET objects == [n \in {"s", "cs", "ps", "pcs", "p", "cp"} |->
            ExpressionPlain(CASE n = "s" -> Leaf("S", FALSE) [] n = "cs" -> Leaf("S", TRUE) [] n = "ps" -> ExpressionP(Leaf("S", FALSE))
                    [] n = "pcs" -> ExpressionP(Leaf("S", TRUE)) [] n = "p" -> ExpressionP(IntTy) [] n = "cp" -> ExpressionP(CInt))]
        inS == {ExpressionAt("member", N(n), f) : n \in {"s", "cs"}, f \in {"x", "k", "row", "b"}} \cup {ExpressionAt("arrow", N(n), f) : n \in {"ps", "pcs"}, f \in {"x", "k", "row"}}
        places == Names({"s", "ps", "pcs", "p", "cp"}) \cup inS \cup {U("deref", N(n)) : n \in {"p", "cp", "ps", "pcs"}}
        locals == inS \cup Names({"s", "cs", "ps", "pcs", "cp"}) \cup {U("address", e) : e \in inS \cup Names({"s", "cs"})}
                    \cup {U("plus", e) : e \in inS} \cup {U("sizeof", ExpressionAt("member", N("s"), "b")), One}
    IN Program(objects, places, locals, TRUE, RecordFields, NoNames)
Registers ==
    LET objects == [n \in {"t", "ct", "rt", "pt", "pct", "p"} |->
            CASE n = "t" -> ExpressionPlain(Leaf("T", FALSE)) [] n = "ct" -> ExpressionPlain(Leaf("T", TRUE)) [] n = "rt" -> Reg(Leaf("T", FALSE))
              [] n = "pt" -> ExpressionPlain(ExpressionP(Leaf("T", FALSE))) [] n = "pct" -> ExpressionPlain(ExpressionP(Leaf("T", TRUE))) [] n = "p" -> ExpressionPlain(ExpressionP(IntTy))]
        inT == {ExpressionAt("member", N(n), f) : n \in {"t", "ct", "rt"}, f \in {"q", "w", "v"}} \cup {ExpressionAt("arrow", N(n), "q") : n \in {"pt", "pct"}}
        inIn == {ExpressionAt("member", ExpressionAt("member", N(n), "in"), "m") : n \in {"t", "ct", "rt"}} \cup {ExpressionAt("member", ExpressionAt("arrow", N("pct"), "in"), "m")}
        places == Names({"t", "ct", "rt", "pt", "pct"}) \cup inT \cup inIn \cup {U("deref", ExpressionAt("member", N(n), "q")) : n \in {"t", "ct"}}
        locals == inT \cup inIn \cup Names({"t", "ct", "rt", "pt", "pct"}) \cup {U("address", e) : e \in inT \cup inIn \cup Names({"t", "ct", "rt"})}
                    \cup {U("plus", e) : e \in inT} \cup {U("address", U("deref", N("pct"))), One}
    IN Program(objects, places, locals, TRUE, RecordFields, NoNames)

\* void pointers, which C lets lead anywhere: here only to integers.
VoidTy == Leaf("Void", FALSE)
VoidNames == {"i", "ci", "p", "cp", "v", "cv", "ap"}
Functions_ == [n \in {"id", "idc", "read"} |->
    CASE n = "id" -> ExpressionFn(ExpressionP(IntTy), <<ExpressionP(IntTy)>>) [] n = "idc" -> ExpressionFn(ExpressionP(CInt), <<ExpressionP(CInt)>>) [] n = "read" -> ExpressionFn(AtomicOf(IntTy), <<IntTy>>)]
Voids(gnu) ==
    LET objects == [n \in VoidNames |->
            ExpressionPlain(CASE n = "i" -> IntTy [] n = "ci" -> CInt [] n = "p" -> ExpressionP(IntTy) [] n = "cp" -> ExpressionP(CInt)
                    [] n = "v" -> ExpressionP(VoidTy) [] n = "cv" -> ExpressionP(Leaf("Void", TRUE)) [] n = "ap" -> AtomicOf(ExpressionP(IntTy)))]
        places == Names({"p", "cp", "v", "cv", "ap"}) \cup {U("deref", N("p")), U("deref", N("cp")), U("deref", N("v"))}
        arguments == {N("p"), N("cp"), N("v"), N("cv"), N("ap"), Zero, U("address", N("i")), U("address", N("ci"))}
        calls == {Call(N(g), <<x>>) : g \in {"id", "idc"}, x \in arguments} \cup {Call(N("id"), << >>), Call(N("i"), <<One>>)}
        choices == Conds({N("p"), N("v")}, {N("cp"), N("cv"), N("ap"), Zero, N("v"), ExpressionCast(VoidTy, N("i")), ExpressionCast(ExpressionP(VoidTy), Zero)})
                     \cup {Generic(x, <<ExpressionP(IntTy), ExpressionP(CInt), IntTy>>, <<N("p"), N("cp"), One>>, N("v")) : x \in Names({"p", "cp", "ci", "v"})}
                     \cup {Generic(N("p"), <<ExpressionP(IntTy), ExpressionP(IntTy)>>, <<N("p"), N("p")>>, N("v")), Generic(N("p"), <<VoidTy>>, <<N("p")>>, N("v"))}
                     \cup {B("equal", N("v"), N("cp")), B("less", N("v"), N("cv")), B("less", N("v"), N("p")), B("equal", N("p"), Zero), B("equal", N("p"), One)}
        locals == arguments \cup calls \cup choices \cup {U("sizeof", N("id")), U("sizeof", U("deref", N("v"))), U("address", U("deref", N("v"))), One}
    IN Program(objects, places, locals, gnu, NoNames, Functions_)

\* Functions, atomic objects, casts and arithmetic.
MixedNames == {"i", "ci", "u", "l", "ch", "f", "bo", "p", "at", "ap", "pf", "e"}
ExpressionMixed(gnu) ==
    LET objects == [n \in MixedNames |->
            ExpressionPlain(CASE n = "i" -> IntTy [] n = "ci" -> CInt [] n = "u" -> Leaf("UInt", FALSE) [] n = "l" -> Leaf("Long", FALSE)
                    [] n = "ch" -> Leaf("Char", FALSE) [] n = "f" -> Leaf("Float", FALSE) [] n = "bo" -> Leaf("Bool", FALSE)
                    [] n = "p" -> ExpressionP(IntTy) [] n = "at" -> AtomicOf(IntTy) [] n = "ap" -> AtomicOf(ExpressionP(IntTy))
                    [] n = "pf" -> ExpressionP(Functions_["id"]) [] n = "e" -> Leaf("SmallEnum", FALSE))]
        numbers == Names({"i", "u", "l", "ch", "f", "bo", "at", "e"})
        places == Names({"i", "ci", "bo", "p", "at", "ap", "pf", "f"}) \cup {U("deref", N("p")), U("deref", N("pf"))}
        calls == {Call(N(g), <<x>>) : g \in {"pf", "read"}, x \in {N("p"), N("ap"), Zero}} \cup {Call(U("deref", N("pf")), <<N("p")>>)}
        arithmetic == {U(op, x) : op \in {"plus", "complement", "not"}, x \in numbers \cup {N("p"), Call(N("read"), <<One>>)}}
                        \cup {B(op, x, y) : op \in {"times", "shift", "bitand", "less", "add"}, x \in numbers, y \in {N("u"), N("ch"), N("f"), N("l")}}
        choices == Conds({N("p"), N("i"), N("id")}, {N("ap"), Zero, N("u"), N("idc"), N("id"), ExpressionCast(VoidTy, N("i"))})
                     \cup {Generic(x, <<ExpressionP(IntTy), IntTy>>, <<N("p"), One>>, Zero) : x \in Names({"p", "at", "u"})}
                     \cup {B("and", N("p"), N("i")), B("and", N("f"), N("id"))}
                     \cup {ExpressionCast(Leaf("Long", FALSE), N("p")), ExpressionCast(Leaf("Float", FALSE), N("p")), ExpressionCast(VoidTy, N("p")), ExpressionCast(Leaf("Char", TRUE), N("l"))}
        locals == Names(MixedNames) \cup calls \cup arithmetic \cup choices \cup {U("address", e) : e \in Names({"i", "ci", "at", "id", "idc"})} \cup {Zero, One}
    IN Program(objects, places, locals, gnu, NoNames, Functions_)

MCExpressionPrograms == <<ExpressionPointers, ExpressionArrays, Members, Registers, Voids(TRUE), ExpressionMixed(TRUE), ExpressionMixed(FALSE)>>

------------------------------------------------------------------------------
(* The machines side by side.                                                  *)
Idle == "idle"
DeclRests ==
    /\ env = Gcc /\ fileForms = {} /\ blockForms = {}
    /\ declarations = [n \in DeclNames |-> NoDeclaration]
    /\ tentative = {} /\ block_externs = [n \in DeclNames |-> NoExtern]
    /\ histories = [n \in DeclNames |-> NoHistory] /\ registered = {}
    /\ blocks = <<>> /\ weak_symbols = {} /\ incoming = [n \in DeclNames |-> NoOld]
    /\ entities = [n \in DeclNames |-> NoEntity] /\ noreturns = {} /\ written = <<>> /\ phase = "done"
InitializersRest ==
    /\ initialized = Idle /\ lists = Idle /\ elements = Idle /\ placed = Idle /\ stored = Idle
    /\ itemsRead = Idle /\ listState = Idle
StaticRests == folding = Idle /\ folded = Idle
DeclaredRests == reading = Idle /\ specified = Idle /\ readTo = Idle /\ declaredType = Idle /\ packs = Idle
MacrosRest ==
    /\ values = Idle /\ retained = Idle /\ work = Idle /\ emitted = Idle /\ skipped = Idle
    /\ options = Idle /\ history = Idle /\ failure = Idle
ExpressionsRest == program = Idle /\ store = Idle

PartsInit ==
    /\ part \in {"declarations", "initializers", "static", "types", "macros", "expressions"}
    /\ IF part = "declarations" THEN DeclInit ELSE DeclRests
    /\ IF part = "initializers" THEN InitializersInit ELSE InitializersRest
    /\ IF part = "static" THEN StaticInit ELSE StaticRests
    /\ IF part = "types" THEN DeclaredInit ELSE DeclaredRests
    /\ IF part = "macros" THEN MacrosInit ELSE MacrosRest
    /\ IF part = "expressions" THEN ExpressionsInit ELSE ExpressionsRest

PartsNext ==
    \/ part = "declarations" /\ DeclNext /\ UNCHANGED <<part, initVars, staticVars, declaredVars, macroVars, expressionVars>>
    \/ part = "initializers" /\ InitializersNext /\ UNCHANGED <<part, declVars, staticVars, declaredVars, macroVars, expressionVars>>
    \/ part = "static" /\ StaticNext /\ UNCHANGED <<part, declVars, initVars, declaredVars, macroVars, expressionVars>>
    \/ part = "types" /\ DeclaredNext /\ UNCHANGED <<part, declVars, initVars, staticVars, macroVars, expressionVars>>
    \/ part = "macros" /\ MacrosNext /\ UNCHANGED <<part, declVars, initVars, staticVars, declaredVars, expressionVars>>
    \/ part = "expressions" /\ ExpressionsNext /\ UNCHANGED <<part, declVars, initVars, staticVars, declaredVars, macroVars>>

PartsSpec == PartsInit /\ [][PartsNext]_declarationParts

------------------------------------------------------------------------------
\* Over every order of file and block declarations of a name: an inline body is emitted exactly when the standard makes
\* it the external definition, a name is defined once, linkage and DLL storage stay consistent, and no later declaration
\* loses what an earlier one said.
DeclarationsExact ==
    /\ [](part = "declarations" => InlineOwnershipExact /\ DefinedOnce /\ StorageConsistent)
    /\ DeclarationsKeepFacts

\* initializer.rs: an item goes to the subobject that C's rules for omitted braces and designators choose, the recorded
\* paths agree with the cursor, and a flexible or incomplete array holds every value written to it. A folded static
\* address is the address the program computes however the linker places the symbols, weak ones absent included, and an
\* accepted initializer is one relocation.
InitializersExact ==
    /\ part = "initializers" => (ElisionExact /\ RetainedPathsAgree /\ ObjectHoldsItsValues)
    /\ part = "static" => (FoldedAddressExact /\ AcceptedIsRelocatable)

\* The flags of base_type accept the specifier multisets C accepts, in any order; declarators read inside out give the
\* type C gives; and pack pragmas restore what their label pushed.
TypesReadExact == part = "types" => SpecifiersExact /\ DeclaratorsExact /\ PackingExact

\* macro_values.rs: however definitions follow each other, the context holds the values of those in force within its
\* byte budget, and a constant is emitted with a type that holds it.
MacroValuesExact == part = "macros" => ContextExact /\ EmittedExact

\* expression.rs: expressions that the checker accepts never write a const object through pointers of their own making,
\* and the types it gives are the types of the values the program computes.
ExpressionsExact == part = "expressions" => ConstObjectsKept /\ PointersTyped /\ ValuesTyped
==============================================================================
