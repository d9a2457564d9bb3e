------------------------------ MODULE MCBodies ------------------------------
(* The checkers of function bodies, in one run: statements and jumps, the      *)
(* retained graph of names, the bounds of variably modified types, object      *)
(* sizes, and function targets.  They share no state in the model: `part` says *)
(* which of them runs, the others rest.                                        *)
EXTENDS FunctionBody, CheckedGraph, CheckedBounds, ObjectExtent, FunctionTargets

VARIABLE part
bodyParts == <<part, vars, graphVars, boundsVars, extentVars, targetVars>>

------------------------------------------------------------------------------
(* Bodies: kinds of statements, sizes and profiles (FunctionBody).            *)
Job(kinds, n, c90, isGnu) ==
    [kinds |-> kinds, cases |-> {}, size |-> n, c90 |-> c90, gnu |-> isGnu]

\* Jumps between scopes of VM identifiers and statement expressions.
JumpKinds == {"compound", "vm", "expression", "statement_expression", "label", "goto"}
JumpJobs == {Job(JumpKinds, 7, FALSE, TRUE)}

\* The same through selections and loops, in every profile.
ControlKinds == {"if", "while", "do", "for", "vm", "label", "goto", "break", "continue",
                 "statement_expression", "object"}
ControlJobs == {Job(ControlKinds, 5, c90, isGnu) : c90 \in BOOLEAN, isGnu \in BOOLEAN}

\* Ranges over all values of the type and beyond.
CaseJobs == {[kinds |-> {"switch", "case", "default", "vm", "compound", "statement_expression",
                         "expression"},
              cases |-> (-3..2) \X (-3..2), size |-> 5, c90 |-> FALSE, gnu |-> TRUE]}

\* Annotations, through the loops of each profile.
AnnotationKinds == {"switch", "case", "fallthrough", "if", "compound", "label", "typedef",
                    "statement_expression", "empty"}
AnnotationJobs ==
    {[kinds |-> AnnotationKinds \cup {IF isGnu THEN "while" ELSE "do"}, cases |-> {<<0, 0>>},
      size |-> 5, c90 |-> FALSE, gnu |-> isGnu] : isGnu \in BOOLEAN}

BodyJobs == JumpJobs \cup ControlJobs \cup CaseJobs \cup AnnotationJobs

------------------------------------------------------------------------------
(* Translation units for the retained graph (CheckedGraph).                   *)
GraphI(op, name) == [op |-> op, name |-> name, how |-> "plain", id |-> 1, class |-> "local", kind |-> "Variable", body |-> FALSE]
How(it, how) == [it EXCEPT !.how = how]
Local(name, class, kind) == [GraphI("local", name) EXCEPT !.class = class, !.kind = kind]
Struct(id, how) == [GraphI("tag", "S") EXCEPT !.id = id, !.how = how]
Body(name) == [GraphI("close", name) EXCEPT !.body = TRUE]

MCHeads == {<<GraphI("file", "x")>>, <<How(GraphI("file", "x"), "static")>>, <<GraphI("typedef", "x")>>, <<>>}
MCParameters == {
    <<>>, <<GraphI("param", "")>>, <<GraphI("param", "x"), Struct(1, "mention")>>,
    <<GraphI("identifier", "x"), GraphI("identifier", "y"), GraphI("old", "y")>>,
    <<GraphI("open", ""), GraphI("param", "x"), GraphI("close", "y"), GraphI("param", "x")>>}
MCInner == {
    <<>>, <<Local("x", "local", "Variable")>>, <<Local("x", "linked", "Variable")>>,
    <<Local("x", "typedef", "Typedef")>>, <<GraphI("typename", "x")>>, <<GraphI("use", "x")>>,
    <<How(GraphI("use", "x"), "clone")>>, <<GraphI("call", "y")>>, <<GraphI("enumerator", "x")>>}
MCOdd == {
    <<How(GraphI("use", "x"), "twin")>>, <<How(GraphI("use", "x"), "twinclone")>>,
    <<How(GraphI("use", "x"), "attribute")>>, <<How(GraphI("use", "x"), "inserted")>>,
    <<GraphI("typename", "builtin")>>, <<GraphI("use", "__func__")>>,
    <<Struct(1, "mention"), Struct(1, "mention")>>, <<Struct(1, "standalone"), Struct(1, "definition")>>,
    <<GraphI("open", ""), GraphI("param", "x"), GraphI("close", "y")>>}

Unit(head, parameters, first, inner, last) ==
    head \o <<GraphI("open", "")>> \o parameters \o <<Body("f")>> \o first
         \o <<GraphI("block", "")>> \o inner \o <<GraphI("end", "")>> \o last \o <<GraphI("end", "")>>

MCGraphPrograms ==
    <<{Unit(h, p, m, n, l) : h \in MCHeads, p \in MCParameters, m \in MCInner, n \in MCInner, l \in MCInner},
      {Unit(h, p, <<>>, n, <<GraphI("use", "x")>>) : h \in MCHeads, p \in MCParameters, n \in MCOdd},
      {Unit(<<>>, <<GraphI("param", "x")>>, <<GraphI("use", "x")>>, <<>>, <<>>) \o l :
            l \in {<<GraphI("file", "y")>>, <<GraphI("open", ""), GraphI("param", "x"), GraphI("close", "f")>>}},
      {<<GraphI("open", ""), GraphI("open", ""), GraphI("open", ""), GraphI("open", ""), GraphI("param", "x")>>}>>
MCGraphLimits == {[nodes |-> 60, edges |-> 200, bytes |-> 60], [nodes |-> 20, edges |-> 200, bytes |-> 60],
                  [nodes |-> 60, edges |-> 78, bytes |-> 17]}

------------------------------------------------------------------------------
(* Expressions and type names with variable bounds (CheckedBounds).           *)
N(k, kids) == [k |-> k, n |-> "", sel |-> 0, kids |-> kids]
Sel(k, sel, kids) == [k |-> k, n |-> "", sel |-> sel, kids |-> kids]
Named(k, n) == [k |-> k, n |-> n, sel |-> 0, kids |-> <<>>]
VLA(of) == Shape("vla", "", <<of>>)
MCDeclared == [
    n |-> [ty |-> Number, entries |-> {}, volatile |-> FALSE],
    v |-> [ty |-> Number, entries |-> {}, volatile |-> TRUE],
    a |-> [ty |-> VLA(VLA(Number)), entries |-> {Extent(<<>>, 1), Extent(<<"Element">>, 2)}, volatile |-> FALSE],
    q |-> [ty |-> PointerTo(VLA(Number)), entries |-> {Extent(<<"Pointer">>, 3)}, volatile |-> FALSE],
    T |-> [ty |-> VLA(Number), entries |-> {Extent(<<>>, 1)}, volatile |-> FALSE],
    s |-> [ty |-> Shape("atomic", "", <<PointerTo(VLA(Number))>>), entries |-> {Extent(<<"AtomicValue", "Pointer">>, 2)}, volatile |-> FALSE],
    f |-> [ty |-> Shape("fun", "", <<PointerTo(VLA(Number)), Number>>), entries |-> {FunctionUse(<<>>, 0), Extent(<<"Return", "Pointer">>, 3)}, volatile |-> FALSE]]
MCEarlier == 3

Names == {Named("name", x) : x \in {"n", "v", "a", "q", "s", "f"}}
Lit == Named("lit", "")
NV == Named("name", "n")
IntT == Named("int", "")
TN == Named("tname", "T")
Arr(e, t) == N("arr", <<e, t>>)
PtrN == N("ptrto", <<Arr(NV, IntT)>>)
SizeofPtrN == N("sizeoft", <<PtrN>>)
Type0 == {IntT, TN, PtrN, Arr(NV, IntT), Arr(Lit, Arr(NV, IntT))}
Null(t) == N("cast", <<N("ptrto", <<t>>), Lit>>)
Expr1 == {N("addr", <<x>>) : x \in Names} \cup {N("deref", <<Named("name", x)>>) : x \in {"a", "q", "s", "f"}}
         \cup {N("index", <<Named("name", x), NV>>) : x \in {"a", "q", "s"}} \cup {N("inc", <<Named("name", x)>>) : x \in {"n", "q", "s"}}
         \cup {N("call", <<Named("name", "f")>>), N("assign", <<Named("name", "q"), Named("name", "s")>>),
               N("assign", <<Named("name", "s"), Named("name", "a")>>), N("comma", <<Named("name", "v"), Named("name", "a")>>),
               N("cond", <<NV, Named("name", "q"), Named("name", "a")>>), N("omit", <<Named("name", "s"), Named("name", "q")>>),
               N("cond", <<NV, Null(Arr(Lit, IntT)), Named("name", "q")>>), N("cond", <<NV, Null(Arr(NV, IntT)), Lit>>),
               SizeofPtrN, N("add", <<Lit, SizeofPtrN>>), N("add", <<NV, Null(Arr(NV, IntT))>>)}
ExprS == Names \cup Expr1 \cup {Lit}
Type1 == Type0 \cup {N("typeof", <<e>>) : e \in ExprS} \cup {N("typeofty", <<t>>) : t \in Type0}
         \cup {N("fn", <<PtrN>>), N("atomic", <<PtrN>>), Arr(N("add", <<NV, SizeofPtrN>>), IntT), Arr(SizeofPtrN, IntT),
               Arr(N("sizeofv", <<N("deref", <<Null(Arr(NV, IntT))>>)>>), IntT), N("typeof", <<N("deref", <<Null(Arr(NV, IntT))>>)>>),
               N("typeofty", <<N("typeof", <<Null(Arr(NV, IntT))>>)>>), N("ptrto", <<N("typeof", <<NV>>)>>),
               N("ptrto", <<N("typeof", <<Null(Arr(NV, IntT))>>)>>),
               N("typeof", <<SizeofPtrN>>), N("typeof", <<N("sizeofv", <<N("deref", <<Null(Arr(NV, IntT))>>)>>)>>)}
PtrT == {N("ptrto", <<t>>) : t \in {u \in Type1 : TRUE}}
Expr2 == ExprS \cup {N("sizeofv", <<e>>) : e \in ExprS} \cup {N("query", <<e>>) : e \in ExprS}
         \cup {N("sizeoft", <<t>>) : t \in Type1 \ {N("fn", <<PtrN>>)}} \cup {N("alignof", <<t>>) : t \in Type1 \ {N("fn", <<PtrN>>)}}
         \cup {N("compat", <<t, Arr(NV, IntT)>>) : t \in Type1} \cup {N("cast", <<t, Lit>>) : t \in PtrT}
         \cup {N("addr", <<N("deref", <<N("cast", <<t, Lit>>)>>)>>) : t \in PtrT}
Deep == Expr2 \cup {Sel("choose", i, <<Lit, x, y>>) : i \in {2, 3}, x \in {SizeofPtrN, N("sizeoft", <<Arr(NV, IntT)>>), Null(TN)}, y \in Expr2}
        \cup {Sel("generic", i, <<x, y, SizeofPtrN>>) : i \in {2, 3}, x \in {NV, Null(Arr(NV, IntT))}, y \in Expr2}
        \cup {N("sizeofv", <<e>>) : e \in Expr2} \cup {N("query", <<e>>) : e \in Expr2}
        \cup {N("sizeoft", <<N("typeof", <<e>>)>>) : e \in Expr2} \cup {N("sizeoft", <<Arr(N("sizeofv", <<e>>), t)>>) : e \in Expr2, t \in {IntT, Arr(NV, IntT)}}
        \cup {N("alignof", <<N("typeof", <<e>>)>>) : e \in Expr2} \cup {N("comma", <<SizeofPtrN, e>>) : e \in Expr2}
        \cup {N("cast", <<N("ptrto", <<N("fn", <<N("ptrto", <<Arr(N("sizeofv", <<e>>), IntT)>>)>>)>>), Lit>>) : e \in Expr2}
\* Constants and alignments.
Const == {Lit, SizeofPtrN, N("alignof", <<Arr(NV, IntT)>>), N("sizeofv", <<SizeofPtrN>>), N("sizeofv", <<Null(Arr(NV, IntT))>>),
          N("sizeoft", <<N("ptrto", <<N("typeof", <<Null(Arr(NV, IntT))>>)>>)>>), N("cast", <<IntT, SizeofPtrN>>),
          N("compat", <<PtrN, N("typeof", <<Null(Arr(NV, IntT))>>)>>)}
Consts == Const \cup {N("add", <<x, y>>) : x \in Const, y \in Const} \cup {N("cond", <<x, y, Lit>>) : x \in Const, y \in Const}
          \cup {Sel("choose", i, <<Lit, x, y>>) : i \in {2, 3}, x \in Const, y \in Const}
          \cup {Sel("generic", 2, <<SizeofPtrN, x, y>>) : x \in Const, y \in Const}
          \cup {N("sizeofv", <<x>>) : x \in Const}
MCPrograms == {N("expr", <<e>>) : e \in Deep} \cup {N("const", <<e>>) : e \in Consts} \cup {N("alignas", <<e>>) : e \in Const}
              \cup {N("const", <<Sel("generic", 2, <<x, N("sizeoft", <<N("typeof", <<y>>)>>), Lit>>)>>) : x \in Const, y \in Const}

------------------------------------------------------------------------------
(* Objects and the expressions that reach into them (ObjectExtent).           *)
Ty(k, bytes, of, fields) == [k |-> k, size |-> bytes, of |-> of, fields |-> fields]
Fd(name, at, type) == [name |-> name, at |-> at, type |-> type]
MCExtentTypes ==
    [char |-> Ty("scalar", 1, "", <<>>), short |-> Ty("scalar", 2, "", <<>>), vla |-> Ty("vla", -1, "short", <<>>),
     shorts |-> Ty("array", 4, "short", <<>>), grid |-> Ty("array", 8, "shorts", <<>>), complex |-> Ty("complex", 4, "short", <<>>),
     pair |-> Ty("record", 4, "", <<Fd("x", 0, "char"), Fd("y", 2, "short")>>),
     holder |-> Ty("record", 10, "", <<Fd("p", 0, "pair"), Fd("a", 4, "shorts"), Fd("c", 8, "char")>>),
     waves |-> Ty("array", 8, "complex", <<>>), text |-> Ty("array", 3, "char", <<>>), tail |-> Ty("array", -1, "char", <<>>),
     growing |-> Ty("record", 2, "", <<Fd("n", 0, "short"), Fd("tail", 2, "tail")>>)]
RootOf(type, origin, allocation, body) == [type |-> type, origin |-> origin, allocation |-> allocation, body |-> body]
MCExtentRoots ==
    {RootOf(t, "object", -1, TRUE) : t \in {"grid", "holder", "waves", "vla"}}
    \union {RootOf("text", "string", -1, TRUE), RootOf("growing", "object", 5, TRUE)}
    \union {RootOf("pair", "compound", -1, b) : b \in BOOLEAN}
Leaf(effect, value, vla) == [k |-> "leaf", effect |-> effect, value |-> value, vlaCast |-> vla]
MCDiscarded ==
    {Leaf("unknown", "?", TRUE),
     [k |-> "and", left |-> Leaf("no", "0", FALSE), right |-> Leaf("yes", "?", FALSE)],
     [k |-> "if", left |-> Leaf("no", "?", FALSE), then |-> Leaf("no", "?", FALSE), right |-> Leaf("yes", "?", FALSE)],
     [k |-> "if", left |-> Leaf("no", "1", FALSE), then |-> Leaf("unknown", "?", FALSE), right |-> Leaf("yes", "?", FALSE)]}
MCIndices == {-1, 1, 9, 99}
MCCasts == {"char", "pair", "vla"}

------------------------------------------------------------------------------
(* Functions with target features and calls between them (FunctionTargets).   *)
A(targets, inline) == [targets |-> targets, inline |-> inline]
Decl(name, a) == [k |-> "declare", name |-> name, targets |-> a.targets, inline |-> a.inline]
Defn(name, a) == [k |-> "define", name |-> name, targets |-> a.targets, inline |-> a.inline]
Call(name, u) == [k |-> "call", name |-> name, unevaluated |-> u]
Intr(f) == [k |-> "intrinsic", needs |-> f, unevaluated |-> FALSE]
Op(k) == [k |-> k]
TargetsIf(t) == [k |-> "if", taken |-> t]
TargetsPlain == A(<<>>, <<>>)
Few == {TargetsPlain, A(<<>>, <<"always">>), A(<<<<"bmi">>>>, <<"always">>), A(<<<<"bmi">>>>, <<>>), A(<<<<>>>>, <<"never">>)}
Many == Few \union {A(<<>>, <<"never", "always">>), A(<<<<"bmi", "sse">>>>, <<"always">>), A(<<<<"sse", "bmi">>>>, <<>>), A(<<<<"bmi">>, <<"sse">>>>, <<"always">>),
                    A(<<<<"no-mmx", "sse">>>>, <<>>), A(<<<<"bmi", "no-bmi">>>>, <<"always">>), A(<<<<"no-evex512">>>>, <<"always">>)}
Callers == {TargetsPlain, A(<<<<"bmi">>>>, <<>>), A(<<<<"no-mmx">>>>, <<>>), A(<<<<"sse", "no-mmx">>>>, <<>>)}
C == Op("close")
Bodies ==
    {<<Call("f", FALSE)>>, <<Call("f", TRUE)>>, <<Intr("sse")>>, <<TargetsIf("never"), Intr("bmi"), Op("endif")>>,
     <<TargetsIf("never"), Call("f", FALSE), Op("endif")>>, <<TargetsIf("maybe"), Call("f", FALSE), Op("endif")>>,
     <<TargetsIf("never"), Op("label"), Call("f", FALSE), Op("endif")>>,
     <<TargetsIf("never"), TargetsIf("maybe"), Call("f", FALSE), Op("endif"), Op("endif"), Op("label")>>,
     <<TargetsIf("maybe"), TargetsIf("never"), Op("label"), Op("endif"), Call("f", FALSE), Op("endif")>>}
Inner(a) == {<<Op("open"), Decl("f", a), Call("f", FALSE), C>>, <<Op("open"), Decl("f", a), C, Call("f", FALSE)>>, <<Decl("f", a), TargetsIf("never"), Call("f", FALSE), Op("endif"), Call("f", FALSE)>>}
Of(c, i, list) == [compiler |-> c, i686 |-> i, items |-> list]
Second == <<TargetsPlain, A(<<>>, <<"always">>), A(<<<<"bmi">>>>, <<"always">>), A(<<<<"bmi">>>>, <<>>), A(<<<<>>>>, <<"never">>)>>
Family(c, i, d) ==
    <<{Of(c, i, <<Decl("f", a), Defn("g", g)>> \o b \o <<C, Decl("f", d)>>) : a \in Many, g \in Callers, b \in Bodies},
      UNION {{Of(c, i, <<Decl("f", a), Defn("g", g)>> \o b \o <<C, Defn("f", d), C>>) : b \in Inner(e)} : a \in Few, e \in Few, g \in Callers},
      UNION {{Of(c, i, <<Defn("g", g)>> \o b \o <<C, Decl("f", d)>>) : b \in Inner(e)} : e \in Many, g \in Callers},
      {Of(c, i, <<Decl("f", a), Defn("f", e), C, Decl("f", d), Defn("g", g), Call("f", FALSE), C>>) : a \in Few, e \in Many, g \in Callers},
      {Of(c, i, <<Decl("f", a), Defn("h", TargetsPlain), Op("open"), Decl("f", d), C, C, Defn("g", g), Call("f", FALSE), C>>) : a \in Many, g \in Callers},
      {Of(c, i, <<Defn("g", d), C, Defn("g", d), C>>)}>>
MCTargetPrograms ==
    Family("clang", FALSE, Second[1]) \o Family("clang", FALSE, Second[2]) \o Family("clang", FALSE, Second[3]) \o Family("clang", FALSE, Second[4])
    \o Family("gnu", FALSE, Second[1]) \o Family("gnu", FALSE, Second[2]) \o Family("gnu", FALSE, Second[3]) \o Family("gnu", FALSE, Second[4]) \o Family("gnu", FALSE, Second[5])
    \o Family("clang", TRUE, Second[2]) \o Family("gnu", TRUE, Second[2])

------------------------------------------------------------------------------
(* The machines side by side.                                                  *)
Idle == "idle"
BodyRests == Init /\ job = CHOOSE j \in Jobs : TRUE
GraphRests == graphUnit = Idle /\ graph = Idle /\ graphAt = Idle /\ graphStatus = Idle
BoundsRests ==
    /\ checking = Idle /\ todo = Idle /\ facts = Idle /\ typeNames = Idle
    /\ bounds = Idle /\ operands = Idle /\ starts = Idle
ExtentRests == root = Idle /\ gnu = Idle /\ wrappers = Idle /\ place = Idle /\ answer = Idle
TargetsRest ==
    /\ unitOf = Idle /\ itemAt = Idle /\ options = Idle /\ lexicalOptions = Idle /\ declaredAs = Idle
    /\ blockExterns = Idle /\ caller = Idle /\ uses = Idle /\ branches = Idle /\ labelCount = Idle /\ outcome = Idle

BodiesInit ==
    /\ part \in {"body", "graph", "bounds", "extent", "targets"}
    /\ IF part = "body" THEN Init ELSE BodyRests
    /\ IF part = "graph" THEN GraphInit ELSE GraphRests
    /\ IF part = "bounds" THEN BoundsInit ELSE BoundsRests
    /\ IF part = "extent" THEN ExtentInit ELSE ExtentRests
    /\ IF part = "targets" THEN TargetsInit ELSE TargetsRest

BodiesNext ==
    \/ part = "body" /\ Next /\ UNCHANGED <<part, graphVars, boundsVars, extentVars, targetVars>>
    \/ part = "graph" /\ GraphNext /\ UNCHANGED <<part, vars, boundsVars, extentVars, targetVars>>
    \/ part = "bounds" /\ BoundsNext /\ UNCHANGED <<part, vars, graphVars, extentVars, targetVars>>
    \/ part = "extent" /\ ExtentNext /\ UNCHANGED <<part, vars, graphVars, boundsVars, targetVars>>
    \/ part = "targets" /\ TargetsNext /\ UNCHANGED <<part, vars, graphVars, boundsVars, extentVars>>
    \* these end; a body that stops before it is accepted or rejected is a deadlock
    \/ part # "body" /\ UNCHANGED bodyParts
BodiesSpec == BodiesInit /\ [][BodiesNext]_bodyParts

------------------------------------------------------------------------------
\* checked.rs: in the retained graph every name resolves to the declaration lexical scoping gives it, scopes list
\* exactly the sites declared in them in source order, and every retained node was charged to the budget once.
GraphExact == part = "graph" => NamesResolveLexically /\ ScopesHoldTheirSites /\ RetainedIsCharged

\* checked/bounds.rs: after every correction of the arena's suffixes a bound is evaluated exactly when C evaluates it,
\* and every array extent of a derived type names the bound it was written with.
BoundsExact == part = "bounds" => EvaluationExact /\ ExtentsExact

\* object_extent.rs: the size __builtin_object_size answers with is the bytes from the address to the end of the
\* object, or of the closest subobject, through decay, casts, members, indices and discarded operands.
SizesExact == part = "extent" => ObjectSizeExact

\* target_features.rs: a call or intrinsic is refused exactly when the caller's features, with every annotation that
\* applies where it stands, lack what it needs, dead branches and late GNU annotations included.
TargetsExact == part = "targets" => FeatureChecksExact
==============================================================================
