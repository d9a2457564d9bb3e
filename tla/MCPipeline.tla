----------------------------- MODULE MCPipeline -----------------------------
(* From a command line to formatted bindings, in one run: configuration, the   *)
(* command with its worker threads, the selection of items, the emission of    *)
(* bindings, and the formatter.  The stages share no state in the model:       *)
(* `part` says which of them runs, the others rest.                            *)
EXTENDS RustfmtPipe, Bindings, FrontendConfig, FrontendRun, Selection, TLC

VARIABLE part
pipelineParts == <<part, vars, bindingVars, configVars, runVars, selectionVars>>

------------------------------------------------------------------------------
(* Units whose types meet in several ways, and the options of a caller
   (Bindings). *)
BindingT(k) == Ty(k, "", <<>>)
Ptr(ty) == Ty("ptr", "", <<ty>>)
Arr(ty) == Ty("arr", "", <<ty>>)
Fun(tys) == Ty("fun", "", tys)
Rec(id) == Ty("rec", id, <<>>)
Enum(id) == Ty("enum", id, <<>>)
Al(name) == AliasType(name)
BindingRecord(name, fields) == [name |-> name, fields |-> fields, complete |-> TRUE, union |-> FALSE, packed |-> FALSE, bitPadding |-> FALSE]
BindingDeclared(name, kind, ty) == [name |-> name, kind |-> kind, ty |-> ty, static |-> FALSE, defined |-> FALSE, unusable |-> FALSE, abi |-> "C", library |-> ""]

\* A typedef seen behind a pointer and later by value, anonymous records, atomics, a tag and a
\* typedef of another type with one name.
Storages ==
    [records |-> ("s" :> BindingRecord("S", <<Al("H"), Ptr(Al("N"))>>)) @@ ("a" :> [BindingRecord("", <<BindingT("int"), Enum("f")>>) EXCEPT !.bitPadding = TRUE])
                 @@ ("u" :> [BindingRecord("U", <<Rec("a"), Al("H")>>) EXCEPT !.union = TRUE])
                 @@ ("p" :> [BindingRecord("P", <<BindingT("float"), Al("E")>>) EXCEPT !.packed = TRUE])
                 @@ ("o" :> [BindingRecord("O", <<>>) EXCEPT !.complete = FALSE])
                 @@ ("t" :> BindingRecord("T", <<Ty("atomic", "", <<Ptr(Rec("o"))>>), Arr(Rec("p"))>>)),
     enums |-> ("e" :> "E") @@ ("f" :> ""), rustified |-> {"f"}, zeroed |-> {},
     order |-> <<Rec("s"), Rec("u"), Rec("p"), Rec("o"), Rec("t"), Rec("a"), Enum("e"), Enum("f")>>,
     typedefs |-> ("H" :> Al("K")) @@ ("K" :> Ptr(Rec("o"))) @@ ("N" :> Rec("u")) @@ ("A" :> Rec("a")) @@ ("E" :> Enum("e"))
                  @@ ("F" :> Enum("f")) @@ ("T" :> BindingT("int")) @@ ("X" :> Al("N")),
     declarations |-> <<BindingDeclared("A", "typedef", Rec("a")), BindingDeclared("F", "typedef", Enum("f")), BindingDeclared("T", "typedef", BindingT("int")),
                        BindingDeclared("get", "function", Fun(<<BindingT("void"), Ptr(Al("X"))>>)),
                        [BindingDeclared("put", "function", Fun(<<Al("X"), Rec("s")>>)) EXCEPT !.abi = "win64"],
                        [BindingDeclared("put", "function", Fun(<<Al("X"), Rec("s")>>)) EXCEPT !.abi = "win64"],
                        [BindingDeclared("hidden", "function", Fun(<<BindingT("void"), Al("F")>>)) EXCEPT !.static = TRUE],
                        BindingDeclared("table", "variable", Arr(Rec("t")))>>]
\* Callback typedefs: behind another typedef, in records, in themselves (only a caller builds that).
Callbacks ==
    [records |-> ("s" :> BindingRecord("S", <<Ptr(Al("C2")), Ptr(Al("C1"))>>)) @@ ("q" :> BindingRecord("Q", <<Rec("s"), Al("V"), Ptr(Rec("q"))>>)),
     enums |-> ("e" :> "E"), rustified |-> {"e"}, zeroed |-> {"e"},
     order |-> <<Rec("s"), Rec("q"), Enum("e")>>,
     typedefs |-> ("C1" :> Ty("fun", "long", <<BindingT("void"), Ptr(Rec("q"))>>)) @@ ("C2" :> Al("C1")) @@ ("R" :> Fun(<<BindingT("void"), Ptr(Al("R"))>>))
                  @@ ("V" :> Ptr(Al("C1"))) @@ ("W" :> Fun(<<Ty("atomic", "", <<Al("V")>>), Ty("atomic", "", <<Enum("e")>>)>>)),
     declarations |-> <<BindingDeclared("on", "function", Fun(<<Al("V"), Rec("q")>>)), BindingDeclared("C2", "typedef", Al("C1")),
                        [BindingDeclared("state", "variable", Rec("q")) EXCEPT !.library = "dll"],
                        BindingDeclared("again", "variable", Ptr(Al("R"))), BindingDeclared("W", "typedef", Fun(<<Ty("atomic", "", <<Al("V")>>), Ty("atomic", "", <<Enum("e")>>)>>)),
                        [BindingDeclared("late", "function", Fun(<<BindingT("int")>>)) EXCEPT !.defined = TRUE],
                        [BindingDeclared("odd", "function", Fun(<<BindingT("complex")>>)) EXCEPT !.unusable = TRUE]>>]

Derives == {DefaultDerives,
            [copy |-> TRUE, debug |-> "yes", default |-> TRUE, partial_eq |-> FALSE, eq |-> TRUE],
            [copy |-> FALSE, debug |-> "yes", default |-> TRUE, partial_eq |-> TRUE, eq |-> FALSE]}
Options(blockable, allowed, dependencies) ==
    {[blocked |-> b, all |-> a = {}, allowed |-> a, retain |-> r, nullable |-> n, definitions |-> n, dependencies |-> dependencies, derive |-> d] :
        b \in {B \in SUBSET blockable : Cardinality(B) <= 1}, a \in allowed, r \in BOOLEAN, n \in BOOLEAN, d \in Derives}
    \cup {[blocked |-> b, all |-> a = {}, allowed |-> a, retain |-> TRUE, nullable |-> FALSE, definitions |-> TRUE, dependencies |-> dependencies,
           derive |-> DefaultDerives] : b \in {B \in SUBSET blockable : Cardinality(B) = 2}, a \in allowed}
MCJobs ==
    {[unit |-> Storages, options |-> o] : o \in Options({"H", "K", "N", "A", "E", "F", "S"}, {{}, {"get", "T"}, {"get", "put", "hidden"}, {"A", "U"}},
                                                        Key("rec", "s") :> {"F"})}
    \cup {[unit |-> Callbacks, options |-> o] : o \in Options({"C1", "C2", "R", "S", "V"}, {{"on", "C2", "state"}, {"state", "again", "late"}, {"W", "Q"}, {"odd", "S"}}, <<>>)}
    \cup {[unit |-> [Callbacks EXCEPT !.typedefs["C1"] = Fun(<<BindingT("void"), Ty("complex", "", <<>>)>>)], options |-> o] : o \in Options({"C1", "C2", "V"}, {{"on"}, {"S"}}, <<>>)}

------------------------------------------------------------------------------
(* Words of a command line (FrontendConfig).                                  *)
MCMeaning ==
    LET w(o, v) == [option |-> o, value |-> v] IN
    ("-std=c90" :> w("std", "c90")) @@ ("-std=c11" :> w("std", "c11")) @@ ("-std=c3" :> w("std", "c3"))
    @@ ("-trigraphs" :> w("trigraphs", "")) @@ ("-fno-trigraphs" :> w("no-trigraphs", ""))
    @@ ("--target" :> w("target", "")) @@ ("--target=armv7" :> w("target", "armv7")) @@ ("--target=windows" :> w("target", "windows"))
    @@ ("-D" :> w("D", "")) @@ ("-DA=1//a" :> w("D", "A=1//a")) @@ ("-DB=6//**/2" :> w("D", "B=6//**/2"))
    @@ ("-DA(x)=1" :> w("D", "A(x)=1")) @@ ("-UA" :> w("U", "A")) @@ ("-Ulinux" :> w("U", "linux")) @@ ("-U__has_builtin" :> w("U", "__has_builtin"))
    @@ ("-I" :> w("I", "")) @@ ("-Iinc" :> w("I", "inc")) @@ ("-isystem" :> w("isystem", "")) @@ ("--sysroot=/r" :> w("sysroot", "/r"))
    @@ ("-include" :> w("include", "")) @@ ("-xc" :> w("x", "c")) @@ ("-x" :> w("x", "")) @@ ("linux" :> w("plain", "")) @@ ("-fparse-all-comments" :> w("comments", "all"))
MCDefinitionOf ==
    LET d(n, p, b) == [name |-> n, parameters |-> p, body |-> b] IN
    [x \in DOMAIN MCMeaning |-> d(x, FALSE, "plain")]
    @@ ("A=1//a" :> d("A", FALSE, "line")) @@ ("B=6//**/2" :> d("B", FALSE, "div")) @@ ("A(x)=1" :> d("A", TRUE, "plain"))
BuilderWords == DOMAIN MCMeaning
\* Of the words that only differ in their operand, one is enough in longer sequences.
TripleWords == BuilderWords \ {"-std=c3", "--target=windows", "-Iinc", "-isystem", "-xc", "-U__has_builtin", "--sysroot=/r", "-fparse-all-comments"}
\* Clap refuses operands that look like options, so the command line only meets joined words.
CliWords == {"-std=c90", "-std=c11", "-trigraphs", "-fno-trigraphs", "--target=armv7", "-DA=1//a", "-DB=6//**/2", "-DA(x)=1", "-UA", "-Ulinux", "-Iinc", "--sysroot=/r"}
NoExtra == [exact |-> {}, underscored |-> {}, generic |-> {}]
Job(driver, words, variables, cargo, host, compiler, preprocessing) ==
    [driver |-> driver, words |-> words, extra |-> variables, cargo |-> cargo, host |-> host, compiler |-> compiler, preprocessing |-> preprocessing]
C90Words == {"-std=c90", "-DA=1//a", "-DB=6//**/2", "-DA(x)=1", "-UA"}
MCConfigJobs ==
    {Job("builder", w, NoExtra, c, "linux", "", FALSE) : w \in [1..3 -> TripleWords] \union [1..2 -> BuilderWords], c \in {""}}
    \union {Job("builder", w, NoExtra, c, h, "", FALSE) : w \in [1..1 -> BuilderWords] \union {<<>>}, c \in {"", "windows", "x"}, h \in {"", "linux"}}
    \union {Job("builder", w, NoExtra, "linux", "linux", "", FALSE) : w \in [1..4 -> C90Words]}
    \union {Job("builder", <<"-Iinc">>, [exact |-> a, underscored |-> b, generic |-> g], c, "linux", "", FALSE) :
                a \in {{}, {<<"-UA">>}}, b \in {{}, {<<"-I", "-DA=1//a">>}}, g \in {{}, {<<"-std=c11">>}, {<<"-D">>}}, c \in {"", "linux"}}
    \union {Job("cli", w, NoExtra, "", "linux", c, p) : w \in [1..3 -> CliWords], c \in {"", "clang"}, p \in {FALSE}}
    \union {Job("cli", w, NoExtra, "", h, c, p) : w \in [1..2 -> CliWords], h \in {"", "linux"}, c \in {"", "gnu", "clang"}, p \in BOOLEAN}
    \union {Job("cli", w, NoExtra, "", "linux", "clang", FALSE) : w \in [1..4 -> C90Words]}

------------------------------------------------------------------------------
(* Commands, and macros of every kind (FrontendRun).                          *)
M(name, kind, selected, reserved, declared, function) ==
    [name |-> name, kind |-> kind, selected |-> selected, reserved |-> reserved, declared |-> declared, function |-> function]
Kinds == {"empty", "self", "string", "integer", "float", "long double", "unevaluable"}
J(command, report, deny, raw, all, macros) ==
    [command |-> command, report |-> report, deny |-> deny, raw |-> raw, selects_all |-> all, macros |-> macros]
MCSetters == {[trait |-> t, enabled |-> e] : t \in {"eq", "partial_eq"}, e \in BOOLEAN} \union {[trait |-> "bad pattern", enabled |-> TRUE], [trait |-> "bad prefix", enabled |-> TRUE]}
MCMacros == {M(n, k, s, r, d, f) : n \in {"A", "B"}, k \in Kinds, s \in BOOLEAN, r \in BOOLEAN, d \in BOOLEAN, f \in BOOLEAN}
MCRunJobs ==
    {J(c, FALSE, FALSE, <<>>, TRUE, <<>>) : c \in {"preprocess", "inspect", "check"}}
    \union {J("builder", FALSE, FALSE, r, FALSE, <<M("A", "integer", s, FALSE, FALSE, FALSE), M("B", "string", TRUE, FALSE, FALSE, FALSE)>>) :
                r \in {<<>>, <<"raw", "raw">>}, s \in BOOLEAN}
    \union {J("bindgen", r, d, <<>>, all, <<M("A", k, s, FALSE, FALSE, f)>>) :
                r \in BOOLEAN, d \in BOOLEAN, all \in BOOLEAN, k \in Kinds, s \in BOOLEAN, f \in BOOLEAN}
    \union {J("bindgen", FALSE, FALSE, <<>>, all, <<M("A", k, TRUE, r, d, FALSE), M("B", l, TRUE, FALSE, FALSE, FALSE)>>) :
                all \in BOOLEAN, k \in Kinds, l \in Kinds, r \in BOOLEAN, d \in BOOLEAN}

------------------------------------------------------------------------------
(* Headers with renamed, hidden and repeated declarations (Selection).        *)
D(kind, id, name, file, renames, flag) ==
    [target |-> "declaration", id |-> id, name |-> name, kind |-> kind, file |-> file, inline |-> kind = "function" /\ flag,
     external |-> ~ flag, reference |-> FALSE, definition |-> FALSE, renames |-> renames]
SelectT(kind, id, file, reference, definition) ==
    [target |-> kind, id |-> id, name |-> "V", kind |-> kind, file |-> file, inline |-> FALSE, external |-> FALSE,
     reference |-> reference, definition |-> definition, renames |-> <<>>]
Files == {"a.h", "b.h"}
Renames == {<<>>, <<"r">>, <<"s", "">>, <<"s", "r">>, <<"empty name">>}
Vars(id, n) == {D("variable", id, n, f, r, FALSE) : f \in Files, r \in {<<>>, <<"r">>, <<"s", "r">>, <<"r", "s">>}}
NoTags == [t \in {} |-> 0]
P(f, t, fn, v) == [files |-> f, types |-> t, functions |-> fn, vars |-> v]
NoPatterns == P({}, {}, {}, {})
U(entries, tags, patterns, callbacks, blocklist, objects) ==
    [entries |-> entries, tags |-> tags, patterns |-> patterns, callbacks |-> callbacks, blocklist |-> blocklist, objects |-> objects, inline |-> {}]
VarUnits == {U(<<a, b, c>>, NoTags, p, 2, {}, o) : a \in Vars("x", "x"), b \in Vars("x", "x"), c \in Vars("y", "y"),
                p \in {NoPatterns, P({"a.h"}, {}, {}, {}), P({}, {}, {}, {"r"}), P({"b.h"}, {}, {}, {"s"})}, o \in {<<1, 2, 3>>, <<2, 3>>}}
FunUnits == {U(<<D("function", "f", "f", a, r, i), D("function", "g", "g", b, q, FALSE), D("function", "f", "f", b, q, FALSE)>>, NoTags, p, c, l, <<>>) :
                a \in Files, b \in Files, r \in Renames, q \in {<<>>, <<"r">>}, i \in BOOLEAN,
                p \in {NoPatterns, P({"a.h"}, {}, {}, {}), P({}, {}, {"r"}, {}), P({}, {}, {"f"}, {})}, c \in {0, 1}, l \in {{}, {"f"}, {"r", "g"}}}
PairUnits == {U(<<D("variable", "x", "x", "a.h", <<>>, FALSE), D("variable", "x", "x", "a.h", <<"r">>, FALSE),
                   D("variable", "y", "y", f, <<>>, FALSE), D("variable", "y", "y", "b.h", <<n>>, FALSE)>>, NoTags, p, 1, {}, <<1, 2, 3, 4>>) :
                f \in Files, n \in {"r", "s"}, p \in {NoPatterns, P({"a.h"}, {}, {}, {}), P({"b.h"}, {}, {}, {})}}
TypeUnits == {U(<<D("typedef", "t", "t", f, <<>>, FALSE), D("variable", "v", "v", "a.h", <<"r">>, flag)>>, NoTags, p, 1, {}, <<2>>) :
                f \in Files \union {"<builtin>"}, flag \in BOOLEAN, p \in {P({}, {"t"}, {}, {}), P({"<builtin>", "a.h"}, {}, {}, {}), P({}, {}, {}, {"v"}), P({}, {}, {}, {"r"})}}
Tag(kind, d, f, n, v) == [kind |-> kind, discovery |-> d, file |-> f, name |-> n, variants |-> v]
TagUnits == {U(<<SelectT(k, "R", f, r, FALSE), SelectT(k, "R", g, FALSE, d)>> \o tail, "R" :> Tag(k, dd, "b.h", "R", IF k = "enum" THEN {"V"} ELSE {}), p, 1, {}, <<>>) :
                k \in {"record", "enum"}, f \in Files, g \in Files, r \in BOOLEAN, d \in BOOLEAN, dd \in {"none", "discovered", "hidden"},
                tail \in {<<>>, <<SelectT("enumerator", "R", "a.h", FALSE, FALSE)>>},
                p \in {NoPatterns, P({"a.h"}, {}, {}, {}), P({"b.h"}, {}, {}, {}), P({}, {"R"}, {}, {}), P({}, {}, {}, {"V"})}}
            \union {U(<<SelectT("record", "R", "a.h", TRUE, FALSE)>>, "R" :> Tag("record", "none", "", "R", {}), P({}, {"R"}, {}, {}), 0, {}, <<>>)}
MCSelectionUnits == VarUnits \union PairUnits \union FunUnits \union {[u EXCEPT !.inline = {"f"}] : u \in {v \in FunUnits : v.callbacks = 0}} \union TypeUnits \union TagUnits

------------------------------------------------------------------------------
(* The machines side by side.                                                  *)
BindingsRest ==
    /\ job = "none" /\ phase = [at |-> "done", next |-> 0] /\ pending = <<>> /\ collected = "none"
    /\ chosen = <<>> /\ traits = <<>> /\ output = <<>> /\ outcome = "done"

PipelineInit ==
    /\ part \in {"format", "bindings", "config", "command", "selection"}
    /\ Init /\ ConfigInit /\ RunInit /\ SelectionInit
    /\ IF part = "bindings" THEN BindingsInit ELSE BindingsRest

PipelineNext ==
    \/ part = "format" /\ Next /\ UNCHANGED <<part, bindingVars, configVars, runVars, selectionVars>>
    \/ part = "bindings" /\ BindingsNext /\ UNCHANGED <<part, vars, configVars, runVars, selectionVars>>
    \/ part = "config" /\ ConfigNext /\ UNCHANGED <<part, vars, bindingVars, runVars, selectionVars>>
    \/ part = "command" /\ RunNext /\ UNCHANGED <<part, vars, bindingVars, configVars, selectionVars>>
    \/ part = "selection" /\ SelectionNext /\ UNCHANGED <<part, vars, bindingVars, configVars, runVars>>
    \* these end; a formatter that stops before format returns is a deadlock
    \/ part # "format" /\ UNCHANGED pipelineParts

\* Threads and the child process run when they can; the other stages are loops of one thread.
PipelineFairness ==
    /\ WF_vars(part = "format" /\ Main) /\ WF_vars(part = "format" /\ Writer) /\ WF_vars(part = "format" /\ Child)
    /\ WF_bindingVars(part = "bindings" /\ BindingsNext)
    /\ WF_runVars(part = "command" /\ RunStep)

PipelineSpec == PipelineInit /\ [][PipelineNext]_pipelineParts /\ PipelineFairness

------------------------------------------------------------------------------
\* Every stage with a loop or a thread ends: format whatever the child does, the emission of bindings on cyclic type
\* graphs, and a command whose sessions nest, fail, panic or cannot start.
EveryCallReturns ==
    /\ part = "format" => FormatReturns
    /\ part = "bindings" => BindingsReturn
    /\ part = "command" => CommandReturns

\* toucan_bindings: the types collected are those reachable from what is selected, each at the strongest use any path
\* makes of it, caller-owned types are those reached and every blocked enumeration, names are defined once, and derived traits hold of every type reached through them.
BindingsExact == part = "bindings" => CollectionExact /\ OutputWellFormed /\ DerivesSound
==============================================================================
