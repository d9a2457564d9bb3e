--------------------------- MODULE FunctionTargets ---------------------------
(* Per-function options (toucan_semantic/target_features.rs): target and       *)
(* inlining attributes gathered over a function's declarations, and the        *)
(* features an evaluated call needs of its caller, kept pending until the end  *)
(* of the unit and dropped again with a branch that is never taken (arm.rs,    *)
(* statement.rs).                                                              *)
(* A program is a sequence of items: declarations, definitions opening a body, *)
(* and inside a body blocks, branches, labels, calls and intrinsics.           *)
EXTENDS Integers, Sequences, FiniteSets, SequencesExt

CONSTANTS TargetPrograms   \* sequence of sets of [compiler, i686, items]
VARIABLES unitOf, itemAt, options, lexicalOptions, declaredAs, blockExterns, caller, uses, branches, labelCount, outcome
targetVars == <<unitOf, itemAt, options, lexicalOptions, declaredAs, blockExterns, caller, uses, branches, labelCount, outcome>>

Clang == unitOf.compiler = "clang"
Baseline == IF unitOf.i686 THEN {} ELSE {"mmx", "sse"}
NoTarget == [spelling |-> <<>>, features |-> {}, given |-> FALSE]
NoOptions == [target |-> NoTarget, always |-> FALSE, never |-> FALSE]

-----------------------------------------------------------------------------
(* A target attribute: the options in written order.                           *)
Without(word) == CASE word = "no-mmx" -> "mmx" [] word = "no-bmi" -> "bmi" [] OTHER -> ""
target_step(acc, word) ==
    [done |-> Append(acc.done, word),
     features |-> CASE word \in {"mmx", "bmi"} -> acc.features \union {word}
                    [] word \in {"no-mmx", "no-bmi"} -> acc.features \ {Without(word)}
                    [] word = "sse" -> acc.features \union {"sse"} \union (IF "no-mmx" \in {acc.done[i] : i \in DOMAIN acc.done} THEN {} ELSE {"mmx"})
                    [] OTHER -> acc.features]
target_attribute(words) ==
    [spelling |-> words, given |-> TRUE, features |-> FoldLeft(target_step, [done |-> <<>>, features |-> Baseline], words).features]
Unsupported(words) == ~ Clang /\ "no-evex512" \in {words[i] : i \in DOMAIN words}
ignored_empty(words) == words = <<>>
Positive(words) == \A i \in DOMAIN words : words[i] \notin {"no-mmx", "no-bmi", "no-evex512"}
same_identity(a, b) ==
    \/ a.spelling = b.spelling
    \/ ~ Clang /\ Positive(a.spelling) /\ Positive(b.spelling)
       /\ {a.spelling[i] : i \in DOMAIN a.spelling} = {b.spelling[i] : i \in DOMAIN b.spelling}
x86_features(o) == IF o.target.given THEN o.target.features ELSE Baseline

Failed == [failed |-> TRUE]
Written(d) == SelectSeq(d.targets, LAMBDA w : ~ ignored_empty(w))
ChosenTarget(d) == LET w == Written(d) IN IF Clang THEN w[1] ELSE w[Len(w)]
ApplyTarget(o, d, defined) ==
    LET chosen == target_attribute(ChosenTarget(d))
    IN IF Written(d) = <<>> \/ (defined /\ Clang) THEN [failed |-> FALSE, target |-> o.target]
       ELSE IF \/ \E i \in DOMAIN Written(d) : Unsupported(Written(d)[i])
               \/ o.target.given /\ ~ same_identity(o.target, chosen)
               \/ defined /\ ~ o.target.given THEN Failed
       ELSE [failed |-> FALSE, target |-> chosen]
\* GNU keeps the first of two conflicting annotations, Clang both; after a definition Clang takes none.
InlineOf(o, d, defined) ==
    IF Clang THEN [always |-> o.always \/ (~ defined /\ "always" \in ToSet(d.inline)), never |-> o.never \/ (~ defined /\ "never" \in ToSet(d.inline))]
    ELSE IF o.always \/ o.never \/ d.inline = <<>> THEN [always |-> o.always, never |-> o.never]
    ELSE [always |-> d.inline[1] = "always", never |-> d.inline[1] = "never"]
merge_function_options(o, d, defined) ==
    LET t == ApplyTarget(o, d, defined)
        i == InlineOf(o, d, defined)
    IN IF t.failed THEN Failed ELSE [failed |-> FALSE, options |-> [target |-> t.target, always |-> i.always, never |-> i.never]]

-----------------------------------------------------------------------------
Item == unitOf.items[itemAt]
Running(kind) == outcome = "" /\ itemAt \in DOMAIN unitOf.items /\ Item.k = kind
Depth == Len(lexicalOptions)
\* The innermost block that redeclares the function, in Clang, else the entity's own options.
visible_function_options(name) ==
    LET in == {d \in 1..Depth : Clang /\ name \in DOMAIN lexicalOptions[d]}
    IN IF in # {} THEN lexicalOptions[CHOOSE d \in in : \A e \in in : e <= d][name]
       ELSE IF name \in DOMAIN options THEN options[name] ELSE NoOptions
Put(map, name, value) == [n \in DOMAIN map \union {name} |-> IF n = name THEN value ELSE map[n]]
Defined(name) == name \in DOMAIN declaredAs /\ declaredAs[name] = "definition"
FirstLinked(name) == name \notin DOMAIN declaredAs /\ name \notin blockExterns
AlwaysShared(name) == TRUE
StaysInBlock(name) == Clang /\ Depth > 0 /\ ~ FirstLinked(name)
OnEntity(name) == ~ StaysInBlock(name)

\* check_function_options and its two callers: the file's declarations and definitions, and a block's.
check_function_options(d) ==
    LET merged == merge_function_options(visible_function_options(d.name), d, Defined(d.name))
        plain == d.targets = <<>> /\ d.inline = <<>>
        now == IF plain THEN visible_function_options(d.name) ELSE merged.options
    IN IF ~ plain /\ merged.failed THEN outcome' = "invalid" /\ UNCHANGED <<options, lexicalOptions>>
       ELSE /\ UNCHANGED outcome
            /\ IF now = NoOptions THEN UNCHANGED <<options, lexicalOptions>>
               ELSE IF OnEntity(d.name) THEN options' = Put(options, d.name, now) /\ UNCHANGED lexicalOptions
               ELSE lexicalOptions' = [lexicalOptions EXCEPT ![Depth] = Put(@, d.name, now)] /\ UNCHANGED options

TargetsInit ==
    /\ unitOf = [compiler |-> "none", i686 |-> FALSE, items |-> <<>>] /\ itemAt = 1 /\ options = << >> /\ lexicalOptions = <<>> /\ declaredAs = << >>
    /\ blockExterns = {} /\ caller = {} /\ uses = <<>> /\ branches = <<>> /\ labelCount = 0 /\ outcome = "idle"
StartUnit ==
    /\ outcome = "idle" /\ outcome' = ""
    /\ \E family \in DOMAIN TargetPrograms : \E p \in TargetPrograms[family] : unitOf' = p
    /\ UNCHANGED <<itemAt, options, lexicalOptions, declaredAs, blockExterns, caller, uses, branches, labelCount>>
Advance == itemAt' = itemAt + 1 /\ UNCHANGED unitOf
declaration ==
    /\ Running("declare") /\ Advance /\ check_function_options(Item)
    /\ IF Depth = 0
       THEN /\ declaredAs' = IF Defined(Item.name) THEN declaredAs ELSE Put(declaredAs, Item.name, "declaration")
            /\ UNCHANGED blockExterns
       ELSE blockExterns' = blockExterns \union {Item.name} /\ UNCHANGED declaredAs
    /\ UNCHANGED <<caller, uses, branches, labelCount>>
\* A body is checked with the options its function has by then.
function_definition ==
    /\ Running("define") /\ Depth = 0
    /\ LET merged == merge_function_options(visible_function_options(Item.name), Item, Defined(Item.name))
       IN IF merged.failed \/ Defined(Item.name)
          THEN outcome' = "invalid" /\ UNCHANGED <<options, lexicalOptions, declaredAs, caller, itemAt>>
          ELSE /\ outcome' = "" /\ itemAt' = itemAt + 1
               /\ options' = IF merged.options = NoOptions THEN options ELSE Put(options, Item.name, merged.options)
               /\ lexicalOptions' = << << >> >>
               /\ declaredAs' = Put(declaredAs, Item.name, "definition")
               /\ caller' = x86_features(merged.options)
    /\ UNCHANGED <<unitOf, blockExterns, uses, branches, labelCount>>
enter_block ==
    /\ Running("open") /\ Advance /\ lexicalOptions' = Append(lexicalOptions, << >>)
    /\ UNCHANGED <<options, declaredAs, blockExterns, caller, uses, branches, labelCount, outcome>>
leave_block ==
    /\ Running("close") /\ Advance /\ lexicalOptions' = SubSeq(lexicalOptions, 1, Depth - 1)
    /\ UNCHANGED <<options, declaredAs, blockExterns, caller, uses, branches, labelCount, outcome>>
label ==
    /\ Running("label") /\ Advance /\ labelCount' = labelCount + 1
    /\ UNCHANGED <<options, lexicalOptions, declaredAs, blockExterns, caller, uses, branches, outcome>>

-----------------------------------------------------------------------------
(* Features an evaluated expression needs.                                     *)
Lacks(o) == o.always /\ ~ (x86_features(o) \subseteq caller)
LateNames == {unitOf.items[i].name : i \in {j \in DOMAIN unitOf.items : unitOf.items[j].k \in {"declare", "define"} /\ Written(unitOf.items[j]) # <<>>}}
MayLack(name) == "mmx" \notin caller \/ Lacks(visible_function_options(name)) \/ name \in LateNames
NowOnly(name) == Lacks(visible_function_options(name))
PendingUse(name) == IF Clang THEN NowOnly(name) ELSE MayLack(name)
require_inline_features ==
    /\ Running("call") /\ Advance
    /\ uses' = IF ~ Item.unevaluated /\ PendingUse(Item.name)
               THEN Append(uses, [k |-> "inline", name |-> Item.name, declarationTime |-> Clang, caller |-> caller]) ELSE uses
    /\ UNCHANGED <<options, lexicalOptions, declaredAs, blockExterns, caller, branches, labelCount, outcome>>
require_x86_features ==
    /\ Running("intrinsic") /\ Advance
    /\ uses' = IF Clang /\ ~ Item.unevaluated /\ Item.needs \notin caller THEN Append(uses, [k |-> "intrinsic", name |-> "", declarationTime |-> TRUE, caller |-> caller]) ELSE uses
    /\ UNCHANGED <<options, lexicalOptions, declaredAs, blockExterns, caller, branches, labelCount, outcome>>
\* A branch: the uses it added go if it has no label and its condition never takes it.
enter_branch ==
    /\ Running("if") /\ Advance
    /\ branches' = Append(branches, [uses |-> Len(uses), labels |-> labelCount, taken |-> Item.taken])
    /\ UNCHANGED <<options, lexicalOptions, declaredAs, blockExterns, caller, uses, labelCount, outcome>>
Branch == branches[Len(branches)]
KeptUses == IF Len(uses) > Branch.uses /\ labelCount = Branch.labels /\ Branch.taken = "never" THEN SubSeq(uses, 1, Branch.uses) ELSE uses
KeptDespiteLabels == IF Branch.taken = "never" THEN SubSeq(uses, 1, Branch.uses) ELSE uses
discard_feature_uses == KeptUses
leave_branch ==
    /\ Running("endif") /\ Advance /\ branches' = SubSeq(branches, 1, Len(branches) - 1) /\ uses' = discard_feature_uses
    /\ UNCHANGED <<options, lexicalOptions, declaredAs, blockExterns, caller, labelCount, outcome>>
\* validate_sve_features at the end: what Clang recorded stands, GNU looks at the callee's final options.
Stands(u) ==
    \/ u.declarationTime
    \/ u.name \in DOMAIN options /\ options[u.name].always /\ ~ (x86_features(options[u.name]) \subseteq u.caller)
validate_features ==
    /\ outcome = "" /\ itemAt > Len(unitOf.items)
    /\ outcome' = IF \E i \in DOMAIN uses : Stands(uses[i]) THEN "rejected" ELSE "accepted"
    /\ UNCHANGED <<unitOf, itemAt, options, lexicalOptions, declaredAs, blockExterns, caller, uses, branches, labelCount>>

TargetsNext ==
    \/ StartUnit \/ declaration \/ function_definition \/ enter_block \/ leave_block \/ label
    \/ require_inline_features \/ require_x86_features \/ enter_branch \/ leave_branch \/ validate_features
TargetsSpec == TargetsInit /\ [][TargetsNext]_targetVars

-----------------------------------------------------------------------------
(* The reference reads the whole program.                                      *)
I == unitOf.items
Heads == {i \in DOMAIN I : I[i].k \in {"declare", "define"}}
Opens(i) == Cardinality({j \in 1..i : I[j].k \in {"open", "define"}}) - Cardinality({j \in 1..i : I[j].k = "close"})
\* A declaration inside a block ends with it.
EndsBefore(i, at) == \E j \in i..at : I[j].k = "close" /\ Opens(j) < Opens(i)
FirstOf(name) == LET all == {i \in Heads : I[i].name = name} IN CHOOSE i \in all : \A j \in all : i <= j
Known(name, at) ==
    {i \in Heads : /\ I[i].name = name
                   /\ IF Clang THEN i <= at /\ (I[i].k = "define" \/ Opens(i) = 0 \/ i = FirstOf(name) \/ ~ EndsBefore(i, at)) ELSE TRUE}
BeforeBody(name, set) == {i \in set : ~ \E j \in Heads : I[j].name = name /\ I[j].k = "define" /\ j < i}
Counted(name, at) == IF Clang THEN BeforeBody(name, Known(name, at)) ELSE Known(name, at)
TargetGiven(name, at) == {i \in Counted(name, at) : Written(I[i]) # <<>>}
FeaturesAfter(words, from) ==
    LET last(w) == LET at == {i \in DOMAIN words : words[i] = w} IN IF at = {} THEN 0 ELSE CHOOSE i \in at : \A j \in at : j <= i
        mmxBySse == \E i \in DOMAIN words : words[i] = "sse" /\ ~ \E j \in 1..(i - 1) : words[j] = "no-mmx"
    IN {f \in {"mmx", "sse", "bmi"} :
            CASE f = "sse" -> last("sse") > 0 \/ f \in from
              [] f = "bmi" -> last("bmi") > last("no-bmi")
              [] f = "mmx" -> IF last("no-mmx") > 0 THEN last("mmx") > last("no-mmx") ELSE last("mmx") > 0 \/ mmxBySse \/ f \in from}
Needs(name, at) ==
    LET given == TargetGiven(name, at)
    IN IF given = {} THEN Baseline
       ELSE LET d == I[CHOOSE i \in given : TRUE] IN FeaturesAfter(IF Clang THEN Written(d)[1] ELSE Written(d)[Len(Written(d))], Baseline)
MustInline(name, at) ==
    LET annotated == {i \in Counted(name, at) : I[i].inline # <<>>}
    IN IF Clang THEN \E i \in annotated : "always" \in ToSet(I[i].inline)
       ELSE annotated # {} /\ I[CHOOSE i \in annotated : \A j \in annotated : i <= j].inline[1] = "always"
CallerAt(at) == LET d == {i \in 1..at : I[i].k = "define"} IN I[CHOOSE i \in d : \A j \in d : j <= i].name
CallerDefined(at) == LET d == {i \in 1..at : I[i].k = "define"} IN CHOOSE i \in d : \A j \in d : j <= i
\* A branch never taken is dead unless a label leads into it.
ClosedBy(i) == CHOOSE j \in DOMAIN I : j > i /\ I[j].k = "endif" /\ Cardinality({k \in i..j : I[k].k = "if"}) = Cardinality({k \in i..j : I[k].k = "endif"})
                  /\ \A m \in i..(j - 1) : Cardinality({k \in i..m : I[k].k = "if"}) > Cardinality({k \in i..m : I[k].k = "endif"})
Dead(at) ==
    \E i \in 1..at : /\ I[i].k = "if" /\ I[i].taken = "never" /\ ClosedBy(i) > at
                     /\ ~ \E j \in i..ClosedBy(i) : I[j].k = "label"
CallerHas(at) == Needs(CallerAt(at), CallerDefined(at))
Bad(at) ==
    /\ ~ I[at].unevaluated /\ ~ Dead(at)
    /\ \/ I[at].k = "call" /\ MustInline(I[at].name, at) /\ ~ (Needs(I[at].name, at) \subseteq CallerHas(at))
       \/ I[at].k = "intrinsic" /\ Clang /\ I[at].needs \notin CallerHas(at)

\* A unit is refused for missing features exactly when a call that can run reaches a function that must be inlined
\* and needs more than its caller has, or an intrinsic the caller lacks: with the options in force at the call for
\* Clang, where a block's redeclaration ends with the block, and with all declarations, also later ones, for GNU
\* (check_function_options, require_inline_features, validate_sve_features).
FeatureChecksExact ==
    outcome \in {"accepted", "rejected"} =>
        ((outcome = "rejected") <=> \E at \in DOMAIN I : I[at].k \in {"call", "intrinsic"} /\ Bad(at))
=============================================================================
