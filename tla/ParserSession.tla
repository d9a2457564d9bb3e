--------------------------- MODULE ParserSession ---------------------------
(***************************************************************************)
(* One parse of toucan_parser (parser/*.rs with env.rs and limits.rs): the *)
(* recursive descent as a stack of rule activations, the lexical scopes of *)
(* Env with the typedef names that steer the grammar, the parameter scopes *)
(* kept while a function definition may follow, and the budget.            *)
(*                                                                         *)
(* A token is one byte wide.  The grammar is that of declarations,         *)
(* declarators, parameters, tags, blocks and control statements with one   *)
(* token of each kind the parser tells apart; "attr" is a whole attribute, *)
(* "0" an operand without declarations, "+" and "*" the operators.         *)
(***************************************************************************)
EXTENDS Integers, Sequences, FiniteSets

-----------------------------------------------------------------------------
(* The resource accounting of one invocation (Budget in limits.rs), as     *)
(* operators on a budget record.  check, work and step report success      *)
(* through the returned record: they succeeded exactly when no failure is  *)
(* recorded in it.  charged is what was asked of work so far, kept to      *)
(* compare the u64 counter with.                                           *)

CONSTANTS Limits,    \* ParseLimits a caller may pass
          WordMax,   \* u64::MAX
          None

ASSUME BudgetAssumption ==
    /\ WordMax \in Nat
    /\ Limits \subseteq [max_work : 0 .. WordMax, max_backtracking_steps : Nat,
                         max_rule_depth : Nat]

Failures == [kind : {"Work", "BacktrackingSteps", "RuleDepth", "AstDepth",
                     "CacheBytes", "MetadataEntries"},
             offset : Nat]

Budgets == [limits : Limits, work : 0 .. WordMax, charged : Nat,
            furthest : Nat, back : Nat, depth : Nat, failure : Failures \cup {None}]

ASSUME NoneAssumption == None \notin Failures

NewBudget(limits) ==
    [limits |-> limits, work |-> 0, charged |-> 0, furthest |-> 0, back |-> 0,
     depth |-> 0, failure |-> None]

Larger(m, n) == IF m >= n THEN m ELSE n

FailedAt(b, kind, offset) == [b EXCEPT !.failure = [kind |-> kind, offset |-> offset]]

check(b, kind, offset, observed, limit) ==
    IF b.failure # None \/ observed <= limit THEN b ELSE FailedAt(b, kind, offset)

work(b, offset, amount) ==
    IF b.failure # None
    THEN b
    ELSE LET total == b.work + amount
             new == [b EXCEPT !.work = IF total > WordMax THEN WordMax ELSE total,
                              !.charged = @ + amount]
         IN  IF total > WordMax
             THEN FailedAt(new, "Work", offset)
             ELSE check(new, "Work", offset, new.work, b.limits.max_work)

step(b, offset) ==
    LET charged == work(b, offset, 1)
        steps == IF offset > b.furthest THEN 1 ELSE b.back + 1
    IN  IF charged.failure # None
        THEN charged
        ELSE check([charged EXCEPT !.furthest = Larger(@, offset), !.back = steps],
                   "BacktrackingSteps", offset, steps, b.limits.max_backtracking_steps)

enter(b, offset) ==
    LET stepped == check(step(b, offset), "RuleDepth", offset, b.depth + 1, b.limits.max_rule_depth)
    IN  IF stepped.failure # None THEN stepped ELSE [stepped EXCEPT !.depth = @ + 1]

\* end is None when the rule failed; its result is not looked at by nested.
leave(b, offset, end) ==
    LET left == [b EXCEPT !.depth = @ - 1]
    IN  IF end = None THEN left ELSE work(left, offset, Larger(end - offset, 0))

-----------------------------------------------------------------------------
(* Tokens, scopes and jobs. *)

CONSTANTS Names,     \* identifiers
          Jobs,      \* [tokens, limits]: sources and the limits they are parsed with
          TokenCost, \* size_of::<Token>(), charged per token
          NodeCosts  \* what building nodes may charge: their sizes and visits

Semi == ";"
Comma == ","
LBrace == "{"
RBrace == "}"
Keywords == {"int", "struct", "enum", "typedef", "auto", "if", "else", "for", "attr"}
Tokens == Names \cup Keywords \cup
          {"0", "*", "+", "=", "(", ")", "[", "]", LBrace, RBrace, Comma, Semi, ":", "...", "end"}

ASSUME SessionAssumption ==
    /\ \A job \in Jobs : job.tokens \in Seq(Tokens) /\ job.limits \in Limits
    /\ TokenCost \in Nat /\ NodeCosts \subseteq Nat
    /\ None \notin Names /\ None \notin Nat

Scopes == [Names -> {"Typename", "Identifier", "absent"}]
EmptyScope == [n \in Names |-> "absent"]

\* A parameter list's scope with where the list starts, and what a declarator says of
\* the function it declares: where its suffix starts, and whether it lists identifiers.
SavedScopes == [start : Nat, scope : Scopes]
DeclaredFunctions == [kr : BOOLEAN, start : Nat]

\* None is no value it stands beside.
ASSUME OptionAssumption == None \notin Seq(SavedScopes) \cup DeclaredFunctions

VARIABLES status,   \* "new", "run", "error" (an Err is propagating), "ok", "failed", "rejected"
          source,   \* the tokens of the source to parse
          lexed,    \* how many of them the token buffer holds
          cursor,   \* tokens consumed
          stack,    \* rule activations, outermost first
          symbols,  \* env.symbols
          definition_scopes,
          budget,
          defined   \* history: the suffix that makes the name under declaration a
                    \* function, and the scope of its parameter list

envVars == <<symbols, definition_scopes, defined>>
inputVars == <<status, source, lexed>>
vars == <<inputVars, cursor, stack, envVars, budget>>

Top == stack[Len(stack)]
At(rules, point) == status = "run" /\ Top.rule \in rules /\ Top.at = point

\* peek: past the buffer there is only the end.
Peek(distance) == IF cursor + distance < lexed THEN source[cursor + distance + 1] ELSE "end"
Tok == Peek(0)

-----------------------------------------------------------------------------
(* Env                                                                     *)

\* The innermost scope that knows the name decides.
is_typename(name) ==
    \E i \in DOMAIN symbols :
        /\ symbols[i][name] = "Typename"
        /\ \A j \in i + 1 .. Len(symbols) : symbols[j][name] = "absent"

add_symbol(syms, name, symbol) ==
    IF name = None THEN syms ELSE [syms EXCEPT ![Len(syms)][name] = symbol]

PopScope(syms) == SubSeq(syms, 1, Len(syms) - 1)

NoFunction == [by |-> "none", scope |-> EmptyScope]

\* Whether only declarators lie between the external declaration and activation n:
\* a suffix read there is applied to the name being declared.
InHead(n) == definition_scopes # None /\ \A i \in 3 .. n : stack[i].rule = "declarator"

Applied(n, by, scope) ==
    IF InHead(n) /\ defined = NoFunction THEN [by |-> by, scope |-> scope] ELSE defined

-----------------------------------------------------------------------------
(* Activations                                                             *)

\* kind: how the activation is closed - "nested" by budget.leave, "scope" by
\* leave_scope, "function" by leave_function_scope, "plain" and "root" by nothing.
\* depth and scopes are what the activation found.
Activation(rule, at, kind, mode) ==
    [rule |-> rule, at |-> at, kind |-> kind, mode |-> mode, start |-> cursor, ahead |-> 0,
     name |-> None, fun |-> None, flags |-> {},
     depth |-> budget.depth, scopes |-> Len(symbols)]

SetTop(f) == [stack EXCEPT ![Len(stack)] = f]
Goto(point) == SetTop([Top EXCEPT !.at = point])
Err == status' = "error" /\ UNCHANGED <<source, lexed, cursor, stack, envVars>>

\* bump: one step of the budget, then the token, then what follows.
Bump(andThen) ==
    /\ budget' = step(budget, cursor)
    /\ IF budget'.failure = None /\ cursor < lexed
       THEN cursor' = cursor + 1 /\ andThen /\ UNCHANGED inputVars
       ELSE Err

\* Building a node charges its size and its measurement, which may exceed the
\* depth and metadata limits of the AST too.
NodeOutcomes(b, offset) ==
    IF b.failure # None
    THEN {b}
    ELSE {work(b, offset, cost) : cost \in NodeCosts}
         \cup {FailedAt(b, kind, offset) : kind \in {"AstDepth", "MetadataEntries"}}

Node(andThen) ==
    /\ budget' \in NodeOutcomes(budget, Top.start)
    /\ IF budget'.failure = None
       THEN andThen /\ UNCHANGED <<inputVars, cursor>>
       ELSE Err

\* nested: enter, or fail without calling the rule; the caller's frame becomes `resumed'.
CallFrom(resumed, rule, at, mode) ==
    /\ budget' = enter(budget, cursor)
    /\ IF budget'.failure = None
       THEN /\ stack' = Append(SetTop(resumed), Activation(rule, at, "nested", mode))
            /\ UNCHANGED <<inputVars, cursor, envVars>>
       ELSE Err

Call(rule, at, mode, resume) == CallFrom([Top EXCEPT !.at = resume], rule, at, mode)

\* scoped and function_declarator_suffix open a scope; a plain call does not.
CallIn(kind, rule, at, mode, resume) ==
    /\ stack' = Append(Goto(resume), Activation(rule, at, kind, mode))
    /\ symbols' = IF kind = "plain" THEN symbols ELSE Append(symbols, EmptyScope)
    /\ UNCHANGED <<inputVars, cursor, budget, definition_scopes, defined>>

\* A step of the rule that reads no token.
Move(f) == stack' = SetTop(f) /\ UNCHANGED <<inputVars, cursor, envVars, budget>>

-----------------------------------------------------------------------------
(* Starting a parse                                                        *)

Init == /\ status = "new" /\ lexed = 0 /\ cursor = 0
        /\ stack = <<>> /\ symbols = <<EmptyScope>>
        /\ definition_scopes = None /\ defined = NoFunction
        /\ \E job \in Jobs : source = job.tokens /\ budget = NewBudget(job.limits)

\* parse_with: limits above the ceilings, too long an input, or no worker thread.
Reject == /\ status = "new"
          /\ status' = "rejected"
          /\ UNCHANGED <<source, lexed, cursor, stack, envVars, budget>>

\* lex: the scan of n bytes is charged first, then each token before it is kept;
\* a failed charge, or a buffer that may not grow, ends the buffer early.
LexOutcomes(n) ==
    LET scanned == work(budget, 0, n)
        charged(k, offset) == work(scanned, offset, k * TokenCost)
        short == 0 .. n - 1
    IN  IF scanned.failure # None
        THEN {[kept |-> 0, budget |-> scanned]}
        ELSE {[kept |-> k, budget |-> charged(k + 1, k)] :
                k \in {j \in short : /\ charged(j, j).failure = None
                                     /\ charged(j + 1, j).failure # None}}
             \cup {[kept |-> k, budget |-> FailedAt(charged(k + 1, k), "CacheBytes", k)] :
                     k \in {j \in short : charged(j + 1, j).failure = None}}
             \cup {o \in {[kept |-> n, budget |-> charged(n, n)]} : o.budget.failure = None}

\* translation_unit_with_limits: a fresh environment and the lexed tokens.
StartUnit ==
    /\ status = "new" /\ status' = "run"
    /\ \E outcome \in LexOutcomes(Len(source)) :
         lexed' = outcome.kept /\ budget' = outcome.budget
    /\ stack' = <<Activation("unit", "loop", "root", "none")>>
    /\ UNCHANGED <<source, cursor, envVars>>

\* expression_with_limits: every identifier of the buffer is charged (its byte and
\* one more) and entered as a typedef where the caller says so; then expression.
StartExpression ==
    /\ status = "new"
    /\ \E outcome \in LexOutcomes(Len(source)) :
         LET identifiers == {i \in 1 .. outcome.kept : source[i] \in Names \cup Keywords}
         IN  /\ lexed' = outcome.kept
             /\ budget' = work(outcome.budget, 0, 2 * Cardinality(identifiers))
             /\ status' = IF identifiers # {} /\ budget'.failure # None THEN "error" ELSE "run"
             /\ \E typedefs \in SUBSET (Names \cap {source[i] : i \in identifiers}) :
                  symbols' = <<[m \in Names |-> IF m \in typedefs THEN "Typename" ELSE "absent"]>>
    /\ stack' = <<Activation("expression", "operand", "root", "expression")>>
    /\ UNCHANGED <<source, cursor, definition_scopes, defined>>

-----------------------------------------------------------------------------
(* Token tests                                                             *)

TypeStart(distance) ==
    \/ Peek(distance) \in {"int", "struct", "enum", "auto"}
    \/ Peek(distance) \in Names /\ is_typename(Peek(distance))

starts_type_name == TypeStart(0) \/ Tok = "attr"
starts_declaration == TypeStart(0) \/ Tok \in {"typedef", "attr"}

Unique == Tok # "int"

\* A type specifier may follow the types seen so far.
TypeFollows ==
    /\ TypeStart(0)
    /\ "arith" \in Top.flags => ~Unique
    /\ "unique" \notin Top.flags

Declarations == {"external", "declaration"}
Specified == Declarations \cup {"params", "member", "typename"}

TypedefFollows == /\ Tok = "typedef" /\ Top.rule \in Declarations
                  /\ Top.flags \cap {"typedef", "auto"} = {}

\* A parenthesis in a parameter or type name opens a declarator, not parameters.
parenthesized_declarator ==
    LET next == Peek(1)
    IN  \/ next \in {"*", "(", "[", "attr"}
        \/ next \in Names /\ Top.mode # "Abstract" /\ ~is_typename(next)

starts_cast_operand == Peek(2) \in Names \cup {"0", "(", "*", "+"}

\* (T) is a group around a name when no operand follows it.
grouped_typedef ==
    /\ Tok \in Names /\ is_typename(Tok)
    /\ Peek(1) = ")" /\ Peek(2) # LBrace /\ ~starts_cast_operand

AbstractStart == {"*", "(", "["}

-----------------------------------------------------------------------------
(* Grammar without side effects: [rule, point, token, next point]          *)

DeclarationShifts ==
    {<<r, "specifiers", "attr", "specifiers">> : r \in Specified}
    \cup {<<r, "head", Semi, "complete">> : r \in Declarations}
    \cup {<<r, "suffix", "attr", "suffix">> : r \in Declarations}
    \cup {<<r, "next", Comma, "comma">> : r \in Declarations \cup {"params", "member"}}
    \cup {<<r, "next", Semi, "complete">> : r \in Declarations \cup {"member"}}
    \cup {<<r, "complete", Semi, "complete">> : r \in {"external", "member"}}
    \cup {<<"member", "head", Semi, "complete">>, <<"member", "field", "attr", "field">>,
          <<"params", "attributes", "attr", "attributes">>,
          <<"params", "comma", "...", "list">>}

TagShifts ==
    {<<"type", "type", "int", "built">>, <<"type", "type", "auto", "built">>,
     <<"type", "type", "struct", "struct">>, <<"type", "type", "enum", "enum">>,
     <<"type", "struct", LBrace, "members">>, <<"type", "struct_name", LBrace, "members">>,
     <<"type", "members", RBrace, "built">>,
     <<"type", "enum", LBrace, "enumerator">>, <<"type", "enum_name", LBrace, "enumerator">>,
     <<"type", "value", "=", "expression">>,
     <<"type", "enumerators", Comma, "more">>, <<"type", "enumerators", RBrace, "built">>,
     <<"type", "more", RBrace, "built">>}
    \cup {<<"type", "struct", n, "struct_name">> : n \in Names}
    \cup {<<"type", "enum", n, "enum_name">> : n \in Names}

DeclaratorShifts ==
    {<<"declarator", "prefix", "attr", "prefix">>, <<"declarator", "close", ")", "suffix">>,
     <<"declarator", "bound", "]", "suffix">>, <<"declarator", "bracket", "]", "suffix">>,
     <<"declarator", "identifiers", Comma, "identifier">>}
    \cup {<<"declarator", "identifier", n, "identifiers">> : n \in Names}

StatementShifts ==
    {<<"body", "attributes", "attr", "attributes">>, <<"body", "attributes", LBrace, "items">>,
     <<"body", "declarations", LBrace, "items">>,
     <<"block", "open", LBrace, "items">>, <<"block", "items", RBrace, "built">>,
     <<"body", "items", RBrace, "built">>,
     <<"statement", "statement", "attr", "semicolon">>, <<"statement", "statement", Semi, "built">>,
     <<"statement", "semicolon", Semi, "built">>, <<"statement", "colon", ":", "labeled">>,
     <<"control", "keyword", "if", "if">>, <<"control", "keyword", "for", "for">>,
     <<"control", "if", "(", "condition">>, <<"control", "tested", ")", "then">>,
     <<"control", "else", "else", "otherwise">>,
     <<"control", "for", "(", "init">>, <<"control", "init", Semi, "test">>,
     <<"control", "init_end", Semi, "test">>, <<"control", "test", Semi, "step">>,
     <<"control", "test_end", Semi, "step">>, <<"control", "step", ")", "loop">>,
     <<"control", "step_end", ")", "loop">>}

ExpressionShifts ==
    {<<"expression", "operand", t, "operator">> : t \in Names \cup {"0"}}
    \cup {<<"expression", "operand", t, "unary">> : t \in {"*", "+"}}
    \cup {<<"expression", "operand", "(", "group">>, <<"expression", "close", ")", "operator">>,
          <<"expression", "cast", ")", "cast_operand">>}

Shifts == DeclarationShifts \cup TagShifts \cup DeclaratorShifts \cup StatementShifts
          \cup ExpressionShifts

\* The token at hand is read, and the rule goes on.
Shift == /\ status = "run"
         /\ \E next \in {row[4] : row \in {r \in Shifts : <<r[1], r[2], r[3]>> =
                                                      <<Top.rule, Top.at, Tok>>}} :
                Bump(stack' = Goto(next) /\ UNCHANGED envVars)

\* Operators, by what the caller of the rule accepts: everything, no comma, the
\* right operand of + (only *), a cast operand (none).
Operator ==
    /\ At({"expression"}, "operator")
    /\ \/ Tok = "*" /\ Top.mode # "cast" /\ Bump(stack' = Goto("factor") /\ UNCHANGED envVars)
       \/ Tok = "+" /\ Top.mode \in {"expression", "assignment"}
          /\ Bump(stack' = Goto("term") /\ UNCHANGED envVars)
       \/ Tok = "=" /\ Top.mode \in {"expression", "assignment"}
          /\ Bump(stack' = Goto("value") /\ UNCHANGED envVars)
       \/ Tok = Comma /\ Top.mode = "expression"
          /\ Bump(stack' = Goto("operand") /\ UNCHANGED envVars)

OperatorFollows ==
    \/ Tok = "*" /\ Top.mode # "cast"
    \/ Tok \in {"+", "="} /\ Top.mode \in {"expression", "assignment"}
    \/ Tok = Comma /\ Top.mode = "expression"

\* Calls of nested rules that the token does not decide:
\* [rule, point, called rule, its first point, mode, resumption point].
NestedCalls ==
    {<<r, "comma", "declarator", "prefix", "Named", "suffix">> : r \in Declarations}
    \cup {<<r, "value", "expression", "operand", "assignment", "initialized">> : r \in Declarations}
    \cup {<<"external", "begun", "declarator", "prefix", "Named", "declared">>,
          <<"member", "comma", "declarator", "prefix", "Named", "field">>,
          <<"expression", "unary", "expression", "operand", "cast", "operator">>,
          <<"expression", "cast_operand", "expression", "operand", "cast", "operator">>,
          <<"expression", "factor", "expression", "operand", "cast", "operator">>,
          <<"expression", "term", "expression", "operand", "factor", "operator">>,
          <<"expression", "value", "expression", "operand", "assignment", "operator">>,
          <<"statement", "labeled", "statement", "statement", "none", "labeled_end">>,
          <<"substatement", "statement", "statement", "statement", "none", "done">>}

NestedCall == /\ status = "run"
              /\ \E row \in {r \in NestedCalls : r[1] = Top.rule /\ r[2] = Top.at} :
                     Call(row[3], row[4], row[5], row[6])

\* Calls that open a scope or none: [rule, point, kind, called rule, point, mode, resumption].
OtherCalls ==
    {<<"type", "expression", "plain", "expression", "operand", "assignment", "value_end">>,
     <<"stmtexpr", "open", "scope", "block", "open", "none", "done">>,
     <<"control", "condition", "plain", "expression", "operand", "expression", "tested">>,
     <<"control", "then", "scope", "substatement", "statement", "none", "else">>,
     <<"control", "otherwise", "scope", "substatement", "statement", "none", "built">>,
     <<"control", "loop", "scope", "substatement", "statement", "none", "built">>}

OtherCall == /\ status = "run"
             /\ \E row \in {r \in OtherCalls : r[1] = Top.rule /\ r[2] = Top.at} :
                    CallIn(row[3], row[4], row[5], row[6], row[7])

\* No token at hand keeps a node from being built.
Always == ""

\* Nodes built before the rule goes on: [rule, point, next point], unless `unless' is at hand.
Builds ==
    {<<r, "registered", Always, "next">> : r \in Declarations}
    \cup {<<"declaration", "complete", Always, "done">>, <<"external", "complete", Semi, "done">>,
          <<"member", "field", "attr", "next">>, <<"member", "complete", Semi, "done">>,
          <<"type", "built", Always, "done">>, <<"type", "struct_name", LBrace, "done">>,
          <<"type", "enum_name", LBrace, "done">>, <<"typename", "built", Always, "done">>,
          <<"params", "next", Comma, "done">>, <<"params", "list", Always, "done">>,
          <<"block", "item_end", Always, "progress">>, <<"body", "item_end", Always, "progress">>,
          <<"block", "built", Always, "done">>, <<"body", "built", Always, "done">>,
          <<"statement", "built", Always, "done">>, <<"statement", "labeled_end", Always, "done">>,
          <<"control", "else", "else", "done">>, <<"control", "built", Always, "done">>}

Build == /\ status = "run"
         /\ \E row \in {r \in Builds : r[1] = Top.rule /\ r[2] = Top.at /\ r[3] # Tok} :
                Node(stack' = Goto(row[4]) /\ UNCHANGED envVars)

-----------------------------------------------------------------------------
(* Specifiers, types and tags                                              *)

Typedef == /\ At(Specified, "specifiers") /\ TypedefFollows
           /\ Bump(/\ stack' = SetTop([Top EXCEPT !.flags = @ \cup {"typedef"}])
                   /\ UNCHANGED envVars)

\* __auto_type lets arithmetic specifiers follow, outside parameters and typedefs.
TypeSpecifier ==
    /\ At(Specified, "specifiers") /\ TypeFollows
    /\ LET auto == (Top.flags \cap {"auto"}) \cup (IF Tok = "auto" THEN {"auto"} ELSE {})
           class == IF ~Unique \/ (auto # {} /\ "typedef" \notin Top.flags
                                   /\ Top.rule \in Declarations)
                    THEN "arith" ELSE "unique"
       IN  CallFrom([Top EXCEPT !.flags = (@ \ {"arith", "unique"}) \cup auto \cup {class}],
                    "type", "type", "none")

\* The specifiers end before a token that is none; there must have been a type.
SpecifiersEnd ==
    /\ At(Specified, "specifiers") /\ ~TypeFollows /\ ~TypedefFollows /\ Tok # "attr"
    /\ Top.flags \cap {"arith", "unique"} # {}
    /\ Move([Top EXCEPT !.at = "head"])

\* The declared name: type_specifier checks the typedef again.
TypedefName == /\ At({"type"}, "type") /\ Tok \in Names /\ is_typename(Tok)
               /\ Bump(stack' = Goto("built") /\ UNCHANGED envVars)

Member == /\ At({"type"}, "members") /\ Tok # RBrace
          /\ CallIn("plain", "member", "specifiers", "none", "members")

Enumerator ==
    /\ \/ At({"type"}, "enumerator")
       \/ At({"type"}, "more")
    /\ Tok \in Names
    /\ Bump(/\ stack' = SetTop([Top EXCEPT !.at = "value", !.name = Tok])
            /\ UNCHANGED envVars)

\* An enumerator is an ordinary identifier of the current scope after its value.
EnumeratorDone ==
    /\ \/ At({"type"}, "value") /\ Tok # "="
       \/ At({"type"}, "value_end")
    /\ Node(/\ stack' = SetTop([Top EXCEPT !.at = "enumerators", !.name = None])
            /\ symbols' = add_symbol(symbols, Top.name, "Identifier")
            /\ UNCHANGED <<definition_scopes, defined>>)

TypeName == \/ /\ At({"typename"}, "head") /\ Tok \in AbstractStart
               /\ Call("declarator", "prefix", "Abstract", "built")
            \/ /\ At({"typename"}, "head") /\ Tok \notin AbstractStart
               /\ Move([Top EXCEPT !.at = "built"])

-----------------------------------------------------------------------------
(* External and block declarations                                         *)

\* translation_unit: the next external declaration, unless the buffer is at its end.
External == /\ At({"unit"}, "loop") /\ Tok # "end"
            /\ CallFrom([Top EXCEPT !.at = "progress", !.start = cursor],
                        "external", "specifiers", "none")

\* progress: one step, and a repetition must have consumed a token.
Progress ==
    /\ At({"unit", "block", "body"}, "progress")
    /\ budget' = step(budget, cursor)
    /\ IF budget'.failure = None /\ cursor # Top.start
       THEN /\ stack' = Goto(IF Top.rule = "unit" THEN "loop" ELSE "items")
            /\ UNCHANGED <<inputVars, cursor, envVars>>
       ELSE Err

\* A stray semicolon is no declaration.
StraySemicolon ==
    /\ At({"external"}, "specifiers") /\ Tok = Semi /\ cursor = Top.start
    /\ Bump(stack' = Goto("done") /\ UNCHANGED envVars)

\* The first declarator of an external declaration may be a function definition's.
begin_function_definition ==
    /\ At({"external"}, "head") /\ Tok # Semi
    /\ stack' = Goto("begun")
    /\ definition_scopes' = <<>> /\ defined' = NoFunction
    /\ UNCHANGED <<inputVars, cursor, budget, symbols>>

FirstDeclarator == /\ At({"declaration", "member"}, "head") /\ Tok # Semi
                   /\ Call("declarator", "prefix", "Named",
                           IF Top.rule = "member" THEN "field" ELSE "suffix")

\* Mutant: the lookahead neither moves on nor is charged.
LookaheadForgets ==
    At({"external"}, "declared") /\ Peek(Top.ahead) = "attr" /\ UNCHANGED vars

\* definition_follows_declarator looks past attributes, one step for each.
Lookahead ==
    /\ At({"external"}, "declared") /\ Peek(Top.ahead) = "attr"
    /\ budget' = step(budget, cursor + Top.ahead)
    /\ IF budget'.failure = None
       THEN /\ stack' = SetTop([Top EXCEPT !.ahead = @ + 1])
            /\ UNCHANGED <<inputVars, cursor, envVars>>
       ELSE Err

definition_follows == Peek(Top.ahead) \in Names \cup Keywords \cup {LBrace}

\* Mutant: the saved scopes are kept for the next definition.
NotADefinitionKeeps ==
    /\ At({"external"}, "declared") /\ Peek(Top.ahead) # "attr" /\ ~definition_follows
    /\ stack' = SetTop([Top EXCEPT !.at = "suffix", !.ahead = 0])
    /\ UNCHANGED <<inputVars, cursor, budget, symbols, definition_scopes, defined>>

\* A declaration after all: the saved parameter scopes are dropped.
NotADefinition ==
    /\ At({"external"}, "declared") /\ Peek(Top.ahead) # "attr" /\ ~definition_follows
    /\ stack' = SetTop([Top EXCEPT !.at = "suffix", !.ahead = 0])
    /\ definition_scopes' = None
    /\ UNCHANGED <<inputVars, cursor, budget, symbols, defined>>

\* The scope saved for the parameter list of the declarator's function, if any.
SavedScope(fun) ==
    LET saved == IF fun = None \/ fun.kr THEN {}
                 ELSE {i \in DOMAIN definition_scopes : definition_scopes[i].start = fun.start}
    IN  IF saved = {} THEN EmptyScope
        ELSE definition_scopes[CHOOSE i \in saved : \A j \in saved : i <= j].scope

\* The name enters the enclosing scope; then a scope for the parameters and the body.
Definition ==
    /\ At({"external"}, "declared") /\ Peek(Top.ahead) # "attr" /\ definition_follows
    /\ definition_scopes' = None
    /\ IF Top.flags \cap {"typedef", "auto"} # {}
       THEN status' = "error" /\ UNCHANGED <<stack, symbols>>
       ELSE /\ symbols' = Append(add_symbol(symbols, Top.name, "Identifier"), SavedScope(Top.fun))
            /\ stack' = Append(SetTop([Top EXCEPT !.at = "complete", !.ahead = 0]),
                               Activation("body", "attributes", "scope", "none"))
            /\ UNCHANGED status
    /\ UNCHANGED <<source, lexed, cursor, budget, defined>>

\* finish_init_declarator: the name is registered before the initializer ...
Register ==
    /\ At(Declarations, "suffix") /\ Tok # "attr"
    /\ stack' = Goto("initializer")
    /\ symbols' = IF "typedef" \in Top.flags THEN add_symbol(symbols, Top.name, "Typename")
                  ELSE IF "auto" \in Top.flags THEN symbols
                  ELSE add_symbol(symbols, Top.name, "Identifier")
    /\ UNCHANGED <<inputVars, cursor, budget, definition_scopes, defined>>

\* ... which a typedef may not have ...
InitializerStart ==
    /\ At(Declarations, "initializer") /\ Tok = "=" /\ "typedef" \notin Top.flags
    /\ Bump(stack' = Goto("value") /\ UNCHANGED envVars)

\* ... but an __auto_type name only after it.
Initialized ==
    /\ \/ At(Declarations, "initializer") /\ Tok # "="
       \/ At(Declarations, "initialized")
    /\ symbols' = IF "auto" \in Top.flags THEN add_symbol(symbols, Top.name, "Identifier")
                                          ELSE symbols
    /\ stack' = Goto("registered")
    /\ UNCHANGED <<inputVars, cursor, budget, definition_scopes, defined>>

-----------------------------------------------------------------------------
(* Declarators and parameter lists                                         *)

Derived(f) == [f EXCEPT !.flags = @ \cup {"derived"}]

\* definition_function: an inner declarator's function comes first, then the
\* declarator's own first function suffix.
Suffixed(f, kr, start) ==
    IF f.fun = None THEN [f EXCEPT !.fun = [kr |-> kr, start |-> start]] ELSE f

Pointer ==
    /\ At({"declarator"}, "prefix") /\ Tok = "*"
    /\ Bump(stack' = SetTop(Derived(Top)) /\ UNCHANGED envVars)

Identifier ==
    /\ At({"declarator"}, "prefix") /\ Tok \in Names /\ Top.mode # "Abstract"
    /\ Bump(/\ stack' = SetTop([Top EXCEPT !.at = "suffix", !.name = Tok])
            /\ UNCHANGED envVars)

Nested == Tok = "(" /\ (Top.mode = "Named" \/ parenthesized_declarator)

Parenthesis ==
    /\ At({"declarator"}, "prefix") /\ Nested
    /\ Bump(stack' = Goto("inner") /\ UNCHANGED envVars)

ParenthesizedDeclarator ==
    /\ At({"declarator"}, "inner")
    /\ Call("declarator", "prefix", Top.mode, "close")

AbstractDeclarator ==
    /\ At({"declarator"}, "prefix") /\ Top.mode # "Named"
    /\ Tok \notin {"attr", "*"} /\ ~Nested
    /\ ~(Tok \in Names /\ Top.mode # "Abstract")
    /\ Node(/\ stack' = SetTop([Top EXCEPT !.at = "suffix", !.flags = @ \cup {"abstract"}])
            /\ UNCHANGED envVars)

\* [ begins an array suffix; the bound is an expression or missing.
Bracket ==
    /\ At({"declarator"}, "suffix") /\ Tok = "["
    /\ Bump(stack' = SetTop([Derived(Top) EXCEPT !.at = "bound"]) /\ UNCHANGED envVars)

ArrayBound == /\ At({"declarator"}, "bound") /\ Tok # "]"
              /\ CallIn("plain", "expression", "operand", "assignment", "bracket")

\* ( begins a function suffix, which starts after the parenthesis.
FunctionSuffix ==
    /\ At({"declarator"}, "suffix") /\ Tok = "("
    /\ Bump(/\ stack' = SetTop([Derived(Top) EXCEPT !.at = "function", !.ahead = cursor + 1])
            /\ UNCHANGED envVars)

\* () is a prototype only in a nameless declarator; (a, b) is an identifier list.
EmptyParameters ==
    /\ At({"declarator"}, "function") /\ Tok = ")"
    /\ Bump(/\ stack' = SetTop([Suffixed(Top, Top.name # None, Top.ahead) EXCEPT !.at = "suffix"])
            /\ defined' = Applied(Len(stack), "identifiers", EmptyScope)
            /\ UNCHANGED <<symbols, definition_scopes>>)

IdentifierList ==
    /\ At({"declarator"}, "function") /\ Tok # ")"
    /\ ~starts_declaration /\ Top.name # None
    /\ Move([Top EXCEPT !.at = "identifier"])

CloseIdentifierList ==
    /\ At({"declarator"}, "identifiers") /\ Tok = ")"
    /\ Bump(/\ stack' = SetTop([Suffixed(Top, TRUE, Top.ahead) EXCEPT !.at = "suffix"])
            /\ defined' = Applied(Len(stack), "identifiers", EmptyScope)
            /\ UNCHANGED <<symbols, definition_scopes>>)

\* A prototype: the parameters have a scope of their own.
Prototype ==
    /\ At({"declarator"}, "function") /\ Tok # ")"
    /\ starts_declaration \/ Top.name = None
    /\ CallIn("function", "params", "specifiers", "none", "paren")

ClosePrototype ==
    /\ At({"declarator"}, "paren") /\ Tok = ")"
    /\ Bump(/\ stack' = SetTop([Suffixed(Top, FALSE, Top.ahead) EXCEPT !.at = "suffix"])
            /\ UNCHANGED envVars)

DeclaratorDone ==
    /\ At({"declarator"}, "suffix") /\ Tok \notin {"[", "("}
    /\ "abstract" \in Top.flags => "derived" \in Top.flags
    /\ Node(stack' = Goto("done") /\ UNCHANGED envVars)

\* parameter_declaration: specifiers, perhaps a declarator, attributes; then the name.
ParameterDeclarator ==
    /\ At({"params"}, "head") /\ Tok \in AbstractStart \cup Names
    /\ Call("declarator", "prefix", "Parameter", "attributes")

UnnamedParameter ==
    /\ At({"params"}, "head") /\ Tok \notin AbstractStart \cup Names
    /\ Move([Top EXCEPT !.at = "attributes"])

RegisterParameter ==
    /\ At({"params"}, "attributes") /\ Tok # "attr"
    /\ Node(/\ stack' = SetTop([Top EXCEPT !.at = "next", !.name = None, !.fun = None])
            /\ symbols' = add_symbol(symbols, Top.name, "Identifier")
            /\ UNCHANGED <<definition_scopes, defined>>)

NextParameter == /\ At({"params"}, "comma") /\ Tok # "..."
                 /\ Move([Top EXCEPT !.at = "specifiers", !.flags = {}])

-----------------------------------------------------------------------------
(* Blocks, statements and expressions                                      *)

Blocks == {"body", "block"}

\* K&R parameter declarations stand before a body.
OldStyleDeclaration ==
    /\ \/ At({"body"}, "attributes") /\ Tok \notin {"attr", LBrace}
       \/ At({"body"}, "declarations") /\ Tok # LBrace
    /\ Call("declaration", "specifiers", "none", "declarations")

\* compound_body: an item is a declaration or a statement.  attribute_statement_start
\* charges its lookahead, and takes a failed charge for "no".
Item ==
    /\ At(Blocks, "items") /\ Tok \notin {RBrace, "end"}
    /\ IF Tok = "attr"
       THEN /\ budget' = work(budget, cursor, 1)
            /\ stack' = SetTop([Top EXCEPT !.start = cursor, !.at =
                          IF budget'.failure = None /\ Peek(1) = Semi THEN "statement" ELSE "item"])
       ELSE /\ budget' = budget
            /\ stack' = SetTop([Top EXCEPT !.start = cursor, !.at = "item"])
    /\ UNCHANGED <<inputVars, cursor, envVars>>

ItemCall ==
    \/ /\ At(Blocks, "item") /\ starts_declaration /\ Peek(1) # ":"
       /\ Call("declaration", "specifiers", "none", "item_end")
    \/ /\ \/ At(Blocks, "statement")
          \/ At(Blocks, "item") /\ ~(starts_declaration /\ Peek(1) # ":")
       /\ Call("statement", "statement", "none", "item_end")

LabelFollows == Tok \in Names /\ Peek(1) = ":"

Statement ==
    /\ At({"statement"}, "statement")
    /\ \/ /\ Tok = LBrace
          /\ CallIn("scope", "block", "open", "none", "done")
       \/ /\ LabelFollows
          /\ Bump(stack' = Goto("colon") /\ UNCHANGED envVars)
       \/ /\ Tok \in {"if", "for"}
          /\ CallIn("scope", "control", "keyword", "none", "done")
       \/ /\ Tok \notin {LBrace, "if", "for", "attr", Semi} /\ ~LabelFollows
          /\ CallIn("plain", "expression", "operand", "expression", "semicolon")

\* for: a declaration or an expression, a condition, a step.
ForHeader ==
    \/ /\ At({"control"}, "init") /\ Tok # Semi /\ starts_declaration
       /\ Call("declaration", "specifiers", "none", "test")
    \/ /\ At({"control"}, "init") /\ Tok # Semi /\ ~starts_declaration
       /\ CallIn("plain", "expression", "operand", "expression", "init_end")
    \/ /\ At({"control"}, "test") /\ Tok # Semi
       /\ CallIn("plain", "expression", "operand", "expression", "test_end")
    \/ /\ At({"control"}, "step") /\ Tok # ")"
       /\ CallIn("plain", "expression", "operand", "expression", "step_end")

\* After (: a cast, a statement expression or a group.
Group ==
    \/ /\ At({"expression"}, "group") /\ ~grouped_typedef /\ starts_type_name
       /\ Call("typename", "specifiers", "none", "cast")
    \/ /\ At({"expression"}, "group") /\ Tok = LBrace
       /\ Call("stmtexpr", "open", "none", "close")
    \/ /\ At({"expression"}, "group") /\ Tok # LBrace
       /\ grouped_typedef \/ ~starts_type_name
       /\ Call("expression", "operand", "expression", "close")

ExpressionDone == /\ At({"expression"}, "operator") /\ ~OperatorFollows
                  /\ Node(stack' = Goto("done") /\ UNCHANGED envVars)

-----------------------------------------------------------------------------
(* Leaving activations, with a value or with an Err                        *)

Caller == stack[Len(stack) - 1]
Returned == SubSeq(stack, 1, Len(stack) - 1)

\* A declarator hands its name and its function to its caller.
Resumed ==
    IF Top.rule = "declarator" /\ Caller.rule \in Declarations \cup {"declarator", "params"}
    THEN [Returned EXCEPT ![Len(stack) - 1].name = Top.name,
                          ![Len(stack) - 1].fun = Top.fun]
    ELSE Returned

\* leave_scope and leave_function_scope close a scope whether or not the rule failed.
LeaveScopes(ok) ==
    symbols' = IF Top.kind \in {"scope", "function"} THEN PopScope(symbols) ELSE symbols

LeaveBudget(ok) ==
    budget' = IF Top.kind = "nested"
              THEN leave(budget, Top.start, IF ok THEN cursor ELSE None)
              ELSE budget

\* A rule returned Ok.  A failure met in leave is left for the next check.
Leave ==
    /\ status = "run" /\ Top.at = "done" /\ Top.kind # "root"
    /\ stack' = Resumed
    /\ LeaveScopes(TRUE) /\ LeaveBudget(TRUE)
    /\ IF Top.rule = "params" /\ definition_scopes # None
       THEN /\ definition_scopes' =
                 Append(definition_scopes, [start |-> Top.start, scope |-> symbols[Len(symbols)]])
            /\ defined' = Applied(Len(stack) - 1, "parameters", symbols[Len(symbols)])
       ELSE UNCHANGED <<definition_scopes, defined>>
    /\ UNCHANGED <<inputVars, cursor>>

\* A rule returned Err: the caller returns it too.  external_declaration drops the
\* saved scopes when its first declarator failed.
Unwind ==
    /\ status = "error" /\ Len(stack) > 1
    /\ stack' = Returned
    /\ LeaveScopes(FALSE) /\ LeaveBudget(FALSE)
    /\ definition_scopes' =
           IF \/ Top.rule = "external" /\ Top.at = "begun"
              \/ Top.rule = "declarator" /\ Caller.rule = "external" /\ Caller.at = "declared"
           THEN None ELSE definition_scopes
    /\ UNCHANGED <<inputVars, cursor, defined>>

\* parse: the value counts only without a resource failure and at the end of input.
Accepts == budget.failure = None /\ cursor = lexed

\* The scopes are cut to what the parse found and the saved ones dropped.
Finish ==
    /\ Len(stack) = 1
    /\ \/ At({"unit"}, "loop") /\ Tok = "end"
       \/ At({"expression"}, "done")
       \/ status = "error"
    /\ status' = IF status = "run" /\ Accepts THEN "ok" ELSE "failed"
    /\ stack' = <<>>
    /\ symbols' = SubSeq(symbols, 1, 1) /\ definition_scopes' = None
    /\ UNCHANGED <<source, lexed, cursor, budget, defined>>

-----------------------------------------------------------------------------
Parse == \/ Reject \/ StartUnit \/ StartExpression
         \/ Shift \/ NestedCall \/ OtherCall \/ Build
         \/ Typedef \/ TypeSpecifier \/ SpecifiersEnd \/ TypedefName
         \/ Member \/ Enumerator \/ EnumeratorDone \/ TypeName
         \/ External \/ Progress \/ StraySemicolon \/ begin_function_definition
         \/ FirstDeclarator \/ Lookahead \/ NotADefinition \/ Definition
         \/ Register \/ InitializerStart \/ Initialized
         \/ Pointer \/ Identifier \/ Parenthesis \/ ParenthesizedDeclarator
         \/ AbstractDeclarator \/ Bracket \/ ArrayBound \/ FunctionSuffix
         \/ EmptyParameters \/ IdentifierList \/ CloseIdentifierList
         \/ Prototype \/ ClosePrototype \/ DeclaratorDone
         \/ ParameterDeclarator \/ UnnamedParameter \/ RegisterParameter \/ NextParameter
         \/ OldStyleDeclaration \/ Item \/ ItemCall \/ Statement \/ ForHeader
         \/ Group \/ Operator \/ ExpressionDone
         \/ Leave \/ Unwind \/ Finish

\* fail: the token at hand is none the rule can go on with.
Stuck == status = "run" /\ ~ENABLED Parse

SyntaxError == Stuck /\ Err /\ UNCHANGED budget

Step == Parse \/ SyntaxError

Ended == status \in {"ok", "failed", "rejected"}

Next == Step \/ (Ended /\ UNCHANGED vars)

Spec == Init /\ [][Next]_vars /\ WF_vars(Step)

-----------------------------------------------------------------------------
(* Properties                                                              *)

TypeOK ==
    /\ status \in {"new", "run", "error", "ok", "failed", "rejected"}
    /\ lexed \in 0 .. Len(source) /\ cursor \in 0 .. lexed
    /\ budget \in Budgets
    /\ \A i \in DOMAIN symbols : symbols[i] \in Scopes
    /\ defined.scope \in Scopes
    /\ status \in {"run", "error"} => stack # <<>>

\* Accepting a source means that all of it was lexed and consumed and that no
\* limit was exceeded on the way: leave and attribute_statement_start do not
\* propagate a failed charge, and a failed lexer hands over a shorter buffer.
AcceptedIsComplete ==
    status = "ok" => budget.failure = None /\ lexed = Len(source) /\ cursor = lexed

\* Without a failure the u64 work counter is the sum of all charges.
WorkExact == budget.failure = None => budget.work = budget.charged

\* The recursion depth never passes the limit that keeps it on the worker's stack.
DepthBounded == budget.depth <= budget.limits.max_rule_depth

\* The session is well typed, scopes and budget included, and within its depth,
\* also while an error unwinds the rules.
SessionInv == TypeOK /\ DepthBounded

\* Saved parameter scopes exist only while the first declarator of an external
\* declaration is being read, or an error inside that declaration propagates.
ScopesSavedInHead ==
    definition_scopes # None /\ status # "error" =>
        Len(stack) >= 2 /\ stack[2].rule = "external" /\ stack[2].at \in {"begun", "declared"}

\* The first limit exceeded is the one reported.
FirstFailureStays == [][budget.failure # None => budget'.failure = budget.failure]_vars

\* No token is consumed once a limit was exceeded, whoever noticed it.
FailureStopsParsing == [][budget.failure # None => cursor' = cursor]_vars

\* A rule leaves the depth and the number of scopes as it found them, whether it
\* returns a value or an error.
RulesBalanced ==
    [][Len(stack') < Len(stack) =>
          budget'.depth = Top.depth /\ Len(symbols') = Top.scopes]_vars

\* The scope a function body starts with is that of the parameter list applied to
\* the defined name, not that of a callback parameter or of a returned function.
BodySeesParameters ==
    [][(Len(stack') > Len(stack) /\ stack'[Len(stack')].rule = "body") =>
          symbols'[Len(symbols')] = defined.scope]_vars

\* Every parse ends.
Terminates == <>Ended

\* The parser, wherever its work, nesting or backtracking limit stops it: rules balance, the typedef
\* scopes of a function's head are saved for its body and for nothing else, what is accepted was read
\* to its end, work is counted exactly until it overflows, the first failure stays and nothing is
\* parsed after it.
ParserExact ==
    /\ [](SessionInv /\ ScopesSavedInHead /\ AcceptedIsComplete /\ WorkExact)
    /\ RulesBalanced /\ BodySeesParameters /\ FirstFailureStays /\ FailureStopsParsing

-----------------------------------------------------------------------------
(* The inductive invariant of ParserExact                                  *)

Rules == {"unit", "external", "declaration", "params", "member", "typename", "type", "declarator",
          "body", "block", "stmtexpr", "statement", "substatement", "control", "expression"}
Modes == {"none", "Named", "Parameter", "Abstract", "expression", "assignment", "factor", "cast"}
Flags == {"typedef", "auto", "arith", "unique", "abstract", "derived"}
Points == {"loop", "progress", "specifiers", "head", "begun", "declared", "suffix", "initializer",
           "initialized", "registered", "next", "comma", "complete", "field", "attributes", "list",
           "type", "struct", "struct_name", "members", "enum", "enum_name", "enumerator", "value",
           "expression", "value_end", "enumerators", "more", "built", "done",
           "prefix", "inner", "close", "bound", "bracket", "function", "identifier",
           "identifiers", "paren", "declarations", "open", "items", "item", "item_end",
           "statement", "semicolon", "colon", "labeled", "labeled_end", "keyword", "if", "condition",
           "tested", "then", "else", "otherwise", "for", "init", "init_end", "test", "test_end",
           "step", "step_end", "operand", "operator", "unary", "group", "cast",
           "cast_operand", "factor", "term"}

Activations ==
    [rule : Rules, at : Points, kind : {"root", "nested", "scope", "function", "plain"},
     mode : Modes, start : Nat, ahead : Nat, name : Names \cup {None},
     fun : DeclaredFunctions \cup {None}, flags : SUBSET Flags,
     depth : Nat, scopes : Nat \ {0}]

\* The state is well typed to the last field; a buffer without a failure is whole.
FramesOK ==
    /\ source \in Seq(Tokens) /\ stack \in Seq(Activations)
    /\ symbols \in Seq(Scopes) /\ symbols # <<>>
    /\ definition_scopes \in Seq(SavedScopes) \cup {None}
    /\ defined \in [by : {"none", "identifiers", "parameters"}, scope : Scopes]
    /\ stack # <<>> => status \in {"run", "error"}
    /\ status = "new" => /\ lexed = 0 /\ definition_scopes = None /\ Len(symbols) = 1
                         /\ budget.failure = None /\ budget.depth = 0
    /\ status \notin {"new", "rejected"} /\ budget.failure = None => lexed = Len(source)

\* What each activation holds of the depth and of the scopes, so that all of them
\* together account for what there is.
DepthHeld(f) == IF f.kind = "nested" THEN 1 ELSE 0
ScopesHeld(f) == IF f.kind \in {"scope", "function"} THEN 1 ELSE 0

RulesAccounted ==
    /\ stack # <<>> =>
          /\ stack[1].kind = "root" /\ stack[1].scopes = 1
          /\ budget.depth = Top.depth + DepthHeld(Top)
          /\ Len(symbols) = Top.scopes + ScopesHeld(Top)
    /\ \A i \in 2 .. Len(stack) :
          /\ stack[i].depth = stack[i - 1].depth + DepthHeld(stack[i - 1])
          /\ stack[i].scopes = stack[i - 1].scopes + ScopesHeld(stack[i - 1])

\* Which rules call which.
RulesPlaced ==
    \A i \in 1 .. Len(stack) :
       /\ stack[i].rule = "unit" => i = 1
       /\ stack[i].rule = "external" =>
             /\ i = 2
             /\ stack[i].at \in {"begun", "declared"} => definition_scopes # None
       /\ stack[i].rule = "params" =>
             /\ i > 1 /\ stack[i - 1].rule = "declarator" /\ stack[i - 1].at = "paren"
             /\ stack[i].start = stack[i - 1].ahead
       /\ stack[i].rule = "declarator" =>
             /\ stack[i].ahead <= cursor
             /\ stack[i].at \in {"prefix", "inner"} => stack[i].fun = None
             /\ stack[i].at \in {"prefix", "inner", "function"} => i = Len(stack)
             /\ stack[i].at = "paren" /\ i < Len(stack) => stack[i + 1].rule = "params"

\* Parameter lists, open, saved or named by a declarator, start before n.
StartsBefore(n) ==
    /\ \A i \in 1 .. Len(stack) :
          /\ stack[i].rule = "params" => stack[i].start < n
          /\ stack[i].fun # None => stack[i].fun.start < n
    /\ definition_scopes # None =>
          \A i \in 1 .. Len(definition_scopes) : definition_scopes[i].start < n

\* No two parameter lists start at the same token: the one that is about to start is
\* the last of all, and an open one is not saved yet.
StartsDiffer ==
    /\ StartsBefore(cursor + 1)
    /\ stack # <<>> /\ Top.rule = "declarator" /\ Top.at = "function" =>
          Top.ahead = cursor /\ StartsBefore(cursor)
    /\ \A j \in 1 .. Len(stack) : stack[j].rule = "params" =>
          /\ \A i \in 1 .. j - 1 : stack[i].rule = "params" => stack[i].start < stack[j].start
          /\ definition_scopes # None =>
                \A i \in 1 .. Len(definition_scopes) : definition_scopes[i].start # stack[j].start

\* The suffix a declarator took for its function is the one that was applied first.
Agrees(fun) ==
    /\ defined # NoFunction /\ defined.scope = SavedScope(fun)
    /\ \A i \in 1 .. Len(stack) : stack[i].rule = "params" => fun.start < stack[i].start

HeadAgrees(n) ==
    IF stack[n].fun # None THEN Agrees(stack[n].fun)
    ELSE IF n = Len(stack) /\ stack[n].rule = "declarator" /\ stack[n].at = "paren"
    THEN Agrees([kr |-> FALSE, start |-> stack[n].ahead])
    ELSE defined = NoFunction

\* Activation n and those below it, down to the external declaration, are declarators.
HeadTo(n) == \A i \in 3 .. n : stack[i].rule = "declarator"

\* In a head, the innermost declarator knows the function so far, and those
\* around it none.
HeadFollowed ==
    definition_scopes # None =>
       /\ Len(stack) >= 2 /\ stack[2].rule = "external" /\ stack[2].at \in {"begun", "declared"}
       /\ stack[2].at = "begun" =>
             Len(stack) = 2 /\ defined = NoFunction /\ definition_scopes = <<>>
       /\ stack[2].at = "declared" =>
             IF Len(stack) = 2 THEN HeadAgrees(2) ELSE stack[3].rule = "declarator"
       /\ \A n \in 3 .. Len(stack) : HeadTo(n) =>
             IF n < Len(stack) /\ stack[n + 1].rule = "declarator"
             THEN stack[n].fun = None /\ stack[n].at = "close"
             ELSE HeadAgrees(n)

ParserInv ==
    /\ TypeOK /\ DepthBounded /\ WorkExact /\ AcceptedIsComplete
    /\ FramesOK /\ RulesAccounted
    /\ status = "run" => RulesPlaced /\ StartsDiffer /\ HeadFollowed
    /\ status \in {"new", "ok", "failed", "rejected"} => definition_scopes = None

=============================================================================
