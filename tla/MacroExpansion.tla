--------------------------- MODULE MacroExpansion ---------------------------
(***************************************************************************)
(* Macro expansion of toucan_preprocessor (Expansion in expand.rs) as its  *)
(* callers use it: flush calls expand_until_pragma until the text is used  *)
(* up, other callers call expand once.  expand_inner, expand_first and     *)
(* substitute call each other; `stack' holds their activations.            *)
(*                                                                         *)
(* A token is one byte.  Whitespace, locations and documentation origins   *)
(* are left out, and so are the namespaces of attribute queries and the    *)
(* builtins without state.                                                 *)
(***************************************************************************)
EXTENDS Integers, SequencesExt

CONSTANTS Names,         \* identifiers that may be macros or parameters
          Jobs,          \* [macros, text, until, limits]: expansions to perform
          Queries,       \* active feature queries
          Spliced,       \* [pairs of texts -> text]: what ## may form
          MsPragmaActive,
          CounterMax,    \* u64::MAX
          None

\* config.max_expansion_depth and config.max_tokens
Limits == [max_expansion_depth : Nat, max_tokens : Nat]

Reserved == {"_Pragma", "__pragma", "__COUNTER__"} \cup Queries
Literals == {"'message'", "'pack'"}  \* strings that hold a pragma

ASSUME ExpansionAssumption ==
    /\ None \notin STRING /\ Names \cap Reserved = {}
    /\ CounterMax \in Nat
    /\ \A job \in Jobs : DOMAIN job.macros \subseteq Names /\ job.limits \in Limits

VARIABLES status,    \* "new", "run", "ok" or "failed"
          cause,     \* of a failure: "limit" or "syntax"
          macros,
          input,     \* history: the text to expand
          until,     \* whether the caller stops at pragmas
          config,    \* the limits
          stack,
          recursion,
          produced,
          counter,
          written    \* what the caller received

limitVars == <<recursion, produced, counter>>
jobVars == <<macros, input, until, config>>
vars == <<status, cause, jobVars, stack, limitVars, written>>

-----------------------------------------------------------------------------
(* Tokens                                                                  *)

Token(kind, text) == [kind |-> kind, text |-> text, value |-> 0, hidden |-> {}, depth |-> 0]

Lexed(text) == Token(IF text \in Names \cup Reserved THEN "identifier"
                     ELSE IF text \in Literals THEN "string" ELSE "other", text)

Lex(texts) == [i \in DOMAIN texts |-> Lexed(texts[i])]

replacement_tokens(body) ==
    [i \in DOMAIN body |-> IF body[i] = "##" THEN Token("paste", "##") ELSE Lexed(body[i])]

Is(tokens, i, text) == i \in DOMAIN tokens /\ tokens[i].text = text

\* The arguments of an invocation, read behind its opening parenthesis.
arguments(pending, fixed, variadic) ==
    LET nesting(i) == Cardinality({j \in 1 .. i - 1 : Is(pending, j, "(")})
                        - Cardinality({j \in 1 .. i - 1 : Is(pending, j, ")")})
        ends == {i \in DOMAIN pending : Is(pending, i, ")") /\ nesting(i) = 0}
        end == CHOOSE i \in ends : \A j \in ends : i <= j
        commas == {i \in 1 .. end - 1 : Is(pending, i, ",") /\ nesting(i) = 0}
        splits == {i \in commas : variadic => Cardinality({j \in commas : j < i}) < fixed}
        edges == <<0>> \o SetToSortSeq(splits, <) \o <<end>>
        all == [k \in 1 .. Len(edges) - 1 |-> SubSeq(pending, edges[k] + 1, edges[k + 1] - 1)]
        args == IF fixed = 0 /\ all = << <<>> >> THEN <<>> ELSE all
    IN  IF ends = {} \/ Len(args) < fixed \/ (~variadic /\ Len(args) # fixed)
        THEN None
        ELSE [args |-> args, omitted |-> variadic /\ Len(args) = fixed,
              closing |-> pending[end], rest |-> SubSeq(pending, end + 1, Len(pending))]

\* Two operands of ##: an empty one vanishes, others must form one token, which
\* keeps what both had suppressed.
Join(left, right) ==
    IF left.kind = "placemark" THEN right
    ELSE IF right.kind = "placemark" THEN left
    ELSE IF <<left.text, right.text>> \notin DOMAIN Spliced THEN None
    ELSE [Lexed(Spliced[<<left.text, right.text>>]) EXCEPT
             !.hidden = left.hidden \cap right.hidden,
             !.depth = IF left.depth > right.depth THEN left.depth ELSE right.depth]

\* paste: left to right; None if an operand is missing or nothing can be formed.
paste(tokens) ==
    LET add(acc, token) ==
            IF acc = None THEN None
            ELSE IF acc.joining
            THEN LET joined == Join(Last(acc.out), token)
                 IN  IF joined = None THEN None
                     ELSE [out |-> Append(Front(acc.out), joined), joining |-> FALSE]
            ELSE IF token.kind # "paste"
            THEN [acc EXCEPT !.out = Append(@, token)]
            ELSE IF acc.out = <<>> THEN None ELSE [acc EXCEPT !.joining = TRUE]
        pasted == FoldLeft(add, [out |-> <<>>, joining |-> FALSE], tokens)
    IN  IF pasted = None THEN None
        ELSE IF pasted.joining THEN None
        ELSE SelectSeq(pasted.out, LAMBDA token : token.kind # "placemark")

-----------------------------------------------------------------------------
(* Activations                                                             *)

\* expand_inner.  got is what the activation it called returned: [tokens, pending].
Scan(pending, first, stop) ==
    [rule |-> "scan", at |-> "loop", pending |-> pending, output |-> <<>>,
     first |-> first, stop |-> stop, token |-> None, got |-> None]

\* substitute, for the invocation the activation below is at.
Substitute(definition, args, omitted) ==
    [rule |-> "substitute", at |-> "loop", definition |-> definition, args |-> args,
     omitted |-> omitted, position |-> 1, substituted |-> <<>>,
     expanded |-> [i \in DOMAIN args |-> None], got |-> None]

Top == stack[Len(stack)]
At(rule, point) == status = "run" /\ Top.rule = rule /\ Top.at = point
SetTop(f) == [stack EXCEPT ![Len(stack)] = f]

\* An error leaves every activation; each expand_bounded restores the depth.
Abandon(why) ==
    /\ status' = "failed" /\ cause' = why
    /\ stack' = <<>>
    /\ recursion' = recursion - Cardinality({i \in DOMAIN stack : stack[i].rule = "scan"})
    /\ UNCHANGED <<jobVars, written>>

Fail(why) == Abandon(why) /\ UNCHANGED <<produced, counter>>

\* expand_bounded, called from the activation on top, which becomes f.
expand_bounded(f, pending, first, stop) ==
    IF recursion >= config.max_expansion_depth
    THEN Fail("limit")
    ELSE /\ stack' = Append(SetTop(f), Scan(pending, first, stop))
         /\ recursion' = recursion + 1
         /\ UNCHANGED <<status, cause, jobVars, produced, counter, written>>

\* charge n tokens, the counter being c by then, and go on with f.
Charged(n, f, c) ==
    /\ produced' = produced + n /\ counter' = c
    /\ IF produced' > config.max_tokens
       THEN Abandon("limit")
       ELSE /\ stack' = SetTop(f)
            /\ UNCHANGED <<status, cause, jobVars, recursion, written>>

Move(f) == /\ stack' = SetTop(f)
           /\ UNCHANGED <<status, cause, jobVars, limitVars, written>>

-----------------------------------------------------------------------------
(* expand_inner: one token of the rescan stream                            *)

Next1 == Top.pending[1]
Rest == Tail(Top.pending)

\* The loop of expand_inner has a token to treat.
Reading == At("scan", "loop") /\ Top.pending # <<>> /\ (Top.first => Top.output = <<>>)

Suppressed(token) == token.kind # "identifier" \/ token.text \in token.hidden

\* The token goes to the output; a stopping scan ends behind a pragma.
Emit(f, token) ==
    [f EXCEPT !.output = Append(@, token), !.token = None, !.got = None,
              !.at = IF f.stop /\ token.kind = "pragma" THEN "done" ELSE "loop"]

PassThrough ==
    /\ Reading
    /\ \/ Suppressed(Next1)
       \/ /\ Next1.text \notin Reserved
          /\ \/ Next1.text \notin DOMAIN macros
             \/ Next1.text \in DOMAIN macros
                  /\ macros[Next1.text].parameters # None /\ ~Is(Top.pending, 2, "(")
       \/ ~Suppressed(Next1) /\ Next1.text = "__pragma" /\ ~MsPragmaActive
    /\ Move(Emit([Top EXCEPT !.pending = Rest], Next1))

Pragma(token, literal) == [token EXCEPT !.kind = "pragma", !.text = literal.text]

\* expand_first on the rest of the stream; the activation waits at `point'.
ExpandFirst(f, point) ==
    expand_bounded([f EXCEPT !.at = point, !.pending = <<>>, !.got = None], f.pending, TRUE, FALSE)

\* _Pragma ( string ): each token is the first one the rest of the stream yields.
PragmaOperator ==
    /\ Reading /\ ~Suppressed(Next1) /\ Next1.text = "_Pragma"
    /\ ExpandFirst([Top EXCEPT !.token = Next1, !.pending = Rest], "pragma open")

\* What expand_first returned: the first token, and the others back in the stream.
First == IF Top.got.tokens = <<>> THEN Token("other", "") ELSE Head(Top.got.tokens)
Resumed == [Top EXCEPT !.pending =
                (IF Top.got.tokens = <<>> THEN <<>> ELSE Tail(Top.got.tokens)) \o Top.got.pending]

PragmaOpen ==
    /\ At("scan", "pragma open") /\ Top.got # None
    /\ IF First.text = "(" THEN ExpandFirst(Resumed, "pragma literal") ELSE Fail("syntax")

PragmaLiteral ==
    /\ At("scan", "pragma literal") /\ Top.got # None
    /\ IF First.kind = "string"
       THEN ExpandFirst([Resumed EXCEPT !.token = Pragma(@, First)], "pragma close")
       ELSE Fail("syntax")

PragmaClose ==
    /\ At("scan", "pragma close") /\ Top.got # None
    /\ IF First.text = ")"
       THEN Charged(1, Emit(Resumed, Top.token), counter)
       ELSE Fail("syntax")

\* __pragma ( tokens ): a macro may supply the opening parenthesis.
MsPragma ==
    /\ Reading /\ ~Suppressed(Next1) /\ Next1.text = "__pragma" /\ MsPragmaActive
    /\ IF Is(Top.pending, 2, "(")
       THEN Move([Top EXCEPT !.token = Next1, !.pending = Tail(Rest), !.at = "ms arguments"])
       ELSE ExpandFirst([Top EXCEPT !.token = Next1, !.pending = Rest], "ms open")

MsPragmaOpen ==
    /\ At("scan", "ms open") /\ Top.got # None
    /\ IF First.text = "(" THEN Move([Resumed EXCEPT !.at = "ms arguments"]) ELSE Fail("syntax")

MsPragmaArguments ==
    /\ At("scan", "ms arguments")
    /\ LET call == arguments(Top.pending, 1, FALSE)
       IN  IF call = None THEN Fail("syntax")
           ELSE expand_bounded([Top EXCEPT !.at = "ms pragma", !.pending = call.rest, !.got = None],
                               call.args[1], FALSE, FALSE)

\* The directive's text is that of its expanded tokens; one token says which.
MsPragmaDone ==
    /\ At("scan", "ms pragma") /\ Top.got # None
    /\ LET payload == IF Top.got.tokens = <<>> THEN Token("other", "") ELSE Top.got.tokens[1]
       IN  Charged(Len(Top.got.tokens), Emit(Top, Pragma(Top.token, payload)), counter)

Counter ==
    /\ Reading /\ ~Suppressed(Next1) /\ Next1.text = "__COUNTER__"
    /\ IF counter = CounterMax
       THEN Fail("limit")
       ELSE Charged(1, Emit([Top EXCEPT !.pending = Rest],
                            [Token("number", "n") EXCEPT !.value = counter]), counter + 1)

-----------------------------------------------------------------------------
(* Feature queries                                                         *)

Query ==
    /\ Reading /\ ~Suppressed(Next1) /\ Next1.text \in Queries
    /\ LET call == arguments(Tail(Rest), 1, FALSE)
       IN  IF Next1.depth >= config.max_expansion_depth THEN Fail("limit")
           ELSE IF ~Is(Top.pending, 2, "(") THEN Fail("syntax")
           ELSE IF call = None THEN Fail("syntax")
           ELSE expand_bounded([Top EXCEPT !.at = "query", !.token = Next1,
                                           !.pending = call.rest, !.got = None],
                               call.args[1], FALSE, FALSE)

IsPragma(token) == token.kind = "pragma"
IsOperand(token) == token.kind # "pragma"

\* A stopping scan keeps the output up to the first pragma; the rest is read again.
StopAtPragma(f) ==
    LET pragmas == {i \in DOMAIN f.output : IsPragma(f.output[i])}
        index == CHOOSE i \in pragmas : \A j \in pragmas : i <= j
    IN  IF f.stop /\ pragmas # {}
        THEN [f EXCEPT !.at = "done", !.output = SubSeq(@, 1, index),
                       !.pending = SubSeq(f.output, index + 1, Len(f.output)) \o @]
        ELSE f

\* The directives in the expanded argument come first, then the answer.
QueryDone ==
    /\ At("scan", "query") /\ Top.got # None
    /\ LET directives == SelectSeq(Top.got.tokens, IsPragma)
           operands == SelectSeq(Top.got.tokens, IsOperand)
           answer == [Top.token EXCEPT !.kind = "number", !.text = "n", !.depth = @ + 1]
       IN  IF /\ produced + Len(Top.got.tokens) <= config.max_tokens
              /\ \/ \E i \in DOMAIN directives : directives[i].text = "'pack'"
                 \/ Len(operands) # 1
                 \/ operands[1].kind # "identifier"
           THEN /\ Abandon("syntax")
                /\ produced' = produced + Len(Top.got.tokens) /\ UNCHANGED counter
           ELSE Charged(Len(Top.got.tokens) + 1,
                        StopAtPragma([Top EXCEPT !.output = @ \o directives \o <<answer>>,
                                                 !.token = None, !.got = None, !.at = "loop"]),
                        counter)

-----------------------------------------------------------------------------
(* Replacement                                                             *)

\* The replacement goes back in front of the stream, with what must not be
\* expanded in it and one level deeper than the name.
Rescan(f, token, hidden, replacement) ==
    LET marked == [i \in DOMAIN replacement |->
                     [replacement[i] EXCEPT
                        !.hidden = @ \cup hidden \cup {token.text},
                        !.depth = IF @ > token.depth THEN @ ELSE token.depth + 1]]
    IN  [f EXCEPT !.pending = marked \o @, !.at = "loop", !.token = None, !.got = None]

Expandable(functional) ==
    /\ Reading /\ ~Suppressed(Next1)
    /\ Next1.text \notin Reserved /\ Next1.text \in DOMAIN macros
    /\ (macros[Next1.text].parameters # None) = functional

ObjectMacro ==
    /\ Expandable(FALSE)
    /\ LET replacement == paste(replacement_tokens(macros[Next1.text].body))
       IN  IF Next1.depth >= config.max_expansion_depth THEN Fail("limit")
           ELSE IF replacement = None THEN Fail("syntax")
           ELSE Charged(Len(replacement),
                        Rescan([Top EXCEPT !.pending = Rest], Next1, Next1.hidden, replacement),
                        counter)

\* Mutant: the suppressions of the name alone are kept.
InvokedHidden(token, closing) == token.hidden

\* Only macros suppressed at both ends of an invocation stay suppressed.
BothEnds(token, closing) == token.hidden \cap closing.hidden

FunctionMacro ==
    /\ Expandable(TRUE) /\ Is(Top.pending, 2, "(")
    /\ LET definition == macros[Next1.text]
           call == arguments(Tail(Rest), Len(definition.parameters), definition.variadic # None)
       IN  IF Next1.depth >= config.max_expansion_depth THEN Fail("limit")
           ELSE IF call = None THEN Fail("syntax")
           ELSE /\ stack' = Append(SetTop([Top EXCEPT !.at = "replace", !.pending = call.rest,
                                             !.token = [Next1 EXCEPT !.hidden =
                                                          BothEnds(Next1, call.closing)]]),
                                   Substitute(definition, call.args, call.omitted))
                /\ UNCHANGED <<status, cause, jobVars, limitVars, written>>

Replace ==
    /\ At("scan", "replace") /\ Top.got # None
    /\ Charged(Len(Top.got.tokens), Rescan(Top, Top.token, Top.token.hidden, Top.got.tokens), counter)

-----------------------------------------------------------------------------
(* substitute                                                              *)

Body == replacement_tokens(Top.definition.body)
Here == Body[Top.position]
Substituting == At("substitute", "loop") /\ Top.position <= Len(Body)

\* The number of the parameter a text names, or None.
Parameter(text) ==
    LET d == Top.definition
        named == {i \in DOMAIN d.parameters : d.parameters[i] = text}
    IN  IF text = d.variadic THEN Len(d.parameters) + 1
        ELSE IF named = {} THEN None
        ELSE CHOOSE i \in named : TRUE

Raw(i) == IF i \in DOMAIN Top.args THEN Top.args[i] ELSE <<>>

Put(f, tokens, width) ==
    [f EXCEPT !.substituted = @ \o tokens, !.position = @ + width, !.got = None]

StringifyParameter ==
    /\ Substituting /\ Here.text = "#"
    /\ IF Top.position < Len(Body) /\ Parameter(Body[Top.position + 1].text) # None
       THEN Move(Put(Top, <<Token("string", "str")>>, 2))
       ELSE Fail("syntax")

\* , ## variadic: nothing if the argument is omitted, else comma and raw argument.
CommaElision == /\ Here.text = "," /\ Is(Body, Top.position + 1, "##")
                /\ Top.definition.variadic # None
                /\ Is(Body, Top.position + 2, Top.definition.variadic)

ElideComma ==
    /\ Substituting /\ CommaElision
    /\ LET raw == Raw(Len(Top.definition.parameters) + 1)
       IN  IF Top.omitted THEN Move(Put(Top, <<>>, 3))
           ELSE Charged(Len(raw), Put(Top, <<Here>> \o raw, 3), counter)

Pasted == Is(Body, Top.position - 1, "##") \/ Is(Body, Top.position + 1, "##")

\* An argument keeps its place even if it is empty.
Argument(tokens) == IF tokens = <<>> THEN <<Token("placemark", "")>> ELSE tokens

IsArgument == Substituting /\ Here.text # "#" /\ ~CommaElision /\ Parameter(Here.text) # None

\* An argument is expanded at most once; next to ## it is taken as it stands.
Prescanned(i) ==
    IF Pasted THEN Raw(i)
    ELSE IF i \in DOMAIN Top.expanded /\ Top.expanded[i] # None THEN Top.expanded[i]
    ELSE IF Top.got # None THEN Top.got.tokens
    ELSE None

Prescan ==
    /\ IsArgument /\ Prescanned(Parameter(Here.text)) = None
    /\ expand_bounded(Top, Raw(Parameter(Here.text)), FALSE, FALSE)

SubstituteArgument ==
    /\ IsArgument /\ Prescanned(Parameter(Here.text)) # None
    /\ LET i == Parameter(Here.text)
           argument == Argument(Prescanned(i))
           kept == IF Pasted \/ i \notin DOMAIN Top.expanded THEN Top
                   ELSE [Top EXCEPT !.expanded[i] = Prescanned(i)]
       IN  Charged(Len(argument), Put(kept, argument, 1), counter)

CopyToken ==
    /\ Substituting /\ Here.text # "#" /\ ~CommaElision /\ Parameter(Here.text) = None
    /\ Move(Put(Top, <<Here>>, 1))

\* The caller of the activation that returns.
Caller == stack[Len(stack) - 1]
ReturnTo(tokens, pending) ==
    Append(SubSeq(stack, 1, Len(stack) - 2), [Caller EXCEPT !.got = [tokens |-> tokens, pending |-> pending]])

Substituted ==
    /\ At("substitute", "loop") /\ Top.position > Len(Body)
    /\ IF paste(Top.substituted) = None
       THEN Fail("syntax")
       ELSE /\ stack' = ReturnTo(paste(Top.substituted), <<>>)
            /\ UNCHANGED <<status, cause, jobVars, limitVars, written>>

-----------------------------------------------------------------------------
(* Calls from outside                                                      *)

Init == /\ \E job \in Jobs : /\ macros = job.macros /\ input = job.text
                             /\ until = job.until /\ config = job.limits
        /\ status = "new" /\ cause = None /\ stack = <<>>
        /\ recursion = 0 /\ produced = 0 /\ counter = 0 /\ written = <<>>

\* expand_with: a fresh recursion depth; what was produced is kept between calls.
Call(pending) ==
    /\ IF config.max_expansion_depth = 0
       THEN status' = "failed" /\ cause' = "limit" /\ stack' = <<>> /\ recursion' = 0
       ELSE /\ status' = "run" /\ stack' = <<Scan(pending, FALSE, until)>> /\ recursion' = 1
            /\ UNCHANGED cause
    /\ UNCHANGED <<jobVars, produced, counter>>

Start == status = "new" /\ Call(Lex(input)) /\ UNCHANGED written

Finished == \/ At("scan", "done")
            \/ At("scan", "loop") /\ (Top.pending = <<>> \/ (Top.first /\ Top.output # <<>>))

Return ==
    /\ Finished /\ Len(stack) > 1
    /\ stack' = ReturnTo(Top.output, Top.pending)
    /\ recursion' = recursion - 1
    /\ UNCHANGED <<status, cause, jobVars, produced, counter, written>>

\* Mutant: flush goes on until an expansion wrote something.
EndsInPragmaLoosely(tokens) == tokens = <<>> \/ Last(tokens).kind = "pragma"

\* flush calls again for what follows a pragma, once the pragma was executed.
EndsInPragma(tokens) == tokens # <<>> /\ Last(tokens).kind = "pragma"

CallerReceives ==
    /\ Finished /\ Len(stack) = 1
    /\ written' = written \o Top.output
    /\ IF until /\ EndsInPragma(Top.output)
       THEN Call(Top.pending)
       ELSE /\ status' = "ok" /\ stack' = <<>> /\ recursion' = recursion - 1
            /\ UNCHANGED <<cause, jobVars, produced, counter>>

Ended == status \in {"ok", "failed"}

Step == \/ Start \/ PassThrough \/ PragmaOperator \/ PragmaOpen \/ PragmaLiteral \/ PragmaClose
        \/ MsPragma \/ MsPragmaOpen \/ MsPragmaArguments \/ MsPragmaDone
        \/ Counter \/ Query \/ QueryDone \/ ObjectMacro \/ FunctionMacro \/ Replace
        \/ StringifyParameter \/ ElideComma \/ Prescan \/ SubstituteArgument \/ CopyToken
        \/ Substituted \/ Return \/ CallerReceives

Next == Step \/ (Ended /\ UNCHANGED vars)

Spec == Init /\ [][Next]_vars /\ WF_vars(Step)

-----------------------------------------------------------------------------
(* Properties                                                              *)

\* What the code knows about its own recursion: the counter is the number of
\* expand_bounded calls under way, whatever errors and pragmas ended them.
TypeOK ==
    /\ status \in {"new", "run", "ok", "failed"} /\ cause \in {None, "limit", "syntax"}
    /\ status = "run" <=> stack # <<>>
    /\ produced \in Nat /\ counter \in 0 .. CounterMax
    /\ recursion = Cardinality({i \in DOMAIN stack : stack[i].rule = "scan"})

\* No limit is passed: the tokens produced, the nesting of argument expansions and
\* the replacement depth of every token in the stream or in the output.
WithinLimits ==
    /\ produced <= config.max_tokens \/ status = "failed"
    /\ recursion <= config.max_expansion_depth
    /\ \A k \in DOMAIN stack : stack[k].rule = "scan" =>
         \A t \in Range(stack[k].pending) \cup Range(stack[k].output) : t.depth <= config.max_expansion_depth

\* The depth counts the activations exactly, and every limit holds, whatever error
\* or pragma ends an expansion.
ExpansionInv == TypeOK /\ WithinLimits

\* Whatever macros the text uses, recursive and mutually recursive ones included,
\* its expansion ends.
Terminates == <>Ended

=============================================================================
