-------------------------- MODULE MCMacroExpansion --------------------------
(***************************************************************************)
(* Macro tables and texts for TLC, and the comparison with the reference:  *)
(* what C says macro expansion yields, as a function of the whole text     *)
(* (hide sets after Prosser, arguments expanded on their own, ## and # on  *)
(* unexpanded ones).  The reference knows nothing of activations, of       *)
(* limits or of stopping at pragmas.  A text is given with the next value  *)
(* of __COUNTER__; an answer is [ok, out, counter].                        *)
(***************************************************************************)
EXTENDS MacroExpansion

Tokens == [kind : STRING, text : STRING, value : Nat, hidden : SUBSET (Names \cup Reserved), depth : Nat]

Answer(out, n) == [ok |-> TRUE, out |-> out, counter |-> n]
Wrong == [ok |-> FALSE, out |-> <<>>, counter |-> 0]
Before(tokens, answer) == [answer EXCEPT !.out = tokens \o @]

\* `full' is the function that expands a text: <<tokens, counter>> -> answer.
Then(full, next) == IF next.ok THEN full[<<next.out, next.counter>>] ELSE next

Formals(definition) ==
    definition.parameters \o (IF definition.variadic = None THEN <<>> ELSE <<definition.variadic>>)

\* The replacement list with the arguments put in, from the left: `known' are the
\* arguments expanded so far, `skip' the tokens that are already dealt with.
Instantiated(full, definition, call, n) ==
    LET body == replacement_tokens(definition.body)
        formals == Formals(definition)
        number(k) == CHOOSE j \in DOMAIN formals : formals[j] = body[k].text
        isFormal(k) == k \in DOMAIN body /\ body[k].text \in Range(formals)
        raw(k) == IF number(k) <= Len(call.args) THEN call.args[number(k)] ELSE <<>>
        put(acc, tokens, skip) == [acc EXCEPT !.out = @ \o tokens, !.skip = skip]
        present(tokens) == IF tokens = <<>> THEN <<Token("placemark", "")>> ELSE tokens
        learn(acc, k) ==
            IF number(k) \in DOMAIN acc.known THEN acc
            ELSE LET actual == full[<<raw(k), acc.counter>>]
                 IN  [acc EXCEPT !.ok = actual.ok, !.counter = actual.counter,
                                 !.known = [j \in DOMAIN @ \cup {number(k)} |->
                                              IF j = number(k) THEN actual.out ELSE acc.known[j]]]
        expanded(acc, k) == put(acc, present(acc.known[number(k)]), 0)
        add(acc, k) ==
            IF ~acc.ok THEN acc
            ELSE IF acc.skip > 0 THEN [acc EXCEPT !.skip = @ - 1]
            ELSE IF body[k].text = "#"
            THEN [put(acc, <<Token("string", "str")>>, 1) EXCEPT !.ok = isFormal(k + 1)]
            ELSE IF body[k].text = "," /\ Is(body, k + 1, "##") /\ Is(body, k + 2, definition.variadic)
            THEN put(acc, IF call.omitted THEN <<>> ELSE <<body[k]>> \o raw(k + 2), 2)
            ELSE IF ~isFormal(k) THEN put(acc, <<body[k]>>, 0)
            ELSE IF Is(body, k - 1, "##") \/ Is(body, k + 1, "##") THEN put(acc, present(raw(k)), 0)
            ELSE expanded(learn(acc, k), k)
    IN  FoldLeft(add, [ok |-> TRUE, out |-> <<>>, counter |-> n, skip |-> 0, known |-> <<>>],
                 [k \in DOMAIN body |-> k])

\* What the tokens of a replacement list inherit from the invocation.
Inherit(list, name, hidden, tail) ==
    LET tokens == paste(list.out)
    IN  IF ~list.ok THEN Wrong
        ELSE IF tokens = None THEN Wrong
        ELSE Answer([i \in DOMAIN tokens |-> [tokens[i] EXCEPT !.hidden = @ \cup hidden \cup {name}]] \o tail,
                    list.counter)

\* The text with the macro invocation at its head replaced, unexpanded so far.
ReplacedCall(full, definition, name, call, n) ==
    IF call = None THEN Wrong
    ELSE Inherit(Instantiated(full, definition, call, n), name.text,
                 name.hidden \cap call.closing.hidden, call.rest)

Replaced(env, full, ts, n) ==
    LET definition == env[ts[1].text]
    IN  IF definition.parameters = None
        THEN Inherit(Answer(replacement_tokens(definition.body), n), ts[1].text, ts[1].hidden, Tail(ts))
        ELSE ReplacedCall(full, definition, ts[1],
                          arguments(SubSeq(ts, 3, Len(ts)), Len(definition.parameters),
                                    definition.variadic # None), n)

Invoked(env, ts) ==
    /\ ts # <<>> /\ ts[1].kind = "identifier" /\ ts[1].text \notin ts[1].hidden
    /\ ts[1].text \in DOMAIN env
    /\ env[ts[1].text].parameters # None => Is(ts, 2, "(")

\* _Pragma takes three tokens of what the rest expands to.
PragmaFrom(t, later) ==
    IF /\ later.ok /\ Is(later.out, 1, "(") /\ Is(later.out, 3, ")")
       /\ later.out[2].kind = "string"
    THEN [later EXCEPT !.out = <<Pragma(t, @[2])>> \o SubSeq(@, 4, Len(@))]
    ELSE Wrong

\* A query takes one identifier; the directives in its argument come first.
Asked(full, argument, rest) ==
    LET operands == SelectSeq(argument.out, IsOperand)
        directives == SelectSeq(argument.out, IsPragma)
    IN  IF \/ ~argument.ok \/ Len(operands) # 1
           \/ \E t \in Range(operands) : t.kind # "identifier"
           \/ \E t \in Range(directives) : t.text = "'pack'"
        THEN Wrong
        ELSE Before(directives \o <<Token("number", "n")>>, full[<<rest, argument.counter>>])

Directive(full, t, argument, rest) ==
    IF ~argument.ok THEN Wrong
    ELSE Before(<<Pragma(t, IF argument.out = <<>> THEN Token("other", "") ELSE argument.out[1])>>,
                full[<<rest, argument.counter>>])

\* query ( argument ) and __pragma ( argument )
Operator(full, t, call, n) ==
    IF call = None THEN Wrong
    ELSE IF t.text \in Queries THEN Asked(full, full[<<call.args[1], n>>], call.rest)
    ELSE Directive(full, t, full[<<call.args[1], n>>], call.rest)

Expanded(env) ==
    LET full[text \in Seq(Tokens) \X Nat] ==
          LET ts == text[1]
              n == text[2]
              t == ts[1]
              reads(words) == t.kind = "identifier" /\ t.text \in words /\ t.text \notin t.hidden
          IN  IF ts = <<>> THEN Answer(<<>>, n)
              ELSE IF Invoked(env, ts) THEN Then(full, Replaced(env, full, ts, n))
              ELSE IF reads({"__COUNTER__"})
              THEN Before(<<[Token("number", "n") EXCEPT !.value = n]>>, full[<<Tail(ts), n + 1>>])
              ELSE IF reads({"_Pragma"}) THEN PragmaFrom(t, full[<<Tail(ts), n>>])
              ELSE IF ~reads(Queries \cup IF MsPragmaActive THEN {"__pragma"} ELSE {})
              THEN Before(<<t>>, full[<<Tail(ts), n>>])
              ELSE IF Is(ts, 2, "(")
              THEN Operator(full, t, arguments(SubSeq(ts, 3, Len(ts)), 1, FALSE), n)
              ELSE IF t.text = "__pragma" /\ Invoked(env, Tail(ts))
              THEN Then(full, Before(<<t>>, Replaced(env, full, Tail(ts), n)))
              ELSE Wrong
    IN  full

-----------------------------------------------------------------------------
(* Tables, texts and the comparison *)

Object(body) == [parameters |-> None, variadic |-> None, body |-> body]
Function(parameters, variadic, body) ==
    [parameters |-> parameters, variadic |-> variadic, body |-> body]

Texts(tokens) == [i \in DOMAIN tokens |-> <<tokens[i].kind, tokens[i].text, tokens[i].value>>]

\* The rescan loop, stopping at every pragma or not, yields what C says, and it
\* rejects nothing else: suppression, one prescan per argument, the position of
\* pragmas and the numbers of __COUNTER__ are those of the whole text.
MatchesReference ==
    Ended /\ cause # "limit" =>
        LET wanted == Expanded(macros)[<<Lex(input), 0>>]
        IN  IF status = "failed" THEN ~wanted.ok
            ELSE /\ wanted.ok /\ Texts(written) = Texts(wanted.out)
                 /\ counter = wanted.counter

Ample == [max_expansion_depth |-> 20, max_tokens |-> 200]

\* Suppression alone ends every expansion: the limits are not what stops a
\* macro that names itself.
LimitsNotNeeded == cause = "limit" => config # Ample

Splices == [p \in {<<"a", "x">>, <<"f", "x">>, <<"a", "f">>} |->
              IF p = <<"a", "x">> THEN "f" ELSE IF p = <<"f", "x">> THEN "a" ELSE "g"]

ObjectBodies == {<<>>, <<"f">>, <<"x", "a">>, <<"f", "(">>, <<"f", "(", "a", ")">>,
                 <<"__COUNTER__">>, <<"_Pragma", "(", "'message'", ")">>, <<"(">>, <<"f", "##", "x">>}
FunctionBodies == {<<>>, <<"p">>, <<"p", "p">>, <<"f", "(", "p", ")">>, <<"a", "p">>, <<"p", "a">>,
                   <<"p", "##", "x">>, <<"#", "p", "p">>, <<"f">>}

Tables == {[m \in {"a", "f"} |-> IF m = "a" THEN Object(b) ELSE Function(<<"p">>, None, c)] :
             b \in ObjectBodies, c \in FunctionBodies}

Operands == {<<>>, <<"a">>, <<"f">>, <<"x">>, <<"f", "(", "a", ")">>, <<"a", ")">>}
Tails == {<<>>, <<"a">>, <<"(", "a", ")">>, <<"(", "x", ")", "(", "f", ")">>}
InvocationTexts ==
    {<<"f", "(">> \o o \o <<")">> \o t : o \in Operands, t \in Tails}
    \cup {<<"a">> \o o \o t : o \in Operands, t \in Tails}

\* Variadic macros, queries and pragmas
VariadicBodies == {<<"p", ",", "##", "r">>, <<"r", "p">>, <<"#", "r", ",", "##", "r">>, <<"#">>,
                   <<"##", "p">>, <<"p", "##">>, <<"p", "##", "r">>}
OtherTables ==
    {[m \in {"a", "f", "g"} |-> IF m = "a" THEN Object(b) ELSE IF m = "f" THEN Function(<<"p">>, "r", c)
                                ELSE Function(<<>>, None, <<"x">>)] :
        b \in {<<"_Pragma", "(", "'message'", ")", "x">>, <<"(", "x">>, <<"_Pragma", "f">>},
        c \in VariadicBodies}
OtherTexts ==
    {<<"f", "(">> \o o \o <<")">> : o \in {<<>>, <<"a">>, <<"a", ",">>, <<"x", ",", "a", ",", "x">>,
                                           <<"a", ",", "x">>, <<"g", "(", ")">>, <<"g", "(", "x", ")">>}}
    \cup {<<"__has">> \o o : o \in {<<"(", "a", ")", "a">>, <<"(", "x", ")", "x">>, <<"(", "(", ")", ")">>,
                                    <<"x">>, <<"(", "x">>,
                                    <<"(", "_Pragma", "(", "'pack'", ")", "x", ")">>,
                                    <<"(", "_Pragma", "(", "'message'", ")", "a", ")", "a">>}}
    \cup {<<"__pragma">> \o o : o \in {<<"(", "x", ")", "a">>, <<"a", ")", "a">>, <<"x">>, <<"(", ")">>,
                                       <<"(", "x", ",", "x", ")">>, <<"(", "f", "(", "x", ")", ")">>}}
    \cup {<<"_Pragma", "(", "'message'", "x">>, <<"_Pragma", "(", "x", ")">>,
          <<"_Pragma", "(", "__has", "(", "a", ")", ")">>, <<"_Pragma">>}

\* Texts that nest, for the limits
NestedTables ==
    {[m \in {"a", "f"} |-> IF m = "a" THEN Object(b) ELSE Function(<<"p">>, None, c)] :
        b \in {<<"f">>, <<"f", "(", "__COUNTER__", ")">>, <<"_Pragma", "(", "'message'", ")">>},
        c \in {<<"p", "p">>, <<"a", "p">>}}
NestedTexts == {<<"f", "(", "f", "(", "f", "(", "a", ")", ")", ")">>,
                <<"__has", "(", "a", ")", "f", "(", "a", "__COUNTER__", ")">>,
                <<"__pragma", "(", "f", "(", "f", "(", "a", ")", ")", ")">>}

JobsOf(tables, texts, stops, limits) ==
    [macros : tables, text : texts, until : stops, limits : limits]

ExpansionJobs ==
    JobsOf(Tables, InvocationTexts, {TRUE}, {Ample})
    \cup JobsOf(OtherTables, OtherTexts, BOOLEAN, {Ample})
    \cup JobsOf(NestedTables, NestedTexts, {TRUE},
                [max_expansion_depth : 1 .. 5, max_tokens : {0, 3, 7, 12, 20}])

------------------------------------------------------------------------------
\* expand_bounded: the depth counts the activations exactly and every limit holds however an expansion ends, the
\* finished text is what C's rescanning rule says, and suppression alone, not a limit, stops a recursive macro.
ExpansionExact == ExpansionInv /\ MatchesReference /\ LimitsNotNeeded

=============================================================================
