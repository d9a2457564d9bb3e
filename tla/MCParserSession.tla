-------------------------- MODULE MCParserSession --------------------------
(* The parser and the search for the first mention of every tag, in one run.   *)
(* They share no state in the model: `part` says which of them runs, the other *)
(* rests.                                                                      *)
EXTENDS ParserSession, TagDiscoveries

VARIABLE part
parserParts == <<part, vars, tagVars>>

------------------------------------------------------------------------------
(* Sources and limits (ParserSession).                          *)
Parameters == {<<"int", "T">>, <<"int">>, <<"T", "f", ",", "T", "T">>,
               <<"int", "(", "*", "f", ")", "(", "int", "T", ")">>,
               <<"T">>, <<"enum", "{", "T", "}", "f">>,
               <<"int", "f", "[", "(", "{", "int", "f", "(", "int", "T", ")", ";", "}", ")", "]">>}

Heads == {<<"f", "(">> \o p \o <<")">> : p \in Parameters}
         \cup {<<"(", "*", "f", "(">> \o p \o <<")", ")", "(", "int", "T", ")">> : p \in Parameters}
         \cup {<<"f", "(", "T", ")", "int", "T", ";">>,
               <<"(", "*", "f", "(", "T", ")", ")", "(", "int", "T", ")">>}

Bodies == {<<"{", "T", "=", "0", ";", "}">>, <<"attr", "{", "(", "T", ")", "*", "f", ";", "}">>,
           <<";">>, <<"=", "0", ",", "T", ";">>}

\* typedef int T; followed by every head and every end.
DefinitionSources ==
    {<<"typedef", "int", "T", ";", "int">> \o h \o b : h \in Heads, b \in Bodies}
    \cup {<<"int">> \o h \o b : h \in Heads, b \in Bodies}

StatementSources ==
    {<<"int", "f", "(", ")", "{">> \o s \o <<"}">> : s \in {
        <<"for", "(", "int", "T", "=", "0", ";", "T", ";", "0", ")", "{", ";", "}">>,
        <<"if", "(", "0", ")", "int", "T", ";">>,
        <<"if", "(", "0", ")", "T", ":", ";", "else", "attr", ";">>,
        <<"for", "(", "0", ";", ";", ")", "(", "{", "typedef", "int", "T", ";", "}", ")", ";">>,
        <<"auto", "T", "=", "(", "T", ")", "+", "0", "*", "0", ";", "attr", "int", "T", ",", "f", ";">>,
        <<"for", "(", ";", "0", ";", ")", ";">>,
        <<"struct", "{", "int", "(", "*", "T", ")", "(", "int", "f", ",", "...", ")", "attr", ",", "f", ";", "}", "T", ";">>,
        <<"enum", "T", "{", "T", "=", "0", ",", "f", "}", ";", "struct", "f", "T", ";", "(", "int", "*", ")", "0", ",", "0", ";">>}}
    \cup {<<";", "attr", "int", ";", ";">>, <<"enum", "T", "*", "f", ";">>, <<"struct", "T", "{", "}", ";">>,
          <<"typedef", "int", "T", ";", "typedef", "T", "f", "[", "]", "(", "T", "(", "T", ")", "attr", ")", "attr", ";">>}

ExpressionSources ==
    {<<"(", "T", ")">>, <<"(", "T", ")", "+", "f">>, <<"*", "T", "*", "(", "f", ")">>, <<"(", "int", "*", ")", "0">>,
     <<"(", "{", "T", ";", "int", "T", ";", "}", ")", "+", "T">>, <<"0", "0">>}

Ample == [max_work |-> WordMax, max_backtracking_steps |-> 100, max_rule_depth |-> 20]

\* Work cut off after every charge.
WorkLimits == {[Ample EXCEPT !.max_work = n] : n \in 0 .. 120}
              \cup {[Ample EXCEPT !.max_work = n, !.max_backtracking_steps = m] :
                      n \in 20 .. 80, m \in {2, 4}}

\* The recursion and backtracking limits met at every point.
TightLimits == {[Ample EXCEPT !.max_rule_depth = n] : n \in 0 .. 9}
               \cup {[Ample EXCEPT !.max_backtracking_steps = n] : n \in 0 .. 9}

\* Nested rules of every kind.
DepthSources ==
    {<<"typedef", "int", "T", ";", "int">> \o h \o <<"attr", "{", "(", "T", ")", "*", "f", ";", "}">> :
        h \in {<<"(", "*", "f", "(", "int", "(", "*", "f", ")", "(", "T", ")", ")", ")", "(", ")">>,
              <<"f", "[", "(", "{", "int", "f", "(", "int", "T", ")", ";", "}", ")", "]">>}}
    \cup {<<"int", "f", "(", ")", "{", "if", "(", "(", "T", ")", ")", "T", ":", "{",
            "struct", "{", "int", "T", ";", "}", "T", "=", "*", "f", "+", "0", ";", "}", "}">>}

\* Every definition with ample limits, every nesting with tight ones.
RuleJobs == [tokens : DefinitionSources, limits : {Ample}] \cup [tokens : DepthSources, limits : TightLimits]

\* Work cut off after every charge, and a body so long that the counter overflows.
Repeated(s, n) == FlattenSeq([i \in 1..n |-> s])
LongSource == <<"int", "f", "(", ")", "{">> \o Repeated(<<"auto", "T", "=", "(", "T", ")", "+", "0", "*", "0", ";">>, 8) \o <<"}">>
WorkJobs == [tokens : StatementSources \cup ExpressionSources, limits : WorkLimits] \cup [tokens : {LongSource}, limits : {Ample}]

ParserJobs == RuleJobs \cup WorkJobs
ParserLimits == {Ample} \cup TightLimits \cup WorkLimits

------------------------------------------------------------------------------
(* Translation units of two declarations over three records
   (TagDiscoveries). *)
Rec(i) == [kind |-> "record", id |-> i]
Enu(i) == [kind |-> "enum", id |-> i]
TT(t) == [k |-> "tag", tag |-> t]
Ptr(t) == [k |-> "pointer", of |-> <<TT(t)>>]
Atm(t) == [k |-> "atomic", of |-> <<TT(t)>>]
Fun(t, u) == [k |-> "function", of |-> <<TT(t), Ptr(u)>>]
Wraps(t) == {TT(t), Ptr(t), Atm(t)}
Ref(t) == [k |-> "ref", tag |-> t]
Other == [k |-> "other"]
Attr(specs) == [k |-> "attribute", specs |-> specs]
Def(t, at, interior, members) == [k |-> "def", tag |-> t, at |-> at, interior |-> interior, members |-> members]
Field(specs, at, places) == [specs |-> specs, at |-> at, declarators |-> places, anonymous |-> places = <<>>]
Dec(at, specs, declarators) == [at |-> at, specs |-> specs, inits |-> <<>>, declarators |-> declarators]
To(type, at) == [type |-> type, at |-> at]
\* Forms of a declaration at offset b: [item, fields] for the records it defines.
Form(item, fields) == [item |-> item, fields |-> fields]
Records == {Rec(1), Rec(2), Rec(3)}
Small(t, r, b) == Def(t, b, <<>>, <<Field(<<Ref(r)>>, b + 1, <<b + 2>>)>>)
F2(t, u, x, y) == [r \in {t, u} |-> IF r = t THEN x ELSE y]
Forms(b) ==
    {Form(Dec(b, <<Ref(r)>>, <<To(w, b + 5)>>), << >>) : <<r, w>> \in UNION {{<<r, w>> : w \in Wraps(r)} : r \in Records}}
    \union {Form(Dec(b, <<Ref(r)>>, <<>>), << >>) : r \in Records}
    \union {Form(Dec(b, <<Other, Ref(r)>>, <<To(Fun(r, s), b)>>), << >>) : <<r, s>> \in {p \in Records \X Records : p[1] # p[2]}}
\* enum { V = sizeof(struct n { w m; }) } *x;
InEnums(b) == UNION {{Form(Dec(b, <<Def(Enu(1), b, <<>>, <<<<Small(n, r, b + 1)>>>>)>>, <<To(Ptr(Enu(1)), b + 6)>>), [x \in {n} |-> <<w>>]) : w \in Wraps(r)}
                     : <<n, r>> \in {p \in Records \X Records : p[1] # p[2]}}
\* struct d { w m; } __attribute__((aligned(sizeof(struct n { w k; })))) x;
Trailing(b) == UNION {{Form(Dec(b, <<Small(d, r, b), Attr(<<Small(n, s, b + 4)>>)>>, <<To(TT(d), b + 8)>>), F2(d, n, <<w>>, <<v>>)) : w \in Wraps(r), v \in Wraps(s)}
                      : <<d, n, r, s>> \in {p \in Records \X Records \X Records \X Records : p[1] # p[2] /\ p[3] # p[1] /\ p[4] # p[2]}}
\* struct __attribute__((aligned(sizeof(struct n { w k; })))) d { w m; };
Interior(b) == UNION {{Form(Dec(b, <<[Small(d, r, b) EXCEPT !.interior = <<<<Small(n, s, b + 4)>>>>, !.members = <<Field(<<Ref(r)>>, b + 7, <<b + 8>>)>>]>>, <<>>),
                            F2(d, n, <<w>>, <<v>>)) : w \in Wraps(r), v \in {TT(s), Ptr(s)}}
                      : <<d, n, r, s>> \in {p \in Records \X Records \X Records \X Records : p[1] # p[2] /\ p[3] # p[1] /\ p[4] # p[2]}}
\* struct d { struct n { w k; }; enum { V = sizeof(struct m { }) } e; };
TagNested(b) == UNION {{Form(Dec(b, <<Def(d, b, <<>>, <<Field(<<Small(n, r, b + 1)>>, b + 1, <<>>),
                                                Field(<<Def(Enu(2), b + 4, <<>>, <<<<Def(m, b + 5, <<>>, <<>>)>>>>), Attr(<<Ref(r)>>)>>, b + 4, <<b + 6, b + 7>>)>>)>>, <<>>),
                          [x \in {d, n, m} |-> IF x = d THEN <<TT(n), TT(Enu(2)), Ptr(Enu(2))>> ELSE IF x = n THEN <<w>> ELSE <<>>]) : w \in Wraps(r)}
                    : <<d, n, m, r>> \in {p \in Records \X Records \X Records \X Records : Cardinality({p[1], p[2], p[3]}) = 3 /\ p[4] # p[2]}}
\* int x = sizeof(enum { V = sizeof(struct n) });
Inits(b) == {Form([Dec(b, <<Other>>, <<To([k |-> "int"], b + 9)>>) EXCEPT !.inits = <<<<Def(Enu(3), b + 2, <<>>, <<<<Small(n, r, b + 3)>>>>)>>>>], [x \in {n} |-> <<Ptr(r)>>])
             : <<n, r>> \in {p \in Records \X Records : p[1] # p[2]}}
Unit(forms) ==
    [syntax |-> [i \in DOMAIN forms |-> forms[i].item],
     fields |-> [r \in UNION {DOMAIN forms[i].fields : i \in DOMAIN forms} |->
                    LET i == CHOOSE j \in DOMAIN forms : r \in DOMAIN forms[j].fields IN forms[i].fields[r]]]
Apart(f, g) == DOMAIN f.fields \intersect DOMAIN g.fields = {}
Pairs(A, B) == {Unit(<<f, g>>) : <<f, g>> \in {p \in A \X B : Apart(p[1], p[2])}}
Triples(A, B, C) == {Unit(<<p[1], p[2], p[3]>>) : p \in {q \in A \X B \X C : Apart(q[1], q[2]) /\ Apart(q[1], q[3]) /\ Apart(q[2], q[3])}}
MCTagUnits ==
    <<Pairs(InEnums(10), Forms(20)), Pairs(Trailing(10), Forms(20)), Pairs(InEnums(10), Interior(20)),
      Pairs(TagNested(10), Forms(20)), Pairs(Forms(10), TagNested(20)), Pairs(Trailing(10), Inits(20)),
      {Unit(<<f>>) : f \in Interior(10)}>>

------------------------------------------------------------------------------
(* The machines side by side.                                                  *)
ParserRests ==
    /\ status = "new" /\ lexed = 0 /\ cursor = 0 /\ stack = <<>> /\ symbols = <<EmptyScope>>
    /\ definition_scopes = None /\ defined = NoFunction /\ source = <<>> /\ budget = NewBudget(Ample)

PartsInit ==
    /\ part \in {"parser", "tags"}
    /\ IF part = "parser" THEN Init ELSE ParserRests
    /\ TagInit

PartsNext ==
    \/ part = "parser" /\ Next /\ UNCHANGED <<part, tagVars>>
    \/ part = "tags" /\ TagNext /\ UNCHANGED <<part, vars>>
    \* the search ends; a parser that stops without a result is a deadlock
    \/ part = "tags" /\ UNCHANGED parserParts

PartsSpec == PartsInit /\ [][PartsNext]_parserParts /\ WF_vars(part = "parser" /\ Step)

------------------------------------------------------------------------------
\* Every parse ends, whatever the input and the limits.
ParserReturns == part = "parser" => Terminates
==============================================================================
