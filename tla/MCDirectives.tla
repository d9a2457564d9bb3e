----------------------------- MODULE MCDirectives -----------------------------
(* The driver on conditional groups, line markers and text, the evaluator of   *)
(* #if conditions, and the comment catalogue, in one run.  They share no state *)
(* in the model: `part` says which of them runs, the others rest.              *)
EXTENDS MCPreprocessor, ConditionExpressions, DocComments

VARIABLE part
directiveParts == <<part, vars, conditionVars, docVars>>

------------------------------------------------------------------------------
(* Conditions of up to three operators over the limits of a four-bit
   intmax_t (ConditionExpressions). *)
Num(n, suffix, decimal) == [op |-> "leaf", token |-> [kind |-> "Number", text |-> "0", n |-> n, suffix |-> suffix, decimal |-> decimal]]
Char(n, prefix) == [op |-> "leaf", token |-> [kind |-> "Character", text |-> "'", n |-> n, suffix |-> prefix, decimal |-> TRUE]]
Ident == [op |-> "leaf", token |-> [kind |-> "Identifier", text |-> "id", n |-> 0, suffix |-> "", decimal |-> TRUE]]
U(o, a) == [op |-> "unary", operator |-> o, arg |-> a]
B(o, a, b) == [op |-> "binary", operator |-> o, left |-> a, right |-> b]
C(t, a, b) == [op |-> "?:", test |-> t, then |-> a, else |-> b]
Comma(a, b) == [op |-> "comma", left |-> a, right |-> b]

Leaves == {Num(0, "", TRUE), Num(1, "", TRUE), Num(3, "u", TRUE), Num(7, "", TRUE)}
AllLeaves == Leaves \cup {Num(n, s, d) : n \in {7, 8, 15, 16}, s \in {"", "u", "bad"}, d \in BOOLEAN}
                    \cup {Char(n, p) : n \in {0, 1, 2, 3, 4}, p \in {"plain", "L", "u"}} \cup {Ident}
Ops == <<"||", "&&", "|", "^", "&", "==", "<", ">=", "<<", ">>", "+", "-", "*", "/", "%">>
OpSet == {Ops[i] : i \in DOMAIN Ops}
FewOps == {"||", "&&", "<", "-", "/", "<<"}
Two == {Num(0, "", TRUE), Num(1, "", TRUE), Num(3, "u", TRUE)}
Trees == <<
    {U(o, a) : o \in {"+", "-", "!", "~"}, a \in AllLeaves},
    {U(o, U(p, a)) : o \in {"-", "!", "~"}, p \in {"-", "~"}, a \in Leaves},
    {C(t, a, b) : t \in Two, a \in Leaves \cup {Comma(Num(1, "", TRUE), Num(3, "u", TRUE)), B("/", Num(1, "", TRUE), Num(0, "", TRUE))},
                  b \in Two \cup {C(Num(0, "", TRUE), Num(1, "", TRUE), Num(3, "u", TRUE)), B("/", Num(1, "", TRUE), Num(0, "", TRUE))}},
    {B(o, C(t, a, b), t) : o \in {"-", "&&", "||"}, t \in Two, a \in Two, b \in Two},
    {B(o, a, Comma(b, b)) : o \in {"&&", "||", "+"}, a \in Two, b \in Two \cup {B("/", Num(1, "", TRUE), Num(0, "", TRUE))}},
    {U("-", U("-", U("-", U("-", U("!", U("!", C(t, U("!", U("~", t)), t))))))) : t \in Two}>>
    \o [i \in DOMAIN Ops |-> {B(Ops[i], a, b) : a \in Leaves \cup {U("-", Num(1, "", TRUE)), B("-", U("-", Num(7, "", TRUE)), Num(1, "", TRUE))},
                                                b \in Leaves \cup {U("-", Num(1, "", TRUE))}}]
    \o [i \in DOMAIN Ops |-> {B(Ops[i], B(o, a, b), d) : o \in FewOps, a \in Two, b \in Two, d \in Two}]
    \o [i \in DOMAIN Ops |-> {B(Ops[i], a, B(o, b, d)) : o \in FewOps, a \in Two, b \in Two, d \in Two}]
    \o [i \in DOMAIN Ops |-> {C(B(Ops[i], a, b), a, B("/", a, b)) : a \in Two, b \in Two}]
MCFamilies == [i \in DOMAIN Trees |-> {[tree |-> t, edit |-> e] : t \in Trees[i], e \in IF i < 7 THEN {"none", "short", "long"} ELSE {"none"}}]
MCCharProfiles == {[charUnsigned |-> FALSE, wchar |-> "signed"], [charUnsigned |-> TRUE, wchar |-> "unknown"]}

------------------------------------------------------------------------------
(* Sources of up to six atoms with two names in them (DocComments).           *)
Others == {"/**", "/**<", "/*", ";", "NL", "#system"}
D2(key, name, begin, kind, parent, reference) == [key |-> key, name |-> name, begin |-> begin, kind |-> kind, parent |-> parent, reference |-> reference]
Declare(p, q, shape) ==
    CASE shape = "two" -> <<D2("x", <<p>>, <<p>>, "variable", <<>>, FALSE), D2("y", <<q>>, <<q>>, "function", <<>>, FALSE)>>
      [] shape = "again" -> <<D2("x", <<p>>, <<p>>, "record", <<>>, TRUE), D2("x", <<p>>, <<p>>, "function", <<>>, FALSE), D2("x", <<q>>, <<q>>, "variable", <<>>, FALSE)>>
      [] shape = "macro" -> <<D2("x", <<q, p>>, <<q, p>>, "variable", <<>>, FALSE), D2("y", <<q, q, p>>, <<q>>, "field", <<q, p>>, FALSE)>>
      [] OTHER -> <<D2("x", <<q>>, <<p>>, "typedef", <<>>, FALSE)>>
Unit(p, q, n, symbols, shapes, alls, keeps, limit) ==
    {[atoms |-> [i \in 1..n |-> IF i \in {p, q} THEN "name" ELSE f[i]], declarations |-> Declare(p, q, s), all |-> a, system |-> k, limit |-> limit] :
        f \in [(1..n) \ {p, q} -> symbols], s \in shapes, a \in alls, k \in keeps}
Shapes == {"two", "again", "macro", "typedef"}
Five(p, q) == Unit(p, q, 5, Others, Shapes, BOOLEAN, {FALSE}, 60)
Four(p, q) == Unit(p, q, 4, Others \union {"#user"}, {"two", "macro"}, {TRUE}, {TRUE}, 60)
Short(p, q) == Unit(p, q, 4, {"/**", "#system", "#user"}, {"two"}, {TRUE}, {TRUE}, 20)
Six(p, q) == Unit(p, q, 6, {"/**", "/**<", "/*", "NL"}, {"two"}, {TRUE}, {FALSE}, 60)
MCDocUnits ==
    <<Five(1, 2), Five(1, 3), Five(1, 4), Five(1, 5), Five(2, 3), Five(2, 4), Five(2, 5), Five(3, 4), Five(3, 5), Five(4, 5),
      Four(1, 3), Four(2, 3), Four(2, 4), Four(3, 4), Short(2, 3), Short(2, 4), Six(1, 4), Six(2, 5), Six(3, 5), Six(1, 2)>>

------------------------------------------------------------------------------
(* The machines side by side.                                                  *)
DirectiveInit ==
    /\ part \in {"driver", "conditions", "comments"}
    /\ Init /\ DocInit
    /\ IF part = "conditions" THEN ConditionsInit
       ELSE asked = NoCondition /\ characters = CHOOSE p \in CharProfiles : TRUE

DirectiveNext ==
    \/ part = "driver" /\ Next /\ UNCHANGED <<part, conditionVars, docVars>>
    \/ part = "conditions" /\ ConditionsNext /\ UNCHANGED <<part, vars, docVars>>
    \/ part = "comments" /\ DocNext /\ UNCHANGED <<part, vars, conditionVars>>
    \* these end; the driver never does without an answer
    \/ part # "driver" /\ UNCHANGED directiveParts

DirectiveSpec == DirectiveInit /\ [][DirectiveNext]_directiveParts

==============================================================================
