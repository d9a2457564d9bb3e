------------------------- MODULE ConditionExpressions -------------------------
(* The evaluator of #if and #elif conditions (toucan_preprocessor's            *)
(* expression.rs): a precedence-climbing parser that computes while it parses  *)
(* and carries a flag saying whether the operand at hand is evaluated.         *)
(*                                                                             *)
(* Arithmetic is intmax_t and uintmax_t, scaled from 64 bits to Width.  A      *)
(* token is [kind, text, n, suffix, decimal]; n is the magnitude of a number   *)
(* or the code of a character.                                                 *)
EXTENDS Integers, Sequences, Bitwise

CONSTANTS Families,     \* sequence of sets of conditions: [tree, edit]
          CharProfiles, \* [charUnsigned, wchar]: wchar is "signed", "unsigned" or "unknown"
          MaxDepth      \* limit of nested expression and unary calls

VARIABLES asked,        \* the condition being evaluated, or NoCondition
          characters    \* the character profile
conditionVars == <<asked, characters>>

Width == 4
Word == 2 ^ Width
Half == 2 ^ (Width - 1)

------------------------------------------------------------------------------
(* Values and results: [err, bits, unsigned, at]; `at` is the next token.      *)
Value(bits, unsigned) == [bits |-> bits % Word, unsigned |-> unsigned]
SignedValue(x) == IF x.bits >= Half THEN x.bits - Word ELSE x.bits
boolean(b) == Value(IF b THEN 1 ELSE 0, FALSE)
Parsed(x, at) == [err |-> "no", x |-> x, at |-> at]
Broken(err) == [err |-> err, x |-> Value(0, FALSE), at |-> 0]
IsBroken(r) == r.err # "no"

Precedence == [op \in {"||", "&&", "|", "^", "&", "==", "!=", "<", "<=", ">", ">=", "<<", ">>", "+", "-", "*", "/", "%"} |->
    CASE op = "||" -> 1 [] op = "&&" -> 2 [] op = "|" -> 3 [] op = "^" -> 4 [] op = "&" -> 5
      [] op \in {"==", "!="} -> 6 [] op \in {"<", "<=", ">", ">="} -> 7 [] op \in {"<<", ">>"} -> 8
      [] op \in {"+", "-"} -> 9 [] OTHER -> 10]

\* Rust's division truncates towards zero; a signed result outside the word is an error.
Quotient(a, b) ==
    LET q == (IF a < 0 THEN -a ELSE a) \div (IF b < 0 THEN -b ELSE b) IN IF (a < 0) = (b < 0) THEN q ELSE -q
Arithmetic(op, a, b) ==
    CASE op = "+" -> a + b [] op = "-" -> a - b [] op = "*" -> a * b
      [] op = "/" -> Quotient(a, b) [] op = "%" -> a - b * Quotient(a, b)
Checked(v) == IF v \in -Half .. Half - 1 THEN Parsed(Value(v, FALSE), 0) ELSE Broken("overflow")

Ordered(op, a, b) ==
    CASE op = "==" -> a = b [] op = "!=" -> a # b [] op = "<" -> a < b [] op = "<=" -> a <= b [] op = ">" -> a > b [] op = ">=" -> a >= b

Shift(op, left, right) ==
    IF right.bits >= Width THEN Broken("shift")
    ELSE LET a == IF left.unsigned THEN left.bits ELSE SignedValue(left)
         IN IF op = ">>" THEN Parsed(Value(a \div 2 ^ right.bits, left.unsigned), 0)
            ELSE IF left.unsigned THEN Parsed(Value(a * 2 ^ right.bits, TRUE), 0)
            ELSE IF a < 0 \/ a * 2 ^ right.bits > Half - 1 THEN Broken("shift")
            ELSE Parsed(Value(a * 2 ^ right.bits, FALSE), 0)

binary(op, left, right, evaluate) ==
    LET unsigned == left.unsigned \/ right.unsigned
        a == IF unsigned THEN left.bits ELSE SignedValue(left)
        b == IF unsigned THEN right.bits ELSE SignedValue(right)
    IN CASE op \in {"==", "!=", "<", "<=", ">", ">="} -> Parsed(boolean(Ordered(op, a, b)), 0)
         [] op = "&&" -> Parsed(boolean(left.bits # 0 /\ right.bits # 0), 0)
         [] op = "||" -> Parsed(boolean(left.bits # 0 \/ right.bits # 0), 0)
         [] op \in {"<<", ">>"} -> IF evaluate THEN Shift(op, left, right) ELSE Parsed(Value(0, left.unsigned), 0)
         [] op \in {"&", "|", "^", "+", "-", "*", "/", "%"} ->
              IF ~ evaluate THEN Parsed(Value(0, unsigned), 0)
              ELSE IF op = "&" THEN Parsed(Value(left.bits & right.bits, unsigned), 0)
              ELSE IF op = "|" THEN Parsed(Value(left.bits | right.bits, unsigned), 0)
              ELSE IF op = "^" THEN Parsed(Value(left.bits ^^ right.bits, unsigned), 0)
              ELSE IF op \in {"/", "%"} /\ b = 0 THEN Broken("zero")
              ELSE IF unsigned THEN Parsed(Value(Arithmetic(op, a, b), TRUE), 0)
              ELSE IF op = "%" /\ a = -Half /\ b = -1 THEN Broken("overflow")
              ELSE Checked(Arithmetic(op, a, b))

------------------------------------------------------------------------------
(* Primary tokens.                                                             *)
integer(token) ==
    LET unsigned == token.suffix = "u" \/ (~ token.decimal /\ token.n >= Half)
    IN IF token.suffix = "bad" \/ token.n >= Word \/ (~ unsigned /\ token.n >= Half) THEN Broken("number")
       ELSE Parsed(Value(token.n, unsigned), 0)

\* Characters are two bits wide; a wide one is only supported in the basic set.
character(profile, token) ==
    LET ordinary == token.suffix = "plain"
        unsigned == CASE token.suffix = "L" -> profile.wchar = "unsigned" [] token.suffix = "u" -> TRUE [] OTHER -> profile.charUnsigned
        v == IF ordinary /\ ~ profile.charUnsigned /\ token.n >= 2 THEN token.n - 4 ELSE token.n
    IN IF (token.suffix = "L" /\ profile.wchar = "unknown") \/ token.n > (IF ordinary THEN 3 ELSE 1) THEN Broken("character")
       ELSE Parsed(Value(v, unsigned), 0)

primary(profile, token) ==
    CASE token.kind = "Identifier" -> Parsed(Value(0, FALSE), 0)
      [] token.kind = "Number" -> integer(token)
      [] token.kind = "Character" -> character(profile, token)
      [] OTHER -> Broken("token")

negated(x, evaluate) ==
    IF x.unsigned THEN Parsed(Value(- x.bits, TRUE), 0)
    ELSE IF ~ evaluate THEN Parsed(Value(0, FALSE), 0)
    ELSE Checked(- SignedValue(x))

At(tokens, at, text) == at <= Len(tokens) /\ tokens[at].text = text
Place(r, at) == IF IsBroken(r) THEN r ELSE [r EXCEPT !.at = at]

RECURSIVE expression(_, _, _, _, _, _)
RECURSIVE comma_rest(_, _, _, _, _)
comma_expression(c, tokens, at, depth, evaluate) ==
    LET first == expression(c, tokens, at, depth, 0, evaluate)
    IN IF IsBroken(first) THEN first ELSE comma_rest(c, tokens, first, depth, evaluate)
comma_rest(c, tokens, value, depth, evaluate) ==
    IF ~ At(tokens, value.at, ",") THEN value
    ELSE IF evaluate THEN Broken("comma")
    ELSE LET next == expression(c, tokens, value.at + 1, depth, 0, FALSE)
         IN IF IsBroken(next) THEN next ELSE comma_rest(c, tokens, next, depth, evaluate)

RECURSIVE unary(_, _, _, _, _)
unary(c, tokens, at, depth, evaluate) ==
    IF depth >= MaxDepth THEN Broken("nesting")
    ELSE IF at > Len(tokens) THEN Broken("end")
    ELSE IF tokens[at].text \in {"+", "-", "!", "~"}
    THEN LET r == unary(c, tokens, at + 1, depth + 1, evaluate)
         IN IF IsBroken(r) THEN r
            ELSE CASE tokens[at].text = "+" -> r
                   [] tokens[at].text = "-" -> Place(negated(r.x, evaluate), r.at)
                   [] tokens[at].text = "!" -> Parsed(boolean(r.x.bits = 0), r.at)
                   [] tokens[at].text = "~" -> Parsed(Value(Word - 1 - r.x.bits, r.x.unsigned), r.at)
    ELSE IF tokens[at].text = "("
    THEN LET r == comma_expression(c, tokens, at + 1, depth + 1, evaluate)
         IN IF IsBroken(r) THEN r ELSE IF ~ At(tokens, r.at, ")") THEN Broken("paren") ELSE [r EXCEPT !.at = @ + 1]
    ELSE Place(primary(c, tokens[at]), at + 1)

\* Whether the right operand of && and || is evaluated; the first form always evaluates it.
ActiveAlways(op, left, evaluate) == evaluate
IsActive(op, left, evaluate) ==
    evaluate /\ CASE op = "&&" -> left.bits # 0 [] op = "||" -> left.bits = 0 [] OTHER -> TRUE

RECURSIVE climb(_, _, _, _, _, _)
\* expression_inner's loop after its first operand, `left` the result so far.
climb(c, tokens, left, depth, minimum, evaluate) ==
    IF IsBroken(left) THEN left
    ELSE IF minimum = 0 /\ At(tokens, left.at, "?")
    THEN LET holds == left.x.bits # 0
             then == comma_expression(c, tokens, left.at + 1, depth, evaluate /\ holds)
             else == expression(c, tokens, then.at + 1, depth, 0, evaluate /\ ~ holds)
         IN IF IsBroken(then) THEN then
            ELSE IF ~ At(tokens, then.at, ":") THEN Broken("colon")
            ELSE IF IsBroken(else) THEN else
            ELSE climb(c, tokens,
                       Parsed(Value(IF holds THEN then.x.bits ELSE else.x.bits, then.x.unsigned \/ else.x.unsigned), else.at),
                       depth, minimum, evaluate)
    ELSE IF left.at > Len(tokens) \/ tokens[left.at].text \notin DOMAIN Precedence THEN left
    ELSE LET op == tokens[left.at].text
             right == expression(c, tokens, left.at + 1, depth, Precedence[op] + 1, IsActive(op, left.x, evaluate))
         IN IF Precedence[op] < minimum THEN left
            ELSE IF IsBroken(right) THEN right
            ELSE climb(c, tokens, Place(binary(op, left.x, right.x, evaluate), right.at), depth, minimum, evaluate)

expression(c, tokens, at, depth, minimum, evaluate) ==
    IF depth >= MaxDepth THEN Broken("nesting")
    ELSE climb(c, tokens, unary(c, tokens, at, depth + 1, evaluate), depth + 1, minimum, evaluate)

evaluate(c, tokens) ==
    LET r == expression(c, tokens, 1, 0, 0, TRUE)
    IN IF ~ IsBroken(r) /\ r.at # Len(tokens) + 1 THEN Broken("trailing") ELSE r

------------------------------------------------------------------------------
NoCondition == [tree |-> [op |-> "none"], edit |-> "none"]

ConditionsInit == asked = NoCondition /\ characters \in CharProfiles
Ask(condition) == asked = NoCondition /\ asked' = condition /\ UNCHANGED characters
ConditionsNext == asked = NoCondition /\ \E f \in DOMAIN Families : \E condition \in Families[f] : Ask(condition)
ConditionsSpec == ConditionsInit /\ [][ConditionsNext]_conditionVars

------------------------------------------------------------------------------
(* Reference: the grammar of 6.5 writes a tree as tokens, and the tree has a   *)
(* meaning over the integers.                                                  *)
Punct(text) == [kind |-> "Punct", text |-> text, n |-> 0, suffix |-> "", decimal |-> TRUE]
Level(e) ==
    CASE e.op = "comma" -> 0 [] e.op = "?:" -> 1 [] e.op = "leaf" -> 13 [] e.op = "unary" -> 12
      [] e.op = "binary" -> Precedence[e.operator] + 1
RECURSIVE Written(_, _)
Written(e, level) ==
    IF Level(e) < level THEN <<Punct("(")>> \o Written(e, 0) \o <<Punct(")")>>
    ELSE CASE e.op = "leaf" -> <<e.token>>
           [] e.op = "unary" -> <<Punct(e.operator)>> \o Written(e.arg, 12)
           [] e.op = "binary" -> Written(e.left, Level(e)) \o <<Punct(e.operator)>> \o Written(e.right, Level(e) + 1)
           [] e.op = "?:" -> Written(e.test, 2) \o <<Punct("?")>> \o Written(e.then, 0) \o <<Punct(":")>> \o Written(e.else, 1)
           [] e.op = "comma" -> Written(e.left, 0) \o <<Punct(",")>> \o Written(e.right, 1)

Meant(typed, ok, v, unsigned) == [typed |-> typed, ok |-> ok, v |-> v, unsigned |-> unsigned]
AsSigned(ok, v, a, b) ==
    LET unsigned == a.unsigned \/ b.unsigned
    IN Meant(a.typed /\ b.typed, ok /\ (unsigned \/ v \in -Half .. Half - 1), IF unsigned THEN v % Word ELSE v, unsigned)
In(x, unsigned) == IF unsigned THEN x.v % Word ELSE x.v
LeafMeaning(c, t) ==
    CASE t.kind = "Identifier" -> Meant(TRUE, TRUE, 0, FALSE)
      [] t.kind = "Number" ->
           LET typed == t.suffix # "bad" /\ t.n < (IF t.suffix = "u" \/ ~ t.decimal THEN Word ELSE Half)
           IN Meant(typed, typed, t.n, t.suffix = "u" \/ t.n >= Half)
      [] t.kind = "Character" ->
           LET unsigned == CASE t.suffix = "plain" -> c.charUnsigned [] t.suffix = "L" -> c.wchar = "unsigned" [] OTHER -> TRUE
               typed == IF t.suffix = "plain" THEN t.n < 4 ELSE t.n < 2 /\ (t.suffix = "L" => c.wchar # "unknown")
           IN Meant(typed, typed, IF t.suffix = "plain" /\ ~ unsigned /\ t.n >= 2 THEN t.n - 4 ELSE t.n, unsigned)
BitSet(v) == {i \in 0 .. Width - 1 : (v \div 2 ^ i) % 2 = 1}
RECURSIVE FromBits(_)
FromBits(S) == IF S = {} THEN 0 ELSE LET i == CHOOSE i \in S : TRUE IN 2 ^ i + FromBits(S \ {i})
Signed(v, unsigned) == IF ~ unsigned /\ v >= Half THEN v - Word ELSE v

RECURSIVE ConditionMeaning(_, _)
BinaryMeaning(op, a, b) ==
    LET u == a.unsigned \/ b.unsigned
        x == In(a, u) y == In(b, u)
        typed == a.typed /\ b.typed
        both == a.ok /\ b.ok
        One(p) == IF p THEN 1 ELSE 0
        inside == b.v \in 0 .. Width - 1
    IN CASE op = "&&" -> Meant(typed, a.ok /\ (a.v # 0 => b.ok), One(a.v # 0 /\ b.v # 0), FALSE)
         [] op = "||" -> Meant(typed, a.ok /\ (a.v = 0 => b.ok), One(a.v # 0 \/ b.v # 0), FALSE)
         [] op \in {"==", "!=", "<", "<=", ">", ">="} -> Meant(typed, both, One(Ordered(op, x, y)), FALSE)
         [] op = "<<" -> LET v == a.v * 2 ^ (IF inside THEN b.v ELSE 0)
                         IN Meant(typed, both /\ inside /\ (a.unsigned \/ (a.v >= 0 /\ v < Half)), IF a.unsigned THEN v % Word ELSE v, a.unsigned)
         [] op = ">>" -> Meant(typed, both /\ inside, a.v \div 2 ^ (IF inside THEN b.v ELSE 0), a.unsigned)
         [] op \in {"/", "%"} ->
              LET q == IF y = 0 THEN 0 ELSE Quotient(x, y)
              IN AsSigned(both /\ y # 0 /\ (u \/ q < Half), IF op = "/" THEN q ELSE x - y * q, a, b)
         [] op \in {"+", "-", "*"} -> AsSigned(both, Arithmetic(op, x, y), a, b)
         [] op = "&" -> Meant(typed, both, Signed(FromBits(BitSet(x) \cap BitSet(y)), u), u)
         [] op = "|" -> Meant(typed, both, Signed(FromBits(BitSet(x) \cup BitSet(y)), u), u)
         [] op = "^" -> Meant(typed, both, Signed(FromBits((BitSet(x) \cup BitSet(y)) \ (BitSet(x) \cap BitSet(y))), u), u)

UnaryMeaning(op, a) ==
    CASE op = "+" -> a
      [] op = "!" -> Meant(a.typed, a.ok, IF a.v = 0 THEN 1 ELSE 0, FALSE)
      [] op = "-" -> AsSigned(a.ok, - a.v, a, a)
      [] op = "~" -> AsSigned(a.ok, -1 - a.v, a, a)

ConditionMeaning(c, e) ==
    CASE e.op = "leaf" -> LeafMeaning(c, e.token)
      [] e.op = "unary" -> UnaryMeaning(e.operator, ConditionMeaning(c, e.arg))
      [] e.op = "binary" -> BinaryMeaning(e.operator, ConditionMeaning(c, e.left), ConditionMeaning(c, e.right))
      [] e.op = "?:" ->
           LET test == ConditionMeaning(c, e.test) then == ConditionMeaning(c, e.then) else == ConditionMeaning(c, e.else)
               arm == IF test.v # 0 THEN then ELSE else
               u == then.unsigned \/ else.unsigned
           IN Meant(test.typed /\ then.typed /\ else.typed, test.ok /\ arm.ok, In(arm, u), u)
      [] e.op = "comma" -> LET a == ConditionMeaning(c, e.left) b == ConditionMeaning(c, e.right) IN Meant(a.typed /\ b.typed, FALSE, b.v, b.unsigned)

Tokens(condition) ==
    LET written == Written(condition.tree, 1)
    IN CASE condition.edit = "none" -> written
         [] condition.edit = "short" -> SubSeq(written, 1, Len(written) - 1)
         [] condition.edit = "long" -> Append(written, [Punct("0") EXCEPT !.kind = "Number"])

\* Parsing the tokens of a condition computes the value and the signedness C gives its tree: precedence, associativity
\* and the conditional operator as the grammar has them, an error when and only when a token is malformed or an operation
\* that is evaluated has no value, never for an operand && , || or ?: leaves unevaluated; a comma is accepted in
\* unevaluated operands only; and a condition with a token too few or too many is refused.  (A condition nested deeper
\* than the limit is refused with the nesting error.)
ConditionsExact ==
    asked # NoCondition =>
        LET r == evaluate(characters, Tokens(asked))
            m == ConditionMeaning(characters, asked.tree)
        IN r.err # "nesting" =>
             /\ IsBroken(r) <=> asked.edit # "none" \/ ~ (m.typed /\ m.ok)
             /\ ~ IsBroken(r) => r.x = Value(m.v, m.unsigned)
==============================================================================
