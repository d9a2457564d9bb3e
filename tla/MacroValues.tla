----------------------------- MODULE MacroValues -----------------------------
(* The constants that the bindgen-compatible generator makes of macros         *)
(* (macro_values.rs, macro_compat.rs): every written definition is evaluated   *)
(* in order against the values of the earlier ones, by a backtracking parser   *)
(* under resource limits, and the first that parses is projected to Rust.      *)
(* Integers have W bits for the code's 64, and a token is one byte long.       *)
EXTENDS Integers, Sequences, FiniteSets, Folds, Functions, Bitwise

CONSTANTS Definitions,     \* a sequence of sets of definitions: [name, parameters, reading, selected, finallyFunction]
          MaxDefinitions,
          Limits,          \* [source, tokens, depth, string, entries, bytes, work]
          Projections      \* the output options: [signed, fit]
VARIABLES values,          \* the context: name -> value
          retained, work,  \* bytes retained, work left
          emitted, skipped,
          options, history, failure
macroVars == <<values, retained, work, emitted, skipped, options, history, failure>>

W == 4
Half == 2 ^ (W - 1)
Wrap(n) == ((n + Half) % (2 * Half)) - Half
Unsigned(n) == n % (2 * Half)

V(t, n, len) == [t |-> t, n |-> n, len |-> len]
Bytes(v) == IF v.t = "Bytes" THEN v.len ELSE 0
numeric_value(v) == v.t \in {"Integer", "Float"}
Keywords == {"K"}
Overhead == 2

\* A parse: the value, the next token and the work left, or an error with the work left.
Done(v, at, left) == [err |-> "no", v |-> v, at |-> at, left |-> left]
Error(err, left) == [err |-> err, v |-> V("Invalid", 0, 0), at |-> 0, left |-> left]
Failed(r) == r.err # "no"
permits_alternative(r) == r.err \in {"Syntax", "InvalidLiteral", "UnknownIdentifier", "Keyword"}

------------------------------------------------------------------------------
(* The parser.  Tokens are [kind, text, v]; a literal carries its value.       *)
TokenIs(tokens, at, text) == at <= Len(tokens) /\ tokens[at].kind = "Punctuation" /\ tokens[at].text = text

\* One literal or identifier; what it costs is charged before it is looked at.
atom(context, tokens, at, left) ==
    IF at > Len(tokens) THEN Error("Syntax", left)
    ELSE IF left < 1 THEN Error("WorkLimit", 0)
    ELSE LET token == tokens[at]
             known == token.text \in DOMAIN context
             v == CASE token.kind = "Literal" -> token.v
                    [] token.kind = "Identifier" /\ known -> context[token.text]
                    [] OTHER -> V("Invalid", 0, 0)
             cost == 2 + (IF token.kind = "Identifier" THEN Bytes(v) ELSE 0)
         IN CASE token.kind = "Punctuation" -> Error("Syntax", left - 1)
              [] token.kind = "Identifier" /\ token.text \in Keywords -> Error("Keyword", left - 1)
              [] OTHER -> IF left < cost THEN Error("WorkLimit", left)
                          ELSE IF token.kind = "Identifier" /\ ~ known THEN Error("UnknownIdentifier", left - cost)
                          ELSE IF token.kind = "Literal" /\ token.text = "bad" THEN Error("InvalidLiteral", left - cost)
                          ELSE IF Bytes(v) > Limits.string THEN Error("StringLimit", left - cost)
                          ELSE Done(v, at + 1, left - cost)

\* The charge and the depth check of every nested parse; Done when it may go on.
enter(depth, left) ==
    IF left < 1 THEN Error("WorkLimit", left)
    ELSE IF depth >= Limits.depth THEN Error("DepthLimit", left - 1) ELSE Done(V("Invalid", 0, 0), 0, left - 1)

Negation(op, v) ==
    CASE op = "+" -> v
      [] op = "-" /\ v.t = "Integer" -> V("Integer", Wrap(-v.n), 0)
      [] op = "-" /\ v.t = "Float" -> v
      [] op = "~" /\ v.t = "Integer" -> V("Integer", -v.n - 1, 0)
      [] OTHER -> V("Invalid", 0, 0)

Quotient(a, b) ==
    LET q == (IF a < 0 THEN -a ELSE a) \div (IF b < 0 THEN -b ELSE b) IN IF (a < 0) = (b < 0) THEN q ELSE -q
binary(op, left, right) ==
    LET a == left.n b == right.n count == 2 ^ (Unsigned(b) % W)
        Whole(n) == Done(V("Integer", Wrap(n), 0), 0, 0)
    IN IF left.t = "Integer" /\ right.t = "Integer"
       THEN CASE op = "+" -> Whole(a + b) [] op = "-" -> Whole(a - b) [] op = "*" -> Whole(a * b)
              [] op \in {"/", "%"} /\ b = 0 -> Error("DivisionByZero", 0)
              [] op = "/" /\ b # 0 -> Whole(Quotient(a, b))
              [] op = "%" /\ b # 0 -> Whole(a - Quotient(a, b) * b)
              [] op = "<<" -> Whole(a * count) [] op = ">>" -> Whole(a \div count)
              [] op = "&" -> Whole(Unsigned(a) & Unsigned(b)) [] op = "|" -> Whole(Unsigned(a) | Unsigned(b))
              [] op = "^" -> Whole(Unsigned(a) ^^ Unsigned(b))
       ELSE IF op \in {"+", "-", "*", "/", "%"} THEN Done(V("Float", 0, 0), 0, 0) ELSE Error("Syntax", 0)

Precedence == [op \in {"|", "^", "&", "<<", ">>", "+", "-", "*", "/", "%"} |->
    CASE op = "|" -> 1 [] op = "^" -> 2 [] op = "&" -> 3 [] op \in {"<<", ">>"} -> 4 [] op \in {"+", "-"} -> 5 [] OTHER -> 6]

RECURSIVE numeric(_, _, _, _, _, _), operators(_, _, _, _, _), unary_value(_, _, _, _, _)
unary_value(context, tokens, at, depth, left) ==
    IF Failed(enter(depth, left)) THEN enter(depth, left)
    ELSE IF TokenIs(tokens, at, "(")
    THEN LET inner == numeric(context, tokens, at + 1, 1, depth + 1, left - 1)
         IN IF Failed(inner) THEN inner
            ELSE IF TokenIs(tokens, inner.at, ")") THEN [inner EXCEPT !.at = @ + 1] ELSE Error("Syntax", inner.left)
    ELSE IF \E op \in {"+", "-", "~"} : TokenIs(tokens, at, op)
    THEN LET operand == unary_value(context, tokens, at + 1, depth + 1, left - 1)
             v == Negation(tokens[at].text, operand.v)
         IN IF Failed(operand) THEN operand ELSE IF v.t = "Invalid" THEN Error("Syntax", operand.left) ELSE [operand EXCEPT !.v = v]
    ELSE LET r == atom(context, tokens, at, left - 1)
         IN IF Failed(r) \/ numeric_value(r.v) THEN r ELSE Error("Syntax", r.left)

\* The operators that follow an operand and bind at least as tightly as `minimum`.
operators(context, tokens, minimum, depth, operand) ==
    IF Failed(operand) \/ operand.at > Len(tokens) THEN operand
    ELSE LET op == tokens[operand.at].text
         IN IF tokens[operand.at].kind # "Punctuation" \/ op \notin DOMAIN Precedence THEN operand
            ELSE IF Precedence[op] < minimum THEN operand
            ELSE LET right == numeric(context, tokens, operand.at + 1, Precedence[op] + 1, depth + 1, operand.left)
                     result == binary(op, operand.v, right.v)
                 IN IF Failed(right) THEN right
                    ELSE IF Failed(result) THEN Error(result.err, right.left)
                    ELSE operators(context, tokens, minimum, depth, [right EXCEPT !.v = result.v])

numeric(context, tokens, at, minimum, depth, left) ==
    IF Failed(enter(depth, left)) THEN enter(depth, left)
    ELSE operators(context, tokens, minimum, depth, unary_value(context, tokens, at, depth, left - 1))

RECURSIVE strings(_, _, _), expression(_, _, _, _, _)
\* Strings that follow a string are joined to it, until something else follows.
strings(context, tokens, r) ==
    IF r.at > Len(tokens) THEN r
    ELSE LET next == atom(context, tokens, r.at, r.left)
         IN IF ~ Failed(next) /\ next.v.t = "Bytes"
            THEN IF r.v.len + next.v.len > Limits.string THEN Error("StringLimit", next.left)
                 ELSE IF next.left < next.v.len THEN Error("WorkLimit", next.left)
                 ELSE strings(context, tokens, [next EXCEPT !.v.len = r.v.len + @, !.left = @ - next.v.len])
            ELSE IF Failed(next) /\ ~ permits_alternative(next) THEN next
            ELSE [r EXCEPT !.left = next.left]

\* What follows a numeric attempt: a parenthesized value, a character or strings, if the attempt permits an alternative.
Alternative(context, tokens, at, depth, number) ==
    IF ~ Failed(number) \/ ~ permits_alternative(number) THEN number
    ELSE IF TokenIs(tokens, at, "(")
    THEN LET inner == expression(context, tokens, at + 1, depth + 1, number.left)
         IN IF Failed(inner) THEN inner
            ELSE IF TokenIs(tokens, inner.at, ")") THEN [inner EXCEPT !.at = @ + 1] ELSE Error("Syntax", inner.left)
    ELSE LET r == atom(context, tokens, at, number.left)
         IN IF Failed(r) \/ r.v.t # "Bytes" THEN r ELSE strings(context, tokens, r)
expression(context, tokens, at, depth, left) ==
    IF Failed(enter(depth, left)) THEN enter(depth, left)
    ELSE Alternative(context, tokens, at, depth, numeric(context, tokens, at, 1, depth, left - 1))

------------------------------------------------------------------------------
(* The context.                                                                *)
EntryBytes(v) == 1 + Overhead + Bytes(v)
RetainedForgetting(name, v) == retained + EntryBytes(v)
RetainedAfter(name, v) ==
    retained - (IF name \in DOMAIN values THEN EntryBytes(values[name]) ELSE 0) + EntryBytes(v)

\* Recording a value: nothing changes when a limit is met, except the work.
note(name, v, left) ==
    IF Bytes(v) > Limits.string THEN Error("StringLimit", left)
    ELSE IF left < 1 + Bytes(v) THEN Error("WorkLimit", left)
    ELSE IF RetainedAfter(name, v) > Limits.bytes \/ (name \notin DOMAIN values /\ Cardinality(DOMAIN values) >= Limits.entries)
    THEN Error("ContextLimit", left - 1 - Bytes(v))
    ELSE Done(v, 0, left - 1 - Bytes(v))

\* The parsed value, if nothing follows it.
Defined(d, tokens, r) ==
    IF Failed(r) THEN r
    ELSE IF r.at # Len(tokens) + 1 THEN Error("Syntax", r.left)
    ELSE note(d.name, r.v, r.left)

\* Evaluating one definition; the tokens of its parameters come before those of its replacement.
define(d, tokens) ==
    LET bytes == 1 + Len(tokens) + (IF d.parameters THEN 3 ELSE 0)
    IN IF work < bytes THEN Error("WorkLimit", work)
       ELSE IF bytes > Limits.source THEN Error("SourceLimit", work - bytes)
       ELSE IF d.name \in Keywords THEN Error("Keyword", work - bytes)
       ELSE IF Len(tokens) > Limits.tokens THEN Error("TokenLimit", work - bytes)
       ELSE Defined(d, tokens, expression(values, tokens, 1, 0, work - bytes))

\* The Rust representation: the smallest width that holds the integer; the code's 8, 16, 32 and 64 bits.
Widths == 1 .. W
ProjectedSigned(n, o) == n < 0 \/ o.signed
HoldsItsBound(bits, signed, n) == IF signed THEN n \in -(2 ^ (bits - 1)) .. 2 ^ (bits - 1) ELSE n < 2 ^ bits
HoldsNumber(bits, signed, n) == IF signed THEN n \in -(2 ^ (bits - 1)) .. 2 ^ (bits - 1) - 1 ELSE n < 2 ^ bits
NoProjection == [value |-> -1, bits |-> 0, signed |-> FALSE]
project(v, o) ==
    CASE v.t = "Integer" ->
           LET signed == ProjectedSigned(v.n, o)
               bits == CHOOSE b \in Widths : /\ HoldsNumber(b, signed, v.n) /\ (o.fit \/ b >= W - 1)
                                             /\ \A c \in Widths : HoldsNumber(c, signed, v.n) /\ (o.fit \/ c >= W - 1) => b <= c
           IN [value |-> Unsigned(v.n) % 2 ^ bits, bits |-> bits, signed |-> signed]
      [] v.t = "Character" -> IF v.n < 2 THEN [value |-> v.n, bits |-> 1, signed |-> FALSE] ELSE NoProjection
      [] v.t = "Bytes" -> [value |-> v.len, bits |-> 8, signed |-> FALSE]
      [] v.t = "Float" -> [value |-> 0, bits |-> 64, signed |-> TRUE]
      [] OTHER -> NoProjection

------------------------------------------------------------------------------
(* evaluate: the loop over the written definitions.                            *)
RECURSIVE Unparse(_)
T(kind, text, v) == [kind |-> kind, text |-> text, v |-> v]
Punct(text) == T("Punctuation", text, V("Invalid", 0, 0))
Unparse(e) ==
    CASE e.op = "lit" -> <<T("Literal", e.text, e.v)>>
      [] e.op = "name" -> <<T("Identifier", e.name, V("Invalid", 0, 0))>>
      [] e.op = "unary" -> <<Punct(e.sign)>> \o Unparse(e.of)
      [] e.op = "paren" -> <<Punct("(")>> \o Unparse(e.of) \o <<Punct(")")>>
      [] e.op = "binary" -> Unparse(e.l) \o <<Punct(e.sign)>> \o Unparse(e.r)
      [] e.op = "beside" -> Unparse(e.l) \o Unparse(e.r)
      [] e.op = "missing" -> Unparse(e.of) \o <<Punct("+")>>

ResourceLimits == {"SourceLimit", "TokenLimit", "DepthLimit", "StringLimit", "ContextLimit", "WorkLimit"}

MacrosInit ==
    /\ values = << >> /\ retained = 0 /\ work = Limits.work
    /\ emitted = << >> /\ skipped = {} /\ options \in Projections
    /\ history = << >> /\ failure = "no"

Bind(f, name, v) == [n \in DOMAIN f \cup {name} |-> IF n = name THEN v ELSE f[n]]
\* A name whose definition gave nothing is reported unless it has a constant already.
Omit(d) == IF d.selected /\ d.name \notin DOMAIN emitted THEN skipped \cup {d.name} ELSE skipped

EvaluateDefinition(d) ==
    /\ failure = "no"
    /\ history' = Append(history, d)
    /\ UNCHANGED options
    /\ IF d.finallyFunction
       THEN skipped' = Omit(d) /\ UNCHANGED <<values, retained, work, emitted, failure>>
       ELSE \E r \in {define(d, Unparse(d.reading))} :
            LET first == d.name \notin DOMAIN values
                projected == project(r.v, options)
            IN /\ work' = r.left
               /\ failure' = IF r.err \in ResourceLimits THEN r.err ELSE "no"
               /\ IF Failed(r)
                  THEN /\ skipped' = IF r.err \in ResourceLimits THEN skipped ELSE Omit(d)
                       /\ UNCHANGED <<values, retained, emitted>>
                  ELSE /\ values' = Bind(values, d.name, r.v)
                       /\ retained' = RetainedAfter(d.name, r.v)
                       /\ IF ~ first \/ ~ d.selected THEN UNCHANGED <<emitted, skipped>>
                          ELSE IF projected = NoProjection THEN skipped' = Omit(d) /\ UNCHANGED emitted
                          ELSE skipped' = skipped \ {d.name} /\ emitted' = Bind(emitted, d.name, projected)

MacrosNext ==
    /\ failure = "no" /\ Len(history) < MaxDefinitions
    /\ \E f \in DOMAIN Definitions : \E d \in Definitions[f] : EvaluateDefinition(d)
MacrosSpec == MacrosInit /\ [][MacrosNext]_macroVars

------------------------------------------------------------------------------
(* Reference: the value a written expression has, by its tree.                 *)
RECURSIVE MacroMeaning(_, _)
NoValue == V("none", 0, 0)
Numeric(v) == v.t \in {"Integer", "Float"}
MeaningOfBinary(sign, l, r) ==
    IF ~ (Numeric(l) /\ Numeric(r)) THEN NoValue
    ELSE LET result == binary(sign, l, r) IN IF Failed(result) THEN NoValue ELSE result.v
MacroMeaning(context, e) ==
    CASE e.op = "lit" -> IF e.text = "bad" THEN NoValue ELSE e.v
      [] e.op = "name" -> IF e.name \in DOMAIN context /\ e.name \notin Keywords THEN context[e.name] ELSE NoValue
      [] e.op = "unary" -> LET v == MacroMeaning(context, e.of)
                           IN IF ~ Numeric(v) \/ Negation(e.sign, v).t = "Invalid" THEN NoValue ELSE Negation(e.sign, v)
      [] e.op = "paren" -> MacroMeaning(context, e.of)
      [] e.op = "binary" -> MeaningOfBinary(e.sign, MacroMeaning(context, e.l), MacroMeaning(context, e.r))
      [] e.op = "beside" -> LET l == MacroMeaning(context, e.l) r == MacroMeaning(context, e.r)
                            IN IF l.t = "Bytes" /\ r.t = "Bytes" /\ e.l.op # "paren" /\ e.r.op # "paren"
                               THEN V("Bytes", 0, l.len + r.len) ELSE NoValue
      [] e.op = "missing" -> NoValue

\* The definitions that count: those before the one that met a limit.
Counted == IF failure = "no" THEN Len(history) ELSE Len(history) - 1
RECURSIVE ContextAfter(_)
ContextAfter(n) ==
    IF n = 0 THEN << >>
    ELSE LET before == ContextAfter(n - 1)
             d == history[n]
             v == MacroMeaning(before, d.reading)
         IN IF d.finallyFunction \/ d.name \in Keywords \/ v = NoValue THEN before ELSE Bind(before, d.name, v)
Parsed(n) == ~ history[n].finallyFunction /\ history[n].name \notin Keywords /\ MacroMeaning(ContextAfter(n - 1), history[n].reading) # NoValue
FirstParsed(n) == Parsed(n) /\ \A k \in 1 .. n - 1 : history[k].name = history[n].name => ~ Parsed(k)

\* The context holds, for every macro, the value of its latest definition that parses, read under the values of
\* its time, whatever was tried and taken back while parsing; its bytes are counted exactly and stay within the limit.
ContextExact ==
    /\ values = ContextAfter(Counted)
    /\ retained <= Limits.bytes
    /\ retained = FoldFunction(+, 0, [name \in DOMAIN values |-> EntryBytes(values[name])])

\* A macro gets a constant exactly when its first definition that parses is selected and can be projected; the
\* constant denotes the value of that definition.  A selected macro without one is reported.
EmittedExact ==
    LET given == {n \in 1 .. Counted : FirstParsed(n) /\ history[n].selected /\ project(MacroMeaning(ContextAfter(n - 1), history[n].reading), options) # NoProjection}
        Denotes(c) == IF c.signed /\ c.bits <= W /\ c.value >= 2 ^ (c.bits - 1) THEN c.value - 2 ^ c.bits ELSE c.value
    IN /\ DOMAIN emitted = {history[n].name : n \in given}
       /\ \A n \in given : LET v == MacroMeaning(ContextAfter(n - 1), history[n].reading)
                           IN v.t \in {"Integer", "Character"} => Denotes(emitted[history[n].name]) = v.n
       /\ skipped = {history[n].name : n \in {k \in 1 .. Counted : history[k].selected /\ (~ Parsed(k) \/ FirstParsed(k))}} \ DOMAIN emitted

==============================================================================
