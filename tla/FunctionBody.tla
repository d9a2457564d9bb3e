---------------------------- MODULE FunctionBody ----------------------------
(***************************************************************************)
(* The control flow of one function body in toucan_semantic (statement.rs: *)
(* FunctionContext and the functions that check statements): labels and    *)
(* gotos with the scopes of variably modified (VM) identifiers they must   *)
(* not enter, switches with their ranges, fallthrough annotations, loops   *)
(* and statement expressions.                                              *)
(*                                                                         *)
(* The checker walks a tree.  Here the tree is chosen during the walk: an  *)
(* activation of the checker is a frame, and where a statement or operand  *)
(* is due any one of the job's kinds may come.  A statement expression is  *)
(* entered once: the code keeps its result for later queries of its type.  *)
(* Types of expressions, the nesting limit and the retained graph are left *)
(* out.                                                                    *)
(***************************************************************************)
EXTENDS Integers, Sequences

CONSTANTS Labels,     \* names of labels
          Jobs,       \* [kinds, cases, size, c90, gnu]: bodies to check
          SignBit,    \* 2^(w-1) for the promoted type of a switch of w bits
          None

ASSUME BodyAssumption ==
    /\ SignBit \in Nat \ {0}
    /\ None \notin Nat
    /\ \A job \in Jobs :
          /\ job.cases \subseteq Int \X Int /\ job.size \in Nat
          /\ job.c90 \in BOOLEAN /\ job.gnu \in BOOLEAN

VARIABLES job,
          size,               \* statements and declarations met so far
          frames,             \* activations, innermost last
          scopes,             \* lexical_scopes: variably_modified of each
          vm_parents,         \* variably_modified_parents
          expression_parents, active_expression,
          loops,
          switches,           \* SwitchContext, innermost last
          switch_count,       \* stands for the offset of the next switch
          labels,             \* [Labels -> JumpScope or None]
          gotos,              \* {[label, scope]}
          fallthrough,        \* pending annotations: the switch of each
          status              \* "checking", "accepted", "rejected" or "jump"

scopeVars == <<scopes, vm_parents, expression_parents, active_expression>>
controlVars == <<loops, switches, switch_count, labels, gotos>>
vars == <<job, size, frames, scopeVars, controlVars, fallthrough, status>>

Top == frames[Len(frames)]
Innermost == switches[Len(switches)]
Outer(s) == SubSeq(s, 1, Len(s) - 1)
Checking == status = "checking"

EmptyScope == [variably_modified |-> None, live |-> {}]

\* with_block
Opened(n) == scopes \o [i \in 1..n |-> EmptyScope]
Closed(n) == SubSeq(scopes, 1, n)

\* with_control and substatement open no scope in C90.
ControlScopes == IF job.c90 THEN 0 ELSE 1

Frame(kind, pc) == [kind |-> kind, pc |-> pc, base |-> Len(scopes), expects |-> "any",
                    held |-> <<>>, previous |-> None, expression |-> None]

\* function_definition: the body is a list of items in a scope.
Init ==
    /\ job \in Jobs
    /\ size = 0
    /\ scopes = <<EmptyScope>>
    /\ frames = <<[kind |-> "body", pc |-> "items", base |-> 0, expects |-> "any",
                   held |-> <<>>, previous |-> None, expression |-> None]>>
    /\ vm_parents = <<>>
    /\ expression_parents = <<>> /\ active_expression = None
    /\ loops = 0
    /\ switches = <<>> /\ switch_count = 0
    /\ labels = [l \in Labels |-> None]
    /\ gotos = {}
    /\ fallthrough = <<>>
    /\ status = "checking"

-----------------------------------------------------------------------------
(* Scopes of variably modified identifiers *)

Holders == {i \in DOMAIN scopes : scopes[i].variably_modified # None}
\* Only the innermost scope is looked at.
ActiveInItsScope == scopes[Len(scopes)].variably_modified

active_variably_modified ==
    IF Holders = {} THEN None
    ELSE LET inner == CHOOSE i \in Holders : \A j \in Holders : j <= i
         IN  scopes[inner].variably_modified

\* What is in scope here, kept to compare the numbers with.
Live == UNION {scopes[i].live : i \in DOMAIN scopes}
Inside == {frames[i].expression : i \in DOMAIN frames} \ {None}

jump_scope == [variably_modified |-> active_variably_modified,
               statement_expression |-> active_expression,
               live |-> Live, inside |-> Inside]

Holding(lexical_scope, id) ==
    [variably_modified |-> id, live |-> lexical_scope.live \cup {id}]

\* The parent is looked for in the innermost scope only.
DeclareInItsScope ==
    LET id == Len(vm_parents) + 1
        inner == scopes[Len(scopes)].variably_modified
    IN  /\ vm_parents' = Append(vm_parents, inner)
        /\ scopes' = [scopes EXCEPT ![Len(scopes)] = Holding(@, id)]

declare_variably_modified ==
    LET id == Len(vm_parents) + 1
    IN  /\ vm_parents' = Append(vm_parents, active_variably_modified)
        /\ scopes' = [scopes EXCEPT ![Len(scopes)] = Holding(@, id)]

\* The last descendant of every node; children have larger numbers.
ancestry_ends(parents) ==
    LET end[id \in 0..Len(parents)] ==
            LET of == Len(parents) - id
                ends == {of} \cup {end[Len(parents) - c] :
                                     c \in {d \in of + 1 .. Len(parents) : parents[d] = of}}
            IN  CHOOSE m \in ends : \A n \in ends : n <= m
    IN  [id \in 1..Len(parents) |-> end[Len(parents) - id]]

enters_scope(target, source, ends) ==
    target # None /\ (source = None \/ source < target \/ source > ends[target])

-----------------------------------------------------------------------------
(* Where statements and operands are due *)

\* Kinds that an annotation may stand before; statement_inner.
Quiet == {"compound", "empty", "fallthrough", "case", "default"}
require_no_fallthrough == fallthrough = <<>>

\* A chain of labels is quiet if it ends in an empty or compound statement.
Fits(kind, quiet) ==
    LET blank == kind \in {"empty", "compound"} \/ (kind = "label" /\ quiet)
    IN  /\ Top.expects = "quiet" => blank
        /\ Top.expects = "other" => ~blank

Taken == IF Top.pc = "statement" THEN [frames EXCEPT ![Len(frames)].pc = "after"] ELSE frames

\* A body that has its size is finished with the plainest statements.
Due(kind, quiet) ==
    /\ Checking
    /\ \/ size < job.size /\ kind \in job.kinds
       \/ size = job.size /\ kind \in {"empty", "plain"} /\ Top.pc = "statement"
    /\ Top.pc \in {"items", "statement"} /\ Fits(kind, quiet)

Begin(kind, quiet) ==
    /\ Due(kind, quiet)
    /\ kind \notin Quiet /\ ~quiet => require_no_fallthrough
    /\ size' = IF size < job.size THEN size + 1 ELSE size

Push(frame) == frames' = Append(Taken, frame)
Step(pc) == frames' = [frames EXCEPT ![Len(frames)].pc = pc]
Pop == frames' = Outer(frames)

-----------------------------------------------------------------------------
(* Statements without parts *)

Empty ==
    /\ Begin("empty", FALSE)
    /\ frames' = Taken
    /\ UNCHANGED <<job, scopeVars, controlVars, fallthrough, status>>

\* return, and expressions whose parts do not matter
Plain ==
    /\ Begin("plain", FALSE)
    /\ frames' = Taken
    /\ UNCHANGED <<job, scopeVars, controlVars, fallthrough, status>>

Fallthrough ==
    /\ Begin("fallthrough", FALSE)
    /\ require_no_fallthrough /\ switches # <<>>
    /\ fallthrough' = Append(fallthrough, Innermost.offset)
    /\ frames' = Taken
    /\ UNCHANGED <<job, scopeVars, controlVars, status>>

Goto(l) ==
    /\ Begin("goto", FALSE)
    /\ gotos' = gotos \cup {[label |-> l, scope |-> jump_scope]}
    /\ frames' = Taken
    /\ UNCHANGED <<job, scopeVars, loops, switches, switch_count, labels, fallthrough, status>>

Break ==
    /\ Begin("break", FALSE)
    /\ loops > 0 \/ switches # <<>>
    /\ frames' = Taken
    /\ UNCHANGED <<job, scopeVars, controlVars, fallthrough, status>>

Continue ==
    /\ Begin("continue", FALSE)
    /\ loops > 0
    /\ frames' = Taken
    /\ UNCHANGED <<job, scopeVars, controlVars, fallthrough, status>>

-----------------------------------------------------------------------------
(* Labels *)

\* A label with an identifier.
Label(l, quiet) ==
    /\ Begin("label", quiet)
    /\ labels[l] = None
    /\ labels' = [labels EXCEPT ![l] = jump_scope]
    /\ Push([Frame("label", "statement") EXCEPT !.expects = IF quiet THEN "quiet" ELSE "other"])
    /\ UNCHANGED <<job, scopeVars, loops, switches, switch_count, gotos, fallthrough, status>>

check_switch_entry ==
    /\ switches # <<>>
    /\ active_expression = Innermost.statement_expression
    /\ active_variably_modified = Innermost.variably_modified

\* An annotation is followed by a label of its switch; only the first pending
\* one is looked at.
AnnotationsMatch ==
    fallthrough # <<>> => switches # <<>> /\ Innermost.offset = fallthrough[1]

\* convert to the type of the switch, with the sign bit inverted when signed:
\* unsigned numbers in the order of the converted values.
Ordered(v, signed) == (v + IF signed THEN SignBit ELSE 0) % (2 * SignBit)

\* A range that starts where another ends is not found.
OverlapsInside(ranges, low, high) ==
    \E r \in ranges :
        /\ r.low <= high /\ \A q \in ranges : q.low <= high => q.low <= r.low
        /\ low < r.high

\* Only the last range that starts at or before `high' is looked at.
Overlaps(ranges, low, high) ==
    \E r \in ranges :
        /\ r.low <= high /\ \A q \in ranges : q.low <= high => q.low <= r.low
        /\ low <= r.high

\* What C compares: values of the type of the switch.
TypeValues(signed) ==
    IF signed THEN -SignBit .. SignBit - 1 ELSE 0 .. 2 * SignBit - 1
Converted(v, signed) == CHOOSE x \in TypeValues(signed) : (x - v) % (2 * SignBit) = 0
Covered(low, high, signed) ==
    {x \in TypeValues(signed) : Converted(low, signed) <= x /\ x <= Converted(high, signed)}

\* case_range
Case(low, high) ==
    LET switch == Innermost
        from == Ordered(low, switch.signed)
        to == Ordered(high, switch.signed)
    IN  /\ Begin("case", FALSE)
        /\ AnnotationsMatch /\ check_switch_entry
        /\ from <= to /\ ~Overlaps(switch.ranges, from, to)
        /\ switches' = [switches EXCEPT ![Len(switches)].ranges =
                           {r \in @ : r.low # from} \cup
                           {[low |-> from, high |-> to, covered |-> Covered(low, high, switch.signed)]}]
        /\ fallthrough' = <<>>
        /\ Push(Frame("label", "statement"))
        /\ UNCHANGED <<job, scopeVars, loops, switch_count, labels, gotos, status>>

Default ==
    /\ Begin("default", FALSE)
    /\ AnnotationsMatch /\ check_switch_entry
    /\ ~Innermost.has_default
    /\ switches' = [switches EXCEPT ![Len(switches)].has_default = TRUE]
    /\ fallthrough' = <<>>
    /\ Push(Frame("label", "statement"))
    /\ UNCHANGED <<job, scopeVars, loops, switch_count, labels, gotos, status>>

EndLabel ==
    /\ Checking /\ Top.kind = "label" /\ Top.pc = "after"
    /\ Pop
    /\ UNCHANGED <<job, size, scopeVars, controlVars, fallthrough, status>>

-----------------------------------------------------------------------------
(* Blocks, declarations and statement expressions *)

Compound ==
    /\ Begin("compound", FALSE)
    /\ Push(Frame("compound", "items"))
    /\ scopes' = Opened(1)
    /\ UNCHANGED <<job, vm_parents, expression_parents, active_expression, controlVars,
                   fallthrough, status>>

EndCompound ==
    /\ Checking /\ Top.kind = "compound"
    /\ Pop
    /\ scopes' = Closed(Top.base)
    /\ UNCHANGED <<job, size, vm_parents, expression_parents, active_expression, controlVars,
                   fallthrough, status>>

\* An expression statement with operands.
Expression ==
    /\ Begin("expression", FALSE)
    /\ Push(Frame("expression", "operand"))
    /\ UNCHANGED <<job, scopeVars, controlVars, fallthrough, status>>

\* block_declaration_inner: operands of the declarator, then the identifier is
\* there, then operands of its initializer.  Objects and VM types need that no
\* annotation is pending, typedefs and functions do not.
Declare(kind) ==
    /\ Checking /\ size < job.size
    /\ kind \in job.kinds \cap {"vm", "object", "typedef"}
    /\ \/ Top.pc = "items"
       \/ Top.pc = "init" /\ kind # "typedef" /\ ~(job.c90 /\ job.gnu)
    /\ size' = size + 1
    /\ Push(Frame(kind, "operand"))
    /\ UNCHANGED <<job, scopeVars, controlVars, fallthrough, status>>

Declared ==
    /\ Checking /\ Top.kind \in {"vm", "object", "typedef"} /\ Top.pc = "operand"
    /\ Top.kind # "typedef" => require_no_fallthrough
    /\ Step("initializer")
    /\ IF Top.kind = "vm" THEN declare_variably_modified ELSE UNCHANGED <<scopes, vm_parents>>
    /\ UNCHANGED <<job, size, expression_parents, active_expression, controlVars, fallthrough,
                   status>>

\* The operands of an expression or an initializer end.
EndOperands ==
    /\ Checking
    /\ \/ Top.kind = "expression"
       \/ Top.kind \in {"vm", "object", "typedef"} /\ Top.pc = "initializer"
    /\ Pop
    /\ UNCHANGED <<job, size, scopeVars, controlVars, fallthrough, status>>

\* Annotations pending outside are lost.
ExpressionForgets ==
    /\ Checking /\ size < job.size /\ "statement_expression" \in job.kinds
    /\ Top.pc \in {"operand", "initializer", "init"}
    /\ size' = size + 1
    /\ LET id == Len(expression_parents) + 1
       IN  /\ frames' = Append(frames, [Frame("statement_expression", "items") EXCEPT
                                           !.previous = active_expression, !.expression = id])
           /\ active_expression' = id
    /\ expression_parents' = Append(expression_parents, active_expression)
    /\ fallthrough' = <<>>
    /\ scopes' = Opened(1)
    /\ UNCHANGED <<job, vm_parents, controlVars, status>>

statement_expression ==
    /\ Checking /\ size < job.size /\ "statement_expression" \in job.kinds
    /\ Top.pc \in {"operand", "initializer", "init"}
    /\ size' = size + 1
    /\ LET id == Len(expression_parents) + 1
       IN  /\ frames' = Append(frames, [Frame("statement_expression", "items") EXCEPT
                                           !.previous = active_expression, !.expression = id,
                                           !.held = fallthrough])
           /\ active_expression' = id
    /\ expression_parents' = Append(expression_parents, active_expression)
    /\ fallthrough' = <<>>
    /\ scopes' = Opened(1)
    /\ UNCHANGED <<job, vm_parents, controlVars, status>>

EndStatementExpression ==
    /\ Checking /\ Top.kind = "statement_expression" /\ require_no_fallthrough
    /\ Pop
    /\ scopes' = Closed(Top.base)
    /\ active_expression' = Top.previous
    /\ fallthrough' = Top.held
    /\ UNCHANGED <<job, size, vm_parents, expression_parents, controlVars, status>>

-----------------------------------------------------------------------------
(* Selections and loops *)

Controlled(kind, pc) == Push(Frame(kind, pc)) /\ scopes' = Opened(ControlScopes)

\* Scopes around the substatement of the top frame.
SubScopes == Opened(ControlScopes)
ControlOnly == Closed(Top.base + ControlScopes)

If ==
    /\ Begin("if", FALSE)
    /\ Controlled("if", "operand")
    /\ UNCHANGED <<job, vm_parents, expression_parents, active_expression, controlVars,
                   fallthrough, status>>

Then ==
    /\ Checking /\ Top.kind = "if" /\ Top.pc = "operand"
    /\ Step("statement")
    /\ scopes' = SubScopes
    /\ UNCHANGED <<job, size, vm_parents, expression_parents, active_expression, controlVars,
                   fallthrough, status>>

\* then_fallthrough is put aside while the second branch is checked, if there
\* is one, and the two are joined.
Else ==
    /\ Checking /\ Top.kind = "if" /\ Top.pc = "after" /\ size < job.size
    /\ frames' = [frames EXCEPT ![Len(frames)] =
                     [@ EXCEPT !.kind = "else", !.pc = "statement", !.held = fallthrough]]
    /\ fallthrough' = <<>>
    /\ scopes' = ControlOnly \o [i \in 1..ControlScopes |-> EmptyScope]
    /\ UNCHANGED <<job, size, vm_parents, expression_parents, active_expression, controlVars,
                   status>>

EndIf ==
    /\ Checking /\ Top.kind \in {"if", "else"} /\ Top.pc = "after"
    /\ Pop
    /\ scopes' = Closed(Top.base)
    /\ fallthrough' = Top.held \o fallthrough
    /\ UNCHANGED <<job, size, vm_parents, expression_parents, active_expression, controlVars,
                   status>>

\* Loops test their condition inside with_loop, except in the GNU profile: there
\* a `break' of the condition belongs to the loop around.  A `for' may declare.
InLoop == ~job.gnu

While(kind) ==
    /\ Begin(kind, FALSE)
    /\ kind \in {"while", "for"}
    /\ Controlled(kind, IF kind = "for" THEN "init" ELSE "operand")
    /\ loops' = IF kind = "while" /\ InLoop THEN loops + 1 ELSE loops
    /\ UNCHANGED <<job, vm_parents, expression_parents, active_expression, switches, switch_count,
                   labels, gotos, fallthrough, status>>

\* The initializer of a `for' is over.
ForClauses ==
    /\ Checking /\ Top.kind = "for" /\ Top.pc = "init"
    /\ Step("operand")
    /\ loops' = IF InLoop THEN loops + 1 ELSE loops
    /\ UNCHANGED <<job, size, scopeVars, switches, switch_count, labels, gotos, fallthrough,
                   status>>

LoopBody ==
    /\ Checking /\ Top.kind \in {"while", "for"} /\ Top.pc = "operand"
    /\ Step("statement")
    /\ scopes' = SubScopes
    /\ loops' = IF InLoop THEN loops ELSE loops + 1
    /\ UNCHANGED <<job, size, vm_parents, expression_parents, active_expression, switches,
                   switch_count, labels, gotos, fallthrough, status>>

EndLoop ==
    /\ Checking /\ Top.kind \in {"while", "for"} /\ Top.pc = "after" /\ require_no_fallthrough
    /\ Pop
    /\ scopes' = Closed(Top.base)
    /\ loops' = loops - 1
    /\ UNCHANGED <<job, size, vm_parents, expression_parents, active_expression, switches,
                   switch_count, labels, gotos, fallthrough, status>>

Do ==
    /\ Begin("do", FALSE)
    /\ Push(Frame("do", "statement"))
    /\ scopes' = Opened(2 * ControlScopes)
    /\ loops' = loops + 1
    /\ UNCHANGED <<job, vm_parents, expression_parents, active_expression, switches, switch_count,
                   labels, gotos, fallthrough, status>>

DoCondition ==
    /\ Checking /\ Top.kind = "do" /\ Top.pc = "after"
    /\ InLoop \/ require_no_fallthrough
    /\ Step("operand")
    /\ scopes' = ControlOnly
    /\ loops' = IF InLoop THEN loops ELSE loops - 1
    /\ UNCHANGED <<job, size, vm_parents, expression_parents, active_expression, switches,
                   switch_count, labels, gotos, fallthrough, status>>

EndDo ==
    /\ Checking /\ Top.kind = "do" /\ Top.pc = "operand"
    /\ InLoop => require_no_fallthrough
    /\ Pop
    /\ scopes' = Closed(Top.base)
    /\ loops' = IF InLoop THEN loops - 1 ELSE loops
    /\ UNCHANGED <<job, size, vm_parents, expression_parents, active_expression, switches,
                   switch_count, labels, gotos, fallthrough, status>>

Switch ==
    /\ Begin("switch", FALSE)
    /\ Controlled("switch", "operand")
    /\ UNCHANGED <<job, vm_parents, expression_parents, active_expression, controlVars,
                   fallthrough, status>>

SwitchBody(signed) ==
    /\ Checking /\ Top.kind = "switch" /\ Top.pc = "operand"
    /\ switches' = Append(switches,
           [offset |-> switch_count, signed |-> signed, ranges |-> {}, has_default |-> FALSE,
            variably_modified |-> active_variably_modified,
            statement_expression |-> active_expression, live |-> Live, inside |-> Inside])
    /\ switch_count' = switch_count + 1
    /\ Step("statement")
    /\ scopes' = SubScopes
    /\ UNCHANGED <<job, size, vm_parents, expression_parents, active_expression, loops, labels,
                   gotos, fallthrough, status>>

EndSwitch ==
    /\ Checking /\ Top.kind = "switch" /\ Top.pc = "after" /\ require_no_fallthrough
    /\ Pop
    /\ scopes' = Closed(Top.base)
    /\ switches' = Outer(switches)
    /\ UNCHANGED <<job, size, vm_parents, expression_parents, active_expression, loops,
                   switch_count, labels, gotos, fallthrough, status>>

-----------------------------------------------------------------------------
(* The end of the body, and errors *)

BadJump(goto) ==
    \/ labels[goto.label] = None
    \/ enters_scope(labels[goto.label].variably_modified, goto.scope.variably_modified,
                    ancestry_ends(vm_parents))
    \/ enters_scope(labels[goto.label].statement_expression, goto.scope.statement_expression,
                    ancestry_ends(expression_parents))

EndBody ==
    /\ Checking /\ Top.kind = "body" /\ require_no_fallthrough
    /\ status' = IF \E goto \in gotos : BadJump(goto) THEN "jump" ELSE "accepted"
    /\ UNCHANGED <<job, size, frames, scopeVars, controlVars, fallthrough>>

\* What the handlers above refuse: a pending annotation where none may be, or a
\* label, jump or annotation where it has no place.
Refused ==
    \/ /\ fallthrough # <<>>
       /\ \/ \E kind \in job.kinds \ Quiet : Due(kind, FALSE) /\ kind # "label"
          \/ Due("fallthrough", FALSE) \/ Due("label", FALSE)
          \/ Top.kind \in {"vm", "object"} /\ Top.pc = "operand"
          \/ Top.kind \in {"statement_expression", "body"}
          \/ Top.kind \in {"while", "for", "switch"} /\ Top.pc = "after"
          \/ Top.kind = "do" /\ Top.pc = IF InLoop THEN "operand" ELSE "after"
    \/ Due("fallthrough", FALSE) /\ switches = <<>>
    \/ Due("break", FALSE) /\ loops = 0 /\ switches = <<>>
    \/ Due("continue", FALSE) /\ loops = 0
    \/ \E l \in Labels, quiet \in BOOLEAN : Due("label", quiet) /\ labels[l] # None
    \/ Due("case", FALSE) \* also: its expression has no constant value
    \/ Due("default", FALSE) /\ ~(AnnotationsMatch /\ check_switch_entry /\ ~Innermost.has_default)
    \/ Top.pc = "init" /\ size < job.size /\ "typedef" \in job.kinds
    \/ Top.pc = "init" /\ size < job.size /\ job.c90 /\ job.gnu /\ job.kinds \cap {"vm", "object"} # {}

Fail ==
    /\ Checking /\ Refused
    /\ status' = "rejected"
    /\ UNCHANGED <<job, size, frames, scopeVars, controlVars, fallthrough>>

Done == ~Checking /\ UNCHANGED vars

Next ==
    \/ Empty \/ Plain \/ Fallthrough \/ Break \/ Continue
    \/ \E l \in Labels : Goto(l) \/ \E quiet \in BOOLEAN : Label(l, quiet)
    \/ \E c \in job.cases : Case(c[1], c[2])
    \/ Default \/ EndLabel
    \/ Compound \/ EndCompound \/ Expression
    \/ \E kind \in {"vm", "object", "typedef"} : Declare(kind)
    \/ Declared \/ EndOperands \/ statement_expression \/ EndStatementExpression
    \/ If \/ Then \/ Else \/ EndIf
    \/ \E kind \in {"while", "for"} : While(kind)
    \/ ForClauses \/ LoopBody \/ EndLoop
    \/ Do \/ DoCondition \/ EndDo
    \/ Switch \/ \E signed \in BOOLEAN : SwitchBody(signed)
    \/ EndSwitch \/ EndBody \/ Fail \/ Done

Spec == Init /\ [][Next]_vars

-----------------------------------------------------------------------------
(* Properties *)

\* Whether a body is accepted depends on what its gotos really enter: the
\* numbers of VM declarations and statement expressions, and the intervals made
\* of them at the end, say exactly which scopes a label is in and a goto is not.
EntersNothing(goto) ==
    /\ labels[goto.label] # None
    /\ labels[goto.label].live \subseteq goto.scope.live
    /\ labels[goto.label].inside \subseteq goto.scope.inside

JumpsExact ==
    /\ status = "accepted" => \A goto \in gotos : EntersNothing(goto)
    /\ status = "jump" => \E goto \in gotos : ~EntersNothing(goto)

\* A switch label that is accepted is in the same VM scopes and statement
\* expressions as its switch.
LabelStep ==
    /\ Len(switches') = Len(switches) /\ switches' # switches
SwitchEntersNothing ==
    [][LabelStep => Live = Innermost.live /\ Inside = Innermost.inside]_vars

\* "duplicate or overlapping switch cases" (case_range): looking at one range
\* finds every overlap, and only overlaps, of the values C compares.
CaseTestExact ==
    switches # <<>> =>
        \A c \in job.cases :
            LET from == Ordered(c[1], Innermost.signed)
                to == Ordered(c[2], Innermost.signed)
                covered == Covered(c[1], c[2], Innermost.signed)
            IN  /\ from <= to <=> covered # {}
                /\ from <= to =>
                      (Overlaps(Innermost.ranges, from, to)
                         <=> \E r \in Innermost.ranges : r.covered \cap covered # {})

\* "Pending annotations [...] must reach a label in their enclosing switch"
\* (require_no_fallthrough): an annotation, also one put aside by a branch or a
\* statement expression, is only taken away by a label of its own switch.
RangeOf(s) == {s[i] : i \in DOMAIN s}
Pending == RangeOf(fallthrough) \cup UNION {RangeOf(frames[i].held) : i \in DOMAIN frames}
FallthroughReachesItsSwitch ==
    [][\A switch \in Pending \ Pending' : LabelStep /\ Innermost.offset = switch]_vars

\* statement.rs: a case or default label never stands in a scope its switch does not
\* (a switch enters no scope of a variably modified identifier or a statement
\* expression), only a label of its own switch takes a fallthrough annotation away,
\* and looking at one neighbouring case range finds every overlap.
BodiesExact == SwitchEntersNothing /\ FallthroughReachesItsSwitch /\ []CaseTestExact
=============================================================================
