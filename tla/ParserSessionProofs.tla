------------------------ MODULE ParserSessionProofs ------------------------
(***************************************************************************)
(* Proofs about ParserSession, for every source, every limits and every    *)
(* width of the counters.                                                  *)
(***************************************************************************)
EXTENDS ParserSession, FiniteSetTheorems, SequenceTheorems, NaturalsInduction, WellFoundedInduction, TLAPS

-----------------------------------------------------------------------------
(* The budget                                                              *)

\* c is b after charges: the nesting and an earlier failure are as they were, and
\* the counter is exact if it was.
Spent(b, c) ==
    /\ c \in Budgets /\ c.limits = b.limits /\ c.depth = b.depth
    /\ b.failure # None => c.failure = b.failure
    /\ (b.failure = None => b.work = b.charged) => (c.failure = None => c.work = c.charged)

\* The parts of a budget.
LEMMA BudgetParts ==
    ASSUME NEW b \in Budgets
    PROVE  /\ b.limits \in Limits /\ b.work \in 0 .. WordMax /\ b.charged \in Nat
           /\ b.furthest \in Nat /\ b.back \in Nat /\ b.depth \in Nat
           /\ b.failure \in Failures \cup {None}
           /\ b.limits.max_work \in 0 .. WordMax /\ b.limits.max_backtracking_steps \in Nat
           /\ b.limits.max_rule_depth \in Nat
           /\ WordMax \in Nat /\ None \notin Failures
  BY BudgetAssumption, NoneAssumption DEF Budgets

LEMMA SpentNothing ==
    ASSUME NEW b \in Budgets
    PROVE  Spent(b, b)
  BY DEF Spent

LEMMA SpentTwice ==
    ASSUME NEW b, NEW c, NEW d, Spent(b, c), Spent(c, d)
    PROVE  Spent(b, d)
  BY DEF Spent

\* A failure recorded where there was none.
LEMMA FailedAtSpends ==
    ASSUME NEW b \in Budgets, NEW offset \in Nat, b.failure = None,
           NEW kind \in {"Work", "BacktrackingSteps", "RuleDepth", "AstDepth", "CacheBytes",
                         "MetadataEntries"}
    PROVE  Spent(b, FailedAt(b, kind, offset)) /\ FailedAt(b, kind, offset).failure # None
  BY BudgetParts, NoneAssumption DEF Spent, FailedAt, Budgets, Failures

LEMMA CheckSpends ==
    ASSUME NEW b \in Budgets, NEW offset \in Nat, NEW observed \in Nat, NEW limit \in Nat,
           NEW kind \in {"Work", "BacktrackingSteps", "RuleDepth", "AstDepth", "CacheBytes",
                         "MetadataEntries"}
    PROVE  /\ Spent(b, check(b, kind, offset, observed, limit))
           /\ check(b, kind, offset, observed, limit).failure = None =>
                 /\ b.failure = None /\ observed <= limit
                 /\ check(b, kind, offset, observed, limit) = b
  BY SpentNothing, FailedAtSpends DEF check

\* work.
LEMMA WorkSpends ==
    ASSUME NEW b \in Budgets, NEW offset \in Nat, NEW amount \in Nat
    PROVE  /\ Spent(b, work(b, offset, amount))
           /\ work(b, offset, amount).failure = None => b.failure = None
           /\ work(b, offset, amount).furthest = b.furthest
           /\ work(b, offset, amount).back = b.back
  <1>1. CASE b.failure # None BY <1>1, SpentNothing DEF work
  <1>2. CASE b.failure = None
    <2> DEFINE total == b.work + amount
               new == [b EXCEPT !.work = IF total > WordMax THEN WordMax ELSE total,
                                !.charged = @ + amount]
    <2>1. total \in Nat BY BudgetParts
    <2>2. new \in Budgets
      <3>1. (IF total > WordMax THEN WordMax ELSE total) \in 0 .. WordMax BY <2>1, BudgetParts
      <3>2. b.charged + amount \in Nat BY BudgetParts
      <3> HIDE DEF total
      <3> QED BY <3>1, <3>2 DEF Budgets
    <2>3. /\ new.limits = b.limits /\ new.depth = b.depth /\ new.failure = None
          /\ new.work \in Nat /\ new.charged = b.charged + amount
          /\ new.furthest = b.furthest /\ new.back = b.back
          /\ total <= WordMax => new.work = b.work + amount
      BY <1>2, <2>1, BudgetParts DEF Budgets
    <2>4. CASE total > WordMax
      <3>1. work(b, offset, amount) = FailedAt(new, "Work", offset) BY <1>2, <2>4 DEF work
      <3>2. Spent(new, FailedAt(new, "Work", offset)) /\ FailedAt(new, "Work", offset).failure # None
        BY <2>2, <2>3, FailedAtSpends, ZenonT(60)
      <3>3. FailedAt(new, "Work", offset).furthest = new.furthest /\ FailedAt(new, "Work", offset).back = new.back
        BY <2>2 DEF FailedAt, Budgets
      <3> HIDE DEF new
      <3> QED BY <3>1, <3>2, <3>3, <1>2, <2>3 DEF Spent
    <2>5. CASE total <= WordMax
      <3>1. work(b, offset, amount) = check(new, "Work", offset, new.work, b.limits.max_work)
        <4>1. ~(total > WordMax) BY <2>1, <2>5, BudgetParts
        <4> QED BY <4>1, <1>2 DEF work
      <3>2. Spent(new, check(new, "Work", offset, new.work, b.limits.max_work))
        BY <2>2, <2>3, CheckSpends, BudgetParts
      <3>3. Spent(b, new) BY <1>2, <2>1, <2>2, <2>3, <2>5, BudgetParts DEF Spent
      <3>4. check(new, "Work", offset, new.work, b.limits.max_work).furthest = new.furthest
            /\ check(new, "Work", offset, new.work, b.limits.max_work).back = new.back
        BY <2>2 DEF check, FailedAt, Budgets
      <3> HIDE DEF new
      <3> QED BY <3>1, <3>2, <3>3, <3>4, <1>2, <2>3, SpentTwice
    <2> QED BY <2>1, <2>4, <2>5, BudgetParts
  <1> QED BY <1>1, <1>2

\* step.
LEMMA StepSpends ==
    ASSUME NEW b \in Budgets, NEW offset \in Nat
    PROVE  /\ Spent(b, step(b, offset))
           /\ step(b, offset).failure = None => b.failure = None
  <1> DEFINE charged == work(b, offset, 1)
             steps == IF offset > b.furthest THEN 1 ELSE b.back + 1
             moved == [charged EXCEPT !.furthest = Larger(@, offset), !.back = steps]
             limit == b.limits.max_backtracking_steps
  <1>1. Spent(b, charged) /\ (charged.failure = None => b.failure = None) BY WorkSpends
  <1>2. CASE charged.failure # None BY <1>1, <1>2 DEF step
  <1>3. CASE charged.failure = None
    <2>1. step(b, offset) = check(moved, "BacktrackingSteps", offset, steps, limit)
      BY <1>3 DEF step
    <2>2. charged \in Budgets /\ steps \in Nat /\ limit \in Nat BY <1>1, BudgetParts DEF Spent
    <2> HIDE DEF charged, steps, limit
    <2>3. moved \in Budgets /\ Spent(charged, moved) /\ moved.failure = charged.failure
      BY <2>2, BudgetParts DEF Spent, Larger, Budgets
    <2> HIDE DEF moved
    <2>4. Spent(moved, check(moved, "BacktrackingSteps", offset, steps, limit))
      BY <2>2, <2>3, CheckSpends
    <2> QED BY <1>1, <1>3, <2>1, <2>3, <2>4, SpentTwice
  <1> QED BY <1>2, <1>3

\* enter: one deeper and within the limit, or failed.
LEMMA EnterSpends ==
    ASSUME NEW b \in Budgets, NEW offset \in Nat
    PROVE  /\ enter(b, offset).failure # None => Spent(b, enter(b, offset))
           /\ enter(b, offset).failure = None =>
                 /\ b.failure = None /\ enter(b, offset) \in Budgets
                 /\ enter(b, offset).limits = b.limits
                 /\ enter(b, offset).depth = b.depth + 1
                 /\ b.depth + 1 <= b.limits.max_rule_depth
                 /\ (b.work = b.charged) => (enter(b, offset).work = enter(b, offset).charged)
  <1> DEFINE s == step(b, offset)
             c == check(s, "RuleDepth", offset, b.depth + 1, b.limits.max_rule_depth)
  <1>1. Spent(b, s) /\ (s.failure = None => b.failure = None) BY StepSpends
  <1>2. Spent(s, c) /\ (c.failure = None => s.failure = None /\ b.depth + 1 <= b.limits.max_rule_depth /\ c = s)
    <2>1. s \in Budgets /\ b.depth + 1 \in Nat /\ b.limits.max_rule_depth \in Nat BY <1>1, BudgetParts DEF Spent
    <2> HIDE DEF s
    <2>3. Spent(s, c) BY <2>1, CheckSpends
    <2>4. c.failure = None => s.failure = None /\ b.depth + 1 <= b.limits.max_rule_depth /\ c = s
      <3>1. s \in Budgets /\ b.depth + 1 \in Nat /\ b.limits.max_rule_depth \in Nat /\ offset \in Nat BY <2>1
      <3> QED BY ONLY <3>1, CheckSpends, SMTT(40)
    <2> QED BY <2>3, <2>4
  <1>3. enter(b, offset) = IF c.failure # None THEN c ELSE [c EXCEPT !.depth = @ + 1] BY DEF enter
  <1> HIDE DEF s, c
  <1>4. Spent(b, c) BY <1>1, <1>2, SpentTwice
  <1>5. CASE c.failure # None BY <1>3, <1>4, <1>5
  <1>6. CASE c.failure = None
    <2>1. c \in Budgets /\ c.depth = b.depth /\ b.depth \in Nat BY <1>4, BudgetParts DEF Spent
    <2>2. enter(b, offset) = [c EXCEPT !.depth = @ + 1] BY <1>3, <1>6
    <2>3. [c EXCEPT !.depth = @ + 1] \in Budgets BY <2>1 DEF Budgets
    <2>4. /\ [c EXCEPT !.depth = @ + 1].failure = None /\ [c EXCEPT !.depth = @ + 1].depth = b.depth + 1
          /\ [c EXCEPT !.depth = @ + 1].limits = c.limits /\ [c EXCEPT !.depth = @ + 1].work = c.work
          /\ [c EXCEPT !.depth = @ + 1].charged = c.charged
      BY <2>1, <1>6 DEF Budgets
    <2> QED BY <1>1, <1>2, <1>4, <1>6, <2>2, <2>3, <2>4 DEF Spent
  <1> QED BY <1>5, <1>6

\* leave: one less deep, and nothing else but charges.
LEMMA LeaveSpends ==
    ASSUME NEW b \in Budgets, NEW offset \in Nat, NEW end \in Nat \cup {None}, b.depth > 0
    PROVE  /\ leave(b, offset, end) \in Budgets
           /\ leave(b, offset, end).limits = b.limits
           /\ leave(b, offset, end).depth = b.depth - 1
           /\ b.failure # None => leave(b, offset, end).failure = b.failure
           /\ (b.failure = None => b.work = b.charged) =>
              (leave(b, offset, end).failure = None => leave(b, offset, end).work = leave(b, offset, end).charged)
  <1> DEFINE left == [b EXCEPT !.depth = @ - 1]
  <1>1. /\ left \in Budgets /\ left.limits = b.limits /\ left.depth = b.depth - 1
        /\ left.failure = b.failure /\ left.work = b.work /\ left.charged = b.charged
    BY BudgetParts DEF Budgets
  <1>2. leave(b, offset, end) = IF end = None THEN left ELSE work(left, offset, Larger(end - offset, 0))
    BY DEF leave
  <1>3. end # None => Larger(end - offset, 0) \in Nat BY DEF Larger
  <1> HIDE DEF left
  <1>4. CASE end = None BY <1>1, <1>2, <1>4
  <1>5. CASE end # None
    <2>1. Spent(left, work(left, offset, Larger(end - offset, 0))) BY <1>1, <1>3, <1>5, WorkSpends
    <2> QED BY <1>1, <1>2, <1>5, <2>1 DEF Spent
  <1> QED BY <1>4, <1>5

\* Building a node.
LEMMA NodeSpends ==
    ASSUME NEW b \in Budgets, NEW offset \in Nat, NEW c \in NodeOutcomes(b, offset)
    PROVE  Spent(b, c) /\ (c.failure = None => b.failure = None)
  <1>1. CASE b.failure # None BY <1>1, SpentNothing DEF NodeOutcomes
  <1>2. CASE b.failure = None
    <2>1. CASE \E cost \in NodeCosts : c = work(b, offset, cost)
      BY <2>1, WorkSpends, SessionAssumption
    <2>2. CASE \E kind \in {"AstDepth", "MetadataEntries"} : c = FailedAt(b, kind, offset)
      BY <2>2, <1>2, FailedAtSpends
    <2> QED BY <1>2, <2>1, <2>2 DEF NodeOutcomes
  <1> QED BY <1>1, <1>2

-----------------------------------------------------------------------------
(* The shapes of steps                                                     *)

\* f may stand for the top: the same rule, holding what it held.
SameActivation(f) ==
    /\ f \in Activations /\ f.rule = Top.rule /\ f.kind = Top.kind
    /\ f.depth = Top.depth /\ f.scopes = Top.scopes

\* The rule goes on, perhaps past one token.
Rewrites(f) ==
    /\ status = "run" /\ SameActivation(f) /\ stack' = SetTop(f)
    /\ Spent(budget, budget')
    /\ symbols' \in Seq(Scopes) /\ Len(symbols') = Len(symbols)
    /\ UNCHANGED inputVars
    /\ \/ cursor' = cursor
       \/ cursor' = cursor + 1 /\ cursor < lexed /\ budget.failure = None

\* The rule goes on as f and calls another, whose activation is a.
Calls(f, a) ==
    /\ status = "run" /\ SameActivation(f) /\ stack' = Append(SetTop(f), a)
    /\ a \in Activations /\ a.depth = budget.depth /\ a.scopes = Len(symbols) /\ a.start = cursor
    /\ a.fun = None /\ a.ahead = 0
    /\ budget' \in Budgets /\ budget'.limits = budget.limits
    /\ budget'.failure = budget.failure
    /\ budget'.depth = budget.depth + DepthHeld(a)
    /\ budget'.depth <= budget.limits.max_rule_depth
    /\ (budget.failure = None => budget.work = budget.charged) =>
          (budget.failure = None => budget'.work = budget'.charged)
    /\ symbols' \in Seq(Scopes) /\ Len(symbols') = Len(symbols) + ScopesHeld(a)
    /\ UNCHANGED <<inputVars, cursor>>

\* The rule fails.
Fails ==
    /\ status = "run" /\ status' = "error" /\ Spent(budget, budget')
    /\ definition_scopes' \in {definition_scopes, None}
    /\ UNCHANGED <<source, lexed, cursor, stack, symbols, defined>>

\* A step that neither begins nor ends a head or a function suffix.
QuietFrame(f) ==
    /\ f.start = Top.start \/ Top.rule \in {"block", "body", "unit"}
    /\ f.fun = Top.fun \/ (f.fun = None /\ Top.rule = "params")
    /\ f.ahead = Top.ahead \/ Top.rule = "external"
    /\ Top.rule = "external" =>
          Top.at # "begun" /\ f.at # "begun" /\ (Top.at = "declared" <=> f.at = "declared")
    /\ Top.rule = "declarator" =>
          /\ Top.at # "paren" /\ f.at # "paren" /\ f.at # "function"
          /\ f.at \in {"prefix", "inner"} => Top.at = "prefix"

Quiet == \E f : Rewrites(f) /\ QuietFrame(f) /\ UNCHANGED <<definition_scopes, defined>>

QuietCallee(f, a) ==
    /\ f.start = Top.start \/ Top.rule = "unit"
    /\ f.fun = Top.fun /\ f.ahead = Top.ahead
    /\ a.rule \notin {"unit", "params", "body"} /\ (a.rule = "external" => Top.rule = "unit" /\ a.at = "specifiers")
    /\ a.rule = "declarator" => a.at = "prefix"
    /\ Top.rule = "external" =>
          /\ Top.at # "declared" /\ f.at # "begun"
          /\ Top.at = "begun" => a.rule = "declarator" /\ f.at = "declared"
          /\ Top.at # "begun" => f.at # "declared"
    /\ Top.rule = "declarator" =>
          /\ Top.at # "paren" /\ f.at \notin {"paren", "function", "prefix", "inner"}
          /\ a.rule = "declarator" => Top.at = "inner" /\ f.at = "close"

QuietCall == \E f, a : Calls(f, a) /\ QuietCallee(f, a) /\ UNCHANGED <<definition_scopes, defined>>

\* What a running parse is made of.
LEMMA Running ==
    ASSUME ParserInv, status = "run"
    PROVE  /\ stack \in Seq(Activations) /\ stack # <<>> /\ Len(stack) \in Nat \ {0}
           /\ Top \in Activations /\ Top = stack[Len(stack)]
           /\ cursor \in Nat /\ lexed \in Nat /\ cursor <= lexed
           /\ budget \in Budgets /\ budget.depth <= budget.limits.max_rule_depth
           /\ symbols \in Seq(Scopes) /\ Len(symbols) \in Nat \ {0}
           /\ definition_scopes \in Seq(SavedScopes) \cup {None}
           /\ defined \in [by : {"none", "identifiers", "parameters"}, scope : Scopes]
  <1>1. stack \in Seq(Activations) /\ stack # <<>> BY DEF ParserInv, FramesOK, TypeOK
  <1>2. Len(stack) \in Nat \ {0} BY <1>1
  <1>3. Top \in Activations BY <1>1, <1>2 DEF Top
  <1>4. symbols \in Seq(Scopes) /\ Len(symbols) \in Nat \ {0} BY DEF ParserInv, FramesOK
  <1>5. source \in Seq(Tokens) BY DEF ParserInv, FramesOK
  <1>6. Len(source) \in Nat BY <1>5
  <1>7. cursor \in Nat /\ lexed \in Nat /\ cursor <= lexed BY <1>6 DEF ParserInv, TypeOK
  <1> QED BY <1>1, <1>2, <1>3, <1>4, <1>7 DEF ParserInv, FramesOK, TypeOK, DepthBounded, Top

\* The fields of an activation.
LEMMA Fields ==
    ASSUME NEW f \in Activations
    PROVE  /\ f.rule \in Rules /\ f.at \in Points /\ f.mode \in Modes /\ f.start \in Nat
           /\ f.ahead \in Nat /\ f.name \in Names \cup {None}
           /\ f.fun \in DeclaredFunctions \cup {None} /\ f.flags \in SUBSET Flags
           /\ f.depth \in Nat /\ f.scopes \in Nat \ {0}
           /\ f.kind \in {"root", "nested", "scope", "function", "plain"}
  BY DEF Activations

\* Going on at another point changes nothing else.
LEMMA GotoSame ==
    ASSUME ParserInv, status = "run", NEW point \in Points
    PROVE  /\ SameActivation([Top EXCEPT !.at = point])
           /\ [Top EXCEPT !.at = point].at = point
           /\ [Top EXCEPT !.at = point].start = Top.start
           /\ [Top EXCEPT !.at = point].fun = Top.fun
           /\ [Top EXCEPT !.at = point].ahead = Top.ahead
  <1>1. Top \in Activations BY Running
  <1> QED BY <1>1 DEF SameActivation, Activations

\* Names enter the innermost scope.
LEMMA AddSymbol ==
    ASSUME NEW syms \in Seq(Scopes), syms # <<>>, NEW name \in Names \cup {None},
           NEW symbol \in {"Typename", "Identifier"}
    PROVE  add_symbol(syms, name, symbol) \in Seq(Scopes) /\ Len(add_symbol(syms, name, symbol)) = Len(syms)
  <1>1. CASE name = None BY <1>1 DEF add_symbol
  <1>2. CASE name # None
    <2>1. Len(syms) \in Nat \ {0} OBVIOUS
    <2>2. syms[Len(syms)] \in Scopes BY <2>1
    <2>3. [syms[Len(syms)] EXCEPT ![name] = symbol] \in Scopes BY <1>2, <2>2 DEF Scopes
    <2>4. add_symbol(syms, name, symbol) = [syms EXCEPT ![Len(syms)] = [syms[Len(syms)] EXCEPT ![name] = symbol]]
      BY <1>2 DEF add_symbol
    <2> QED BY <2>1, <2>3, <2>4
  <1> QED BY <1>1, <1>2

-----------------------------------------------------------------------------
(* What the parser's primitives do                                         *)

\* bump, then the rule goes on as f.
LEMMA BumpShape ==
    ASSUME ParserInv, status = "run", NEW f, SameActivation(f),
           Bump(stack' = SetTop(f) /\ UNCHANGED envVars)
    PROVE  Fails \/ (Rewrites(f) /\ UNCHANGED <<definition_scopes, defined>>)
  <1>1. Spent(budget, budget') /\ (budget'.failure = None => budget.failure = None)
    BY Running, StepSpends DEF Bump
  <1> QED BY <1>1, Running DEF Bump, Err, Fails, Rewrites, envVars, inputVars

\* A node is built, then the rule goes on as f.
LEMMA NodeShape ==
    ASSUME ParserInv, status = "run", NEW f, SameActivation(f),
           Node(stack' = SetTop(f) /\ UNCHANGED envVars)
    PROVE  Fails \/ (Rewrites(f) /\ UNCHANGED <<definition_scopes, defined>>)
  <1>1. Spent(budget, budget') BY Running, NodeSpends, Fields DEF Node
  <1> QED BY <1>1, Running DEF Node, Err, Fails, Rewrites, envVars, inputVars

\* The rule goes on as f.
LEMMA MoveShape ==
    ASSUME ParserInv, status = "run", NEW f, SameActivation(f), Move(f)
    PROVE  Rewrites(f) /\ UNCHANGED <<definition_scopes, defined>>
  BY Running, SpentNothing DEF Move, Rewrites, envVars, inputVars

\* What a new activation has found.
LEMMA NewActivation ==
    ASSUME ParserInv, status = "run", NEW rule \in Rules, NEW at \in Points, NEW mode \in Modes,
           NEW kind \in {"nested", "scope", "function", "plain"}
    PROVE  LET a == Activation(rule, at, kind, mode)
           IN  /\ a \in Activations /\ a.depth = budget.depth /\ a.scopes = Len(symbols)
               /\ a.start = cursor /\ a.fun = None /\ a.ahead = 0
               /\ a.rule = rule /\ a.at = at /\ a.kind = kind
  <1>1. budget.depth \in Nat BY Running, BudgetParts
  <1> QED BY <1>1, Running DEF Activation, Activations

\* A call of a nested rule.
LEMMA CallShape ==
    ASSUME ParserInv, status = "run", NEW f, SameActivation(f), NEW rule \in Rules,
           NEW at \in Points, NEW mode \in Modes, CallFrom(f, rule, at, mode)
    PROVE  \/ Fails
           \/ Calls(f, Activation(rule, at, "nested", mode)) /\ UNCHANGED <<definition_scopes, defined>>
  <1>1. CASE budget'.failure # None
    <2>1. Spent(budget, budget') BY <1>1, Running, EnterSpends DEF CallFrom
    <2> QED BY <1>1, <2>1 DEF CallFrom, Fails, Err, envVars
  <1>2. CASE budget'.failure = None
    <2>1. /\ budget.failure = None /\ budget' \in Budgets /\ budget'.limits = budget.limits
          /\ budget'.depth = budget.depth + 1 /\ budget.depth + 1 <= budget.limits.max_rule_depth
          /\ (budget.work = budget.charged) => (budget'.work = budget'.charged)
      BY <1>2, Running, EnterSpends DEF CallFrom
    <2> DEFINE a == Activation(rule, at, "nested", mode)
    <2>2. /\ a \in Activations /\ a.depth = budget.depth /\ a.scopes = Len(symbols)
          /\ a.start = cursor /\ a.fun = None /\ a.ahead = 0 /\ a.kind = "nested"
      BY NewActivation
    <2>3. stack' = Append(SetTop(f), a) /\ UNCHANGED <<inputVars, cursor, envVars>>
      BY <1>2 DEF CallFrom
    <2> HIDE DEF a
    <2>4. DepthHeld(a) = 1 /\ ScopesHeld(a) = 0 BY <2>2 DEF DepthHeld, ScopesHeld
    <2>5. Calls(f, a) BY <1>2, <2>1, <2>2, <2>3, <2>4, Running DEF Calls, envVars
    <2> QED BY <2>3, <2>5 DEF envVars, a
  <1> QED BY <1>1, <1>2

\* A call that opens a scope or none.
LEMMA CallInShape ==
    ASSUME ParserInv, status = "run", NEW kind \in {"scope", "function", "plain"}, NEW rule \in Rules,
           NEW at \in Points, NEW mode \in Modes, NEW resume \in Points,
           CallIn(kind, rule, at, mode, resume)
    PROVE  /\ Calls([Top EXCEPT !.at = resume], Activation(rule, at, kind, mode))
           /\ UNCHANGED <<definition_scopes, defined>>
  <1> DEFINE a == Activation(rule, at, kind, mode)
             f == [Top EXCEPT !.at = resume]
  <1>1. /\ a \in Activations /\ a.depth = budget.depth /\ a.scopes = Len(symbols)
        /\ a.start = cursor /\ a.fun = None /\ a.ahead = 0 /\ a.kind = kind
    BY NewActivation
  <1>2. stack' = Append(SetTop(f), a) /\ UNCHANGED <<inputVars, cursor, budget, definition_scopes, defined>>
    BY DEF CallIn, Goto
  <1>3. SameActivation(f) BY GotoSame
  <1> HIDE DEF a, f
  <1>4. DepthHeld(a) = 0 /\ ScopesHeld(a) = IF kind = "plain" THEN 0 ELSE 1
    BY <1>1 DEF DepthHeld, ScopesHeld
  <1>5. symbols' \in Seq(Scopes) /\ Len(symbols') = Len(symbols) + ScopesHeld(a)
    <2>1. EmptyScope \in Scopes BY DEF EmptyScope, Scopes
    <2> QED BY <1>4, <2>1, Running DEF CallIn
  <1>6. budget.depth \in Nat BY Running, BudgetParts
  <1>7. Calls(f, a) BY <1>1, <1>2, <1>3, <1>4, <1>5, <1>6, Running DEF Calls
  <1> QED BY <1>2, <1>7 DEF a, f

-----------------------------------------------------------------------------
(* Quiet actions                                                           *)

\* Points a quiet step may go to.
QuietPoint(point) ==
    /\ point \in Points
    /\ Top.rule = "external" => Top.at \notin {"begun", "declared"} /\ point \notin {"begun", "declared"}
    /\ Top.rule = "declarator" =>
          /\ Top.at # "paren" /\ point \notin {"paren", "function", "inner"}
          /\ point = "prefix" => Top.at = "prefix"

\* Rules a quiet step may call, and where it goes on afterwards.
QuietRule(rule, at, resume) ==
    /\ rule \in {"type", "declarator", "declaration", "member", "expression", "statement", "typename",
                 "stmtexpr", "block", "control", "substatement"}
    /\ at \in Points /\ resume \in Points
    /\ rule = "declarator" => at = "prefix"
    /\ Top.rule = "external" =>
          /\ Top.at # "declared" /\ resume # "begun"
          /\ Top.at = "begun" => rule = "declarator" /\ resume = "declared"
          /\ Top.at # "begun" => resume # "declared"
    /\ Top.rule = "declarator" =>
          /\ Top.at # "paren" /\ resume \notin {"paren", "function", "prefix", "inner"}
          /\ rule = "declarator" => Top.at = "inner" /\ resume = "close"

LEMMA QuietGoto ==
    ASSUME ParserInv, status = "run", NEW point, QuietPoint(point)
    PROVE  QuietFrame([Top EXCEPT !.at = point]) /\ SameActivation([Top EXCEPT !.at = point])
  BY GotoSame DEF QuietFrame, QuietPoint

LEMMA QuietBump ==
    ASSUME ParserInv, status = "run", NEW point, QuietPoint(point),
           Bump(stack' = Goto(point) /\ UNCHANGED envVars)
    PROVE  Quiet \/ Fails
  BY QuietGoto, BumpShape DEF Goto, Quiet

LEMMA QuietNode ==
    ASSUME ParserInv, status = "run", NEW point, QuietPoint(point),
           Node(stack' = Goto(point) /\ UNCHANGED envVars)
    PROVE  Quiet \/ Fails
  BY QuietGoto, NodeShape DEF Goto, Quiet

LEMMA QuietMove ==
    ASSUME ParserInv, status = "run", NEW point, QuietPoint(point), Move([Top EXCEPT !.at = point])
    PROVE  Quiet
  BY QuietGoto, MoveShape DEF Quiet

LEMMA QuietNested ==
    ASSUME ParserInv, status = "run", NEW rule, NEW at, NEW mode \in Modes, NEW resume,
           QuietRule(rule, at, resume), Call(rule, at, mode, resume)
    PROVE  QuietCall \/ Fails
  <1> DEFINE f == [Top EXCEPT !.at = resume]
             a == Activation(rule, at, "nested", mode)
  <1>1. rule \in Rules /\ at \in Points /\ resume \in Points BY DEF QuietRule, Rules
  <1>2. SameActivation(f) /\ f.at = resume /\ f.start = Top.start /\ f.fun = Top.fun /\ f.ahead = Top.ahead
    BY <1>1, GotoSame
  <1>3. a.rule = rule /\ a.at = at BY DEF Activation
  <1>4. Fails \/ (Calls(f, a) /\ UNCHANGED <<definition_scopes, defined>>)
    BY <1>1, <1>2, CallShape DEF Call
  <1> HIDE DEF f, a
  <1>5. QuietCallee(f, a) BY <1>2, <1>3 DEF QuietCallee, QuietRule
  <1> QED BY <1>4, <1>5 DEF QuietCall

LEMMA QuietCallIn ==
    ASSUME ParserInv, status = "run", NEW kind \in {"scope", "function", "plain"}, NEW rule, NEW at,
           NEW mode \in Modes, NEW resume, QuietRule(rule, at, resume),
           CallIn(kind, rule, at, mode, resume)
    PROVE  QuietCall
  <1> DEFINE f == [Top EXCEPT !.at = resume]
             a == Activation(rule, at, kind, mode)
  <1>1. rule \in Rules /\ at \in Points /\ resume \in Points BY DEF QuietRule, Rules
  <1>2. SameActivation(f) /\ f.at = resume /\ f.start = Top.start /\ f.fun = Top.fun /\ f.ahead = Top.ahead
    BY <1>1, GotoSame
  <1>3. a.rule = rule /\ a.at = at BY DEF Activation
  <1>4. Calls(f, a) /\ UNCHANGED <<definition_scopes, defined>> BY <1>1, CallInShape
  <1> HIDE DEF f, a
  <1>5. QuietCallee(f, a) BY <1>2, <1>3 DEF QuietCallee, QuietRule
  <1> QED BY <1>4, <1>5 DEF QuietCall

\* The rows of the tables.
LEMMA ShiftRows ==
    ASSUME NEW r \in Shifts
    PROVE  /\ r[4] \in Points
           /\ r[1] = "external" => r[2] \notin {"begun", "declared"} /\ r[4] \notin {"begun", "declared"}
           /\ r[1] = "declarator" =>
                 /\ r[2] # "paren" /\ r[4] \notin {"paren", "function", "inner"}
                 /\ r[4] = "prefix" => r[2] = "prefix"
  <1>1. CASE r \in DeclarationShifts BY <1>1 DEF Points, DeclarationShifts, Specified, Declarations
  <1>2. CASE r \in TagShifts BY <1>2 DEF Points, TagShifts
  <1>3. CASE r \in DeclaratorShifts BY <1>3 DEF Points, DeclaratorShifts
  <1>4. CASE r \in StatementShifts BY <1>4 DEF Points, StatementShifts
  <1>5. CASE r \in ExpressionShifts BY <1>5 DEF Points, ExpressionShifts
  <1> QED BY <1>1, <1>2, <1>3, <1>4, <1>5 DEF Shifts

LEMMA NestedCallRows ==
    ASSUME NEW r \in NestedCalls
    PROVE  /\ r[3] \in {"declarator", "expression", "statement"}
           /\ r[4] \in Points /\ r[5] \in Modes /\ r[6] \in Points
           /\ r[3] = "declarator" => r[4] = "prefix"
           /\ r[1] # "declarator"
           /\ r[1] = "external" =>
                 /\ r[2] # "declared" /\ r[6] # "begun"
                 /\ r[2] = "begun" => r[3] = "declarator" /\ r[6] = "declared"
                 /\ r[2] # "begun" => r[6] # "declared"
  BY DEF Points, Modes, NestedCalls, Declarations

LEMMA OtherCallRows ==
    ASSUME NEW r \in OtherCalls
    PROVE  /\ r[3] \in {"scope", "plain"} /\ r[4] \in {"expression", "block", "substatement"}
           /\ r[5] \in Points /\ r[6] \in Modes /\ r[7] \in Points
           /\ r[1] \notin {"external", "declarator"}
  BY DEF Points, Modes, OtherCalls

LEMMA BuildRows ==
    ASSUME NEW r \in Builds
    PROVE  /\ r[4] \in Points /\ r[1] # "declarator"
           /\ r[1] = "external" => r[2] \notin {"begun", "declared"} /\ r[4] \notin {"begun", "declared"}
  BY DEF Points, Builds, Declarations

LEMMA TableShapes ==
    ASSUME ParserInv, Shift \/ NestedCall \/ OtherCall \/ Build
    PROVE  Quiet \/ QuietCall \/ Fails
  <1>1. CASE Shift
    <2>1. PICK r \in Shifts : /\ r[1] = Top.rule /\ r[2] = Top.at
                              /\ Bump(stack' = Goto(r[4]) /\ UNCHANGED envVars)
      BY <1>1 DEF Shift
    <2>2. status = "run" BY <1>1 DEF Shift
    <2>3. QuietPoint(r[4]) BY <2>1, ShiftRows DEF QuietPoint
    <2> QED BY <2>1, <2>2, <2>3, QuietBump
  <1>2. CASE NestedCall
    <2>1. PICK r \in NestedCalls : r[1] = Top.rule /\ r[2] = Top.at /\ Call(r[3], r[4], r[5], r[6])
      BY <1>2 DEF NestedCall
    <2>2. status = "run" BY <1>2 DEF NestedCall
    <2>3. QuietRule(r[3], r[4], r[6]) /\ r[5] \in Modes BY <2>1, NestedCallRows DEF QuietRule
    <2> QED BY <2>1, <2>2, <2>3, QuietNested
  <1>3. CASE OtherCall
    <2>1. PICK r \in OtherCalls : r[1] = Top.rule /\ r[2] = Top.at /\ CallIn(r[3], r[4], r[5], r[6], r[7])
      BY <1>3 DEF OtherCall
    <2>2. status = "run" BY <1>3 DEF OtherCall
    <2>3. QuietRule(r[4], r[5], r[7]) /\ r[6] \in Modes /\ r[3] \in {"scope", "plain"}
      BY <2>1, OtherCallRows DEF QuietRule
    <2> QED BY <2>1, <2>2, <2>3, QuietCallIn
  <1>4. CASE Build
    <2>1. PICK r \in Builds : /\ r[1] = Top.rule /\ r[2] = Top.at
                              /\ Node(stack' = Goto(r[4]) /\ UNCHANGED envVars)
      BY <1>4 DEF Build
    <2>2. status = "run" BY <1>4 DEF Build
    <2>3. QuietPoint(r[4]) BY <2>1, BuildRows DEF QuietPoint
    <2> QED BY <2>1, <2>2, <2>3, QuietNode
  <1> QED BY <1>1, <1>2, <1>3, <1>4

\* Specifiers, types and tags.
LEMMA SpecifierShapes ==
    ASSUME ParserInv,
           \/ Typedef \/ TypeSpecifier \/ SpecifiersEnd \/ TypedefName
           \/ Member \/ Enumerator \/ EnumeratorDone \/ TypeName
    PROVE  Quiet \/ QuietCall \/ Fails
  <1> USE DEF At
  <1>1. status = "run"
    BY DEF Typedef, TypeSpecifier, SpecifiersEnd, TypedefName, Member, Enumerator, EnumeratorDone, TypeName
  <1>2. Top \in Activations BY <1>1, Running
  <1>3. CASE Typedef
    <2> DEFINE f == [Top EXCEPT !.flags = @ \cup {"typedef"}]
    <2>1. /\ SameActivation(f) /\ f.at = Top.at /\ f.start = Top.start /\ f.fun = Top.fun
          /\ f.ahead = Top.ahead
      BY <1>2 DEF SameActivation, Activations, Flags
    <2>2. Top.rule # "declarator" /\ Top.at = "specifiers" BY <1>3 DEF Typedef, Specified, Declarations
    <2>3. Bump(stack' = SetTop(f) /\ UNCHANGED envVars) BY <1>3 DEF Typedef
    <2> HIDE DEF f
    <2>4. QuietFrame(f) BY <2>1, <2>2 DEF QuietFrame
    <2> QED BY <1>1, <2>1, <2>3, <2>4, BumpShape DEF Quiet
  <1>4. CASE TypeSpecifier
    <2>1. PICK flags : /\ flags \in SUBSET Flags
                       /\ CallFrom([Top EXCEPT !.flags = flags], "type", "type", "none")
      <3>1. Top.flags \in SUBSET Flags BY <1>2, Fields
      <3> QED BY <1>4, <3>1 DEF TypeSpecifier, Flags
    <2> DEFINE f == [Top EXCEPT !.flags = flags]
               a == Activation("type", "type", "nested", "none")
    <2>2. /\ SameActivation(f) /\ f.at = Top.at /\ f.start = Top.start /\ f.fun = Top.fun
          /\ f.ahead = Top.ahead
      BY <1>2, <2>1 DEF SameActivation, Activations
    <2>3. Top.rule # "declarator" /\ Top.at = "specifiers" BY <1>4, SMTT(60) DEF TypeSpecifier, Specified, Declarations
    <2>4. Fails \/ (Calls(f, a) /\ UNCHANGED <<definition_scopes, defined>>)
      <3>1. "type" \in Rules /\ "type" \in Points /\ "none" \in Modes BY DEF Rules, Points, Modes
      <3>2. ParserInv /\ status = "run" BY <1>1
      <3>3. SameActivation(f) /\ CallFrom(f, "type", "type", "none") BY <2>1, <2>2
      <3> HIDE DEF f
      <3> QED BY ONLY <3>1, <3>2, <3>3, CallShape, ZenonT(60)
    <2>5. a.rule = "type" BY DEF Activation
    <2> HIDE DEF f, a
    <2>6. QuietCallee(f, a) BY <2>2, <2>3, <2>5 DEF QuietCallee
    <2> QED BY <2>4, <2>6 DEF QuietCall
  <1>5. CASE SpecifiersEnd
    <2>1. QuietPoint("head") BY <1>5 DEF SpecifiersEnd, QuietPoint, Points, Specified, Declarations
    <2> QED BY <1>1, <1>5, <2>1, QuietMove DEF SpecifiersEnd
  <1>6. CASE TypedefName
    <2>1. QuietPoint("built") BY <1>6 DEF TypedefName, QuietPoint, Points
    <2> QED BY <1>1, <1>6, <2>1, QuietBump DEF TypedefName
  <1>7. CASE Member
    <2>1. QuietRule("member", "specifiers", "members") BY <1>7 DEF Member, QuietRule, Points
    <2> QED BY <1>1, <1>7, <2>1, QuietCallIn DEF Member, Modes
  <1>8. CASE Enumerator
    <2> DEFINE f == [Top EXCEPT !.at = "value", !.name = Tok]
    <2>1. Tok \in Names /\ Top.rule = "type" BY <1>8 DEF Enumerator
    <2>0. "value" \in Points BY DEF Points
    <2>2. SameActivation(f) /\ f.at = "value" /\ f.start = Top.start /\ f.fun = Top.fun /\ f.ahead = Top.ahead
      BY <1>2, <2>0, <2>1 DEF SameActivation, Activations
    <2>3. Bump(stack' = SetTop(f) /\ UNCHANGED envVars) BY <1>8 DEF Enumerator
    <2> HIDE DEF f
    <2>4. QuietFrame(f) BY <2>1, <2>2 DEF QuietFrame
    <2> QED BY <1>1, <2>2, <2>3, <2>4, BumpShape DEF Quiet
  <1>9. CASE EnumeratorDone
    <2> DEFINE f == [Top EXCEPT !.at = "enumerators", !.name = None]
    <2>1. Top.rule = "type" BY <1>9 DEF EnumeratorDone
    <2>0. "enumerators" \in Points BY DEF Points
    <2>2. SameActivation(f) /\ f.at = "enumerators" /\ f.start = Top.start /\ f.fun = Top.fun /\ f.ahead = Top.ahead
      BY <1>2, <2>0, <2>1 DEF SameActivation, Activations
    <2>3. Spent(budget, budget') BY <1>1, <1>9, Running, NodeSpends, Fields DEF EnumeratorDone, Node
    <2>4. CASE budget'.failure = None
      <3>1. /\ stack' = SetTop(f) /\ symbols' = add_symbol(symbols, Top.name, "Identifier")
            /\ UNCHANGED <<inputVars, cursor, definition_scopes, defined>>
        BY <1>9, <2>4 DEF EnumeratorDone, Node
      <3>2. symbols' \in Seq(Scopes) /\ Len(symbols') = Len(symbols)
        BY <1>1, <1>2, <3>1, Running, AddSymbol, Fields
      <3> HIDE DEF f
      <3>3. QuietFrame(f) BY <2>1, <2>2 DEF QuietFrame
      <3>4. Rewrites(f) BY <1>1, <2>2, <2>3, <3>1, <3>2 DEF Rewrites
      <3> QED BY <3>1, <3>3, <3>4 DEF Quiet
    <2>5. CASE budget'.failure # None
      BY <1>1, <1>9, <2>3, <2>5 DEF EnumeratorDone, Node, Err, Fails, envVars
    <2> QED BY <2>4, <2>5
  <1>10. CASE TypeName
    <2>1. CASE Call("declarator", "prefix", "Abstract", "built")
      <3>1. QuietRule("declarator", "prefix", "built") BY <1>10 DEF TypeName, QuietRule, Points
      <3> QED BY <1>1, <2>1, <3>1, QuietNested DEF Modes
    <2>2. CASE Move([Top EXCEPT !.at = "built"])
      <3>1. QuietPoint("built") BY <1>10 DEF TypeName, QuietPoint, Points
      <3> QED BY <1>1, <2>2, <3>1, QuietMove
    <2> QED BY <1>10, <2>1, <2>2 DEF TypeName
  <1> QED BY <1>3, <1>4, <1>5, <1>6, <1>7, <1>8, <1>9, <1>10

\* External and block declarations.
LEMMA DeclarationShapes ==
    ASSUME ParserInv,
           \/ External \/ Progress \/ StraySemicolon \/ FirstDeclarator \/ Lookahead
           \/ Register \/ InitializerStart \/ Initialized
    PROVE  Quiet \/ QuietCall \/ Fails
  <1> USE DEF At
  <1>1. status = "run"
    BY DEF External, Progress, StraySemicolon, FirstDeclarator, Lookahead, Register, InitializerStart, Initialized
  <1>2. Top \in Activations BY <1>1, Running
  <1>3. CASE External
    <2> DEFINE f == [Top EXCEPT !.at = "progress", !.start = cursor]
               a == Activation("external", "specifiers", "nested", "none")
    <2>0. "progress" \in Points /\ cursor \in Nat BY <1>1, Running DEF Points
    <2>1. SameActivation(f) /\ f.fun = Top.fun /\ f.ahead = Top.ahead
      BY <1>2, <2>0 DEF SameActivation, Activations
    <2>2. Top.rule = "unit" BY <1>3 DEF External
    <2>3. CallFrom(f, "external", "specifiers", "none") BY <1>3 DEF External
    <2>4. a.rule = "external" /\ a.at = "specifiers" BY DEF Activation
    <2>5. Fails \/ (Calls(f, a) /\ UNCHANGED <<definition_scopes, defined>>)
      <3>1. "external" \in Rules /\ "specifiers" \in Points /\ "none" \in Modes BY DEF Rules, Points, Modes
      <3>2. ParserInv /\ status = "run" /\ SameActivation(f) BY <1>1, <2>1
      <3> HIDE DEF f
      <3> QED BY ONLY <2>3, <3>1, <3>2, CallShape, ZenonT(60)
    <2> HIDE DEF a
    <2>6. QuietCallee(f, a) BY <2>1, <2>2, <2>4 DEF QuietCallee
    <2> QED BY <2>5, <2>6 DEF QuietCall
  <1>4. CASE Progress
    <2>1. Spent(budget, budget') BY <1>1, <1>4, Running, StepSpends DEF Progress
    <2>2. PICK point : /\ point \in {"loop", "items"}
                       /\ point = IF Top.rule = "unit" THEN "loop" ELSE "items"
      OBVIOUS
    <2>3. QuietPoint(point) BY <1>4, <2>2 DEF Progress, QuietPoint, Points
    <2>4. CASE budget'.failure = None /\ cursor # Top.start
      <3>1. Rewrites([Top EXCEPT !.at = point]) /\ UNCHANGED <<definition_scopes, defined>>
        BY <1>1, <1>4, <2>1, <2>2, <2>3, <2>4, QuietGoto, Running DEF Progress, Rewrites, Goto, envVars
      <3> QED BY <1>1, <2>3, <3>1, QuietGoto DEF Quiet
    <2>5. CASE ~(budget'.failure = None /\ cursor # Top.start)
      BY <1>1, <1>4, <2>1, <2>5 DEF Progress, Err, Fails, envVars
    <2> QED BY <2>4, <2>5
  <1>5. CASE StraySemicolon
    <2>1. QuietPoint("done") BY <1>5 DEF StraySemicolon, QuietPoint, Points
    <2> QED BY <1>1, <1>5, <2>1, QuietBump DEF StraySemicolon
  <1>6. CASE FirstDeclarator
    <2>1. PICK point : /\ point \in {"field", "suffix"}
                       /\ Call("declarator", "prefix", "Named", point)
      BY <1>6 DEF FirstDeclarator
    <2>2. QuietRule("declarator", "prefix", point) BY <1>6, <2>1 DEF FirstDeclarator, QuietRule, Points
    <2> QED BY <1>1, <2>1, <2>2, QuietNested DEF Modes
  <1>7. CASE Lookahead
    <2> DEFINE f == [Top EXCEPT !.ahead = @ + 1]
    <2>0. Top.ahead + 1 \in Nat /\ cursor + Top.ahead \in Nat BY <1>1, <1>2, Running, Fields
    <2>1. Spent(budget, budget') BY <1>1, <1>7, <2>0, Running, StepSpends DEF Lookahead
    <2>2. SameActivation(f) /\ f.at = Top.at /\ f.start = Top.start /\ f.fun = Top.fun
      BY <1>2, <2>0 DEF SameActivation, Activations
    <2>3. Top.rule = "external" /\ Top.at = "declared" BY <1>7 DEF Lookahead
    <2>4. CASE budget'.failure = None
      <3>1. stack' = SetTop(f) /\ UNCHANGED <<inputVars, cursor, envVars>> BY <1>7, <2>4 DEF Lookahead
      <3> HIDE DEF f
      <3>2. QuietFrame(f) BY <2>2, <2>3 DEF QuietFrame
      <3>3. Rewrites(f) BY <1>1, <2>1, <2>2, <3>1, Running DEF Rewrites, envVars
      <3> QED BY <3>1, <3>2, <3>3 DEF Quiet, envVars
    <2>5. CASE budget'.failure # None
      BY <1>1, <1>7, <2>1, <2>5 DEF Lookahead, Err, Fails, envVars
    <2> QED BY <2>4, <2>5
  <1>8. CASE Register
    <2>1. QuietPoint("initializer") BY <1>8 DEF Register, QuietPoint, Points, Declarations
    <2>2. symbols' \in Seq(Scopes) /\ Len(symbols') = Len(symbols)
      BY <1>1, <1>2, <1>8, Running, AddSymbol, Fields DEF Register
    <2>3. Rewrites([Top EXCEPT !.at = "initializer"]) /\ UNCHANGED <<definition_scopes, defined>>
      BY <1>1, <1>8, <2>1, <2>2, QuietGoto, Running, SpentNothing DEF Register, Rewrites, Goto
    <2> QED BY <1>1, <2>1, <2>3, QuietGoto DEF Quiet
  <1>9. CASE InitializerStart
    <2>1. QuietPoint("value") BY <1>9 DEF InitializerStart, QuietPoint, Points, Declarations
    <2> QED BY <1>1, <1>9, <2>1, QuietBump DEF InitializerStart
  <1>10. CASE Initialized
    <2>1. QuietPoint("registered") BY <1>10 DEF Initialized, QuietPoint, Points, Declarations
    <2>2. symbols' \in Seq(Scopes) /\ Len(symbols') = Len(symbols)
      BY <1>1, <1>2, <1>10, Running, AddSymbol, Fields DEF Initialized
    <2>3. Rewrites([Top EXCEPT !.at = "registered"]) /\ UNCHANGED <<definition_scopes, defined>>
      BY <1>1, <1>10, <2>1, <2>2, QuietGoto, Running, SpentNothing DEF Initialized, Rewrites, Goto
    <2> QED BY <1>1, <2>1, <2>3, QuietGoto DEF Quiet
  <1> QED BY <1>3, <1>4, <1>5, <1>6, <1>7, <1>8, <1>9, <1>10

\* Declarators and parameter lists.
LEMMA DeclaratorShapes ==
    ASSUME ParserInv,
           \/ Pointer \/ Identifier \/ Parenthesis \/ ParenthesizedDeclarator
           \/ AbstractDeclarator \/ Bracket \/ ArrayBound \/ IdentifierList \/ DeclaratorDone
           \/ ParameterDeclarator \/ UnnamedParameter \/ RegisterParameter \/ NextParameter
    PROVE  Quiet \/ QuietCall \/ Fails
  <1> USE DEF At
  <1>1. status = "run"
    BY DEF Pointer, Identifier, Parenthesis, ParenthesizedDeclarator, AbstractDeclarator, Bracket,
           ArrayBound, IdentifierList, DeclaratorDone, ParameterDeclarator, UnnamedParameter,
           RegisterParameter, NextParameter
  <1>2. Top \in Activations BY <1>1, Running
  <1>3. CASE Pointer
    <2>1. Top.rule = "declarator" /\ Top.at = "prefix" BY <1>3 DEF Pointer
    <2>2. /\ SameActivation(Derived(Top)) /\ Derived(Top).at = Top.at /\ Derived(Top).start = Top.start
          /\ Derived(Top).fun = Top.fun /\ Derived(Top).ahead = Top.ahead
      BY <1>2 DEF SameActivation, Activations, Flags, Derived
    <2>3. QuietFrame(Derived(Top)) BY <2>1, <2>2 DEF QuietFrame
    <2>4. Bump(stack' = SetTop(Derived(Top)) /\ UNCHANGED envVars) BY <1>3 DEF Pointer
    <2> QED BY <1>1, <2>2, <2>3, <2>4, BumpShape DEF Quiet
  <1>4. CASE Identifier
    <2> DEFINE f == [Top EXCEPT !.at = "suffix", !.name = Tok]
    <2>0. "suffix" \in Points BY DEF Points
    <2>1. Tok \in Names /\ Top.rule = "declarator" /\ Top.at = "prefix" BY <1>4 DEF Identifier
    <2>2. SameActivation(f) /\ f.at = "suffix" /\ f.start = Top.start /\ f.fun = Top.fun /\ f.ahead = Top.ahead
      BY <1>2, <2>0, <2>1 DEF SameActivation, Activations
    <2>3. Bump(stack' = SetTop(f) /\ UNCHANGED envVars) BY <1>4 DEF Identifier
    <2> HIDE DEF f
    <2>4. QuietFrame(f) BY <2>1, <2>2 DEF QuietFrame
    <2> QED BY <1>1, <2>2, <2>3, <2>4, BumpShape DEF Quiet
  <1>5. CASE Parenthesis
    <2>0. "inner" \in Points BY DEF Points
    <2>1. Top.rule = "declarator" /\ Top.at = "prefix" BY <1>5 DEF Parenthesis
    <2>2. QuietFrame([Top EXCEPT !.at = "inner"]) BY <1>1, <2>0, <2>1, GotoSame DEF QuietFrame
    <2> QED BY <1>1, <1>5, <2>0, <2>2, GotoSame, BumpShape DEF Parenthesis, Goto, Quiet
  <1>6. CASE ParenthesizedDeclarator
    <2>1. QuietRule("declarator", "prefix", "close") BY <1>6 DEF ParenthesizedDeclarator, QuietRule, Points
    <2>2. Top.mode \in Modes BY <1>2, Fields
    <2> QED BY <1>1, <1>6, <2>1, <2>2, QuietNested DEF ParenthesizedDeclarator
  <1>7. CASE AbstractDeclarator
    <2> DEFINE f == [Top EXCEPT !.at = "suffix", !.flags = @ \cup {"abstract"}]
    <2>0. "suffix" \in Points /\ Top.flags \cup {"abstract"} \in SUBSET Flags
      BY <1>2, Fields DEF Points, Flags
    <2>1. Top.rule = "declarator" /\ Top.at = "prefix" BY <1>7 DEF AbstractDeclarator
    <2>2. SameActivation(f) /\ f.at = "suffix" /\ f.start = Top.start /\ f.fun = Top.fun /\ f.ahead = Top.ahead
      BY <1>2, <2>0, <2>1 DEF SameActivation, Activations
    <2>3. Node(stack' = SetTop(f) /\ UNCHANGED envVars) BY <1>7 DEF AbstractDeclarator
    <2> HIDE DEF f
    <2>4. QuietFrame(f) BY <2>1, <2>2 DEF QuietFrame
    <2> QED BY <1>1, <2>2, <2>3, <2>4, NodeShape DEF Quiet
  <1>8. CASE Bracket
    <2> DEFINE f == [Derived(Top) EXCEPT !.at = "bound"]
    <2>0. "bound" \in Points /\ Top.flags \cup {"derived"} \in SUBSET Flags
      BY <1>2, Fields DEF Points, Flags
    <2>1. Top.rule = "declarator" /\ Top.at = "suffix" BY <1>8 DEF Bracket
    <2>2. SameActivation(f) /\ f.at = "bound" /\ f.start = Top.start /\ f.fun = Top.fun /\ f.ahead = Top.ahead
      BY <1>2, <2>0, <2>1 DEF SameActivation, Activations, Derived
    <2>3. Bump(stack' = SetTop(f) /\ UNCHANGED envVars) BY <1>8 DEF Bracket
    <2> HIDE DEF f
    <2>4. QuietFrame(f) BY <2>1, <2>2 DEF QuietFrame
    <2> QED BY <1>1, <2>2, <2>3, <2>4, BumpShape DEF Quiet
  <1>9. CASE ArrayBound
    <2>1. QuietRule("expression", "operand", "bracket") BY <1>9 DEF ArrayBound, QuietRule, Points
    <2> QED BY <1>1, <1>9, <2>1, QuietCallIn DEF ArrayBound, Modes
  <1>10. CASE IdentifierList
    <2>1. QuietPoint("identifier") BY <1>10 DEF IdentifierList, QuietPoint, Points
    <2> QED BY <1>1, <1>10, <2>1, QuietMove DEF IdentifierList
  <1>11. CASE DeclaratorDone
    <2>1. QuietPoint("done") BY <1>11 DEF DeclaratorDone, QuietPoint, Points
    <2> QED BY <1>1, <1>11, <2>1, QuietNode DEF DeclaratorDone
  <1>12. CASE ParameterDeclarator
    <2>1. QuietRule("declarator", "prefix", "attributes") BY <1>12 DEF ParameterDeclarator, QuietRule, Points
    <2> QED BY <1>1, <1>12, <2>1, QuietNested DEF ParameterDeclarator, Modes
  <1>13. CASE UnnamedParameter
    <2>1. QuietPoint("attributes") BY <1>13 DEF UnnamedParameter, QuietPoint, Points
    <2> QED BY <1>1, <1>13, <2>1, QuietMove DEF UnnamedParameter
  <1>14. CASE RegisterParameter
    <2> DEFINE f == [Top EXCEPT !.at = "next", !.name = None, !.fun = None]
    <2>0. "next" \in Points BY DEF Points
    <2>1. Top.rule = "params" BY <1>14 DEF RegisterParameter
    <2>2. SameActivation(f) /\ f.at = "next" /\ f.start = Top.start /\ f.fun = None /\ f.ahead = Top.ahead
      BY <1>2, <2>0, <2>1 DEF SameActivation, Activations
    <2>3. Spent(budget, budget') BY <1>1, <1>14, Running, NodeSpends, Fields DEF RegisterParameter, Node
    <2>4. CASE budget'.failure = None
      <3>1. /\ stack' = SetTop(f) /\ symbols' = add_symbol(symbols, Top.name, "Identifier")
            /\ UNCHANGED <<inputVars, cursor, definition_scopes, defined>>
        BY <1>14, <2>4 DEF RegisterParameter, Node
      <3>2. symbols' \in Seq(Scopes) /\ Len(symbols') = Len(symbols)
        BY <1>1, <1>2, <3>1, Running, AddSymbol, Fields
      <3> HIDE DEF f
      <3>3. QuietFrame(f) BY <2>1, <2>2 DEF QuietFrame
      <3>4. Rewrites(f) BY <1>1, <2>2, <2>3, <3>1, <3>2 DEF Rewrites
      <3> QED BY <3>1, <3>3, <3>4 DEF Quiet
    <2>5. CASE budget'.failure # None
      BY <1>1, <1>14, <2>3, <2>5 DEF RegisterParameter, Node, Err, Fails, envVars
    <2> QED BY <2>4, <2>5
  <1>15. CASE NextParameter
    <2> DEFINE f == [Top EXCEPT !.at = "specifiers", !.flags = {}]
    <2>0. "specifiers" \in Points BY DEF Points
    <2>1. Top.rule = "params" BY <1>15 DEF NextParameter
    <2>2. SameActivation(f) /\ f.at = "specifiers" /\ f.start = Top.start /\ f.fun = Top.fun /\ f.ahead = Top.ahead
      BY <1>2, <2>0, <2>1 DEF SameActivation, Activations
    <2>3. Move(f) BY <1>15 DEF NextParameter
    <2> HIDE DEF f
    <2>4. QuietFrame(f) BY <2>1, <2>2 DEF QuietFrame
    <2> QED BY <1>1, <2>2, <2>3, <2>4, MoveShape DEF Quiet
  <1> QED BY <1>3, <1>4, <1>5, <1>6, <1>7, <1>8, <1>9, <1>10, <1>11, <1>12, <1>13, <1>14, <1>15

\* Blocks, statements and expressions.
LEMMA StatementShapes ==
    ASSUME ParserInv,
           \/ OldStyleDeclaration \/ Item \/ ItemCall \/ Statement \/ ForHeader
           \/ Group \/ Operator \/ ExpressionDone
    PROVE  Quiet \/ QuietCall \/ Fails
  <1> USE DEF At
  <1>1. status = "run"
    BY DEF OldStyleDeclaration, Item, ItemCall, Statement, ForHeader, Group, Operator, ExpressionDone
  <1>2. Top \in Activations BY <1>1, Running
  <1>3. CASE OldStyleDeclaration
    <2>1. QuietRule("declaration", "specifiers", "declarations") BY <1>3 DEF OldStyleDeclaration, QuietRule, Points
    <2> QED BY <1>1, <1>3, <2>1, QuietNested DEF OldStyleDeclaration, Modes
  <1>4. CASE Item
    <2>1. PICK point : /\ point \in {"statement", "item"}
                       /\ stack' = SetTop([Top EXCEPT !.start = cursor, !.at = point])
      BY <1>4 DEF Item
    <2> DEFINE f == [Top EXCEPT !.start = cursor, !.at = point]
    <2>0. point \in Points /\ cursor \in Nat BY <1>1, <2>1, Running DEF Points
    <2>2. Top.rule \in {"body", "block"} BY <1>4 DEF Item, Blocks
    <2>3. SameActivation(f) /\ f.fun = Top.fun /\ f.ahead = Top.ahead
      BY <1>2, <2>0 DEF SameActivation, Activations
    <2>4. Spent(budget, budget')
      <3>1. budget' = work(budget, cursor, 1) \/ budget' = budget BY <1>4 DEF Item
      <3> QED BY <1>1, <3>1, Running, WorkSpends, SpentNothing
    <2>5. UNCHANGED <<inputVars, cursor, envVars>> BY <1>4 DEF Item
    <2> HIDE DEF f
    <2>6. QuietFrame(f) BY <2>2, <2>3 DEF QuietFrame
    <2>7. Rewrites(f) BY <1>1, <2>1, <2>3, <2>4, <2>5, Running DEF Rewrites, envVars, f
    <2> QED BY <2>5, <2>6, <2>7 DEF Quiet, envVars
  <1>5. CASE ItemCall
    <2>1. Top.rule \in {"body", "block"} BY <1>5 DEF ItemCall, Blocks
    <2>2. QuietRule("declaration", "specifiers", "item_end") /\ QuietRule("statement", "statement", "item_end")
      BY <2>1 DEF QuietRule, Points
    <2>3. \/ Call("declaration", "specifiers", "none", "item_end")
          \/ Call("statement", "statement", "none", "item_end")
      BY <1>5 DEF ItemCall
    <2> QED BY <1>1, <2>2, <2>3, QuietNested DEF Modes
  <1>6. CASE Statement
    <2>1. Top.rule = "statement" BY <1>6 DEF Statement
    <2>2. /\ QuietRule("block", "open", "done") /\ QuietRule("control", "keyword", "done")
          /\ QuietRule("expression", "operand", "semicolon") /\ QuietPoint("colon")
      BY <2>1 DEF QuietRule, QuietPoint, Points
    <2>3. \/ CallIn("scope", "block", "open", "none", "done")
          \/ Bump(stack' = Goto("colon") /\ UNCHANGED envVars)
          \/ CallIn("scope", "control", "keyword", "none", "done")
          \/ CallIn("plain", "expression", "operand", "expression", "semicolon")
      BY <1>6 DEF Statement
    <2> QED BY <1>1, <2>2, <2>3, QuietCallIn, QuietBump DEF Modes
  <1>7. CASE ForHeader
    <2>1. Top.rule = "control" BY <1>7 DEF ForHeader
    <2>2. /\ QuietRule("declaration", "specifiers", "test") /\ QuietRule("expression", "operand", "init_end")
          /\ QuietRule("expression", "operand", "test_end") /\ QuietRule("expression", "operand", "step_end")
      BY <2>1 DEF QuietRule, Points
    <2>3. \/ Call("declaration", "specifiers", "none", "test")
          \/ CallIn("plain", "expression", "operand", "expression", "init_end")
          \/ CallIn("plain", "expression", "operand", "expression", "test_end")
          \/ CallIn("plain", "expression", "operand", "expression", "step_end")
      BY <1>7 DEF ForHeader
    <2> QED BY <1>1, <2>2, <2>3, QuietCallIn, QuietNested DEF Modes
  <1>8. CASE Group
    <2>1. Top.rule = "expression" BY <1>8 DEF Group
    <2>2. /\ QuietRule("typename", "specifiers", "cast") /\ QuietRule("stmtexpr", "open", "close")
          /\ QuietRule("expression", "operand", "close")
      BY <2>1 DEF QuietRule, Points
    <2>3. \/ Call("typename", "specifiers", "none", "cast")
          \/ Call("stmtexpr", "open", "none", "close")
          \/ Call("expression", "operand", "expression", "close")
      BY <1>8 DEF Group
    <2> QED BY <1>1, <2>2, <2>3, QuietNested DEF Modes
  <1>9. CASE Operator
    <2>1. Top.rule = "expression" BY <1>9 DEF Operator
    <2>2. QuietPoint("factor") /\ QuietPoint("term") /\ QuietPoint("value") /\ QuietPoint("operand")
      BY <2>1 DEF QuietPoint, Points
    <2>3. \E point \in {"factor", "term", "value", "operand"} :
             Bump(stack' = Goto(point) /\ UNCHANGED envVars)
      BY <1>9 DEF Operator
    <2> QED BY <1>1, <2>2, <2>3, QuietBump
  <1>10. CASE ExpressionDone
    <2>1. QuietPoint("done") BY <1>10 DEF ExpressionDone, QuietPoint, Points
    <2> QED BY <1>1, <1>10, <2>1, QuietNode DEF ExpressionDone
  <1> QED BY <1>3, <1>4, <1>5, <1>6, <1>7, <1>8, <1>9, <1>10

-----------------------------------------------------------------------------
(* Heads of functions                                                      *)

\* ( begins a function suffix.
LEMMA FunctionSuffixShape ==
    ASSUME ParserInv, FunctionSuffix
    PROVE  \/ Fails
           \/ \E f : /\ Rewrites(f) /\ cursor' = cursor + 1
                     /\ Top.rule = "declarator" /\ Top.at = "suffix" /\ f.at = "function"
                     /\ f.ahead = cursor + 1 /\ f.fun = Top.fun
                     /\ UNCHANGED <<definition_scopes, defined>>
  <1> USE DEF At
  <1> DEFINE f == [Derived(Top) EXCEPT !.at = "function", !.ahead = cursor + 1]
  <1>1. status = "run" /\ Top.rule = "declarator" /\ Top.at = "suffix" BY DEF FunctionSuffix
  <1>2. Top \in Activations /\ cursor + 1 \in Nat BY <1>1, Running
  <1>3. "function" \in Points /\ Top.flags \cup {"derived"} \in SUBSET Flags BY <1>2, Fields DEF Points, Flags
  <1>4. SameActivation(f) /\ f.at = "function" /\ f.ahead = cursor + 1 /\ f.fun = Top.fun
    BY <1>2, <1>3 DEF SameActivation, Activations, Derived
  <1>5. Bump(stack' = SetTop(f) /\ UNCHANGED envVars) BY DEF FunctionSuffix
  <1> HIDE DEF f
  <1>6. Fails \/ (Rewrites(f) /\ UNCHANGED <<definition_scopes, defined>>) BY <1>1, <1>4, <1>5, BumpShape
  <1>7. status' = status => cursor' = cursor + 1 BY <1>1, <1>5 DEF Bump, Err
  <1>8. Rewrites(f) => status' = status BY DEF Rewrites, inputVars
  <1> QED BY <1>1, <1>4, <1>6, <1>7, <1>8

\* () and the end of (a, b): the suffix is the declarator's if it is the first.
LEMMA ListClosedShape ==
    ASSUME ParserInv, EmptyParameters \/ CloseIdentifierList
    PROVE  \/ Fails
           \/ \E f : \E kr \in BOOLEAN :
                 /\ Rewrites(f) /\ cursor' = cursor + 1
                 /\ Top.rule = "declarator" /\ Top.at \in {"function", "identifiers"}
                 /\ Top.at = "identifiers" => kr
                 /\ f.at = "suffix" /\ f.ahead = Top.ahead
                 /\ f.fun = IF Top.fun = None THEN [kr |-> kr, start |-> Top.ahead] ELSE Top.fun
                 /\ defined' = Applied(Len(stack), "identifiers", EmptyScope)
                 /\ UNCHANGED definition_scopes
  <1> USE DEF At
  <1>1. PICK kr \in BOOLEAN :
           /\ Top.at = "identifiers" => kr
           /\ Bump(/\ stack' = SetTop([Suffixed(Top, kr, Top.ahead) EXCEPT !.at = "suffix"])
                   /\ defined' = Applied(Len(stack), "identifiers", EmptyScope)
                   /\ UNCHANGED <<symbols, definition_scopes>>)
    <2>1. CASE EmptyParameters
      <3>1. (Top.name # None) \in BOOLEAN /\ Top.at # "identifiers" BY <2>1 DEF EmptyParameters
      <3> QED BY <2>1, <3>1 DEF EmptyParameters
    <2>2. CASE CloseIdentifierList BY <2>2 DEF CloseIdentifierList
    <2> QED BY <2>1, <2>2
  <1>2. status = "run" /\ Top.rule = "declarator" /\ Top.at \in {"function", "identifiers"}
    BY DEF EmptyParameters, CloseIdentifierList
  <1> DEFINE f == [Suffixed(Top, kr, Top.ahead) EXCEPT !.at = "suffix"]
  <1>3. Top \in Activations /\ "suffix" \in Points BY <1>2, Running DEF Points
  <1>4. [kr |-> kr, start |-> Top.ahead] \in DeclaredFunctions BY <1>3, Fields DEF DeclaredFunctions
  <1>5. /\ SameActivation(f) /\ f.at = "suffix" /\ f.ahead = Top.ahead
        /\ f.fun = IF Top.fun = None THEN [kr |-> kr, start |-> Top.ahead] ELSE Top.fun
    <2>1. CASE Top.fun = None
      <3>1. Suffixed(Top, kr, Top.ahead) = [Top EXCEPT !.fun = [kr |-> kr, start |-> Top.ahead]]
        BY <2>1 DEF Suffixed
      <3> QED BY <1>3, <1>4, <2>1, <3>1 DEF SameActivation, Activations
    <2>2. CASE Top.fun # None
      <3>1. Suffixed(Top, kr, Top.ahead) = Top BY <2>2 DEF Suffixed
      <3> QED BY <1>3, <2>2, <3>1 DEF SameActivation, Activations
    <2> QED BY <2>1, <2>2
  <1> HIDE DEF f
  <1>6. Spent(budget, budget') /\ (budget'.failure = None => budget.failure = None)
    BY <1>1, <1>2, Running, StepSpends DEF Bump
  <1>7. CASE budget'.failure = None /\ cursor < lexed
    <2>1. /\ stack' = SetTop(f) /\ cursor' = cursor + 1 /\ UNCHANGED inputVars
          /\ defined' = Applied(Len(stack), "identifiers", EmptyScope)
          /\ UNCHANGED <<symbols, definition_scopes>>
      BY <1>1, <1>7 DEF Bump, f
    <2>2. Rewrites(f) BY <1>2, <1>5, <1>6, <1>7, <2>1, Running DEF Rewrites
    <2> QED BY <1>1, <1>2, <1>5, <2>1, <2>2
  <1>8. CASE ~(budget'.failure = None /\ cursor < lexed)
    BY <1>1, <1>2, <1>6, <1>8 DEF Bump, Err, Fails, envVars
  <1> QED BY <1>7, <1>8

\* The end of a prototype.
LEMMA ClosePrototypeShape ==
    ASSUME ParserInv, ClosePrototype
    PROVE  \/ Fails
           \/ \E f : /\ Rewrites(f) /\ Top.rule = "declarator" /\ Top.at = "paren"
                     /\ f.at = "suffix" /\ f.ahead = Top.ahead
                     /\ f.fun = IF Top.fun = None THEN [kr |-> FALSE, start |-> Top.ahead] ELSE Top.fun
                     /\ UNCHANGED <<definition_scopes, defined>>
  <1> USE DEF At
  <1> DEFINE f == [Suffixed(Top, FALSE, Top.ahead) EXCEPT !.at = "suffix"]
  <1>1. status = "run" /\ Top.rule = "declarator" /\ Top.at = "paren" BY DEF ClosePrototype
  <1>2. Top \in Activations /\ "suffix" \in Points BY <1>1, Running DEF Points
  <1>3. [kr |-> FALSE, start |-> Top.ahead] \in DeclaredFunctions BY <1>2, Fields DEF DeclaredFunctions
  <1>4. /\ SameActivation(f) /\ f.at = "suffix" /\ f.ahead = Top.ahead
        /\ f.fun = IF Top.fun = None THEN [kr |-> FALSE, start |-> Top.ahead] ELSE Top.fun
    <2>1. CASE Top.fun = None
      <3>1. Suffixed(Top, FALSE, Top.ahead) = [Top EXCEPT !.fun = [kr |-> FALSE, start |-> Top.ahead]]
        BY <2>1 DEF Suffixed
      <3> QED BY <1>2, <1>3, <2>1, <3>1 DEF SameActivation, Activations
    <2>2. CASE Top.fun # None
      <3>1. Suffixed(Top, FALSE, Top.ahead) = Top BY <2>2 DEF Suffixed
      <3> QED BY <1>2, <2>2, <3>1 DEF SameActivation, Activations
    <2> QED BY <2>1, <2>2
  <1>5. Bump(stack' = SetTop(f) /\ UNCHANGED envVars) BY DEF ClosePrototype
  <1> HIDE DEF f
  <1> QED BY <1>1, <1>4, <1>5, BumpShape

\* A prototype.
LEMMA PrototypeShape ==
    ASSUME ParserInv, Prototype
    PROVE  \E f, a : /\ Calls(f, a) /\ a.rule = "params" /\ a.kind = "function"
                     /\ Top.rule = "declarator" /\ Top.at = "function"
                     /\ f.at = "paren" /\ f.fun = Top.fun /\ f.ahead = Top.ahead
                     /\ UNCHANGED <<definition_scopes, defined>>
  <1>1. status = "run" /\ Top.rule = "declarator" /\ Top.at = "function" BY DEF Prototype, At
  <1>2. CallIn("function", "params", "specifiers", "none", "paren") BY DEF Prototype
  <1>3. "paren" \in Points /\ "specifiers" \in Points /\ "params" \in Rules /\ "none" \in Modes
    BY DEF Points, Rules, Modes
  <1>4. LET f == [Top EXCEPT !.at = "paren"] IN f.at = "paren" /\ f.fun = Top.fun /\ f.ahead = Top.ahead
    BY <1>1, <1>3, GotoSame
  <1>5. LET a == Activation("params", "specifiers", "function", "none") IN a.rule = "params" /\ a.kind = "function"
    BY <1>1, <1>3, NewActivation
  <1>6. /\ Calls([Top EXCEPT !.at = "paren"], Activation("params", "specifiers", "function", "none"))
        /\ UNCHANGED <<definition_scopes, defined>>
    BY <1>1, <1>2, <1>3, CallInShape
  <1> QED BY <1>1, <1>4, <1>5, <1>6

\* The first declarator of an external declaration begins, or turns out to be no definition's.
LEMMA HeadShapes ==
    ASSUME ParserInv, begin_function_definition \/ NotADefinition
    PROVE  \E f : /\ Rewrites(f) /\ cursor' = cursor /\ Top.rule = "external" /\ f.fun = Top.fun
                  /\ \/ /\ Top.at = "head" /\ f.at = "begun" /\ f.ahead = Top.ahead
                        /\ definition_scopes' = <<>> /\ defined' = NoFunction
                     \/ /\ Top.at = "declared" /\ f.at = "suffix"
                        /\ definition_scopes' = None /\ defined' = defined
  <1> USE DEF At
  <1>1. status = "run" /\ Top.rule = "external" BY DEF begin_function_definition, NotADefinition
  <1>2. Top \in Activations BY <1>1, Running
  <1>3. Spent(budget, budget) BY <1>1, Running, SpentNothing
  <1>4. CASE begin_function_definition
    <2>0. "begun" \in Points BY DEF Points
    <2> DEFINE f == [Top EXCEPT !.at = "begun"]
    <2>1. SameActivation(f) /\ f.at = "begun" /\ f.fun = Top.fun /\ f.ahead = Top.ahead
      BY <1>1, <2>0, GotoSame
    <2>2. /\ Top.at = "head" /\ stack' = SetTop(f) /\ definition_scopes' = <<>> /\ defined' = NoFunction
          /\ UNCHANGED <<inputVars, cursor, budget, symbols>>
      BY <1>4 DEF begin_function_definition, Goto
    <2> HIDE DEF f
    <2>3. Rewrites(f) BY <1>1, <1>3, <2>1, <2>2, Running DEF Rewrites
    <2> QED BY <1>1, <2>1, <2>2, <2>3
  <1>5. CASE NotADefinition
    <2>0. "suffix" \in Points BY DEF Points
    <2> DEFINE f == [Top EXCEPT !.at = "suffix", !.ahead = 0]
    <2>1. SameActivation(f) /\ f.at = "suffix" /\ f.fun = Top.fun
      BY <1>2, <2>0 DEF SameActivation, Activations
    <2>2. /\ Top.at = "declared" /\ stack' = SetTop(f) /\ definition_scopes' = None /\ defined' = defined
          /\ UNCHANGED <<inputVars, cursor, budget, symbols>>
      BY <1>5 DEF NotADefinition
    <2> HIDE DEF f
    <2>3. Rewrites(f) BY <1>1, <1>3, <2>1, <2>2, Running DEF Rewrites
    <2> QED BY <1>1, <2>1, <2>2, <2>3
  <1> QED BY <1>4, <1>5

\* The scope a definition starts with is one.
LEMMA SavedScopeTyped ==
    ASSUME definition_scopes \in Seq(SavedScopes) \cup {None}, definition_scopes # None, NEW fun
    PROVE  SavedScope(fun) \in Scopes
  <1> DEFINE saved == IF fun = None \/ fun.kr THEN {}
                      ELSE {i \in DOMAIN definition_scopes : definition_scopes[i].start = fun.start}
  <1>1. SavedScope(fun) = IF saved = {} THEN EmptyScope
                          ELSE definition_scopes[CHOOSE i \in saved : \A j \in saved : i <= j].scope
    BY DEF SavedScope
  <1>2. EmptyScope \in Scopes BY DEF EmptyScope, Scopes
  <1>3. definition_scopes \in Seq(SavedScopes) OBVIOUS
  <1>4. saved \subseteq Nat
    BY <1>3
  <1>5. saved # {} => (CHOOSE i \in saved : \A j \in saved : i <= j) \in saved
    <2>1. SUFFICES ASSUME saved # {} PROVE \E i \in saved : \A j \in saved : i <= j
      OBVIOUS
    <2> HIDE DEF saved
    <2>2. PICK m \in saved : \A j \in saved : <<j, m>> \notin OpToRel(<, Nat)
      BY <1>4, <2>1, NatLessThanWellFounded, WFMin
    <2>3. \A j \in saved : ~(j < m) BY <1>4, <2>2 DEF OpToRel
    <2> QED BY <1>4, <2>3
  <1>6. \A i \in saved : definition_scopes[i].scope \in Scopes
    <2>1. \A i \in DOMAIN definition_scopes : definition_scopes[i] \in SavedScopes BY <1>3
    <2>2. \A i \in saved : i \in DOMAIN definition_scopes OBVIOUS
    <2> HIDE DEF saved
    <2> QED BY <2>1, <2>2 DEF SavedScopes
  <1> HIDE DEF saved
  <1> QED BY <1>1, <1>2, <1>5, <1>6

\* A definition: its body opens the scope saved for its parameters.
LEMMA DefinitionShape ==
    ASSUME ParserInv, Definition
    PROVE  \/ Fails
           \/ \E f, a : /\ Calls(f, a) /\ a.rule = "body" /\ a.kind = "scope"
                        /\ Top.rule = "external" /\ Top.at = "declared" /\ f.at = "complete"
                        /\ f.fun = Top.fun /\ definition_scopes' = None /\ defined' = defined
                        /\ symbols'[Len(symbols')] = SavedScope(Top.fun)
  <1> USE DEF At
  <1>1. status = "run" /\ Top.rule = "external" /\ Top.at = "declared" BY DEF Definition
  <1>2. Top \in Activations /\ "complete" \in Points BY <1>1, Running DEF Points
  <1>3. Spent(budget, budget) BY <1>1, Running, SpentNothing
  <1>4. CASE Top.flags \cap {"typedef", "auto"} # {}
    BY <1>1, <1>3, <1>4 DEF Definition, Fails
  <1>5. CASE Top.flags \cap {"typedef", "auto"} = {}
    <2> DEFINE f == [Top EXCEPT !.at = "complete", !.ahead = 0]
               a == Activation("body", "attributes", "scope", "none")
               named == add_symbol(symbols, Top.name, "Identifier")
    <2>1. SameActivation(f) /\ f.at = "complete" /\ f.fun = Top.fun
      BY <1>2 DEF SameActivation, Activations
    <2>2. /\ a \in Activations /\ a.depth = budget.depth /\ a.scopes = Len(symbols)
          /\ a.start = cursor /\ a.fun = None /\ a.ahead = 0 /\ a.kind = "scope" /\ a.rule = "body"
      <3>1. "body" \in Rules /\ "attributes" \in Points /\ "none" \in Modes BY DEF Rules, Points, Modes
      <3> QED BY <1>1, <3>1, NewActivation
    <2>3. /\ stack' = Append(SetTop(f), a) /\ symbols' = Append(named, SavedScope(Top.fun))
          /\ definition_scopes' = None
          /\ UNCHANGED <<inputVars, cursor, budget, defined>>
      BY <1>5 DEF Definition, inputVars
    <2>4. named \in Seq(Scopes) /\ Len(named) = Len(symbols) BY <1>1, <1>2, Running, AddSymbol, Fields
    <2>5. SavedScope(Top.fun) \in Scopes
      <3>1. CASE definition_scopes # None BY <1>1, <3>1, Running, SavedScopeTyped
      <3>2. definition_scopes # None
        BY <1>1, Running DEF ParserInv, RulesPlaced
      <3> QED BY <3>1, <3>2
    <2> HIDE DEF f, a, named
    <2>6. /\ symbols' \in Seq(Scopes) /\ Len(symbols') = Len(symbols) + 1
          /\ symbols'[Len(symbols')] = SavedScope(Top.fun)
      BY <2>3, <2>4, <2>5
    <2>7. DepthHeld(a) = 0 /\ ScopesHeld(a) = 1 BY <2>2 DEF DepthHeld, ScopesHeld
    <2>8. budget.depth \in Nat BY <1>1, Running, BudgetParts
    <2>9. Calls(f, a) BY <1>1, <2>1, <2>2, <2>3, <2>6, <2>7, <2>8, Running DEF Calls
    <2> QED BY <1>1, <2>1, <2>2, <2>3, <2>6, <2>9
  <1> QED BY <1>4, <1>5

-----------------------------------------------------------------------------
(* Types, depth and balance                                                *)

CoreInv ==
    /\ TypeOK /\ DepthBounded /\ WorkExact /\ AcceptedIsComplete /\ FramesOK /\ RulesAccounted
    /\ status \in {"new", "ok", "failed", "rejected"} => definition_scopes = None

\* What no step does: forget a failure, parse after one, or close a rule that holds
\* more or less than it took.
StepKeeps ==
    /\ budget.failure # None => budget'.failure = budget.failure /\ cursor' = cursor
    /\ Len(stack') < Len(stack) => budget'.depth = Top.depth /\ Len(symbols') = Top.scopes

LEMMA EmptyTyped == EmptyScope \in Scopes /\ NoFunction \in [by : {"none", "identifiers", "parameters"}, scope : Scopes]
  BY DEF EmptyScope, Scopes, NoFunction

\* The stack with another top.
LEMMA SetTopFacts ==
    ASSUME stack \in Seq(Activations), stack # <<>>, NEW f \in Activations
    PROVE  /\ SetTop(f) \in Seq(Activations) /\ SetTop(f) # <<>> /\ Len(SetTop(f)) = Len(stack)
           /\ SetTop(f)[Len(stack)] = f
           /\ \A i \in 1 .. Len(stack) : i # Len(stack) => SetTop(f)[i] = stack[i]
  <1>1. Len(stack) \in Nat \ {0} OBVIOUS
  <1>2. SetTop(f) \in Seq(Activations) /\ Len(SetTop(f)) = Len(stack) BY <1>1 DEF SetTop
  <1>3. SetTop(f)[Len(stack)] = f BY <1>1 DEF SetTop
  <1>4. \A i \in 1 .. Len(stack) : i # Len(stack) => SetTop(f)[i] = stack[i] BY <1>1 DEF SetTop
  <1> QED BY <1>1, <1>2, <1>3, <1>4

\* A sequence with one more element.
LEMMA AppendFacts ==
    ASSUME NEW S, NEW s \in Seq(S), NEW e \in S
    PROVE  /\ Append(s, e) \in Seq(S) /\ Append(s, e) # <<>> /\ Len(Append(s, e)) = Len(s) + 1
           /\ Append(s, e)[Len(s) + 1] = e
           /\ \A i \in 1 .. Len(s) : Append(s, e)[i] = s[i]
  OBVIOUS

\* The parts of the invariant that a rewritten top leaves.
LEMMA RewriteCore ==
    ASSUME ParserInv, NEW f, Rewrites(f), definition_scopes' \in Seq(SavedScopes) \cup {None},
           defined' \in [by : {"none", "identifiers", "parameters"}, scope : Scopes]
    PROVE  CoreInv' /\ StepKeeps
  <1>1. status = "run" /\ SameActivation(f) /\ stack' = SetTop(f) BY DEF Rewrites
  <1>2. f \in Activations /\ stack \in Seq(Activations) /\ stack # <<>> /\ Len(stack) \in Nat \ {0}
    BY <1>1, Running DEF SameActivation
  <1>3. /\ stack' \in Seq(Activations) /\ stack' # <<>> /\ Len(stack') = Len(stack)
        /\ stack'[Len(stack)] = f /\ \A i \in 1 .. Len(stack) : i # Len(stack) => stack'[i] = stack[i]
    BY <1>1, <1>2, SetTopFacts
  <1>4. Spent(budget, budget') /\ status' = "run" /\ source' = source /\ lexed' = lexed
    BY <1>1 DEF Rewrites, inputVars
  <1>5. cursor \in 0 .. lexed /\ lexed \in 0 .. Len(source) /\ Len(source) \in Nat
    BY DEF ParserInv, TypeOK, FramesOK
  <1>6. /\ cursor' \in 0 .. lexed /\ (budget.failure # None => cursor' = cursor)
    BY <1>5 DEF Rewrites
  <1>7. symbols' \in Seq(Scopes) /\ Len(symbols') = Len(symbols) /\ Len(symbols) \in Nat \ {0}
    BY <1>1, Running DEF Rewrites
  <1>8. TypeOK'
    <2>1. \A i \in DOMAIN symbols' : symbols'[i] \in Scopes BY <1>7
    <2>2. defined'.scope \in Scopes OBVIOUS
    <2> QED BY <1>3, <1>4, <1>5, <1>6, <2>1, <2>2 DEF TypeOK, Spent
  <1>9. DepthBounded' /\ WorkExact'
    BY <1>4 DEF Spent, ParserInv, DepthBounded, WorkExact
  <1>10. AcceptedIsComplete' BY <1>4 DEF AcceptedIsComplete
  <1>11. FramesOK'
    <2>1. budget'.failure = None => lexed' = Len(source') BY <1>1, <1>4 DEF Spent, ParserInv, FramesOK
    <2>2. source' \in Seq(Tokens) BY <1>4 DEF ParserInv, FramesOK
    <2>3. symbols' # <<>> BY <1>7
    <2> QED BY <1>3, <1>4, <1>7, <2>1, <2>2, <2>3 DEF FramesOK
  <1>12. RulesAccounted'
    <2>1. Top' = f BY <1>3 DEF Top
    <2>2. DepthHeld(f) = DepthHeld(Top) /\ ScopesHeld(f) = ScopesHeld(Top)
      BY <1>1 DEF SameActivation, DepthHeld, ScopesHeld
    <2>3. /\ stack[1].kind = "root" /\ stack[1].scopes = 1
          /\ budget.depth = Top.depth + DepthHeld(Top) /\ Len(symbols) = Top.scopes + ScopesHeld(Top)
      BY <1>2 DEF ParserInv, RulesAccounted
    <2>4. budget'.depth = f.depth + DepthHeld(f) /\ Len(symbols') = f.scopes + ScopesHeld(f)
      BY <1>1, <1>4, <1>7, <2>2, <2>3 DEF SameActivation, Spent
    <2>5. \A i \in 1 .. Len(stack) :
             /\ stack'[i].kind = stack[i].kind /\ stack'[i].depth = stack[i].depth
             /\ stack'[i].scopes = stack[i].scopes
      BY <1>1, <1>3 DEF SameActivation, Top
    <2>6. stack'[1].kind = "root" /\ stack'[1].scopes = 1 BY <1>2, <2>3, <2>5
    <2>7. ASSUME NEW i \in 2 .. Len(stack')
          PROVE  /\ stack'[i].depth = stack'[i - 1].depth + DepthHeld(stack'[i - 1])
                 /\ stack'[i].scopes = stack'[i - 1].scopes + ScopesHeld(stack'[i - 1])
      <3>1. i \in 2 .. Len(stack) /\ i \in 1 .. Len(stack) /\ i - 1 \in 1 .. Len(stack) BY <1>2, <1>3, <2>7
      <3>2. /\ stack[i].depth = stack[i - 1].depth + DepthHeld(stack[i - 1])
            /\ stack[i].scopes = stack[i - 1].scopes + ScopesHeld(stack[i - 1])
        BY <3>1 DEF ParserInv, RulesAccounted
      <3>3. /\ DepthHeld(stack'[i - 1]) = DepthHeld(stack[i - 1])
            /\ ScopesHeld(stack'[i - 1]) = ScopesHeld(stack[i - 1])
        BY <2>5, <3>1 DEF DepthHeld, ScopesHeld
      <3> QED BY <2>5, <3>1, <3>2, <3>3
    <2> QED BY <2>1, <2>4, <2>6, <2>7 DEF RulesAccounted
  <1>13. StepKeeps BY <1>2, <1>3, <1>4, <1>6 DEF StepKeeps, Spent
  <1> QED BY <1>4, <1>8, <1>9, <1>10, <1>11, <1>12, <1>13 DEF CoreInv

\* The same for a call.
LEMMA CallCore ==
    ASSUME ParserInv, NEW f, NEW a, Calls(f, a), definition_scopes' \in {definition_scopes, None},
           defined' = defined
    PROVE  CoreInv' /\ StepKeeps
  <1>1. status = "run" /\ SameActivation(f) /\ stack' = Append(SetTop(f), a) /\ a \in Activations
    BY DEF Calls
  <1>2. f \in Activations /\ stack \in Seq(Activations) /\ stack # <<>> /\ Len(stack) \in Nat \ {0}
    BY <1>1, Running DEF SameActivation
  <1>3. /\ stack' \in Seq(Activations) /\ stack' # <<>> /\ Len(stack') = Len(stack) + 1
        /\ stack'[Len(stack) + 1] = a /\ stack'[Len(stack)] = f
        /\ \A i \in 1 .. Len(stack) : i # Len(stack) => stack'[i] = stack[i]
    <2>1. /\ SetTop(f) \in Seq(Activations) /\ Len(SetTop(f)) = Len(stack) /\ SetTop(f)[Len(stack)] = f
          /\ \A i \in 1 .. Len(stack) : i # Len(stack) => SetTop(f)[i] = stack[i]
      BY <1>2, SetTopFacts
    <2> QED BY <1>1, <1>2, <2>1, AppendFacts
  <1>4. /\ status' = "run" /\ source' = source /\ lexed' = lexed /\ cursor' = cursor
        /\ budget' \in Budgets /\ budget'.limits = budget.limits /\ budget'.failure = budget.failure
        /\ budget'.depth = budget.depth + DepthHeld(a)
        /\ budget'.depth <= budget.limits.max_rule_depth
    BY <1>1 DEF Calls, inputVars
  <1>5. symbols' \in Seq(Scopes) /\ Len(symbols') = Len(symbols) + ScopesHeld(a) /\ Len(symbols) \in Nat \ {0}
    BY <1>1, Running DEF Calls
  <1>6. Len(symbols') \in Nat \ {0} BY <1>5 DEF ScopesHeld
  <1>7. TypeOK'
    <2>1. \A i \in DOMAIN symbols' : symbols'[i] \in Scopes BY <1>5
    <2> QED BY <1>3, <1>4, <2>1 DEF TypeOK, ParserInv
  <1>8. DepthBounded' /\ WorkExact' BY <1>4 DEF Calls, ParserInv, DepthBounded, WorkExact
  <1>9. AcceptedIsComplete' BY <1>4 DEF AcceptedIsComplete
  <1>10. FramesOK'
    <2>1. budget'.failure = None => lexed' = Len(source') BY <1>1, <1>4 DEF ParserInv, FramesOK
    <2>2. source' \in Seq(Tokens) /\ definition_scopes' \in Seq(SavedScopes) \cup {None}
      BY <1>4 DEF ParserInv, FramesOK
    <2>3. symbols' # <<>> BY <1>5, <1>6
    <2> QED BY <1>3, <1>4, <1>5, <2>1, <2>2, <2>3 DEF FramesOK, ParserInv
  <1>11. RulesAccounted'
    <2>1. Top' = a BY <1>3 DEF Top
    <2>2. DepthHeld(f) = DepthHeld(Top) /\ ScopesHeld(f) = ScopesHeld(Top)
      BY <1>1 DEF SameActivation, DepthHeld, ScopesHeld
    <2>3. /\ stack[1].kind = "root" /\ stack[1].scopes = 1
          /\ budget.depth = Top.depth + DepthHeld(Top) /\ Len(symbols) = Top.scopes + ScopesHeld(Top)
      BY <1>2 DEF ParserInv, RulesAccounted
    <2>4. budget'.depth = a.depth + DepthHeld(a) /\ Len(symbols') = a.scopes + ScopesHeld(a)
      BY <1>4, <1>5 DEF Calls
    <2>5. \A i \in 1 .. Len(stack) :
             /\ stack'[i].kind = stack[i].kind /\ stack'[i].depth = stack[i].depth
             /\ stack'[i].scopes = stack[i].scopes
      BY <1>1, <1>3 DEF SameActivation, Top
    <2>6. stack'[1].kind = "root" /\ stack'[1].scopes = 1 BY <1>2, <2>3, <2>5
    <2>7. ASSUME NEW i \in 2 .. Len(stack')
          PROVE  /\ stack'[i].depth = stack'[i - 1].depth + DepthHeld(stack'[i - 1])
                 /\ stack'[i].scopes = stack'[i - 1].scopes + ScopesHeld(stack'[i - 1])
      <3>1. CASE i = Len(stack) + 1
        <4>1. stack'[i] = a /\ stack'[i - 1] = f BY <1>2, <1>3, <3>1
        <4>2. a.depth = f.depth + DepthHeld(f) /\ a.scopes = f.scopes + ScopesHeld(f)
          BY <1>1, <2>2, <2>3 DEF Calls, SameActivation
        <4> QED BY <4>1, <4>2
      <3>2. CASE i # Len(stack) + 1
        <4>1. i \in 2 .. Len(stack) /\ i \in 1 .. Len(stack) /\ i - 1 \in 1 .. Len(stack) BY <1>2, <1>3, <2>7, <3>2
        <4>2. /\ stack[i].depth = stack[i - 1].depth + DepthHeld(stack[i - 1])
              /\ stack[i].scopes = stack[i - 1].scopes + ScopesHeld(stack[i - 1])
          BY <4>1 DEF ParserInv, RulesAccounted
        <4>3. /\ DepthHeld(stack'[i - 1]) = DepthHeld(stack[i - 1])
              /\ ScopesHeld(stack'[i - 1]) = ScopesHeld(stack[i - 1])
          BY <2>5, <4>1 DEF DepthHeld, ScopesHeld
        <4> QED BY <2>5, <4>1, <4>2, <4>3
      <3> QED BY <3>1, <3>2
    <2> QED BY <2>1, <2>4, <2>6, <2>7 DEF RulesAccounted
  <1>12. StepKeeps BY <1>2, <1>3, <1>4 DEF StepKeeps
  <1> QED BY <1>4, <1>7, <1>8, <1>9, <1>10, <1>11, <1>12 DEF CoreInv

\* The same for a failing rule.
LEMMA FailCore ==
    ASSUME ParserInv, Fails
    PROVE  CoreInv' /\ StepKeeps
  <1>1. /\ status = "run" /\ status' = "error" /\ Spent(budget, budget') /\ source' = source /\ lexed' = lexed
        /\ cursor' = cursor /\ stack' = stack /\ symbols' = symbols /\ defined' = defined
        /\ definition_scopes' \in {definition_scopes, None}
    BY DEF Fails
  <1>2. stack # <<>> /\ Len(stack) \in Nat BY <1>1, Running
  <1>3. TypeOK' BY <1>1, <1>2 DEF TypeOK, ParserInv, Spent
  <1>4. DepthBounded' /\ WorkExact' BY <1>1 DEF Spent, ParserInv, DepthBounded, WorkExact
  <1>5. AcceptedIsComplete' BY <1>1 DEF AcceptedIsComplete
  <1>6. FramesOK' BY <1>1, <1>2 DEF FramesOK, ParserInv, Spent
  <1>7. RulesAccounted' BY <1>1, <1>2 DEF RulesAccounted, ParserInv, Spent, Top
  <1>8. StepKeeps BY <1>1, <1>2 DEF StepKeeps, Spent
  <1> QED BY <1>1, <1>3, <1>4, <1>5, <1>6, <1>7, <1>8 DEF CoreInv

\* An activation is closed: the others hold what they held, and what it held is
\* given back.
Closes ==
    /\ Len(stack) > 1 /\ status \in {"run", "error"}
    /\ stack' \in Seq(Activations) /\ Len(stack') = Len(stack) - 1
    /\ \A i \in 1 .. Len(stack) - 1 :
          /\ stack'[i].kind = stack[i].kind /\ stack'[i].depth = stack[i].depth
          /\ stack'[i].scopes = stack[i].scopes
    /\ budget' \in Budgets /\ budget'.limits = budget.limits
    /\ budget.failure # None => budget'.failure = budget.failure
    /\ (budget.failure = None => budget.work = budget.charged) =>
          (budget'.failure = None => budget'.work = budget'.charged)
    /\ budget'.depth = Top.depth
    /\ symbols' \in Seq(Scopes) /\ Len(symbols') = Top.scopes
    /\ UNCHANGED <<inputVars, cursor>>

\* leave, leave_scope and leave_function_scope give back what the activation holds.
LEMMA GivesBack ==
    ASSUME ParserInv, status \in {"run", "error"}, NEW ok \in BOOLEAN, LeaveScopes(ok), LeaveBudget(ok)
    PROVE  /\ budget' \in Budgets /\ budget'.limits = budget.limits
           /\ budget.failure # None => budget'.failure = budget.failure
           /\ (budget.failure = None => budget.work = budget.charged) =>
                 (budget'.failure = None => budget'.work = budget'.charged)
           /\ budget'.depth = Top.depth
           /\ symbols' \in Seq(Scopes) /\ Len(symbols') = Top.scopes
  <1>1. stack # <<>> /\ stack \in Seq(Activations) /\ Len(stack) \in Nat \ {0} BY DEF ParserInv, TypeOK, FramesOK
  <1>2. Top \in Activations BY <1>1 DEF Top
  <1>3. Top.start \in Nat /\ Top.depth \in Nat /\ Top.scopes \in Nat \ {0} BY <1>2, Fields
  <1>4. /\ budget.depth = Top.depth + DepthHeld(Top) /\ Len(symbols) = Top.scopes + ScopesHeld(Top)
    BY <1>1 DEF ParserInv, RulesAccounted
  <1>5. budget \in Budgets /\ cursor \in Nat /\ symbols \in Seq(Scopes)
    BY DEF ParserInv, TypeOK, FramesOK
  <1>6. /\ budget' \in Budgets /\ budget'.limits = budget.limits
        /\ budget.failure # None => budget'.failure = budget.failure
        /\ (budget.failure = None => budget.work = budget.charged) =>
              (budget'.failure = None => budget'.work = budget'.charged)
        /\ budget'.depth = Top.depth
    <2>1. CASE Top.kind = "nested"
      <3>1. PICK end \in Nat \cup {None} : budget' = leave(budget, Top.start, end)
        BY <1>5, <2>1 DEF LeaveBudget
      <3>2. budget.depth > 0 /\ budget.depth - 1 = Top.depth BY <1>3, <1>4, <2>1 DEF DepthHeld
      <3> QED BY <1>3, <1>5, <3>1, <3>2, LeaveSpends
    <2>2. CASE Top.kind # "nested"
      <3>1. budget' = budget /\ budget.depth = Top.depth BY <1>3, <1>4, <2>2 DEF LeaveBudget, DepthHeld
      <3> QED BY <1>5, <3>1
    <2> QED BY <2>1, <2>2
  <1>7. symbols' \in Seq(Scopes) /\ Len(symbols') = Top.scopes
    <2>1. CASE Top.kind \in {"scope", "function"}
      <3>1. symbols' = SubSeq(symbols, 1, Len(symbols) - 1) BY <2>1 DEF LeaveScopes, PopScope
      <3>2. Len(symbols) - 1 = Top.scopes BY <1>3, <1>4, <2>1 DEF ScopesHeld
      <3> QED BY <1>3, <1>5, <3>1, <3>2
    <2>2. CASE Top.kind \notin {"scope", "function"}
      <3>1. symbols' = symbols /\ Len(symbols) = Top.scopes BY <1>3, <1>4, <2>2 DEF LeaveScopes, ScopesHeld
      <3> QED BY <1>5, <3>1
    <2> QED BY <2>1, <2>2
  <1> QED BY <1>6, <1>7

LEMMA CloseCore ==
    ASSUME ParserInv, Closes, definition_scopes' \in Seq(SavedScopes) \cup {None},
           defined' \in [by : {"none", "identifiers", "parameters"}, scope : Scopes]
    PROVE  CoreInv' /\ StepKeeps
  <1>1. /\ Len(stack) > 1 /\ Len(stack) \in Nat /\ stack # <<>> /\ stack \in Seq(Activations)
        /\ stack' \in Seq(Activations) /\ Len(stack') = Len(stack) - 1 /\ stack' # <<>>
    BY DEF Closes, ParserInv, FramesOK
  <1>2. /\ status \in {"run", "error"} /\ status' = status /\ source' = source /\ lexed' = lexed /\ cursor' = cursor
    BY DEF Closes, inputVars
  <1>3. Top \in Activations /\ Top.depth \in Nat /\ Top.scopes \in Nat \ {0}
    <2>1. Top \in Activations BY <1>1 DEF Top
    <2> QED BY <2>1, Fields
  <1>4. symbols' \in Seq(Scopes) /\ Len(symbols') = Top.scopes /\ symbols' # <<>> BY <1>3 DEF Closes
  <1>5. budget.depth = Top.depth + DepthHeld(Top) /\ budget'.depth = Top.depth
    BY <1>1 DEF ParserInv, RulesAccounted, Closes
  <1>6. TypeOK'
    <2>1. \A i \in DOMAIN symbols' : symbols'[i] \in Scopes BY <1>4
    <2>2. budget' \in Budgets BY DEF Closes
    <2> QED BY <1>1, <1>2, <2>1, <2>2 DEF TypeOK, ParserInv
  <1>7. DepthBounded'
    <2>1. budget.depth <= budget.limits.max_rule_depth /\ budget \in Budgets BY DEF ParserInv, DepthBounded, TypeOK
    <2>2. budget.limits.max_rule_depth \in Nat BY <2>1, BudgetParts
    <2>3. DepthHeld(Top) \in {0, 1} BY DEF DepthHeld
    <2>4. Top.depth <= budget.limits.max_rule_depth BY <1>3, <1>5, <2>1, <2>2, <2>3
    <2> QED BY <1>5, <2>4 DEF DepthBounded, Closes
  <1>8. WorkExact' BY DEF Closes, ParserInv, WorkExact
  <1>9. AcceptedIsComplete' BY <1>2 DEF AcceptedIsComplete
  <1>10. FramesOK'
    <2>1. budget'.failure = None => lexed' = Len(source') BY <1>2 DEF ParserInv, FramesOK, Closes
    <2>2. source' \in Seq(Tokens) BY <1>2 DEF ParserInv, FramesOK
    <2> QED BY <1>1, <1>2, <1>4, <2>1, <2>2 DEF FramesOK
  <1>11. RulesAccounted'
    <2>1. Top' = stack'[Len(stack) - 1] BY <1>1 DEF Top
    <2>2. Len(stack) - 1 \in 1 .. Len(stack) - 1 BY <1>1
    <2>3. \A i \in 1 .. Len(stack) - 1 :
             /\ stack'[i].kind = stack[i].kind /\ stack'[i].depth = stack[i].depth
             /\ stack'[i].scopes = stack[i].scopes
             /\ DepthHeld(stack'[i]) = DepthHeld(stack[i]) /\ ScopesHeld(stack'[i]) = ScopesHeld(stack[i])
      BY DEF Closes, DepthHeld, ScopesHeld
    <2>4. stack[1].kind = "root" /\ stack[1].scopes = 1 /\ 1 \in 1 .. Len(stack) - 1
      BY <1>1 DEF ParserInv, RulesAccounted
    <2>5. \A i \in 2 .. Len(stack) :
             /\ stack[i].depth = stack[i - 1].depth + DepthHeld(stack[i - 1])
             /\ stack[i].scopes = stack[i - 1].scopes + ScopesHeld(stack[i - 1])
      BY DEF ParserInv, RulesAccounted
    <2>6. /\ Top.depth = stack[Len(stack) - 1].depth + DepthHeld(stack[Len(stack) - 1])
          /\ Top.scopes = stack[Len(stack) - 1].scopes + ScopesHeld(stack[Len(stack) - 1])
      BY <1>1, <2>5 DEF Top
    <2>7. budget'.depth = Top'.depth + DepthHeld(Top') /\ Len(symbols') = Top'.scopes + ScopesHeld(Top')
      BY <1>4, <1>5, <2>1, <2>2, <2>3, <2>6
    <2>8. ASSUME NEW i \in 2 .. Len(stack')
          PROVE  /\ stack'[i].depth = stack'[i - 1].depth + DepthHeld(stack'[i - 1])
                 /\ stack'[i].scopes = stack'[i - 1].scopes + ScopesHeld(stack'[i - 1])
      <3>1. i \in 2 .. Len(stack) /\ i \in 1 .. Len(stack) - 1 /\ i - 1 \in 1 .. Len(stack) - 1 BY <1>1, <2>8
      <3> QED BY <2>3, <2>5, <3>1
    <2>9. stack'[1].kind = "root" /\ stack'[1].scopes = 1 BY <2>3, <2>4
    <2> QED BY <2>7, <2>8, <2>9 DEF RulesAccounted
  <1>12. StepKeeps BY <1>2 DEF StepKeeps, Closes
  <1> QED BY <1>2, <1>6, <1>7, <1>8, <1>9, <1>10, <1>11, <1>12 DEF CoreInv

\* A rule that returned a value: its caller goes on where it was, a declarator's
\* with the declarator's function, and a parameter list's scope is saved.
LeaveFacts ==
    /\ Closes /\ status = "run" /\ Top.at = "done"
    /\ \A i \in 1 .. Len(stack) - 2 : stack'[i] = stack[i]
    /\ LET c == stack'[Len(stack) - 1]
       IN  /\ c.rule = Caller.rule /\ c.at = Caller.at /\ c.start = Caller.start /\ c.ahead = Caller.ahead
           /\ c.fun = IF Top.rule = "declarator" /\ Caller.rule \in Declarations \cup {"declarator", "params"}
                      THEN Top.fun ELSE Caller.fun
    /\ IF Top.rule = "params" /\ definition_scopes # None
       THEN /\ definition_scopes' =
                 Append(definition_scopes, [start |-> Top.start, scope |-> symbols[Len(symbols)]])
            /\ defined' = Applied(Len(stack) - 1, "parameters", symbols[Len(symbols)])
       ELSE UNCHANGED <<definition_scopes, defined>>

LEMMA LeaveShape ==
    ASSUME ParserInv, Leave
    PROVE  LeaveFacts
  <1>1. status = "run" /\ Top.at = "done" /\ Top.kind # "root" /\ stack' = Resumed BY DEF Leave
  <1>2. stack \in Seq(Activations) /\ stack # <<>> /\ Len(stack) \in Nat \ {0} /\ Top \in Activations
    BY <1>1, Running
  <1>3. Len(stack) > 1
    <2>1. stack[1].kind = "root" BY <1>2 DEF ParserInv, RulesAccounted
    <2> QED BY <1>1, <1>2, <2>1 DEF Top
  <1>4. /\ Returned \in Seq(Activations) /\ Len(Returned) = Len(stack) - 1
        /\ \A i \in 1 .. Len(stack) - 1 : Returned[i] = stack[i]
    BY <1>2, <1>3 DEF Returned
  <1>5. Caller \in Activations /\ Caller = stack[Len(stack) - 1] /\ Returned[Len(stack) - 1] = Caller
    BY <1>2, <1>3, <1>4 DEF Caller
  <1>6. Top.fun \in DeclaredFunctions \cup {None} /\ Top.name \in Names \cup {None} BY <1>2, Fields
  <1>7. Len(stack) - 1 \in 1 .. Len(stack) - 1 BY <1>2, <1>3
  <1>8. PICK c \in Activations :
           /\ c.rule = Caller.rule /\ c.at = Caller.at /\ c.start = Caller.start /\ c.ahead = Caller.ahead
           /\ c.kind = Caller.kind /\ c.depth = Caller.depth /\ c.scopes = Caller.scopes
           /\ c.fun = IF Top.rule = "declarator" /\ Caller.rule \in Declarations \cup {"declarator", "params"}
                      THEN Top.fun ELSE Caller.fun
           /\ stack' = [Returned EXCEPT ![Len(stack) - 1] = c]
    <2>1. CASE Top.rule = "declarator" /\ Caller.rule \in Declarations \cup {"declarator", "params"}
      <3> DEFINE c == [Caller EXCEPT !.name = Top.name, !.fun = Top.fun]
      <3>1. /\ c \in Activations
            /\ c.rule = Caller.rule /\ c.at = Caller.at /\ c.start = Caller.start /\ c.ahead = Caller.ahead
            /\ c.kind = Caller.kind /\ c.depth = Caller.depth /\ c.scopes = Caller.scopes
            /\ c.fun = Top.fun
        BY <1>5, <1>6 DEF Activations
      <3>2. Resumed = [Returned EXCEPT ![Len(stack) - 1].name = Top.name, ![Len(stack) - 1].fun = Top.fun]
        BY <2>1 DEF Resumed
      <3>3. Resumed = [Returned EXCEPT ![Len(stack) - 1] = c]
        BY <1>4, <1>5, <1>7, <3>2
      <3> HIDE DEF c
      <3> QED BY <1>1, <2>1, <3>1, <3>3
    <2>2. CASE ~(Top.rule = "declarator" /\ Caller.rule \in Declarations \cup {"declarator", "params"})
      <3>1. Resumed = Returned BY <2>2 DEF Resumed
      <3>2. Returned = [Returned EXCEPT ![Len(stack) - 1] = Caller] BY <1>4, <1>5, <1>7
      <3> QED BY <1>1, <1>5, <2>2, <3>1, <3>2
    <2> QED BY <2>1, <2>2
  <1>9. stack' \in Seq(Activations) /\ Len(stack') = Len(stack) - 1 /\ stack'[Len(stack) - 1] = c
    BY <1>4, <1>7, <1>8
  <1>10. \A i \in 1 .. Len(stack) - 1 : i # Len(stack) - 1 => stack'[i] = stack[i]
    BY <1>4, <1>7, <1>8
  <1>11. \A i \in 1 .. Len(stack) - 2 : stack'[i] = stack[i]
    BY <1>2, <1>3, <1>10
  <1>12. \A i \in 1 .. Len(stack) - 1 :
             /\ stack'[i].kind = stack[i].kind /\ stack'[i].depth = stack[i].depth
             /\ stack'[i].scopes = stack[i].scopes
    BY <1>5, <1>8, <1>9, <1>10
  <1>13. Closes
    <2>1. LeaveScopes(TRUE) /\ LeaveBudget(TRUE) /\ UNCHANGED <<inputVars, cursor>> BY DEF Leave
    <2>2. TRUE \in BOOLEAN OBVIOUS
    <2> QED BY <1>1, <1>3, <1>9, <1>12, <2>1, <2>2, GivesBack DEF Closes
  <1>14. IF Top.rule = "params" /\ definition_scopes # None
         THEN /\ definition_scopes' =
                   Append(definition_scopes, [start |-> Top.start, scope |-> symbols[Len(symbols)]])
              /\ defined' = Applied(Len(stack) - 1, "parameters", symbols[Len(symbols)])
         ELSE UNCHANGED <<definition_scopes, defined>>
    BY DEF Leave
  <1> QED BY <1>1, <1>8, <1>9, <1>11, <1>13, <1>14 DEF LeaveFacts

\* What is applied is a scope.
LEMMA AppliedTyped ==
    ASSUME NEW n, NEW by \in {"identifiers", "parameters"}, NEW scope \in Scopes,
           defined \in [by : {"none", "identifiers", "parameters"}, scope : Scopes]
    PROVE  Applied(n, by, scope) \in [by : {"none", "identifiers", "parameters"}, scope : Scopes]
  BY DEF Applied

LEMMA LeaveCore ==
    ASSUME ParserInv, Leave
    PROVE  CoreInv' /\ StepKeeps
  <1>1. LeaveFacts BY LeaveShape
  <1>2. status = "run" /\ Closes BY <1>1 DEF LeaveFacts
  <1>3. /\ stack \in Seq(Activations) /\ Top \in Activations
        /\ symbols \in Seq(Scopes) /\ Len(symbols) \in Nat \ {0}
        /\ definition_scopes \in Seq(SavedScopes) \cup {None}
        /\ defined \in [by : {"none", "identifiers", "parameters"}, scope : Scopes]
    BY <1>2, Running
  <1>4. Top.start \in Nat BY <1>3, Fields
  <1>5. symbols[Len(symbols)] \in Scopes BY <1>3
  <1>6. [start |-> Top.start, scope |-> symbols[Len(symbols)]] \in SavedScopes BY <1>4, <1>5 DEF SavedScopes
  <1>7. CASE Top.rule = "params" /\ definition_scopes # None
    <2>1. /\ definition_scopes' =
                 Append(definition_scopes, [start |-> Top.start, scope |-> symbols[Len(symbols)]])
          /\ defined' = Applied(Len(stack) - 1, "parameters", symbols[Len(symbols)])
      BY <1>1, <1>7 DEF LeaveFacts
    <2>2. definition_scopes' \in Seq(SavedScopes) BY <1>3, <1>6, <1>7, <2>1
    <2>3. defined' \in [by : {"none", "identifiers", "parameters"}, scope : Scopes]
      BY <1>3, <1>5, <2>1, AppliedTyped
    <2> QED BY <1>2, <2>2, <2>3, CloseCore
  <1>8. CASE ~(Top.rule = "params" /\ definition_scopes # None)
    <2>1. definition_scopes' = definition_scopes /\ defined' = defined BY <1>1, <1>8 DEF LeaveFacts
    <2> QED BY <1>2, <1>3, <2>1, CloseCore
  <1> QED BY <1>7, <1>8

LEMMA UnwindCore ==
    ASSUME ParserInv, Unwind
    PROVE  CoreInv' /\ StepKeeps /\ status' = "error"
  <1>1. /\ status = "error" /\ Len(stack) > 1 /\ stack' = Returned /\ LeaveScopes(FALSE) /\ LeaveBudget(FALSE)
        /\ definition_scopes' \in {definition_scopes, None} /\ defined' = defined
        /\ UNCHANGED <<inputVars, cursor>>
    BY DEF Unwind
  <1>2. stack \in Seq(Activations) /\ Len(stack) \in Nat BY DEF ParserInv, FramesOK
  <1>3. /\ Returned \in Seq(Activations) /\ Len(Returned) = Len(stack) - 1
        /\ \A i \in 1 .. Len(stack) - 1 : Returned[i] = stack[i]
    BY <1>1, <1>2 DEF Returned
  <1>4. FALSE \in BOOLEAN OBVIOUS
  <1>5. Closes BY <1>1, <1>3, <1>4, GivesBack DEF Closes
  <1>6. /\ definition_scopes' \in Seq(SavedScopes) \cup {None}
        /\ defined' \in [by : {"none", "identifiers", "parameters"}, scope : Scopes]
    BY <1>1 DEF ParserInv, FramesOK
  <1>7. status' = "error" BY <1>1 DEF inputVars
  <1> QED BY <1>5, <1>6, <1>7, CloseCore

LEMMA FinishCore ==
    ASSUME ParserInv, Finish
    PROVE  CoreInv' /\ StepKeeps /\ status' # "run"
  <1>1. /\ Len(stack) = 1 /\ status \in {"run", "error"}
        /\ status' = IF status = "run" /\ Accepts THEN "ok" ELSE "failed"
        /\ stack' = <<>> /\ symbols' = SubSeq(symbols, 1, 1) /\ definition_scopes' = None
        /\ source' = source /\ lexed' = lexed /\ cursor' = cursor /\ budget' = budget /\ defined' = defined
    BY DEF Finish, At
  <1>2. stack \in Seq(Activations) /\ stack # <<>> /\ symbols \in Seq(Scopes) /\ symbols # <<>>
    BY <1>1 DEF ParserInv, FramesOK, TypeOK
  <1>3. symbols' \in Seq(Scopes) /\ Len(symbols') = 1 /\ symbols' # <<>> BY <1>1, <1>2
  <1>4. Top = stack[1] /\ Top \in Activations BY <1>1, <1>2 DEF Top
  <1>5. Top.kind = "root" /\ Top.scopes = 1 /\ budget.depth = Top.depth + DepthHeld(Top) /\ Top.depth \in Nat
    BY <1>2, <1>4, Fields DEF ParserInv, RulesAccounted
  <1>6. budget.depth = Top.depth BY <1>5 DEF DepthHeld
  <1>7. TypeOK'
    <2>1. \A i \in DOMAIN symbols' : symbols'[i] \in Scopes BY <1>3
    <2> QED BY <1>1, <2>1 DEF TypeOK, ParserInv
  <1>8. DepthBounded' /\ WorkExact' BY <1>1 DEF ParserInv, DepthBounded, WorkExact
  <1>9. AcceptedIsComplete' BY <1>1 DEF AcceptedIsComplete, Accepts, ParserInv, FramesOK
  <1>10. FramesOK'
    <2>1. stack' \in Seq(Activations) BY <1>1
    <2> QED BY <1>1, <1>3, <2>1 DEF FramesOK, ParserInv
  <1>11. RulesAccounted' BY <1>1 DEF RulesAccounted
  <1>12. StepKeeps BY <1>1, <1>3, <1>5, <1>6 DEF StepKeeps
  <1> QED BY <1>1, <1>7, <1>8, <1>9, <1>10, <1>11, <1>12 DEF CoreInv

LEMMA RejectCore ==
    ASSUME ParserInv, Reject
    PROVE  CoreInv' /\ StepKeeps /\ status' # "run"
  <1>1. /\ status = "new" /\ status' = "rejected" /\ source' = source /\ lexed' = lexed /\ cursor' = cursor
        /\ stack' = stack /\ symbols' = symbols /\ definition_scopes' = definition_scopes
        /\ defined' = defined /\ budget' = budget
    BY DEF Reject, envVars
  <1>2. stack = <<>> BY <1>1 DEF ParserInv, FramesOK
  <1>3. TypeOK' BY <1>1 DEF TypeOK, ParserInv
  <1>4. DepthBounded' /\ WorkExact' BY <1>1 DEF ParserInv, DepthBounded, WorkExact
  <1>5. AcceptedIsComplete' BY <1>1 DEF AcceptedIsComplete
  <1>6. FramesOK' BY <1>1, <1>2 DEF FramesOK, ParserInv
  <1>7. RulesAccounted' BY <1>1, <1>2 DEF RulesAccounted
  <1>8. StepKeeps BY <1>1, <1>2 DEF StepKeeps
  <1> QED BY <1>1, <1>3, <1>4, <1>5, <1>6, <1>7, <1>8 DEF CoreInv, ParserInv

\* lex charges a budget, and one without a failure has kept every token.
LEMMA LexSpends ==
    ASSUME budget \in Budgets, NEW n \in Nat, NEW outcome \in LexOutcomes(n)
    PROVE  /\ outcome.kept \in 0 .. n /\ Spent(budget, outcome.budget)
           /\ outcome.budget.failure = None => outcome.kept = n
  <1> DEFINE scanned == work(budget, 0, n)
             charged(k, offset) == work(scanned, offset, k * TokenCost)
             short == 0 .. n - 1
  <1>1. Spent(budget, scanned) /\ scanned \in Budgets BY WorkSpends DEF Spent
  <1>2. CASE scanned.failure # None
    <2>1. outcome = [kept |-> 0, budget |-> scanned] BY <1>2 DEF LexOutcomes
    <2> QED BY <1>1, <1>2, <2>1
  <1>3. CASE scanned.failure = None
    <2>1. \/ \E k \in short : outcome = [kept |-> k, budget |-> charged(k + 1, k)] /\ charged(k + 1, k).failure # None
          \/ \E k \in short : /\ charged(k + 1, k).failure = None
                              /\ outcome = [kept |-> k, budget |-> FailedAt(charged(k + 1, k), "CacheBytes", k)]
          \/ outcome = [kept |-> n, budget |-> charged(n, n)]
      BY <1>3 DEF LexOutcomes
    <2>2. ASSUME NEW k \in Nat, NEW offset \in Nat
          PROVE  Spent(budget, charged(k, offset)) /\ charged(k, offset) \in Budgets
      <3>1. k * TokenCost \in Nat BY SessionAssumption
      <3>2. PICK m : m = k * TokenCost OBVIOUS
      <3>3. Spent(scanned, work(scanned, offset, m)) BY <1>1, <2>2, <3>1, <3>2, WorkSpends
      <3>4. charged(k, offset) = work(scanned, offset, m) BY <3>2
      <3>5. Spent(scanned, charged(k, offset)) BY <3>3, <3>4
      <3> HIDE DEF charged, scanned
      <3> QED BY <1>1, <3>5, SpentTwice DEF Spent
    <2>3. ASSUME NEW k \in short
          PROVE  k \in Nat /\ k + 1 \in Nat /\ k \in 0 .. n
      OBVIOUS
    <2>4. ASSUME NEW k \in short, charged(k + 1, k).failure = None
          PROVE  /\ Spent(budget, FailedAt(charged(k + 1, k), "CacheBytes", k))
                 /\ FailedAt(charged(k + 1, k), "CacheBytes", k).failure # None
      <3> HIDE DEF charged, scanned, short
      <3>1. Spent(budget, charged(k + 1, k)) /\ charged(k + 1, k) \in Budgets BY <2>2, <2>3
      <3> QED BY <2>3, <2>4, <3>1, SpentTwice, FailedAtSpends
    <2> HIDE DEF charged, scanned, short
    <2>5. CASE \E k \in short : outcome = [kept |-> k, budget |-> charged(k + 1, k)] /\ charged(k + 1, k).failure # None
      BY <2>2, <2>3, <2>5
    <2>6. CASE \E k \in short : /\ charged(k + 1, k).failure = None
                                /\ outcome = [kept |-> k, budget |-> FailedAt(charged(k + 1, k), "CacheBytes", k)]
      BY <2>3, <2>4, <2>6
    <2>7. CASE outcome = [kept |-> n, budget |-> charged(n, n)]
      BY <2>2, <2>7
    <2> QED BY <2>1, <2>5, <2>6, <2>7
  <1> QED BY <1>2, <1>3

\* A parse has started: one activation, over what was lexed.
Starts ==
    /\ status = "new" /\ status' \in {"run", "error"} /\ Spent(budget, budget')
    /\ lexed' \in 0 .. Len(source) /\ (budget'.failure = None => lexed' = Len(source))
    /\ \E rule \in {"unit", "expression"} : \E at \in Points : \E mode \in Modes :
          stack' = <<Activation(rule, at, "root", mode)>>
    /\ symbols' \in Seq(Scopes) /\ Len(symbols') = 1
    /\ UNCHANGED <<source, cursor, definition_scopes, defined>>

LEMMA StartShapes ==
    ASSUME ParserInv, StartUnit \/ StartExpression
    PROVE  Starts
  <1>1. status = "new" BY DEF StartUnit, StartExpression
  <1>2. /\ budget \in Budgets /\ Len(source) \in Nat /\ symbols \in Seq(Scopes) /\ Len(symbols) = 1
    BY <1>1 DEF ParserInv, TypeOK, FramesOK
  <1>3. CASE StartUnit
    <2>1. PICK outcome \in LexOutcomes(Len(source)) : lexed' = outcome.kept /\ budget' = outcome.budget
      BY <1>3 DEF StartUnit
    <2>2. /\ outcome.kept \in 0 .. Len(source) /\ Spent(budget, outcome.budget)
          /\ outcome.budget.failure = None => outcome.kept = Len(source)
      BY <1>2, LexSpends
    <2>3. stack' = <<Activation("unit", "loop", "root", "none")>> BY <1>3 DEF StartUnit
    <2>4. "loop" \in Points /\ "none" \in Modes BY DEF Points, Modes
    <2>5. \E rule \in {"unit", "expression"} : \E at \in Points : \E mode \in Modes :
             stack' = <<Activation(rule, at, "root", mode)>>
      BY <2>3, <2>4
    <2>6. status' = "run" /\ symbols' = symbols /\ UNCHANGED <<source, cursor, definition_scopes, defined>>
      BY <1>3 DEF StartUnit, envVars
    <2> QED BY <1>1, <1>2, <2>1, <2>2, <2>5, <2>6 DEF Starts
  <1>4. CASE StartExpression
    <2>1. PICK outcome \in LexOutcomes(Len(source)) :
             LET identifiers == {i \in 1 .. outcome.kept : source[i] \in Names \cup Keywords}
             IN  /\ lexed' = outcome.kept
                 /\ budget' = work(outcome.budget, 0, 2 * Cardinality(identifiers))
                 /\ status' = IF identifiers # {} /\ budget'.failure # None THEN "error" ELSE "run"
                 /\ \E typedefs \in SUBSET (Names \cap {source[i] : i \in identifiers}) :
                      symbols' = <<[m \in Names |-> IF m \in typedefs THEN "Typename" ELSE "absent"]>>
      BY <1>4 DEF StartExpression
    <2> DEFINE identifiers == {i \in 1 .. outcome.kept : source[i] \in Names \cup Keywords}
    <2>2. /\ outcome.kept \in 0 .. Len(source) /\ Spent(budget, outcome.budget)
          /\ outcome.budget.failure = None => outcome.kept = Len(source)
      BY <1>2, LexSpends
    <2>3. 2 * Cardinality(identifiers) \in Nat
      <3>0. 1 \in Int /\ outcome.kept \in Int BY <2>2
      <3>1. IsFiniteSet(1 .. outcome.kept) BY <3>0, FS_Interval
      <3>2. IsFiniteSet(identifiers) BY <3>1, FS_Subset
      <3>3. Cardinality(identifiers) \in Nat BY <3>2, FS_CardinalityType
      <3> QED BY <3>3
    <2>4. PICK m : m = 2 * Cardinality(identifiers) OBVIOUS
    <2>5. lexed' = outcome.kept /\ budget' = work(outcome.budget, 0, m) /\ status' \in {"run", "error"}
      BY <2>1, <2>4
    <2>6. PICK scope \in Scopes : symbols' = <<scope>>
      <3>1. PICK typedefs : symbols' = <<[k \in Names |-> IF k \in typedefs THEN "Typename" ELSE "absent"]>>
        BY <2>1
      <3>2. [k \in Names |-> IF k \in typedefs THEN "Typename" ELSE "absent"] \in Scopes BY DEF Scopes
      <3> QED BY <3>1, <3>2
    <2>7. symbols' \in Seq(Scopes) /\ Len(symbols') = 1 BY <2>6
    <2>8. /\ Spent(outcome.budget, work(outcome.budget, 0, m))
          /\ work(outcome.budget, 0, m).failure = None => outcome.budget.failure = None
      <3>1. m \in Nat BY <2>3, <2>4
      <3>2. outcome.budget \in Budgets /\ 0 \in Nat BY <2>2 DEF Spent
      <3> QED BY ONLY <3>1, <3>2, WorkSpends
    <2>9. Spent(budget, budget') /\ (budget'.failure = None => outcome.budget.failure = None)
      BY <2>2, <2>5, <2>8, SpentTwice
    <2>10. stack' = <<Activation("expression", "operand", "root", "expression")>>
      BY <1>4 DEF StartExpression
    <2>11. "operand" \in Points /\ "expression" \in Modes BY DEF Points, Modes
    <2>12. \E rule \in {"unit", "expression"} : \E at \in Points : \E mode \in Modes :
             stack' = <<Activation(rule, at, "root", mode)>>
      BY <2>10, <2>11
    <2>13. UNCHANGED <<source, cursor, definition_scopes, defined>> BY <1>4 DEF StartExpression
    <2> QED BY <1>1, <2>2, <2>5, <2>7, <2>9, <2>12, <2>13 DEF Starts
  <1> QED BY <1>3, <1>4

\* A parse that has started: nothing is open or saved.
LEMMA StartCore ==
    ASSUME ParserInv, Starts
    PROVE  /\ CoreInv' /\ StepKeeps /\ definition_scopes' = None
           /\ \E a : stack' = <<a>> /\ a.rule \in {"unit", "expression"} /\ a.fun = None
  <1>1. /\ status = "new" /\ status' \in {"run", "error"} /\ Spent(budget, budget')
        /\ lexed' \in 0 .. Len(source) /\ (budget'.failure = None => lexed' = Len(source))
        /\ symbols' \in Seq(Scopes) /\ Len(symbols') = 1
        /\ source' = source /\ cursor' = cursor /\ definition_scopes' = definition_scopes /\ defined' = defined
    BY DEF Starts
  <1>2. /\ stack = <<>> /\ lexed = 0 /\ cursor \in 0 .. 0 /\ definition_scopes = None /\ Len(symbols) = 1
        /\ budget.failure = None /\ budget.depth = 0 /\ budget \in Budgets
    BY <1>1 DEF ParserInv, TypeOK, FramesOK
  <1>3. cursor = 0 BY <1>2
  <1>4. PICK rule \in {"unit", "expression"} : \E at \in Points : \E mode \in Modes :
           stack' = <<Activation(rule, at, "root", mode)>>
    BY DEF Starts
  <1>5. PICK at \in Points, mode \in Modes : stack' = <<Activation(rule, at, "root", mode)>>
    BY <1>4
  <1> DEFINE a == Activation(rule, at, "root", mode)
  <1>6. /\ a \in Activations /\ a.rule = rule /\ a.kind = "root" /\ a.fun = None /\ a.depth = 0 /\ a.scopes = 1
    <2>1. rule \in Rules BY DEF Rules
    <2> QED BY <1>2, <1>3, <2>1 DEF Activation, Activations
  <1>7. stack' = <<a>> BY <1>5
  <1> HIDE DEF a
  <1>8. stack' \in Seq(Activations) /\ Len(stack') = 1 /\ stack'[1] = a /\ stack' # <<>> /\ Top' = a
    <2>1. stack' \in Seq(Activations) /\ Len(stack') = 1 /\ stack'[1] = a BY <1>6, <1>7
    <2> QED BY <2>1 DEF Top
  <1>9. TypeOK'
    <2>1. \A i \in DOMAIN symbols' : symbols'[i] \in Scopes BY <1>1, SMTT(60)
    <2>2. cursor' \in 0 .. lexed' BY <1>1, <1>3
    <2> QED BY <1>1, <1>8, <2>1, <2>2 DEF TypeOK, ParserInv, Spent
  <1>10. DepthBounded' /\ WorkExact'
    BY <1>1 DEF ParserInv, DepthBounded, WorkExact, Spent
  <1>11. AcceptedIsComplete' BY <1>1 DEF AcceptedIsComplete
  <1>12. FramesOK'
    <2>0. symbols' \in Seq(Scopes) /\ Len(symbols') = 1 BY <1>1
    <2>1. symbols' # <<>> BY ONLY <2>0
    <2> QED BY <1>1, <1>2, <1>8, <2>1 DEF FramesOK, ParserInv
  <1>13. RulesAccounted'
    <2>1. budget'.depth = 0 BY <1>1, <1>2 DEF Spent
    <2>2. DepthHeld(a) = 0 /\ ScopesHeld(a) = 0 BY <1>6 DEF DepthHeld, ScopesHeld
    <2> QED BY <1>1, <1>6, <1>8, <2>1, <2>2 DEF RulesAccounted
  <1>14. StepKeeps BY <1>2, <1>8 DEF StepKeeps
  <1> QED BY <1>1, <1>2, <1>6, <1>7, <1>9, <1>10, <1>11, <1>12, <1>13, <1>14 DEF CoreInv

-----------------------------------------------------------------------------
(* Where rules are open, where parameter lists start, and whose they are   *)

\* The same statements of any stack, saved scopes and applied suffix, so that those of
\* the next state can be reasoned about like those of this one.
SavedIn(ds, fun) ==
    LET saved == IF fun = None \/ fun.kr THEN {}
                 ELSE {i \in DOMAIN ds : ds[i].start = fun.start}
    IN  IF saved = {} THEN EmptyScope
        ELSE ds[CHOOSE i \in saved : \A j \in saved : i <= j].scope

AgreesIn(stk, ds, d, fun) ==
    /\ d # NoFunction /\ d.scope = SavedIn(ds, fun)
    /\ \A i \in 1 .. Len(stk) : stk[i].rule = "params" => fun.start < stk[i].start

HeadAgreesIn(stk, ds, d, n) ==
    IF stk[n].fun # None THEN AgreesIn(stk, ds, d, stk[n].fun)
    ELSE IF n = Len(stk) /\ stk[n].rule = "declarator" /\ stk[n].at = "paren"
    THEN AgreesIn(stk, ds, d, [kr |-> FALSE, start |-> stk[n].ahead])
    ELSE d = NoFunction

HeadToIn(stk, n) == \A i \in 3 .. n : stk[i].rule = "declarator"

HeadIn(stk, ds, d) ==
    ds # None =>
       /\ Len(stk) >= 2 /\ stk[2].rule = "external" /\ stk[2].at \in {"begun", "declared"}
       /\ stk[2].at = "begun" => Len(stk) = 2 /\ d = NoFunction /\ ds = <<>>
       /\ stk[2].at = "declared" =>
             IF Len(stk) = 2 THEN HeadAgreesIn(stk, ds, d, 2) ELSE stk[3].rule = "declarator"
       /\ \A n \in 3 .. Len(stk) : HeadToIn(stk, n) =>
             IF n < Len(stk) /\ stk[n + 1].rule = "declarator"
             THEN stk[n].fun = None /\ stk[n].at = "close"
             ELSE HeadAgreesIn(stk, ds, d, n)

LEMMA HeadNow == HeadFollowed <=> HeadIn(stack, definition_scopes, defined)
  BY DEF HeadFollowed, HeadIn, HeadTo, HeadToIn, HeadAgrees, HeadAgreesIn, Agrees, AgreesIn, SavedScope, SavedIn

LEMMA HeadNext == HeadFollowed' <=> HeadIn(stack', definition_scopes', defined')
  BY DEF HeadFollowed, HeadIn, HeadTo, HeadToIn, HeadAgrees, HeadAgreesIn, Agrees, AgreesIn, SavedScope, SavedIn

PlacedIn(stk, ds, cur) ==
    \A i \in 1 .. Len(stk) :
       /\ stk[i].rule = "unit" => i = 1
       /\ stk[i].rule = "external" =>
             /\ i = 2
             /\ stk[i].at \in {"begun", "declared"} => ds # None
       /\ stk[i].rule = "params" =>
             /\ i > 1 /\ stk[i - 1].rule = "declarator" /\ stk[i - 1].at = "paren"
             /\ stk[i].start = stk[i - 1].ahead
       /\ stk[i].rule = "declarator" =>
             /\ stk[i].ahead <= cur
             /\ stk[i].at \in {"prefix", "inner"} => stk[i].fun = None
             /\ stk[i].at \in {"prefix", "inner", "function"} => i = Len(stk)
             /\ stk[i].at = "paren" /\ i < Len(stk) => stk[i + 1].rule = "params"

BeforeIn(stk, ds, n) ==
    /\ \A i \in 1 .. Len(stk) :
          /\ stk[i].rule = "params" => stk[i].start < n
          /\ stk[i].fun # None => stk[i].fun.start < n
    /\ ds # None => \A i \in 1 .. Len(ds) : ds[i].start < n

DifferIn(stk, ds, cur) ==
    /\ BeforeIn(stk, ds, cur + 1)
    /\ stk # <<>> /\ stk[Len(stk)].rule = "declarator" /\ stk[Len(stk)].at = "function" =>
          stk[Len(stk)].ahead = cur /\ BeforeIn(stk, ds, cur)
    /\ \A j \in 1 .. Len(stk) : stk[j].rule = "params" =>
          /\ \A i \in 1 .. j - 1 : stk[i].rule = "params" => stk[i].start < stk[j].start
          /\ ds # None => \A i \in 1 .. Len(ds) : ds[i].start # stk[j].start

OpenIn(stk, ds, d, cur) == PlacedIn(stk, ds, cur) /\ DifferIn(stk, ds, cur) /\ HeadIn(stk, ds, d)

LEMMA OpenNow ==
    (RulesPlaced /\ StartsDiffer /\ HeadFollowed) <=> OpenIn(stack, definition_scopes, defined, cursor)
  <1>1. RulesPlaced <=> PlacedIn(stack, definition_scopes, cursor) BY DEF RulesPlaced, PlacedIn
  <1>2. StartsDiffer <=> DifferIn(stack, definition_scopes, cursor)
    BY DEF StartsDiffer, DifferIn, StartsBefore, BeforeIn, Top
  <1> QED BY <1>1, <1>2, HeadNow DEF OpenIn

LEMMA OpenNext ==
    (RulesPlaced /\ StartsDiffer /\ HeadFollowed)' <=> OpenIn(stack', definition_scopes', defined', cursor')
  <1>1. RulesPlaced' <=> PlacedIn(stack', definition_scopes', cursor') BY DEF RulesPlaced, PlacedIn
  <1>2. StartsDiffer' <=> DifferIn(stack', definition_scopes', cursor')
    BY DEF StartsDiffer, DifferIn, StartsBefore, BeforeIn, Top
  <1> QED BY <1>1, <1>2, HeadNext DEF OpenIn

\* The first scope saved with a function's start is the one found ...
LEMMA FirstSaved ==
    ASSUME NEW ds \in Seq(SavedScopes), NEW fun \in DeclaredFunctions, ~fun.kr,
           NEW i \in 1 .. Len(ds), ds[i].start = fun.start,
           \A j \in 1 .. Len(ds) : ds[j].start = fun.start => i <= j
    PROVE  SavedIn(ds, fun) = ds[i].scope
  <1> DEFINE saved == IF fun = None \/ fun.kr THEN {}
                      ELSE {k \in DOMAIN ds : ds[k].start = fun.start}
             first == CHOOSE k \in saved : \A j \in saved : k <= j
  <1>1. fun # None BY OptionAssumption
  <1>2. i \in saved /\ (\A j \in saved : i <= j) /\ saved \subseteq Nat
    <2>1. DOMAIN ds = 1 .. Len(ds) /\ Len(ds) \in Nat OBVIOUS
    <2> QED BY <1>1, <2>1
  <1>3. SavedIn(ds, fun) = IF saved = {} THEN EmptyScope ELSE ds[first].scope
    BY DEF SavedIn
  <1> HIDE DEF saved
  <1>4. \A k \in saved : (\A j \in saved : k <= j) => k = i BY <1>2
  <1>5. first = i BY <1>2, <1>4
  <1> HIDE DEF first
  <1> QED BY <1>2, <1>3, <1>5

\* ... and without one the body starts with an empty scope.
LEMMA NothingSaved ==
    ASSUME NEW ds \in Seq(SavedScopes), NEW fun,
           \/ fun = None \/ fun.kr
           \/ \A j \in 1 .. Len(ds) : ds[j].start # fun.start
    PROVE  SavedIn(ds, fun) = EmptyScope
  BY DEF SavedIn

\* A stack with another top: what the step must keep for the rest to stay as it is.
LEMMA TopReplaced ==
    ASSUME ParserInv, NEW f, Rewrites(f)
    PROVE  /\ stack \in Seq(Activations) /\ Len(stack) \in Nat \ {0} /\ stack' \in Seq(Activations)
           /\ Len(stack') = Len(stack) /\ stack'[Len(stack)] = f /\ stack[Len(stack)] = Top
           /\ \A i \in 1 .. Len(stack) : i # Len(stack) => stack'[i] = stack[i]
           /\ \A i \in 1 .. Len(stack) : stack'[i].rule = stack[i].rule
           /\ f.rule = Top.rule /\ f \in Activations /\ Top \in Activations
           /\ cursor' \in {cursor, cursor + 1} /\ cursor \in Nat /\ status' = "run" /\ status = "run"
           /\ stack # <<>> /\ stack' # <<>>
           /\ OpenIn(stack, definition_scopes, defined, cursor)
  <1>1. status = "run" /\ SameActivation(f) /\ stack' = SetTop(f) /\ status' = "run" BY DEF Rewrites, inputVars
  <1>2. f \in Activations /\ stack \in Seq(Activations) /\ stack # <<>> /\ Len(stack) \in Nat \ {0}
        /\ Top \in Activations /\ stack[Len(stack)] = Top /\ cursor \in Nat
    BY <1>1, Running DEF SameActivation
  <1>3. /\ stack' \in Seq(Activations) /\ stack' # <<>> /\ Len(stack') = Len(stack)
        /\ stack'[Len(stack)] = f /\ \A i \in 1 .. Len(stack) : i # Len(stack) => stack'[i] = stack[i]
    BY <1>1, <1>2, SetTopFacts
  <1>4. f.rule = Top.rule BY <1>1 DEF SameActivation
  <1>5. \A i \in 1 .. Len(stack) : stack'[i].rule = stack[i].rule BY <1>2, <1>3, <1>4
  <1>6. cursor' \in {cursor, cursor + 1} BY DEF Rewrites
  <1>7. OpenIn(stack, definition_scopes, defined, cursor) BY <1>1, OpenNow DEF ParserInv
  <1> QED BY <1>1, <1>2, <1>3, <1>4, <1>5, <1>6, <1>7

\* Starts are token offsets.
LEMMA SavedStarts ==
    ASSUME ParserInv, definition_scopes # None
    PROVE  /\ definition_scopes \in Seq(SavedScopes) /\ Len(definition_scopes) \in Nat
           /\ \A i \in 1 .. Len(definition_scopes) :
                 definition_scopes[i].start \in Nat /\ definition_scopes[i].scope \in Scopes
  <1>1. definition_scopes \in Seq(SavedScopes) BY DEF ParserInv, FramesOK
  <1>2. \A i \in 1 .. Len(definition_scopes) : definition_scopes[i] \in SavedScopes BY <1>1
  <1> QED BY <1>1, <1>2 DEF SavedScopes

LEMMA OpenStarts ==
    ASSUME NEW stk \in Seq(Activations)
    PROVE  \A i \in 1 .. Len(stk) :
              /\ stk[i] \in Activations /\ stk[i].start \in Nat /\ stk[i].ahead \in Nat
              /\ stk[i].fun # None => stk[i].fun \in DeclaredFunctions /\ stk[i].fun.start \in Nat
  <1>1. \A i \in 1 .. Len(stk) : stk[i] \in Activations OBVIOUS
  <1> QED BY <1>1, Fields DEF DeclaredFunctions

\* Another top leaves the rules in their places ...
LEMMA RewritePlaced ==
    ASSUME ParserInv, NEW f, Rewrites(f),
           Top.rule = "params" => f.start = Top.start,
           Top.rule = "external" /\ f.at \in {"begun", "declared"} => definition_scopes' # None,
           Top.rule # "external" => definition_scopes' = definition_scopes,
           Top.rule = "declarator" =>
              f.ahead <= cursor' /\ (f.at \in {"prefix", "inner"} => f.fun = None)
    PROVE  PlacedIn(stack', definition_scopes', cursor')
  <1>2. /\ stack \in Seq(Activations) /\ Len(stack) \in Nat \ {0}
        /\ Len(stack') = Len(stack) /\ stack'[Len(stack)] = f /\ stack[Len(stack)] = Top
        /\ \A i \in 1 .. Len(stack) : i # Len(stack) => stack'[i] = stack[i]
        /\ \A i \in 1 .. Len(stack) : stack'[i].rule = stack[i].rule
        /\ f.rule = Top.rule /\ cursor' \in {cursor, cursor + 1} /\ cursor \in Nat
    BY TopReplaced
  <1>3. PlacedIn(stack, definition_scopes, cursor) BY TopReplaced DEF OpenIn
  <1>4. \A i \in 1 .. Len(stack) : stack[i].ahead \in Nat BY <1>2, OpenStarts
  <1>5. SUFFICES ASSUME NEW i \in 1 .. Len(stack)
                 PROVE  /\ stack'[i].rule = "unit" => i = 1
                        /\ stack'[i].rule = "external" =>
                              /\ i = 2
                              /\ stack'[i].at \in {"begun", "declared"} => definition_scopes' # None
                        /\ stack'[i].rule = "params" =>
                              /\ i > 1 /\ stack'[i - 1].rule = "declarator" /\ stack'[i - 1].at = "paren"
                              /\ stack'[i].start = stack'[i - 1].ahead
                        /\ stack'[i].rule = "declarator" =>
                              /\ stack'[i].ahead <= cursor'
                              /\ stack'[i].at \in {"prefix", "inner"} => stack'[i].fun = None
                              /\ stack'[i].at \in {"prefix", "inner", "function"} => i = Len(stack)
                              /\ stack'[i].at = "paren" /\ i < Len(stack) => stack'[i + 1].rule = "params"
    BY <1>2 DEF PlacedIn
  <1>6. /\ stack[i].rule = "unit" => i = 1
        /\ stack[i].rule = "external" =>
              /\ i = 2
              /\ stack[i].at \in {"begun", "declared"} => definition_scopes # None
        /\ stack[i].rule = "params" =>
              /\ i > 1 /\ stack[i - 1].rule = "declarator" /\ stack[i - 1].at = "paren"
              /\ stack[i].start = stack[i - 1].ahead
        /\ stack[i].rule = "declarator" =>
              /\ stack[i].ahead <= cursor
              /\ stack[i].at \in {"prefix", "inner"} => stack[i].fun = None
              /\ stack[i].at \in {"prefix", "inner", "function"} => i = Len(stack)
              /\ stack[i].at = "paren" /\ i < Len(stack) => stack[i + 1].rule = "params"
    BY <1>3 DEF PlacedIn
  <1>7. stack'[i].rule = "params" =>
           /\ i > 1 /\ stack'[i - 1].rule = "declarator" /\ stack'[i - 1].at = "paren"
           /\ stack'[i].start = stack'[i - 1].ahead
    <2>1. SUFFICES ASSUME stack'[i].rule = "params" PROVE stack'[i - 1] = stack[i - 1]
      BY <1>2, <1>6
    <2>2. i - 1 \in 1 .. Len(stack) /\ i - 1 # Len(stack) BY <1>2, <1>6, <2>1
    <2> QED BY <1>2, <2>2
  <1>8. CASE i # Len(stack)
    <2>1. stack'[i] = stack[i] BY <1>2, <1>8
    <2>2. stack'[i].rule = "external" /\ stack'[i].at \in {"begun", "declared"} => definition_scopes' # None
      <3>1. SUFFICES ASSUME stack[i].rule = "external", stack[i].at \in {"begun", "declared"}
                     PROVE  Top.rule # "external"
        BY <1>6, <2>1
      <3>2. i = 2 BY <1>6, <3>1
      <3>3. Top.rule = "external" => Len(stack) = 2 BY <1>2, <1>3 DEF PlacedIn
      <3> QED BY <1>8, <3>2, <3>3
    <2>3. i < Len(stack) => stack'[i + 1].rule = stack[i + 1].rule BY <1>2
    <2> QED BY <1>2, <1>4, <1>6, <1>7, <2>1, <2>2, <2>3
  <1>9. CASE i = Len(stack)
    <2>1. stack'[i] = f /\ stack[i] = Top BY <1>2, <1>9
    <2> QED BY <1>2, <1>6, <1>7, <1>9, <2>1
  <1> QED BY <1>8, <1>9

\* ... and parameter lists with starts of their own ...
LEMMA RewriteDiffer ==
    ASSUME ParserInv, NEW f, Rewrites(f),
           Top.rule = "params" => f.start = Top.start,
           f.fun # None => f.fun.start \in Nat /\ f.fun.start < cursor' + 1,
           Top.rule = "declarator" /\ f.at = "function" =>
              f.ahead = cursor' /\ cursor' = cursor + 1 /\ f.fun = Top.fun,
           definition_scopes' \in {definition_scopes, None, <<>>}
    PROVE  DifferIn(stack', definition_scopes', cursor')
  <1>2. /\ stack \in Seq(Activations) /\ Len(stack) \in Nat \ {0}
        /\ Len(stack') = Len(stack) /\ stack'[Len(stack)] = f /\ stack[Len(stack)] = Top
        /\ \A i \in 1 .. Len(stack) : i # Len(stack) => stack'[i] = stack[i]
        /\ \A i \in 1 .. Len(stack) : stack'[i].rule = stack[i].rule
        /\ f.rule = Top.rule /\ cursor' \in {cursor, cursor + 1} /\ cursor \in Nat
    BY TopReplaced
  <1>3. DifferIn(stack, definition_scopes, cursor) BY TopReplaced DEF OpenIn
  <1>4. \A i \in 1 .. Len(stack) :
           /\ stack[i].start \in Nat /\ (stack[i].fun # None => stack[i].fun.start \in Nat)
           /\ stack[i].rule = "params" => stack'[i].start = stack[i].start
    BY <1>2, OpenStarts
  <1>5. BeforeIn(stack, definition_scopes, cursor + 1) BY <1>3 DEF DifferIn
  <1>6. ASSUME NEW i \in 1 .. Len(stack)
        PROVE  /\ stack'[i].rule = "params" => stack'[i].start < cursor + 1
               /\ stack'[i].fun # None => stack'[i].fun.start < cursor' + 1
               /\ f.fun = Top.fun /\ stack'[i].fun # None => stack'[i].fun.start < cursor + 1
    <2>1. /\ stack[i].rule = "params" => stack[i].start < cursor + 1
          /\ stack[i].fun # None => stack[i].fun.start < cursor + 1
      BY <1>5 DEF BeforeIn
    <2>2. CASE i # Len(stack)
      <3>1. stack'[i] = stack[i] BY <1>2, <2>2
      <3> QED BY <1>2, <1>4, <2>1, <3>1
    <2>3. CASE i = Len(stack) BY <1>2, <1>4, <2>1, <2>3
    <2> QED BY <2>2, <2>3
  <1>7. definition_scopes' # None =>
           \A i \in 1 .. Len(definition_scopes') :
              /\ definition_scopes'[i].start \in Nat /\ definition_scopes'[i].start < cursor + 1
              /\ definition_scopes' = definition_scopes
    <2>1. CASE definition_scopes' = definition_scopes /\ definition_scopes # None
      BY <1>5, <2>1, SavedStarts DEF BeforeIn
    <2>2. CASE definition_scopes' = <<>>
      <3>1. 1 .. Len(definition_scopes') = {} BY <2>2
      <3> QED BY <3>1
    <2> QED BY <2>1, <2>2
  <1>8. BeforeIn(stack', definition_scopes', cursor' + 1)
    <2>1. \A i \in 1 .. Len(stack) : stack'[i].rule = "params" => stack'[i].start < cursor' + 1
      BY <1>2, <1>4, <1>6
    <2>2. definition_scopes' # None =>
             \A i \in 1 .. Len(definition_scopes') : definition_scopes'[i].start < cursor' + 1
      BY <1>2, <1>7
    <2> QED BY <1>2, <1>6, <2>1, <2>2 DEF BeforeIn
  <1>9. Top.rule = "declarator" /\ f.at = "function" => f.ahead = cursor' /\ BeforeIn(stack', definition_scopes', cursor')
    BY <1>2, <1>6, <1>7 DEF BeforeIn
  <1>10. ASSUME NEW j \in 1 .. Len(stack'), stack'[j].rule = "params"
         PROVE  /\ \A i \in 1 .. j - 1 : stack'[i].rule = "params" => stack'[i].start < stack'[j].start
                /\ definition_scopes' # None =>
                      \A i \in 1 .. Len(definition_scopes') : definition_scopes'[i].start # stack'[j].start
    <2>1. j \in 1 .. Len(stack) /\ stack[j].rule = "params" BY <1>2, <1>10
    <2>2. /\ \A i \in 1 .. j - 1 : stack[i].rule = "params" => stack[i].start < stack[j].start
          /\ definition_scopes # None =>
                \A i \in 1 .. Len(definition_scopes) : definition_scopes[i].start # stack[j].start
      BY <1>3, <2>1 DEF DifferIn
    <2>3. \A i \in 1 .. j - 1 : i \in 1 .. Len(stack) BY <1>2, <2>1
    <2> QED BY <1>2, <1>4, <1>7, <2>1, <2>2, <2>3
  <1> QED BY <1>2, <1>8, <1>9, <1>10 DEF DifferIn

\* ... and a head as it was, if the top declarator still agrees.
LEMMA RewriteHead ==
    ASSUME ParserInv, NEW f, Rewrites(f), definition_scopes' = definition_scopes,
           Top.rule = "params" => f.start = Top.start,
           Top.rule = "external" =>
              /\ Top.at # "begun"
              /\ Top.at = "declared" => f.at = "declared" /\ f.fun = Top.fun /\ defined' = defined,
           definition_scopes # None /\ Len(stack) > 2 /\ HeadToIn(stack, Len(stack)) =>
              HeadAgreesIn(stack', definition_scopes, defined', Len(stack)),
           ~HeadToIn(stack, Len(stack)) => defined' = defined
    PROVE  HeadIn(stack', definition_scopes', defined')
  <1>1. /\ stack \in Seq(Activations) /\ Len(stack) \in Nat \ {0}
        /\ Len(stack') = Len(stack) /\ stack'[Len(stack)] = f /\ stack[Len(stack)] = Top
        /\ \A i \in 1 .. Len(stack) : i # Len(stack) => stack'[i] = stack[i]
        /\ \A i \in 1 .. Len(stack) : stack'[i].rule = stack[i].rule
        /\ f.rule = Top.rule
    BY TopReplaced
  <1>2. \A i \in 1 .. Len(stack) : stack[i].rule = "params" => stack'[i].start = stack[i].start
    BY <1>1
  <1>3. SUFFICES ASSUME definition_scopes # None
                 PROVE  /\ Len(stack) >= 2 /\ stack'[2].rule = "external" /\ stack'[2].at = "declared"
                        /\ IF Len(stack) = 2 THEN HeadAgreesIn(stack', definition_scopes, defined', 2)
                                             ELSE stack'[3].rule = "declarator"
                        /\ \A n \in 3 .. Len(stack) : HeadToIn(stack', n) =>
                             IF n < Len(stack) /\ stack'[n + 1].rule = "declarator"
                             THEN stack'[n].fun = None /\ stack'[n].at = "close"
                             ELSE HeadAgreesIn(stack', definition_scopes, defined', n)
    BY <1>1 DEF HeadIn
  <1>4. HeadIn(stack, definition_scopes, defined) BY TopReplaced DEF OpenIn
  <1>5. /\ Len(stack) >= 2 /\ stack[2].rule = "external" /\ stack[2].at \in {"begun", "declared"}
        /\ stack[2].at = "begun" => Len(stack) = 2
        /\ stack[2].at = "declared" =>
              IF Len(stack) = 2 THEN HeadAgreesIn(stack, definition_scopes, defined, 2)
                                ELSE stack[3].rule = "declarator"
        /\ \A n \in 3 .. Len(stack) : HeadToIn(stack, n) =>
             IF n < Len(stack) /\ stack[n + 1].rule = "declarator"
             THEN stack[n].fun = None /\ stack[n].at = "close"
             ELSE HeadAgreesIn(stack, definition_scopes, defined, n)
    BY <1>3, <1>4 DEF HeadIn
  <1>6. stack'[2].rule = "external" /\ stack'[2].at = "declared" /\ stack[2].at = "declared"
    <2>1. CASE Len(stack) = 2 BY <1>1, <1>5, <2>1
    <2>2. CASE Len(stack) # 2
      <3>1. stack'[2] = stack[2] BY <1>1, <1>5, <2>2
      <3> QED BY <1>5, <2>2, <3>1
    <2> QED BY <2>1, <2>2
  <1>7. ASSUME NEW fun, AgreesIn(stack, definition_scopes, defined, fun), defined' = defined
        PROVE  AgreesIn(stack', definition_scopes, defined', fun)
    BY <1>1, <1>2, <1>7 DEF AgreesIn
  <1>8. IF Len(stack) = 2 THEN HeadAgreesIn(stack', definition_scopes, defined', 2)
                          ELSE stack'[3].rule = "declarator"
    <2>1. CASE Len(stack) = 2
      <3>1. /\ Top.rule = "external" /\ stack'[2].fun = stack[2].fun /\ defined' = defined
            /\ stack'[2].rule = "external"
        BY <1>1, <1>5, <1>6, <2>1
      <3>2. HeadAgreesIn(stack, definition_scopes, defined, 2) BY <1>5, <1>6, <2>1
      <3> QED BY <1>5, <1>7, <2>1, <3>1, <3>2 DEF HeadAgreesIn
    <2>2. CASE Len(stack) # 2 BY <1>1, <1>5, <1>6, <2>2
    <2> QED BY <2>1, <2>2
  <1>9. ASSUME NEW n \in 3 .. Len(stack), HeadToIn(stack', n)
        PROVE  IF n < Len(stack) /\ stack'[n + 1].rule = "declarator"
               THEN stack'[n].fun = None /\ stack'[n].at = "close"
               ELSE HeadAgreesIn(stack', definition_scopes, defined', n)
    <2>1. \A i \in 3 .. n : i \in 1 .. Len(stack) BY <1>1, <1>9
    <2>2. HeadToIn(stack, n) /\ n \in 1 .. Len(stack) BY <1>1, <1>9, <2>1 DEF HeadToIn
    <2>3. CASE n = Len(stack) BY <1>3, <1>9, <2>2, <2>3
    <2>4. CASE n < Len(stack) /\ stack'[n + 1].rule = "declarator"
      <3>1. stack[n + 1].rule = "declarator" /\ stack'[n] = stack[n] BY <1>1, <2>2, <2>4
      <3> QED BY <1>5, <1>9, <2>2, <2>4, <3>1
    <2>5. CASE n < Len(stack) /\ stack'[n + 1].rule # "declarator"
      <3>1. stack[n + 1].rule # "declarator" /\ stack'[n] = stack[n] /\ n # Len(stack) BY <1>1, <2>2, <2>5
      <3>2. HeadAgreesIn(stack, definition_scopes, defined, n) BY <1>5, <1>9, <2>2, <2>5, <3>1
      <3>3. ~HeadToIn(stack, Len(stack)) BY <1>1, <1>9, <2>5, <3>1 DEF HeadToIn
      <3>4. defined' = defined BY <3>3
      <3> QED BY <1>1, <1>7, <2>5, <3>1, <3>2, <3>4 DEF HeadAgreesIn
    <2> QED BY <1>1, <1>9, <2>3, <2>4, <2>5
  <1> QED BY <1>5, <1>6, <1>8, <1>9

\* What a head of declarators is: the last of them agrees, and no parameter list is open.
LEMMA HeadTop ==
    ASSUME ParserInv, status = "run", definition_scopes # None, Len(stack) > 2, HeadToIn(stack, Len(stack))
    PROVE  /\ Top.rule = "declarator" /\ HeadAgreesIn(stack, definition_scopes, defined, Len(stack))
           /\ \A i \in 1 .. Len(stack) : stack[i].rule # "params"
  <1>1. /\ Len(stack) \in Nat /\ Top = stack[Len(stack)]
        /\ PlacedIn(stack, definition_scopes, cursor) /\ HeadIn(stack, definition_scopes, defined)
    BY Running, OpenNow DEF ParserInv, OpenIn
  <1>2. Top.rule = "declarator" /\ Len(stack) \in 3 .. Len(stack) BY <1>1 DEF HeadToIn
  <1>3. HeadAgreesIn(stack, definition_scopes, defined, Len(stack)) BY <1>1, <1>2 DEF HeadIn
  <1>4. stack[2].rule = "external" BY <1>1 DEF HeadIn
  <1>5. ASSUME NEW i \in 1 .. Len(stack) PROVE stack[i].rule # "params"
    <2>1. CASE i = 1 BY <1>1, <2>1 DEF PlacedIn
    <2>2. CASE i = 2 BY <1>4, <2>2
    <2>3. CASE i > 2
      <3>1. i \in 3 .. Len(stack) BY <1>1, <2>3
      <3> QED BY <3>1 DEF HeadToIn
    <2> QED BY <1>1, <2>1, <2>2, <2>3
  <1> QED BY <1>2, <1>3, <1>5

LEMMA QuietOpen ==
    ASSUME ParserInv, Quiet
    PROVE  OpenIn(stack', definition_scopes', defined', cursor')
  <1>1. PICK f : Rewrites(f) /\ QuietFrame(f) /\ UNCHANGED <<definition_scopes, defined>> BY DEF Quiet
  <1>2. /\ Top.rule = "params" => f.start = Top.start
        /\ f.fun = Top.fun \/ (f.fun = None /\ Top.rule = "params")
        /\ f.ahead = Top.ahead \/ Top.rule = "external"
        /\ Top.rule = "external" =>
              Top.at # "begun" /\ f.at # "begun" /\ (Top.at = "declared" <=> f.at = "declared")
        /\ Top.rule = "declarator" =>
              /\ Top.at # "paren" /\ f.at # "paren" /\ f.at # "function"
              /\ f.at \in {"prefix", "inner"} => Top.at = "prefix"
    BY <1>1 DEF QuietFrame
  <1>3. /\ stack \in Seq(Activations) /\ Len(stack) \in Nat \ {0}
        /\ Len(stack') = Len(stack) /\ stack'[Len(stack)] = f /\ stack[Len(stack)] = Top
        /\ \A i \in 1 .. Len(stack) : i # Len(stack) => stack'[i] = stack[i]
        /\ \A i \in 1 .. Len(stack) : stack'[i].rule = stack[i].rule
        /\ f.rule = Top.rule /\ cursor' \in {cursor, cursor + 1} /\ cursor \in Nat /\ status = "run"
    BY <1>1, TopReplaced
  <1>4. PlacedIn(stack, definition_scopes, cursor) /\ DifferIn(stack, definition_scopes, cursor)
    BY <1>1, TopReplaced DEF OpenIn
  <1>5. definition_scopes' = definition_scopes /\ defined' = defined BY <1>1
  <1>6. Top.ahead \in Nat /\ (Top.fun # None => Top.fun.start \in Nat) BY <1>3, OpenStarts
  <1>7. /\ Top.rule = "external" /\ Top.at \in {"begun", "declared"} => definition_scopes # None
        /\ Top.rule = "declarator" =>
              Top.ahead <= cursor /\ (Top.at \in {"prefix", "inner"} => Top.fun = None)
    BY <1>3, <1>4 DEF PlacedIn
  <1>8. PlacedIn(stack', definition_scopes', cursor')
    BY <1>1, <1>2, <1>3, <1>5, <1>6, <1>7, RewritePlaced
  <1>9. DifferIn(stack', definition_scopes', cursor')
    <2>1. Top.fun # None => Top.fun.start < cursor + 1 BY <1>3, <1>4 DEF DifferIn, BeforeIn
    <2>2. f.fun # None => f.fun.start \in Nat /\ f.fun.start < cursor' + 1 BY <1>2, <1>3, <1>6, <2>1
    <2> QED BY <1>1, <1>2, <1>5, <2>2, RewriteDiffer
  <1>10. definition_scopes # None /\ Len(stack) > 2 /\ HeadToIn(stack, Len(stack)) =>
            HeadAgreesIn(stack', definition_scopes, defined', Len(stack))
    <2>1. SUFFICES ASSUME definition_scopes # None, Len(stack) > 2, HeadToIn(stack, Len(stack))
                   PROVE  HeadAgreesIn(stack', definition_scopes, defined', Len(stack))
      OBVIOUS
    <2>2. /\ Top.rule = "declarator" /\ HeadAgreesIn(stack, definition_scopes, defined, Len(stack))
          /\ \A i \in 1 .. Len(stack) : stack[i].rule # "params"
      BY <1>3, <2>1, HeadTop
    <2>3. f.fun = Top.fun /\ Top.at # "paren" /\ f.at # "paren" BY <1>2, <2>2
    <2> QED BY <1>3, <1>5, <2>2, <2>3 DEF HeadAgreesIn, AgreesIn
  <1>11. HeadIn(stack', definition_scopes', defined')
    <2>1. Top.rule = "external" =>
            /\ Top.at # "begun"
            /\ Top.at = "declared" => f.at = "declared" /\ f.fun = Top.fun /\ defined' = defined
      BY <1>2, <1>5
    <2> QED BY <1>1, <1>2, <1>5, <1>10, <2>1, RewriteHead
  <1> QED BY <1>8, <1>9, <1>11 DEF OpenIn

\* The opening parenthesis of a function suffix.
LEMMA FunctionSuffixOpen ==
    ASSUME ParserInv, NEW f, Rewrites(f), cursor' = cursor + 1,
           Top.rule = "declarator", Top.at = "suffix", f.at = "function",
           f.ahead = cursor + 1, f.fun = Top.fun, UNCHANGED <<definition_scopes, defined>>
    PROVE  OpenIn(stack', definition_scopes', defined', cursor')
  <1>3. /\ stack \in Seq(Activations) /\ Len(stack) \in Nat \ {0}
        /\ Len(stack') = Len(stack) /\ stack'[Len(stack)] = f /\ stack[Len(stack)] = Top
        /\ \A i \in 1 .. Len(stack) : stack'[i].rule = stack[i].rule
        /\ cursor \in Nat /\ status = "run" /\ f.rule = Top.rule
    BY TopReplaced
  <1>4. DifferIn(stack, definition_scopes, cursor) BY TopReplaced DEF OpenIn
  <1>6. Top.fun # None => Top.fun.start \in Nat BY <1>3, OpenStarts
  <1>8. PlacedIn(stack', definition_scopes', cursor') BY <1>3, RewritePlaced
  <1>9. DifferIn(stack', definition_scopes', cursor')
    <2>1. Top.fun # None => Top.fun.start < cursor + 1 BY <1>3, <1>4 DEF DifferIn, BeforeIn
    <2> QED BY <1>3, <1>6, <2>1, RewriteDiffer
  <1>10. definition_scopes # None /\ Len(stack) > 2 /\ HeadToIn(stack, Len(stack)) =>
            HeadAgreesIn(stack', definition_scopes, defined', Len(stack))
    <2>1. SUFFICES ASSUME definition_scopes # None, Len(stack) > 2, HeadToIn(stack, Len(stack))
                   PROVE  HeadAgreesIn(stack', definition_scopes, defined', Len(stack))
      OBVIOUS
    <2>2. /\ HeadAgreesIn(stack, definition_scopes, defined, Len(stack))
          /\ \A i \in 1 .. Len(stack) : stack[i].rule # "params"
      BY <1>3, <2>1, HeadTop
    <2> QED BY <1>3, <2>2 DEF HeadAgreesIn, AgreesIn
  <1>11. HeadIn(stack', definition_scopes', defined') BY <1>10, RewriteHead
  <1> QED BY <1>8, <1>9, <1>11 DEF OpenIn

\* An empty parameter list or an identifier list is read: no scope is saved for it.
LEMMA ListClosedOpen ==
    ASSUME ParserInv, NEW f, NEW kr \in BOOLEAN, Rewrites(f), cursor' = cursor + 1,
           Top.rule = "declarator", Top.at \in {"function", "identifiers"},
           Top.at = "identifiers" => kr,
           f.at = "suffix", f.ahead = Top.ahead,
           f.fun = IF Top.fun = None THEN [kr |-> kr, start |-> Top.ahead] ELSE Top.fun,
           defined' = Applied(Len(stack), "identifiers", EmptyScope),
           UNCHANGED definition_scopes
    PROVE  OpenIn(stack', definition_scopes', defined', cursor')
  <1>3. /\ stack \in Seq(Activations) /\ Len(stack) \in Nat \ {0}
        /\ Len(stack') = Len(stack) /\ stack'[Len(stack)] = f /\ stack[Len(stack)] = Top
        /\ \A i \in 1 .. Len(stack) : stack'[i].rule = stack[i].rule
        /\ cursor \in Nat /\ status = "run" /\ f.rule = Top.rule
    BY TopReplaced
  <1>4. PlacedIn(stack, definition_scopes, cursor) /\ DifferIn(stack, definition_scopes, cursor)
    BY TopReplaced DEF OpenIn
  <1>6. Top.ahead \in Nat /\ (Top.fun # None => Top.fun.start \in Nat) BY <1>3, OpenStarts
  <1>7. Top.ahead <= cursor BY <1>3, <1>4 DEF PlacedIn
  <1>8. PlacedIn(stack', definition_scopes', cursor') BY <1>3, <1>6, <1>7, RewritePlaced
  <1>9. DifferIn(stack', definition_scopes', cursor')
    <2>1. Top.fun # None => Top.fun.start < cursor + 1 BY <1>3, <1>4 DEF DifferIn, BeforeIn
    <2>2. f.fun # None => f.fun.start \in Nat /\ f.fun.start < cursor' + 1
      <3>1. CASE Top.fun = None
        <4>1. f.fun.start = Top.ahead BY <3>1
        <4> QED BY <1>3, <1>6, <1>7, <4>1
      <3>2. CASE Top.fun # None
        <4>1. f.fun = Top.fun BY <3>2
        <4> QED BY <1>3, <1>6, <2>1, <3>2, <4>1
      <3> QED BY <3>1, <3>2
    <2> QED BY <2>2, RewriteDiffer
  <1>10. definition_scopes # None /\ Len(stack) > 2 /\ HeadToIn(stack, Len(stack)) =>
            HeadAgreesIn(stack', definition_scopes, defined', Len(stack))
    <2>1. SUFFICES ASSUME definition_scopes # None, Len(stack) > 2, HeadToIn(stack, Len(stack))
                   PROVE  HeadAgreesIn(stack', definition_scopes, defined', Len(stack))
      OBVIOUS
    <2>2. /\ HeadAgreesIn(stack, definition_scopes, defined, Len(stack))
          /\ \A i \in 1 .. Len(stack) : stack[i].rule # "params"
      BY <1>3, <2>1, HeadTop
    <2>3. \A i \in 1 .. Len(stack') : stack'[i].rule # "params" BY <1>3, <2>2
    <2>4. InHead(Len(stack)) BY <2>1 DEF InHead, HeadToIn
    <2>5. CASE Top.fun # None
      <3>1. f.fun = Top.fun /\ AgreesIn(stack, definition_scopes, defined, Top.fun)
        BY <1>3, <2>2, <2>5 DEF HeadAgreesIn
      <3>2. defined # NoFunction BY <3>1 DEF AgreesIn
      <3>3. defined' = defined BY <3>2 DEF Applied
      <3> QED BY <1>3, <2>3, <2>5, <3>1, <3>3 DEF HeadAgreesIn, AgreesIn
    <2>6. CASE Top.fun = None
      <3>1. defined = NoFunction BY <1>3, <2>2, <2>6 DEF HeadAgreesIn
      <3>2. defined' = [by |-> "identifiers", scope |-> EmptyScope] BY <2>4, <3>1 DEF Applied
      <3>3. defined' # NoFunction /\ defined'.scope = EmptyScope BY <3>2 DEF NoFunction
      <3>4. f.fun = [kr |-> kr, start |-> Top.ahead] /\ f.fun \in DeclaredFunctions
        BY <1>6, <2>6 DEF DeclaredFunctions
      <3>5. f.fun # None BY <3>4, OptionAssumption
      <3>6. definition_scopes \in Seq(SavedScopes) /\ Len(definition_scopes) \in Nat
            /\ \A i \in 1 .. Len(definition_scopes) : definition_scopes[i].start \in Nat
        BY <2>1, SavedStarts
      <3>7. ~kr => \A i \in 1 .. Len(definition_scopes) : definition_scopes[i].start # f.fun.start
        <4>1. SUFFICES ASSUME ~kr, NEW i \in 1 .. Len(definition_scopes)
                       PROVE  definition_scopes[i].start # f.fun.start
          OBVIOUS
        <4>2. Top.at = "function" BY <4>1
        <4>3. Top.ahead = cursor /\ BeforeIn(stack, definition_scopes, cursor)
          BY <1>3, <1>4, <4>2 DEF DifferIn
        <4>4. definition_scopes[i].start < cursor BY <2>1, <4>3 DEF BeforeIn
        <4> QED BY <1>3, <3>4, <3>6, <4>3, <4>4
      <3>8. SavedIn(definition_scopes, f.fun) = EmptyScope
        <4>1. PICK g : g = f.fun OBVIOUS
        <4>2. g.kr \/ \A i \in 1 .. Len(definition_scopes) : definition_scopes[i].start # g.start
          BY <3>4, <3>7, <4>1
        <4> QED BY <3>6, <4>1, <4>2, NothingSaved
      <3>9. AgreesIn(stack', definition_scopes, defined', f.fun) BY <2>3, <3>3, <3>8 DEF AgreesIn
      <3> QED BY <1>3, <3>5, <3>9 DEF HeadAgreesIn
    <2> QED BY <2>5, <2>6
  <1>11. ~HeadToIn(stack, Len(stack)) => defined' = defined BY DEF Applied, InHead, HeadToIn
  <1>12. HeadIn(stack', definition_scopes', defined') BY <1>10, <1>11, RewriteHead
  <1> QED BY <1>8, <1>9, <1>12 DEF OpenIn

\* A prototype is read: its scope is the last one saved.
LEMMA ClosePrototypeOpen ==
    ASSUME ParserInv, NEW f, Rewrites(f), Top.rule = "declarator", Top.at = "paren",
           f.at = "suffix", f.ahead = Top.ahead,
           f.fun = IF Top.fun = None THEN [kr |-> FALSE, start |-> Top.ahead] ELSE Top.fun,
           UNCHANGED <<definition_scopes, defined>>
    PROVE  OpenIn(stack', definition_scopes', defined', cursor')
  <1>3. /\ stack \in Seq(Activations) /\ Len(stack) \in Nat \ {0}
        /\ Len(stack') = Len(stack) /\ stack'[Len(stack)] = f /\ stack[Len(stack)] = Top
        /\ \A i \in 1 .. Len(stack) : stack'[i].rule = stack[i].rule
        /\ cursor \in Nat /\ cursor' \in {cursor, cursor + 1} /\ status = "run" /\ f.rule = Top.rule
    BY TopReplaced
  <1>4. PlacedIn(stack, definition_scopes, cursor) /\ DifferIn(stack, definition_scopes, cursor)
    BY TopReplaced DEF OpenIn
  <1>6. Top.ahead \in Nat /\ (Top.fun # None => Top.fun.start \in Nat) BY <1>3, OpenStarts
  <1>7. Top.ahead <= cursor BY <1>3, <1>4 DEF PlacedIn
  <1>8. PlacedIn(stack', definition_scopes', cursor') BY <1>3, <1>6, <1>7, RewritePlaced
  <1>9. DifferIn(stack', definition_scopes', cursor')
    <2>1. Top.fun # None => Top.fun.start < cursor + 1 BY <1>3, <1>4 DEF DifferIn, BeforeIn
    <2>2. f.fun # None => f.fun.start \in Nat /\ f.fun.start < cursor' + 1
      <3>1. CASE Top.fun = None
        <4>1. f.fun.start = Top.ahead BY <3>1
        <4> QED BY <1>3, <1>6, <1>7, <4>1
      <3>2. CASE Top.fun # None
        <4>1. f.fun = Top.fun BY <3>2
        <4> QED BY <1>3, <1>6, <2>1, <3>2, <4>1
      <3> QED BY <3>1, <3>2
    <2> QED BY <2>2, RewriteDiffer
  <1>10. definition_scopes # None /\ Len(stack) > 2 /\ HeadToIn(stack, Len(stack)) =>
            HeadAgreesIn(stack', definition_scopes, defined', Len(stack))
    <2>1. SUFFICES ASSUME definition_scopes # None, Len(stack) > 2, HeadToIn(stack, Len(stack))
                   PROVE  HeadAgreesIn(stack', definition_scopes, defined', Len(stack))
      OBVIOUS
    <2>2. /\ HeadAgreesIn(stack, definition_scopes, defined, Len(stack))
          /\ \A i \in 1 .. Len(stack) : stack[i].rule # "params"
      BY <1>3, <2>1, HeadTop
    <2>3. \A i \in 1 .. Len(stack') : stack'[i].rule # "params" BY <1>3, <2>2
    <2>4. AgreesIn(stack, definition_scopes, defined, f.fun) BY <1>3, <2>2 DEF HeadAgreesIn
    <2>5. f.fun # None
      <3>1. [kr |-> FALSE, start |-> Top.ahead] \in DeclaredFunctions BY <1>6 DEF DeclaredFunctions
      <3> QED BY <3>1, OptionAssumption
    <2> QED BY <1>3, <2>3, <2>4, <2>5 DEF HeadAgreesIn, AgreesIn
  <1>11. HeadIn(stack', definition_scopes', defined') BY <1>10, RewriteHead
  <1> QED BY <1>8, <1>9, <1>11 DEF OpenIn

\* A head begins, or was none.
LEMMA HeadShapesOpen ==
    ASSUME ParserInv, NEW f, Rewrites(f), cursor' = cursor, Top.rule = "external", f.fun = Top.fun,
           \/ /\ Top.at = "head" /\ f.at = "begun" /\ f.ahead = Top.ahead
              /\ definition_scopes' = <<>> /\ defined' = NoFunction
           \/ /\ Top.at = "declared" /\ f.at = "suffix"
              /\ definition_scopes' = None /\ defined' = defined
    PROVE  OpenIn(stack', definition_scopes', defined', cursor')
  <1>3. /\ stack \in Seq(Activations) /\ Len(stack) \in Nat \ {0}
        /\ Len(stack') = Len(stack) /\ stack'[Len(stack)] = f /\ stack[Len(stack)] = Top
        /\ \A i \in 1 .. Len(stack) : stack'[i].rule = stack[i].rule
        /\ cursor \in Nat /\ status = "run" /\ f.rule = Top.rule
    BY TopReplaced
  <1>4. PlacedIn(stack, definition_scopes, cursor) /\ DifferIn(stack, definition_scopes, cursor)
    BY TopReplaced DEF OpenIn
  <1>5. <<>> # None
    <2>1. <<>> \in Seq(SavedScopes) OBVIOUS
    <2> QED BY <2>1, OptionAssumption
  <1>6. Top.fun # None => Top.fun.start \in Nat BY <1>3, OpenStarts
  <1>7. Len(stack) = 2 BY <1>3, <1>4 DEF PlacedIn
  <1>8. PlacedIn(stack', definition_scopes', cursor') BY <1>5, RewritePlaced
  <1>9. DifferIn(stack', definition_scopes', cursor')
    <2>1. Top.fun # None => Top.fun.start < cursor + 1 BY <1>3, <1>4 DEF DifferIn, BeforeIn
    <2> QED BY <1>6, <2>1, RewriteDiffer
  <1>10. HeadIn(stack', definition_scopes', defined') BY <1>3, <1>7 DEF HeadIn
  <1> QED BY <1>8, <1>9, <1>10 DEF OpenIn

\* A stack with a callee on top.
LEMMA TopCalled ==
    ASSUME ParserInv, NEW f, NEW a, Calls(f, a)
    PROVE  /\ stack \in Seq(Activations) /\ Len(stack) \in Nat \ {0} /\ stack' # <<>>
           /\ Len(stack') = Len(stack) + 1 /\ stack'[Len(stack) + 1] = a
           /\ stack'[Len(stack)] = f /\ stack[Len(stack)] = Top
           /\ \A i \in 1 .. Len(stack) : i # Len(stack) => stack'[i] = stack[i]
           /\ \A i \in 1 .. Len(stack) : stack'[i].rule = stack[i].rule
           /\ f.rule = Top.rule /\ f \in Activations /\ Top \in Activations
           /\ a.start = cursor /\ a.fun = None /\ a.ahead = 0
           /\ cursor' = cursor /\ cursor \in Nat /\ status' = "run" /\ status = "run"
           /\ OpenIn(stack, definition_scopes, defined, cursor)
  <1>1. /\ status = "run" /\ SameActivation(f) /\ stack' = Append(SetTop(f), a) /\ a \in Activations
        /\ status' = "run" /\ cursor' = cursor /\ a.start = cursor /\ a.fun = None /\ a.ahead = 0
    BY DEF Calls, inputVars
  <1>2. f \in Activations /\ stack \in Seq(Activations) /\ stack # <<>> /\ Len(stack) \in Nat \ {0}
        /\ Top \in Activations /\ stack[Len(stack)] = Top /\ cursor \in Nat
    BY <1>1, Running DEF SameActivation
  <1>3. /\ SetTop(f) \in Seq(Activations) /\ Len(SetTop(f)) = Len(stack) /\ SetTop(f)[Len(stack)] = f
        /\ \A i \in 1 .. Len(stack) : i # Len(stack) => SetTop(f)[i] = stack[i]
    BY <1>2, SetTopFacts
  <1>4. /\ stack' # <<>> /\ Len(stack') = Len(stack) + 1 /\ stack'[Len(stack) + 1] = a
        /\ \A i \in 1 .. Len(stack) : stack'[i] = SetTop(f)[i]
    BY <1>1, <1>3, AppendFacts
  <1>5. /\ stack'[Len(stack)] = f
        /\ \A i \in 1 .. Len(stack) : i # Len(stack) => stack'[i] = stack[i]
    BY <1>2, <1>3, <1>4
  <1>6. f.rule = Top.rule BY <1>1 DEF SameActivation
  <1>7. \A i \in 1 .. Len(stack) : stack'[i].rule = stack[i].rule BY <1>2, <1>5, <1>6
  <1>8. OpenIn(stack, definition_scopes, defined, cursor) BY <1>1, OpenNow DEF ParserInv
  <1> QED BY <1>1, <1>2, <1>4, <1>5, <1>6, <1>7, <1>8

LEMMA CallPlaced ==
    ASSUME ParserInv, NEW f, NEW a, Calls(f, a),
           Top.rule = "params" => f.start = Top.start,
           Top.rule = "external" /\ f.at \in {"begun", "declared"} => definition_scopes' # None,
           Top.rule # "external" => definition_scopes' = definition_scopes,
           Top.rule = "declarator" =>
              /\ f.ahead = Top.ahead /\ f.at \notin {"prefix", "inner", "function"}
              /\ f.at = "paren" => a.rule = "params",
           a.rule # "unit", a.rule = "external" => Top.rule = "unit" /\ a.at = "specifiers",
           a.rule = "params" => Top.rule = "declarator" /\ f.at = "paren" /\ f.ahead = cursor,
           a.rule = "declarator" => a.at = "prefix"
    PROVE  PlacedIn(stack', definition_scopes', cursor')
  <1>2. /\ stack \in Seq(Activations) /\ Len(stack) \in Nat \ {0}
        /\ Len(stack') = Len(stack) + 1 /\ stack'[Len(stack) + 1] = a
        /\ stack'[Len(stack)] = f /\ stack[Len(stack)] = Top
        /\ \A i \in 1 .. Len(stack) : i # Len(stack) => stack'[i] = stack[i]
        /\ \A i \in 1 .. Len(stack) : stack'[i].rule = stack[i].rule
        /\ f.rule = Top.rule /\ cursor' = cursor /\ cursor \in Nat
        /\ a.start = cursor /\ a.fun = None /\ a.ahead = 0
    BY TopCalled
  <1>3. PlacedIn(stack, definition_scopes, cursor) BY TopCalled DEF OpenIn
  <1>4. \A i \in 1 .. Len(stack) : stack[i].ahead \in Nat BY <1>2, OpenStarts
  <1>5. SUFFICES ASSUME NEW i \in 1 .. Len(stack) + 1
                 PROVE  /\ stack'[i].rule = "unit" => i = 1
                        /\ stack'[i].rule = "external" =>
                              /\ i = 2
                              /\ stack'[i].at \in {"begun", "declared"} => definition_scopes' # None
                        /\ stack'[i].rule = "params" =>
                              /\ i > 1 /\ stack'[i - 1].rule = "declarator" /\ stack'[i - 1].at = "paren"
                              /\ stack'[i].start = stack'[i - 1].ahead
                        /\ stack'[i].rule = "declarator" =>
                              /\ stack'[i].ahead <= cursor'
                              /\ stack'[i].at \in {"prefix", "inner"} => stack'[i].fun = None
                              /\ stack'[i].at \in {"prefix", "inner", "function"} => i = Len(stack) + 1
                              /\ stack'[i].at = "paren" /\ i < Len(stack) + 1 => stack'[i + 1].rule = "params"
    BY <1>2, SMTT(60) DEF PlacedIn
  <1>6. i \in 1 .. Len(stack) =>
           /\ stack[i].rule = "unit" => i = 1
           /\ stack[i].rule = "external" =>
                 /\ i = 2
                 /\ stack[i].at \in {"begun", "declared"} => definition_scopes # None
           /\ stack[i].rule = "params" =>
                 /\ i > 1 /\ stack[i - 1].rule = "declarator" /\ stack[i - 1].at = "paren"
                 /\ stack[i].start = stack[i - 1].ahead
           /\ stack[i].rule = "declarator" =>
                 /\ stack[i].ahead <= cursor
                 /\ stack[i].at \in {"prefix", "inner"} => stack[i].fun = None
                 /\ stack[i].at \in {"prefix", "inner", "function"} => i = Len(stack)
                 /\ stack[i].at = "paren" /\ i < Len(stack) => stack[i + 1].rule = "params"
    BY <1>3 DEF PlacedIn
  <1>10. (Top.rule = "external" => Len(stack) = 2) /\ (Top.rule = "unit" => Len(stack) = 1)
    <2>1. stack[Len(stack)] = Top /\ Len(stack) \in 1 .. Len(stack) BY <1>2
    <2> QED BY <1>3, <2>1 DEF PlacedIn
  <1>7. CASE i < Len(stack)
    <2>1. stack'[i] = stack[i] /\ i \in 1 .. Len(stack) /\ i # Len(stack) BY <1>2, <1>7
    <2>2. stack'[i].rule = "external" /\ stack'[i].at \in {"begun", "declared"} => definition_scopes' # None
      <3>1. SUFFICES ASSUME stack[i].rule = "external", stack[i].at \in {"begun", "declared"}
                     PROVE  Top.rule # "external"
        BY <1>6, <2>1
      <3>2. i = 2 BY <1>6, <2>1, <3>1
      <3> QED BY <1>2, <1>7, <1>10, <3>2
    <2>3. stack'[i + 1].rule = stack[i + 1].rule BY <1>2, <1>7
    <2>4. i > 1 => stack'[i - 1] = stack[i - 1] BY <1>2, <1>7
    <2> QED BY <1>2, <1>4, <1>6, <1>7, <2>1, <2>2, <2>3, <2>4
  <1>8. CASE i = Len(stack)
    <2>1. stack'[i] = f /\ stack[i] = Top /\ stack'[i + 1] = a /\ i \in 1 .. Len(stack) BY <1>2, <1>8
    <2>2. i > 1 => stack'[i - 1] = stack[i - 1] BY <1>2, <1>8
    <2> QED BY <1>2, <1>6, <1>8, <2>1, <2>2
  <1>9. CASE i = Len(stack) + 1
    <2>1. stack'[i] = a /\ stack'[i - 1] = f /\ i > 1 BY <1>2, <1>9
    <2> QED BY <1>2, <1>9, <1>10, <2>1
  <1> QED BY <1>2, <1>7, <1>8, <1>9

LEMMA CallDiffer ==
    ASSUME ParserInv, NEW f, NEW a, Calls(f, a),
           Top.rule = "params" => f.start = Top.start, f.fun = Top.fun,
           a.rule = "params" => Top.rule = "declarator" /\ Top.at = "function",
           a.rule = "declarator" => a.at = "prefix",
           definition_scopes' \in {definition_scopes, None}
    PROVE  DifferIn(stack', definition_scopes', cursor')
  <1>2. /\ stack \in Seq(Activations) /\ Len(stack) \in Nat \ {0}
        /\ Len(stack') = Len(stack) + 1 /\ stack'[Len(stack) + 1] = a
        /\ stack'[Len(stack)] = f /\ stack[Len(stack)] = Top
        /\ \A i \in 1 .. Len(stack) : i # Len(stack) => stack'[i] = stack[i]
        /\ \A i \in 1 .. Len(stack) : stack'[i].rule = stack[i].rule
        /\ f.rule = Top.rule /\ cursor' = cursor /\ cursor \in Nat
        /\ a.start = cursor /\ a.fun = None /\ a.ahead = 0
    BY TopCalled
  <1>3. DifferIn(stack, definition_scopes, cursor) BY TopCalled DEF OpenIn
  <1>4. \A i \in 1 .. Len(stack) :
           /\ stack[i].start \in Nat /\ (stack[i].fun # None => stack[i].fun.start \in Nat)
           /\ stack[i].rule = "params" => stack'[i].start = stack[i].start
           /\ stack'[i].fun = stack[i].fun
    BY <1>2, OpenStarts
  <1>5. BeforeIn(stack, definition_scopes, cursor + 1) BY <1>3 DEF DifferIn
  <1>6. definition_scopes' # None => definition_scopes' = definition_scopes OBVIOUS
  <1>7. ASSUME NEW i \in 1 .. Len(stack')
        PROVE  /\ stack'[i].rule = "params" => stack'[i].start < cursor + 1
               /\ stack'[i].fun # None => stack'[i].fun.start < cursor + 1
    <2>1. CASE i \in 1 .. Len(stack) BY <1>2, <1>4, <1>5, <2>1 DEF BeforeIn
    <2>2. CASE i = Len(stack) + 1 BY <1>2, <2>2
    <2> QED BY <1>2, <2>1, <2>2
  <1>8. BeforeIn(stack', definition_scopes', cursor' + 1) BY <1>2, <1>5, <1>6, <1>7 DEF BeforeIn
  <1>9. ~(stack'[Len(stack')].rule = "declarator" /\ stack'[Len(stack')].at = "function") BY <1>2
  <1>10. ASSUME NEW j \in 1 .. Len(stack'), stack'[j].rule = "params"
         PROVE  /\ \A i \in 1 .. j - 1 : stack'[i].rule = "params" => stack'[i].start < stack'[j].start
                /\ definition_scopes' # None =>
                      \A i \in 1 .. Len(definition_scopes') : definition_scopes'[i].start # stack'[j].start
    <2>1. CASE j \in 1 .. Len(stack)
      <3>1. stack[j].rule = "params" BY <1>2, <1>10, <2>1
      <3>2. /\ \A i \in 1 .. j - 1 : stack[i].rule = "params" => stack[i].start < stack[j].start
            /\ definition_scopes # None =>
                  \A i \in 1 .. Len(definition_scopes) : definition_scopes[i].start # stack[j].start
        BY <1>3, <2>1, <3>1 DEF DifferIn
      <3>3. \A i \in 1 .. j - 1 : i \in 1 .. Len(stack) BY <1>2, <2>1
      <3> QED BY <1>2, <1>4, <1>6, <2>1, <3>1, <3>2, <3>3
    <2>2. CASE j = Len(stack) + 1
      <3>1. Top.rule = "declarator" /\ Top.at = "function" /\ stack'[j].start = cursor BY <1>2, <1>10, <2>2
      <3>2. BeforeIn(stack, definition_scopes, cursor) BY <1>2, <1>3, <3>1 DEF DifferIn
      <3>3. \A i \in 1 .. j - 1 : i \in 1 .. Len(stack) BY <1>2, <2>2
      <3>4. \A i \in 1 .. j - 1 : stack'[i].rule = "params" => stack'[i].start < stack'[j].start
        BY <1>2, <1>4, <3>1, <3>2, <3>3 DEF BeforeIn
      <3>5. ASSUME definition_scopes' # None, NEW i \in 1 .. Len(definition_scopes')
            PROVE  definition_scopes'[i].start # stack'[j].start
        <4>1. definition_scopes # None /\ definition_scopes' = definition_scopes BY <1>6, <3>5
        <4>2. definition_scopes[i].start < cursor /\ definition_scopes[i].start \in Nat
          BY <3>2, <3>5, <4>1, SavedStarts DEF BeforeIn
        <4> QED BY <1>2, <3>1, <4>1, <4>2
      <3> QED BY <3>4, <3>5
    <2> QED BY <1>2, <2>1, <2>2
  <1> QED BY <1>2, <1>8, <1>9, <1>10 DEF DifferIn

\* A call inside a head.
LEMMA CallHead ==
    ASSUME ParserInv, NEW f, NEW a, Calls(f, a), UNCHANGED <<definition_scopes, defined>>,
           Top.rule = "params" => f.start = Top.start, f.fun = Top.fun,
           Top.rule = "external" =>
              Top.at # "declared" /\ (Top.at = "begun" => a.rule = "declarator" /\ f.at = "declared"),
           Top.rule = "declarator" => Top.at # "paren",
           Top.rule = "declarator" /\ a.rule = "declarator" => Top.at = "inner" /\ f.at = "close",
           a.rule = "declarator" => a.at = "prefix",
           a.rule = "params" => Top.rule = "declarator" /\ Top.at = "function"
    PROVE  HeadIn(stack', definition_scopes', defined')
  <1>1. /\ stack \in Seq(Activations) /\ Len(stack) \in Nat \ {0}
        /\ Len(stack') = Len(stack) + 1 /\ stack'[Len(stack) + 1] = a
        /\ stack'[Len(stack)] = f /\ stack[Len(stack)] = Top
        /\ \A i \in 1 .. Len(stack) : i # Len(stack) => stack'[i] = stack[i]
        /\ \A i \in 1 .. Len(stack) : stack'[i].rule = stack[i].rule
        /\ f.rule = Top.rule /\ cursor \in Nat
        /\ a.start = cursor /\ a.fun = None /\ a.ahead = 0
    BY TopCalled
  <1>2. /\ PlacedIn(stack, definition_scopes, cursor) /\ DifferIn(stack, definition_scopes, cursor)
        /\ HeadIn(stack, definition_scopes, defined)
    BY TopCalled DEF OpenIn
  <1>3. SUFFICES ASSUME definition_scopes # None
                 PROVE  /\ Len(stack') > 2 /\ stack'[2].rule = "external" /\ stack'[2].at = "declared"
                        /\ stack'[3].rule = "declarator"
                        /\ \A n \in 3 .. Len(stack') : HeadToIn(stack', n) =>
                             IF n < Len(stack') /\ stack'[n + 1].rule = "declarator"
                             THEN stack'[n].fun = None /\ stack'[n].at = "close"
                             ELSE HeadAgreesIn(stack', definition_scopes, defined, n)
    BY <1>1 DEF HeadIn
  <1>4. /\ Len(stack) >= 2 /\ stack[2].rule = "external" /\ stack[2].at \in {"begun", "declared"}
        /\ stack[2].at = "begun" => Len(stack) = 2 /\ defined = NoFunction
        /\ stack[2].at = "declared" => (Len(stack) # 2 => stack[3].rule = "declarator")
        /\ \A n \in 3 .. Len(stack) : HeadToIn(stack, n) =>
             IF n < Len(stack) /\ stack[n + 1].rule = "declarator"
             THEN stack[n].fun = None /\ stack[n].at = "close"
             ELSE HeadAgreesIn(stack, definition_scopes, defined, n)
    BY <1>2, <1>3 DEF HeadIn
  <1>5. /\ Len(stack') > 2 /\ stack'[2].rule = "external" /\ stack'[2].at = "declared"
        /\ stack'[3].rule = "declarator"
    <2>1. CASE Len(stack) = 2
      <3>1. Top.rule = "external" /\ Top.at = "begun" /\ stack'[2] = f /\ stack'[3] = a BY <1>1, <1>4, <2>1
      <3> QED BY <1>1, <2>1, <3>1
    <2>2. CASE Len(stack) # 2
      <3>1. stack'[2] = stack[2] /\ stack'[3].rule = stack[3].rule BY <1>1, <1>4, <2>2
      <3> QED BY <1>1, <1>4, <2>2, <3>1
    <2> QED BY <2>1, <2>2
  <1>6. ASSUME NEW n \in 3 .. Len(stack), AgreesIn(stack, definition_scopes, defined, stack[n].fun),
               stack[n].fun # None
        PROVE  AgreesIn(stack', definition_scopes, defined, stack[n].fun)
    <2>1. PICK g : g = stack[n].fun OBVIOUS
    <2>2. ASSUME NEW i \in 1 .. Len(stack'), stack'[i].rule = "params"
          PROVE  g.start < stack'[i].start
      <3>1. CASE i \in 1 .. Len(stack)
        <4>1. stack[i].rule = "params" /\ stack'[i].start = stack[i].start BY <1>1, <2>2, <3>1
        <4> QED BY <1>6, <2>1, <3>1, <4>1 DEF AgreesIn
      <3>2. CASE i = Len(stack) + 1
        <4>1. Top.rule = "declarator" /\ Top.at = "function" /\ stack'[i].start = cursor BY <1>1, <2>2, <3>2
        <4>2. BeforeIn(stack, definition_scopes, cursor) BY <1>1, <1>2, <4>1 DEF DifferIn
        <4>3. n \in 1 .. Len(stack) BY <1>1
        <4> QED BY <1>6, <2>1, <4>1, <4>2, <4>3 DEF BeforeIn
      <3> QED BY <1>1, <3>1, <3>2
    <2> QED BY <1>6, <2>1, <2>2 DEF AgreesIn
  <1>7. ASSUME NEW n \in 3 .. Len(stack'), HeadToIn(stack', n)
        PROVE  IF n < Len(stack') /\ stack'[n + 1].rule = "declarator"
               THEN stack'[n].fun = None /\ stack'[n].at = "close"
               ELSE HeadAgreesIn(stack', definition_scopes, defined, n)
    <2>1. CASE n < Len(stack)
      <3>1. n \in 3 .. Len(stack) /\ n \in 1 .. Len(stack) /\ n # Len(stack) /\ \A i \in 3 .. n : i \in 1 .. Len(stack)
        BY <1>1, <2>1
      <3>2. HeadToIn(stack, n) /\ stack'[n] = stack[n] /\ stack'[n + 1].rule = stack[n + 1].rule
        BY <1>1, <1>7, <2>1, <3>1 DEF HeadToIn
      <3>3. IF stack[n + 1].rule = "declarator"
            THEN stack[n].fun = None /\ stack[n].at = "close"
            ELSE HeadAgreesIn(stack, definition_scopes, defined, n)
        BY <1>4, <2>1, <3>1, <3>2
      <3>4. n # Len(stack') BY <1>1, <2>1
      <3> QED BY <1>1, <1>6, <2>1, <3>1, <3>2, <3>3, <3>4 DEF HeadAgreesIn
    <2>2. CASE n = Len(stack)
      <3>1. n \in 3 .. Len(stack) /\ \A i \in 3 .. n : i \in 1 .. Len(stack) BY <1>1, <1>7, <2>2
      <3>2. HeadToIn(stack, n) /\ Top.rule = "declarator" BY <1>1, <1>7, <2>2, <3>1 DEF HeadToIn
      <3>3. HeadAgreesIn(stack, definition_scopes, defined, n) BY <1>4, <2>2, <3>1, <3>2
      <3>4. stack'[n] = f /\ stack[n] = Top /\ stack'[n + 1] = a /\ n < Len(stack') BY <1>1, <2>2
      <3>5. CASE a.rule = "declarator"
        <4>1. Top.at = "inner" /\ f.at = "close" BY <3>2, <3>5
        <4>2. Top.fun = None BY <1>1, <1>2, <3>2, <4>1 DEF PlacedIn
        <4> QED BY <3>4, <3>5, <4>1, <4>2
      <3>6. CASE a.rule # "declarator"
        <4>1. Top.at # "paren" /\ n # Len(stack') BY <3>2, <3>4
        <4> QED BY <1>6, <3>1, <3>3, <3>4, <3>6, <4>1 DEF HeadAgreesIn
      <3> QED BY <3>5, <3>6
    <2>3. CASE n = Len(stack) + 1
      <3>1. stack'[n] = a /\ n = Len(stack') /\ a.rule = "declarator" BY <1>1, <1>7, <2>3 DEF HeadToIn
      <3>2. defined = NoFunction
        <4>1. CASE Len(stack) = 2
          <5>1. Top.rule = "external" /\ Top.at = stack[2].at BY <1>1, <1>4, <4>1
          <5> QED BY <1>4, <5>1
        <4>2. CASE Len(stack) # 2
          <5>1. Len(stack) \in 3 .. Len(stack) /\ \A i \in 3 .. Len(stack) : i \in 3 .. n /\ i \in 1 .. Len(stack)
            BY <1>1, <1>4, <2>3, <4>2
          <5>2. HeadToIn(stack, Len(stack)) /\ Top.rule = "declarator" BY <1>1, <1>7, <5>1 DEF HeadToIn
          <5>3. Top.at = "inner" BY <3>1, <5>2
          <5>4. Top.fun = None BY <1>1, <1>2, <5>2, <5>3 DEF PlacedIn
          <5>5. HeadAgreesIn(stack, definition_scopes, defined, Len(stack)) BY <1>4, <5>1, <5>2
          <5> QED BY <1>1, <5>3, <5>4, <5>5 DEF HeadAgreesIn
        <4> QED BY <4>1, <4>2
      <3> QED BY <1>1, <3>1, <3>2 DEF HeadAgreesIn
    <2> QED BY <1>1, <2>1, <2>2, <2>3
  <1> QED BY <1>5, <1>7

LEMMA QuietCallOpen ==
    ASSUME ParserInv, QuietCall
    PROVE  OpenIn(stack', definition_scopes', defined', cursor')
  <1>1. PICK f, a : Calls(f, a) /\ QuietCallee(f, a) /\ UNCHANGED <<definition_scopes, defined>>
    BY DEF QuietCall
  <1>2. /\ f.start = Top.start \/ Top.rule = "unit"
        /\ f.fun = Top.fun /\ f.ahead = Top.ahead
        /\ a.rule \notin {"unit", "params", "body"}
        /\ a.rule = "external" => Top.rule = "unit" /\ a.at = "specifiers"
        /\ a.rule = "declarator" => a.at = "prefix"
        /\ Top.rule = "external" =>
              /\ Top.at # "declared" /\ f.at # "begun"
              /\ Top.at = "begun" => a.rule = "declarator" /\ f.at = "declared"
              /\ Top.at # "begun" => f.at # "declared"
        /\ Top.rule = "declarator" =>
              /\ Top.at # "paren" /\ f.at \notin {"paren", "function", "prefix", "inner"}
              /\ a.rule = "declarator" => Top.at = "inner" /\ f.at = "close"
    BY <1>1 DEF QuietCallee
  <1>3. definition_scopes' = definition_scopes /\ defined' = defined BY <1>1
  <1>4. Top.rule = "external" /\ Top.at = "begun" => definition_scopes # None
    <2>1. /\ stack[Len(stack)] = Top /\ Len(stack) \in Nat \ {0}
          /\ PlacedIn(stack, definition_scopes, cursor)
      BY <1>1, TopCalled DEF OpenIn
    <2>2. Len(stack) \in 1 .. Len(stack) BY <2>1
    <2> QED BY <2>1, <2>2 DEF PlacedIn
  <1>5. PlacedIn(stack', definition_scopes', cursor') BY <1>1, <1>2, <1>3, <1>4, CallPlaced
  <1>6. DifferIn(stack', definition_scopes', cursor') BY <1>1, <1>2, <1>3, CallDiffer
  <1>7. HeadIn(stack', definition_scopes', defined') BY <1>1, <1>2, <1>3, CallHead
  <1> QED BY <1>5, <1>6, <1>7 DEF OpenIn

LEMMA PrototypeOpen ==
    ASSUME ParserInv, Prototype
    PROVE  OpenIn(stack', definition_scopes', defined', cursor')
  <1>1. PICK f, a : /\ Calls(f, a) /\ a.rule = "params" /\ a.kind = "function"
                    /\ Top.rule = "declarator" /\ Top.at = "function"
                    /\ f.at = "paren" /\ f.fun = Top.fun /\ f.ahead = Top.ahead
                    /\ UNCHANGED <<definition_scopes, defined>>
    BY PrototypeShape
  <1>2. Top.ahead = cursor
    <2>1. stack[Len(stack)] = Top /\ stack # <<>> /\ DifferIn(stack, definition_scopes, cursor)
      BY <1>1, TopCalled DEF OpenIn
    <2> QED BY <1>1, <2>1 DEF DifferIn
  <1>3. PlacedIn(stack', definition_scopes', cursor') BY <1>1, <1>2, CallPlaced
  <1>4. DifferIn(stack', definition_scopes', cursor') BY <1>1, CallDiffer
  <1>5. HeadIn(stack', definition_scopes', defined') BY <1>1, CallHead
  <1> QED BY <1>3, <1>4, <1>5 DEF OpenIn

LEMMA DefinitionOpen ==
    ASSUME ParserInv, NEW f, NEW a, Calls(f, a), a.rule = "body", Top.rule = "external",
           f.at = "complete", f.fun = Top.fun, definition_scopes' = None
    PROVE  OpenIn(stack', definition_scopes', defined', cursor')
  <1>1. PlacedIn(stack', definition_scopes', cursor') BY CallPlaced
  <1>2. DifferIn(stack', definition_scopes', cursor') BY CallDiffer
  <1>3. HeadIn(stack', definition_scopes', defined') BY DEF HeadIn
  <1> QED BY <1>1, <1>2, <1>3 DEF OpenIn

LEMMA StartOpen ==
    ASSUME ParserInv, Starts
    PROVE  OpenIn(stack', definition_scopes', defined', cursor')
  <1>1. /\ definition_scopes' = None
        /\ \E a : stack' = <<a>> /\ a.rule \in {"unit", "expression"} /\ a.fun = None
    BY StartCore
  <1>2. PICK a : stack' = <<a>> /\ a.rule \in {"unit", "expression"} /\ a.fun = None BY <1>1
  <1>3. Len(stack') = 1 /\ stack'[1] = a /\ \A i \in 1 .. Len(stack') : i = 1 BY <1>2
  <1>4. PlacedIn(stack', definition_scopes', cursor') BY <1>2, <1>3 DEF PlacedIn
  <1>5. DifferIn(stack', definition_scopes', cursor') BY <1>1, <1>2, <1>3 DEF DifferIn, BeforeIn
  <1>6. HeadIn(stack', definition_scopes', defined') BY <1>1 DEF HeadIn
  <1> QED BY <1>4, <1>5, <1>6 DEF OpenIn

\* A scope saved for another list does not change what is found for this one.
LEMMA SavedAnother ==
    ASSUME NEW ds \in Seq(SavedScopes), NEW e \in SavedScopes, NEW fun,
           fun # None /\ ~fun.kr => e.start # fun.start
    PROVE  SavedIn(Append(ds, e), fun) = SavedIn(ds, fun)
  <1> DEFINE saved(q) == IF fun = None \/ fun.kr THEN {}
                         ELSE {i \in DOMAIN q : q[i].start = fun.start}
             first(q) == CHOOSE i \in saved(q) : \A j \in saved(q) : i <= j
  <1>1. \A q : SavedIn(q, fun) = IF saved(q) = {} THEN EmptyScope ELSE q[first(q)].scope
    BY DEF SavedIn
  <1>2. /\ Append(ds, e) \in Seq(SavedScopes) /\ Len(Append(ds, e)) = Len(ds) + 1
        /\ Append(ds, e)[Len(ds) + 1] = e
        /\ \A i \in 1 .. Len(ds) : Append(ds, e)[i] = ds[i]
    BY AppendFacts
  <1>3. DOMAIN ds = 1 .. Len(ds) /\ DOMAIN Append(ds, e) = 1 .. Len(ds) + 1 /\ Len(ds) \in Nat
    BY <1>2
  <1>4. saved(Append(ds, e)) = saved(ds)
    <2>1. PICK q : q = Append(ds, e) OBVIOUS
    <2>2. \A i : i \in saved(q) <=> i \in saved(ds) BY <1>2, <1>3, <2>1
    <2> QED BY <2>1, <2>2
  <1>5. saved(ds) # {} => first(ds) \in saved(ds)
    <2>1. SUFFICES ASSUME saved(ds) # {} PROVE \E i \in saved(ds) : \A j \in saved(ds) : i <= j
      OBVIOUS
    <2>2. saved(ds) \subseteq Nat BY <1>3
    <2> HIDE DEF saved
    <2>3. PICK m \in saved(ds) : \A j \in saved(ds) : <<j, m>> \notin OpToRel(<, Nat)
      BY <2>1, <2>2, NatLessThanWellFounded, WFMin
    <2>4. \A j \in saved(ds) : ~(j < m) BY <2>2, <2>3 DEF OpToRel
    <2> QED BY <2>2, <2>4
  <1>6. saved(ds) \subseteq 1 .. Len(ds) BY <1>3
  <1>7. first(Append(ds, e)) = first(ds) BY <1>4
  <1> HIDE DEF saved, first
  <1> QED BY <1>1, <1>2, <1>4, <1>5, <1>6, <1>7

\* A rule returns to its caller.
LEMMA LeaveOpen ==
    ASSUME ParserInv, Leave
    PROVE  OpenIn(stack', definition_scopes', defined', cursor')
  <1> DEFINE c == stack'[Len(stack) - 1]
             e == [start |-> Top.start, scope |-> symbols[Len(symbols)]]
  <1>1. /\ Closes /\ status = "run" /\ Top.at = "done"
        /\ \A i \in 1 .. Len(stack) - 2 : stack'[i] = stack[i]
        /\ c.rule = Caller.rule /\ c.at = Caller.at /\ c.start = Caller.start /\ c.ahead = Caller.ahead
        /\ c.fun = IF Top.rule = "declarator" /\ Caller.rule \in Declarations \cup {"declarator", "params"}
                   THEN Top.fun ELSE Caller.fun
    BY LeaveShape DEF LeaveFacts
  <1>2. /\ Top.rule = "params" /\ definition_scopes # None =>
              /\ definition_scopes' = Append(definition_scopes, e)
              /\ defined' = Applied(Len(stack) - 1, "parameters", symbols[Len(symbols)])
        /\ Top.rule # "params" \/ definition_scopes = None =>
              definition_scopes' = definition_scopes /\ defined' = defined
    BY LeaveShape DEF LeaveFacts
  <1>3. /\ stack \in Seq(Activations) /\ Len(stack) \in Nat /\ Len(stack) > 1 /\ Top = stack[Len(stack)]
        /\ Caller = stack[Len(stack) - 1] /\ cursor' = cursor /\ cursor \in Nat
        /\ Len(stack') = Len(stack) - 1 /\ symbols[Len(symbols)] \in Scopes
    BY <1>1, Running DEF Closes, Caller
  <1>4. /\ PlacedIn(stack, definition_scopes, cursor) /\ DifferIn(stack, definition_scopes, cursor)
        /\ HeadIn(stack, definition_scopes, defined)
    BY <1>1, OpenNow DEF ParserInv, OpenIn
  <1>5. \A i \in 1 .. Len(stack) - 1 :
           /\ stack'[i].rule = stack[i].rule /\ stack'[i].at = stack[i].at
           /\ stack'[i].start = stack[i].start /\ stack'[i].ahead = stack[i].ahead
           /\ stack'[i].fun \in {stack[i].fun, Top.fun}
    <2>1. SUFFICES ASSUME NEW i \in 1 .. Len(stack) - 1
                   PROVE  /\ stack'[i].rule = stack[i].rule /\ stack'[i].at = stack[i].at
                          /\ stack'[i].start = stack[i].start /\ stack'[i].ahead = stack[i].ahead
                          /\ stack'[i].fun \in {stack[i].fun, Top.fun}
      OBVIOUS
    <2>2. CASE i = Len(stack) - 1
      <3>1. stack'[i] = c /\ stack[i] = Caller BY <1>3, <2>2
      <3> HIDE DEF c
      <3> QED BY <1>1, <3>1
    <2>3. CASE i # Len(stack) - 1
      <3>1. i \in 1 .. Len(stack) - 2 BY <1>3, <2>3
      <3> QED BY <1>1, <3>1
    <2> QED BY <2>2, <2>3
  <1>6. \A i \in 1 .. Len(stack) :
           stack[i].start \in Nat /\ stack[i].ahead \in Nat /\ (stack[i].fun # None => stack[i].fun.start \in Nat)
    BY <1>3, OpenStarts
  <1>7. \A i \in 1 .. Len(stack) - 1 : i \in 1 .. Len(stack) BY <1>3
  <1>8. definition_scopes' # None <=> definition_scopes # None
    <2>1. CASE Top.rule = "params" /\ definition_scopes # None
      <3>1. e \in SavedScopes /\ definition_scopes \in Seq(SavedScopes)
        BY <1>3, <1>6, <2>1, SavedStarts DEF SavedScopes
      <3>2. definition_scopes' \in Seq(SavedScopes) BY <1>2, <2>1, <3>1, AppendFacts
      <3> QED BY <2>1, <3>2, OptionAssumption
    <2>2. CASE Top.rule # "params" \/ definition_scopes = None BY <1>2, <2>2
    <2> QED BY <2>1, <2>2
  <1> HIDE DEF c, e
  <1>9. PlacedIn(stack', definition_scopes', cursor')
    <2>1. SUFFICES ASSUME NEW i \in 1 .. Len(stack) - 1
                   PROVE  /\ stack'[i].rule = "unit" => i = 1
                          /\ stack'[i].rule = "external" =>
                                /\ i = 2
                                /\ stack'[i].at \in {"begun", "declared"} => definition_scopes' # None
                          /\ stack'[i].rule = "params" =>
                                /\ i > 1 /\ stack'[i - 1].rule = "declarator" /\ stack'[i - 1].at = "paren"
                                /\ stack'[i].start = stack'[i - 1].ahead
                          /\ stack'[i].rule = "declarator" =>
                                /\ stack'[i].ahead <= cursor'
                                /\ stack'[i].at \in {"prefix", "inner"} => stack'[i].fun = None
                                /\ stack'[i].at \in {"prefix", "inner", "function"} => i = Len(stack) - 1
                                /\ stack'[i].at = "paren" /\ i < Len(stack) - 1 => stack'[i + 1].rule = "params"
      BY <1>3 DEF PlacedIn
    <2>2. i \in 1 .. Len(stack) /\ i # Len(stack) BY <1>3
    <2>3. /\ stack[i].rule = "unit" => i = 1
          /\ stack[i].rule = "external" =>
                /\ i = 2
                /\ stack[i].at \in {"begun", "declared"} => definition_scopes # None
          /\ stack[i].rule = "params" =>
                /\ i > 1 /\ stack[i - 1].rule = "declarator" /\ stack[i - 1].at = "paren"
                /\ stack[i].start = stack[i - 1].ahead
          /\ stack[i].rule = "declarator" =>
                /\ stack[i].ahead <= cursor
                /\ stack[i].at \notin {"prefix", "inner", "function"}
                /\ stack[i].at = "paren" /\ i < Len(stack) => stack[i + 1].rule = "params"
      BY <1>4, <2>2 DEF PlacedIn
    <2>4. i > 1 => i - 1 \in 1 .. Len(stack) - 1 BY <1>3
    <2>5. i < Len(stack) - 1 => i + 1 \in 1 .. Len(stack) - 1 /\ i < Len(stack) BY <1>3
    <2> QED BY <1>3, <1>5, <1>8, <2>3, <2>4, <2>5
  <1>10. BeforeIn(stack, definition_scopes, cursor + 1) BY <1>4 DEF DifferIn
  <1>11. /\ Top.rule = "params" => Top.start < cursor + 1
         /\ Top.fun # None => Top.fun.start < cursor + 1
    <2>1. Len(stack) \in 1 .. Len(stack) BY <1>3
    <2> QED BY <1>3, <1>10, <2>1 DEF BeforeIn
  <1>12. definition_scopes # None =>
           /\ definition_scopes \in Seq(SavedScopes) /\ Len(definition_scopes) \in Nat
           /\ \A i \in 1 .. Len(definition_scopes) :
                 definition_scopes[i].start \in Nat /\ definition_scopes[i].start < cursor + 1
    BY <1>10, SavedStarts DEF BeforeIn
  <1>13. Top.rule = "params" /\ definition_scopes # None =>
           /\ definition_scopes' \in Seq(SavedScopes) /\ e \in SavedScopes
           /\ Len(definition_scopes') = Len(definition_scopes) + 1
           /\ definition_scopes'[Len(definition_scopes) + 1] = e /\ e.start = Top.start
           /\ e.scope = symbols[Len(symbols)]
           /\ \A i \in 1 .. Len(definition_scopes) : definition_scopes'[i] = definition_scopes[i]
    <2>1. SUFFICES ASSUME Top.rule = "params", definition_scopes # None
                   PROVE  /\ definition_scopes' \in Seq(SavedScopes) /\ e \in SavedScopes
                          /\ Len(definition_scopes') = Len(definition_scopes) + 1
                          /\ definition_scopes'[Len(definition_scopes) + 1] = e /\ e.start = Top.start
                          /\ e.scope = symbols[Len(symbols)]
                          /\ \A i \in 1 .. Len(definition_scopes) : definition_scopes'[i] = definition_scopes[i]
      OBVIOUS
    <2>2. Top.start \in Nat BY <1>3, <1>6
    <2>3. e \in SavedScopes /\ e.start = Top.start /\ e.scope = symbols[Len(symbols)]
      BY <1>3, <2>2 DEF SavedScopes, e
    <2> QED BY <1>2, <1>12, <2>1, <2>3, AppendFacts, SMTT(60)
  <1>14. \A j \in 1 .. Len(stack) : stack[j].rule = "params" =>
            /\ \A i \in 1 .. j - 1 : stack[i].rule = "params" => stack[i].start < stack[j].start
            /\ definition_scopes # None =>
                  \A i \in 1 .. Len(definition_scopes) : definition_scopes[i].start # stack[j].start
    BY <1>4 DEF DifferIn
  <1>15. DifferIn(stack', definition_scopes', cursor')
    <2>1. \A i \in 1 .. Len(stack') :
             /\ stack'[i].rule = "params" => stack'[i].start < cursor + 1
             /\ stack'[i].fun # None => stack'[i].fun.start < cursor + 1
      BY <1>3, <1>5, <1>7, <1>10, <1>11 DEF BeforeIn
    <2>2. ASSUME definition_scopes' # None, NEW i \in 1 .. Len(definition_scopes')
          PROVE  definition_scopes'[i].start < cursor + 1
      <3>1. CASE Top.rule # "params" BY <1>2, <1>8, <1>12, <2>2, <3>1
      <3>2. CASE Top.rule = "params"
        <4>1. CASE i = Len(definition_scopes) + 1 BY <1>8, <1>11, <1>13, <2>2, <3>2, <4>1
        <4>2. CASE i # Len(definition_scopes) + 1
          <5>1. i \in 1 .. Len(definition_scopes) BY <1>8, <1>12, <1>13, <2>2, <3>2, <4>2
          <5> QED BY <1>8, <1>12, <1>13, <2>2, <3>2, <5>1
        <4> QED BY <4>1, <4>2
      <3> QED BY <3>1, <3>2
    <2>3. BeforeIn(stack', definition_scopes', cursor' + 1) BY <1>3, <2>1, <2>2 DEF BeforeIn
    <2>4. ~(stack'[Len(stack')].rule = "declarator" /\ stack'[Len(stack')].at = "function")
      <3>1. Len(stack) - 1 \in 1 .. Len(stack) - 1 /\ Len(stack) - 1 \in 1 .. Len(stack) /\ Len(stack) - 1 # Len(stack)
        BY <1>3
      <3>2. ~(stack[Len(stack) - 1].rule = "declarator" /\ stack[Len(stack) - 1].at = "function")
        BY <1>4, <3>1 DEF PlacedIn
      <3> QED BY <1>3, <1>5, <3>1, <3>2
    <2>5. ASSUME NEW j \in 1 .. Len(stack'), stack'[j].rule = "params"
          PROVE  /\ \A i \in 1 .. j - 1 : stack'[i].rule = "params" => stack'[i].start < stack'[j].start
                 /\ definition_scopes' # None =>
                       \A i \in 1 .. Len(definition_scopes') : definition_scopes'[i].start # stack'[j].start
      <3>1. j \in 1 .. Len(stack) - 1 /\ j \in 1 .. Len(stack) /\ stack[j].rule = "params"
            /\ stack'[j].start = stack[j].start /\ stack[j].start \in Nat
        BY <1>3, <1>5, <1>6, <2>5
      <3>2. \A i \in 1 .. j - 1 : stack'[i].rule = "params" => stack'[i].start < stack'[j].start
        <4>1. \A i \in 1 .. j - 1 : i \in 1 .. Len(stack) - 1 BY <1>3, <3>1
        <4> QED BY <1>5, <1>14, <3>1, <4>1
      <3>3. ASSUME definition_scopes' # None, NEW i \in 1 .. Len(definition_scopes')
            PROVE  definition_scopes'[i].start # stack'[j].start
        <4>1. CASE Top.rule # "params" BY <1>2, <1>8, <1>14, <3>1, <3>3, <4>1
        <4>2. CASE Top.rule = "params"
          <5>1. CASE i = Len(definition_scopes) + 1
            <6>1. Len(stack) \in 1 .. Len(stack) /\ j \in 1 .. Len(stack) - 1 BY <1>3, <3>1
            <6>2. stack[j].start < Top.start BY <1>3, <1>14, <3>1, <4>2, <6>1
            <6>3. Top.start \in Nat BY <1>3, <1>6
            <6>4. definition_scopes'[i].start = Top.start BY <1>8, <1>13, <3>3, <4>2, <5>1
            <6> QED BY <3>1, <6>2, <6>3, <6>4
          <5>2. CASE i # Len(definition_scopes) + 1
            <6>1. i \in 1 .. Len(definition_scopes) BY <1>8, <1>12, <1>13, <3>3, <4>2, <5>2
            <6> QED BY <1>8, <1>13, <1>14, <3>1, <3>3, <4>2, <6>1
          <5> QED BY <5>1, <5>2
        <4> QED BY <4>1, <4>2
      <3> QED BY <3>2, <3>3
    <2> QED BY <1>3, <2>3, <2>4, <2>5 DEF DifferIn
  <1>16. HeadIn(stack', definition_scopes', defined')
    <2>1. SUFFICES ASSUME definition_scopes # None
                   PROVE  /\ Len(stack) > 2 /\ stack'[2].rule = "external" /\ stack'[2].at = "declared"
                          /\ IF Len(stack) = 3 THEN HeadAgreesIn(stack', definition_scopes', defined', 2)
                                               ELSE stack'[3].rule = "declarator"
                          /\ \A n \in 3 .. Len(stack) - 1 : HeadToIn(stack', n) =>
                               IF n < Len(stack) - 1 /\ stack'[n + 1].rule = "declarator"
                               THEN stack'[n].fun = None /\ stack'[n].at = "close"
                               ELSE HeadAgreesIn(stack', definition_scopes', defined', n)
      BY <1>3, <1>8 DEF HeadIn
    <2>2. /\ Len(stack) >= 2 /\ stack[2].rule = "external" /\ stack[2].at \in {"begun", "declared"}
          /\ stack[2].at = "begun" => Len(stack) = 2
          /\ stack[2].at = "declared" => (Len(stack) # 2 => stack[3].rule = "declarator")
          /\ \A n \in 3 .. Len(stack) : HeadToIn(stack, n) =>
               IF n < Len(stack) /\ stack[n + 1].rule = "declarator"
               THEN stack[n].fun = None /\ stack[n].at = "close"
               ELSE HeadAgreesIn(stack, definition_scopes, defined, n)
      BY <1>4, <2>1 DEF HeadIn
    <2>3. Len(stack) > 2 /\ stack[2].at = "declared" /\ stack[3].rule = "declarator"
      <3>1. Len(stack) # 2 BY <1>1, <1>3, <2>2
      <3> QED BY <1>3, <2>2, <3>1
    <2>4. stack'[2].rule = "external" /\ stack'[2].at = "declared" BY <1>3, <1>5, <2>2, <2>3
    <2>5. ASSUME NEW fun, AgreesIn(stack, definition_scopes, defined, fun)
          PROVE  AgreesIn(stack', definition_scopes', defined', fun)
      <3>1. /\ defined # NoFunction /\ defined.scope = SavedIn(definition_scopes, fun)
            /\ \A i \in 1 .. Len(stack) : stack[i].rule = "params" => fun.start < stack[i].start
        BY <2>5 DEF AgreesIn
      <3>2. defined' = defined BY <1>2, <2>1, <3>1 DEF Applied
      <3>3. SavedIn(definition_scopes', fun) = SavedIn(definition_scopes, fun)
        <4>1. CASE Top.rule = "params"
          <5>1. Len(stack) \in 1 .. Len(stack) /\ Top.start \in Nat BY <1>3, <1>6
          <5>2. fun.start < Top.start BY <1>3, <3>1, <4>1, <5>1
          <5>3. e.start # fun.start BY <1>13, <2>1, <4>1, <5>1, <5>2
          <5> QED BY <1>2, <1>12, <1>13, <2>1, <4>1, <5>3, SavedAnother
        <4>2. CASE Top.rule # "params" BY <1>2, <4>2
        <4> QED BY <4>1, <4>2
      <3>4. \A i \in 1 .. Len(stack') : stack'[i].rule = "params" => fun.start < stack'[i].start
        BY <1>3, <1>5, <1>7, <3>1
      <3> QED BY <3>1, <3>2, <3>3, <3>4 DEF AgreesIn
    <2>6. IF Len(stack) = 3 THEN HeadAgreesIn(stack', definition_scopes', defined', 2)
                            ELSE stack'[3].rule = "declarator"
      <3>1. CASE Len(stack) = 3
        <4>1. Top.rule = "declarator" /\ Caller.rule = "external" /\ stack'[2] = c BY <1>3, <2>2, <2>3, <3>1 DEF c
        <4>2. c.fun = Top.fun /\ c.rule = "external" /\ defined' = defined BY <1>1, <1>2, <4>1 DEF Declarations
        <4>3. HeadToIn(stack, 3) BY <2>3 DEF HeadToIn
        <4>4. HeadAgreesIn(stack, definition_scopes, defined, 3) BY <2>2, <3>1, <4>3
        <4> QED BY <1>1, <1>3, <2>5, <3>1, <4>1, <4>2, <4>4 DEF HeadAgreesIn
      <3>2. CASE Len(stack) # 3
        <4>1. 3 \in 1 .. Len(stack) - 1 BY <1>3, <2>3, <3>2
        <4> QED BY <1>5, <2>3, <3>2, <4>1
      <3> QED BY <3>1, <3>2
    <2>7. ASSUME NEW n \in 3 .. Len(stack) - 1, HeadToIn(stack', n)
          PROVE  IF n < Len(stack) - 1 /\ stack'[n + 1].rule = "declarator"
                 THEN stack'[n].fun = None /\ stack'[n].at = "close"
                 ELSE HeadAgreesIn(stack', definition_scopes', defined', n)
      <3>1. /\ n \in 3 .. Len(stack) /\ n \in 1 .. Len(stack) - 1 /\ n < Len(stack)
            /\ \A i \in 3 .. n : i \in 1 .. Len(stack) - 1
        BY <1>3
      <3>2. HeadToIn(stack, n) /\ stack[n].rule = "declarator" /\ n \in 3 .. n BY <1>5, <2>7, <3>1 DEF HeadToIn
      <3>3. IF stack[n + 1].rule = "declarator"
            THEN stack[n].fun = None /\ stack[n].at = "close"
            ELSE HeadAgreesIn(stack, definition_scopes, defined, n)
        BY <2>2, <3>1, <3>2
      <3>4. CASE n < Len(stack) - 1
        <4>1. n \in 1 .. Len(stack) - 2 /\ n + 1 \in 1 .. Len(stack) - 1 BY <1>3, <3>1, <3>4
        <4>2. stack'[n] = stack[n] /\ stack'[n + 1].rule = stack[n + 1].rule BY <1>1, <1>5, <4>1
        <4>3. CASE stack[n + 1].rule = "declarator" BY <3>3, <3>4, <4>2, <4>3
        <4>4. CASE stack[n + 1].rule # "declarator"
          <5>1. HeadAgreesIn(stack, definition_scopes, defined, n) BY <3>3, <4>4
          <5>2. n # Len(stack) /\ n # Len(stack') BY <1>3, <3>1, <3>4
          <5>3. defined' = defined
            <6>1. n + 1 \in 3 .. Len(stack) - 1 BY <1>3, <3>1, <4>1
            <6>2. ~InHead(Len(stack) - 1) BY <4>4, <6>1 DEF InHead
            <6> QED BY <1>2, <6>2 DEF Applied
          <5>4. HeadAgreesIn(stack', definition_scopes', defined', n)
            BY <2>5, <4>2, <5>1, <5>2, <5>3 DEF HeadAgreesIn
          <5> QED BY <4>2, <4>4, <5>4
        <4> QED BY <4>3, <4>4
      <3>5. CASE n = Len(stack) - 1
        <4>1. /\ stack'[n] = c /\ stack[n] = Caller /\ stack[n + 1] = Top /\ n = Len(stack') /\ n # Len(stack)
              /\ Caller.rule = "declarator" /\ Len(stack) \in 3 .. Len(stack)
          BY <1>3, <3>1, <3>2, <3>5 DEF c
        <4>2. CASE Top.rule = "declarator"
          <5>1. c.fun = Top.fun /\ Caller.at = "close" /\ c.at = "close" BY <1>1, <3>3, <4>1, <4>2
          <5>2. HeadToIn(stack, Len(stack))
            <6>1. \A i \in 3 .. Len(stack) : i \in 3 .. n \/ i = Len(stack) BY <1>3, <3>5
            <6> QED BY <1>3, <3>2, <4>2, <6>1 DEF HeadToIn
          <5>3. HeadAgreesIn(stack, definition_scopes, defined, Len(stack)) BY <1>3, <2>2, <4>1, <5>2
          <5>4. defined' = defined BY <1>2, <4>2
          <5>5. HeadAgreesIn(stack', definition_scopes', defined', n)
            BY <1>1, <1>3, <2>5, <4>1, <5>1, <5>3, <5>4 DEF HeadAgreesIn
          <5> QED BY <3>5, <5>5
        <4>3. CASE Top.rule # "declarator"
          <5>1. HeadAgreesIn(stack, definition_scopes, defined, n) /\ c.fun = Caller.fun /\ c.at = Caller.at
            BY <1>1, <3>3, <4>1, <4>3
          <5>2. CASE Caller.fun # None
            <6>1. AgreesIn(stack, definition_scopes, defined, Caller.fun) BY <4>1, <5>1, <5>2 DEF HeadAgreesIn
            <6>2. HeadAgreesIn(stack', definition_scopes', defined', n)
              BY <2>5, <4>1, <5>1, <5>2, <6>1 DEF HeadAgreesIn
            <6> QED BY <3>5, <6>2
          <5>3. CASE Caller.fun = None
            <6>1. defined = NoFunction BY <4>1, <5>1, <5>3 DEF HeadAgreesIn
            <6>2. Caller.at = "paren" <=> Top.rule = "params"
              <7>1. n \in 1 .. Len(stack) /\ Len(stack) \in 1 .. Len(stack) BY <3>1
              <7>2. Caller.at = "paren" => Top.rule = "params" BY <1>4, <3>1, <4>1, <7>1 DEF PlacedIn
              <7>3. Top.rule = "params" => Caller.at = "paren" BY <1>3, <1>4, <7>1 DEF PlacedIn
              <7> QED BY <7>2, <7>3
            <6>3. CASE Top.rule # "params"
              <7>1. defined' = NoFunction /\ c.at # "paren" BY <1>2, <5>1, <6>1, <6>2, <6>3
              <7> QED BY <3>5, <4>1, <5>1, <5>3, <7>1 DEF HeadAgreesIn
            <6>4. CASE Top.rule = "params"
              <7>1. InHead(Len(stack) - 1) BY <2>1, <3>2, <3>5 DEF InHead, HeadToIn
              <7>2. defined' = [by |-> "parameters", scope |-> symbols[Len(symbols)]]
                BY <1>2, <2>1, <6>1, <6>4, <7>1 DEF Applied
              <7>3. defined' # NoFunction /\ defined'.scope = symbols[Len(symbols)] BY <7>2 DEF NoFunction
              <7>4. Top.start = Caller.ahead /\ c.ahead = Caller.ahead /\ Top.start \in Nat
                <8>1. Len(stack) \in 1 .. Len(stack) BY <1>3
                <8> QED BY <1>1, <1>3, <1>4, <1>6, <6>4, <8>1 DEF PlacedIn
              <7>5. PICK g : g = [kr |-> FALSE, start |-> c.ahead] OBVIOUS
              <7>6. g \in DeclaredFunctions /\ ~g.kr /\ g.start = Top.start
                BY <7>4, <7>5 DEF DeclaredFunctions
              <7>7. SavedIn(definition_scopes', g) = symbols[Len(symbols)]
                <8> DEFINE k == Len(definition_scopes) + 1
                <8>1. /\ definition_scopes' \in Seq(SavedScopes) /\ k \in 1 .. Len(definition_scopes')
                      /\ definition_scopes'[k] = e /\ e.start = Top.start /\ e.scope = symbols[Len(symbols)]
                  BY <1>12, <1>13, <2>1, <6>4
                <8>2. ASSUME NEW j \in 1 .. Len(definition_scopes'), definition_scopes'[j].start = g.start
                      PROVE  k <= j
                  <9>1. SUFFICES ASSUME j \in 1 .. Len(definition_scopes) PROVE FALSE
                    BY <1>12, <1>13, <2>1, <6>4
                  <9>2. Len(stack) \in 1 .. Len(stack) BY <1>3
                  <9>3. definition_scopes[j].start # Top.start BY <1>3, <1>14, <2>1, <6>4, <9>1, <9>2
                  <9> QED BY <1>13, <2>1, <6>4, <7>6, <8>2, <9>1, <9>3
                <8> HIDE DEF k
                <8> QED BY <7>6, <8>1, <8>2, FirstSaved
              <7>8. \A i \in 1 .. Len(stack') : stack'[i].rule # "params"
                <8>1. SUFFICES ASSUME NEW i \in 1 .. Len(stack) - 1 PROVE stack[i].rule # "params"
                  BY <1>3, <1>5
                <8>2. CASE i = 1 BY <1>3, <1>4, <1>7, <8>2 DEF PlacedIn
                <8>3. CASE i = 2 BY <2>2, <8>3
                <8>4. CASE i > 2
                  <9>1. i \in 3 .. n BY <1>3, <3>5, <8>4
                  <9> QED BY <3>2, <9>1 DEF HeadToIn
                <8> QED BY <1>3, <8>2, <8>3, <8>4
              <7>9. AgreesIn(stack', definition_scopes', defined', [kr |-> FALSE, start |-> c.ahead])
                BY <7>3, <7>5, <7>7, <7>8 DEF AgreesIn
              <7>10. c.rule = "declarator" /\ c.at = "paren" /\ c.fun = None
                BY <1>1, <4>1, <5>1, <5>3, <6>2, <6>4
              <7> QED BY <3>5, <4>1, <7>9, <7>10 DEF HeadAgreesIn
            <6> QED BY <6>3, <6>4
          <5> QED BY <5>2, <5>3
        <4> QED BY <4>2, <4>3
      <3> QED BY <1>3, <3>1, <3>4, <3>5
    <2> QED BY <2>3, <2>4, <2>6, <2>7
  <1> QED BY <1>9, <1>15, <1>16 DEF OpenIn

-----------------------------------------------------------------------------
(* The steps of the parser                                                 *)

\* What a step opens a function body with.
BodySees ==
    Len(stack') > Len(stack) /\ stack'[Len(stack')].rule = "body" =>
        symbols'[Len(symbols')] = defined.scope

StepHolds == CoreInv' /\ StepKeeps /\ BodySees /\
             (status' = "run" => OpenIn(stack', definition_scopes', defined', cursor'))

LEMMA FailHolds ==
    ASSUME ParserInv, Fails
    PROVE  StepHolds
  <1>1. status' = "error" /\ stack' = stack BY DEF Fails
  <1>2. Len(stack) \in Nat BY DEF ParserInv, FramesOK
  <1> QED BY <1>1, <1>2, FailCore DEF StepHolds, BodySees

LEMMA RewriteHolds ==
    ASSUME ParserInv, NEW f, Rewrites(f), definition_scopes' \in Seq(SavedScopes) \cup {None},
           defined' \in [by : {"none", "identifiers", "parameters"}, scope : Scopes],
           OpenIn(stack', definition_scopes', defined', cursor')
    PROVE  StepHolds
  <1>1. Len(stack') = Len(stack) /\ Len(stack) \in Nat BY TopReplaced
  <1> QED BY <1>1, RewriteCore DEF StepHolds, BodySees

LEMMA QuietHolds ==
    ASSUME ParserInv, Quiet \/ QuietCall \/ Fails
    PROVE  StepHolds
  <1>1. CASE Quiet
    <2>1. PICK f : Rewrites(f) /\ UNCHANGED <<definition_scopes, defined>> BY <1>1 DEF Quiet
    <2>2. /\ definition_scopes' \in Seq(SavedScopes) \cup {None}
          /\ defined' \in [by : {"none", "identifiers", "parameters"}, scope : Scopes]
      BY <2>1 DEF ParserInv, FramesOK
    <2> QED BY <1>1, <2>1, <2>2, QuietOpen, RewriteHolds
  <1>2. CASE QuietCall
    <2>1. PICK f, a : Calls(f, a) /\ QuietCallee(f, a) /\ UNCHANGED <<definition_scopes, defined>>
      BY <1>2 DEF QuietCall
    <2>2. CoreInv' /\ StepKeeps BY <2>1, CallCore
    <2>3. a.rule # "body" BY <2>1 DEF QuietCallee
    <2>4. stack'[Len(stack')] = a BY <2>1, TopCalled
    <2> QED BY <1>2, <2>2, <2>3, <2>4, QuietCallOpen DEF StepHolds, BodySees
  <1> QED BY <1>1, <1>2, FailHolds

LEMMA SuffixHolds ==
    ASSUME ParserInv, FunctionSuffix \/ EmptyParameters \/ CloseIdentifierList \/ ClosePrototype
    PROVE  StepHolds
  <1>1. /\ definition_scopes \in Seq(SavedScopes) \cup {None}
        /\ defined \in [by : {"none", "identifiers", "parameters"}, scope : Scopes]
    BY DEF ParserInv, FramesOK
  <1>2. CASE FunctionSuffix
    <2>1. SUFFICES ASSUME ~Fails PROVE StepHolds BY FailHolds
    <2>2. PICK f : /\ Rewrites(f) /\ cursor' = cursor + 1
                   /\ Top.rule = "declarator" /\ Top.at = "suffix" /\ f.at = "function"
                   /\ f.ahead = cursor + 1 /\ f.fun = Top.fun
                   /\ UNCHANGED <<definition_scopes, defined>>
      BY <1>2, <2>1, FunctionSuffixShape
    <2>3. OpenIn(stack', definition_scopes', defined', cursor') BY <2>2, FunctionSuffixOpen
    <2> QED BY <1>1, <2>2, <2>3, RewriteHolds
  <1>3. CASE EmptyParameters \/ CloseIdentifierList
    <2>1. SUFFICES ASSUME ~Fails PROVE StepHolds BY FailHolds
    <2>2. PICK f : \E kr \in BOOLEAN :
                 /\ Rewrites(f) /\ cursor' = cursor + 1
                 /\ Top.rule = "declarator" /\ Top.at \in {"function", "identifiers"}
                 /\ Top.at = "identifiers" => kr
                 /\ f.at = "suffix" /\ f.ahead = Top.ahead
                 /\ f.fun = IF Top.fun = None THEN [kr |-> kr, start |-> Top.ahead] ELSE Top.fun
                 /\ defined' = Applied(Len(stack), "identifiers", EmptyScope)
                 /\ UNCHANGED definition_scopes
      BY <1>3, <2>1, ListClosedShape
    <2>3. PICK kr \in BOOLEAN :
                 /\ Rewrites(f) /\ cursor' = cursor + 1
                 /\ Top.rule = "declarator" /\ Top.at \in {"function", "identifiers"}
                 /\ Top.at = "identifiers" => kr
                 /\ f.at = "suffix" /\ f.ahead = Top.ahead
                 /\ f.fun = IF Top.fun = None THEN [kr |-> kr, start |-> Top.ahead] ELSE Top.fun
                 /\ defined' = Applied(Len(stack), "identifiers", EmptyScope)
                 /\ UNCHANGED definition_scopes
      BY <2>2
    <2>4. OpenIn(stack', definition_scopes', defined', cursor') BY <2>3, ListClosedOpen
    <2>5. defined' \in [by : {"none", "identifiers", "parameters"}, scope : Scopes]
      BY <1>1, <2>3, EmptyTyped, AppliedTyped
    <2> QED BY <1>1, <2>3, <2>4, <2>5, RewriteHolds
  <1>4. CASE ClosePrototype
    <2>1. SUFFICES ASSUME ~Fails PROVE StepHolds BY FailHolds
    <2>2. PICK f : /\ Rewrites(f) /\ Top.rule = "declarator" /\ Top.at = "paren"
                   /\ f.at = "suffix" /\ f.ahead = Top.ahead
                   /\ f.fun = IF Top.fun = None THEN [kr |-> FALSE, start |-> Top.ahead] ELSE Top.fun
                   /\ UNCHANGED <<definition_scopes, defined>>
      BY <1>4, <2>1, ClosePrototypeShape
    <2>3. OpenIn(stack', definition_scopes', defined', cursor') BY <2>2, ClosePrototypeOpen
    <2> QED BY <1>1, <2>2, <2>3, RewriteHolds
  <1> QED BY <1>2, <1>3, <1>4

LEMMA HeadHolds ==
    ASSUME ParserInv, begin_function_definition \/ NotADefinition
    PROVE  StepHolds
  <1>1. PICK f : /\ Rewrites(f) /\ cursor' = cursor /\ Top.rule = "external" /\ f.fun = Top.fun
                 /\ \/ /\ Top.at = "head" /\ f.at = "begun" /\ f.ahead = Top.ahead
                       /\ definition_scopes' = <<>> /\ defined' = NoFunction
                    \/ /\ Top.at = "declared" /\ f.at = "suffix"
                       /\ definition_scopes' = None /\ defined' = defined
    BY HeadShapes
  <1>2. OpenIn(stack', definition_scopes', defined', cursor') BY <1>1, HeadShapesOpen
  <1>3. definition_scopes' \in Seq(SavedScopes) \cup {None}
    <2>1. <<>> \in Seq(SavedScopes) OBVIOUS
    <2> QED BY <1>1, <2>1
  <1>4. defined' \in [by : {"none", "identifiers", "parameters"}, scope : Scopes]
    BY <1>1, EmptyTyped DEF ParserInv, FramesOK
  <1> QED BY <1>1, <1>2, <1>3, <1>4, RewriteHolds

LEMMA PrototypeHolds ==
    ASSUME ParserInv, Prototype
    PROVE  StepHolds
  <1>1. PICK f, a : /\ Calls(f, a) /\ a.rule = "params" /\ a.kind = "function"
                    /\ Top.rule = "declarator" /\ Top.at = "function"
                    /\ f.at = "paren" /\ f.fun = Top.fun /\ f.ahead = Top.ahead
                    /\ UNCHANGED <<definition_scopes, defined>>
    BY PrototypeShape
  <1>2. CoreInv' /\ StepKeeps BY <1>1, CallCore
  <1>3. stack'[Len(stack')] = a BY <1>1, TopCalled
  <1> QED BY <1>1, <1>2, <1>3, PrototypeOpen DEF StepHolds, BodySees

\* A definition's body sees the parameters of the suffix applied to its name: the
\* declarator agrees with it.
LEMMA DefinitionHolds ==
    ASSUME ParserInv, Definition
    PROVE  StepHolds
  <1>1. SUFFICES ASSUME ~Fails PROVE StepHolds BY FailHolds
  <1>2. PICK f, a : /\ Calls(f, a) /\ a.rule = "body" /\ a.kind = "scope"
                    /\ Top.rule = "external" /\ Top.at = "declared" /\ f.at = "complete"
                    /\ f.fun = Top.fun /\ definition_scopes' = None /\ defined' = defined
                    /\ symbols'[Len(symbols')] = SavedScope(Top.fun)
    BY <1>1, DefinitionShape
  <1>3. CoreInv' /\ StepKeeps BY <1>2, CallCore
  <1>4. OpenIn(stack', definition_scopes', defined', cursor') BY <1>2, DefinitionOpen
  <1>5. /\ stack[Len(stack)] = Top /\ Len(stack) \in Nat \ {0}
        /\ PlacedIn(stack, definition_scopes, cursor) /\ HeadIn(stack, definition_scopes, defined)
    BY <1>2, TopCalled DEF OpenIn
  <1>6. Len(stack) \in 1 .. Len(stack) BY <1>5
  <1>7. Len(stack) = 2 /\ definition_scopes # None BY <1>2, <1>5, <1>6 DEF PlacedIn
  <1>8. HeadAgreesIn(stack, definition_scopes, defined, 2) BY <1>2, <1>5, <1>7 DEF HeadIn
  <1>9. SavedScope(Top.fun) = SavedIn(definition_scopes, Top.fun) BY DEF SavedScope, SavedIn
  <1>10. defined.scope = SavedIn(definition_scopes, Top.fun)
    <2>1. CASE Top.fun # None BY <1>5, <1>7, <1>8, <2>1 DEF HeadAgreesIn, AgreesIn
    <2>2. CASE Top.fun = None
      <3>1. defined = NoFunction BY <1>2, <1>5, <1>7, <1>8, <2>2 DEF HeadAgreesIn
      <3>2. SavedIn(definition_scopes, Top.fun) = EmptyScope BY <1>7, <2>2, NothingSaved, SavedStarts
      <3> QED BY <3>1, <3>2 DEF NoFunction
    <2> QED BY <2>1, <2>2
  <1>11. BodySees BY <1>2, <1>9, <1>10 DEF BodySees
  <1> QED BY <1>3, <1>4, <1>11 DEF StepHolds

LEMMA LeaveHolds ==
    ASSUME ParserInv, Leave
    PROVE  StepHolds
  <1>1. Len(stack') = Len(stack) - 1 /\ Len(stack) \in Nat
    BY LeaveShape DEF LeaveFacts, Closes, ParserInv, FramesOK
  <1>2. BodySees BY <1>1 DEF BodySees
  <1> QED BY <1>2, LeaveCore, LeaveOpen DEF StepHolds

LEMMA EndsHold ==
    ASSUME ParserInv, Unwind \/ Finish \/ Reject
    PROVE  StepHolds
  <1>1. Len(stack') <= Len(stack) /\ Len(stack) \in Nat /\ Len(stack') \in Nat
    <2>1. Len(stack) \in Nat /\ stack \in Seq(Activations) BY DEF ParserInv, FramesOK
    <2>2. CASE Unwind
      <3>1. stack' = SubSeq(stack, 1, Len(stack) - 1) /\ Len(stack) > 1 BY <2>2 DEF Unwind, Returned
      <3> QED BY <2>1, <3>1
    <2>3. CASE Finish
      <3>1. stack' = <<>> BY <2>3 DEF Finish
      <3> QED BY <2>1, <3>1
    <2>4. CASE Reject
      <3>1. stack' = stack BY <2>4 DEF Reject
      <3> QED BY <2>1, <3>1
    <2> QED BY <2>2, <2>3, <2>4
  <1>2. BodySees BY <1>1 DEF BodySees
  <1>3. CoreInv' /\ StepKeeps /\ status' # "run"
    <2>1. CASE Unwind BY <2>1, UnwindCore
    <2>2. CASE Finish BY <2>2, FinishCore
    <2>3. CASE Reject BY <2>3, RejectCore
    <2> QED BY <2>1, <2>2, <2>3
  <1> QED BY <1>2, <1>3 DEF StepHolds

LEMMA StartHolds ==
    ASSUME ParserInv, StartUnit \/ StartExpression
    PROVE  StepHolds
  <1>1. Starts BY StartShapes
  <1>2. PICK a : stack' = <<a>> /\ a.rule \in {"unit", "expression"} BY <1>1, StartCore
  <1>3. stack'[Len(stack')] = a BY <1>2
  <1>4. BodySees BY <1>2, <1>3 DEF BodySees
  <1> QED BY <1>1, <1>4, StartCore, StartOpen DEF StepHolds

LEMMA SyntaxErrorHolds ==
    ASSUME ParserInv, SyntaxError
    PROVE  StepHolds
  <1>1. status = "run" BY DEF SyntaxError, Stuck
  <1>2. Err /\ budget' = budget BY DEF SyntaxError
  <1>3. Spent(budget, budget') BY <1>1, <1>2, Running, SpentNothing
  <1>4. Fails BY <1>1, <1>2, <1>3 DEF Err, Fails, envVars
  <1> QED BY <1>4, FailHolds

LEMMA StutterHolds ==
    ASSUME ParserInv, UNCHANGED vars
    PROVE  StepHolds
  <1>1. /\ status' = status /\ source' = source /\ lexed' = lexed /\ cursor' = cursor /\ stack' = stack
        /\ symbols' = symbols /\ definition_scopes' = definition_scopes /\ defined' = defined
        /\ budget' = budget
    BY DEF vars, inputVars, envVars
  <1>2. Len(stack) \in Nat BY DEF ParserInv, FramesOK
  <1>3. CoreInv'
    <2>1. CoreInv BY DEF ParserInv, CoreInv
    <2> QED BY <1>1, <2>1 DEF CoreInv, TypeOK, DepthBounded, WorkExact, AcceptedIsComplete, FramesOK,
                              RulesAccounted, Top
  <1>4. StepKeeps /\ BodySees BY <1>1, <1>2 DEF StepKeeps, BodySees
  <1>5. status' = "run" => OpenIn(stack', definition_scopes', defined', cursor')
    BY <1>1, OpenNow DEF ParserInv
  <1> QED BY <1>3, <1>4, <1>5 DEF StepHolds

-----------------------------------------------------------------------------
(* The theorem                                                             *)

LEMMA InitHolds == Init => ParserInv
  <1> SUFFICES ASSUME Init PROVE ParserInv
    OBVIOUS
  <1>1. PICK job \in Jobs : source = job.tokens /\ budget = NewBudget(job.limits) BY DEF Init
  <1>2. /\ status = "new" /\ lexed = 0 /\ cursor = 0 /\ stack = <<>> /\ symbols = <<EmptyScope>>
        /\ definition_scopes = None /\ defined = NoFunction
    BY DEF Init
  <1>3. source \in Seq(Tokens) /\ Len(source) \in Nat /\ job.limits \in Limits BY <1>1, SessionAssumption
  <1>4. /\ budget \in Budgets /\ budget.failure = None /\ budget.depth = 0 /\ budget.work = budget.charged
        /\ budget.limits = job.limits
    BY <1>1, <1>3, BudgetAssumption DEF NewBudget, Budgets
  <1>5. symbols \in Seq(Scopes) /\ Len(symbols) = 1 /\ symbols # <<>>
    BY <1>2, EmptyTyped
  <1>6. TypeOK
    <2>1. \A i \in DOMAIN symbols : symbols[i] \in Scopes BY <1>5
    <2>2. defined.scope \in Scopes BY <1>2, EmptyTyped
    <2> QED BY <1>2, <1>3, <1>4, <2>1, <2>2 DEF TypeOK
  <1>7. DepthBounded /\ WorkExact
    <2>1. budget.limits.max_rule_depth \in Nat BY <1>4, BudgetParts
    <2> QED BY <1>4, <2>1 DEF DepthBounded, WorkExact
  <1>8. AcceptedIsComplete BY <1>2 DEF AcceptedIsComplete
  <1>9. FramesOK
    <2>1. stack \in Seq(Activations) BY <1>2
    <2> QED BY <1>2, <1>3, <1>4, <1>5, <2>1, EmptyTyped DEF FramesOK
  <1>10. RulesAccounted BY <1>2 DEF RulesAccounted
  <1> QED BY <1>2, <1>6, <1>7, <1>8, <1>9, <1>10 DEF ParserInv

LEMMA NextHolds ==
    ASSUME ParserInv, [Next]_vars
    PROVE  StepHolds
  <1>1. CASE Parse
    <2>1. CASE \/ Shift \/ NestedCall \/ OtherCall \/ Build BY <2>1, TableShapes, QuietHolds
    <2>2. CASE \/ Typedef \/ TypeSpecifier \/ SpecifiersEnd \/ TypedefName
               \/ Member \/ Enumerator \/ EnumeratorDone \/ TypeName
      BY <2>2, SpecifierShapes, QuietHolds
    <2>3. CASE \/ External \/ Progress \/ StraySemicolon \/ FirstDeclarator \/ Lookahead
               \/ Register \/ InitializerStart \/ Initialized
      BY <2>3, DeclarationShapes, QuietHolds
    <2>4. CASE \/ Pointer \/ Identifier \/ Parenthesis \/ ParenthesizedDeclarator
               \/ AbstractDeclarator \/ Bracket \/ ArrayBound \/ IdentifierList \/ DeclaratorDone
               \/ ParameterDeclarator \/ UnnamedParameter \/ RegisterParameter \/ NextParameter
      BY <2>4, DeclaratorShapes, QuietHolds
    <2>5. CASE \/ OldStyleDeclaration \/ Item \/ ItemCall \/ Statement \/ ForHeader
               \/ Group \/ Operator \/ ExpressionDone
      BY <2>5, StatementShapes, QuietHolds
    <2>6. CASE FunctionSuffix \/ EmptyParameters \/ CloseIdentifierList \/ ClosePrototype
      BY <2>6, SuffixHolds
    <2>7. CASE begin_function_definition \/ NotADefinition BY <2>7, HeadHolds
    <2>8. CASE Prototype BY <2>8, PrototypeHolds
    <2>9. CASE Definition BY <2>9, DefinitionHolds
    <2>10. CASE Leave BY <2>10, LeaveHolds
    <2>11. CASE Unwind \/ Finish \/ Reject BY <2>11, EndsHold
    <2>12. CASE StartUnit \/ StartExpression BY <2>12, StartHolds
    <2> QED BY <1>1, <2>1, <2>2, <2>3, <2>4, <2>5, <2>6, <2>7, <2>8, <2>9, <2>10, <2>11, <2>12 DEF Parse
  <1>2. CASE SyntaxError BY <1>2, SyntaxErrorHolds
  <1>3. CASE UNCHANGED vars BY <1>3, StutterHolds
  <1> QED BY <1>1, <1>2, <1>3 DEF Next, Step

\* A step keeps the inductive invariant.
LEMMA InvariantKept ==
    ASSUME ParserInv, [Next]_vars
    PROVE  ParserInv'
  <1>1. StepHolds BY NextHolds
  <1>2. CoreInv' /\ (status' = "run" => (RulesPlaced /\ StartsDiffer /\ HeadFollowed)')
    BY <1>1, OpenNext DEF StepHolds
  <1> QED BY <1>2 DEF CoreInv, ParserInv

\* The parser's state is well typed, within its depth, and accounted for, always.
THEOREM ParserInvariant == Spec => []ParserInv
  <1>1. Init => ParserInv BY InitHolds
  <1>2. ParserInv /\ [Next]_vars => ParserInv' BY InvariantKept
  <1> QED BY <1>1, <1>2, PTL DEF Spec

\* For every grammar instance, source and limits: the parser's rules balance, the typedef
\* scopes of a function's head are saved for its body and for nothing else, what is accepted
\* was read to its end, and nothing is parsed after the first failure.
THEOREM ParserHolds == Spec => ParserExact
  <1>1. ParserInv => SessionInv /\ ScopesSavedInHead /\ AcceptedIsComplete /\ WorkExact
    <2>1. SUFFICES ASSUME ParserInv PROVE ScopesSavedInHead BY DEF ParserInv, SessionInv
    <2>2. SUFFICES ASSUME definition_scopes # None, status # "error"
                   PROVE  Len(stack) >= 2 /\ stack[2].rule = "external" /\ stack[2].at \in {"begun", "declared"}
      BY DEF ScopesSavedInHead
    <2>3. status = "run" BY <2>1, <2>2 DEF ParserInv, TypeOK
    <2> QED BY <2>1, <2>2, <2>3 DEF ParserInv, HeadFollowed
  <1>2. ParserInv /\ [Next]_vars =>
           [Len(stack') < Len(stack) => budget'.depth = Top.depth /\ Len(symbols') = Top.scopes]_vars
    BY NextHolds DEF StepHolds, StepKeeps
  <1>3. ParserInv /\ [Next]_vars =>
           [(Len(stack') > Len(stack) /\ stack'[Len(stack')].rule = "body") =>
               symbols'[Len(symbols')] = defined.scope]_vars
    BY NextHolds DEF StepHolds, BodySees
  <1>4. ParserInv /\ [Next]_vars => [budget.failure # None => budget'.failure = budget.failure]_vars
    BY NextHolds DEF StepHolds, StepKeeps
  <1>5. ParserInv /\ [Next]_vars => [budget.failure # None => cursor' = cursor]_vars
    BY NextHolds DEF StepHolds, StepKeeps
  <1> QED BY <1>1, <1>2, <1>3, <1>4, <1>5, ParserInvariant, PTL
       DEF Spec, ParserExact, RulesBalanced, BodySeesParameters, FirstFailureStays, FailureStopsParsing

=============================================================================
