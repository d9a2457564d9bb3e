---------------------------- MODULE CheckedBounds ----------------------------
(* Run-time array bounds and typeof operands of a checked expression: which of *)
(* them are evaluated, and on which path of a type each bound lies.  The code  *)
(* appends them to two arenas while types are checked, and an enclosing        *)
(* expression, once it is complete, corrects the suffix of the arenas that     *)
(* began with it.  A source span is the path of its node in the tree; `todo`   *)
(* is the call stack of the recursive checker.                                 *)
EXTENDS Integers, Sequences, SequencesExt

CONSTANTS BoundsDeclared,     \* [name -> [ty, entries, volatile]]: objects and typedefs in scope
          EarlierBounds,\* number of bounds their declarations put into the arena
          Programs      \* trees [k, n, sel, kids] with a root of kind expr, const or alignas

VARIABLES checking,   \* [tree, clang]
          todo,       \* tasks of the checker, innermost first
          facts,      \* completed expressions: path -> [ty, lvalue, volatile, use, effects]
          typeNames,  \* checked type names: path -> [ty, use]
          bounds,     \* arena: [at, evaluation, value, inputs]
          operands,   \* arena: [at, evaluation]
          starts      \* path -> [bounds, operands]: lengths of the arenas when its context began

boundsVars == <<checking, todo, facts, typeNames, bounds, operands, starts>>

Shape(t, n, of) == [t |-> t, n |-> n, of |-> of]
Number == Shape("int", "", <<>>)
PointerTo(ty) == Shape("ptr", "", <<ty>>)
resolve(ty) == IF ty.t = "alias" THEN BoundsDeclared[ty.n].ty ELSE ty

At(p) == FoldLeft(LAMBDA node, i : node.kids[i], checking.tree, p)
Below(p, q) == IsPrefix(p, q)
WithEntry(f, key, value) == [x \in DOMAIN f \cup {key} |-> IF x = key THEN value ELSE f[x]]

------------------------------------------------------------------------------
(* Type uses: a shape and its entries, the bounds and function declarators on  *)
(* the paths of the shape.                                                     *)
RECURSIVE path_type(_, _)
path_type(ty, path) ==
    IF path = <<>> THEN ty.t
    ELSE LET leads == \/ Head(path) = "Pointer" /\ ty.t = "ptr"
                      \/ Head(path) = "AtomicValue" /\ ty.t = "atomic"
                      \/ Head(path) = "Element" /\ ty.t \in {"arr", "vla"}
                      \/ Head(path) = "Return" /\ ty.t = "fun"
         IN CASE ty.t = "alias" -> "alias"
              [] leads -> path_type(ty.of[1], Tail(path))
              [] Head(path) = "Parameter" /\ ty.t = "fun" /\ Len(ty.of) = 2 -> path_type(ty.of[2], Tail(path))
              [] OTHER -> "none"

extent_type(ty, path) == path_type(ty, path) \in {"arr", "vla", "alias"}
function_type(ty, path) == path_type(ty, path) \in {"fun", "alias"}
EntryFits(ty, entry) == IF entry.function THEN function_type(ty, entry.path) ELSE extent_type(ty, entry.path)
Extent(path, id) == [path |-> path, function |-> FALSE, id |-> id]
FunctionUse(path, id) == [path |-> path, function |-> TRUE, id |-> id]

type_use(ty, entries) == [shape |-> ty, entries |-> entries]
plain_type_use(ty) == type_use(ty, {})
retype_use(use, ty) ==
    IF use.shape = ty THEN use ELSE type_use(ty, {e \in use.entries : EntryFits(ty, e)})
Under(step, entries) == {[e EXCEPT !.path = <<step>> \o @] : e \in entries}
wrap_type_use(use, ty, step, fresh) == type_use(ty, Under(step, use.entries) \cup fresh)
StripStep(step, entries) ==
    {[e EXCEPT !.path = Tail(@)] : e \in {d \in entries : d.path # <<>> /\ Head(d.path) = step}}
project_type_use(use, ty, step) == type_use(ty, StripStep(step, use.entries))

\* One conversion step: array elements become pointees, functions get a pointer, atomics are opened.
ConvertForgetsDecay(entries, conversion) ==
    IF conversion = "ArrayDecay" THEN {e \in entries : e.path # <<>>}
    ELSE IF conversion = "FunctionDecay" THEN Under("Pointer", entries) ELSE entries
ConvertEntries(entries, conversion) ==
    CASE conversion = "ArrayDecay" ->
           {IF e.path # <<>> /\ Head(e.path) = "Element" THEN [e EXCEPT !.path[1] = "Pointer"] ELSE e :
               e \in {d \in entries : d.function \/ d.path # <<>>}}
      [] conversion = "FunctionDecay" -> Under("Pointer", entries)
      [] conversion = "AtomicLoad" ->
           {IF e.path # <<>> /\ Head(e.path) = "AtomicValue" THEN [e EXCEPT !.path = Tail(@)] ELSE e : e \in entries}
      [] OTHER -> entries


converted_type_use(use, ty, conversion) ==
    LET kept == {e \in ConvertEntries(use.entries, conversion) : e.function \/ ty.t # "int"}
    IN type_use(ty, {e \in kept : EntryFits(ty, e)})

------------------------------------------------------------------------------
(* Expressions as their parents use them.                                      *)
IsArray(ty) == resolve(ty).t \in {"arr", "vla"}
Conversion(f) ==
    CASE IsArray(f.ty) -> "ArrayDecay"
      [] resolve(f.ty).t = "fun" -> "FunctionDecay"
      [] resolve(f.ty).t = "atomic" /\ f.lvalue -> "AtomicLoad"
      [] f.lvalue -> "Lvalue"
      [] OTHER -> "none"
converted_type(f) ==
    LET ty == resolve(f.ty)
    IN CASE IsArray(f.ty) -> PointerTo(ty.of[1])
         [] ty.t = "fun" -> PointerTo(f.ty)
         [] ty.t = "atomic" /\ f.lvalue -> resolve(ty.of[1])
         [] OTHER -> ty
ValueAs(f, ty) == converted_type_use(f.use, ty, Conversion(f))
Value(f) == ValueAs(f, converted_type(f))
Place(f) == converted_type_use(f.use, f.ty, "none")

RECURSIVE is_variable_length_array(_), is_variably_modified(_)
is_variable_length_array(ty) ==
    \/ resolve(ty).t = "vla"
    \/ resolve(ty).t = "arr" /\ is_variable_length_array(resolve(ty).of[1])
is_variably_modified(ty) ==
    \/ resolve(ty).t = "vla"
    \/ resolve(ty).t \in {"arr", "ptr", "atomic", "fun"} /\ is_variably_modified(resolve(ty).of[1])

combine(effects, others) ==
    CASE "Present" \in {effects, others} -> "Present"
      [] "Unresolved" \in {effects, others} -> "Unresolved"
      [] OTHER -> "Absent"
query_use_effects(f) ==
    IF Conversion(f) = "AtomicLoad" \/ (f.volatile /\ Conversion(f) = "Lvalue") THEN "Present" ELSE f.effects

\* Composites: an array of known length wins over a variable one.
RECURSIVE composite_type(_, _)
composite_type(left, right) ==
    LET l == resolve(left)
        r == resolve(right)
    IN CASE l = r -> left
         [] l.t = "ptr" /\ r.t = "ptr" -> PointerTo(composite_type(l.of[1], r.of[1]))
         [] IsArray(l) /\ IsArray(r) ->
              Shape(IF "arr" \in {l.t, r.t} THEN "arr" ELSE "vla", "", <<composite_type(l.of[1], r.of[1])>>)
         [] OTHER -> left
ConditionalType(l, r) ==
    CASE l.t = "ptr" /\ r.t = "ptr" -> PointerTo(composite_type(l.of[1], r.of[1]))
      [] l.t = "ptr" -> l
      [] OTHER -> r

\* The operand after its first conversion only.
before_composite_conversion(f) ==
    IF Conversion(f) \in {"ArrayDecay", "FunctionDecay", "AtomicLoad"} THEN Value(f) ELSE f.use

\* [use, fresh]: a path whose inputs differ gets a derived bound of its own.
composite_type_use(uses, ty, p) ==
    LET paths == {e.path : e \in {d \in UNION {uses[i].entries : i \in DOMAIN uses} : ~d.function /\ extent_type(ty, d.path)}}
        takes == {i \in DOMAIN uses : uses[i].shape.t \in {"ptr", "arr", "vla", "alias", "atomic"}}
        input(i, path) ==
            LET own == {e.id : e \in {d \in uses[i].entries : ~d.function /\ d.path = path}}
            IN IF own # {} THEN CHOOSE id \in own : TRUE
               ELSE IF path_type(uses[i].shape, path) = "arr" THEN -1 ELSE 0
        inputs(path) == {input(i, path) : i \in takes}
        single(path) == \E id \in inputs(path) : id > 0 /\ inputs(path) = {id}
        derived == SetToSeq({path \in paths : ~single(path)})
        IdOf(path) == IF single(path) THEN CHOOSE id \in inputs(path) : TRUE
                      ELSE Len(bounds) + CHOOSE i \in DOMAIN derived : derived[i] = path
        functions == {e \in UNION {uses[i].entries : i \in DOMAIN uses} : e.function /\ function_type(ty, e.path)}
    IN [use |-> type_use(ty, {Extent(path, IdOf(path)) : path \in paths} \cup functions),
        fresh |-> [i \in DOMAIN derived |->
                     [at |-> p, evaluation |-> "Derived", value |-> "Composite", inputs |-> inputs(derived[i])]]]

------------------------------------------------------------------------------
(* retain_expression and expression_type_use: the facts of a complete node.    *)
Fact(ty, lvalue, use, effects) == [ty |-> ty, lvalue |-> lvalue, volatile |-> FALSE, use |-> use, effects |-> effects]
Arithmetic(effects) == Fact(Number, FALSE, plain_type_use(Number), effects)
Kid(p, i) == facts[Append(p, i)]
TypeKid(p, i) == typeNames[Append(p, i)]
Selected(p) == Kid(p, At(p).sel)
PointerKid(p) == IF converted_type(Kid(p, 1)).t = "ptr" THEN Kid(p, 1) ELSE Kid(p, 2)
BothEffects(p) == combine(query_use_effects(Kid(p, 1)), query_use_effects(Kid(p, 2)))
Pointee(f) == converted_type(f).of[1]

RetainName(n) ==
    [Fact(BoundsDeclared[n].ty, resolve(BoundsDeclared[n].ty).t # "fun", type_use(BoundsDeclared[n].ty, BoundsDeclared[n].entries), "Absent")
        EXCEPT !.volatile = BoundsDeclared[n].volatile]
RetainUnary(p) ==
    LET f == Kid(p, 1)
        k == At(p).k
    IN CASE k = "addr" -> Fact(PointerTo(f.ty), FALSE, wrap_type_use(f.use, PointerTo(f.ty), "Pointer", {}), f.effects)
         [] k = "deref" -> Fact(Pointee(f), resolve(Pointee(f)).t # "fun",
                                project_type_use(Value(f), Pointee(f), "Pointer"), query_use_effects(f))
         [] k = "inc" -> Fact(converted_type(f), FALSE, retype_use(Value(f), converted_type(f)), "Present")
         [] k = "call" ->
              LET ty == resolve(Pointee(f)).of[1]
              IN Fact(ty, FALSE, type_use(ty, StripStep("Return", StripStep("Pointer", Value(f).entries))),
                      combine("Unresolved", query_use_effects(f)))
RetainBinary(p) ==
    LET l == Kid(p, 1)
        r == Kid(p, 2)
        f == PointerKid(p)
        k == At(p).k
        stored == IF resolve(l.ty).t = "atomic" THEN resolve(resolve(l.ty).of[1]) ELSE resolve(l.ty)
    IN CASE k = "index" -> Fact(Pointee(f), TRUE, project_type_use(Value(f), Pointee(f), "Pointer"), BothEffects(p))
         [] k = "assign" ->
              Fact(stored, FALSE,
                   IF l.ty.t = "atomic" THEN project_type_use(Place(l), stored, "AtomicValue") ELSE retype_use(Place(l), stored),
                   "Present")
         [] k = "comma" -> Fact(converted_type(r), FALSE, retype_use(Value(r), converted_type(r)), BothEffects(p))
         [] k = "add" ->
              IF converted_type(f).t = "ptr"
              THEN Fact(converted_type(f), FALSE, retype_use(Value(f), converted_type(f)), BothEffects(p))
              ELSE Arithmetic(BothEffects(p))
RetainCast(p) ==
    LET ty == resolve(TypeKid(p, 1).ty)
    IN Fact(ty, FALSE, retype_use(TypeKid(p, 1).use, ty), query_use_effects(Kid(p, 2)))
\* [fact, fresh]: kids are condition, nonzero, zero; or condition, zero with the condition reused.
RetainConditional(p) ==
    LET then == IF At(p).k = "omit" THEN Kid(p, 1) ELSE Kid(p, 2)
        else == IF At(p).k = "omit" THEN Kid(p, 2) ELSE Kid(p, 3)
        ty == ConditionalType(converted_type(then), converted_type(else))
        left == IF At(p).k = "omit" THEN Value(then) ELSE before_composite_conversion(then)
        made == composite_type_use(<<left, before_composite_conversion(else)>>, ty, p)
        effects == combine(query_use_effects(Kid(p, 1)), combine(query_use_effects(then), query_use_effects(else)))
    IN IF ty.t = "ptr" THEN [fact |-> Fact(ty, FALSE, made.use, effects), fresh |-> made.fresh]
       ELSE [fact |-> Arithmetic(effects), fresh |-> <<>>]
\* Queries, sizes, alignments and comparisons of types.
RetainQuery(p) == Arithmetic(IF At(p).k = "query" THEN query_use_effects(Kid(p, 1)) ELSE "Absent")
RetainSelection(p) ==
    [Fact(Selected(p).ty, Selected(p).lvalue, retype_use(Selected(p).use, Selected(p).ty), Selected(p).effects)
        EXCEPT !.volatile = Selected(p).volatile]

retain_expression(p) ==
    LET k == At(p).k
    IN IF k \in {"cond", "omit"} THEN RetainConditional(p)
       ELSE [fact |-> CASE k = "lit" -> Arithmetic("Absent")
                        [] k = "name" -> RetainName(At(p).n)
                        [] k \in {"addr", "deref", "inc", "call"} -> RetainUnary(p)
                        [] k \in {"index", "assign", "comma", "add"} -> RetainBinary(p)
                        [] k = "cast" -> RetainCast(p)
                        [] k \in {"sizeofv", "sizeoft", "alignof", "compat", "query"} -> RetainQuery(p)
                        [] k \in {"choose", "generic"} -> RetainSelection(p),
             fresh |-> <<>>]

\* Only Clang may evaluate the operand of __builtin_constant_p, when it is numeric and has no effects.
retained_query_evaluation(p) ==
    IF ~checking.clang \/ converted_type(Kid(p, 1)).t # "int" \/ query_use_effects(Kid(p, 1)) = "Present"
    THEN "Unevaluated" ELSE "ClangFallback"

------------------------------------------------------------------------------
(* Corrections of the arenas.                                                  *)
LiveEvaluations == {"Required", "MayBeOmitted"}
Suppressed(entry) == IF entry.evaluation \in LiveEvaluations THEN [entry EXCEPT !.evaluation = "Unevaluated"] ELSE entry
SuppressAt(arena, hits) == [i \in DOMAIN arena |-> IF i \in hits THEN Suppressed(arena[i]) ELSE arena[i]]
Since(arena, start) == {i \in DOMAIN arena : i > start}
Here == [bounds |-> Len(bounds), operands |-> Len(operands)]
StartsAt(p) == IF p \in DOMAIN starts THEN starts[p] ELSE Here

unevaluated_selection_ranges(p) ==
    IF At(p).k \in {"choose", "generic"} THEN {Append(p, i) : i \in (DOMAIN At(p).kids) \ {At(p).sel}} ELSE {}
InRanges(p, entry) == \E r \in unevaluated_selection_ranges(p) : Below(r, entry.at)
IsElementPath(path) == \A i \in DOMAIN path : path[i] = "Element"

\* Bounds that decide the size of a type, through derived ones.
RECURSIVE Inputs(_, _)
Inputs(arena, ids) ==
    LET more == ids \cup UNION {{j \in arena[i].inputs : j > 0} : i \in ids}
    IN IF more = ids THEN ids ELSE Inputs(arena, more)
Required(p) ==
    Inputs(bounds, {e.id : e \in {d \in TypeKid(p, 1).use.entries : ~d.function /\ IsElementPath(d.path)}})

\* sizeof(type): what does not decide the size may be omitted.
SizeofBoundsDirect(p) ==
    [i \in DOMAIN bounds |->
       IF i > StartsAt(p).bounds /\ bounds[i].evaluation \in LiveEvaluations
       THEN [bounds[i] EXCEPT !.evaluation = IF i \in Required(p) THEN "Required" ELSE "MayBeOmitted"]
       ELSE bounds[i]]
SizeofBounds(p) ==
    LET required == Required(p)
        ranges == {Append(bounds[i].at, 1) : i \in {j \in required : bounds[j].value = "Expression"}}
        kept(i) == \/ i \in required
                   \/ bounds[i].evaluation = "Required" /\ \E r \in ranges : Below(r, bounds[i].at)
    IN [i \in DOMAIN bounds |->
          IF i > StartsAt(p).bounds /\ bounds[i].evaluation \in LiveEvaluations
          THEN [bounds[i] EXCEPT !.evaluation = IF kept(i) THEN "Required" ELSE "MayBeOmitted"]
          ELSE bounds[i]]


finish_bound_context(p) ==
    LET k == At(p).k
        start == StartsAt(p).bounds
        whole == SuppressAt(bounds, Since(bounds, start))
    IN CASE k = "sizeofv" -> IF is_variable_length_array(Kid(p, 1).ty) THEN bounds ELSE whole
         [] k = "sizeoft" -> SizeofBounds(p)
         [] k \in {"alignof", "compat"} -> whole
         [] k = "query" -> IF retained_query_evaluation(p) = "Unevaluated" THEN whole ELSE bounds
         [] OTHER -> SuppressAt(bounds, {i \in Since(bounds, start) : InRanges(p, bounds[i])})

finish_type_operand_context(p) ==
    LET k == At(p).k
        start == StartsAt(p).operands
        whole == SuppressAt(operands, Since(operands, start))
        variable == \E e \in TypeKid(p, 1).use.entries :
                       ~e.function /\ IsElementPath(e.path) /\ bounds[e.id].value # "Constant"
    IN CASE k = "sizeofv" -> IF is_variable_length_array(Kid(p, 1).ty) THEN operands ELSE whole
         [] k = "sizeoft" ->
              [i \in DOMAIN operands |->
                 IF ~variable /\ i > start /\ operands[i].evaluation = "Required"
                 THEN [operands[i] EXCEPT !.evaluation = "MayBeOmitted"] ELSE operands[i]]
         [] k \in {"alignof", "compat"} -> whole
         [] k = "query" -> IF retained_query_evaluation(p) = "Unevaluated" THEN whole ELSE operands
         [] OTHER -> SuppressAt(operands, {i \in Since(operands, start) : InRanges(p, operands[i])})

------------------------------------------------------------------------------
(* The checker.                                                                *)
Task(t, p) == [t |-> t, p |-> p, since |-> [bounds |-> 0, operands |-> 0]]
Since0(t, p, here) == [t |-> t, p |-> p, since |-> here]
Kids(t, p, order) == [i \in DOMAIN order |-> Task(t, Append(p, order[i]))]
NextTask == Head(todo)
DoTasks(tasks) == todo' = tasks \o Tail(todo)
Restored(p, here) == IF p \in DOMAIN starts THEN starts ELSE WithEntry(starts, p, here)
UnderPrototype(p) == \E i \in 1..Len(p) - 1 : At(SubSeq(p, 1, i)).k = "fn"

\* The order in which operands are typed: what a selection leaves out comes first.
Operands(p) ==
    LET node == At(p)
        n == Len(node.kids)
        others == SelectSeq([i \in 1..n |-> i], LAMBDA i : i # node.sel)
    IN CASE node.k = "cast" -> <<Task("expr", Append(p, 2)), Task("type", Append(p, 1))>>
         [] node.k = "sizeoft" -> Kids("type", p, <<1>>)
         [] node.k = "alignof" -> <<Task("align", p)>>
         [] node.k = "compat" -> Kids("type", p, <<1, 2>>)
         [] node.k \in {"choose", "generic"} -> Kids("expr", p, Append(others, node.sel))
         [] OTHER -> Kids("expr", p, [i \in 1..n |-> i])

begin_expression ==
    /\ todo # <<>> /\ NextTask.t = "expr"
    /\ IF NextTask.p \in DOMAIN facts
       THEN DoTasks(<<>>) /\ UNCHANGED starts
       ELSE /\ starts' = Restored(NextTask.p, Here)
            /\ DoTasks(Append(Operands(NextTask.p), Task("finish", NextTask.p)))
    /\ UNCHANGED <<checking, facts, typeNames, bounds, operands>>

finish_expression ==
    /\ todo # <<>> /\ NextTask.t = "finish"
    /\ LET made == retain_expression(NextTask.p)
       IN /\ facts' = WithEntry(facts, NextTask.p, made.fact)
          /\ bounds' = finish_bound_context(NextTask.p) \o made.fresh
    /\ operands' = finish_type_operand_context(NextTask.p)
    /\ DoTasks(<<>>)
    /\ UNCHANGED <<checking, typeNames, starts>>

\* Type names: the specifiers, then the declarator from the inside out.
TypeOperands(p) ==
    CASE At(p).k \in {"ptrto", "atomic", "fn", "typeofty"} -> Kids("type", p, <<1>>)
      [] At(p).k = "arr" -> <<Task("type", Append(p, 2)), Task("expr", Append(p, 1))>>
      [] At(p).k = "typeof" -> Kids("expr", p, <<1>>)
      [] OTHER -> <<>>
type_name ==
    /\ todo # <<>> /\ NextTask.t = "type"
    /\ IF NextTask.p \in DOMAIN typeNames
       THEN DoTasks(<<>>) /\ UNCHANGED starts
       ELSE /\ DoTasks(Append(TypeOperands(NextTask.p), Task("derive", NextTask.p)))
            /\ starts' = IF At(NextTask.p).k \in {"typeof", "typeofty"} THEN WithEntry(starts, NextTask.p, Here) ELSE starts
    /\ UNCHANGED <<checking, facts, typeNames, bounds, operands>>

RECURSIVE is_integer_constant_expression(_)
is_integer_constant_expression(p) ==
    LET node == At(p)
        every(kids) == \A i \in kids : is_integer_constant_expression(Append(p, i))
    IN CASE node.k \in {"lit", "alignof", "compat"} -> TRUE
         [] node.k \in {"add", "cond", "omit"} -> every(DOMAIN node.kids)
         [] node.k = "cast" -> resolve(TypeKid(p, 1).ty).t = "int" /\ every({2})
         [] node.k = "sizeoft" -> ~is_variable_length_array(TypeKid(p, 1).ty)
         [] node.k = "sizeofv" -> ~is_variable_length_array(Kid(p, 1).ty)
         [] node.k \in {"choose", "generic"} -> every({node.sel})
         [] OTHER -> FALSE

DerivedShape(p) ==
    LET node == At(p)
    IN CASE node.k = "int" -> Number
         [] node.k = "tname" -> Shape("alias", node.n, <<>>)
         [] node.k = "ptrto" -> PointerTo(TypeKid(p, 1).ty)
         [] node.k = "atomic" -> Shape("atomic", "", <<TypeKid(p, 1).ty>>)
         [] node.k = "fn" -> Shape("fun", "", <<Number, TypeKid(p, 1).ty>>)
         [] node.k = "typeof" -> Kid(p, 1).ty
         [] node.k = "typeofty" -> TypeKid(p, 1).ty
         [] node.k = "arr" ->
              Shape(IF is_integer_constant_expression(Append(p, 1)) THEN "arr" ELSE "vla", "", <<TypeKid(p, 2).ty>>)

array_bound(p) ==
    [at |-> p, evaluation |-> IF UnderPrototype(p) THEN "Prototype" ELSE "Required", value |-> "Expression", inputs |-> {}]

\* typeof retains its operand; an operand that is not evaluated takes what it created with it.
retain_type_operand(p, variable) ==
    Append(IF variable THEN operands ELSE SuppressAt(operands, Since(operands, starts[p].operands)),
           [at |-> p, evaluation |-> CASE ~variable -> "Unevaluated"
                                       [] variable /\ UnderPrototype(p) -> "Prototype"
                                       [] OTHER -> "Required"])
base_type_use(p) ==
    LET k == At(p).k
        ty == DerivedShape(p)
    IN CASE k = "int" -> plain_type_use(ty)
         [] k = "tname" -> type_use(ty, BoundsDeclared[At(p).n].entries)
         [] k = "atomic" -> wrap_type_use(TypeKid(p, 1).use, ty, "AtomicValue", {})
         [] k = "typeof" -> retype_use(Kid(p, 1).use, ty)
         [] k = "typeofty" -> retype_use(TypeKid(p, 1).use, ty)
function_type_use(p) ==
    type_use(DerivedShape(p), {FunctionUse(<<>>, 0)} \cup Under("Parameter", TypeKid(p, 1).use.entries))

Specifier ==
    /\ todo # <<>> /\ NextTask.t = "derive" /\ At(NextTask.p).k \in {"int", "tname", "atomic", "typeof", "typeofty"}
    /\ LET p == NextTask.p
           k == At(p).k
           variable == is_variably_modified(DerivedShape(p))
       IN /\ typeNames' = WithEntry(typeNames, p, [ty |-> DerivedShape(p), use |-> base_type_use(p)])
          /\ operands' = IF k \in {"typeof", "typeofty"} THEN retain_type_operand(p, variable) ELSE operands
          /\ bounds' = IF k = "typeof" /\ ~variable
                       THEN SuppressAt(bounds, Since(bounds, starts[Append(p, 1)].bounds)) ELSE bounds
    /\ DoTasks(<<>>)
    /\ UNCHANGED <<checking, facts, starts>>

Declarator ==
    /\ todo # <<>> /\ NextTask.t = "derive" /\ At(NextTask.p).k \in {"ptrto", "arr", "fn"}
    /\ LET p == NextTask.p
           k == At(p).k
           ty == DerivedShape(p)
           runtime == ty.t = "vla"
           use == CASE k = "ptrto" -> wrap_type_use(TypeKid(p, 1).use, ty, "Pointer", {})
                    [] k = "arr" -> wrap_type_use(TypeKid(p, 2).use, ty, "Element",
                                                  IF runtime THEN {Extent(<<>>, Len(bounds) + 1)} ELSE {})
                    [] k = "fn" -> function_type_use(p)
       IN /\ typeNames' = WithEntry(typeNames, p, [ty |-> ty, use |-> use])
          /\ bounds' = IF runtime THEN Append(bounds, array_bound(p)) ELSE bounds
    /\ DoTasks(<<>>)
    /\ UNCHANGED <<checking, facts, operands, starts>>

\* Constant expressions are evaluated first, then typed in the context where evaluation began.
EvaluatedParts(p) ==
    LET node == At(p)
        others == SelectSeq([i \in 1..Len(node.kids) |-> i], LAMBDA i : i # node.sel)
    IN CASE node.k = "add" -> Kids("eval", p, <<1, 2>>)
         [] node.k = "cast" -> <<Task("type", Append(p, 1)), Task("eval", Append(p, 2))>>
         [] node.k = "sizeoft" -> Kids("type", p, <<1>>)
         [] node.k = "sizeofv" -> Kids("expr", p, <<1>>)
         [] node.k = "alignof" -> <<Task("align", p)>>
         [] node.k = "compat" -> Kids("type", p, <<1, 2>>)
         [] node.k \in {"choose", "generic"} -> Kids("expr", p, Append(others, node.sel)) \o Kids("eval", p, <<node.sel>>)
         [] node.k = "cond" -> Kids("expr", p, <<2, 3>>) \o Kids("eval", p, <<1, 2>>)
         [] OTHER -> <<>>
eval ==
    /\ todo # <<>> /\ NextTask.t = "eval"
    /\ DoTasks(Append(EvaluatedParts(NextTask.p), Since0("prepare", NextTask.p, Here)))
    /\ UNCHANGED <<checking, facts, typeNames, bounds, operands, starts>>
PrepareAfresh ==
    /\ todo # <<>> /\ NextTask.t = "prepare"
    /\ DoTasks(<<Task("expr", NextTask.p)>>)
    /\ UNCHANGED <<checking, facts, typeNames, bounds, operands, starts>>
prepare_evaluated_expression ==
    /\ todo # <<>> /\ NextTask.t = "prepare"
    /\ starts' = IF NextTask.p \in DOMAIN facts THEN starts ELSE Restored(NextTask.p, NextTask.since)
    /\ DoTasks(<<Task("expr", NextTask.p)>>)
    /\ UNCHANGED <<checking, facts, typeNames, bounds, operands>>


alignment_operand ==
    /\ todo # <<>> /\ NextTask.t = "align"
    /\ DoTasks(<<Task(IF At(NextTask.p).k = "alignof" THEN "type" ELSE "eval", Append(NextTask.p, 1)),
            Since0("aligned", NextTask.p, Here)>>)
    /\ UNCHANGED <<checking, facts, typeNames, bounds, operands, starts>>
finish_alignment_operand ==
    /\ todo # <<>> /\ NextTask.t = "aligned"
    /\ bounds' = SuppressAt(bounds, Since(bounds, NextTask.since.bounds))
    /\ operands' = SuppressAt(operands, Since(operands, NextTask.since.operands))
    /\ DoTasks(<<>>)
    /\ UNCHANGED <<checking, facts, typeNames, starts>>

RootTask(tree) ==
    CASE tree.k = "alignas" -> Task("align", <<>>)
      [] tree.k = "const" -> Task("eval", <<1>>)
      [] OTHER -> Task("expr", <<1>>)
BoundsInit ==
    /\ \E tree \in Programs, clang \in BOOLEAN :
          /\ checking = [tree |-> tree, clang |-> clang]
          /\ todo = <<RootTask(tree)>>
    /\ facts = << >> /\ typeNames = << >> /\ starts = << >> /\ operands = <<>>
    /\ bounds = [i \in 1..EarlierBounds |-> [at |-> <<0>>, evaluation |-> "Required", value |-> "Expression", inputs |-> {}]]
BoundsDone == todo = <<>> /\ UNCHANGED boundsVars
BoundsNext ==
    \/ begin_expression \/ finish_expression
    \/ type_name \/ Specifier \/ Declarator
    \/ eval \/ prepare_evaluated_expression
    \/ alignment_operand \/ finish_alignment_operand
    \/ BoundsDone
BoundsSpec == BoundsInit /\ [][BoundsNext]_boundsVars

------------------------------------------------------------------------------
(* Properties.                                                                 *)
RECURSIVE Nodes(_)
Nodes(p) == {p} \cup UNION {Nodes(Append(p, i)) : i \in DOMAIN At(p).kids}
Above(p) == {SubSeq(p, 1, i) : i \in 0..Len(p) - 1}
StepFrom(q, p) == p[Len(q) + 1]

\* What C leaves unevaluated, read off the tree from the top.
Discards(q, p) ==
    CASE At(q).k = "sizeofv" -> ~is_variable_length_array(Kid(q, 1).ty)
      [] At(q).k \in {"alignof", "compat", "alignas"} -> TRUE
      [] At(q).k \in {"choose", "generic"} -> StepFrom(q, p) # At(q).sel
      [] At(q).k = "query" -> retained_query_evaluation(q) = "Unevaluated"
      [] At(q).k = "typeof" -> ~is_variably_modified(Kid(q, 1).ty)
      [] OTHER -> FALSE
DiscardedAt(p) == \E q \in Above(p) : Discards(q, p)
RECURSIVE Dimensions(_)
Dimensions(p) == IF At(p).k = "arr" THEN {p} \cup Dimensions(Append(p, 2)) ELSE {}
Sized(p) == {q \in Above(p) : At(q).k = "sizeoft"}
Needed(q, p) == \E d \in Dimensions(Append(q, 1)) : p = d \/ Below(Append(d, 1), p)
ThroughTypeof(q, p) == \E r \in Above(p) : Below(q, r) /\ At(r).k \in {"typeof", "typeofty"}
BoundMeaning(p) ==
    CASE UnderPrototype(p) -> {"Prototype"}
      [] ~UnderPrototype(p) /\ DiscardedAt(p) -> {"Unevaluated"}
      [] OTHER ->
           IF \A q \in Sized(p) : Needed(q, p) THEN {"Required"}
           ELSE IF \E q \in Sized(p) : ~Needed(q, p) /\ ~ThroughTypeof(q, p) THEN {"MayBeOmitted"} ELSE LiveEvaluations
OperandMeaning(p) ==
    LET discarded == DiscardedAt(p) \/ \E q \in Above(p) : At(q).k = "typeofty" /\ ~is_variably_modified(typeNames[q].ty)
    IN CASE ~is_variably_modified(typeNames[p].ty) -> {"Unevaluated"}
         [] UnderPrototype(p) -> {"Prototype"}
         [] discarded -> {"Unevaluated"}
         [] OTHER -> IF \A q \in Sized(p) : is_variable_length_array(TypeKid(q, 1).ty) THEN {"Required"} ELSE {"MayBeOmitted"}

(* Once an expression is checked, every run-time array bound and every typeof  *)
(* operand written in it is retained exactly once, and it is to be evaluated   *)
(* exactly when C evaluates it where it stands: the corrections the enclosing  *)
(* expressions made to suffixes of the arenas neither missed an entry created  *)
(* by an earlier constant evaluation nor touched one of a neighbour.           *)
EvaluationExact ==
    todo = <<>> =>
        /\ \A p \in Nodes(<<>>) :
              /\ At(p).k = "arr" /\ typeNames[p].ty.t = "vla" =>
                    LET own == {i \in DOMAIN bounds : bounds[i].at = p}
                    IN \E i \in own : own = {i} /\ bounds[i].evaluation \in BoundMeaning(p)
              /\ At(p).k \in {"typeof", "typeofty"} =>
                    LET own == {i \in DOMAIN operands : operands[i].at = p}
                    IN \E i \in own : own = {i} /\ operands[i].evaluation \in OperandMeaning(p)
        /\ \A i \in 1..EarlierBounds : bounds[i].evaluation = "Required"

RECURSIVE VariablePaths(_)
VariablePaths(ty) ==
    LET r == resolve(ty)
        beneath(step) == {<<step>> \o path : path \in VariablePaths(r.of[1])}
    IN CASE r.t = "ptr" -> beneath("Pointer")
         [] r.t = "atomic" -> beneath("AtomicValue")
         [] r.t = "fun" -> beneath("Return")
         [] r.t = "arr" -> beneath("Element")
         [] r.t = "vla" -> beneath("Element") \cup {<<>>}
         [] OTHER -> {}
UseExact(ty, use) ==
    /\ \A e \in use.entries : EntryFits(use.shape, e) /\ (e.function \/ e.id \in DOMAIN bounds)
    /\ \A path \in VariablePaths(ty) :
          \E e \in use.entries : e.path = path /\ ~e.function /\ \A d \in use.entries : d.path = path /\ ~d.function => d = e

(* The type of every checked expression and type name carries one bound for    *)
(* each of its run-time dimensions, whatever casts, decays, dereferences,      *)
(* assignments, conditionals and typedefs the bound came through, and no entry *)
(* lies on a path its type does not have.                                      *)
ExtentsExact ==
    /\ \A p \in DOMAIN facts : UseExact(facts[p].ty, facts[p].use)
    /\ \A p \in DOMAIN typeNames : UseExact(typeNames[p].ty, typeNames[p].use)
=============================================================================
