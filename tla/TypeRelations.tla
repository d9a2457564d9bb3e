---------------------------- MODULE TypeRelations ----------------------------
(* Identity, compatibility and composition of types (toucan_semantic's         *)
(* same_type, compatible and composite_type), as recursive operators over      *)
(* type trees.  Typedefs are resolved already (TypeTable models how); what a   *)
(* typedef leaves behind, a qualified array, is a tree with `const` on the     *)
(* array node.  Env is the profile: [gnu, windows].                            *)
EXTENDS Integers, Sequences, FiniteSets

Leaf(kind, const) == [kind |-> kind, const |-> const]
PointerTo(ty, const) == [kind |-> "Pointer", const |-> const, of |-> ty]
AtomicOf(ty) == [kind |-> "Atomic", const |-> FALSE, of |-> ty]
NoLength == -1
ArrayOf(ty, length, const) == [kind |-> "Array", const |-> const, of |-> ty, length |-> length]
VariableArrayOf(ty, identity) == [kind |-> "VariableArray", const |-> FALSE, of |-> ty, identity |-> identity]
FunctionOf(ret, parameters, prototype, variadic, noreturn, noescape, convention) ==
    [kind |-> "Function", const |-> FALSE, of |-> ret, parameters |-> parameters, prototype |-> prototype,
     variadic |-> variadic, noreturn |-> noreturn, noescape |-> noescape, convention |-> convention]

IsArray(ty) == ty.kind \in {"Array", "VariableArray"}
IsFunction(ty) == ty.kind = "Function"

\* The integer type of a complete enumeration (enum_integer_kind); an incomplete one has none.
EnumInteger == [kind \in {"Enum", "SmallEnum"} |-> IF kind = "Enum" THEN "UInt" ELSE "UChar"]
Enumerations == {"Enum", "SmallEnum", "ForwardEnum"}
Integers_ == {"Int", "UInt", "UChar", "Char"}
\* Types the default argument promotions change.
Promoted == {"Char", "UChar", "Float", "SmallEnum", "Bool"}
\* The member types of the one transparent union.
TransparentMembers == {Leaf("Int", FALSE), PointerTo(Leaf("Char", FALSE), FALSE)}
IsTransparent(ty) == ty.kind = "TransparentUnion"

unqualified(ty) == [ty EXCEPT !.const = FALSE]

\* CallingConvention::for_target: the platform's own convention is the C convention.
for_target(env, convention) ==
    IF convention = (IF env.windows THEN "Win64" ELSE "SysV64") THEN "C" ELSE convention

RECURSIVE identity_qualifiers(_)
\* A qualifier anywhere in a chain of arrays qualifies the element.
identity_qualifiers(ty) == ty.const \/ (IsArray(ty) /\ identity_qualifiers(ty.of))

------------------------------------------------------------------------------
RECURSIVE same_type_at(_, _, _, _, _)
\* `element`: below an array, where the qualifiers were compared at the outermost array.
same_type_at(env, exact, element, left, right) ==
    /\ element \/ identity_qualifiers(left) = identity_qualifiers(right)
    /\ left.kind = right.kind
    /\ CASE left.kind \in {"Pointer", "Atomic"} -> same_type_at(env, exact, FALSE, left.of, right.of)
         [] left.kind = "Array" -> left.length = right.length /\ same_type_at(env, exact, TRUE, left.of, right.of)
         [] left.kind = "VariableArray" ->
              (exact => left.identity = right.identity) /\ same_type_at(env, exact, TRUE, left.of, right.of)
         [] left.kind = "Function" ->
              /\ <<left.noreturn, left.prototype, left.noescape, left.variadic, Len(left.parameters)>>
                   = <<right.noreturn, right.prototype, right.noescape, right.variadic, Len(right.parameters)>>
              /\ for_target(env, left.convention) = for_target(env, right.convention)
              /\ IF env.gnu THEN same_type_at(env, exact, FALSE, unqualified(left.of), unqualified(right.of))
                 ELSE same_type_at(env, exact, FALSE, left.of, right.of)
              /\ \A i \in DOMAIN left.parameters :
                   same_type_at(env, exact, FALSE, unqualified(left.parameters[i]), unqualified(right.parameters[i]))
         [] OTHER -> TRUE
same_type(env, left, right) == same_type_at(env, FALSE, FALSE, left, right)
same_deduced_type(env, left, right) == same_type_at(env, TRUE, FALSE, left, right)

\* Two lengths of an array; the second form forgets to compare them.
LengthsMeetAlways(a, b) == TRUE
LengthsMeet(a, b) == a = b \/ a = NoLength \/ b = NoLength

\* A parameter of a prototype next to a function without one must survive promotion.
PromotesTo(env, ty) ==
    (IF env.gnu /\ ty.kind = "Atomic" THEN ty.of ELSE ty).kind \notin Promoted

RECURSIVE compatible_at(_, _, _, _)
compatible_parameter_at(env, left, right) ==
    \/ compatible_at(env, "none", left, right)
    \/ /\ IsTransparent(left) # IsTransparent(right)
       /\ LET other == IF IsTransparent(left) THEN right ELSE left
          IN \E member \in TransparentMembers : compatible_at(env, "none", unqualified(member), other)

compatible_return_type(env, left, right) ==
    IF env.gnu THEN compatible_at(env, "none", unqualified(left), unqualified(right))
    ELSE compatible_at(env, "none", left, right)

compatible_function(env, left, right) ==
    /\ for_target(env, left.convention) = for_target(env, right.convention)
    /\ compatible_return_type(env, left.of, right.of)
    /\ IF left.prototype /\ right.prototype
       THEN /\ left.variadic = right.variadic
            /\ Len(left.parameters) = Len(right.parameters)
            /\ \A i \in DOMAIN left.parameters :
                 compatible_parameter_at(env, unqualified(left.parameters[i]), unqualified(right.parameters[i]))
       ELSE LET prototype == IF left.prototype THEN left ELSE right
            IN ~ prototype.variadic /\ \A i \in DOMAIN prototype.parameters : PromotesTo(env, prototype.parameters[i])

\* An enumeration and the integer type it is represented by; qualified ones are distinct.
compatible_enum(env, enum, integer, qualified) ==
    /\ ~ qualified
    /\ IF enum = "ForwardEnum" THEN env.windows /\ integer = "Int" ELSE EnumInteger[enum] = integer

\* `chain`: the qualification of the array chain this is an element of, "none" outside arrays.
compatible_at(env, chain, left, right) ==
    /\ chain = "none" => identity_qualifiers(left) = identity_qualifiers(right)
    /\ LET qualified == IF chain = "none" THEN identity_qualifiers(left) ELSE chain = "const"
       IN CASE left.kind \in Enumerations /\ right.kind \in Integers_ -> compatible_enum(env, left.kind, right.kind, qualified)
            [] left.kind \in Integers_ /\ right.kind \in Enumerations -> compatible_enum(env, right.kind, left.kind, qualified)
            [] left.kind = "Pointer" /\ right.kind = "Pointer" -> compatible_at(env, "none", left.of, right.of)
            [] left.kind = "Atomic" /\ right.kind = "Atomic" ->
                 /\ env.gnu => ~ \/ left.of.kind \in Enumerations /\ right.of.kind \in Integers_
                                 \/ left.of.kind \in Integers_ /\ right.of.kind \in Enumerations
                 /\ compatible_at(env, "none", left.of, right.of)
            [] IsArray(left) /\ IsArray(right) ->
                 /\ (left.kind = "Array" /\ right.kind = "Array") => LengthsMeet(left.length, right.length)
                 /\ compatible_at(env, IF qualified THEN "const" ELSE "plain", left.of, right.of)
            [] IsFunction(left) /\ IsFunction(right) -> compatible_function(env, left, right)
            [] OTHER -> left.kind = right.kind
compatible(env, left, right) == compatible_at(env, "none", left, right)

------------------------------------------------------------------------------
(* The composite of two compatible types.  `conditional` is the composite of   *)
(* the operands of ?:, which promises only what both promise.                  *)
RECURSIVE composite_type(_, _, _)
composite_array(conditional, left, right) ==
    LET element == composite_type(conditional, left.of, right.of)
        lengths == {t.length : t \in {u \in {left, right} : u.kind = "Array"}} \ {NoLength}
        variable == IF left.kind = "VariableArray" THEN left ELSE right
    IN IF lengths # {}
       THEN ArrayOf(element, IF left.kind = "Array" /\ left.length # NoLength THEN left.length ELSE right.length, left.const)
       ELSE IF variable.kind = "Array" THEN ArrayOf(element, NoLength, left.const)
       ELSE [VariableArrayOf(element, variable.identity) EXCEPT !.const = left.const]

composite_parameter(conditional, left, right) ==
    CASE IsTransparent(left) /\ ~ IsTransparent(right) -> right
      [] IsTransparent(right) /\ ~ IsTransparent(left) -> left
      [] OTHER -> composite_type(conditional, left, right)

composite_function(conditional, left, right) ==
    LET chosen == IF left.prototype THEN left ELSE right
        both == left.prototype /\ right.prototype
    IN [chosen EXCEPT
          !.noreturn = IF conditional THEN left.noreturn /\ right.noreturn ELSE left.noreturn \/ right.noreturn,
          !.convention = IF @ # "C" THEN @ ELSE IF left.convention # "C" THEN left.convention ELSE right.convention,
          !.of = composite_type(conditional, left.of, right.of),
          !.noescape = IF both THEN left.noescape \cap right.noescape ELSE @,
          !.parameters = IF both THEN [i \in DOMAIN @ |-> composite_parameter(conditional, left.parameters[i], right.parameters[i])]
                         ELSE @,
          !.const = left.const]

composite_type(conditional, left, right) ==
    IF left = right THEN left
    ELSE CASE left.kind \in {"Pointer", "Atomic"} /\ right.kind = left.kind ->
                [left EXCEPT !.of = composite_type(conditional, @, right.of)]
           [] IsArray(left) /\ IsArray(right) -> composite_array(conditional, left, right)
           [] IsFunction(left) /\ IsFunction(right) -> composite_function(conditional, left, right)
           [] OTHER -> left

\* Clang: a redeclaration without a convention takes the earlier one.
inherit_calling_convention(env, ty, previous) ==
    IF ~ env.gnu /\ IsFunction(ty) /\ IsFunction(previous) /\ ty.convention = "C"
    THEN [ty EXCEPT !.convention = previous.convention] ELSE ty

RECURSIVE complete_object(_)
complete_object(ty) ==
    CASE ty.kind \in {"Void", "Function", "ForwardEnum", "ForwardRecord"} -> FALSE
      [] ty.kind = "Array" -> ty.length # NoLength /\ complete_object(ty.of)
      [] ty.kind \in {"VariableArray", "Atomic"} -> complete_object(ty.of)
      [] OTHER -> TRUE

\* The pointed-to type of a conditional expression over two pointers; NoPointee is an error.
NoPointee == Leaf("Error", FALSE)
composite_pointer(env, left, right) ==
    LET l == unqualified(left) r == unqualified(right)
        function == IsFunction(l) \/ IsFunction(r)
        const == left.const \/ right.const
    IN IF compatible(env, l, r) THEN [composite_type(TRUE, l, r) EXCEPT !.const = const]
       ELSE IF l.kind = "Void" \/ r.kind = "Void" THEN Leaf("Void", const /\ (env.gnu \/ ~ function))
       ELSE NoPointee

\* A definition written with a transparent union is not merged with a member-typed declaration.
TransparentMergeAllowed(previous, ty, defined, definition) ==
    (defined \/ definition) /\ IsFunction(previous) /\ IsFunction(ty)
      => \A i \in DOMAIN previous.parameters \cap DOMAIN ty.parameters :
           LET l == IsTransparent(previous.parameters[i]) r == IsTransparent(ty.parameters[i])
           IN ~ (defined /\ l /\ ~ r) /\ ~ (definition /\ r /\ ~ l)

==============================================================================
