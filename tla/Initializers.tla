---------------------------- MODULE Initializers ----------------------------
(* Initializer lists (Analyzer::initializer_inner_impl and the retained trees  *)
(* of checked/initializer.rs): the cursor over subobjects with brace elision,  *)
(* designators and ranges, arrays completed by their lists and flexible array  *)
(* members.  The items of a list are read one by one; a nested list is a frame *)
(* of its own.  Indices count from 1, for elements as for fields.              *)
EXTENDS Integers, Sequences, FiniteSets, SequencesExt

CONSTANTS Objects,   \* [ty, static, gnu, items]: the object, its storage, the profile, the items its lists may hold
          MaxItems,  \* items in all lists
          MaxIndex   \* where the reference cuts arrays without a length

VARIABLES initialized, \* the object
          lists,       \* open lists, outermost first
          elements,    \* FlexibleState::elements, NoElements before the first
          placed,      \* the last item: [ty, before, designated, kind, path, steps]
          stored,      \* concrete paths from the object that hold written values
          itemsRead,
          listState    \* "reading", "done", "failed"

initVars == <<initialized, lists, elements, placed, stored, itemsRead, listState>>

Open == -1
NoElements == -1
Nowhere == <<>>
ErrorType == [k |-> "error"]
IsRecordType(ty) == ty.k \in {"struct", "union"}
IsAggregate(ty) == IsRecordType(ty) \/ ty.k \in {"array", "vector"}
character_array(ty) == ty.k = "array" /\ ty.of.k = "char"

\* Unnamed bit-fields are not initialized.
Initialized(f) == f.name # "" \/ ~ f.bits
Largest(S) == CHOOSE x \in S : \A y \in S : y <= x
Smallest(S) == IF S = {} THEN 0 ELSE CHOOSE x \in S : \A y \in S : x <= y

first_subobject(ty) ==
    CASE ty.k = "array" -> IF ty.n = 0 THEN 0 ELSE 1
      [] ty.k = "vector" -> 1
      [] IsRecordType(ty) -> Smallest({i \in DOMAIN ty.fields : Initialized(ty.fields[i])})
      [] OTHER -> 0

Step(ty, i) ==
    CASE ty.k = "array" /\ (ty.n = Open \/ i <= ty.n) -> ty.of
      [] ty.k = "vector" /\ i <= ty.n -> ty.of
      [] IsRecordType(ty) /\ i \in DOMAIN ty.fields -> ty.fields[i].ty
      [] OTHER -> ErrorType
RECURSIVE subobject(_, _)
subobject(root, path) == IF path = <<>> THEN root ELSE subobject(Step(root, Head(path)), Tail(path))

Sibling(parent, i) ==
    CASE parent.k = "vector" -> IF i < parent.n THEN i + 1 ELSE 0
      [] parent.k = "array" -> IF parent.n = Open \/ i < parent.n THEN i + 1 ELSE 0
      [] parent.k = "struct" -> Smallest({j \in DOMAIN parent.fields : j > i /\ Initialized(parent.fields[j])})
      [] OTHER -> 0
RECURSIVE NextForgetsUnions(_, _)
NextForgetsUnions(root, path) ==
    IF path = <<>> THEN Nowhere
    ELSE LET parent == subobject(root, Front(path))
             sibling == Sibling(IF parent.k = "union" THEN [parent EXCEPT !.k = "struct"] ELSE parent, Last(path))
         IN IF sibling # 0 THEN Append(Front(path), sibling) ELSE NextForgetsUnions(root, Front(path))
RECURSIVE next_subobject(_, _)
\* The next sibling, at the deepest level that has one.
next_subobject(root, path) ==
    IF path = <<>> THEN Nowhere
    ELSE LET sibling == Sibling(subobject(root, Front(path)), Last(path))
         IN IF sibling # 0 THEN Append(Front(path), sibling) ELSE next_subobject(root, Front(path))

RECURSIVE member_designator(_, _)
\* The path of a named member, through anonymous records.
member_designator(ty, name) ==
    IF ~ IsRecordType(ty) THEN <<>>
    ELSE LET nested(i) == IF ty.fields[i].name = "" /\ ~ ty.fields[i].bits
                          THEN member_designator(ty.fields[i].ty, name) ELSE <<>>
             found == Smallest({i \in DOMAIN ty.fields : ty.fields[i].name = name \/ nested(i) # <<>>})
         IN IF found = 0 THEN <<>>
            ELSE IF ty.fields[found].name = name THEN <<found>> ELSE <<found>> \o nested(found)

\* A retained step is one index or an inclusive range.
OneStep(i) == [from |-> i, to |-> i]
Steps(path) == [i \in DOMAIN path |-> OneStep(path[i])]
DesignatedFirst(root, so, designator) ==
    LET ty == subobject(root, so.path)
        member == member_designator(ty, designator.name)
    IN IF ~ so.ok \/ ty = ErrorType THEN [so EXCEPT !.ok = FALSE]
       ELSE IF designator.k = "member"
       THEN [ok |-> member # <<>>, path |-> so.path \o member, steps |-> so.steps \o Steps(member)]
       ELSE [ok |-> ty.k = "array" /\ designator.from <= designator.to
                      /\ Step(ty, designator.from) # ErrorType /\ Step(ty, designator.to) # ErrorType,
             path |-> Append(so.path, designator.from),
             steps |-> Append(so.steps, [from |-> designator.from, to |-> designator.to])]
Designated(root, so, designator) ==
    LET ty == subobject(root, so.path)
        member == member_designator(ty, designator.name)
    IN IF ~ so.ok \/ ty = ErrorType THEN [so EXCEPT !.ok = FALSE]
       ELSE IF designator.k = "member"
       THEN [ok |-> member # <<>>, path |-> so.path \o member, steps |-> so.steps \o Steps(member)]
       ELSE [ok |-> ty.k = "array" /\ designator.from <= designator.to
                      /\ Step(ty, designator.from) # ErrorType /\ Step(ty, designator.to) # ErrorType,
             path |-> Append(so.path, designator.to),
             steps |-> Append(so.steps, [from |-> designator.from, to |-> designator.to])]
RECURSIVE designated_subobject(_, _, _)
designated_subobject(root, so, designators) ==
    IF designators = <<>> THEN so
    ELSE designated_subobject(root, Designated(root, so, Head(designators)), Tail(designators))

\* How deep a path crosses its innermost flexible array member; 0 when it crosses none.
flexible_in_path(root, path) ==
    LET crossings == {i \in DOMAIN path :
                        /\ IsRecordType(subobject(root, SubSeq(path, 1, i - 1)))
                        /\ LET ty == subobject(root, SubSeq(path, 1, i)) IN ty.k = "array" /\ ty.n = Open}
    IN IF crossings = {} THEN 0 ELSE Largest(crossings)

\* The flexible member of a named object: the last one, an array without a length.
FlexibleMember ==
    LET ty == initialized.ty
    IN IF IsRecordType(ty) /\ ty.fields # <<>> /\ Last(ty.fields).ty.k = "array" /\ Last(ty.fields).ty.n = Open
       THEN Len(ty.fields) ELSE 0

TopList == lists[Len(lists)]
OwnsFlexible == Len(lists) = 1 /\ FlexibleMember # 0
FlexibleRefused(root, path, item, whole) ==
    LET depth == flexible_in_path(root, path)
        permitted == depth = 1 /\ OwnsFlexible /\ path[1] = FlexibleMember /\ initialized.static
        empty == depth = Len(path) /\ item.kind = "empty"
        designated == item.designators # <<>>
    IN /\ depth # 0
       /\ \/ ~ permitted /\ (~ empty \/ (~ initialized.static /\ initialized.gnu))
          \/ ~ initialized.gnu /\ designated /\ depth < Len(path)
          \/ ~ initialized.gnu /\ designated /\ depth = Len(path) /\ ~ whole

\* A list, a string for characters or a compatible record value fills the whole target.
initializes_whole_object(ty, item) ==
    \/ item.kind = "string" /\ character_array(ty)
    \/ item.kind = "record" /\ IsRecordType(ty) /\ ty = item.ty
Whole(target, item) == item.kind \in {"list", "empty", "braced"} \/ ~ IsAggregate(target) \/ initializes_whole_object(target, item)

RECURSIVE Descend(_, _, _)
\* Into the first subobject until the item fills its target.
Descend(root, so, item) ==
    LET target == subobject(root, so.path)
        whole == Whole(target, item)
        first == first_subobject(target)
    IN IF ~ so.ok \/ target = ErrorType \/ FlexibleRefused(root, so.path, item, whole) THEN [so EXCEPT !.ok = FALSE]
       ELSE IF whole THEN so
       ELSE IF first = 0 THEN [so EXCEPT !.ok = FALSE]
       ELSE Descend(root, [ok |-> TRUE, path |-> Append(so.path, first), steps |-> Append(so.steps, OneStep(first))], item)

Place(item) ==
    LET root == TopList.ty
    IN IF item.designators # <<>>
       THEN Descend(root, designated_subobject(root, [ok |-> TRUE, path |-> <<>>, steps |-> <<>>], item.designators), item)
       ELSE Descend(root, [ok |-> TopList.cursor # Nowhere, path |-> TopList.cursor, steps |-> Steps(TopList.cursor)], item)

\* check_initializer for an item that is no list: does it fit, and the length it gives an open array.
Fits(target, item) ==
    CASE item.kind = "empty" -> TRUE
      [] item.kind \in {"string", "braced"} -> character_array(target) /\ (target.n = Open \/ target.n >= item.length - 1)
      [] item.kind = "record" -> target = item.ty
      [] OTHER -> target.k \in {"scalar", "char"}
LengthGiven(item) == IF item.kind = "empty" THEN 0 ELSE item.length

------------------------------------------------------------------------------
(* The paths an item stores to, from the object: every step of a range.        *)

RECURSIVE Concrete(_)
Concrete(steps) ==
    IF steps = <<>> THEN {<<>>}
    ELSE {<<i>> \o rest : i \in Head(steps).from..Head(steps).to, rest \in Concrete(Tail(steps))}

\* Two paths that part at a union: storing one destroys the other.
ConflictInUnion(a, b) ==
    \E i \in DOMAIN a \cap DOMAIN b :
        /\ a[i] # b[i] /\ \A j \in 1..(i - 1) : a[j] = b[j]
        /\ subobject(initialized.ty, SubSeq(a, 1, i - 1)).k = "union"
Overwrites(a, b) == IsPrefix(a, b) \/ ConflictInUnion(a, b)
Filled(target, path, item) ==
    CASE item.kind \in {"list", "empty"} -> {}
      [] item.kind \in {"string", "braced"} ->
           {Append(path, i) : i \in 1..(IF target.n = Open \/ item.length <= target.n THEN item.length ELSE target.n)}
      [] OTHER -> {path}
StoredBy(steps, target, item) ==
    LET paths == Concrete(TopList.origin \o steps)
    IN {b \in stored : ~ \E a \in paths : Overwrites(a, b)} \cup UNION {Filled(target, a, item) : a \in paths}

------------------------------------------------------------------------------
(* Lists.                                                                      *)

begin_initializer(ty, origin, path) ==
    [ty |-> ty, origin |-> origin, path |-> path,
     cursor |-> IF first_subobject(ty) = 0 THEN Nowhere ELSE <<first_subobject(ty)>>,
     bound |-> 0, count |-> 0, last |-> Nowhere,
     member |-> IF ty.k = "union" THEN first_subobject(ty) ELSE 0]

CompletedArray(frame) == IF frame.ty.k = "array" /\ frame.ty.n = Open THEN [frame.ty EXCEPT !.n = frame.bound] ELSE frame.ty

\* The list that holds an item, once the item is checked: entry, bound and cursor.
Settled(frame, path) ==
    [frame EXCEPT !.count = @ + 1, !.last = path,
                  !.bound = IF path # <<>> /\ path[1] > @ THEN path[1] ELSE @,
                  !.cursor = next_subobject(frame.ty, path),
                  !.member = IF @ # 0 /\ path # <<>> THEN path[1] ELSE @]
SetElementsLast(depth, path, length) ==
    IF FlexibleMember # 0 /\ depth = 1 /\ path # <<>> /\ path[1] = FlexibleMember
    THEN IF Len(path) = 1
         THEN IF length # 0 \/ ~ initialized.gnu \/ elements = NoElements THEN length ELSE elements
         ELSE path[2]
    ELSE elements
SetElements(depth, path, length) ==
    IF FlexibleMember # 0 /\ depth = 1 /\ path # <<>> /\ path[1] = FlexibleMember
    THEN IF Len(path) = 1
         THEN IF length # 0 \/ ~ initialized.gnu \/ elements = NoElements THEN length ELSE elements
         ELSE IF elements > path[2] THEN elements ELSE path[2]
    ELSE elements

FailList ==
    /\ listState' = "failed"
    /\ UNCHANGED <<initialized, lists, elements, placed, stored, itemsRead>>

ItemRefused(item, so) ==
    \/ TopList.ty.k = "vector" /\ (item.designators # <<>> \/ item.kind \in {"list", "empty", "braced"})
    \/ ~ so.ok
    \/ item.kind # "list" /\ ~ Fits(subobject(TopList.ty, so.path), item)
Placed(item, so) ==
    [ty |-> TopList.ty, before |-> TopList.last, designated |-> item.designators # <<>>, item |-> item, path |-> so.path, steps |-> so.steps]

\* An item of an aggregate: an expression, a string, or an empty list.
AggregateItem(item) ==
    LET so == Place(item)
        target == subobject(TopList.ty, so.path)
    IN /\ listState = "reading" /\ itemsRead < MaxItems /\ IsAggregate(TopList.ty)
       /\ item.kind # "list"
       /\ item.kind = "braced" => character_array(target)
       /\ (item.kind = "string" /\ TopList.count = 0 /\ item.designators = <<>>) => ~ character_array(TopList.ty)
       /\ IF ItemRefused(item, so) THEN FailList
          ELSE /\ lists' = [lists EXCEPT ![Len(lists)] = Settled(@, so.path)]
               /\ elements' = SetElements(Len(lists), so.path, LengthGiven(item))
               /\ placed' = Placed(item, so)
               /\ stored' = StoredBy(so.steps, target, item)
               /\ itemsRead' = itemsRead + 1
               /\ UNCHANGED <<initialized, listState>>

\* An item that is a list begins an initializer of its own.
OpenList(item) ==
    LET so == Place(item)
        target == subobject(TopList.ty, so.path)
    IN /\ listState = "reading" /\ itemsRead < MaxItems /\ IsAggregate(TopList.ty)
       /\ item.kind = "list"
       /\ IF ItemRefused(item, so) THEN FailList
          ELSE /\ lists' = Append(lists, begin_initializer(target, TopList.origin \o so.steps, so.path))
               /\ placed' = Placed(item, so)
               /\ stored' = StoredBy(so.steps, target, item)
               /\ itemsRead' = itemsRead + 1
               /\ UNCHANGED <<initialized, elements, listState>>

\* A list for a scalar: one value without a designator.
ScalarItem(item) ==
    /\ listState = "reading" /\ itemsRead < MaxItems /\ ~ IsAggregate(TopList.ty)
    /\ item.kind # "list"
    /\ IF TopList.count > 0 \/ item.designators # <<>> \/ ~ Fits(TopList.ty, item) THEN FailList
       ELSE /\ lists' = [lists EXCEPT ![Len(lists)].count = 1]
            /\ stored' = StoredBy(<<>>, TopList.ty, item)
            /\ itemsRead' = itemsRead + 1
            /\ UNCHANGED <<initialized, elements, placed, listState>>

CloseList ==
    /\ listState = "reading" /\ TopList.count > 0
    /\ IF Len(lists) = 1
       THEN /\ listState' = "done" /\ initialized' = [initialized EXCEPT !.ty = CompletedArray(TopList)]
            /\ UNCHANGED <<lists, elements>>
       ELSE /\ lists' = [Front(lists) EXCEPT ![Len(lists) - 1] = Settled(@, TopList.path)]
            /\ elements' = SetElements(Len(lists) - 1, TopList.path, TopList.bound)
            /\ UNCHANGED <<initialized, listState>>
    /\ UNCHANGED <<placed, stored, itemsRead>>

NotPlaced == [ty |-> ErrorType, before |-> <<>>, designated |-> TRUE, item |-> [kind |-> "empty"], path |-> <<>>, steps |-> <<>>]
InitializersInit ==
    /\ initialized \in Objects
    /\ lists = <<begin_initializer(initialized.ty, <<>>, <<>>)>>
    /\ elements = NoElements /\ placed = NotPlaced /\ stored = {} /\ itemsRead = 0 /\ listState = "reading"
InitializersNext ==
    \/ \E item \in initialized.items : AggregateItem(item) \/ OpenList(item) \/ ScalarItem(item)
    \/ CloseList
InitializersSpec == InitializersInit /\ [][InitializersNext]_initVars

------------------------------------------------------------------------------
(* Properties.                                                                 *)

\* The scalars of a type in the order of their addresses, members of unions one by one.
RECURSIVE Leaves(_)
Leaves(ty) ==
    CASE ty.k \in {"array", "vector"} ->
           {<<i>> \o leaf : i \in 1..(IF ty.n = Open THEN MaxIndex ELSE ty.n), leaf \in Leaves(ty.of)}
      [] IsRecordType(ty) ->
           UNION {{<<i>> \o leaf : leaf \in Leaves(ty.fields[i].ty)} : i \in {j \in DOMAIN ty.fields : Initialized(ty.fields[j])}}
      [] OTHER -> {<<>>}
Diverge(a, b) == CHOOSE i \in DOMAIN a \cap DOMAIN b : a[i] # b[i] /\ \A j \in 1..(i - 1) : a[j] = b[j]
Precedes(a, b) == a # b /\ ~ IsPrefix(b, a) /\ (IsPrefix(a, b) \/ a[Diverge(a, b)] < b[Diverge(a, b)])
\* The scalar that follows everything stored at `before': behind it, in no other member of a
\* union it is in, and in the first member of every union newly entered.
FirstInUnions(ty, leaf, from) ==
    \A i \in from..Len(leaf) :
        LET parent == subobject(ty, SubSeq(leaf, 1, i - 1)) IN parent.k = "union" => leaf[i] = first_subobject(parent)
Follows(ty, before, leaf) ==
    IF before = <<>> THEN FirstInUnions(ty, leaf, 1)
    ELSE /\ ~ IsPrefix(before, leaf) /\ Precedes(before, leaf)
         /\ LET d == Diverge(before, leaf)
            IN subobject(ty, SubSeq(leaf, 1, d - 1)).k # "union" /\ FirstInUnions(ty, leaf, d + 1)
Following(ty, before) == {leaf \in Leaves(ty) : Follows(ty, before, leaf)}

\* C11 6.7.9p17-20: without a designator an item goes to the scalar that follows, in the order
\* of addresses, all that the previous item stored; a list or a value of a record type takes the
\* largest subobject that begins there and that it can fill.
ElisionExact ==
    (placed # NotPlaced /\ ~ placed.designated /\ placed.ty.k # "scalar") =>
        LET following == Following(placed.ty, placed.before)
            next == CHOOSE leaf \in following : \A other \in following : leaf = other \/ Precedes(leaf, other)
            starts == {i \in 1..Len(next) : /\ ~ IsPrefix(SubSeq(next, 1, i), placed.before)
                                            /\ Whole(subobject(placed.ty, SubSeq(next, 1, i)), placed.item)}
        IN /\ following # {}
           /\ (\A i \in DOMAIN next : next[i] < MaxIndex) => placed.path = SubSeq(next, 1, Smallest(starts))

\* The steps retained for an item, designators and elided levels together, name subobjects of
\* one type, the last of which is where the list goes on from.
RetainedPathsAgree ==
    placed # NotPlaced =>
        /\ placed.path = [i \in DOMAIN placed.steps |-> placed.steps[i].to]
        /\ \A path \in Concrete(placed.steps) : subobject(placed.ty, path) = subobject(placed.ty, placed.path)

\* The completed object has room for every value that a later item did not replace: the length
\* found for an open array, the elements allocated for a flexible member; and the values in
\* a union belong to the member the list says is selected.
ObjectHoldsItsValues ==
    /\ listState = "done" => \A path \in stored :
         /\ subobject(initialized.ty, path) # ErrorType
         /\ (FlexibleMember # 0 /\ path[1] = FlexibleMember) => path[2] <= elements
    /\ \A i \in DOMAIN lists : lists[i].ty.k = "union" =>
         \A path \in stored : \A base \in Concrete(lists[i].origin) :
            IsStrictPrefix(base, path) /\ lists[i].count > 0 /\ i = Len(lists) => path[Len(base) + 1] = lists[i].member

------------------------------------------------------------------------------
(* Constant addresses in static initializers: which expressions have static    *)
(* storage (static_initializer, static_lvalue) and what address, or which      *)
(* branch of a conditional, the analyzer folds (static_pointer).  Expressions  *)
(* are trees whose types are given; integers wrap at the width of pointers.    *)

CONSTANTS PointerValues,  \* 2^pointer_width
          Symbols,        \* [name -> [array, function, static, imported, weak, linked]]
          Expressions,    \* the trees to fold
          Placements      \* functions from symbols and anonymous objects to addresses

VARIABLES folding,    \* [e, gnu, body]: an expression, the profile, whether in a function body
          folded      \* NotFolded, or [kind, pointer, choice]

staticVars == <<folding, folded>>

NoAddress == [some |-> FALSE]
Symbol(name, nullable) == [some |-> TRUE, base |-> name, offset |-> 0, nullable |-> nullable]
Absolute(value) == [some |-> TRUE, base |-> "", offset |-> value % PointerValues, nullable |-> FALSE]
MovedAddress(address, bytes) == [address EXCEPT !.offset = (@ + bytes) % PointerValues]

\* A designator names an object or, as an array or a function, its address.
IsDesignator(e) == e.k \in {"member", "arrow", "compound", "deref", "index"}
Decays(e) == e.array
PointerTyped(e) == e.pointer

\* Integer constant expressions: eval succeeds on literals only.
IsInteger(e) == e.k = "int"

------------------------------------------------------------------------------
\* PointerConstant::truth: "unknown" for a weak symbol.
TruthOfWeak(address) == IF address.base = "" /\ address.offset = 0 THEN "false" ELSE "true"
truth(address) ==
    IF address.base = "" THEN IF address.offset # 0 THEN "true" ELSE "false"
    ELSE IF address.nullable THEN "unknown" ELSE "true"

IsNullConstant(address) == address.some /\ address.base = "" /\ address.offset = 0
Stride(e) == e.stride

RECURSIVE static_pointer(_, _, _), static_conditional_branch(_, _)
\* [k: "selected", of] or [k: "reused", address] or [k: "error"].
static_conditional_branch(gnu, e) ==
    LET address == static_pointer(gnu, FALSE, e.condition)
        then == IF e.elided THEN [k |-> "reused", of |-> address] ELSE [k |-> "selected", of |-> e.then]
        otherwise == [k |-> "selected", of |-> e.else]
        zero == IsInteger(e.else) /\ e.else.value = 0
    IN IF ~ PointerTyped(e.condition)
       THEN IF ~ IsInteger(e.condition) THEN [k |-> "error", of |-> NoAddress]
            ELSE IF e.condition.value # 0 THEN IF e.elided THEN [k |-> "reused", of |-> NoAddress] ELSE then ELSE otherwise
       ELSE IF address.some /\ truth(address) # "unknown"
       THEN IF truth(address) = "true" THEN then ELSE otherwise
       ELSE IF /\ gnu /\ address.some
               /\ zero \/ IsNullConstant(static_pointer(gnu, FALSE, e.else))
               /\ e.elided \/ static_pointer(gnu, FALSE, e.then) = address
       THEN then
       ELSE [k |-> "error", of |-> NoAddress]

static_pointer(gnu, location, e) ==
    IF ~ location /\ IsDesignator(e) /\ ~ Decays(e) THEN NoAddress
    ELSE CASE e.k = "name" ->
                IF (~ location /\ ~ Decays(e)) \/ ~ Symbols[e.name].static THEN NoAddress
                ELSE Symbol(e.name, Symbols[e.name].linked /\ Symbols[e.name].weak)
           [] e.k \in {"string", "compound"} -> Symbol(e.at, FALSE)
           [] e.k = "address" /\ ~ location -> static_pointer(gnu, TRUE, e.of)
           [] e.k = "deref" -> static_pointer(gnu, FALSE, e.of)
           [] e.k = "cast" /\ ~ location ->
                IF ~ e.pointer THEN NoAddress
                ELSE IF IsInteger(e.of) THEN Absolute(e.of.value) ELSE static_pointer(gnu, FALSE, e.of)
           [] e.k \in {"member", "arrow"} ->
                LET base == static_pointer(gnu, e.k = "member", e.of)
                IN IF base.some THEN MovedAddress(base, e.offset) ELSE NoAddress
           [] e.k \in {"plus", "minus", "index"} ->
                LET left == PointerTyped(e.left)
                    base == static_pointer(gnu, FALSE, IF left THEN e.left ELSE e.right)
                    count == IF left THEN e.right ELSE e.left
                IN IF ~ left /\ e.k = "minus" THEN NoAddress
                   ELSE IF ~ base.some \/ ~ IsInteger(count) THEN NoAddress
                   ELSE MovedAddress(base, IF e.k = "minus" THEN -(count.value * Stride(e)) ELSE count.value * Stride(e))
           [] e.k = "conditional" /\ ~ location ->
                LET branch == static_conditional_branch(gnu, e)
                IN IF branch.k = "error" THEN NoAddress
                   ELSE IF branch.k = "reused" THEN branch.of
                   ELSE IF IsInteger(branch.of) /\ branch.of.value = 0 THEN Absolute(0)
                   ELSE static_pointer(gnu, FALSE, branch.of)
           [] OTHER -> NoAddress

------------------------------------------------------------------------------
Invalid == "invalid"
RECURSIVE static_initializer(_, _, _), static_lvalue(_, _, _)
\* Array and function designators form addresses without reading their objects.
static_designator(gnu, body, e) ==
    IF Decays(e) /\ static_lvalue(gnu, body, e) THEN "address" ELSE Invalid

AddressableImported(name) == Symbols[name].static
Addressable(name) == Symbols[name].static /\ ~ Symbols[name].imported

\* "arithmetic", "address" or Invalid.
static_initializer(gnu, body, e) ==
    CASE e.k = "int" -> "arithmetic"
      [] e.k = "string" -> "address"
      [] e.k = "compound" -> IF ~ Decays(e) THEN "arithmetic" ELSE IF body THEN Invalid ELSE "address"
      [] e.k = "name" -> IF Decays(e) /\ Addressable(e.name) THEN "address" ELSE Invalid
      [] e.k \in {"member", "arrow", "deref", "index"} -> static_designator(gnu, body, e)
      [] e.k = "address" -> IF static_lvalue(gnu, body, e.of) THEN "address" ELSE Invalid
      [] e.k = "cast" ->
           LET kind == static_initializer(gnu, body, e.of)
           IN IF e.pointer THEN IF kind = Invalid \/ (kind = "arithmetic" /\ ~ IsInteger(e.of)) THEN Invalid ELSE "address"
              ELSE IF kind = "arithmetic" THEN kind ELSE Invalid
      [] e.k \in {"plus", "minus"} ->
           LET left == static_initializer(gnu, body, e.left) right == static_initializer(gnu, body, e.right)
           IN CASE left = "arithmetic" /\ right = "arithmetic" -> "arithmetic"
                [] left = "address" /\ right = "arithmetic" -> IF IsInteger(e.right) THEN "address" ELSE Invalid
                [] left = "arithmetic" /\ right = "address" /\ e.k = "plus" -> IF IsInteger(e.left) THEN "address" ELSE Invalid
                [] OTHER -> Invalid
      [] e.k = "conditional" ->
           LET kind == static_initializer(gnu, body, e.condition)
               branch == static_conditional_branch(gnu, e)
           IN IF kind = Invalid \/ branch.k = "error" THEN Invalid
              ELSE IF branch.k = "reused" THEN kind ELSE static_initializer(gnu, body, branch.of)
      [] OTHER -> Invalid

\* An lvalue whose object has static storage.
static_lvalue(gnu, body, e) ==
    CASE e.k = "name" -> Addressable(e.name)
      [] e.k = "compound" -> ~ body
      [] e.k = "string" -> TRUE
      [] e.k = "member" -> static_lvalue(gnu, body, e.of)
      [] e.k \in {"arrow", "deref"} -> static_initializer(gnu, body, e.of) = "address"
      [] e.k = "index" ->
           LET left == static_initializer(gnu, body, e.left) right == static_initializer(gnu, body, e.right)
           IN \/ left = "address" /\ right = "arithmetic" /\ IsInteger(e.right)
              \/ left = "arithmetic" /\ right = "address" /\ IsInteger(e.left)
      [] OTHER -> FALSE

------------------------------------------------------------------------------
NotFolded == [kind |-> "none", pointer |-> NoAddress]
\* The initializer of one static object is checked and its address folded.
check_static(e) ==
    /\ folded = NotFolded
    /\ folded' = [kind |-> static_initializer(folding.gnu, folding.body, folding.e),
                  pointer |-> static_pointer(folding.gnu, FALSE, folding.e)]
    /\ UNCHANGED folding
StaticInit == folding \in [e : Expressions, gnu : BOOLEAN, body : BOOLEAN] /\ folded = NotFolded
StaticNext == check_static(folding.e)
StaticSpec == StaticInit /\ [][StaticNext]_staticVars

------------------------------------------------------------------------------
\* What a program computes once the linker has placed the symbols; a weak one may be absent,
\* at address 0.  "object": the lvalue itself, used for its address.
RECURSIVE ValueOf(_, _, _)
ValueOf(at, location, e) ==
    CASE e.k = "int" -> e.value
      [] e.k = "name" -> at[e.name]
      [] e.k \in {"string", "compound"} -> at[e.at]
      [] e.k = "address" -> ValueOf(at, TRUE, e.of)
      [] e.k = "deref" -> ValueOf(at, FALSE, e.of)
      [] e.k = "cast" -> ValueOf(at, FALSE, e.of)
      [] e.k \in {"member", "arrow"} -> (ValueOf(at, e.k = "member", e.of) + e.offset) % PointerValues
      [] e.k \in {"plus", "minus", "index"} ->
           LET scale(x) == IF PointerTyped(x) THEN ValueOf(at, FALSE, x) ELSE ValueOf(at, FALSE, x) * Stride(e)
           IN IF e.k = "minus" THEN (scale(e.left) - scale(e.right)) % PointerValues
              ELSE (scale(e.left) + scale(e.right)) % PointerValues
      [] e.k = "conditional" ->
           IF ValueOf(at, FALSE, e.condition) # 0
           THEN IF e.elided THEN ValueOf(at, FALSE, e.condition) ELSE ValueOf(at, FALSE, e.then)
           ELSE ValueOf(at, FALSE, e.else)

\* An address the analyzer folds is the one the program would compute, wherever the linker puts
\* the symbols and whether or not the weak ones are there, the branches it discards included.
FoldedAddressExact ==
    folded.pointer.some => \A at \in Placements :
        ValueOf(at, FALSE, folding.e) % PointerValues =
          (IF folded.pointer.base = "" THEN folded.pointer.offset
           ELSE (at[folded.pointer.base] + folded.pointer.offset) % PointerValues)

\* Every accepted address constant is one symbol of static storage that is not imported, or no
\* symbol at all, plus a constant: a relocation the linker can express.  An automatic object or
\* compound literal, an import, or a choice the linker would have to make never gets through.
Relocatable(body) ==
    {n \in DOMAIN Symbols : Symbols[n].static /\ ~ Symbols[n].imported} \cup (IF body THEN {"string"} ELSE {"string", "compound"})
AcceptedIsRelocatable ==
    folded.kind = "address" =>
        LET value == [at \in Placements |-> ValueOf(at, FALSE, folding.e) % PointerValues]
            constant(distance) == \A at, other \in Placements : distance[at] = distance[other]
        IN \/ constant(value)
           \/ \E n \in Relocatable(folding.body) : constant([at \in Placements |-> (value[at] - at[n]) % PointerValues])

==============================================================================
