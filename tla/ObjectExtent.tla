----------------------------- MODULE ObjectExtent -----------------------------
(* __builtin_object_size over a written pointer expression                     *)
(* (toucan_semantic/object_extent.rs).  object_pointer and object_location     *)
(* carry an address through the expression, one wrapper at a time; the machine *)
(* applies the wrappers in the order they unwind, then answers the query.      *)
(* Types come from a table: [k, size, of, n, fields]; size -1 is incomplete.   *)
EXTENDS Integers, Sequences, FiniteSets, SequencesExt

CONSTANTS ExtentTypes,    \* type name -> [k, size, of, fields]
          ExtentRoots,    \* written objects: [type, origin, allocation, body]
          CastTypes, Indices, RuntimeIndex, Discarded,
          ExtentDepth,    \* 128 in the code
          OffsetBound     \* the range of a 64-bit offset
VARIABLES root, gnu, wrappers, place, answer
extentVars == <<root, gnu, wrappers, place, answer>>

Size(type) == ExtentTypes[type].size
Fixed(type) == Size(type) >= 0
Span(start, end) == [start |-> start, end |-> end]
NoRange == Span(0, -1)
remaining(range, offset) == IF offset < range.start \/ offset >= range.end THEN 0 ELSE range.end - offset
Lesser(a, b) == IF a <= b THEN a ELSE b

\* Location and Address in one record; a pointer has no object of its own.
Unknown == [kind |-> "unknown"]
Root(o) ==
    LET all == Span(0, IF o.allocation >= 0 THEN o.allocation ELSE Size(o.type))
    IN IF ~ Fixed(o.type) THEN Unknown
       ELSE [kind |-> "location", whole |-> all, sub |-> all, gnuSub |-> all, clangSub |-> NoRange, offset |-> 0,
             designated |-> o.type, pointee |-> o.type, arithmetic |-> FALSE, valid |-> TRUE, root |-> TRUE, uncertain |-> FALSE,
             gnuEffects |-> o.origin = "compound" /\ o.body, uncertainEffects |-> o.origin = "compound" /\ ~ o.body,
             type |-> o.type, object |-> all, array |-> NoRange]
SameView(p) == p.pointee = p.designated
ContainingArray(l) == IF l.array = NoRange THEN l.object ELSE l.array

-----------------------------------------------------------------------------
(* From a location to a pointer.                                               *)
address_of(l) ==
    [l EXCEPT !.kind = "pointer", !.sub = ContainingArray(l), !.gnuSub = ContainingArray(l), !.pointee = l.type, !.designated = l.type]
DecayToContaining(l) ==
    [l EXCEPT !.kind = "pointer", !.sub = ContainingArray(l), !.gnuSub = ContainingArray(l), !.root = FALSE,
              !.pointee = ExtentTypes[l.type].of, !.designated = ExtentTypes[l.type].of]
decay(l) ==
    [l EXCEPT !.kind = "pointer", !.sub = l.object, !.gnuSub = ContainingArray(l), !.root = FALSE,
              !.pointee = ExtentTypes[l.type].of, !.designated = ExtentTypes[l.type].of]
(* From a pointer to a pointer.                                                *)
cancel(p) == [p EXCEPT !.valid = @ /\ (gnu \/ SameView(p))]
cast(p, type) == [p EXCEPT !.pointee = type, !.gnuEffects = @ \/ type = "vla"]
Moved(p, index) == p.offset + index * Size(p.pointee)
Scaled(p, index) == index # RuntimeIndex /\ Fixed(p.pointee)
InWidth(offset) == offset \in -OffsetBound .. OffsetBound
plus(p, index) ==
    IF Scaled(p, index) /\ InWidth(Moved(p, index))
    THEN [p EXCEPT !.offset = Moved(p, index), !.arithmetic = TRUE, !.valid = @ /\ SameView(p)]
    ELSE Unknown
(* From a pointer to a location.                                               *)
index_at(p, index) ==
    IF Scaled(p, index) /\ InWidth(Moved(p, index))
    THEN [p EXCEPT !.kind = "location", !.offset = Moved(p, index), !.root = FALSE, !.valid = @ /\ SameView(p), !.type = p.pointee,
                   !.object = Span(Moved(p, index), Moved(p, index) + Size(p.pointee)), !.array = p.sub]
    ELSE Unknown
indirection(p) ==
    IF ~ Fixed(p.pointee) THEN Unknown
    ELSE [p EXCEPT !.kind = "star", !.uncertain = @ \/ ~ SameView(p), !.type = p.pointee,
                   !.object = Span(p.offset, p.offset + Size(p.pointee)), !.array = p.sub]
arrow(p) == [p EXCEPT !.kind = "location", !.uncertain = @ \/ ~ SameView(p), !.type = p.pointee, !.object = p.sub, !.array = NoRange]
(* From a location to a location.                                              *)
field_offset(type, name) ==
    LET f == CHOOSE i \in DOMAIN ExtentTypes[type].fields : ExtentTypes[type].fields[i].name = name IN ExtentTypes[type].fields[f]
member(l, name) ==
    LET f == field_offset(l.type, name)
        start == l.offset + f.at
    IN IF ~ Fixed(f.type) THEN Unknown
       ELSE [l EXCEPT !.kind = "location", !.offset = start, !.root = FALSE, !.type = f.type,
                      !.object = Span(start, start + Size(f.type)), !.array = NoRange]
component(l, which) ==
    LET of == ExtentTypes[l.type].of
        start == l.offset + (IF which = "imaginary" THEN Size(of) ELSE 0)
    IN IF ExtentTypes[l.type].k # "complex" THEN IF which = "real" THEN l ELSE Unknown
       ELSE [l EXCEPT !.kind = "location", !.offset = start, !.clangSub = l.object, !.root = FALSE,
                      !.object = Span(start, start + Size(of)), !.array = NoRange, !.type = of]

\* Effects of an operand a comma discards: "yes", "no" or "unknown".
combine_effects(a, b) == IF "yes" \in {a, b} THEN "yes" ELSE IF a = "no" /\ b = "no" THEN "no" ELSE "unknown"
RECURSIVE object_discarded_effects(_)
object_discarded_effects(e) ==
    CASE e.k = "leaf" -> IF e.vlaCast /\ gnu THEN "yes" ELSE e.effect
      [] e.k = "and" -> IF e.left.value = "0" THEN object_discarded_effects(e.left)
                        ELSE combine_effects(object_discarded_effects(e.left), object_discarded_effects(e.right))
      [] e.k = "if" -> combine_effects(object_discarded_effects(e.left),
                          IF e.left.value = "1" THEN object_discarded_effects(e.then)
                          ELSE IF e.left.value = "0" THEN object_discarded_effects(e.right)
                          ELSE combine_effects(object_discarded_effects(e.then), object_discarded_effects(e.right)))
comma(p, e) ==
    LET effects == object_discarded_effects(e)
    IN [p EXCEPT !.gnuEffects = @ \/ effects = "yes", !.uncertainEffects = @ \/ effects = "unknown"]

-----------------------------------------------------------------------------
NoAnswer == [asked |-> FALSE]
ExtentInit == root = [type |-> ""] /\ gnu = FALSE /\ wrappers = <<>> /\ place = Unknown /\ answer = NoAnswer
Identify ==
    /\ root = [type |-> ""] /\ root' \in ExtentRoots /\ gnu' \in BOOLEAN /\ place' = Root(root')
    /\ UNCHANGED <<wrappers, answer>>
Pointer == answer = NoAnswer /\ place.kind = "pointer"
Located == answer = NoAnswer /\ place.kind \in {"location", "star"}
Wrapper(op, arg) == [op |-> op, arg |-> arg]
\* An expression nested past the limit identifies nothing.
Apply(op, arg, result) ==
    /\ Len(wrappers) < ExtentDepth
    /\ wrappers' = Append(wrappers, Wrapper(op, arg))
    /\ place' = IF Len(wrappers) + 1 = ExtentDepth THEN Unknown ELSE result
    /\ UNCHANGED <<root, gnu, answer>>

\* The address of an indirection is the pointer itself (Cancel), never AddressOf.
AddressOf == Located /\ place.kind = "location" /\ Apply("address", "", address_of(place))
Decay == Located /\ ExtentTypes[place.type].k = "array" /\ Apply("decay", "", decay(place))
Cancel == Pointer /\ Apply("cancel", "", cancel(place))
Cast == Pointer /\ \E type \in CastTypes : Apply("cast", type, cast(place, type))
Plus == Pointer /\ \E index \in Indices : Apply("plus", index, plus(place, index))
Index == Pointer /\ \E index \in Indices : Apply("index", index, index_at(place, index))
Indirection == Pointer /\ Apply("star", "", indirection(place))
Arrow ==
    /\ Pointer /\ ExtentTypes[place.pointee].k = "record"
    /\ \E i \in DOMAIN ExtentTypes[place.pointee].fields :
          LET name == ExtentTypes[place.pointee].fields[i].name IN Apply("arrow", name, member(arrow(place), name))
Member ==
    /\ Located /\ ExtentTypes[place.type].k = "record"
    /\ \E i \in DOMAIN ExtentTypes[place.type].fields :
          LET name == ExtentTypes[place.type].fields[i].name IN Apply("member", name, member(place, name))
Component == Located /\ \E which \in {"real", "imaginary"} : ExtentTypes[place.type].k \in {"complex", "scalar"} /\ Apply(which, "", component(place, which))
Comma == Pointer /\ \E e \in Discarded : Apply("comma", "", comma(place, e))

-----------------------------------------------------------------------------
(* The answer.                                                                 *)
Constant(bytes, stage, default) == [bytes |-> bytes, stage |-> stage, default |-> default]
Unresolved == Constant(-2, "none", FALSE)
Sentinel(mode) == IF mode \in {0, 1} THEN -1 ELSE 0
Whole(p) == remaining(p.whole, p.offset)
Subobject(p) == Lesser(remaining(p.sub, p.offset), Whole(p))
WholeView(p, mode) == mode \in {0, 2} \/ ~ p.valid \/ p.root
GnuResult(p, mode) ==
    IF p.gnuEffects THEN Constant(Sentinel(mode), "frontend", TRUE)
    ELSE IF p.uncertainEffects \/ p.offset < 0 \/ ((p.arithmetic \/ ~ p.valid) /\ mode \in {1, 3}) THEN Unresolved
    ELSE Constant(IF mode \in {0, 2} THEN Whole(p) ELSE remaining(p.gnuSub, p.offset), "codegen", FALSE)
ClangResult(p, mode) ==
    IF mode \in {1, 3} /\ p.offset >= 0 /\ (p.offset < p.sub.start \/ p.offset > p.sub.end) THEN Unresolved
    ELSE IF mode = 3 /\ ~ p.valid THEN Constant(0, "codegen", TRUE)
    ELSE Constant(IF WholeView(p, mode) THEN Whole(p)
                  ELSE IF p.clangSub = NoRange THEN Subobject(p) ELSE Lesser(remaining(p.clangSub, p.offset), Whole(p)),
                  IF p.offset >= 0 /\ root.origin = "string" /\ WholeView(p, mode) THEN "codegen" ELSE "frontend", FALSE)
infer_object_size(mode) ==
    /\ Pointer
    /\ answer' = [asked |-> TRUE, mode |-> mode, whole |-> Whole(place), sub |-> IF place.uncertain THEN -1 ELSE Subobject(place),
                  result |-> IF place.uncertain \/ place.offset > place.whole.end THEN Unresolved
                             ELSE IF gnu THEN GnuResult(place, mode) ELSE ClangResult(place, mode)]
    /\ UNCHANGED <<root, gnu, wrappers, place>>
\* Nothing identified: a sentinel when the operand has effects, else unresolved.
infer_unknown(mode) ==
    /\ answer = NoAnswer /\ place.kind = "unknown" /\ root.type # ""
    /\ \E effects \in {"yes", "no", "unknown"} :
          answer' = [asked |-> TRUE, mode |-> mode, whole |-> -1, sub |-> -1,
                     result |-> IF effects = "yes" THEN Constant(Sentinel(mode), "frontend", TRUE) ELSE Unresolved]
    /\ UNCHANGED <<root, gnu, wrappers, place>>

ExtentNext ==
    \/ Identify \/ AddressOf \/ Decay \/ Cancel \/ Cast \/ Plus \/ Index \/ Indirection \/ Arrow \/ Member \/ Component \/ Comma
    \/ \E mode \in 0..3 : infer_object_size(mode) \/ infer_unknown(mode)
ExtentSpec == ExtentInit /\ [][ExtentNext]_extentVars

-----------------------------------------------------------------------------
(* The reference evaluates the expression on storage, and reads the declared   *)
(* type as the set of subobjects it really has.                                *)
Evaluate(acc, w) ==
    LET t == ExtentTypes[acc.type]
        at(delta, type) == [at |-> acc.at + delta, type |-> type]
        field == CHOOSE f \in {t.fields[i] : i \in DOMAIN t.fields} : f.name = w.arg
    IN CASE w.op \in {"member", "arrow"} -> at(field.at, field.type)
         [] w.op \in {"plus", "index"} -> at(w.arg * t.size, acc.type)
         [] w.op = "decay" -> at(0, t.of)
         [] w.op = "cast" -> at(0, w.arg)
         [] w.op = "imaginary" -> at(ExtentTypes[t.of].size, t.of)
         [] w.op = "real" -> IF t.k = "complex" THEN at(0, t.of) ELSE acc
         [] OTHER -> acc
Real(ws) == FoldLeft(Evaluate, [at |-> 0, type |-> root.type], ws)
RECURSIVE Subobjects(_, _)
Subobjects(type, start) ==
    LET t == ExtentTypes[type]
    IN {[type |-> type, start |-> start, end |-> start + t.size]}
       \union (CASE t.k = "array" -> UNION {Subobjects(t.of, start + i * Size(t.of)) : i \in 0..((t.size \div Size(t.of)) - 1)}
                 [] t.k = "record" -> UNION {IF Fixed(f.type) THEN Subobjects(f.type, start + f.at) ELSE {} : f \in {t.fields[i] : i \in DOMAIN t.fields}}
                 [] t.k = "complex" -> Subobjects(t.of, start) \union Subobjects(t.of, start + Size(t.of))
                 [] OTHER -> {})
Locating == {"index", "star", "arrow", "member", "real", "imaginary"}
\* Every object the expression goes through is one the declaration has, seen as what it is.
Proper(ws) ==
    /\ \A i \in DOMAIN ws : ws[i].op # "cast"
    /\ \A i \in DOMAIN ws : ws[i].op \in Locating =>
        LET here == Real(SubSeq(ws, 1, i))
        IN \E s \in Subobjects(root.type, 0) : s.start = here.at /\ s.type = here.type
Allocated == IF root.allocation >= 0 THEN root.allocation ELSE Size(root.type)

\* The bytes reported for the whole object are the ones that follow the address in the object's storage, and none
\* outside it; and when every step of the expression stays in an object the declaration has, the bytes reported for
\* the subobject end where a declared subobject of the addressed type, or an array of it, ends.  A constant whole-object
\* answer is that number, unless it is the sentinel of an operand with effects (infer_object_size).
ObjectSizeExact ==
    (answer.asked /\ answer.whole >= 0) =>
        \E real \in {Real(wrappers)} :
            /\ answer.whole = remaining(Span(0, Allocated), real.at)
            /\ (answer.sub >= 0 /\ Proper(wrappers)) =>
                  \E s \in Subobjects(root.type, 0) \union {[type |-> root.type, start |-> 0, end |-> Allocated]} :
                      /\ s.type = real.type \/ (ExtentTypes[s.type].k = "array" /\ ExtentTypes[s.type].of = real.type)
                      /\ answer.sub = remaining(Span(s.start, s.end), real.at)
            /\ (answer.mode \in {0, 2} /\ answer.result.bytes >= 0 /\ ~ answer.result.default) => answer.result.bytes = answer.whole
=============================================================================
