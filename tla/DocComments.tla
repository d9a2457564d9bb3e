----------------------------- MODULE DocComments -----------------------------
(* Comments become documentation: the preprocessor retains the comments of a   *)
(* physical source in groups with the next barrier after each, the origins of  *)
(* its tokens through macro expansion and its system-header regions            *)
(* (toucan_preprocessor/documentation.rs); the builder then attaches a group   *)
(* to each declaration (toucan_bindgen/documentation.rs).                      *)
(* A source is a sequence of atoms, an atom's position is its byte offset.     *)
EXTENDS Integers, Sequences, FiniteSets, SequencesExt

CONSTANTS DocUnits,      \* sequences of sets of [atoms, declarations, all, system, limit]
          RowCost        \* bytes of a row, for the catalogue's budget
VARIABLES docUnit, docPhase, docAt, groups, systems, docUsed, attached
docVars == <<docUnit, docPhase, docAt, groups, systems, docUsed, attached>>

Atoms == docUnit.atoms
Marked == {"/**", "/**<"}
Comments == Marked \union {"/*"}
Barriers == {";", "#system", "#user"}
Newline == "NL"
recognized(atom, all) == atom \in Marked \/ (all /\ atom = "/*")

LineStart(i) == LET breaks == {j \in 1..(i - 1) : Atoms[j] = Newline} IN IF breaks = {} THEN 1 ELSE 1 + CHOOSE j \in breaks : \A k \in breaks : k <= j
line_at(i) == Cardinality({j \in 1..(i - 1) : Atoms[j] = Newline})
column_at(i) == i - LineStart(i)
\* An ordinary comment after code on its line counts as trailing when all comments are read.
inferred_trailing(i) == docUnit.all /\ Atoms[i] = "/*" /\ LineStart(i) < i
trailing(i) == inferred_trailing(i) \/ Atoms[i] = "/**<"
adjacent(from, to) ==
    /\ \A j \in from..to : Atoms[j] = Newline
    /\ to - from + 1 <= 1

DocInit == /\ docUnit = [atoms |-> <<>>] /\ docPhase = "idle" /\ docAt = 0 /\ groups = <<>> /\ systems = <<>>
           /\ docUsed = 0 /\ attached = << >>
StartSource ==
    /\ docPhase = "idle" /\ docPhase' = "comments" /\ docAt' = 1
    /\ \E family \in DOMAIN DocUnits : \E unit \in DocUnits[family] : docUnit' = unit
    /\ UNCHANGED <<groups, systems, docUsed, attached>>

-----------------------------------------------------------------------------
(* The catalogue.                                                              *)
row_cost(rows) == RowCost * (IF rows = 0 THEN 4 ELSE 2)
Charged(bytes) == docUsed + bytes
Over(bytes) == Charged(bytes) > docUnit.limit
LastGroup == groups[Len(groups)]
merge(i) ==
    /\ groups # <<>>
    /\ \/ LastGroup.trailing = trailing(i)
       \/ LastGroup.trailing /\ ~ trailing(i) /\ Atoms[i] \notin Marked /\ LastGroup.column = column_at(i)
    /\ adjacent(LastGroup.last + 1, i - 1)
CommentGroup(i) == [first |-> i, last |-> i, line |-> line_at(i), column |-> column_at(i), trailing |-> trailing(i), barrier |-> Len(Atoms) + 1]

comment ==
    /\ docPhase = "comments" /\ docAt <= Len(Atoms)
    /\ IF ~ recognized(Atoms[docAt], docUnit.all)
       THEN UNCHANGED <<groups, docUsed, docPhase>>
       ELSE LET merged == merge(docAt)
                bytes == IF merged THEN 2 * (docAt - LastGroup.last) ELSE row_cost(Len(groups)) + 2
            IN IF Over(bytes) THEN docPhase' = "failed" /\ UNCHANGED <<groups, docUsed>>
               ELSE /\ docUsed' = Charged(bytes) /\ UNCHANGED docPhase
                    /\ groups' = IF merged THEN [groups EXCEPT ![Len(groups)].last = docAt] ELSE Append(groups, CommentGroup(docAt))
    /\ docAt' = docAt + 1
    /\ UNCHANGED <<docUnit, systems, attached>>

\* One pass over the groups: a barrier still ahead of the next group serves it too.
NextBarrier(i) == LET b == {j \in i..Len(Atoms) : Atoms[j] \in Barriers} IN IF b = {} THEN Len(Atoms) + 1 ELSE CHOOSE j \in b : \A k \in b : j <= k
Fresh(barrier, last) == barrier < last + 1
FreshOnce(barrier, last) == barrier = 0
stale(barrier, last) == Fresh(barrier, last)
finish_source ==
    /\ docPhase = "comments" /\ docAt > Len(Atoms)
    /\ LET step(acc, g) == LET b == IF stale(acc.barrier, g.last) THEN NextBarrier(g.last + 1) ELSE acc.barrier
                           IN [barrier |-> b, done |-> Append(acc.done, [g EXCEPT !.barrier = b])]
       IN groups' = FoldLeft(step, [barrier |-> 0, done |-> <<>>], groups).done
    /\ docPhase' = "tokens" /\ docAt' = 1
    /\ UNCHANGED <<docUnit, systems, docUsed, attached>>

\* Tokens of a source with retained comments have origins; a region starts where the status changes.
SystemNow == IF systems = <<>> THEN FALSE ELSE systems[Len(systems)].system
system_origin ==
    /\ docPhase = "tokens" /\ docAt <= Len(Atoms)
    /\ LET changes == groups # <<>> /\ Atoms[docAt] \in {"#system", "#user"} /\ (Atoms[docAt] = "#system") # SystemNow
       IN IF changes /\ Over(row_cost(Len(systems)))
          THEN docPhase' = "failed" /\ UNCHANGED <<systems, docUsed>>
          ELSE /\ systems' = IF changes THEN Append(systems, [at |-> docAt, system |-> ~ SystemNow]) ELSE systems
               /\ docUsed' = IF changes THEN Charged(row_cost(Len(systems))) ELSE docUsed
               /\ UNCHANGED docPhase
    /\ docAt' = docAt + 1
    /\ UNCHANGED <<docUnit, groups, attached>>
EndTokens ==
    /\ docPhase = "tokens" /\ docAt > Len(Atoms) /\ docPhase' = "attach" /\ docAt' = 1
    /\ UNCHANGED <<docUnit, groups, systems, docUsed, attached>>

\* An output token's origin.  A chain lists the physical positions from the outermost invocation to the
\* replacement token that spells it; each link is one expansion.
Origin(macro, invocation, spelling) == [macro |-> macro, invocation |-> invocation, spelling |-> spelling]
location(at) == Origin(FALSE, at, 0)
SpellingOf(o) == IF o.spelling # 0 THEN o.spelling ELSE o.invocation
expanded(call, token) == Origin(TRUE, call.invocation, SpellingOf(token))
NameOrigin(chain) ==
    FoldLeft(LAMBDA call, at : expanded(call, location(at)), location(chain[1]), Tail(chain))

-----------------------------------------------------------------------------
(* Attachment.                                                                 *)
is_system_at(at) ==
    LET before == {k \in DOMAIN systems : systems[k].at <= at}
    IN before # {} /\ systems[CHOOSE k \in before : \A j \in before : j <= k].system
Kept == SelectSeq(groups, LAMBDA g : docUnit.system \/ ~ is_system_at(g.first))
NoComment == [first |-> 0]
Before(at) == {k \in DOMAIN Kept : Kept[k].first < at}
\* The trailing group after the name on its line, else the group before it if no barrier intervenes.
at(position, mayTrail) ==
    LET next == Cardinality(Before(position)) + 1
        after == IF next <= Len(Kept) THEN Kept[next] ELSE NoComment
        before == IF next > 1 THEN Kept[next - 1] ELSE NoComment
    IN IF mayTrail /\ after # NoComment /\ after.trailing /\ after.line = line_at(position) THEN after
       ELSE IF before # NoComment /\ ~ before.trailing /\ before.last < position /\ before.barrier >= position THEN before
       ELSE NoComment

CommentFor(d) ==
    LET mayTrail == d.kind \in {"variable", "field"}
        name == NameOrigin(d.name)
        begin == NameOrigin(d.begin)
        chosen == IF d.kind = "typedef" THEN begin ELSE name
        parentMacro == d.parent # <<>> /\ NameOrigin(d.parent).macro
        called == at(chosen.invocation, mayTrail)
    IN IF ~ name.macro THEN called
       ELSE IF ~ parentMacro /\ called # NoComment THEN called
       ELSE at(IF begin.macro THEN begin.spelling ELSE begin.invocation, mayTrail)
\* The first entry of an item with a comment decides; references to tags have none.
declaration ==
    /\ docPhase = "attach" /\ docAt <= Len(docUnit.declarations)
    /\ LET d == docUnit.declarations[docAt]
           found == IF d.reference \/ d.key \in DOMAIN attached \/ groups = <<>> THEN NoComment ELSE CommentFor(d)
       IN attached' = IF found = NoComment THEN attached
                      ELSE [k \in DOMAIN attached \union {d.key} |-> IF k = d.key THEN found.first..found.last ELSE attached[k]]
    /\ docAt' = docAt + 1
    /\ UNCHANGED <<docUnit, docPhase, groups, systems, docUsed>>
EndAttach ==
    /\ docPhase = "attach" /\ docAt > Len(docUnit.declarations) /\ docPhase' = "done"
    /\ UNCHANGED <<docUnit, docAt, groups, systems, docUsed, attached>>

DocNext == StartSource \/ comment \/ finish_source \/ system_origin \/ EndTokens \/ declaration \/ EndAttach
DocSpec == DocInit /\ [][DocNext]_docVars

-----------------------------------------------------------------------------
(* The reference reads the source as a whole.                                  *)
Recognized == {i \in DOMAIN Atoms : recognized(Atoms[i], docUnit.all)}
\* Which of two consecutive retained comments continue one another; `mode` is what the group so far is.
Consecutive(i, j) == i < j /\ \A k \in (i + 1)..(j - 1) : Atoms[k] = Newline
Joins(start, i, j) ==
    /\ Consecutive(i, j) /\ j - i <= 2
    /\ trailing(start) = trailing(j) \/ (trailing(start) /\ Atoms[j] = "/*" /\ column_at(start) = column_at(j))
\* A group starts at a comment that the group before it does not reach.
RECURSIVE GroupEnd(_, _)
GroupEnd(start, i) ==
    LET next == {j \in Recognized : j > i}
        j == CHOOSE k \in next : \A l \in next : k <= l
    IN IF next # {} /\ Joins(start, i, j) THEN GroupEnd(start, j) ELSE i
RECURSIVE Starts(_)
Starts(from) ==
    LET next == {j \in Recognized : j >= from}
        s == CHOOSE k \in next : \A l \in next : k <= l
    IN IF next = {} THEN {} ELSE {s} \union Starts(GroupEnd(s, s) + 1)
SystemAt(i) == LET m == {j \in 1..i : Atoms[j] \in {"#system", "#user"}} IN m # {} /\ Atoms[CHOOSE j \in m : \A k \in m : k <= j] = "#system"
KeptStarts == {s \in Starts(1) : docUnit.system \/ ~ SystemAt(s)}
WantedAt(position, mayTrail) ==
    LET later == {s \in KeptStarts : s >= position}
        earlier == {s \in KeptStarts : s < position}
        next == CHOOSE s \in later : \A t \in later : s <= t
        last == CHOOSE s \in earlier : \A t \in earlier : t <= s
        clear == \A k \in GroupEnd(last, last) + 1 .. position - 1 : Atoms[k] \notin Barriers
    IN IF mayTrail /\ later # {} /\ trailing(next) /\ line_at(next) = line_at(position) THEN next..GroupEnd(next, next)
       ELSE IF earlier # {} /\ ~ trailing(last) /\ GroupEnd(last, last) < position /\ clear THEN last..GroupEnd(last, last)
       ELSE {}
\* A name from a macro takes the comment at its outermost use, and otherwise the one where its declaration is spelled.
WantedFor(d) ==
    LET mayTrail == d.kind \in {"variable", "field"}
        use == WantedAt((IF d.kind = "typedef" THEN d.begin ELSE d.name)[1], mayTrail)
        member == Len(d.parent) > 1
    IN IF Len(d.name) = 1 THEN use ELSE IF ~ member /\ use # {} THEN use ELSE WantedAt(d.begin[Len(d.begin)], mayTrail)

\* A declaration is documented by the group of comments a reader would give it: the trailing one on its line, or
\* the one before it with nothing but its own tokens in between; groups are the maximal runs of comments on
\* neighbouring lines, comments of system headers are left out unless asked for, names made by macros look at
\* the outermost use first, and the first documented writing of an item wins
\* (Documentation::comment and finish_source, Comments::at and declaration).
CommentsExact ==
    docPhase = "done" =>
        \A k \in {docUnit.declarations[i].key : i \in DOMAIN docUnit.declarations} :
            LET with == {i \in DOMAIN docUnit.declarations :
                            LET d == docUnit.declarations[i] IN d.key = k /\ ~ d.reference /\ WantedFor(d) # {}}
            IN IF with = {} THEN k \notin DOMAIN attached
               ELSE k \in DOMAIN attached /\ attached[k] = WantedFor(docUnit.declarations[CHOOSE i \in with : \A j \in with : i <= j])
=============================================================================
