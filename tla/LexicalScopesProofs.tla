------------------------ MODULE LexicalScopesProofs ------------------------
(***************************************************************************)
(* Proofs about LexicalScopes, for every set of tags, names and values,    *)
(* every nesting and any number of types.                                  *)
(***************************************************************************)
EXTENDS LexicalScopes, Integers, SequenceTheorems, TLAPS

\* A non-empty stack without its top.
LEMMA DropLast ==
    ASSUME NEW S, NEW s \in Seq(S), s # <<>>
    PROVE  /\ SubSeq(s, 1, Len(s) - 1) \in Seq(S)
           /\ Len(SubSeq(s, 1, Len(s) - 1)) = Len(s) - 1
           /\ \A i \in 1..(Len(s) - 1) : SubSeq(s, 1, Len(s) - 1)[i] = s[i]
  <1>1. Len(s) \in Nat \ {0} OBVIOUS
  <1>2. \A i \in 1..(Len(s) - 1) : s[i] \in S BY <1>1
  <1>3. SubSeq(s, 1, Len(s) - 1) \in Seq(S)
    BY <1>1
  <1>4. \A i \in 1..(Len(s) - 1) : SubSeq(s, 1, Len(s) - 1)[i] = s[i]
    BY <1>1
  <1>5. Len(SubSeq(s, 1, Len(s) - 1)) = Len(s) - 1
    <2>1. CASE Len(s) = 1
      BY <2>1, SubSeqEmpty
    <2>2. CASE Len(s) > 1
      BY <1>1, <2>2
    <2> QED BY <1>1, <2>1, <2>2
  <1> QED BY <1>3, <1>4, <1>5

\* Pushing on a stack.
LEMMA AddLast ==
    ASSUME NEW S, NEW s \in Seq(S), NEW e \in S
    PROVE  /\ Append(s, e) \in Seq(S)
           /\ Len(Append(s, e)) = Len(s) + 1
           /\ Append(s, e)[Len(s) + 1] = e
           /\ \A i \in 1..Len(s) : Append(s, e)[i] = s[i]
  OBVIOUS

\* Replacing the top of a stack.
LEMMA ReplaceLast ==
    ASSUME NEW S, NEW s \in Seq(S), Len(s) \in 1..Len(s), NEW e \in S
    PROVE  LET new == [s EXCEPT ![Len(s)] = e]
           IN  /\ new \in Seq(S)
               /\ Len(new) = Len(s)
               /\ new[Len(s)] = e
               /\ \A i \in 1..Len(s) : i < Len(s) => new[i] = s[i]
  OBVIOUS

\* Replacing any entry of a sequence, or none.
LEMMA ReplaceAny ==
    ASSUME NEW S, NEW s \in Seq(S), NEW i, NEW e, i \in 1..Len(s) => e \in S
    PROVE  [s EXCEPT ![i] = e] \in Seq(S)
  <1>1. Len(s) \in Nat /\ DOMAIN s = 1..Len(s) OBVIOUS
  <1> DEFINE new == [s EXCEPT ![i] = e]
  <1>2. \A j \in 1..Len(s) : new[j] \in S BY <1>1
  <1>3. new = [j \in 1..Len(s) |-> new[j]] BY <1>1
  <1> HIDE DEF new
  <1>4. new \in Seq(S) BY <1>1, <1>2, <1>3
  <1> QED BY <1>4 DEF new

\* The first entry of a log decides, and more entries leave it.
LEMMA FirstEntry ==
    ASSUME NEW V, NEW s \in Seq(V), NEW e \in V
    PROVE  /\ Append(s, e) \in Seq(V) /\ Append(s, e) # <<>>
           /\ Append(s, e)[1] = IF s = <<>> THEN e ELSE s[1]
  <1>1. Len(s) \in Nat /\ Len(Append(s, e)) = Len(s) + 1 /\ Append(s, e) \in Seq(V)
    OBVIOUS
  <1>2. CASE s = <<>>
    BY <1>1, <1>2
  <1>3. CASE s # <<>>
    <2>1. Len(s) >= 1 BY <1>1, <1>3
    <2>2. Append(s, e)[1] = s[1] BY <2>1
    <2> QED BY <1>1, <1>3, <2>2
  <1> QED BY <1>2, <1>3

\* The logs a scope starts with.
LEMMA ShortSeq ==
    /\ \A V : <<>> \in Seq(V)
    /\ \A V : \A v \in V : <<v>> \in Seq(V)
  OBVIOUS

\* Undoing any log gives a table.
LEMMA UndoneType ==
    ASSUME NEW X, NEW V, NEW table \in [X -> V], NEW log \in [X -> Seq(V)]
    PROVE  Undone(table, log) \in [X -> V]
  <1>1. ASSUME NEW x \in X
        PROVE  (IF log[x] = <<>> THEN table[x] ELSE log[x][1]) \in V
    <2>1. log[x] \in Seq(V) OBVIOUS
    <2>2. CASE log[x] # <<>>
      <3>1. Len(log[x]) >= 1 BY <2>1, <2>2
      <3> QED BY <2>1, <2>2, <3>1
    <2> QED BY <2>2
  <1> QED BY <1>1 DEF Undone

-----------------------------------------------------------------------------
(* What the steps do to the scopes *)

\* A step within the innermost scope: the scopes around it stay, and its logs
\* lead back to the same tables.
Kept ==
    /\ Len(scopes') = Len(scopes)
    /\ \A d \in 1..Len(scopes) : d < Len(scopes) => scopes'[d] = scopes[d]
    /\ InScope => /\ Undone(tags', scopes'[Len(scopes)].tags) = Undone(tags, Top.tags)
                  /\ Undone(constants', scopes'[Len(scopes)].constants)
                       = Undone(constants, Top.constants)

\* The innermost scope is one, and is typed.
LEMMA TopType ==
    ASSUME TypeOK, InScope
    PROVE  Depth \in Nat /\ Depth \in 1..Len(scopes) /\ Top \in ScopeRecord
  BY DEF TypeOK, InScope, Depth, Top

\* record() and enum_type() bind a new tag.
LEMMA BindTagKeeps ==
    ASSUME TypeOK, NEW t \in Tags, bind_tag(t), UNCHANGED constants
    PROVE  tags' \in TagTable /\ scopes' \in Seq(ScopeRecord) /\ Kept
  <1> DEFINE binding == [id |-> Len(types) + 1, depth |-> Depth]
  <1>1. Len(types) + 1 \in Nat /\ Depth \in Nat
    BY DEF TypeOK, Depth
  <1>2. binding \in Binding \cup {None}
    BY <1>1 DEF Binding
  <1>3. tags \in [Tags -> Binding \cup {None}] /\ tags' = [tags EXCEPT ![t] = binding]
    BY DEF TypeOK, TagTable, bind_tag
  <1>4. tags' \in TagTable
    BY <1>2, <1>3 DEF TagTable
  <1>5. CASE ~InScope
    <2>1. scopes' = scopes /\ Len(scopes) \in Nat BY <1>5 DEF bind_tag, TypeOK
    <2> QED BY <1>4, <1>5, <2>1 DEF TypeOK, Kept
  <1>6. CASE InScope
    <2>1. Depth \in 1..Len(scopes) /\ Top \in ScopeRecord BY <1>6, TopType
    <2> DEFINE log == [Top.tags EXCEPT ![t] = Append(@, tags[t])]
               new == [Top EXCEPT !.tags = log, !.ids = @ \cup {Len(types) + 1}]
    <2>2. Top.tags \in [Tags -> Seq(Binding \cup {None})]
      BY <2>1 DEF ScopeRecord
    <2>a. log = [Top.tags EXCEPT ![t] = Append(@, tags[t])]
      OBVIOUS
    <2> HIDE DEF log
    <2>b. Top.tags[t] \in Seq(Binding \cup {None}) /\ tags[t] \in Binding \cup {None}
      BY <1>3, <2>2
    <2>c. /\ log[t] \in Seq(Binding \cup {None}) /\ log[t] # <<>>
          /\ log[t][1] = IF Top.tags[t] = <<>> THEN tags[t] ELSE Top.tags[t][1]
      <3>1. log[t] = Append(Top.tags[t], tags[t]) BY <2>2, <2>a
      <3> QED BY <2>b, <3>1, FirstEntry
    <2>d. \A y \in Tags : y # t => log[y] = Top.tags[y] /\ tags'[y] = tags[y]
      BY <1>3, <2>2, <2>a
    <2>3. log \in [Tags -> Seq(Binding \cup {None})] /\ Undone(tags', log) = Undone(tags, Top.tags)
      <3>1. log \in [Tags -> Seq(Binding \cup {None})]
        BY <2>2, <2>a, <2>c, <2>d
      <3>2. DOMAIN tags' = Tags /\ DOMAIN tags = Tags
        BY <1>3
      <3> QED BY <3>1, <3>2, <2>c, <2>d DEF Undone
    <2>4. new \in ScopeRecord /\ new.tags = log /\ new.constants = Top.constants
      BY <1>1, <2>1, <2>3 DEF ScopeRecord
    <2>5. scopes' = [scopes EXCEPT ![Depth] = new]
      BY <1>6, <2>1, <2>a DEF bind_tag, LogTag, Top, TypeOK
    <2>6. scopes' \in Seq(ScopeRecord) /\ Len(scopes') = Len(scopes)
      BY <2>1, <2>4, <2>5 DEF TypeOK
    <2>7. scopes'[Len(scopes)] = new
      BY <2>1, <2>5 DEF TypeOK, Depth
    <2>8. \A d \in 1..Len(scopes) : d < Len(scopes) => scopes'[d] = scopes[d]
      BY <2>1, <2>5 DEF TypeOK, Depth
    <2> QED BY <1>4, <2>3, <2>4, <2>6, <2>7, <2>8 DEF Kept
  <1> QED BY <1>5, <1>6

\* `struct t;' in a block hides an outer tag with two entries of the log.
LEMMA StandaloneKeeps ==
    ASSUME TypeOK, NEW t \in Tags, NEW kind \in Kinds, StandaloneTag(t, kind)
    PROVE  tags' \in TagTable /\ scopes' \in Seq(ScopeRecord) /\ Kept
  <1> DEFINE binding == [id |-> Len(types) + 1, depth |-> Depth]
             log == [Top.tags EXCEPT ![t] = Append(Append(@, tags[t]), None)]
             new == [Top EXCEPT !.tags = log, !.ids = @ \cup {Len(types) + 1}]
  <1>1. InScope /\ Depth \in 1..Len(scopes) /\ Top \in ScopeRecord
    BY TopType DEF StandaloneTag, InBlock
  <1>2. Len(types) + 1 \in Nat /\ Depth \in Nat
    BY DEF TypeOK, Depth
  <1>3. binding \in Binding \cup {None}
    BY <1>2 DEF Binding
  <1>4. tags \in [Tags -> Binding \cup {None}] /\ tags' = [tags EXCEPT ![t] = binding]
    BY DEF TypeOK, TagTable, StandaloneTag
  <1>5. Top.tags \in [Tags -> Seq(Binding \cup {None})]
    BY <1>1 DEF ScopeRecord
  <1>6. /\ log[t] \in Seq(Binding \cup {None}) /\ log[t] # <<>>
        /\ log[t][1] = IF Top.tags[t] = <<>> THEN tags[t] ELSE Top.tags[t][1]
    <2> DEFINE V == Binding \cup {None}
               old == Top.tags[t]
               hidden == tags[t]
               first == Append(old, hidden)
    <2>1. old \in Seq(V) /\ hidden \in V /\ None \in V
      BY <1>4, <1>5
    <2>2. log[t] = Append(first, None)
      BY <1>5
    <2> HIDE DEF V, old, hidden, log
    <2>3. /\ first \in Seq(V) /\ first # <<>>
          /\ first[1] = IF old = <<>> THEN hidden ELSE old[1]
      BY <2>1, FirstEntry
    <2> HIDE DEF first
    <2>4. log[t] \in Seq(V) /\ log[t] # <<>> /\ log[t][1] = first[1]
      BY <2>1, <2>2, <2>3, FirstEntry
    <2> QED BY <2>3, <2>4 DEF V, old, hidden
  <1>7. \A y \in Tags : y # t => log[y] = Top.tags[y] /\ tags'[y] = tags[y]
    BY <1>4, <1>5
  <1>8. log \in [Tags -> Seq(Binding \cup {None})]
    BY <1>5, <1>6, <1>7
  <1>9. scopes' = [scopes EXCEPT ![Depth] = new]
    BY <1>1 DEF StandaloneTag, LogHidden, Top, TypeOK
  <1>10. DOMAIN tags' = Tags /\ DOMAIN tags = Tags
    BY <1>4
  <1>11. tags' \in TagTable
    BY <1>3, <1>4 DEF TagTable
  <1> HIDE DEF log
  <1>12. Undone(tags', log) = Undone(tags, Top.tags)
    BY <1>6, <1>7, <1>10 DEF Undone
  <1>13. new \in ScopeRecord /\ new.tags = log /\ new.constants = Top.constants
    BY <1>1, <1>2, <1>8 DEF ScopeRecord
  <1>14. /\ scopes' \in Seq(ScopeRecord) /\ Len(scopes') = Len(scopes)
         /\ scopes'[Len(scopes)] = new
         /\ \A d \in 1..Len(scopes) : d < Len(scopes) => scopes'[d] = scopes[d]
    BY <1>1, <1>9, <1>13, ReplaceLast DEF TypeOK, Depth
  <1>15. constants' = constants
    BY DEF StandaloneTag
  <1> QED BY <1>11, <1>12, <1>13, <1>14, <1>15 DEF Kept

\* A name is declared in the innermost scope and the constant it hides logged.
NameDeclared(n, v, class) ==
    /\ constants' = [constants EXCEPT ![n] = v]
    /\ scopes' = [scopes EXCEPT ![Depth].constants = LogConstant(@, n),
                                ![Depth].names[n] = class]

LEMMA NameKeeps ==
    ASSUME TypeOK, InScope, UNCHANGED tags,
           NEW n \in Names, NEW v \in Values \cup {None}, NEW class \in NameClasses,
           NameDeclared(n, v, class)
    PROVE  constants' \in ConstantTable /\ scopes' \in Seq(ScopeRecord) /\ Kept
  <1>1. Depth \in 1..Len(scopes) /\ Top \in ScopeRecord BY TopType
  <1> DEFINE log == [Top.constants EXCEPT ![n] = Append(@, constants[n])]
             new == [Top EXCEPT !.constants = log, !.names = [@ EXCEPT ![n] = class]]
  <1>2. Top.constants \in [Names -> Seq(Values \cup {None})]
    BY <1>1 DEF ScopeRecord
  <1>3. /\ constants \in [Names -> Values \cup {None}]
        /\ constants' = [constants EXCEPT ![n] = v]
    BY DEF TypeOK, ConstantTable, NameDeclared
  <1>a. log = [Top.constants EXCEPT ![n] = Append(@, constants[n])]
    OBVIOUS
  <1> HIDE DEF log
  <1>b. Top.constants[n] \in Seq(Values \cup {None}) /\ constants[n] \in Values \cup {None}
    BY <1>2, <1>3
  <1>c. /\ log[n] \in Seq(Values \cup {None}) /\ log[n] # <<>>
        /\ log[n][1] = IF Top.constants[n] = <<>> THEN constants[n] ELSE Top.constants[n][1]
    <2>1. log[n] = Append(Top.constants[n], constants[n]) BY <1>2, <1>a
    <2> QED BY <1>b, <2>1, FirstEntry
  <1>d. \A y \in Names : y # n => log[y] = Top.constants[y] /\ constants'[y] = constants[y]
    BY <1>2, <1>3, <1>a
  <1>4. /\ constants' \in [Names -> Values \cup {None}]
        /\ log \in [Names -> Seq(Values \cup {None})]
        /\ Undone(constants', log) = Undone(constants, Top.constants)
    <2>1. constants' \in [Names -> Values \cup {None}]
      BY <1>3
    <2>2. log \in [Names -> Seq(Values \cup {None})]
      BY <1>2, <1>a, <1>c, <1>d
    <2>3. DOMAIN constants' = Names /\ DOMAIN constants = Names
      BY <1>3
    <2> QED BY <2>1, <2>2, <2>3, <1>c, <1>d DEF Undone
  <1>5. new \in ScopeRecord /\ new.tags = Top.tags /\ new.constants = log
    BY <1>1, <1>4 DEF ScopeRecord
  <1>6. scopes' = [scopes EXCEPT ![Depth] = new]
    BY <1>1, <1>a DEF LogConstant, Top, TypeOK, NameDeclared
  <1>7. scopes' \in Seq(ScopeRecord) /\ Len(scopes') = Len(scopes)
    BY <1>1, <1>5, <1>6, ReplaceLast DEF TypeOK, Depth
  <1>8. /\ scopes'[Len(scopes)] = new
        /\ \A d \in 1..Len(scopes) : d < Len(scopes) => scopes'[d] = scopes[d]
    BY <1>1, <1>5, <1>6, ReplaceLast DEF TypeOK, Depth
  <1> QED BY <1>4, <1>5, <1>7, <1>8 DEF Kept, ConstantTable

\* A step within the innermost scope leaves what the others see.
LEMMA TablesKept ==
    ASSUME TypeOK, Kept, UNCHANGED entered
    PROVE  \A d \in 0..(Depth - 1) : TablesAt(d)' = TablesAt(d)
  BY DEF TypeOK, Kept, TablesAt, Depth

\* Entering a scope.
LEMMA TablesEntered ==
    ASSUME TypeOK, NEW new, Enter(new)
    PROVE  /\ Len(scopes') = Len(scopes) + 1
           /\ \A d \in 1..Len(scopes) : scopes'[d] = scopes[d] /\ entered'[d] = entered[d]
           /\ scopes'[Len(scopes) + 1] = new
           /\ entered'[Len(scopes) + 1] = Tables
           /\ \A d \in 0..Depth : TablesAt(d)' = TablesAt(d)
  <1>1. /\ Len(scopes) \in Nat /\ Len(scopes') = Len(scopes) + 1
        /\ \A d \in 1..Len(scopes) : scopes'[d] = scopes[d] /\ entered'[d] = entered[d]
        /\ scopes'[Len(scopes) + 1] = new
        /\ entered'[Len(scopes) + 1] = Tables
    BY DEF TypeOK, Enter
  <1>2. \A d \in 0..Depth : TablesAt(d)' = TablesAt(d)
    BY <1>1 DEF TablesAt, Depth
  <1> QED BY <1>1, <1>2

\* Leaving a scope gives the scope around it back the tables it had.
LEMMA TablesLeft ==
    ASSUME ScopesInv, leave_prototype
    PROVE  /\ tags' \in TagTable /\ constants' \in ConstantTable
           /\ scopes' \in Seq(ScopeRecord)
           /\ entered' \in Seq(TableRecord)
           /\ Len(scopes') = Len(scopes) - 1 /\ Len(entered') = Len(scopes) - 1
           /\ \A d \in 1..(Len(scopes) - 1) : scopes'[d] = scopes[d] /\ entered'[d] = entered[d]
           /\ \A d \in 0..(Depth - 1) : TablesAt(d)' = TablesAt(d)
  <1> USE DEF ScopesInv
  <1>1. InScope /\ Depth \in 1..Len(scopes) /\ Top \in ScopeRecord
    BY TopType DEF leave_prototype
  <1>2. Len(scopes) \in Nat \ {0} /\ scopes # <<>> /\ entered # <<>> /\ Depth = Len(entered)
    BY <1>1 DEF TypeOK, Depth
  <1>3. /\ scopes' \in Seq(ScopeRecord)
        /\ Len(scopes') = Len(scopes) - 1
        /\ \A d \in 1..(Len(scopes) - 1) : scopes'[d] = scopes[d]
    BY <1>2, DropLast DEF leave_prototype, TypeOK, Depth
  <1>4. /\ entered' \in Seq(TableRecord)
        /\ Len(entered') = Len(scopes) - 1
        /\ \A d \in 1..(Len(scopes) - 1) : entered'[d] = entered[d]
    BY <1>2, DropLast DEF leave_prototype, TypeOK, Depth
  <1>5. tags' = entered[Depth].tags /\ constants' = entered[Depth].constants
    BY <1>1 DEF leave_prototype, LogsRestore, TablesAt, Tables, Top
  <1>6. entered[Depth] \in TableRecord
    <2>1. Depth \in 1..Len(entered) /\ entered \in Seq(TableRecord)
      BY <1>1, <1>2 DEF TypeOK
    <2> QED BY <2>1
  <1>7. Tables' = entered[Depth]
    BY <1>5, <1>6 DEF Tables, TableRecord
  <1>8. ASSUME NEW d \in 0..(Depth - 1)
        PROVE  TablesAt(d)' = TablesAt(d)
    <2>1. CASE d = Depth - 1
      BY <1>2, <1>3, <1>7, <2>1 DEF TablesAt, Depth
    <2>2. CASE d # Depth - 1
      BY <1>2, <1>3, <1>4, <2>2 DEF TablesAt, Depth
    <2> QED BY <2>1, <2>2
  <1> QED BY <1>3, <1>4, <1>5, <1>6, <1>8 DEF TableRecord

\* The body's scope starts with logged bindings of its own.
LEMMA BodyEntered ==
    ASSUME TypeOK, EnterBody
    PROVE  /\ tags' \in TagTable /\ constants' \in ConstantTable
           /\ BodyScope(function_scope) \in ScopeRecord
           /\ Undone(tags', BodyScope(function_scope).tags) = tags
           /\ Undone(constants', BodyScope(function_scope).constants) = constants
  <1> DEFINE new == BodyScope(function_scope)
  <1>1. /\ function_scope.tags \in [Tags -> Binding \cup {None}]
        /\ function_scope.constants \in [Names -> Values \cup {None}]
        /\ Depth + 1 \in Nat
    BY DEF TypeOK, EnterBody, FunctionScope, TagTable, ConstantTable, Depth
  <1>2. tags \in [Tags -> Binding \cup {None}] /\ constants \in [Names -> Values \cup {None}]
    BY DEF TypeOK, TagTable, ConstantTable
  <1>3. /\ new.tags = [t \in Tags |-> IF function_scope.tags[t] = None THEN <<>>
                                      ELSE <<tags[t]>>]
        /\ new.constants = [n \in Names |-> IF BodyNames(function_scope)[n] = "none" THEN <<>>
                                            ELSE <<constants[n]>>]
    BY DEF BodyScope, EmptyScope
  <1>4. new.tags \in [Tags -> Seq(Binding \cup {None})]
    <2>1. ASSUME NEW t \in Tags
          PROVE  (IF function_scope.tags[t] = None THEN <<>> ELSE <<tags[t]>>)
                    \in Seq(Binding \cup {None})
      <3>1. <<tags[t]>> \in Seq(Binding \cup {None}) BY <1>2, ShortSeq
      <3> QED BY <3>1, ShortSeq, Zenon
    <2> QED BY <2>1, <1>3, Zenon
  <1>5. new.constants \in [Names -> Seq(Values \cup {None})]
    <2>1. ASSUME NEW n \in Names
          PROVE  (IF BodyNames(function_scope)[n] = "none" THEN <<>> ELSE <<constants[n]>>)
                    \in Seq(Values \cup {None})
      <3>1. <<constants[n]>> \in Seq(Values \cup {None}) BY <1>2, ShortSeq
      <3> QED BY <3>1, ShortSeq, Zenon
    <2> QED BY <2>1, <1>3, ZenonT(60)
  <1>6. BodyNames(function_scope) \in [Names -> NameClasses]
    BY DEF BodyNames, NameClasses
  <1>7. new \in ScopeRecord
    <2>1. /\ new = [EmptyScope(TRUE, FALSE) EXCEPT !.tags = new.tags,
                       !.constants = new.constants, !.names = BodyNames(function_scope)]
      BY DEF BodyScope, EmptyScope
    <2> HIDE DEF new
    <2> QED BY <2>1, <1>4, <1>5, <1>6 DEF ScopeRecord, EmptyScope
  <1>8. tags' \in TagTable
    BY <1>1, <1>2 DEF EnterBody, TagTable, Binding
  <1>9. constants' \in ConstantTable
    BY <1>1, <1>2 DEF EnterBody, ConstantTable
  <1>10. Undone(tags', new.tags) = tags
    <2>1. DOMAIN tags' = Tags /\ DOMAIN tags = Tags BY <1>2, <1>8 DEF TagTable
    <2>2. ASSUME NEW t \in Tags
          PROVE  (IF new.tags[t] = <<>> THEN tags'[t] ELSE new.tags[t][1]) = tags[t]
      BY <1>3 DEF EnterBody
    <2> HIDE DEF new
    <2> QED BY <1>2, <2>1, <2>2 DEF Undone
  <1>11. Undone(constants', new.constants) = constants
    <2>1. DOMAIN constants' = Names /\ DOMAIN constants = Names
      BY <1>2, <1>9 DEF ConstantTable
    <2>2. ASSUME NEW n \in Names
          PROVE  (IF new.constants[n] = <<>> THEN constants'[n] ELSE new.constants[n][1])
                   = constants[n]
      <3>1. CASE BodyNames(function_scope)[n] = "none"
        <4>1. n \notin function_scope.parameters /\ function_scope.constants[n] = None
          BY <3>1 DEF BodyNames
        <4> QED BY <1>3, <3>1, <4>1 DEF EnterBody
      <3>2. CASE BodyNames(function_scope)[n] # "none"
        BY <1>3, <3>2
      <3> QED BY <3>1, <3>2
    <2> HIDE DEF new
    <2> QED BY <1>2, <2>1, <2>2 DEF Undone
  <1> QED BY <1>7, <1>8, <1>9, <1>10, <1>11

-----------------------------------------------------------------------------
(* The invariant *)

\* The logs of an analysis still lead back after a step in the innermost scope.
LEMMA KeptRestores ==
    ASSUME ScopesInv, Kept, UNCHANGED entered
    PROVE  LogsRestore'
  <1>1. Len(scopes) \in Nat /\ Len(scopes') = Len(scopes)
    BY DEF ScopesInv, TypeOK, Kept
  <1>2. SUFFICES ASSUME NEW d \in 1..Len(scopes)
                 PROVE  /\ Undone(TablesAt(d)'.tags, scopes'[d].tags) = entered[d].tags
                        /\ Undone(TablesAt(d)'.constants, scopes'[d].constants)
                             = entered[d].constants
    BY <1>1 DEF LogsRestore, Depth
  <1>3. /\ Undone(TablesAt(d).tags, scopes[d].tags) = entered[d].tags
        /\ Undone(TablesAt(d).constants, scopes[d].constants) = entered[d].constants
    BY DEF ScopesInv, LogsRestore, Depth
  <1>4. CASE d < Len(scopes)
    <2>1. TablesAt(d)' = TablesAt(d)
      BY <1>1, <1>4, TablesKept DEF ScopesInv, Depth
    <2> QED BY <1>3, <1>4, <2>1 DEF Kept
  <1>5. CASE d = Len(scopes)
    <2>1. InScope /\ Top = scopes[d] BY <1>1, <1>5 DEF InScope, Top, Depth
    <2>2. TablesAt(d) = Tables /\ TablesAt(d)' = Tables'
      BY <1>1, <1>5 DEF TablesAt, Depth
    <2> QED BY <1>3, <1>5, <2>1, <2>2 DEF Kept, Tables
  <1> QED BY <1>1, <1>4, <1>5

\* They do when a scope is entered whose first log leads back.
LEMMA EnterRestores ==
    ASSUME ScopesInv, NEW new, Enter(new),
           Undone(tags', new.tags) = tags, Undone(constants', new.constants) = constants
    PROVE  LogsRestore'
  <1>1. /\ Len(scopes) \in Nat /\ Len(scopes') = Len(scopes) + 1
        /\ \A d \in 1..Len(scopes) : scopes'[d] = scopes[d] /\ entered'[d] = entered[d]
        /\ scopes'[Len(scopes) + 1] = new
        /\ entered'[Len(scopes) + 1] = Tables
        /\ \A d \in 0..Len(scopes) : TablesAt(d)' = TablesAt(d)
    BY TablesEntered DEF ScopesInv, TypeOK, Depth
  <1>2. SUFFICES ASSUME NEW d \in 1..(Len(scopes) + 1)
                 PROVE  /\ Undone(TablesAt(d)'.tags, scopes'[d].tags) = entered'[d].tags
                        /\ Undone(TablesAt(d)'.constants, scopes'[d].constants)
                             = entered'[d].constants
    BY <1>1 DEF LogsRestore, Depth
  <1>3. CASE d <= Len(scopes)
    BY <1>1, <1>3 DEF ScopesInv, LogsRestore, Depth
  <1>4. CASE d = Len(scopes) + 1
    <2>1. TablesAt(d)' = Tables' BY <1>1, <1>4 DEF TablesAt, Depth
    <2> QED BY <1>1, <1>4, <2>1 DEF Tables
  <1> QED BY <1>1, <1>3, <1>4

\* They do in the scopes around one that is left.
LEMMA LeaveRestores ==
    ASSUME ScopesInv, leave_prototype
    PROVE  LogsRestore'
  <1>0. Len(scopes) \in Nat BY DEF ScopesInv, TypeOK
  <1>1. /\ Len(scopes') = Len(scopes) - 1
        /\ \A d \in 1..(Len(scopes) - 1) : scopes'[d] = scopes[d] /\ entered'[d] = entered[d]
        /\ \A d \in 0..(Len(scopes) - 1) : TablesAt(d)' = TablesAt(d)
    BY TablesLeft DEF Depth
  <1>2. SUFFICES ASSUME NEW d \in 1..(Len(scopes) - 1)
                 PROVE  /\ Undone(TablesAt(d)'.tags, scopes'[d].tags) = entered'[d].tags
                        /\ Undone(TablesAt(d)'.constants, scopes'[d].constants)
                             = entered'[d].constants
    BY <1>0, <1>1 DEF LogsRestore, Depth
  <1> QED BY <1>0, <1>1 DEF ScopesInv, LogsRestore, Depth

\* A scope with no entry leads back to the tables it was entered with.
LEMMA EmptyScopeFacts ==
    ASSUME TypeOK, NEW block \in BOOLEAN, NEW definition \in BOOLEAN
    PROVE  /\ EmptyScope(block, definition) \in ScopeRecord
           /\ Undone(tags, EmptyScope(block, definition).tags) = tags
           /\ Undone(constants, EmptyScope(block, definition).constants) = constants
  <1>1. /\ [t \in Tags |-> <<>>] \in [Tags -> Seq(Binding \cup {None})]
        /\ [n \in Names |-> <<>>] \in [Names -> Seq(Values \cup {None})]
    BY ShortSeq
  <1>2. EmptyScope(block, definition) \in ScopeRecord
    BY <1>1 DEF EmptyScope, ScopeRecord, NameClasses
  <1>3. Undone(tags, EmptyScope(block, definition).tags) = tags
    BY DEF TypeOK, TagTable, EmptyScope, Undone
  <1>4. Undone(constants, EmptyScope(block, definition).constants) = constants
    BY DEF TypeOK, ConstantTable, EmptyScope, Undone
  <1> QED BY <1>2, <1>3, <1>4

\* Entering a typed scope keeps the stacks typed.
LEMMA EnterType ==
    ASSUME TypeOK, NEW new \in ScopeRecord, Enter(new)
    PROVE  /\ scopes' \in Seq(ScopeRecord) /\ entered' \in Seq(TableRecord)
           /\ Len(entered') = Len(scopes')
  <1>1. Tables \in TableRecord BY DEF Tables, TableRecord, TypeOK
  <1> QED BY <1>1, AddLast DEF TypeOK, Enter

\* A new type is typed.
LEMMA NewTypeType ==
    ASSUME TypeOK, NEW kind \in Kinds
    PROVE  Append(types, NewType(kind, FALSE)) \in Seq(TypeRecord)
  BY DEF TypeOK, NewType, TypeRecord, scope

\* The initial state has no scopes.
LEMMA InitScopes == Init => ScopesInv
  BY DEF Init, ScopesInv, TypeOK, LogsRestore, TagTable, ConstantTable, Depth

\* Every step keeps types and logs.
LEMMA NextScopes == ScopesInv /\ [Next]_vars => ScopesInv'
  <1> SUFFICES ASSUME ScopesInv, [Next]_vars PROVE ScopesInv'
    OBVIOUS
  <1>0. TypeOK BY DEF ScopesInv
  <1>1. ASSUME NEW t \in Tags, NEW kind \in Kinds, IntroduceTag(t, kind)
        PROVE  ScopesInv'
    <2>1. tags' \in TagTable /\ scopes' \in Seq(ScopeRecord) /\ Kept
      BY <1>0, <1>1, BindTagKeeps DEF IntroduceTag
    <2>2. types' \in Seq(TypeRecord)
      BY <1>0, <1>1, NewTypeType DEF IntroduceTag
    <2>3. LogsRestore' BY <1>1, <2>1, KeptRestores DEF IntroduceTag
    <2>4. TypeOK' BY <1>0, <1>1, <2>1, <2>2 DEF TypeOK, IntroduceTag, Kept
    <2> QED BY <2>3, <2>4 DEF ScopesInv
  <1>2. ASSUME NEW t \in Tags, NEW kind \in Kinds, StandaloneTag(t, kind)
        PROVE  ScopesInv'
    <2>1. tags' \in TagTable /\ scopes' \in Seq(ScopeRecord) /\ Kept
      BY <1>0, <1>2, StandaloneKeeps
    <2>2. types' \in Seq(TypeRecord)
      BY <1>0, <1>2, NewTypeType DEF StandaloneTag
    <2>3. LogsRestore' BY <1>2, <2>1, KeptRestores DEF StandaloneTag
    <2>4. TypeOK' BY <1>0, <1>2, <2>1, <2>2 DEF TypeOK, StandaloneTag, Kept
    <2> QED BY <2>3, <2>4 DEF ScopesInv
  <1>3. ASSUME NEW t \in Tags, NEW kind \in Kinds, BeginBody(t, kind)
        PROVE  ScopesInv'
    <2>1. open' \in Seq([id : Nat, depth : Nat])
      <3>1. Here(t) => tags[t] \in Binding
        BY <1>0 DEF TypeOK, TagTable, Here
      <3>2. Depth \in Nat /\ Len(types) + 1 \in Nat /\ open \in Seq([id : Nat, depth : Nat])
        BY <1>0 DEF TypeOK, Depth
      <3>3. (IF Here(t) THEN tags[t].id ELSE Len(types) + 1) \in Nat
        BY <3>1, <3>2 DEF Binding
      <3> DEFINE body == [id |-> IF Here(t) THEN tags[t].id ELSE Len(types) + 1, depth |-> Depth]
      <3>4. body \in [id : Nat, depth : Nat]
        BY <3>2, <3>3
      <3>5. open' = Append(open, body)
        BY <1>3 DEF BeginBody
      <3> HIDE DEF body
      <3> QED BY <3>2, <3>4, <3>5, AddLast
    <2>2. /\ tags' \in TagTable /\ scopes' \in Seq(ScopeRecord) /\ Kept
          /\ types' \in Seq(TypeRecord)
      <3>1. CASE Here(t)
        <4>1. UNCHANGED <<tags, constants, scopes, types>>
          BY <1>3, <3>1 DEF BeginBody
        <4>2. Kept BY <4>1 DEF Kept, InScope, Top, Depth
        <4> QED BY <1>0, <4>1, <4>2 DEF TypeOK
      <3>2. CASE ~Here(t)
        BY <1>0, <1>3, <3>2, BindTagKeeps, NewTypeType DEF BeginBody
      <3> QED BY <3>1, <3>2
    <2>3. LogsRestore' BY <1>3, <2>2, KeptRestores DEF BeginBody
    <2>4. TypeOK' BY <1>0, <1>3, <2>1, <2>2 DEF TypeOK, BeginBody, Kept
    <2> QED BY <2>3, <2>4 DEF ScopesInv
  <1>4. CASE EndBody
    <2>1. Kept /\ UNCHANGED entered BY <1>4 DEF EndBody, Kept, InScope, Top, Depth
    <2>2. types' \in Seq(TypeRecord)
      <3> DEFINE id == open[Len(open)].id
                 completed == [types[id] EXCEPT !.complete = TRUE]
      <3>1. types \in Seq(TypeRecord) /\ types' = [types EXCEPT ![id] = completed]
        BY <1>0, <1>4 DEF EndBody, TypeOK
      <3>2. ASSUME id \in 1..Len(types)
            PROVE  completed \in TypeRecord
        <4>1. types[id] \in TypeRecord BY <3>1, <3>2
        <4> QED BY <4>1 DEF TypeRecord
      <3> HIDE DEF id, completed
      <3> QED BY <3>1, <3>2, ReplaceAny
    <2>3. open' \in Seq([id : Nat, depth : Nat])
      BY <1>0, <1>4, DropLast DEF EndBody, Open, TypeOK
    <2>4. TypeOK' BY <1>0, <1>4, <2>2, <2>3 DEF TypeOK, EndBody
    <2> QED BY <2>1, <2>4, KeptRestores DEF ScopesInv
  <1>5. ASSUME NEW n \in Names, NEW v \in Values, Enumerator(n, v)
        PROVE  ScopesInv'
    <2>1. constants' \in ConstantTable /\ scopes' \in Seq(ScopeRecord) /\ Kept
      <3>1. CASE InScope
        <4>1. NameDeclared(n, v, "enumerator")
          BY <1>5, <3>1 DEF Enumerator, NameDeclared
        <4> QED BY <1>0, <1>5, <3>1, <4>1, NameKeeps DEF Enumerator, NameClasses
      <3>2. CASE ~InScope
        BY <1>0, <1>5, <3>2 DEF Enumerator, TypeOK, ConstantTable, Kept
      <3> QED BY <3>1, <3>2
    <2>2. LogsRestore' BY <1>5, <2>1, KeptRestores DEF Enumerator
    <2>3. TypeOK' BY <1>0, <1>5, <2>1 DEF TypeOK, Enumerator, Kept
    <2> QED BY <2>2, <2>3 DEF ScopesInv
  <1>6. ASSUME NEW n \in Names, NEW class \in {"object", "typedef"}, DeclareLocal(n, class)
        PROVE  ScopesInv'
    <2>1. constants' \in ConstantTable /\ scopes' \in Seq(ScopeRecord) /\ Kept
      <3>1. NameDeclared(n, None, class)
        BY <1>6 DEF DeclareLocal, Hide, NameDeclared
      <3> QED BY <1>0, <1>6, <3>1, NameKeeps DEF DeclareLocal, NameClasses
    <2>2. LogsRestore' BY <1>6, <2>1, KeptRestores DEF DeclareLocal
    <2>3. TypeOK' BY <1>0, <1>6, <2>1 DEF TypeOK, DeclareLocal, Kept
    <2> QED BY <2>2, <2>3 DEF ScopesInv
  <1>7. ASSUME NEW definition \in BOOLEAN, EnterPrototype(definition)
        PROVE  ScopesInv'
    <2> DEFINE new == EmptyScope(FALSE, definition)
    <2>1. Enter(new) /\ tags' = tags /\ constants' = constants
      BY <1>7 DEF EnterPrototype
    <2>2. /\ new \in ScopeRecord
          /\ Undone(tags, new.tags) = tags /\ Undone(constants, new.constants) = constants
      BY <1>0, EmptyScopeFacts
    <2> HIDE DEF new
    <2>3. LogsRestore' BY <2>1, <2>2, EnterRestores
    <2>4. /\ scopes' \in Seq(ScopeRecord) /\ entered' \in Seq(TableRecord)
          /\ Len(entered') = Len(scopes')
      BY <1>0, <2>1, <2>2, EnterType
    <2>5. TypeOK' BY <1>0, <1>7, <2>4 DEF TypeOK, EnterPrototype
    <2> QED BY <2>3, <2>5 DEF ScopesInv
  <1>8. CASE EnterBlock
    <2> DEFINE new == EmptyScope(TRUE, FALSE)
    <2>1. Enter(new) /\ tags' = tags /\ constants' = constants
      BY <1>8 DEF EnterBlock
    <2>2. /\ new \in ScopeRecord
          /\ Undone(tags, new.tags) = tags /\ Undone(constants, new.constants) = constants
      BY <1>0, EmptyScopeFacts
    <2> HIDE DEF new
    <2>3. LogsRestore' BY <2>1, <2>2, EnterRestores
    <2>4. /\ scopes' \in Seq(ScopeRecord) /\ entered' \in Seq(TableRecord)
          /\ Len(entered') = Len(scopes')
      BY <1>0, <2>1, <2>2, EnterType
    <2>5. TypeOK' BY <1>0, <1>8, <2>4 DEF TypeOK, EnterBlock
    <2> QED BY <2>3, <2>5 DEF ScopesInv
  <1>9. CASE leave_prototype
    <2>1. /\ tags' \in TagTable /\ constants' \in ConstantTable
          /\ scopes' \in Seq(ScopeRecord) /\ entered' \in Seq(TableRecord)
          /\ Len(scopes') = Len(scopes) - 1 /\ Len(entered') = Len(scopes) - 1
      BY <1>9, TablesLeft
    <2>2. function_scope' = None \/ function_scope' \in FunctionScope
      <3>1. InScope /\ Top \in ScopeRecord
        BY <1>0, <1>9, TopType DEF leave_prototype
      <3>2. Bound(tags, Top.tags) \in TagTable /\ Bound(constants, Top.constants) \in ConstantTable
        BY <1>0 DEF TypeOK, Bound, TagTable, ConstantTable
      <3>3. Top.ids \in SUBSET Nat
        BY <3>1 DEF ScopeRecord
      <3>4. Captured(Top) \in FunctionScope
        BY <3>2, <3>3 DEF Captured, FunctionScope
      <3> QED BY <1>0, <1>9, <3>4 DEF leave_prototype, TypeOK
    <2>3. stage' \in {"file", "header", "declared", "body", "failed"}
      BY <1>0, <1>9 DEF leave_prototype, TypeOK
    <2>4. TypeOK' BY <1>0, <1>9, <2>1, <2>2, <2>3 DEF TypeOK, leave_prototype
    <2> QED BY <1>9, <2>4, LeaveRestores DEF ScopesInv
  <1>10. CASE EnterBody
    <2> DEFINE new == BodyScope(function_scope)
    <2>1. /\ tags' \in TagTable /\ constants' \in ConstantTable /\ new \in ScopeRecord
          /\ Undone(tags', new.tags) = tags /\ Undone(constants', new.constants) = constants
      BY <1>0, <1>10, BodyEntered
    <2>2. Enter(new) BY <1>10 DEF EnterBody
    <2> HIDE DEF new
    <2>3. LogsRestore' BY <2>1, <2>2, EnterRestores
    <2>4. /\ scopes' \in Seq(ScopeRecord) /\ entered' \in Seq(TableRecord)
          /\ Len(entered') = Len(scopes')
      BY <1>0, <2>1, <2>2, EnterType
    <2>5. types' \in Seq(TypeRecord)
      <3>1. ASSUME NEW i \in 1..Len(types)
            PROVE  (IF i \in function_scope.ids THEN [types[i] EXCEPT !.scope = "Block"]
                    ELSE types[i]) \in TypeRecord
        <4>1. types[i] \in TypeRecord BY <1>0 DEF TypeOK
        <4> QED BY <4>1 DEF TypeRecord
      <3>2. Len(types) \in Nat BY <1>0 DEF TypeOK
      <3> QED BY <1>10, <3>1, <3>2 DEF EnterBody
    <2>6. TypeOK' BY <1>0, <1>10, <2>1, <2>4, <2>5 DEF TypeOK, EnterBody
    <2> QED BY <2>3, <2>6 DEF ScopesInv
  <1>11. ASSUME NEW n \in Names, DeclareFile(n)
         PROVE  ScopesInv'
    <2>1. Kept /\ UNCHANGED entered BY <1>11 DEF DeclareFile, Kept, InScope, Top, Depth
    <2>2. TypeOK' BY <1>0, <1>11 DEF TypeOK, DeclareFile
    <2> QED BY <2>1, <2>2, KeptRestores DEF ScopesInv
  <1>12. CASE BeginDefinition
    <2>1. Kept /\ UNCHANGED entered BY <1>12 DEF BeginDefinition, Kept, InScope, Top, Depth
    <2>2. TypeOK' BY <1>0, <1>12 DEF TypeOK, BeginDefinition
    <2> QED BY <2>1, <2>2, KeptRestores DEF ScopesInv
  <1>13. CASE Fail
    <2>1. Kept /\ UNCHANGED entered BY <1>13 DEF Fail, Kept, InScope, Top, Depth
    <2>2. TypeOK' BY <1>0, <1>13 DEF TypeOK, Fail
    <2> QED BY <2>1, <2>2, KeptRestores DEF ScopesInv
  <1>14. CASE UNCHANGED vars
    <2>1. Kept /\ UNCHANGED entered BY <1>14 DEF vars, Kept, InScope, Top, Depth
    <2>2. TypeOK' BY <1>0, <1>14 DEF TypeOK, vars
    <2> QED BY <2>1, <2>2, KeptRestores DEF ScopesInv
  <1> QED
    BY <1>1, <1>2, <1>3, <1>4, <1>5, <1>6, <1>7, <1>8, <1>9, <1>10, <1>11, <1>12, <1>13,
       <1>14 DEF Next, Failed

\* Types and logs are right in every state of every analysis (leave_prototype
\* undoes exactly what the declarations of its scope did).
THEOREM ScopesInvariant == Spec => []ScopesInv
  BY InitScopes, NextScopes, PTL DEF Spec

-----------------------------------------------------------------------------
(* Refinement *)

\* Every step stays in the innermost scope, enters one or leaves one.
LEMMA StepShape ==
    ASSUME ScopesInv, [Next]_vars
    PROVE  \/ Kept /\ UNCHANGED entered
           \/ \E new : Enter(new)
           \/ leave_prototype
  <1>0. TypeOK BY DEF ScopesInv
  <1>1. ASSUME NEW t \in Tags, NEW kind \in Kinds, IntroduceTag(t, kind)
        PROVE  Kept /\ UNCHANGED entered
    BY <1>0, <1>1, BindTagKeeps DEF IntroduceTag
  <1>2. ASSUME NEW t \in Tags, NEW kind \in Kinds, StandaloneTag(t, kind)
        PROVE  Kept /\ UNCHANGED entered
    BY <1>0, <1>2, StandaloneKeeps DEF StandaloneTag
  <1>3. ASSUME NEW t \in Tags, NEW kind \in Kinds, BeginBody(t, kind)
        PROVE  Kept /\ UNCHANGED entered
    <2>1. CASE Here(t)
      <3>1. UNCHANGED <<tags, constants, scopes, entered>>
        BY <1>3, <2>1 DEF BeginBody
      <3> QED BY <3>1 DEF Kept, InScope, Top, Depth
    <2>2. CASE ~Here(t)
      BY <1>0, <1>3, <2>2, BindTagKeeps DEF BeginBody
    <2> QED BY <2>1, <2>2
  <1>4. ASSUME NEW n \in Names, NEW v \in Values, Enumerator(n, v)
        PROVE  Kept /\ UNCHANGED entered
    <2>1. CASE InScope
      <3>1. NameDeclared(n, v, "enumerator")
        BY <1>4, <2>1 DEF Enumerator, NameDeclared
      <3> QED BY <1>0, <1>4, <2>1, <3>1, NameKeeps DEF Enumerator, NameClasses
    <2>2. CASE ~InScope
      BY <1>4, <2>2 DEF Enumerator, Kept
    <2> QED BY <2>1, <2>2
  <1>5. ASSUME NEW n \in Names, NEW class \in {"object", "typedef"}, DeclareLocal(n, class)
        PROVE  Kept /\ UNCHANGED entered
    <2>1. NameDeclared(n, None, class)
      BY <1>5 DEF DeclareLocal, Hide, NameDeclared
    <2> QED BY <1>0, <1>5, <2>1, NameKeeps DEF DeclareLocal, NameClasses
  <1>6. ASSUME UNCHANGED <<tags, constants, scopes, entered>>
        PROVE  Kept /\ UNCHANGED entered
    BY <1>6 DEF Kept, InScope, Top, Depth
  <1>7. CASE EndBody BY <1>6, <1>7 DEF EndBody
  <1>8. ASSUME NEW n \in Names, DeclareFile(n)
        PROVE  Kept /\ UNCHANGED entered
    BY <1>6, <1>8 DEF DeclareFile
  <1>9. CASE BeginDefinition BY <1>6, <1>9 DEF BeginDefinition
  <1>10. CASE Fail BY <1>6, <1>10 DEF Fail
  <1>11. CASE UNCHANGED vars BY <1>6, <1>11 DEF vars
  <1>12. ASSUME NEW definition \in BOOLEAN, EnterPrototype(definition)
         PROVE  \E new : Enter(new)
    BY <1>12 DEF EnterPrototype
  <1>13. CASE EnterBlock BY <1>13 DEF EnterBlock
  <1>14. CASE EnterBody BY <1>14 DEF EnterBody
  <1> QED
    BY <1>1, <1>2, <1>3, <1>4, <1>5, <1>7, <1>8, <1>9, <1>10, <1>11, <1>12, <1>13, <1>14
       DEF Next, Failed

\* The length of a stack of environments.
LEMMA StackLength ==
    ASSUME NEW n \in Nat, NEW f, f = [i \in 1..n |-> f[i]]
    PROVE  Len(f) = n
  OBVIOUS

\* A step of the analyzer is a step of ScopeStack or none.
LEMMA NextRefines == ScopesInv /\ ScopesInv' /\ [Next]_vars => [Lexical!Next]_Stack
  <1> SUFFICES ASSUME ScopesInv, ScopesInv', [Next]_vars
               PROVE  Lexical!Next
    OBVIOUS
  <1>0. TypeOK BY DEF ScopesInv
  <1>1. Depth \in Nat /\ Depth' \in Nat
    BY DEF ScopesInv, TypeOK, Depth
  <1>2. Len(Stack) = Depth + 1 /\ Len(Stack') = Depth' + 1
    <2>1. Stack = [i \in 1..(Depth + 1) |-> Stack[i]] BY DEF Stack
    <2>2. Stack' = [i \in 1..(Depth' + 1) |-> Stack'[i]] BY DEF Stack
    <2>3. Depth + 1 \in Nat /\ Depth' + 1 \in Nat BY DEF ScopesInv, TypeOK, Depth
    <2> QED BY <2>1, <2>2, <2>3, StackLength
  <1>3. \A i \in 1..(Depth + 1) : Stack[i] = TablesAt(i - 1)
    BY DEF Stack
  <1>4. \A i \in 1..(Depth' + 1) : Stack'[i] = TablesAt(i - 1)'
    BY DEF Stack
  <1>5. CASE Kept /\ UNCHANGED entered
    <2>1. Depth' = Depth BY <1>5 DEF Kept, Depth
    <2>2. \A i \in 1..Depth : Stack'[i] = Stack[i]
      BY <1>0, <1>1, <1>3, <1>4, <1>5, <2>1, TablesKept
    <2>3. Lexical!Declare
      BY <1>1, <1>2, <2>1, <2>2 DEF Lexical!Declare
    <2> QED BY <2>3 DEF Lexical!Next
  <1>6. CASE \E new : Enter(new)
    <2>1. PICK new : Enter(new) BY <1>6
    <2>2. Depth' = Depth + 1 /\ \A d \in 0..Depth : TablesAt(d)' = TablesAt(d)
      BY <1>0, <2>1, TablesEntered DEF Depth
    <2>3. \A i \in 1..(Depth + 1) : Stack'[i] = Stack[i]
      BY <1>1, <1>3, <1>4, <2>2
    <2>4. Lexical!Enter
      BY <1>1, <1>2, <2>2, <2>3 DEF Lexical!Enter
    <2> QED BY <2>4 DEF Lexical!Next
  <1>7. CASE leave_prototype
    <2>1. Depth' = Depth - 1 /\ \A d \in 0..(Depth - 1) : TablesAt(d)' = TablesAt(d)
      BY <1>7, TablesLeft DEF Depth
    <2>2. \A i \in 1..Depth : Stack'[i] = Stack[i]
      BY <1>1, <1>3, <1>4, <2>1
    <2>3. Lexical!Leave
      BY <1>1, <1>2, <2>1, <2>2 DEF Lexical!Leave
    <2> QED BY <2>3 DEF Lexical!Next
  <1> QED BY <1>5, <1>6, <1>7, StepShape

\* The analysis starts with the environment of the file.
LEMMA InitRefines == Init => Lexical!Init
  <1> SUFFICES ASSUME Init PROVE Lexical!Init
    OBVIOUS
  <1>1. Depth = 0 BY DEF Init, Depth
  <1>2. Stack = [i \in 1..1 |-> Stack[i]] BY <1>1 DEF Stack
  <1>3. Len(Stack) = 1 BY <1>2, StackLength
  <1> QED BY <1>3 DEF Lexical!Init

\* The flat tables with undo logs implement a stack of environments: a
\* declaration reaches only the innermost scope, and leaving a scope restores
\* the tables around it (bind_tag, bind_local, leave_prototype).
THEOREM ScopeRefinement == Spec => ImplementsScopeStack
  <1>1. Init => Lexical!Init
    BY InitRefines
  <1>2. ScopesInv /\ ScopesInv' /\ [Next]_vars => [Lexical!Next]_Stack
    BY NextRefines
  <1>3. Spec => []ScopesInv
    BY ScopesInvariant
  <1> QED BY <1>1, <1>2, <1>3, PTL DEF Spec, ImplementsScopeStack, Lexical!Spec

-----------------------------------------------------------------------------
(* The depth of a tag *)

\* Nothing about tags changed as seen from depth d.
LEMMA SameTags ==
    ASSUME NEW d \in Nat, TagDepthAt(d),
           \A e \in 1..d : scopes'[e].tags = scopes[e].tags,
           TablesAt(d)'.tags = TablesAt(d).tags
    PROVE  TagDepthAt(d)'
  <1>1. \A t \in Tags : BindersOf(t, d)' = BindersOf(t, d)
    BY DEF BindersOf
  <1> QED BY <1>1 DEF TagDepthAt

\* A tag is bound, and logged, at depth d.
LEMMA BoundTag ==
    ASSUME NEW d \in Nat, NEW t \in Tags, TagDepthAt(d),
           d > 0 => scopes'[d].tags[t] # <<>>,
           \A e \in 1..d : \A u \in Tags : e < d \/ u # t => scopes'[e].tags[u] = scopes[e].tags[u],
           TablesAt(d)'.tags[t] \in Binding, TablesAt(d)'.tags[t].depth = d,
           \A u \in Tags : u # t => TablesAt(d)'.tags[u] = TablesAt(d).tags[u]
    PROVE  TagDepthAt(d)'
  <1>1. SUFFICES ASSUME NEW u \in Tags
                 PROVE  LET binding == TablesAt(d)'.tags[u]
                        IN  IF BindersOf(u, d)' = {} THEN binding # None => binding.depth = 0
                            ELSE /\ binding # None
                                 /\ binding.depth \in BindersOf(u, d)'
                                 /\ \A e \in BindersOf(u, d)' : e <= binding.depth
    BY DEF TagDepthAt
  <1>2. CASE u # t
    <2>1. BindersOf(u, d)' = BindersOf(u, d)
      BY <1>2 DEF BindersOf
    <2> QED BY <1>2, <2>1 DEF TagDepthAt
  <1>3. CASE u = t
    <2>1. TablesAt(d)'.tags[t] # None BY NoBindingAssumption
    <2>2. CASE d = 0
      <3>1. BindersOf(t, d)' = {} BY <2>2 DEF BindersOf
      <3> QED BY <1>3, <2>2, <3>1
    <2>3. CASE d > 0
      <3>1. d \in BindersOf(t, d)' /\ \A e \in BindersOf(t, d)' : e <= d
        BY <2>3 DEF BindersOf
      <3> QED BY <1>3, <2>1, <3>1
    <2> QED BY <2>2, <2>3
  <1> QED BY <1>2, <1>3

\* A step in the innermost scope disturbs no other depth.
LEMMA OuterTags ==
    ASSUME TypeOK, TagDepthExact, Kept, UNCHANGED entered, TagDepthAt(Depth)'
    PROVE  TagDepthExact'
  <1>1. Depth \in Nat /\ Depth' = Depth BY DEF TypeOK, Kept, Depth
  <1>2. SUFFICES ASSUME NEW d \in 0..Depth PROVE TagDepthAt(d)'
    BY <1>1 DEF TagDepthExact
  <1>3. CASE d = Depth
    <2>1. (TagDepthAt(Depth))' OBVIOUS
    <2> QED BY <1>1, <1>3, <2>1
  <1>4. CASE d < Depth
    <2>1. d \in 0..(Depth - 1) /\ d \in Nat BY <1>1, <1>4
    <2>2. TablesAt(d)' = TablesAt(d) BY <2>1, TablesKept
    <2>3. \A e \in 1..d : scopes'[e] = scopes[e]
      BY <1>1, <1>4 DEF Kept, Depth
    <2> QED BY <2>1, <2>2, <2>3, SameTags DEF TagDepthExact
  <1> QED BY <1>1, <1>3, <1>4

\* A step that binds tag t in the innermost scope.
TagBound(t) ==
    /\ tags' = [tags EXCEPT ![t] = [id |-> Len(types) + 1, depth |-> Depth]]
    /\ Len(scopes') = Len(scopes)
    /\ InScope => scopes'[Depth].tags[t] # <<>>
    /\ \A e \in 1..Len(scopes) : \A u \in Tags :
          e < Len(scopes) \/ u # t => scopes'[e].tags[u] = scopes[e].tags[u]

LEMMA TagBoundDepth ==
    ASSUME TypeOK, TagDepthExact, Kept, UNCHANGED entered, NEW t \in Tags, TagBound(t)
    PROVE  TagDepthExact'
  <1>1. Depth \in Nat /\ Depth' = Depth /\ Len(types) + 1 \in Nat
    BY DEF TypeOK, Kept, Depth
  <1>2. /\ TablesAt(Depth)' = Tables' /\ TablesAt(Depth) = Tables
    BY <1>1 DEF TablesAt
  <1>3. tags'[t] = [id |-> Len(types) + 1, depth |-> Depth]
        /\ \A u \in Tags : u # t => tags'[u] = tags[u]
    BY DEF TagBound, TypeOK, TagTable
  <1>4. tags'[t] \in Binding /\ tags'[t].depth = Depth
    BY <1>1, <1>3 DEF Binding
  <1>5. Depth > 0 => scopes'[Depth].tags[t] # <<>>
    BY DEF TagBound, InScope
  <1>6. \A e \in 1..Depth : \A u \in Tags :
          e < Depth \/ u # t => scopes'[e].tags[u] = scopes[e].tags[u]
    BY DEF TagBound, Depth
  <1>7. TagDepthAt(Depth) BY <1>1 DEF TagDepthExact
  <1>a. PICK d \in Nat : d = Depth BY <1>1
  <1>8. /\ TagDepthAt(d) /\ (d > 0 => scopes'[d].tags[t] # <<>>)
        /\ \A e \in 1..d : \A u \in Tags :
              e < d \/ u # t => scopes'[e].tags[u] = scopes[e].tags[u]
        /\ TablesAt(d)'.tags[t] \in Binding /\ TablesAt(d)'.tags[t].depth = d
        /\ \A u \in Tags : u # t => TablesAt(d)'.tags[u] = TablesAt(d).tags[u]
    BY <1>a, <1>1, <1>2, <1>3, <1>4, <1>5, <1>6, <1>7 DEF Tables
  <1>9. TagDepthAt(d)'
    BY <1>8, BoundTag
  <1>10. TagDepthAt(Depth)'
    BY <1>1, <1>9, <1>a
  <1> QED BY <1>10, OuterTags

\* bind_tag and the declaration of `struct t;' in a block bind a tag.
LEMMA BindTagBinds ==
    ASSUME TypeOK, NEW t \in Tags, NEW kind \in Kinds, bind_tag(t) \/ StandaloneTag(t, kind)
    PROVE  TagBound(t)
  <1>1. tags' = [tags EXCEPT ![t] = [id |-> Len(types) + 1, depth |-> Depth]]
    BY DEF bind_tag, StandaloneTag
  <1>2. CASE ~InScope
    <2>1. scopes' = scopes BY <1>2 DEF bind_tag, StandaloneTag, InBlock
    <2>2. Len(scopes) = 0 BY <1>2 DEF InScope, Depth, TypeOK
    <2> QED BY <1>1, <1>2, <2>1, <2>2 DEF TagBound
  <1>3. CASE InScope
    <2>1. Depth \in 1..Len(scopes) /\ Top \in ScopeRecord /\ Depth = Len(scopes)
      BY <1>3, TopType DEF Depth
    <2>2. Top.tags \in [Tags -> Seq(Binding \cup {None})] /\ tags[t] \in Binding \cup {None}
      BY <2>1 DEF ScopeRecord, TypeOK, TagTable
    <2>3. PICK log : /\ log = LogTag(Top.tags, t) \/ log = LogHidden(Top.tags, t)
                     /\ scopes' = [scopes EXCEPT ![Depth] =
                            [Top EXCEPT !.tags = log, !.ids = @ \cup {Len(types) + 1}]]
      <3>1. CASE bind_tag(t)
        <4>1. scopes' = [scopes EXCEPT ![Depth] =
                [Top EXCEPT !.tags = LogTag(Top.tags, t), !.ids = @ \cup {Len(types) + 1}]]
          BY <1>3, <2>1, <3>1 DEF bind_tag, Top, TypeOK
        <4> QED BY <4>1
      <3>2. CASE StandaloneTag(t, kind)
        <4>1. scopes' = [scopes EXCEPT ![Depth] =
                [Top EXCEPT !.tags = LogHidden(Top.tags, t), !.ids = @ \cup {Len(types) + 1}]]
          BY <1>3, <2>1, <3>2 DEF StandaloneTag, Top, TypeOK
        <4> QED BY <4>1
      <3> QED BY <3>1, <3>2
    <2>4. log[t] # <<>> /\ \A u \in Tags : u # t => log[u] = Top.tags[u]
      <3> DEFINE first == Append(Top.tags[t], tags[t])
      <3>1. Top.tags[t] \in Seq(Binding \cup {None}) BY <2>2
      <3>2. first \in Seq(Binding \cup {None}) /\ first # <<>>
        BY <2>2, <3>1, FirstEntry
      <3>3. Append(first, None) # <<>>
        BY <3>2, FirstEntry
      <3>4. log[t] = first \/ log[t] = Append(first, None)
        BY <2>2, <2>3 DEF LogTag, LogHidden
      <3> HIDE DEF first
      <3>5. log[t] # <<>> BY <3>2, <3>3, <3>4
      <3>6. \A u \in Tags : u # t => log[u] = Top.tags[u]
        BY <2>2, <2>3 DEF LogTag, LogHidden
      <3> QED BY <3>5, <3>6
    <2> DEFINE new == [Top EXCEPT !.tags = log, !.ids = @ \cup {Len(types) + 1}]
    <2>5. new.tags = log BY <2>1 DEF ScopeRecord
    <2>6. /\ Len(scopes') = Len(scopes) /\ scopes'[Depth] = new
          /\ \A e \in 1..Len(scopes) : e < Len(scopes) => scopes'[e] = scopes[e]
      <3>1. scopes \in Seq(ScopeRecord) /\ scopes' = [scopes EXCEPT ![Depth] = new]
        BY <2>3 DEF TypeOK
      <3> HIDE DEF new
      <3> QED BY <2>1, <3>1
    <2>7. \A e \in 1..Len(scopes) : \A u \in Tags :
            e < Len(scopes) \/ u # t => scopes'[e].tags[u] = scopes[e].tags[u]
      <3> HIDE DEF new
      <3> QED BY <2>1, <2>4, <2>5, <2>6 DEF Top
    <2> HIDE DEF new
    <2> QED BY <1>1, <2>4, <2>5, <2>6, <2>7 DEF TagBound
  <1> QED BY <1>2, <1>3

\* A step in the innermost scope that binds no tag.
LEMMA TagsUnbound ==
    ASSUME TypeOK, TagDepthExact, Kept, UNCHANGED <<entered, tags>>,
           \A e \in 1..Len(scopes) : scopes'[e].tags = scopes[e].tags
    PROVE  TagDepthExact'
  <1>1. Depth \in Nat /\ Depth' = Depth BY DEF TypeOK, Kept, Depth
  <1>2. PICK d \in Nat : d = Depth BY <1>1
  <1>3. TablesAt(d)'.tags = TablesAt(d).tags
    BY <1>1, <1>2 DEF TablesAt, Tables
  <1>4. TagDepthAt(d) BY <1>1, <1>2 DEF TagDepthExact
  <1>5. \A e \in 1..d : scopes'[e].tags = scopes[e].tags BY <1>2 DEF Depth
  <1>6. TagDepthAt(d)' BY <1>3, <1>4, <1>5, SameTags
  <1>7. TagDepthAt(Depth)' BY <1>1, <1>2, <1>6
  <1> QED BY <1>7, OuterTags

\* Declaring a name binds no tag.
LEMMA NameTags ==
    ASSUME TypeOK, InScope, NEW n \in Names, NEW v, NEW class, NameDeclared(n, v, class)
    PROVE  \A e \in 1..Len(scopes) :
              /\ scopes'[e].tags = scopes[e].tags /\ scopes'[e].ids = scopes[e].ids
              /\ scopes'[e].block = scopes[e].block
              /\ scopes'[e].definition = scopes[e].definition
  <1>1. Depth \in 1..Len(scopes) /\ Top \in ScopeRecord BY TopType
  <1> DEFINE new == [Top EXCEPT !.constants = LogConstant(@, n), !.names[n] = class]
  <1>2. /\ new.tags = Top.tags /\ new.ids = Top.ids
        /\ new.block = Top.block /\ new.definition = Top.definition
    BY <1>1 DEF ScopeRecord
  <1>3. scopes \in Seq(ScopeRecord) /\ scopes' = [scopes EXCEPT ![Depth] = new]
    BY <1>1 DEF NameDeclared, Top, TypeOK
  <1> HIDE DEF new
  <1>4. \A e \in 1..Len(scopes) : IF e = Depth THEN scopes'[e] = new ELSE scopes'[e] = scopes[e]
    BY <1>1, <1>3
  <1> QED BY <1>2, <1>4 DEF Top

\* In a new scope tags have the depths they had around it, or the new one.
LEMMA EnteredTags ==
    ASSUME TypeOK, TagDepthExact, NEW new, Enter(new),
           \A t \in Tags : IF new.tags[t] = <<>> THEN tags'[t] = tags[t]
                           ELSE tags'[t] \in Binding /\ tags'[t].depth = Depth + 1
    PROVE  TagDepthExact'
  <1>1. /\ Depth \in Nat /\ Depth' = Depth + 1
        /\ \A e \in 1..Depth : scopes'[e] = scopes[e]
        /\ scopes'[Depth + 1] = new
        /\ \A d \in 0..Depth : TablesAt(d)' = TablesAt(d)
    BY TablesEntered DEF TypeOK, Depth
  <1>2. SUFFICES ASSUME NEW d \in 0..(Depth + 1) PROVE TagDepthAt(d)'
    BY <1>1 DEF TagDepthExact
  <1>3. CASE d <= Depth
    <2>1. d \in Nat /\ TagDepthAt(d) /\ TablesAt(d)' = TablesAt(d)
          /\ \A e \in 1..d : scopes'[e] = scopes[e]
      BY <1>1, <1>3 DEF TagDepthExact
    <2> QED BY <2>1, SameTags
  <1>4. CASE d = Depth + 1
    <2>1. TablesAt(d)' = Tables' BY <1>1, <1>4 DEF TablesAt
    <2>2. TablesAt(Depth) = Tables BY DEF TablesAt
    <2>3. SUFFICES ASSUME NEW t \in Tags
                   PROVE  LET binding == tags'[t]
                          IN  IF BindersOf(t, d)' = {} THEN binding # None => binding.depth = 0
                              ELSE /\ binding # None
                                   /\ binding.depth \in BindersOf(t, d)'
                                   /\ \A e \in BindersOf(t, d)' : e <= binding.depth
      BY <2>1 DEF TagDepthAt, Tables
    <2>4. CASE new.tags[t] = <<>>
      <3>1. BindersOf(t, d)' = BindersOf(t, Depth)
        BY <1>1, <1>4, <2>4 DEF BindersOf
      <3>2. TagDepthAt(Depth) BY <1>1 DEF TagDepthExact
      <3>3. tags'[t] = TablesAt(Depth).tags[t] BY <2>2, <2>4 DEF Tables
      <3> QED BY <3>1, <3>2, <3>3 DEF TagDepthAt
    <2>5. CASE new.tags[t] # <<>>
      <3>1. tags'[t] # None /\ tags'[t].depth = d
        BY <1>4, <2>5, NoBindingAssumption
      <3>2. d \in BindersOf(t, d)' /\ \A e \in BindersOf(t, d)' : e <= d
        BY <1>1, <1>4, <2>5 DEF BindersOf
      <3> QED BY <3>1, <3>2
    <2> QED BY <2>4, <2>5
  <1> QED BY <1>1, <1>3, <1>4

\* Every step keeps the depths exact.
LEMMA NextTags == ScopesInv /\ TagDepthExact /\ [Next]_vars => TagDepthExact'
  <1> SUFFICES ASSUME ScopesInv, TagDepthExact, [Next]_vars PROVE TagDepthExact'
    OBVIOUS
  <1>0. TypeOK BY DEF ScopesInv
  <1>1. ASSUME NEW t \in Tags, NEW kind \in Kinds, IntroduceTag(t, kind)
        PROVE  TagDepthExact'
    BY <1>0, <1>1, BindTagKeeps, BindTagBinds, TagBoundDepth DEF IntroduceTag
  <1>2. ASSUME NEW t \in Tags, NEW kind \in Kinds, StandaloneTag(t, kind)
        PROVE  TagDepthExact'
    <2>1. UNCHANGED entered BY <1>2 DEF StandaloneTag
    <2> QED BY <1>0, <1>2, <2>1, StandaloneKeeps, BindTagBinds, TagBoundDepth
  <1>a. ASSUME UNCHANGED <<tags, constants, scopes, entered>>
        PROVE  TagDepthExact'
    <2>1. Kept BY <1>a DEF Kept, InScope, Top, Depth
    <2> QED BY <1>0, <1>a, <2>1, TagsUnbound
  <1>3. ASSUME NEW t \in Tags, NEW kind \in Kinds, BeginBody(t, kind)
        PROVE  TagDepthExact'
    <2>1. CASE Here(t)
      BY <1>3, <1>a, <2>1 DEF BeginBody
    <2>2. CASE ~Here(t)
      BY <1>0, <1>3, <2>2, BindTagKeeps, BindTagBinds, TagBoundDepth DEF BeginBody
    <2> QED BY <2>1, <2>2
  <1>4. ASSUME NEW n \in Names, NEW v \in Values, Enumerator(n, v)
        PROVE  TagDepthExact'
    <2>1. CASE InScope
      <3>1. NameDeclared(n, v, "enumerator") /\ UNCHANGED <<tags, entered>>
        BY <1>4, <2>1 DEF Enumerator, NameDeclared
      <3>2. Kept BY <1>0, <2>1, <3>1, NameKeeps DEF NameClasses
      <3> QED BY <1>0, <2>1, <3>1, <3>2, NameTags, TagsUnbound
    <2>2. CASE ~InScope
      <3>1. UNCHANGED <<tags, scopes, entered>> BY <1>4, <2>2 DEF Enumerator
      <3>2. Kept BY <2>2, <3>1 DEF Kept
      <3> QED BY <1>0, <3>1, <3>2, TagsUnbound
    <2> QED BY <2>1, <2>2
  <1>5. ASSUME NEW n \in Names, NEW class \in {"object", "typedef"}, DeclareLocal(n, class)
        PROVE  TagDepthExact'
    <2>1. NameDeclared(n, None, class) /\ UNCHANGED <<tags, entered>> /\ InScope
      BY <1>5 DEF DeclareLocal, Hide, NameDeclared
    <2>2. Kept BY <1>0, <2>1, NameKeeps DEF NameClasses
    <2> QED BY <1>0, <2>1, <2>2, NameTags, TagsUnbound
  <1>6. CASE EndBody BY <1>a, <1>6 DEF EndBody
  <1>7. ASSUME NEW n \in Names, DeclareFile(n)
        PROVE  TagDepthExact'
    BY <1>a, <1>7 DEF DeclareFile
  <1>8. CASE BeginDefinition BY <1>a, <1>8 DEF BeginDefinition
  <1>9. CASE Fail BY <1>a, <1>9 DEF Fail
  <1>10. CASE UNCHANGED vars BY <1>a, <1>10 DEF vars
  <1>11. ASSUME NEW definition \in BOOLEAN, EnterPrototype(definition)
         PROVE  TagDepthExact'
    <2>1. Enter(EmptyScope(FALSE, definition)) /\ tags' = tags
      BY <1>11 DEF EnterPrototype
    <2>2. \A t \in Tags : EmptyScope(FALSE, definition).tags[t] = <<>>
      BY DEF EmptyScope
    <2> QED BY <1>0, <2>1, <2>2, EnteredTags
  <1>12. CASE EnterBlock
    <2>1. Enter(EmptyScope(TRUE, FALSE)) /\ tags' = tags
      BY <1>12 DEF EnterBlock
    <2>2. \A t \in Tags : EmptyScope(TRUE, FALSE).tags[t] = <<>>
      BY DEF EmptyScope
    <2> QED BY <1>0, <2>1, <2>2, EnteredTags
  <1>13. CASE EnterBody
    <2>1. Enter(BodyScope(function_scope)) BY <1>13 DEF EnterBody
    <2>2. ASSUME NEW t \in Tags
          PROVE  IF BodyScope(function_scope).tags[t] = <<>> THEN tags'[t] = tags[t]
                 ELSE tags'[t] \in Binding /\ tags'[t].depth = Depth + 1
      <3>1. /\ function_scope.tags[t] \in Binding \cup {None}
            /\ Depth + 1 \in Nat
        BY <1>0, <1>13 DEF TypeOK, EnterBody, FunctionScope, TagTable, Depth
      <3>2. BodyScope(function_scope).tags[t]
              = IF function_scope.tags[t] = None THEN <<>> ELSE <<tags[t]>>
        BY DEF BodyScope, EmptyScope
      <3>3. tags'[t] = IF function_scope.tags[t] = None THEN tags[t]
                       ELSE [id |-> function_scope.tags[t].id, depth |-> Depth + 1]
        BY <1>13 DEF EnterBody
      <3> QED BY <3>1, <3>2, <3>3 DEF Binding
    <2> QED BY <1>0, <2>1, <2>2, EnteredTags
  <1>14. CASE leave_prototype
    <2>1. /\ Depth' = Depth - 1
          /\ \A e \in 1..(Depth - 1) : scopes'[e] = scopes[e]
          /\ \A d \in 0..(Depth - 1) : TablesAt(d)' = TablesAt(d)
      BY <1>14, TablesLeft DEF Depth
    <2>2. Depth \in Nat BY <1>0 DEF TypeOK, Depth
    <2>3. ASSUME NEW d \in 0..(Depth - 1)
          PROVE  TagDepthAt(d)'
      <3>1. d \in Nat /\ TagDepthAt(d) /\ TablesAt(d)' = TablesAt(d)
            /\ \A e \in 1..d : scopes'[e] = scopes[e]
        BY <2>1, <2>2 DEF TagDepthExact
      <3> QED BY <3>1, SameTags
    <2> QED BY <2>1, <2>3 DEF TagDepthExact
  <1> QED
    BY <1>1, <1>2, <1>3, <1>4, <1>5, <1>6, <1>7, <1>8, <1>9, <1>10, <1>11, <1>12, <1>13,
       <1>14 DEF Next, Failed

\* record() and enum_type() compare depths: the depth kept with a tag is that of
\* the innermost scope that binds it.
THEOREM TagDepthHolds == Spec => []TagDepthExact
  <1>1. Init => TagDepthExact
    <2> SUFFICES ASSUME Init PROVE TagDepthExact
      OBVIOUS
    <2>1. Depth = 0 /\ TablesAt(0).tags = [t \in Tags |-> None]
      BY DEF Init, TablesAt, Tables, Depth
    <2>2. \A t \in Tags : BindersOf(t, 0) = {} BY DEF BindersOf
    <2>3. TagDepthAt(0) BY <2>1, <2>2 DEF TagDepthAt
    <2> QED BY <2>1, <2>3 DEF TagDepthExact
  <1> QED BY <1>1, NextTags, ScopesInvariant, PTL DEF Spec

-----------------------------------------------------------------------------
(* Which enumerators are visible *)

\* Nothing about ordinary names changed as seen from depth d.
LEMMA SameNames ==
    ASSUME NEW d \in Nat, ConstantsAt(d),
           \A e \in 1..d : scopes'[e].names = scopes[e].names,
           TablesAt(d)'.constants = TablesAt(d).constants,
           TablesAt(0)'.constants = TablesAt(0).constants
    PROVE  ConstantsAt(d)'
  <1>1. \A n \in Names : NamersOf(n, d)' = NamersOf(n, d) /\ NamersOf(n, d) \subseteq 1..d
    BY DEF NamersOf
  <1> QED BY <1>1 DEF ConstantsAt

\* At depth d > 0 a name changes in the innermost scope, or none does.
LEMMA NamedAt ==
    ASSUME NEW d \in Nat \ {0}, ConstantsAt(d),
           \A e \in 1..d : e < d => scopes'[e].names = scopes[e].names,
           TablesAt(0)'.constants = TablesAt(0).constants,
           \A n \in Names :
              \/ /\ scopes'[d].names[n] = scopes[d].names[n]
                 /\ TablesAt(d)'.constants[n] = TablesAt(d).constants[n]
              \/ /\ scopes'[d].names[n] # "none"
                 /\ TablesAt(d)'.constants[n] # None <=> scopes'[d].names[n] = "enumerator"
    PROVE  ConstantsAt(d)'
  <1>1. SUFFICES ASSUME NEW n \in Names
        PROVE  /\ NamersOf(n, d)' = {} =>
                     TablesAt(d)'.constants[n] = TablesAt(0)'.constants[n]
               /\ \A e \in NamersOf(n, d)' :
                     (\A f \in NamersOf(n, d)' : f <= e) =>
                        (TablesAt(d)'.constants[n] # None <=> scopes'[e].names[n] = "enumerator")
    BY DEF ConstantsAt
  <1>2. CASE /\ scopes'[d].names[n] = scopes[d].names[n]
             /\ TablesAt(d)'.constants[n] = TablesAt(d).constants[n]
    <2>1. \A e \in 1..d : scopes'[e].names[n] = scopes[e].names[n]
      BY <1>2
    <2>2. NamersOf(n, d)' = NamersOf(n, d) /\ NamersOf(n, d) \subseteq 1..d
      BY <2>1 DEF NamersOf
    <2> QED BY <1>2, <2>1, <2>2 DEF ConstantsAt
  <1>3. CASE /\ scopes'[d].names[n] # "none"
             /\ TablesAt(d)'.constants[n] # None <=> scopes'[d].names[n] = "enumerator"
    <2>1. d \in NamersOf(n, d)' /\ \A e \in NamersOf(n, d)' : e \in 1..d
      BY <1>3 DEF NamersOf
    <2> QED BY <1>3, <2>1
  <1> QED BY <1>2, <1>3

\* A step in the innermost scope disturbs no other depth.
LEMMA OuterNames ==
    ASSUME TypeOK, \A d \in 0..Depth : ConstantsAt(d), Kept, UNCHANGED entered, InScope,
           ConstantsAt(Depth)'
    PROVE  \A d \in 0..Depth' : ConstantsAt(d)'
  <1>1. Depth \in Nat \ {0} /\ Depth' = Depth BY DEF TypeOK, Kept, Depth, InScope
  <1>2. SUFFICES ASSUME NEW d \in 0..Depth PROVE ConstantsAt(d)'
    BY <1>1
  <1>3. CASE d = Depth
    <2>1. (ConstantsAt(Depth))' OBVIOUS
    <2> QED BY <1>1, <1>3, <2>1
  <1>4. CASE d < Depth
    <2>1. d \in 0..(Depth - 1) /\ 0 \in 0..(Depth - 1) /\ d \in Nat BY <1>1, <1>4
    <2>2. TablesAt(d)' = TablesAt(d) /\ TablesAt(0)' = TablesAt(0) BY <2>1, TablesKept
    <2>3. \A e \in 1..d : scopes'[e] = scopes[e]
      BY <1>1, <1>4 DEF Kept, Depth
    <2> QED BY <2>1, <2>2, <2>3, SameNames
  <1> QED BY <1>1, <1>3, <1>4

\* What the file says is what the tables say outside all scopes.
LEMMA FileKept ==
    ASSUME TypeOK, ConstantsVisible, Kept, UNCHANGED <<entered, file_names>>, InScope
    PROVE  \A n \in file_names' : TablesAt(0)'.constants[n] = None
  <1>1. 0 \in 0..(Depth - 1) BY DEF TypeOK, InScope, Depth
  <1>2. TablesAt(0)' = TablesAt(0) BY <1>1, TablesKept
  <1> QED BY <1>2 DEF ConstantsVisible

\* Declaring a name in a scope.
LEMMA NameVisible ==
    ASSUME TypeOK, ConstantsVisible, InScope, UNCHANGED <<tags, entered, file_names>>,
           NEW n \in Names, NEW v \in Values \cup {None}, NEW class \in NameClasses,
           class # "none", v # None <=> class = "enumerator", NameDeclared(n, v, class)
    PROVE  ConstantsVisible'
  <1>1. Kept /\ Depth \in 1..Len(scopes) /\ Top \in ScopeRecord
    BY NameKeeps, TopType
  <1>2. Depth \in Nat \ {0} /\ Depth' = Depth /\ 0 \in 0..(Depth - 1)
    BY <1>1 DEF TypeOK, Kept, Depth, InScope
  <1> DEFINE new == [Top EXCEPT !.constants = LogConstant(@, n), !.names[n] = class]
  <1>3. new.names = [Top.names EXCEPT ![n] = class] /\ Top.names \in [Names -> NameClasses]
    BY <1>1 DEF ScopeRecord
  <1>4. scopes \in Seq(ScopeRecord) /\ scopes' = [scopes EXCEPT ![Depth] = new]
    BY <1>1 DEF NameDeclared, Top, TypeOK
  <1> HIDE DEF new
  <1>5. scopes'[Depth] = new /\ \A e \in 1..Depth : e < Depth => scopes'[e] = scopes[e]
    BY <1>1, <1>4 DEF Depth
  <1>6. TablesAt(0)' = TablesAt(0) BY <1>1, <1>2, TablesKept
  <1>7. constants \in [Names -> Values \cup {None}] /\ constants' = [constants EXCEPT ![n] = v]
    BY DEF NameDeclared, TypeOK, ConstantTable
  <1>8. PICK d \in Nat \ {0} : d = Depth BY <1>2
  <1>9. TablesAt(d)'.constants = constants' /\ TablesAt(d).constants = constants
    BY <1>2, <1>8 DEF TablesAt, Tables
  <1>10. ASSUME NEW m \in Names
         PROVE  \/ /\ scopes'[d].names[m] = scopes[d].names[m]
                   /\ TablesAt(d)'.constants[m] = TablesAt(d).constants[m]
                \/ /\ scopes'[d].names[m] # "none"
                   /\ TablesAt(d)'.constants[m] # None <=> scopes'[d].names[m] = "enumerator"
    <2>1. CASE m = n
      BY <1>3, <1>5, <1>7, <1>8, <1>9, <2>1
    <2>2. CASE m # n
      BY <1>3, <1>5, <1>7, <1>8, <1>9, <2>2 DEF Top
    <2> QED BY <2>1, <2>2
  <1>11. ConstantsAt(d) /\ \A e \in 1..d : e < d => scopes'[e].names = scopes[e].names
    BY <1>2, <1>5, <1>8 DEF ConstantsVisible
  <1>12. ConstantsAt(d)' BY <1>6, <1>10, <1>11, NamedAt
  <1>13. ConstantsAt(Depth)' BY <1>2, <1>8, <1>12
  <1>14. \A e \in 0..Depth' : ConstantsAt(e)'
    BY <1>1, <1>13, OuterNames DEF ConstantsVisible
  <1> QED BY <1>1, <1>14, FileKept DEF ConstantsVisible

\* At the file's level no scope names anything.
LEMMA FileLevel == ConstantsAt(0) /\ ConstantsAt(0)'
  <1>1. \A n \in Names : NamersOf(n, 0) = {} /\ NamersOf(n, 0)' = {} BY DEF NamersOf
  <1> QED BY <1>1 DEF ConstantsAt

\* A step that touches no ordinary name.
LEMMA NamesUntouched ==
    ASSUME TypeOK, ConstantsVisible, Len(scopes') = Len(scopes),
           UNCHANGED <<entered, constants, file_names>>,
           \A e \in 1..Len(scopes) : scopes'[e].names = scopes[e].names
    PROVE  ConstantsVisible'
  <1>1. Depth \in Nat /\ Depth' = Depth BY DEF TypeOK, Depth
  <1>2. ASSUME NEW d \in 0..Depth
        PROVE  TablesAt(d)'.constants = TablesAt(d).constants
    BY <1>1 DEF TablesAt, Tables
  <1>3. 0 \in 0..Depth BY <1>1
  <1>4. ASSUME NEW d \in 0..Depth
        PROVE  ConstantsAt(d)'
    <2>1. d \in Nat /\ ConstantsAt(d) /\ \A e \in 1..d : scopes'[e].names = scopes[e].names
      BY <1>1 DEF ConstantsVisible, Depth
    <2> QED BY <1>2, <1>3, <2>1, SameNames
  <1> QED BY <1>1, <1>2, <1>3, <1>4 DEF ConstantsVisible

\* Binding a tag touches no ordinary name.
LEMMA BindTagNames ==
    ASSUME TypeOK, NEW t \in Tags, NEW kind \in Kinds, bind_tag(t) \/ StandaloneTag(t, kind)
    PROVE  /\ Len(scopes') = Len(scopes)
           /\ \A e \in 1..Len(scopes) :
                 /\ scopes'[e].names = scopes[e].names
                 /\ scopes'[e].constants = scopes[e].constants
                 /\ scopes'[e].block = scopes[e].block
                 /\ scopes'[e].definition = scopes[e].definition
                 /\ scopes'[e].ids = IF e < Len(scopes) THEN scopes[e].ids
                                     ELSE scopes[e].ids \cup {Len(types) + 1}
  <1>1. CASE ~InScope
    <2>1. scopes' = scopes BY <1>1 DEF bind_tag, StandaloneTag, InBlock
    <2>2. Len(scopes) = 0 BY <1>1 DEF InScope, Depth, TypeOK
    <2> QED BY <2>1, <2>2
  <1>2. CASE InScope
    <2>1. Depth \in 1..Len(scopes) /\ Top \in ScopeRecord BY <1>2, TopType
    <2>2. PICK log : scopes' = [scopes EXCEPT ![Depth] =
                            [Top EXCEPT !.tags = log, !.ids = @ \cup {Len(types) + 1}]]
      <3>1. CASE bind_tag(t)
        <4>1. scopes' = [scopes EXCEPT ![Depth] =
                [Top EXCEPT !.tags = LogTag(Top.tags, t), !.ids = @ \cup {Len(types) + 1}]]
          BY <1>2, <2>1, <3>1 DEF bind_tag, Top, TypeOK
        <4> QED BY <4>1
      <3>2. CASE StandaloneTag(t, kind)
        <4>1. scopes' = [scopes EXCEPT ![Depth] =
                [Top EXCEPT !.tags = LogHidden(Top.tags, t), !.ids = @ \cup {Len(types) + 1}]]
          BY <1>2, <2>1, <3>2 DEF StandaloneTag, Top, TypeOK
        <4> QED BY <4>1
      <3> QED BY <3>1, <3>2
    <2> DEFINE new == [Top EXCEPT !.tags = log, !.ids = @ \cup {Len(types) + 1}]
    <2>3. /\ new.names = Top.names /\ new.constants = Top.constants
          /\ new.block = Top.block /\ new.definition = Top.definition
          /\ new.ids = Top.ids \cup {Len(types) + 1}
      BY <2>1 DEF ScopeRecord
    <2>4. scopes \in Seq(ScopeRecord) /\ scopes' = [scopes EXCEPT ![Depth] = new]
      BY <2>2 DEF TypeOK
    <2> HIDE DEF new
    <2>5. /\ Len(scopes') = Len(scopes) /\ scopes'[Len(scopes)] = new /\ Top = scopes[Len(scopes)]
          /\ \A e \in 1..Len(scopes) : e < Len(scopes) => scopes'[e] = scopes[e]
      BY <2>1, <2>4 DEF Top, Depth
    <2>6. \A e \in 1..Len(scopes) : e < Len(scopes) \/ e = Len(scopes)
      BY DEF TypeOK
    <2> QED BY <2>3, <2>5, <2>6
  <1> QED BY <1>1, <1>2

\* Entering a scope that names some names and leaves the others.
LEMMA EnteredNames ==
    ASSUME TypeOK, ConstantsVisible, NEW new, Enter(new), UNCHANGED file_names,
           \A n \in Names :
              IF new.names[n] = "none" THEN constants'[n] = constants[n]
              ELSE constants'[n] # None <=> new.names[n] = "enumerator"
    PROVE  ConstantsVisible'
  <1>1. /\ Depth \in Nat /\ Depth' = Depth + 1
        /\ \A e \in 1..Depth : scopes'[e] = scopes[e]
        /\ scopes'[Depth + 1] = new
        /\ \A d \in 0..Depth : TablesAt(d)' = TablesAt(d)
    BY TablesEntered DEF TypeOK, Depth
  <1>2. TablesAt(0)' = TablesAt(0) BY <1>1
  <1>3. ASSUME NEW d \in 0..(Depth + 1)
        PROVE  ConstantsAt(d)'
    <2>1. CASE d <= Depth
      <3>1. d \in Nat /\ ConstantsAt(d) /\ TablesAt(d)' = TablesAt(d)
            /\ \A e \in 1..d : scopes'[e] = scopes[e]
        BY <1>1, <2>1 DEF ConstantsVisible
      <3> QED BY <1>2, <3>1, SameNames
    <2>2. CASE d = Depth + 1
      <3>1. TablesAt(d)' = Tables' /\ TablesAt(Depth) = Tables
        BY <1>1, <2>2 DEF TablesAt
      <3>2. SUFFICES ASSUME NEW n \in Names
            PROVE  /\ NamersOf(n, d)' = {} => constants'[n] = TablesAt(0).constants[n]
                   /\ \A e \in NamersOf(n, d)' :
                         (\A f \in NamersOf(n, d)' : f <= e) =>
                            (constants'[n] # None <=> scopes'[e].names[n] = "enumerator")
        BY <1>2, <3>1 DEF ConstantsAt, Tables
      <3>3. CASE new.names[n] = "none"
        <4>1. NamersOf(n, d)' = NamersOf(n, Depth) /\ NamersOf(n, Depth) \subseteq 1..Depth
          BY <1>1, <2>2, <3>3 DEF NamersOf
        <4>2. ConstantsAt(Depth) BY <1>1 DEF ConstantsVisible
        <4>3. constants'[n] = TablesAt(Depth).constants[n] BY <3>1, <3>3 DEF Tables
        <4> QED BY <1>1, <4>1, <4>2, <4>3 DEF ConstantsAt
      <3>4. CASE new.names[n] # "none"
        <4>1. d \in NamersOf(n, d)' /\ \A e \in NamersOf(n, d)' : e \in 1..d
          BY <1>1, <2>2, <3>4 DEF NamersOf
        <4> QED BY <1>1, <2>2, <3>4, <4>1
      <3> QED BY <3>3, <3>4
    <2> QED BY <1>1, <2>1, <2>2
  <1> QED BY <1>1, <1>2, <1>3 DEF ConstantsVisible

\* Every step keeps the constants those of the innermost declarations.
LEMMA NextNames == ScopesInv /\ ConstantsVisible /\ [Next]_vars => ConstantsVisible'
  <1> SUFFICES ASSUME ScopesInv, ConstantsVisible, [Next]_vars PROVE ConstantsVisible'
    OBVIOUS
  <1>0. TypeOK BY DEF ScopesInv
  <1>1. ASSUME NEW t \in Tags, NEW kind \in Kinds, IntroduceTag(t, kind)
        PROVE  ConstantsVisible'
    BY <1>0, <1>1, BindTagNames, NamesUntouched DEF IntroduceTag
  <1>2. ASSUME NEW t \in Tags, NEW kind \in Kinds, StandaloneTag(t, kind)
        PROVE  ConstantsVisible'
    <2>1. UNCHANGED <<entered, constants, file_names>> BY <1>2 DEF StandaloneTag
    <2> QED BY <1>0, <1>2, <2>1, BindTagNames, NamesUntouched
  <1>a. ASSUME UNCHANGED <<constants, file_names, scopes, entered>>
        PROVE  ConstantsVisible'
    BY <1>0, <1>a, NamesUntouched
  <1>3. ASSUME NEW t \in Tags, NEW kind \in Kinds, BeginBody(t, kind)
        PROVE  ConstantsVisible'
    <2>1. CASE Here(t)
      BY <1>3, <1>a, <2>1 DEF BeginBody
    <2>2. CASE ~Here(t)
      BY <1>0, <1>3, <2>2, BindTagNames, NamesUntouched DEF BeginBody
    <2> QED BY <2>1, <2>2
  <1>4. ASSUME NEW n \in Names, NEW v \in Values, Enumerator(n, v)
        PROVE  ConstantsVisible'
    <2>1. CASE InScope
      <3>1. NameDeclared(n, v, "enumerator") /\ UNCHANGED <<tags, entered, file_names>>
        BY <1>4, <2>1 DEF Enumerator, NameDeclared
      <3>2. v # None /\ "enumerator" \in NameClasses BY ScopesAssumption DEF NameClasses
      <3> QED BY <1>0, <2>1, <3>1, <3>2, NameVisible
    <2>2. CASE ~InScope
      <3>1. Depth = 0 /\ Depth' = 0
        BY <1>0, <1>4, <2>2 DEF Enumerator, InScope, Depth, TypeOK
      <3>2. TablesAt(0) = Tables /\ TablesAt(0)' = Tables'
        BY <3>1 DEF TablesAt
      <3>3. n \notin file_names /\ file_names' = file_names /\ file_names \subseteq Names
            /\ constants' = [constants EXCEPT ![n] = v] /\ DOMAIN constants = Names
        BY <1>0, <1>4, <2>2 DEF Enumerator, NamedHere, TypeOK, ConstantTable
      <3>4. \A m \in file_names' : TablesAt(0)'.constants[m] = None
        BY <3>2, <3>3 DEF ConstantsVisible, Tables
      <3> QED BY <3>1, <3>4, FileLevel DEF ConstantsVisible
    <2> QED BY <2>1, <2>2
  <1>5. ASSUME NEW n \in Names, NEW class \in {"object", "typedef"}, DeclareLocal(n, class)
        PROVE  ConstantsVisible'
    <2>1. NameDeclared(n, None, class) /\ UNCHANGED <<tags, entered, file_names>> /\ InScope
      BY <1>5 DEF DeclareLocal, Hide, NameDeclared
    <2>2. class \in NameClasses /\ class # "none" /\ class # "enumerator"
          /\ None \in Values \cup {None}
      BY DEF NameClasses
    <2> QED BY <1>0, <2>1, <2>2, NameVisible
  <1>6. CASE EndBody BY <1>a, <1>6 DEF EndBody
  <1>7. ASSUME NEW n \in Names, DeclareFile(n)
        PROVE  ConstantsVisible'
    <2>1. Depth = 0 /\ Depth' = 0
      BY <1>0, <1>7 DEF DeclareFile, InScope, Depth, TypeOK
    <2>2. TablesAt(0) = Tables /\ TablesAt(0)' = Tables /\ constants[n] = None
          /\ file_names' = file_names \cup {n}
      BY <1>7, <2>1 DEF TablesAt, Tables, DeclareFile
    <2> QED BY <2>1, <2>2, FileLevel DEF ConstantsVisible, Tables
  <1>8. CASE BeginDefinition BY <1>a, <1>8 DEF BeginDefinition
  <1>9. CASE Fail BY <1>a, <1>9 DEF Fail
  <1>10. CASE UNCHANGED vars BY <1>a, <1>10 DEF vars
  <1>11. ASSUME NEW definition \in BOOLEAN, EnterPrototype(definition)
         PROVE  ConstantsVisible'
    <2>1. Enter(EmptyScope(FALSE, definition)) /\ UNCHANGED <<constants, file_names>>
      BY <1>11 DEF EnterPrototype
    <2>2. \A n \in Names : EmptyScope(FALSE, definition).names[n] = "none"
      BY DEF EmptyScope
    <2> QED BY <1>0, <2>1, <2>2, EnteredNames
  <1>12. CASE EnterBlock
    <2>1. Enter(EmptyScope(TRUE, FALSE)) /\ UNCHANGED <<constants, file_names>>
      BY <1>12 DEF EnterBlock
    <2>2. \A n \in Names : EmptyScope(TRUE, FALSE).names[n] = "none"
      BY DEF EmptyScope
    <2> QED BY <1>0, <2>1, <2>2, EnteredNames
  <1>13. CASE EnterBody
    <2>1. Enter(BodyScope(function_scope)) /\ UNCHANGED file_names BY <1>13 DEF EnterBody
    <2>2. ASSUME NEW n \in Names
          PROVE  IF BodyScope(function_scope).names[n] = "none" THEN constants'[n] = constants[n]
                 ELSE constants'[n] # None <=> BodyScope(function_scope).names[n] = "enumerator"
      <3>1. BodyScope(function_scope).names[n]
              = IF n \in function_scope.parameters THEN "object"
                ELSE IF function_scope.constants[n] # None THEN "enumerator" ELSE "none"
        BY DEF BodyScope, EmptyScope, BodyNames
      <3>2. constants'[n] = IF n \in function_scope.parameters THEN None
                            ELSE IF function_scope.constants[n] # None
                                 THEN function_scope.constants[n]
                                 ELSE constants[n]
        BY <1>13 DEF EnterBody
      <3> QED BY <3>1, <3>2
    <2> QED BY <1>0, <2>1, <2>2, EnteredNames
  <1>14. CASE leave_prototype
    <2>1. /\ Depth' = Depth - 1 /\ file_names' = file_names
          /\ \A e \in 1..(Depth - 1) : scopes'[e] = scopes[e]
          /\ \A d \in 0..(Depth - 1) : TablesAt(d)' = TablesAt(d)
      BY <1>14, TablesLeft DEF Depth, leave_prototype
    <2>2. Depth \in Nat \ {0} BY <1>0, <1>14 DEF TypeOK, Depth, leave_prototype, InScope
    <2>3. TablesAt(0)' = TablesAt(0) BY <2>1, <2>2
    <2>4. ASSUME NEW d \in 0..(Depth - 1)
          PROVE  ConstantsAt(d)'
      <3>1. d \in Nat /\ ConstantsAt(d) /\ TablesAt(d)' = TablesAt(d)
            /\ \A e \in 1..d : scopes'[e] = scopes[e]
        BY <2>1, <2>2 DEF ConstantsVisible
      <3> QED BY <2>3, <3>1, SameNames
    <2> QED BY <2>1, <2>3, <2>4 DEF ConstantsVisible
  <1> QED
    BY <1>1, <1>2, <1>3, <1>4, <1>5, <1>6, <1>7, <1>8, <1>9, <1>10, <1>11, <1>12, <1>13,
       <1>14 DEF Next, Failed

\* An identifier evaluates to an enumerator exactly when its innermost
\* declaration is one (complete_enum, check_parameter, bind_local).
THEOREM ConstantsHold == Spec => []ConstantsVisible
  <1>1. Init => ConstantsVisible
    BY FileLevel DEF Init, ConstantsVisible, Depth
  <1> QED BY <1>1, NextNames, ScopesInvariant, PTL DEF Spec

-----------------------------------------------------------------------------
(* Types of the scopes that bind them *)

\* No step but that into a body moves a type to another scope or takes one away.
TypesGrow ==
    /\ Len(types) <= Len(types')
    /\ \A i \in 1..Len(types) : types'[i].scope = types[i].scope

\* A level of scopes that the step leaves.
LEMMA LevelScoped ==
    ASSUME TypeOK, TagsScoped, TypesGrow, NEW d \in 0..Depth, NEW t \in Tags,
           \A e \in 1..d : scopes'[e].block = scopes[e].block /\ scopes[e].ids \subseteq scopes'[e].ids,
           TablesAt(d)'.tags[t] = TablesAt(d).tags[t], TablesAt(d)'.tags[t] # None
    PROVE  BindingScoped(TablesAt(d).tags[t], d)'
  <1>1. BindingScoped(TablesAt(d).tags[t], d) BY DEF TagsScoped
  <1>2. PICK b : b = TablesAt(d).tags[t] OBVIOUS
  <1>3. Len(types) \in Nat /\ d \in Nat /\ Len(types) <= Len(types')
    BY DEF TypeOK, Depth, TypesGrow
  <1>4. /\ b.depth \in 0..d /\ b.id \in 1..Len(types) /\ types[b.id].scope = ScopeName(b.depth)
        /\ d > 0 /\ b.depth = d /\ ~scopes[d].block => b.id \in scopes[d].ids
    BY <1>1, <1>2 DEF BindingScoped
  <1>5. types'[b.id].scope = ScopeName(b.depth) BY <1>4 DEF TypesGrow
  <1>6. ScopeName(b.depth)' = ScopeName(b.depth)
    BY <1>3, <1>4 DEF ScopeName
  <1>7. b.id \in 1..Len(types') BY <1>3, <1>4 DEF TypesGrow
  <1>8. d > 0 /\ b.depth = d /\ ~scopes'[d].block => b.id \in scopes'[d].ids
    BY <1>3, <1>4
  <1> QED BY <1>2, <1>4, <1>5, <1>6, <1>7, <1>8 DEF BindingScoped

\* The types of a prototype stay its own.
LEMMA IdsScoped ==
    ASSUME TypeOK, TypesGrow, NEW ids, AllPrototype(ids)
    PROVE  \A i \in ids : i \in 1..Len(types') /\ types'[i].scope = "Prototype"
  <1>1. Len(types) \in Nat BY DEF TypeOK
  <1> QED BY <1>1 DEF TypesGrow, AllPrototype

\* What a step without a new binding must leave of the scopes and the types.
LEMMA UnboundScoped ==
    ASSUME TypeOK, TagsScoped, PrototypesScoped, TypesGrow, Kept, UNCHANGED <<entered, tags>>,
           \A e \in 1..Len(scopes) : scopes'[e].block = scopes[e].block /\ scopes'[e].ids = scopes[e].ids
    PROVE  TagsScoped' /\ PrototypesScoped'
  <1>1. Depth \in Nat /\ Depth' = Depth /\ Len(scopes) = Depth BY DEF TypeOK, Kept, Depth
  <1>2. ASSUME NEW d \in 0..Depth PROVE TablesAt(d)'.tags = TablesAt(d).tags
    <2>1. CASE d < Depth BY <1>1, <2>1, TablesKept
    <2>2. CASE d = Depth BY <1>1, <2>2 DEF TablesAt, Tables
    <2> QED BY <1>1, <2>1, <2>2
  <1>3. TagsScoped'
    <2> SUFFICES ASSUME NEW d \in 0..Depth, NEW t \in Tags, TablesAt(d)'.tags[t] # None
                 PROVE  BindingScoped(TablesAt(d).tags[t], d)'
      BY <1>1 DEF TagsScoped
    <2>1. \A e \in 1..d : scopes'[e].block = scopes[e].block /\ scopes[e].ids \subseteq scopes'[e].ids
      BY <1>1
    <2>2. TablesAt(d)'.tags[t] = TablesAt(d).tags[t] BY <1>2
    <2> QED BY <2>1, <2>2, LevelScoped
  <1>4. PrototypesScoped'
    <2> SUFFICES ASSUME NEW d \in 1..Depth, ~scopes'[d].block
                 PROVE  \A i \in scopes'[d].ids : i \in 1..Len(types') /\ types'[i].scope = "Prototype"
      BY <1>1 DEF PrototypesScoped, AllPrototype
    <2>1. AllPrototype(scopes[d].ids) /\ scopes'[d].ids = scopes[d].ids
      BY <1>1 DEF PrototypesScoped
    <2> QED BY <2>1, IdsScoped
  <1> QED BY <1>3, <1>4

\* A new type is one of the scope its tag is bound in.
LEMMA TypeAdded ==
    ASSUME TypeOK, NEW kind \in Kinds, types' = Append(types, NewType(kind, FALSE))
    PROVE  /\ TypesGrow /\ Len(types) \in Nat /\ Len(types') = Len(types) + 1
           /\ types'[Len(types) + 1] = NewType(kind, FALSE)
           /\ \A i \in 1..Len(types) : types'[i] = types[i]
           /\ NewType(kind, FALSE).scope = ScopeName(Depth)
           /\ NewType(kind, FALSE).kind = kind /\ NewType(kind, FALSE).complete = FALSE
  <1>1. NewType(kind, FALSE) \in TypeRecord /\ types \in Seq(TypeRecord)
    BY DEF TypeOK, NewType, TypeRecord, scope
  <1>2. NewType(kind, FALSE).scope = scope /\ NewType(kind, FALSE).kind = kind
        /\ NewType(kind, FALSE).complete = FALSE
    BY DEF NewType
  <1>3. Depth \in Nat BY DEF TypeOK, Depth
  <1>4. scope = ScopeName(Depth)
    BY <1>3 DEF scope, ScopeName, InBlock, InPrototype, InScope, Top
  <1>5. /\ Len(types) \in Nat /\ Len(types') = Len(types) + 1
        /\ types'[Len(types) + 1] = NewType(kind, FALSE)
        /\ \A i \in 1..Len(types) : types'[i] = types[i]
    <2>1. PICK new \in TypeRecord : new = NewType(kind, FALSE) BY <1>1
    <2>2. types' = Append(types, new) /\ types \in Seq(TypeRecord) BY <1>1, <2>1
    <2>3. Len(types) \in Nat /\ Len(types') = Len(types) + 1 BY ONLY <2>2, new \in TypeRecord
    <2>4. types'[Len(types) + 1] = new BY ONLY <2>2, new \in TypeRecord
    <2>5. \A i \in 1..Len(types) : types'[i] = types[i] BY ONLY <2>2, new \in TypeRecord
    <2> QED BY <2>1, <2>3, <2>4, <2>5
  <1>6. TypesGrow BY <1>5 DEF TypesGrow
  <1> QED BY <1>2, <1>4, <1>5, <1>6

LEMMA BoundScoped ==
    ASSUME TypeOK, TagsScoped, PrototypesScoped, Kept, UNCHANGED entered,
           NEW t \in Tags, NEW kind \in Kinds, bind_tag(t) \/ StandaloneTag(t, kind),
           types' = Append(types, NewType(kind, FALSE))
    PROVE  TagsScoped' /\ PrototypesScoped'
  <1>0. PICK m \in Nat : m = Depth BY DEF TypeOK, Depth
  <1>1. Depth' = m /\ Depth = m /\ Len(scopes) = m BY <1>0 DEF TypeOK, Kept, Depth
  <1>a. \A e \in 1..m : scopes'[e].block = scopes[e].block
    BY <1>1, BindTagNames
  <1>b. /\ \A e \in 1..m : e < m => scopes'[e].ids = scopes[e].ids
        /\ m > 0 => scopes'[m].ids = scopes[m].ids \cup {Len(types) + 1}
    <2>1. \A e \in 1..m :
            scopes'[e].ids = IF e < m THEN scopes[e].ids ELSE scopes[e].ids \cup {Len(types) + 1}
      BY <1>1, BindTagNames
    <2>2. \A e \in 1..m : e < m => scopes'[e].ids = scopes[e].ids
      BY <2>1
    <2>3. m > 0 => m \in 1..m /\ ~(m < m) BY <1>0
    <2> QED BY <2>1, <2>2, <2>3
  <1>c. \A e \in 1..m : scopes[e].ids \subseteq scopes'[e].ids
    <2>1. \A e \in 1..m : e < m \/ e = m BY <1>0
    <2> QED BY <1>b, <2>1
  <1>d. m > 0 => m \in 1..m BY <1>0
  <1>3. /\ TypesGrow /\ Len(types) \in Nat /\ Len(types') = Len(types) + 1
        /\ types'[Len(types) + 1].scope = ScopeName(m)
    BY <1>1, TypeAdded
  <1>4. ScopeName(m)' = ScopeName(m) BY <1>0, <1>a, <1>d DEF ScopeName
  <1>5. TagsScoped'
    <2> SUFFICES ASSUME NEW d \in 0..m, NEW u \in Tags, TablesAt(d)'.tags[u] # None
                 PROVE  BindingScoped(TablesAt(d).tags[u], d)'
      BY <1>1 DEF TagsScoped
    <2>1. \A e \in 1..d : scopes'[e].block = scopes[e].block /\ scopes[e].ids \subseteq scopes'[e].ids
      BY <1>0, <1>a, <1>c
    <2>2. tags \in [Tags -> Binding \cup {None}]
          /\ tags' = [tags EXCEPT ![t] = [id |-> Len(types) + 1, depth |-> m]]
      BY <1>1, BindTagBinds DEF TypeOK, TagTable, TagBound
    <2>3. CASE d < m \/ u # t
      <3>1. TablesAt(d)'.tags[u] = TablesAt(d).tags[u]
        <4>1. CASE d < m BY <1>1, <4>1, TablesKept
        <4>2. CASE d = m /\ u # t BY <1>1, <2>2, <4>2 DEF TablesAt, Tables
        <4> QED BY <1>1, <2>3, <4>1, <4>2
      <3> QED BY <1>1, <1>3, <2>1, <3>1, LevelScoped
    <2>4. CASE d = m /\ u = t
      <3>1. TablesAt(d)'.tags[u] = [id |-> Len(types) + 1, depth |-> m]
        BY <1>1, <2>2, <2>4 DEF TablesAt, Tables
      <3>2. d > 0 => Len(types) + 1 \in scopes'[d].ids BY <1>b, <2>4
      <3>3. m \in 0..m /\ Len(types) + 1 \in 1..Len(types') BY ONLY <1>0, <1>3
      <3>4. types'[Len(types) + 1].scope = ScopeName(m)' BY ONLY <1>3, <1>4
      <3>5. PICK b : b = TablesAt(d)'.tags[u] OBVIOUS
      <3>6. b.id = Len(types) + 1 /\ b.depth = m BY <3>1, <3>5
      <3> QED BY <2>4, <3>2, <3>3, <3>4, <3>5, <3>6 DEF BindingScoped
    <2> QED BY <1>1, <2>3, <2>4
  <1>6. PrototypesScoped'
    <2> SUFFICES ASSUME NEW d \in 1..m, ~scopes'[d].block, NEW i \in scopes'[d].ids
                 PROVE  i \in 1..Len(types') /\ types'[i].scope = "Prototype"
      BY <1>1 DEF PrototypesScoped, AllPrototype
    <2>1. AllPrototype(scopes[d].ids) BY <1>1, <1>a DEF PrototypesScoped
    <2>2. CASE i \in scopes[d].ids BY <1>3, <2>1, <2>2, IdsScoped
    <2>3. CASE i \notin scopes[d].ids
      <3>1. d = m /\ i = Len(types) + 1 BY <1>0, <1>b, <2>3
      <3>2. ScopeName(m) = "Prototype" BY <1>0, <1>a, <1>d, <3>1 DEF ScopeName
      <3>3. i \in 1..Len(types') BY ONLY <1>3, <3>1
      <3>4. types'[i].scope = "Prototype" BY ONLY <1>3, <3>1, <3>2
      <3> QED BY ONLY <3>3, <3>4
    <2> QED BY <2>2, <2>3
  <1> QED BY <1>5, <1>6

\* A prototype or a block starts without types of its own.
LEMMA EnteredScoped ==
    ASSUME TypeOK, TagsScoped, PrototypesScoped, UNCHANGED <<tags, types>>,
           NEW block \in BOOLEAN, NEW definition \in BOOLEAN, Enter(EmptyScope(block, definition))
    PROVE  TagsScoped' /\ PrototypesScoped'
  <1>1. /\ Depth \in Nat /\ Depth' = Depth + 1 /\ Len(scopes) = Depth
        /\ \A e \in 1..Depth : scopes'[e] = scopes[e]
        /\ scopes'[Depth + 1] = EmptyScope(block, definition)
        /\ \A d \in 0..Depth : TablesAt(d)' = TablesAt(d)
    BY TablesEntered DEF TypeOK, Depth
  <1>2. Len(types) \in Nat /\ TypesGrow BY DEF TypeOK, TypesGrow
  <1>3. ASSUME NEW d \in 0..Depth, NEW t \in Tags, TablesAt(d).tags[t] # None
        PROVE  BindingScoped(TablesAt(d).tags[t], d)'
    <2>1. TablesAt(d)'.tags[t] = TablesAt(d).tags[t] BY <1>1
    <2>2. \A e \in 1..d : scopes'[e].block = scopes[e].block /\ scopes[e].ids \subseteq scopes'[e].ids
      BY <1>1
    <2> QED BY <1>2, <1>3, <2>1, <2>2, LevelScoped
  <1>4. TagsScoped'
    <2> SUFFICES ASSUME NEW d \in 0..(Depth + 1), NEW t \in Tags, TablesAt(d)'.tags[t] # None
                 PROVE  BindingScoped(TablesAt(d).tags[t], d)'
      BY <1>1 DEF TagsScoped
    <2>1. CASE d <= Depth BY <1>1, <1>3, <2>1
    <2>2. CASE d = Depth + 1
      <3>1. TablesAt(d)'.tags[t] = tags[t] /\ TablesAt(Depth).tags[t] = tags[t]
        BY <1>1, <2>2 DEF TablesAt, Tables
      <3>2. BindingScoped(tags[t], Depth)
        BY <1>1, <3>1 DEF TagsScoped
      <3>3. PICK b : b = tags[t] OBVIOUS
      <3>4. /\ b.depth \in 0..Depth /\ b.id \in 1..Len(types) /\ types[b.id].scope = ScopeName(b.depth)
        BY <3>2, <3>3 DEF BindingScoped
      <3>5. ScopeName(b.depth)' = ScopeName(b.depth) BY <1>1, <3>4 DEF ScopeName
      <3>6. b.depth \in 0..(Depth + 1) /\ b.depth # Depth + 1 BY <1>1, <3>4
      <3> QED BY <2>2, <3>1, <3>3, <3>4, <3>5, <3>6 DEF BindingScoped
    <2> QED BY <1>1, <2>1, <2>2
  <1>5. PrototypesScoped'
    <2> SUFFICES ASSUME NEW d \in 1..(Depth + 1), ~scopes'[d].block
                 PROVE  \A i \in scopes'[d].ids : i \in 1..Len(types) /\ types[i].scope = "Prototype"
      BY <1>1 DEF PrototypesScoped, AllPrototype
    <2>1. CASE d <= Depth
      BY <1>1, <2>1 DEF PrototypesScoped, AllPrototype
    <2>2. CASE d = Depth + 1
      BY <1>1, <2>2 DEF EmptyScope
    <2> QED BY <1>1, <2>1, <2>2
  <1> QED BY <1>4, <1>5

LEMMA LeftScoped ==
    ASSUME ScopesInv, TagsScoped, PrototypesScoped, leave_prototype
    PROVE  TagsScoped' /\ PrototypesScoped'
  <1>0. TypeOK BY DEF ScopesInv
  <1>1. /\ Depth' = Depth - 1
        /\ \A e \in 1..(Depth - 1) : scopes'[e] = scopes[e]
        /\ \A d \in 0..(Depth - 1) : TablesAt(d)' = TablesAt(d)
    BY TablesLeft DEF Depth
  <1>2. Depth \in Nat /\ Len(types) \in Nat /\ types' = types /\ TypesGrow
    BY <1>0 DEF TypeOK, Depth, leave_prototype, TypesGrow
  <1>3. TagsScoped'
    <2> SUFFICES ASSUME NEW d \in 0..(Depth - 1), NEW t \in Tags, TablesAt(d)'.tags[t] # None
                 PROVE  BindingScoped(TablesAt(d).tags[t], d)'
      BY <1>1 DEF TagsScoped
    <2>1. TablesAt(d)'.tags[t] = TablesAt(d).tags[t] /\ d \in 0..Depth BY <1>1, <1>2
    <2>2. \A e \in 1..d : scopes'[e].block = scopes[e].block /\ scopes[e].ids \subseteq scopes'[e].ids
      BY <1>1, <1>2
    <2> QED BY <1>0, <1>2, <2>1, <2>2, LevelScoped
  <1>4. PrototypesScoped'
    BY <1>1, <1>2 DEF PrototypesScoped, AllPrototype
  <1> QED BY <1>3, <1>4

\* The scope of a body: the types of its parameters become types of a block.
LEMMA BodyScopedTypes ==
    ASSUME TypeOK, TagsScoped, CaptureScoped, EnterBody
    PROVE  TagsScoped' /\ PrototypesScoped'
  <1>1. /\ Depth = 0 /\ Depth' = 1
        /\ scopes'[1] = BodyScope(function_scope)
        /\ TablesAt(0)' = TablesAt(0)
    <2>1. Enter(BodyScope(function_scope)) /\ Depth = 0
      BY DEF TypeOK, Depth, EnterBody, InScope
    <2>2. /\ Len(scopes') = 1 /\ scopes'[1] = BodyScope(function_scope)
          /\ \A d \in 0..0 : TablesAt(d)' = TablesAt(d)
      BY <2>1, TablesEntered DEF Depth
    <2> QED BY <2>1, <2>2 DEF Depth
  <1>2. scopes'[1].block = TRUE BY <1>1 DEF BodyScope, EmptyScope
  <1>3. TablesAt(0) = Tables /\ TablesAt(1)' = Tables' BY <1>1 DEF TablesAt
  <1>4. ScopeName(0) = "File" /\ ScopeName(0)' = "File" /\ ScopeName(1)' = "Block"
    BY <1>2 DEF ScopeName
  <1>5. /\ AllPrototype(function_scope.ids)
        /\ \A t \in Tags : function_scope.tags[t] # None =>
                             function_scope.tags[t].id \in function_scope.ids
    BY DEF CaptureScoped, EnterBody
  <1>6. Len(types) \in Nat /\ types \in Seq(TypeRecord) BY DEF TypeOK
  <1>7. types' = [i \in 1..Len(types) |->
                    IF i \in function_scope.ids THEN [types[i] EXCEPT !.scope = "Block"]
                    ELSE types[i]]
    BY DEF EnterBody
  <1>8. Len(types') = Len(types) BY <1>6, <1>7
  <1>9. ASSUME NEW i \in 1..Len(types)
        PROVE  /\ i \in function_scope.ids => types'[i].scope = "Block"
               /\ i \notin function_scope.ids => types'[i].scope = types[i].scope
    <2>1. types[i] \in TypeRecord BY <1>6
    <2>2. types'[i] = IF i \in function_scope.ids THEN [types[i] EXCEPT !.scope = "Block"]
                      ELSE types[i]
      BY <1>7
    <2> QED BY <2>1, <2>2 DEF TypeRecord
  <1>10. ASSUME NEW t \in Tags, tags[t] # None
         PROVE  tags[t].depth = 0 /\ tags[t].id \in 1..Len(types) /\ types'[tags[t].id].scope = "File"
    <2>1. TablesAt(0).tags[t] = tags[t] BY <1>3 DEF Tables
    <2>2. BindingScoped(tags[t], 0) BY <1>1, <1>10, <2>1 DEF TagsScoped
    <2>3. /\ tags[t].depth \in 0..0 /\ tags[t].id \in 1..Len(types)
          /\ types[tags[t].id].scope = ScopeName(tags[t].depth)
      BY <2>2 DEF BindingScoped
    <2>4. tags[t].depth = 0 /\ types[tags[t].id].scope = "File" BY <1>4, <2>3
    <2>5. tags[t].id \notin function_scope.ids BY <1>5, <2>4 DEF AllPrototype
    <2> QED BY <1>9, <2>3, <2>4, <2>5
  <1>11. ASSUME NEW t \in Tags, TablesAt(0)'.tags[t] # None
         PROVE  BindingScoped(TablesAt(0).tags[t], 0)'
    <2>1. PICK b : b = TablesAt(0)'.tags[t] OBVIOUS
    <2>2. b = tags[t] BY <1>1, <1>3, <2>1 DEF Tables
    <2>3. b.depth = 0 /\ b.id \in 1..Len(types) /\ types'[b.id].scope = "File"
      BY <1>10, <1>11, <2>1, <2>2
    <2> QED BY <1>4, <1>8, <2>1, <2>3 DEF BindingScoped
  <1>12. ASSUME NEW t \in Tags, TablesAt(1)'.tags[t] # None
         PROVE  BindingScoped(TablesAt(1).tags[t], 1)'
    <2>1. PICK b : b = TablesAt(1)'.tags[t] OBVIOUS
    <2>2. b = IF function_scope.tags[t] = None THEN tags[t]
              ELSE [id |-> function_scope.tags[t].id, depth |-> 1]
      BY <1>1, <1>3, <2>1 DEF EnterBody, Tables
    <2>3. CASE function_scope.tags[t] = None
      <3>1. b = tags[t] BY <2>2, <2>3
      <3>2. b.depth = 0 /\ b.id \in 1..Len(types) /\ types'[b.id].scope = "File"
        BY <1>10, <1>12, <2>1, <3>1
      <3> QED BY <1>4, <1>8, <2>1, <3>2 DEF BindingScoped
    <2>4. CASE function_scope.tags[t] # None
      <3>1. b.id \in function_scope.ids /\ b.depth = 1 BY <1>5, <2>2, <2>4
      <3>2. b.id \in 1..Len(types) BY <1>5, <3>1 DEF AllPrototype
      <3>3. types'[b.id].scope = "Block" BY <1>9, <3>1, <3>2
      <3> QED BY <1>2, <1>4, <1>8, <2>1, <3>1, <3>2, <3>3 DEF BindingScoped
    <2> QED BY <2>3, <2>4
  <1>13. TagsScoped'
    <2> SUFFICES ASSUME NEW d \in 0..1, NEW t \in Tags, TablesAt(d)'.tags[t] # None
                 PROVE  BindingScoped(TablesAt(d).tags[t], d)'
      BY <1>1 DEF TagsScoped
    <2>1. d = 0 \/ d = 1 OBVIOUS
    <2> QED BY <1>11, <1>12, <2>1
  <1>14. PrototypesScoped'
    <2>1. \A d \in 1..1 : d = 1 OBVIOUS
    <2> QED BY <1>1, <1>2, <2>1 DEF PrototypesScoped
  <1> QED BY <1>13, <1>14

\* The captured scope keeps the types of the prototype that is left.
LEMMA CapturedScoped ==
    ASSUME TypeOK, TagDepthExact, TagsScoped, PrototypesScoped, InScope, ~Top.block
    PROVE  /\ AllPrototype(Captured(Top).ids)
           /\ \A t \in Tags : Captured(Top).tags[t] # None =>
                                Captured(Top).tags[t].id \in Captured(Top).ids
  <1>1. PICK m \in Nat \ {0} : m = Depth BY DEF TypeOK, Depth, InScope
  <1>2. Top = scopes[m] /\ m \in 1..Depth /\ m \in 0..Depth BY <1>1 DEF Top
  <1>3. Captured(Top).ids = scopes[m].ids BY <1>2 DEF Captured
  <1>4. AllPrototype(scopes[m].ids) BY <1>2 DEF PrototypesScoped
  <1>5. ASSUME NEW t \in Tags, Captured(Top).tags[t] # None
        PROVE  Captured(Top).tags[t].id \in Captured(Top).ids
    <2>1. Captured(Top).tags[t] = tags[t] /\ scopes[m].tags[t] # <<>>
      BY <1>2, <1>5 DEF Captured, Bound, TypeOK, TagTable
    <2>2. TablesAt(m).tags[t] = tags[t] BY <1>1 DEF TablesAt, Tables
    <2>3. TagDepthAt(m) BY <1>2 DEF TagDepthExact
    <2>4. m \in BindersOf(t, m) BY <1>1, <2>1 DEF BindersOf
    <2>5. tags[t].depth \in BindersOf(t, m) /\ m <= tags[t].depth
      BY <2>2, <2>3, <2>4 DEF TagDepthAt
    <2>6. tags[t].depth = m BY <1>1, <2>5 DEF BindersOf
    <2>7. BindingScoped(tags[t], m) BY <1>2, <1>5, <2>1, <2>2 DEF TagsScoped
    <2>8. tags[t].id \in scopes[m].ids BY <1>1, <1>2, <2>6, <2>7 DEF BindingScoped
    <2> QED BY <1>3, <2>1, <2>8
  <1> QED BY <1>3, <1>4, <1>5

-----------------------------------------------------------------------------
(* Bodies under definition *)

\* Outside the innermost body's scope all bodies belong to scopes around it.
LEMMA OpenBelow ==
    ASSUME TypeOK, BodiesNested, ~Open
    PROVE  \A i \in DOMAIN open : open[i].depth \in 0..(Depth - 1)
  <1> SUFFICES ASSUME NEW i \in DOMAIN open PROVE open[i].depth \in 0..(Depth - 1)
    OBVIOUS
  <1>1. Depth \in Nat /\ open \in Seq([id : Nat, depth : Nat]) /\ DOMAIN open = 1..Len(open)
    BY DEF TypeOK, Depth
  <1>a. Len(open) \in Nat BY DEF TypeOK
  <1>2. PICK k \in Nat : k = Len(open) BY <1>a
  <1>3. i \in 1..k /\ k \in 1..k /\ open # <<>> BY <1>1, <1>2
  <1>4. open[i].depth \in 0..Depth /\ open[k].depth \in 0..Depth /\ open[i].depth <= open[k].depth
    BY <1>1, <1>2, <1>3, SMTT(60) DEF BodiesNested
  <1>5. open[k].depth # Depth BY <1>2, <1>3 DEF Open
  <1> QED BY <1>1, <1>4, <1>5, SMTT(60)

\* A step outside the bodies: they stay open, and the types they complete stay.
LEMMA OpenKept ==
    ASSUME TypeOK, BodiesNested, BodiesStayInScope, EnumsOpenOnce, UNCHANGED open,
           Len(types) <= Len(types'), \A i \in 1..Len(types) : types'[i] = types[i],
           NEW m \in Int, 0..m \subseteq 0..Depth',
           \A i \in DOMAIN open : open[i].depth \in 0..m,
           \A d \in 0..m : ScopeName(d)' = ScopeName(d)
    PROVE  BodiesNested' /\ BodiesStayInScope' /\ EnumsOpenOnce'
  <1>1. Len(types) \in Nat BY DEF TypeOK
  <1>2. \A i \in DOMAIN open : open[i].id \in 1..Len(types) /\ open[i].id \in 1..Len(types')
                               /\ types'[open[i].id] = types[open[i].id]
    BY <1>1 DEF BodiesNested
  <1>3. BodiesNested' BY <1>2 DEF BodiesNested
  <1>4. BodiesStayInScope'
    <2> SUFFICES ASSUME NEW i \in DOMAIN open
                 PROVE  types'[open'[i].id].scope = ScopeName(open[i].depth)'
      BY DEF BodiesStayInScope
    <2>1. PICK d \in 0..m : d = open[i].depth OBVIOUS
    <2>2. types[open[i].id].scope = ScopeName(d) BY <2>1 DEF BodiesStayInScope
    <2>3. ScopeName(d)' = ScopeName(d) /\ open'[i].depth = d BY <2>1
    <2> QED BY <1>2, <2>2, <2>3
  <1>5. EnumsOpenOnce' BY <1>2 DEF EnumsOpenOnce
  <1> QED BY <1>3, <1>4, <1>5

\* A body starts: of a new type, or of one of this scope that is not an
\* enumeration under definition or complete.
LEMMA OpenAdded ==
    ASSUME TypeOK, BodiesNested, BodiesStayInScope, EnumsOpenOnce,
           NEW id \in 1..Len(types'), open' = Append(open, [id |-> id, depth |-> Depth]),
           Len(types) <= Len(types'), \A i \in 1..Len(types) : types'[i] = types[i],
           Depth' = Depth, \A d \in 0..Depth : ScopeName(d)' = ScopeName(d),
           types'[id].scope = ScopeName(Depth),
           types'[id].kind = "enum" => /\ ~types'[id].complete
                                       /\ \A i \in DOMAIN open : open[i].id # id
    PROVE  BodiesNested' /\ BodiesStayInScope' /\ EnumsOpenOnce'
  <1>1. Len(types) \in Nat /\ open \in Seq([id : Nat, depth : Nat]) BY DEF TypeOK
  <1>a. Depth \in Nat BY DEF TypeOK, Depth
  <1>b. PICK body : body = [id |-> id, depth |-> Depth] OBVIOUS
  <1>c. body.id = id /\ body.depth = Depth BY <1>b
  <1>d. body \in [id : Nat, depth : Nat]
    <2>1. id \in Nat OBVIOUS
    <2> QED BY <1>a, <1>b, <2>1
  <1>2. PICK k \in Nat : k = Len(open) BY <1>1
  <1>3. /\ DOMAIN open = 1..k /\ DOMAIN open' = 1..(k + 1)
        /\ open'[k + 1] = body
        /\ \A i \in 1..k : open'[i] = open[i]
    <2>1. open' = Append(open, body) BY <1>b
    <2>2. Len(open') = k + 1 /\ open' \in Seq([id : Nat, depth : Nat]) BY ONLY <1>1, <1>2, <1>d, <2>1
    <2>3. open'[k + 1] = body BY ONLY <1>1, <1>2, <1>d, <2>1
    <2>4. \A i \in 1..k : open'[i] = open[i] BY ONLY <1>1, <1>2, <1>d, <2>1
    <2>5. DOMAIN open = 1..k /\ DOMAIN open' = 1..(k + 1) BY <1>1, <1>2, <2>2
    <2> QED BY <2>3, <2>4, <2>5
  <1>4. ASSUME NEW i \in 1..k
        PROVE  /\ open[i].id \in 1..Len(types) /\ open[i].id \in 1..Len(types')
               /\ types'[open[i].id] = types[open[i].id]
               /\ open[i].depth \in 0..Depth
               /\ ScopeName(open[i].depth)' = ScopeName(open[i].depth)
    <2>1. open[i].id \in 1..Len(types) /\ open[i].depth \in 0..Depth
      BY <1>3 DEF BodiesNested
    <2>2. open[i].id \in 1..Len(types') BY <1>1, <2>1, SMTT(60)
    <2>3. PICK d \in 0..Depth : d = open[i].depth BY <2>1
    <2>4. ScopeName(d)' = ScopeName(d) OBVIOUS
    <2>5. open'[i].depth = d BY <1>3, <2>3
    <2> QED BY <2>1, <2>2, <2>3, <2>4, <2>5
  <1>5. \A i \in 1..(k + 1) : i \in 1..k \/ i = k + 1 BY <1>2
  <1>6. BodiesNested'
    <2>1. ASSUME NEW i \in 1..(k + 1)
          PROVE  open'[i].depth \in 0..Depth /\ open'[i].id \in 1..Len(types')
      <3>1. CASE i \in 1..k BY <1>3, <1>4, <3>1
      <3>2. CASE i = k + 1 BY <1>a, <1>c, <1>3, <3>2
      <3> QED BY <1>5, <3>1, <3>2
    <2>2. ASSUME NEW i \in 1..(k + 1), NEW j \in 1..(k + 1), i <= j
          PROVE  open'[i].depth <= open'[j].depth
      <3>1. CASE j = k + 1
        BY <1>a, <1>c, <1>3, <2>1, <3>1
      <3>2. CASE j \in 1..k
        <4>1. i \in 1..k BY <2>2, <3>2
        <4> QED BY <1>3, <2>2, <3>2, <4>1 DEF BodiesNested
      <3> QED BY <1>5, <3>1, <3>2
    <2> QED BY <1>3, <2>1, <2>2 DEF BodiesNested
  <1>7. BodiesStayInScope'
    <2> SUFFICES ASSUME NEW i \in 1..(k + 1)
                 PROVE  types'[open'[i].id].scope = ScopeName(open[i].depth)'
      BY <1>3 DEF BodiesStayInScope
    <2>1. CASE i \in 1..k
      <3>1. PICK d \in 0..Depth : d = open[i].depth BY <1>4, <2>1
      <3>2. ScopeName(d)' = ScopeName(d) /\ open'[i] = open[i] BY <1>3, <2>1
      <3>3. types[open[i].id].scope = ScopeName(d) BY <1>3, <2>1, <3>1 DEF BodiesStayInScope
      <3>4. types'[open'[i].id].scope = ScopeName(d) BY <1>4, <2>1, <3>2, <3>3
      <3>5. open'[i].depth = d BY <3>1, <3>2
      <3> QED BY <3>2, <3>4, <3>5
    <2>2. CASE i = k + 1
      <3>1. PICK d \in 0..Depth : d = Depth BY <1>a
      <3>2. ScopeName(d)' = ScopeName(d) OBVIOUS
      <3>3. open'[i].depth = d /\ open'[i].id = id BY <1>3, <1>c, <2>2, <3>1
      <3> QED BY <3>1, <3>2, <3>3
    <2> QED BY <1>5, <2>1, <2>2
  <1>8. EnumsOpenOnce'
    <2> SUFFICES ASSUME NEW i \in 1..(k + 1), types'[open'[i].id].kind = "enum"
                 PROVE  /\ ~types'[open'[i].id].complete
                        /\ \A j \in 1..(k + 1) : open'[j].id = open'[i].id => j = i
      BY <1>3 DEF EnumsOpenOnce
    <2>1. CASE i \in 1..k
      <3>1. types[open[i].id].kind = "enum" /\ open'[i].id = open[i].id BY <1>3, <1>4, <2>1
      <3>2. ~types[open[i].id].complete /\ \A j \in 1..k : open[j].id = open[i].id => j = i
        BY <1>3, <2>1, <3>1 DEF EnumsOpenOnce
      <3>3. open[i].id # id BY <1>3, <2>1, <3>1
      <3> QED BY <1>3, <1>4, <1>5, <1>c, <2>1, <3>1, <3>2, <3>3
    <2>2. CASE i = k + 1
      <3>1. open'[i].id = id BY <1>3, <1>c, <2>2
      <3>2. ~types'[id].complete /\ \A j \in 1..k : open[j].id # id BY <1>3, <3>1
      <3> QED BY <1>3, <1>5, <2>2, <3>1, <3>2
    <2> QED BY <1>5, <2>1, <2>2
  <1> QED BY <1>6, <1>7, <1>8

\* The innermost body ends.
LEMMA OpenEnded ==
    ASSUME TypeOK, BodiesNested, BodiesStayInScope, EnumsOpenOnce, EndBody
    PROVE  BodiesNested' /\ BodiesStayInScope' /\ EnumsOpenOnce' /\ TypesGrow
  <1>1. open \in Seq([id : Nat, depth : Nat]) /\ open # <<>> /\ types \in Seq(TypeRecord)
    BY DEF TypeOK, EndBody, Open
  <1>2. PICK k \in Nat \ {0} : k = Len(open) BY <1>1
  <1>3. /\ DOMAIN open = 1..k /\ DOMAIN open' = 1..(k - 1)
        /\ \A i \in 1..(k - 1) : open'[i] = open[i] /\ i \in 1..k /\ i # k
    <2>1. open' = SubSeq(open, 1, Len(open) - 1) BY DEF EndBody
    <2>2. /\ open' \in Seq([id : Nat, depth : Nat]) /\ Len(open') = k - 1
          /\ \A i \in 1..(k - 1) : open'[i] = open[i]
      BY <1>1, <1>2, <2>1, DropLast
    <2> QED BY <1>1, <1>2, <2>2, SMTT(60)
  <1>4. PICK id : id = open[k].id OBVIOUS
  <1>5. id \in 1..Len(types) /\ types' = [types EXCEPT ![id].complete = TRUE]
    <2>1. k \in DOMAIN open BY <1>2, <1>3
    <2> QED BY <1>2, <1>4, <2>1 DEF BodiesNested, EndBody
  <1>6. Len(types') = Len(types) /\ Len(types) \in Nat BY <1>1, <1>5
  <1>7. ASSUME NEW i \in 1..Len(types)
        PROVE  /\ types'[i].kind = types[i].kind /\ types'[i].scope = types[i].scope
               /\ i # id => types'[i] = types[i]
    <2>1. types[i] \in TypeRecord BY <1>1
    <2>a. PICK new : new = [types[id] EXCEPT !.complete = TRUE] OBVIOUS
    <2>b. types' = [types EXCEPT ![id] = new] BY <1>5, <2>a
    <2>2. types'[i] = IF i = id THEN [types[i] EXCEPT !.complete = TRUE] ELSE types[i]
      <3>1. CASE i = id
        <4>1. types'[i] = new BY ONLY <1>1, <1>5, <2>b, <3>1
        <4>2. [types[i] EXCEPT !.complete = TRUE] = new BY ONLY <2>a, <3>1
        <4> QED BY <3>1, <4>1, <4>2
      <3>2. CASE i # id BY <1>1, <2>b, <3>2
      <3> QED BY <3>1, <3>2
    <2> QED BY <2>1, <2>2 DEF TypeRecord
  <1>8. TypesGrow BY <1>6, <1>7 DEF TypesGrow
  <1>9. scopes' = scopes /\ Depth' = Depth BY DEF EndBody, Depth
  <1>10. \A i \in 1..(k - 1) : open[i].id \in 1..Len(types) BY <1>3 DEF BodiesNested
  <1>11. BodiesNested'
    BY <1>3, <1>6, <1>9 DEF BodiesNested
  <1>12. BodiesStayInScope'
    <2> SUFFICES ASSUME NEW i \in 1..(k - 1)
                 PROVE  types'[open'[i].id].scope = ScopeName(open[i].depth)'
      BY <1>3 DEF BodiesStayInScope
    <2>1. types[open[i].id].scope = ScopeName(open[i].depth) BY <1>3 DEF BodiesStayInScope
    <2>2. ScopeName(open[i].depth)' = ScopeName(open[i].depth) BY <1>3, <1>9 DEF ScopeName
    <2> QED BY <1>3, <1>7, <1>10, <2>1, <2>2
  <1>13. EnumsOpenOnce'
    <2> SUFFICES ASSUME NEW i \in 1..(k - 1), types'[open[i].id].kind = "enum"
                 PROVE  /\ ~types'[open[i].id].complete
                        /\ \A j \in 1..(k - 1) : open[j].id = open[i].id => j = i
      BY <1>3 DEF EnumsOpenOnce
    <2>1. types[open[i].id].kind = "enum" BY <1>7, <1>10
    <2>2. /\ ~types[open[i].id].complete
          /\ \A j \in 1..k : open[j].id = open[i].id => j = i
      BY <1>3, <2>1 DEF EnumsOpenOnce
    <2>3. open[i].id # id BY <1>2, <1>3, <1>4, <2>2, SMTT(60)
    <2> QED BY <1>3, <1>7, <1>10, <2>2, <2>3
  <1> QED BY <1>8, <1>11, <1>12, <1>13

\* The captured types stay those of a prototype until the body.
LEMMA CaptureKept ==
    ASSUME TypeOK, CaptureScoped, TypesGrow, UNCHANGED function_scope
    PROVE  CaptureScoped'
  <1> SUFFICES ASSUME function_scope # None
               PROVE  /\ \A i \in function_scope.ids : i \in 1..Len(types') /\ types'[i].scope = "Prototype"
                      /\ \A t \in Tags : function_scope.tags[t] # None =>
                             function_scope.tags[t].id \in function_scope.ids
    BY DEF CaptureScoped, AllPrototype
  <1>1. AllPrototype(function_scope.ids) BY DEF CaptureScoped
  <1> QED BY <1>1, IdsScoped DEF CaptureScoped

\* A scope stays what it is.
LEMMA ScopeNames ==
    ASSUME NEW m \in Int, \A e \in 1..m : scopes'[e].block = scopes[e].block
    PROVE  \A d \in 0..m : ScopeName(d)' = ScopeName(d)
  <1> SUFFICES ASSUME NEW d \in 0..m PROVE ScopeName(d)' = ScopeName(d)
    OBVIOUS
  <1>1. d = 0 \/ d \in 1..m OBVIOUS
  <1> QED BY <1>1 DEF ScopeName

\* Every step keeps types with the scopes that bind them.
LEMMA NextTypes == ScopesInv /\ TagDepthExact /\ TypesInv /\ [Next]_vars => TypesInv'
  <1> SUFFICES ASSUME ScopesInv, TagDepthExact, TypesInv, [Next]_vars PROVE TypesInv'
    OBVIOUS
  <1>0. TypeOK BY DEF ScopesInv
  <1> USE DEF TypesInv
  <1>n. PICK m \in Nat : m = Depth /\ m = Len(scopes) BY <1>0 DEF TypeOK, Depth
  <1>o. \A i \in DOMAIN open : open[i].depth \in 0..m BY <1>n DEF BodiesNested
  <1>b. ASSUME NEW t \in Tags, NEW kind \in Kinds, bind_tag(t) \/ StandaloneTag(t, kind), Kept,
               UNCHANGED <<entered, function_scope>>, types' = Append(types, NewType(kind, FALSE))
        PROVE  /\ TagsScoped' /\ PrototypesScoped' /\ CaptureScoped'
               /\ Depth' = m /\ \A d \in 0..m : ScopeName(d)' = ScopeName(d)
               /\ Len(types) \in Nat /\ Len(types') = Len(types) + 1
               /\ types'[Len(types) + 1] = NewType(kind, FALSE)
               /\ NewType(kind, FALSE).scope = ScopeName(m)
               /\ NewType(kind, FALSE).kind = kind /\ NewType(kind, FALSE).complete = FALSE
               /\ Len(types) <= Len(types') /\ \A i \in 1..Len(types) : types'[i] = types[i]
    <2>1. TagsScoped' /\ PrototypesScoped' BY <1>0, <1>b, BoundScoped
    <2>2. /\ TypesGrow /\ Len(types) \in Nat /\ Len(types') = Len(types) + 1
          /\ types'[Len(types) + 1] = NewType(kind, FALSE)
          /\ NewType(kind, FALSE).scope = ScopeName(m)
          /\ NewType(kind, FALSE).kind = kind /\ NewType(kind, FALSE).complete = FALSE
          /\ \A i \in 1..Len(types) : types'[i] = types[i]
      BY <1>0, <1>b, <1>n, TypeAdded
    <2>3. CaptureScoped' BY <1>0, <1>b, <2>2, CaptureKept
    <2>4. Depth' = m BY <1>b, <1>n DEF Kept, Depth
    <2>5. \A e \in 1..m : scopes'[e].block = scopes[e].block BY <1>0, <1>b, <1>n, BindTagNames
    <2>6. \A d \in 0..m : ScopeName(d)' = ScopeName(d) BY <2>5, ScopeNames
    <2>7. Len(types) <= Len(types') BY <2>2
    <2> QED BY <2>1, <2>2, <2>3, <2>4, <2>6, <2>7
  <1>1. ASSUME NEW t \in Tags, NEW kind \in Kinds, IntroduceTag(t, kind) \/ StandaloneTag(t, kind)
        PROVE  TypesInv'
    <2>1. /\ bind_tag(t) \/ StandaloneTag(t, kind)
          /\ Kept
          /\ UNCHANGED <<entered, function_scope, open>> /\ types' = Append(types, NewType(kind, FALSE))
      <3>1. CASE IntroduceTag(t, kind) BY <1>0, <3>1, BindTagKeeps DEF IntroduceTag
      <3>2. CASE StandaloneTag(t, kind)
        <4>1. Kept BY <1>0, <3>2, StandaloneKeeps
        <4>2. UNCHANGED <<entered, function_scope, open>> /\ types' = Append(types, NewType(kind, FALSE))
          BY <3>2 DEF StandaloneTag
        <4> QED BY <3>2, <4>1, <4>2
      <3> QED BY <1>1, <3>1, <3>2
    <2>2. /\ TagsScoped' /\ PrototypesScoped' /\ CaptureScoped'
          /\ Depth' = m /\ \A d \in 0..m : ScopeName(d)' = ScopeName(d)
          /\ Len(types) <= Len(types') /\ \A i \in 1..Len(types) : types'[i] = types[i]
      BY <1>b, <2>1
    <2>3. m \in Int /\ 0..m \subseteq 0..Depth' /\ open' = open BY <2>1, <2>2
    <2>4. BodiesNested' /\ BodiesStayInScope' /\ EnumsOpenOnce'
      BY <1>0, <1>o, <2>2, <2>3, OpenKept
    <2> QED BY <2>2, <2>4
  <1>2. ASSUME NEW t \in Tags, NEW kind \in Kinds, BeginBody(t, kind), ~Here(t)
        PROVE  TypesInv'
    <2>1. /\ bind_tag(t) /\ UNCHANGED <<constants, entered, function_scope>>
          /\ types' = Append(types, NewType(kind, FALSE))
          /\ open' = Append(open, [id |-> Len(types) + 1, depth |-> Depth])
      BY <1>2 DEF BeginBody
    <2>2. Kept BY <1>0, <2>1, BindTagKeeps
    <2>3. PICK id : id = Len(types) + 1 OBVIOUS
    <2>4. /\ TagsScoped' /\ PrototypesScoped' /\ CaptureScoped'
          /\ Depth' = m /\ \A d \in 0..m : ScopeName(d)' = ScopeName(d)
          /\ Len(types) \in Nat /\ Len(types') = id
          /\ types'[id].scope = ScopeName(m) /\ types'[id].complete = FALSE
          /\ Len(types) <= Len(types') /\ \A i \in 1..Len(types) : types'[i] = types[i]
      BY <1>b, <2>1, <2>2, <2>3
    <2>5. id \in 1..Len(types') BY <2>3, <2>4
    <2>6. \A i \in DOMAIN open : open[i].id # id BY <2>3, <2>4 DEF BodiesNested
    <2>7. BodiesNested' /\ BodiesStayInScope' /\ EnumsOpenOnce'
      BY <1>0, <1>n, <2>1, <2>3, <2>4, <2>5, <2>6, OpenAdded
    <2> QED BY <2>4, <2>7
  <1>3. ASSUME NEW t \in Tags, NEW kind \in Kinds, BeginBody(t, kind), Here(t)
        PROVE  TypesInv'
    <2>1. /\ UNCHANGED <<tags, constants, scopes, entered, function_scope, types>>
          /\ ~DefinesAgain(tags[t].id, kind)
          /\ open' = Append(open, [id |-> tags[t].id, depth |-> Depth])
      BY <1>3 DEF BeginBody
    <2>2. Kept BY <2>1 DEF Kept, InScope, Top, Depth
    <2>3. Len(types) \in Nat /\ TypesGrow /\ Len(types) <= Len(types')
      BY <1>0, <2>1 DEF TypeOK, TypesGrow
    <2>4. TagsScoped' /\ PrototypesScoped'
      BY <1>0, <2>1, <2>2, <2>3, UnboundScoped
    <2>5. CaptureScoped' BY <1>0, <2>1, <2>3, CaptureKept
    <2>6. PICK id : id = tags[t].id OBVIOUS
    <2>7. tags[t] # None /\ tags[t].depth = m /\ TablesAt(m).tags[t] = tags[t]
      BY <1>3, <1>n DEF Here, TablesAt, Tables
    <2>8. BindingScoped(tags[t], m) BY <1>n, <2>7 DEF TagsScoped
    <2>9. id \in 1..Len(types) /\ types[id].scope = ScopeName(m)
      BY <2>6, <2>7, <2>8 DEF BindingScoped
    <2>10. types[id].kind = "enum" => ~types[id].complete /\ \A i \in DOMAIN open : open[i].id # id
      BY <2>1, <2>6 DEF DefinesAgain
    <2>11. Depth' = Depth /\ \A d \in 0..m : ScopeName(d)' = ScopeName(d)
      BY <2>1 DEF Depth, ScopeName
    <2>12. BodiesNested' /\ BodiesStayInScope' /\ EnumsOpenOnce'
      BY <1>0, <1>n, <2>1, <2>3, <2>6, <2>9, <2>10, <2>11, OpenAdded
    <2> QED BY <2>4, <2>5, <2>12
  <1>4. CASE EndBody
    <2>1. UNCHANGED <<tags, constants, scopes, function_scope, entered>> BY <1>4 DEF EndBody
    <2>2. Kept BY <2>1 DEF Kept, InScope, Top, Depth
    <2>3. BodiesNested' /\ BodiesStayInScope' /\ EnumsOpenOnce' /\ TypesGrow BY <1>0, <1>4, OpenEnded
    <2>4. TagsScoped' /\ PrototypesScoped' BY <1>0, <2>1, <2>2, <2>3, UnboundScoped
    <2>5. CaptureScoped' BY <1>0, <2>1, <2>3, CaptureKept
    <2> QED BY <2>3, <2>4, <2>5
  <1>5. ASSUME UNCHANGED <<tags, entered, types, open>>, Kept,
               UNCHANGED function_scope \/ function_scope' = None,
               \A e \in 1..m : scopes'[e].block = scopes[e].block /\ scopes'[e].ids = scopes[e].ids
        PROVE  TypesInv'
    <2>1. Len(types) \in Nat /\ TypesGrow /\ Len(types) <= Len(types')
      BY <1>0, <1>5 DEF TypeOK, TypesGrow
    <2>2. TagsScoped' /\ PrototypesScoped' BY <1>0, <1>5, <1>n, <2>1, UnboundScoped
    <2>3. CaptureScoped'
      <3>1. CASE function_scope' = None BY <3>1 DEF CaptureScoped
      <3>2. CASE UNCHANGED function_scope BY <1>0, <2>1, <3>2, CaptureKept
      <3> QED BY <1>5, <3>1, <3>2
    <2>4. Depth' = m /\ \A d \in 0..m : ScopeName(d)' = ScopeName(d)
      BY <1>5, <1>n, ScopeNames, SMTT(60) DEF Kept, Depth
    <2>5. BodiesNested' /\ BodiesStayInScope' /\ EnumsOpenOnce'
      BY <1>0, <1>5, <1>o, <2>1, <2>4, OpenKept
    <2> QED BY <2>2, <2>3, <2>5
  <1>6. ASSUME UNCHANGED <<tags, constants, scopes, entered, types, open>>,
               UNCHANGED function_scope \/ function_scope' = None
        PROVE  TypesInv'
    <2>1. Kept BY <1>6 DEF Kept, InScope, Top, Depth
    <2> QED BY <1>5, <1>6, <2>1
  <1>7. ASSUME NEW n \in Names, NEW v \in Values, Enumerator(n, v)
        PROVE  TypesInv'
    <2>1. UNCHANGED <<tags, entered, types, open, function_scope>> BY <1>7 DEF Enumerator
    <2>2. CASE InScope
      <3>1. NameDeclared(n, v, "enumerator") BY <1>7, <2>2 DEF Enumerator, NameDeclared
      <3>2. Kept BY <1>0, <2>1, <2>2, <3>1, NameKeeps DEF NameClasses
      <3>3. \A e \in 1..m : scopes'[e].block = scopes[e].block /\ scopes'[e].ids = scopes[e].ids
        BY <1>0, <1>n, <2>2, <3>1, NameTags
      <3> QED BY <1>5, <2>1, <3>2, <3>3
    <2>3. CASE ~InScope
      <3>1. scopes' = scopes BY <1>7, <2>3 DEF Enumerator
      <3>2. Kept BY <2>3, <3>1 DEF Kept
      <3> QED BY <1>5, <2>1, <3>1, <3>2
    <2> QED BY <2>2, <2>3
  <1>8. ASSUME NEW n \in Names, NEW class \in {"object", "typedef"}, DeclareLocal(n, class)
        PROVE  TypesInv'
    <2>1. /\ NameDeclared(n, None, class) /\ InScope
          /\ UNCHANGED <<tags, entered, types, open, function_scope>>
      BY <1>8 DEF DeclareLocal, Hide, NameDeclared
    <2>2. Kept BY <1>0, <2>1, NameKeeps DEF NameClasses
    <2>3. \A e \in 1..m : scopes'[e].block = scopes[e].block /\ scopes'[e].ids = scopes[e].ids
      BY <1>0, <1>n, <2>1, NameTags
    <2> QED BY <1>5, <2>1, <2>2, <2>3
  <1>9. ASSUME NEW n \in Names, DeclareFile(n) PROVE TypesInv'
    BY <1>6, <1>9 DEF DeclareFile
  <1>10. CASE BeginDefinition BY <1>6, <1>10 DEF BeginDefinition
  <1>11. CASE Fail BY <1>6, <1>11 DEF Fail
  <1>12. CASE UNCHANGED vars BY <1>6, <1>12 DEF vars
  <1>13. ASSUME NEW block \in BOOLEAN, NEW definition \in BOOLEAN, Enter(EmptyScope(block, definition)),
                UNCHANGED <<tags, types, open, function_scope>>
         PROVE  TypesInv'
    <2>1. TagsScoped' /\ PrototypesScoped' BY <1>0, <1>13, EnteredScoped
    <2>2. Len(types) \in Nat /\ TypesGrow /\ Len(types) <= Len(types')
      BY <1>0, <1>13 DEF TypeOK, TypesGrow
    <2>3. CaptureScoped' BY <1>0, <1>13, <2>2, CaptureKept
    <2>4. Depth' = m + 1 /\ \A e \in 1..m : scopes'[e] = scopes[e]
      BY <1>0, <1>13, <1>n, TablesEntered DEF Depth
    <2>5. 0..m \subseteq 0..Depth' /\ \A d \in 0..m : ScopeName(d)' = ScopeName(d)
      BY <2>4, ScopeNames
    <2>6. BodiesNested' /\ BodiesStayInScope' /\ EnumsOpenOnce'
      <3>1. m \in Int /\ open' = open /\ \A i \in 1..Len(types) : types'[i] = types[i] BY <1>13
      <3> QED BY <1>0, <1>o, <2>2, <2>5, <3>1, OpenKept
    <2> QED BY <2>1, <2>3, <2>6
  <1>14. ASSUME NEW definition \in BOOLEAN, EnterPrototype(definition) PROVE TypesInv'
    BY <1>13, <1>14 DEF EnterPrototype
  <1>15. CASE EnterBlock BY <1>13, <1>15 DEF EnterBlock
  <1>16. CASE leave_prototype
    <2>1. TagsScoped' /\ PrototypesScoped' BY <1>16, LeftScoped
    <2>2. Len(types) \in Nat /\ TypesGrow /\ Len(types) <= Len(types') /\ types' = types /\ open' = open
      BY <1>0, <1>16 DEF TypeOK, TypesGrow, leave_prototype
    <2>3. CaptureScoped'
      <3>1. CASE UNCHANGED function_scope BY <1>0, <2>2, <3>1, CaptureKept
      <3>2. CASE ~Top.block /\ function_scope' = Captured(Top)
        <4>1. /\ AllPrototype(Captured(Top).ids)
              /\ \A t \in Tags : Captured(Top).tags[t] # None =>
                                   Captured(Top).tags[t].id \in Captured(Top).ids
          BY <1>0, <1>16, <3>2, CapturedScoped DEF leave_prototype
        <4> QED BY <2>2, <3>2, <4>1 DEF CaptureScoped, AllPrototype
      <3> QED BY <1>16, <3>1, <3>2 DEF leave_prototype
    <2>4. Depth' = m - 1 /\ \A e \in 1..(m - 1) : scopes'[e] = scopes[e]
      BY <1>16, <1>n, TablesLeft DEF Depth
    <2>5. m - 1 \in Int /\ 0..(m - 1) \subseteq 0..Depth' /\ \A d \in 0..(m - 1) : ScopeName(d)' = ScopeName(d)
      BY <2>4, ScopeNames
    <2>6. \A i \in DOMAIN open : open[i].depth \in 0..(m - 1)
      BY <1>0, <1>16, <1>n, OpenBelow DEF leave_prototype
    <2>7. BodiesNested' /\ BodiesStayInScope' /\ EnumsOpenOnce'
      BY <1>0, <2>2, <2>5, <2>6, OpenKept
    <2> QED BY <2>1, <2>3, <2>7
  <1>17. CASE EnterBody
    <2>1. TagsScoped' /\ PrototypesScoped' BY <1>0, <1>17, BodyScopedTypes
    <2>2. function_scope' = None /\ open' = open BY <1>17 DEF EnterBody
    <2>3. CaptureScoped' BY <2>2 DEF CaptureScoped
    <2>4. DOMAIN open = {}
      <3>1. m = 0 BY <1>17, <1>n DEF EnterBody, InScope
      <3>2. \A i \in DOMAIN open : open[i].depth \in 0..(0 - 1)
        BY <1>0, <1>17, <1>n, <3>1, OpenBelow DEF EnterBody
      <3> QED BY <3>2
    <2> QED BY <2>1, <2>2, <2>3, <2>4 DEF BodiesNested, BodiesStayInScope, EnumsOpenOnce
  <1> QED
    BY <1>1, <1>2, <1>3, <1>4, <1>7, <1>8, <1>9, <1>10, <1>11, <1>12, <1>14, <1>15, <1>16, <1>17
    DEF Next, Failed

-----------------------------------------------------------------------------
(* The captured scope of a definition *)

\* A step leaves what scopes say of names, and their place.
LEMMA NamesKept ==
    ASSUME TypeOK, NamesLogged, DefinitionOutermost, NEW m \in Int, m <= Depth, Depth' = m,
           \A e \in 1..m : /\ scopes'[e].names = scopes[e].names
                           /\ scopes'[e].constants = scopes[e].constants
                           /\ scopes'[e].block = scopes[e].block
                           /\ scopes'[e].definition = scopes[e].definition,
           stage' = stage \/ stage' = "failed" \/ m = 0
    PROVE  NamesLogged' /\ DefinitionOutermost'
  <1>1. Depth \in Nat BY DEF TypeOK, Depth
  <1>2. \A e \in 1..m : e \in 1..Depth BY <1>1
  <1>3. NamesLogged' BY <1>2 DEF NamesLogged
  <1>4. DefinitionOutermost'
    <2>1. CASE m = 0 BY <2>1 DEF DefinitionOutermost
    <2>2. CASE stage' = stage \/ stage' = "failed" BY <1>2, <2>2 DEF DefinitionOutermost
    <2> QED BY <2>1, <2>2
  <1> QED BY <1>3, <1>4

\* A name of the innermost scope is declared.
LEMMA NamesDeclared ==
    ASSUME TypeOK, NamesLogged, DefinitionOutermost, InScope, UNCHANGED <<tags, stage>>,
           NEW n \in Names, NEW v \in Values \cup {None}, NEW class \in NameClasses, class # "none",
           class = "typedef" => Top.block, NameDeclared(n, v, class)
    PROVE  NamesLogged' /\ DefinitionOutermost' /\ Depth' = Depth
  <1>1. PICK m \in Nat \ {0} : m = Depth /\ m = Len(scopes) BY DEF TypeOK, Depth, InScope
  <1>2. Depth' = m BY <1>1, NameKeeps DEF Kept, Depth
  <1>3. Top = scopes[m] /\ Top \in ScopeRecord BY <1>1, TopType DEF Top
  <1> DEFINE new == [Top EXCEPT !.constants = LogConstant(@, n), !.names[n] = class]
  <1>4. /\ new.constants = LogConstant(Top.constants, n)
        /\ new.names = [Top.names EXCEPT ![n] = class]
        /\ new.block = Top.block /\ new.definition = Top.definition
    BY <1>3 DEF ScopeRecord
  <1>5. scopes \in Seq(ScopeRecord) /\ scopes' = [scopes EXCEPT ![m] = new]
    BY <1>1, <1>3 DEF NameDeclared, TypeOK
  <1> HIDE DEF new
  <1>6. \A e \in 1..m : IF e = m THEN scopes'[e] = new ELSE scopes'[e] = scopes[e]
    BY <1>1, <1>5
  <1>7. /\ Top.constants \in [Names -> Seq(Values \cup {None})] /\ Top.names \in [Names -> NameClasses]
        /\ constants[n] \in Values \cup {None}
    BY <1>3 DEF ScopeRecord, TypeOK, ConstantTable
  <1>8. /\ new.constants[n] # <<>> /\ new.names[n] = class
        /\ \A k \in Names : k # n => new.constants[k] = Top.constants[k] /\ new.names[k] = Top.names[k]
    <2>1. new.constants[n] = Append(Top.constants[n], constants[n]) BY <1>4, <1>7 DEF LogConstant
    <2>2. Top.constants[n] \in Seq(Values \cup {None}) BY <1>7
    <2>3. new.constants[n] # <<>> BY <1>7, <2>1, <2>2, FirstEntry
    <2>4. \A k \in Names : k # n => new.constants[k] = Top.constants[k] /\ new.names[k] = Top.names[k]
      BY <1>4, <1>7 DEF LogConstant
    <2>5. new.names[n] = class BY <1>4, <1>7
    <2> QED BY <2>3, <2>4, <2>5
  <1>9. m \in 1..m BY <1>1
  <1>10. NamesLogged'
    <2> SUFFICES ASSUME NEW e \in 1..m, NEW k \in Names
                 PROVE  /\ scopes'[e].names[k] = "none" <=> scopes'[e].constants[k] = <<>>
                        /\ scopes'[e].names[k] = "typedef" => scopes'[e].block
      BY <1>2 DEF NamesLogged
    <2>1. /\ scopes[e].names[k] = "none" <=> scopes[e].constants[k] = <<>>
          /\ scopes[e].names[k] = "typedef" => scopes[e].block
      BY <1>1 DEF NamesLogged
    <2>2. CASE e # m BY <1>6, <2>1, <2>2
    <2>3. CASE e = m /\ k = n BY <1>3, <1>4, <1>6, <1>8, <2>3
    <2>4. CASE e = m /\ k # n
      <3>1. scopes'[e] = new /\ scopes[e] = Top BY <1>3, <1>6, <2>4
      <3>2. new.constants[k] = Top.constants[k] /\ new.names[k] = Top.names[k] BY <1>8, <2>4
      <3> QED BY <1>4, <2>1, <3>1, <3>2
    <2> QED BY <2>2, <2>3, <2>4
  <1>11. DefinitionOutermost'
    BY <1>1, <1>2, <1>3, <1>4, <1>6, <1>9 DEF DefinitionOutermost
  <1> QED BY <1>1, <1>2, <1>10, <1>11

\* A scope is entered.
LEMMA NamesEntered ==
    ASSUME TypeOK, NamesLogged, DefinitionOutermost, NEW new, Enter(new),
           \A n \in Names : /\ new.names[n] = "none" <=> new.constants[n] = <<>>
                            /\ new.names[n] = "typedef" => new.block,
           new.definition => ~InScope /\ ~new.block /\ stage' = "header",
           stage' = stage \/ ~InScope
    PROVE  NamesLogged' /\ DefinitionOutermost'
  <1>1. PICK m \in Nat : m = Depth /\ m = Len(scopes) BY DEF TypeOK, Depth
  <1>2. /\ Depth' = m + 1 /\ scopes'[m + 1] = new
        /\ \A e \in 1..m : scopes'[e] = scopes[e]
    BY <1>1, TablesEntered DEF Depth
  <1>3. \A e \in 1..(m + 1) : e \in 1..m \/ e = m + 1 BY <1>1
  <1>4. NamesLogged'
    <2> SUFFICES ASSUME NEW e \in 1..(m + 1), NEW k \in Names
                 PROVE  /\ scopes'[e].names[k] = "none" <=> scopes'[e].constants[k] = <<>>
                        /\ scopes'[e].names[k] = "typedef" => scopes'[e].block
      BY <1>2 DEF NamesLogged
    <2>1. CASE e \in 1..m BY <1>1, <1>2, <2>1 DEF NamesLogged
    <2>2. CASE e = m + 1 BY <1>2, <2>2
    <2> QED BY <1>3, <2>1, <2>2
  <1>5. DefinitionOutermost'
    <2> SUFFICES ASSUME NEW e \in 1..(m + 1), scopes'[e].definition
                 PROVE  e = 1 /\ ~scopes'[e].block /\ stage' \in {"header", "failed"}
      BY <1>2 DEF DefinitionOutermost
    <2>1. CASE e \in 1..m
      <3>1. stage' = stage BY <1>1, <2>1 DEF InScope
      <3> QED BY <1>1, <1>2, <2>1, <3>1 DEF DefinitionOutermost
    <2>2. CASE e = m + 1
      <3>1. new.definition BY <1>2, <2>2
      <3>2. m = 0 BY <1>1, <3>1 DEF InScope
      <3> QED BY <1>2, <2>2, <3>1, <3>2
    <2> QED BY <1>3, <2>1, <2>2
  <1> QED BY <1>4, <1>5

\* Leaving the parameters of a definition captures what they declare.
LEMMA OwnLeft ==
    ASSUME ScopesInv, TagDepthExact, ConstantsVisible, NamesLogged, DefinitionOutermost,
           leave_prototype, Top.definition
    PROVE  OwnCaptured' /\ Depth = 1
  <1>0. TypeOK BY DEF ScopesInv
  <1>1. PICK m \in Nat \ {0} : m = Depth /\ m = Len(scopes)
    BY <1>0 DEF TypeOK, Depth, leave_prototype, InScope
  <1>2. m = 1 /\ ~Top.block /\ stage \in {"header", "failed"} /\ Top = scopes[1] /\ 1 \in 1..Depth
    <2>1. m \in 1..Depth BY <1>1
    <2> QED BY <1>1, <2>1 DEF Top, DefinitionOutermost
  <1>3. /\ own' = [tables |-> Tables, scope |-> Top] /\ function_scope' = Captured(Top)
    BY <1>2 DEF leave_prototype, capture_function_scope, Running
  <1>4. ~InScope'
    <2>1. Len(scopes') = 0 BY <1>1, <1>2, TablesLeft
    <2> QED BY <2>1 DEF InScope, Depth
  <1>5. own'.tables = Tables /\ own'.scope = Top BY <1>3
  <1>6. Tables \in TableRecord /\ Top \in ScopeRecord
    BY <1>0, TopType DEF Tables, TableRecord, TypeOK, leave_prototype
  <1>7. Tables.tags = tags /\ Tables.constants = constants BY DEF Tables
  <1>8. TablesAt(1) = Tables BY <1>1, <1>2 DEF TablesAt
  <1>9. ASSUME NEW t \in Tags, Top.tags[t] # <<>> PROVE tags[t] # None
    <2>1. 1 \in BindersOf(t, 1) BY <1>2, <1>9 DEF BindersOf
    <2>2. TagDepthAt(1) BY <1>1, <1>2 DEF TagDepthExact
    <2> QED BY <1>7, <1>8, <2>1, <2>2 DEF TagDepthAt
  <1>10. ASSUME NEW n \in Names
         PROVE  /\ Top.names[n] = "none" <=> Top.constants[n] = <<>>
                /\ Top.names[n] # "typedef"
                /\ Top.names[n] # "none" => (constants[n] # None <=> Top.names[n] = "enumerator")
    <2>1. /\ Top.names[n] = "none" <=> Top.constants[n] = <<>>
          /\ Top.names[n] # "typedef"
      BY <1>2 DEF NamesLogged
    <2>2. ConstantsAt(1) BY <1>1, <1>2 DEF ConstantsVisible
    <2>3. ASSUME Top.names[n] # "none" PROVE constants[n] # None <=> Top.names[n] = "enumerator"
      <3>1. 1 \in NamersOf(n, 1) /\ \A f \in NamersOf(n, 1) : f <= 1 BY <1>2, <2>3 DEF NamersOf
      <3> QED BY <1>2, <1>7, <1>8, <2>2, <3>1 DEF ConstantsAt
    <2> QED BY <2>1, <2>3
  <1>11. OwnComplete' BY <1>5, <1>6, <1>7, <1>9, <1>10 DEF OwnComplete
  <1>12. function_scope' = [tags |-> Bound(own'.tables.tags, own'.scope.tags),
                            constants |-> Bound(own'.tables.constants, own'.scope.constants),
                            parameters |-> {n \in Names : own'.scope.names[n] = "object"},
                            ids |-> own'.scope.ids]
    BY <1>3, <1>5, <1>7 DEF Captured
  <1> QED BY <1>1, <1>2, <1>4, <1>11, <1>12 DEF OwnCaptured, Bound

\* Every step keeps the captured scope that of the definition's own parameters.
LEMMA NextCapture ==
    ScopesInv /\ TagDepthExact /\ ConstantsVisible /\ CaptureInv /\ [Next]_vars => CaptureInv'
  <1> SUFFICES ASSUME ScopesInv, TagDepthExact, ConstantsVisible, CaptureInv, [Next]_vars
               PROVE  CaptureInv'
    OBVIOUS
  <1>0. TypeOK BY DEF ScopesInv
  <1> USE DEF CaptureInv
  <1>n. PICK m \in Nat : m = Depth /\ m = Len(scopes) BY <1>0 DEF TypeOK, Depth
  <1>o. ASSUME UNCHANGED <<function_scope, own>>, stage' = stage \/ stage' # "declared", Depth' = Depth
        PROVE  OwnCaptured'
    BY <1>o DEF OwnCaptured, InScope, OwnComplete
  <1>1. ASSUME NEW t \in Tags, NEW kind \in Kinds, bind_tag(t) \/ StandaloneTag(t, kind),
               UNCHANGED <<function_scope, own, stage>>
        PROVE  CaptureInv'
    <2>1. /\ Len(scopes') = m
          /\ \A e \in 1..m : /\ scopes'[e].names = scopes[e].names
                             /\ scopes'[e].constants = scopes[e].constants
                             /\ scopes'[e].block = scopes[e].block
                             /\ scopes'[e].definition = scopes[e].definition
      BY <1>0, <1>1, <1>n, BindTagNames
    <2>2. Depth' = m /\ m <= Depth /\ m \in Int BY <1>n, <2>1 DEF Depth
    <2>3. NamesLogged' /\ DefinitionOutermost' BY <1>0, <1>1, <2>1, <2>2, NamesKept
    <2> QED BY <1>1, <1>n, <1>o, <2>2, <2>3
  <1>2. ASSUME UNCHANGED <<scopes, function_scope, own>>,
               stage' = stage \/ stage' = "failed"
        PROVE  CaptureInv'
    <2>1. Depth' = m /\ m <= Depth /\ m \in Int BY <1>2, <1>n DEF Depth
    <2>2. NamesLogged' /\ DefinitionOutermost' BY <1>0, <1>2, <2>1, NamesKept
    <2> QED BY <1>2, <1>n, <1>o, <2>1, <2>2
  <1>3. ASSUME NEW t \in Tags, NEW kind \in Kinds, IntroduceTag(t, kind) PROVE CaptureInv'
    BY <1>1, <1>3 DEF IntroduceTag
  <1>4. ASSUME NEW t \in Tags, NEW kind \in Kinds, StandaloneTag(t, kind) PROVE CaptureInv'
    <2>1. UNCHANGED <<function_scope, own, stage>> BY <1>4 DEF StandaloneTag
    <2> QED BY <1>1, <1>4, <2>1
  <1>5. ASSUME NEW t \in Tags, NEW kind \in Kinds, BeginBody(t, kind) PROVE CaptureInv'
    <2>1. CASE Here(t) BY <1>2, <1>5, <2>1 DEF BeginBody
    <2>2. CASE ~Here(t) BY <1>1, <1>5, <2>2 DEF BeginBody
    <2> QED BY <2>1, <2>2
  <1>6. CASE EndBody BY <1>2, <1>6 DEF EndBody
  <1>7. ASSUME NEW n \in Names, NEW v \in Values, Enumerator(n, v) PROVE CaptureInv'
    <2>1. CASE InScope
      <3>1. NameDeclared(n, v, "enumerator") /\ UNCHANGED <<tags, stage, function_scope, own>>
        BY <1>7, <2>1 DEF Enumerator, NameDeclared
      <3>2. NamesLogged' /\ DefinitionOutermost' /\ Depth' = Depth
        BY <1>0, <2>1, <3>1, NamesDeclared DEF NameClasses
      <3> QED BY <1>o, <3>1, <3>2
    <2>2. CASE ~InScope BY <1>2, <1>7, <2>2 DEF Enumerator
    <2> QED BY <2>1, <2>2
  <1>8. ASSUME NEW n \in Names, NEW class \in {"object", "typedef"}, DeclareLocal(n, class)
        PROVE  CaptureInv'
    <2>1. /\ NameDeclared(n, None, class) /\ InScope /\ UNCHANGED <<tags, stage, function_scope, own>>
          /\ class = "typedef" => Top.block
      BY <1>8 DEF DeclareLocal, Hide, NameDeclared
    <2>2. NamesLogged' /\ DefinitionOutermost' /\ Depth' = Depth
      BY <1>0, <2>1, NamesDeclared DEF NameClasses
    <2> QED BY <1>o, <2>1, <2>2
  <1>9. ASSUME NEW n \in Names, DeclareFile(n) PROVE CaptureInv'
    BY <1>2, <1>9 DEF DeclareFile
  <1>10. CASE BeginDefinition
    <2>1. m = 0 /\ stage' = "header" /\ scopes' = scopes BY <1>10, <1>n DEF BeginDefinition, InScope
    <2>2. Depth' = m /\ m <= Depth /\ m \in Int
      <3>1. Len(scopes') = m /\ Len(scopes) = m BY <1>n, <2>1
      <3>2. Depth' = m /\ Depth = m BY <3>1 DEF Depth
      <3> QED BY <3>2
    <2>3. NamesLogged' /\ DefinitionOutermost' BY <1>0, <2>1, <2>2, NamesKept
    <2>4. OwnCaptured' BY <2>1 DEF OwnCaptured
    <2> QED BY <2>3, <2>4
  <1>11. CASE Fail BY <1>2, <1>11 DEF Fail
  <1>12. CASE UNCHANGED vars BY <1>2, <1>12 DEF vars
  <1>13. ASSUME NEW definition \in BOOLEAN, EnterPrototype(definition) PROVE CaptureInv'
    <2> DEFINE new == EmptyScope(FALSE, definition)
    <2>1. /\ Enter(new) /\ stage' = stage
          /\ definition => stage = "header" /\ ~InScope
      BY <1>13 DEF EnterPrototype
    <2>2. /\ new.block = FALSE /\ new.definition = definition
          /\ \A n \in Names : new.names[n] = "none" /\ new.constants[n] = <<>>
      BY DEF EmptyScope
    <2> HIDE DEF new
    <2>3. NamesLogged' /\ DefinitionOutermost' BY <1>0, <2>1, <2>2, NamesEntered
    <2>4. OwnCaptured'
      BY <1>13 DEF OwnCaptured, EnterPrototype
    <2> QED BY <2>3, <2>4
  <1>14. CASE EnterBlock
    <2> DEFINE new == EmptyScope(TRUE, FALSE)
    <2>1. Enter(new) /\ stage' = stage /\ stage = "body" BY <1>14 DEF EnterBlock
    <2>2. /\ new.block = TRUE /\ new.definition = FALSE
          /\ \A n \in Names : new.names[n] = "none" /\ new.constants[n] = <<>>
      BY DEF EmptyScope
    <2> HIDE DEF new
    <2>3. NamesLogged' /\ DefinitionOutermost' BY <1>0, <2>1, <2>2, NamesEntered
    <2>4. OwnCaptured' BY <2>1 DEF OwnCaptured
    <2> QED BY <2>3, <2>4
  <1>15. CASE leave_prototype
    <2>1. /\ Depth' = m - 1 /\ m - 1 <= Depth /\ m - 1 \in Int
          /\ \A e \in 1..(m - 1) : scopes'[e] = scopes[e]
      BY <1>15, <1>n, TablesLeft DEF Depth
    <2>2. CASE Top.definition
      <3>1. OwnCaptured' /\ m = 1 BY <1>15, <1>n, <2>2, OwnLeft
      <3>2. m - 1 = 0 BY <3>1
      <3>3. NamesLogged' /\ DefinitionOutermost' BY <1>0, <2>1, <3>2, NamesKept
      <3> QED BY <3>1, <3>3
    <2>3. CASE ~Top.definition
      <3>1. stage' = stage \/ (stage' = "file" /\ m = 1) BY <1>15, <1>n, <2>3 DEF leave_prototype
      <3>2. stage' = stage \/ m - 1 = 0 BY <3>1
      <3>3. NamesLogged' /\ DefinitionOutermost' BY <1>0, <2>1, <3>2, NamesKept
      <3>4. OwnCaptured'
        <4>1. InScope BY <1>15 DEF leave_prototype
        <4> QED BY <3>1, <4>1 DEF OwnCaptured
      <3> QED BY <3>3, <3>4
    <2> QED BY <2>2, <2>3
  <1>16. CASE EnterBody
    <2> DEFINE new == BodyScope(function_scope)
    <2>1. Enter(new) /\ stage' = "body" /\ ~InScope BY <1>16 DEF EnterBody
    <2>2. /\ new.block = TRUE /\ new.definition = FALSE
          /\ new.names = BodyNames(function_scope)
          /\ new.constants = [n \in Names |-> IF BodyNames(function_scope)[n] = "none" THEN <<>>
                                              ELSE <<constants[n]>>]
      BY DEF BodyScope, EmptyScope
    <2>3. \A n \in Names : new.names[n] = "none" <=> new.constants[n] = <<>>
      <3> SUFFICES ASSUME NEW n \in Names PROVE new.names[n] = "none" <=> new.constants[n] = <<>>
        OBVIOUS
      <3>1. new.constants[n] = IF BodyNames(function_scope)[n] = "none" THEN <<>> ELSE <<constants[n]>>
        BY <2>2
      <3> HIDE DEF new
      <3> QED BY <2>2, <3>1
    <2> HIDE DEF new
    <2>4. NamesLogged' /\ DefinitionOutermost' BY <1>0, <2>1, <2>2, <2>3, NamesEntered
    <2>5. OwnCaptured' BY <2>1 DEF OwnCaptured
    <2> QED BY <2>4, <2>5
  <1> QED
    BY <1>3, <1>4, <1>5, <1>6, <1>7, <1>8, <1>9, <1>10, <1>11, <1>12, <1>13, <1>14, <1>15, <1>16
    DEF Next, Failed

\* Entering the body of a definition gives it the bindings of its own parameters.
LEMMA BodyStep ==
    ASSUME ~TrailingTypes, TypeOK, CaptureInv, EnterBody
    PROVE  /\ \A t \in Tags :
                 IF own.scope.tags[t] = <<>> THEN tags'[t] = tags[t]
                 ELSE tags'[t] # None /\ tags'[t].id = own.tables.tags[t].id
           /\ \A n \in Names :
                 /\ scopes'[1].names[n] = own.scope.names[n]
                 /\ own.scope.names[n] # "none" => constants'[n] = own.tables.constants[n]
  <1>1. /\ OwnComplete
        /\ function_scope = [tags |-> Bound(own.tables.tags, own.scope.tags),
                             constants |-> Bound(own.tables.constants, own.scope.constants),
                             parameters |-> {n \in Names : own.scope.names[n] = "object"},
                             ids |-> own.scope.ids]
    BY DEF CaptureInv, OwnCaptured, EnterBody
  <1>2. /\ own.tables.tags \in TagTable /\ own.tables.constants \in ConstantTable
        /\ own.scope.names \in [Names -> NameClasses]
    BY <1>1 DEF OwnComplete, TableRecord, ScopeRecord
  <1>3. ASSUME NEW t \in Tags
        PROVE  IF own.scope.tags[t] = <<>> THEN tags'[t] = tags[t]
               ELSE tags'[t] # None /\ tags'[t].id = own.tables.tags[t].id
    <2>1. function_scope.tags[t] = IF own.scope.tags[t] = <<>> THEN None ELSE own.tables.tags[t]
      BY <1>1, <1>2 DEF Bound, TagTable
    <2>2. tags'[t] = IF function_scope.tags[t] = None THEN tags[t]
                     ELSE [id |-> function_scope.tags[t].id, depth |-> Depth + 1]
      BY DEF EnterBody
    <2>3. CASE own.scope.tags[t] = <<>> BY <2>1, <2>2, <2>3
    <2>4. CASE own.scope.tags[t] # <<>>
      <3>1. own.tables.tags[t] # None /\ own.tables.tags[t] \in Binding \cup {None}
        BY <1>1, <1>2, <2>4 DEF OwnComplete, TagTable
      <3>2. tags'[t] = [id |-> own.tables.tags[t].id, depth |-> Depth + 1]
        BY <2>1, <2>2, <2>4, <3>1
      <3>3. own.tables.tags[t].id \in Nat /\ Depth + 1 \in Nat
        BY <3>1 DEF Binding, TypeOK, Depth
      <3>4. tags'[t] \in Binding BY <3>2, <3>3 DEF Binding
      <3> QED BY <2>4, <3>2, <3>4, NoBindingAssumption
    <2> QED BY <2>3, <2>4
  <1>4. scopes'[1].names = BodyNames(function_scope)
    <2>1. Enter(BodyScope(function_scope)) /\ Len(scopes) = 0
      BY DEF EnterBody, TypeOK, InScope, Depth
    <2>2. scopes'[1] = BodyScope(function_scope) BY <2>1, TablesEntered
    <2> QED BY <2>2 DEF BodyScope, EmptyScope
  <1>5. ASSUME NEW n \in Names
        PROVE  /\ scopes'[1].names[n] = own.scope.names[n]
               /\ own.scope.names[n] # "none" => constants'[n] = own.tables.constants[n]
    <2>1. /\ function_scope.constants[n]
               = IF own.scope.constants[n] = <<>> THEN None ELSE own.tables.constants[n]
          /\ n \in function_scope.parameters <=> own.scope.names[n] = "object"
      BY <1>1, <1>2 DEF Bound, ConstantTable
    <2>2. /\ own.scope.names[n] = "none" <=> own.scope.constants[n] = <<>>
          /\ own.scope.names[n] \in {"none", "object", "enumerator"}
          /\ own.scope.names[n] # "none" =>
               (own.tables.constants[n] # None <=> own.scope.names[n] = "enumerator")
      BY <1>1, <1>2 DEF OwnComplete, NameClasses
    <2>3. scopes'[1].names[n] = IF n \in function_scope.parameters THEN "object"
                                ELSE IF function_scope.constants[n] # None THEN "enumerator" ELSE "none"
      BY <1>4 DEF BodyNames
    <2>4. constants'[n] = IF n \in function_scope.parameters THEN None
                          ELSE IF function_scope.constants[n] # None THEN function_scope.constants[n]
                          ELSE constants[n]
      BY DEF EnterBody
    <2> QED BY <2>1, <2>2, <2>3, <2>4
  <1> QED BY <1>3, <1>5

\* Only EndBody closes a body, and it completes what EnumsOpenOnce says of it.
LEMMA EnumStep ==
    ASSUME ScopesInv, TypesInv, [Next]_vars, Completes, types[Completed].kind = "enum"
    PROVE  ~types[Completed].complete
  <1>0. open \in Seq([id : Nat, depth : Nat]) /\ Len(open) \in Nat BY DEF ScopesInv, TypeOK
  <1>1. ASSUME UNCHANGED open PROVE FALSE BY <1>0, <1>1 DEF Completes
  <1>2. ASSUME NEW e, open' = Append(open, e) PROVE FALSE
    <2>1. Len(open') = Len(open) + 1 BY <1>0, <1>2
    <2> QED BY <1>0, <2>1 DEF Completes
  <1>3. EndBody
    BY <1>1, <1>2
    DEF Next, IntroduceTag, StandaloneTag, BeginBody, Enumerator, DeclareLocal, DeclareFile,
        EnterPrototype, EnterBlock, leave_prototype, BeginDefinition, EnterBody, Fail, Failed, vars
  <1>4. Len(open) \in DOMAIN open BY <1>0, <1>3 DEF EndBody, Open
  <1> QED BY <1>4 DEF TypesInv, EnumsOpenOnce, Completed

\* record_type, enum_type and FunctionScope: a body completes a type of the scope
\* it is written in, no enumeration gets its enumerators twice and, where no
\* attribute behind the declarator names function types, the body of a definition
\* starts with the bindings of its own parameter list.
THEOREM BodiesHold == ~TrailingTypes => (Spec => BodiesScoped)
  <1> SUFFICES ASSUME ~TrailingTypes PROVE Spec => BodiesScoped
    OBVIOUS
  <1>1. Init => TypesInv /\ CaptureInv
    <2> SUFFICES ASSUME Init PROVE TypesInv /\ CaptureInv
      OBVIOUS
    <2>1. Depth = 0 /\ DOMAIN open = {} /\ TablesAt(0).tags = [t \in Tags |-> None]
      BY DEF Init, Depth, TablesAt, Tables
    <2>2. TypesInv
      BY <2>1 DEF Init, TypesInv, TagsScoped, PrototypesScoped, CaptureScoped, BodiesNested,
                  BodiesStayInScope, EnumsOpenOnce
    <2>3. CaptureInv
      BY <2>1 DEF Init, CaptureInv, NamesLogged, DefinitionOutermost, OwnCaptured
    <2> QED BY <2>2, <2>3
  <1>2. TypesInv => BodiesStayInScope BY DEF TypesInv
  <1>3. ScopesInv /\ CaptureInv /\ [Next]_vars =>
          [stage = "declared" /\ stage' = "body" =>
             /\ \A t \in Tags :
                   IF own.scope.tags[t] = <<>> THEN tags'[t] = tags[t]
                   ELSE tags'[t] # None /\ tags'[t].id = own.tables.tags[t].id
             /\ \A n \in Names :
                   /\ scopes'[1].names[n] = own.scope.names[n]
                   /\ own.scope.names[n] # "none" =>
                         constants'[n] = own.tables.constants[n]]_vars
    <2> SUFFICES ASSUME ScopesInv, CaptureInv, [Next]_vars, stage = "declared", stage' = "body"
                 PROVE  EnterBody
      BY BodyStep DEF ScopesInv
    <2> QED
      BY DEF Next, IntroduceTag, StandaloneTag, BeginBody, EndBody, Enumerator, DeclareLocal, DeclareFile,
             EnterPrototype, EnterBlock, leave_prototype, BeginDefinition, Fail, Failed, vars
  <1>4. ScopesInv /\ TypesInv /\ [Next]_vars =>
          [Completes /\ types[Completed].kind = "enum" => ~types[Completed].complete]_vars
    BY EnumStep
  <1> QED
    BY <1>1, <1>2, <1>3, <1>4, NextTypes, NextCapture, ScopesInvariant, TagDepthHolds, ConstantsHold, PTL
    DEF Spec, BodiesScoped, BodySeesItsParameters, EnumsDefinedOnce
=============================================================================
